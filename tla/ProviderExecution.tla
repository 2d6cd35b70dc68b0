------------------------- MODULE ProviderExecution -------------------------
(***************************************************************************)
(* The evaluation of provider candles for one BROKER_SANDBOX runtime: the  *)
(* worker processes (engine/provider_execution/worker.py) and the engine   *)
(* they call (engine/provider_execution/engine.py), over the runtime, its  *)
(* orchestration configuration, its evaluations, its orders and the CANCEL *)
(* rows it queues for the outbox.                                          *)
(*                                                                         *)
(* A cycle is a transaction that claims the lease, a request to the        *)
(* provider that holds no lock, and a transaction that checks the claim,   *)
(* evaluates one candle and gives the lease back; a cycle that fails gives *)
(* it back in a transaction of its own.  BEGIN IMMEDIATE (database.py)     *)
(* makes each transaction one step, and anything may happen in between.    *)
(*                                                                         *)
(* Candle c opens at c - 1 and closes at c.  The runtime's                 *)
(* last_processed_candle_timestamp is the close of a candle, so the candle *)
(* that opens there is the next number.  The generation of a claim is      *)
(* represented by the process that acquired it, as in OrchestrationWorker. *)
(* The kill switch halts a running runtime in the transaction that engages *)
(* it, so the engine's own kill switch gate is never the first to refuse.  *)
(***************************************************************************)
EXTENDS OrderStates, Naturals, FiniteSets

CONSTANTS
    Workers,      \* provider evaluation worker processes
    WorkerId,     \* WorkerId[w]: its worker_id; an operator may give it (cli.py)
    Nobody,       \* no worker
    LastCandle,   \* the candles are 1..LastCandle
    Absent,       \* candles missing from the provider's series
    OffSession,   \* candles that open outside a verified market session
    MaxStaleness, \* max_price_staleness_seconds, in candles
    Rules,        \* what the rule may say: a set of [Candles -> RuleStatus]
    EntryTrigger, \* trigger_status of the entry mapping, "NONE" without one
    ExitTrigger,  \* trigger_status of the exit mapping
    Horizon,      \* bound: the clock stops here
    MaxMishaps    \* bound: failed requests and evaluations, crashes, early lapses

Candles == 1..LastCandle
RuleStatus == {"TRUE", "FALSE", "UNAVAILABLE"}
TriggerStatus == {"ON_TRUE", "ON_FALSE", "NONE"}

ASSUME ProviderAssumption ==
    /\ Nobody \notin Workers
    /\ \A w \in Workers : WorkerId[w] # Nobody
    /\ LastCandle \in Nat
    /\ Absent \subseteq Candles
    /\ OffSession \subseteq Candles
    /\ MaxStaleness \in Nat
    /\ Rules \subseteq [Candles -> RuleStatus]
    /\ EntryTrigger \in TriggerStatus
    /\ ExitTrigger \in TriggerStatus
    /\ Horizon \in Nat
    /\ MaxMishaps \in Nat

VARIABLES
    now,         \* the clock
    rule,        \* rule[c]: what the strategy's rule says of candle c
    \* the database
    status,      \* StrategyRuntime.status
    mapping,     \* the frozen instrument mapping, an element of MappingStatus
    owner,       \* lease_owner
    unexpired,   \* lease_expires_at is in the future
    fence,       \* process that acquired the current fencing_generation
    cursor,      \* last_processed_candle_timestamp, 0 while it is NULL
    journal,     \* journal[c]: the outcome in the RuntimeEvaluation of candle c
    order,       \* order[c]: status of the order entered on candle c
    cancel,      \* cancel[c]: status of that order's "sandbox:cancel:" row
    \* the workers
    pc,          \* where worker w is in its cycle
    last,        \* last[w]: the cursor it read with its claim
    target,      \* target[w]: the candle it is to evaluate
    mishaps      \* failed requests, crashes and early lapses so far

lease == <<owner, unexpired, fence>>
records == <<cursor, journal, order, cancel>>
process == <<pc, last, target>>
vars == <<now, rule, status, mapping, lease, records, process, mishaps>>

RuntimeStatus == {"RUNNING", "PAUSED", "HALTED", "STOPPED"}
(* VERIFIED, VERIFIED beyond its expiry_date, REJECTED or DISABLED. *)
MappingStatus == {"verified", "expired", "withdrawn"}
Decisions == {"NO_TRIGGER", "REJECTED", "ENTRY", "NOTHING_OPEN", "EXIT"}
Notes == {"PRICE_STALE", "MARKET_CLOSED"}
CancelStatus ==
    {"PENDING", "CLAIMED", "RETRY_SCHEDULED", "DELIVERED",
     "RECONCILIATION_REQUIRED", "DEAD_LETTER"}
NoRecord == "NONE"

Init ==
    /\ now = 0
    /\ rule \in Rules
    /\ status = "RUNNING"
    /\ mapping = "verified"
    /\ owner = Nobody
    /\ unexpired = FALSE
    /\ fence = Nobody
    /\ cursor = 0
    /\ journal = [c \in Candles |-> NoRecord]
    /\ order = [c \in Candles |-> NoRecord]
    /\ cancel = [c \in Candles |-> NoRecord]
    /\ pc = [w \in Workers |-> "idle"]
    /\ last = [w \in Workers |-> 0]
    /\ target = [w \in Workers |-> 0]
    /\ mishaps = 0

-----------------------------------------------------------------------------
(* The worker: claim, request, release. *)

(* claim_runtime_lease and its commit: the filter of the query, the        *)
(* verified mapping, whose expiry it does not look at, a new generation.   *)
ClaimRuntimeLease(w) ==
    /\ pc[w] = "idle"
    /\ status = "RUNNING"
    /\ owner = Nobody \/ ~unexpired
    /\ mapping # "withdrawn"
    /\ owner' = WorkerId[w]
    /\ unexpired' = TRUE
    /\ fence' = w
    /\ pc' = [pc EXCEPT ![w] = "requesting"]
    /\ last' = [last EXCEPT ![w] = cursor]
    /\ UNCHANGED <<now, rule, status, mapping, records, target, mishaps>>

(* Mutant of NextTarget: the newest closed candle. *)
NewestTarget(w) ==
    LET closed == {c \in Candles \ Absent : c <= now}
    IN  {c \in closed : c > last[w] /\ \A d \in closed : d <= c}

(* Mutant of NextTarget: the candle at the cursor, in the series or not. *)
TargetAtCursor(w) == {last[w] + 1}

(* The closed candles of the series, and the one to evaluate: the first if *)
(* the claim came with no cursor, else the one that opens at the cursor;   *)
(* none when that is missing or not closed yet.                            *)
NextTarget(w) ==
    LET closed == {c \in Candles \ Absent : c <= now}
    IN  IF last[w] = 0 THEN {c \in closed : \A d \in closed : c <= d}
                       ELSE {c \in closed : c = last[w] + 1}

(* acquire_provider_candles: the provider answers and has the target. *)
AcquireProviderCandles(w) ==
    /\ pc[w] = "requesting"
    /\ \E c \in NextTarget(w) : target' = [target EXCEPT ![w] = c]
    /\ pc' = [pc EXCEPT ![w] = "evaluating"]
    /\ UNCHANGED <<now, rule, status, mapping, lease, records, last, mishaps>>

(* release_runtime_lease: whoever has the worker's id gives the lease back, *)
(* whatever its generation.                                                 *)
ReleaseRuntimeLease(w) ==
    IF owner = WorkerId[w]
    THEN owner' = Nobody /\ unexpired' = FALSE
    ELSE UNCHANGED <<owner, unexpired>>

EndCycle(w) ==
    /\ ReleaseRuntimeLease(w)
    /\ pc' = [pc EXCEPT ![w] = "idle"]
    /\ last' = [last EXCEPT ![w] = 0]
    /\ target' = [target EXCEPT ![w] = 0]
    /\ UNCHANGED fence

(* No target: nothing new, a gap in the series, nothing closed; or the     *)
(* request fails.                                                          *)
AcquisitionFails(w) ==
    /\ pc[w] = "requesting"
    /\ \/ NextTarget(w) = {} /\ UNCHANGED mishaps
       \/ mishaps < MaxMishaps /\ mishaps' = mishaps + 1
    /\ EndCycle(w)
    /\ UNCHANGED <<now, rule, status, mapping, records>>

(* Mutant of Holds: the lease's owner is compared, not the generation. *)
HoldsById(w) == owner = WorkerId[w]

(* fencing_generation is the one of the claim. *)
Holds(w) == fence = w

(* evaluate_runtime_candle's gates on the runtime and its mapping. *)
MayExecute == status = "RUNNING" /\ mapping = "verified"

(* _verify_operator_consent: the consent is bound to the mapping that the  *)
(* configuration froze, in its version; what replaces a withdrawn mapping  *)
(* is a new version.                                                       *)
Consented == mapping # "withdrawn"

(* The candle belongs to the series the provider gave, and has closed.     *)
InAcquiredSeries(c) == c \in Candles \ Absent
Completed(c) == c <= now

(* What is checked before anything is written. *)
Admitted(w) ==
    /\ Holds(w)
    /\ MayExecute
    /\ Consented
    /\ InAcquiredSeries(target[w])
    /\ Completed(target[w])

(* A check fails, or the series or the evaluation raises: rollback.  The   *)
(* lease is released in a second transaction.                              *)
EvaluationFails(w) ==
    /\ pc[w] = "evaluating"
    /\ \/ ~Admitted(w) /\ UNCHANGED mishaps
       \/ Admitted(w) /\ mishaps < MaxMishaps /\ mishaps' = mishaps + 1
    /\ pc' = [pc EXCEPT ![w] = "rolled back"]
    /\ UNCHANGED <<now, rule, status, mapping, lease, records, last, target>>

ReleaseAfterRollback(w) ==
    /\ pc[w] = "rolled back"
    /\ EndCycle(w)
    /\ UNCHANGED <<now, rule, status, mapping, records, mishaps>>

-----------------------------------------------------------------------------
(* The engine: evaluate_runtime_candle of a candle that is after the       *)
(* cursor (the claim is current, so the cursor is the one it was made at). *)

(* The row of runtime_evaluations for a candle.  Another row of the same   *)
(* runtime, timeframe and close is a unique violation: the savepoint rolls *)
(* back.                                                                   *)
RuntimeEvaluation(c, what) ==
    journal' = IF journal[c] = NoRecord THEN [journal EXCEPT ![c] = what] ELSE journal

IsCandleStale(c) == now > c + MaxStaleness

(* _check_action_trigger *)
Fires(trigger, c) ==
    \/ trigger = "ON_TRUE" /\ rule[c] = "TRUE"
    \/ trigger = "ON_FALSE" /\ rule[c] = "FALSE"

Evaluates(w) ==
    /\ pc[w] = "evaluating"
    /\ Admitted(w)
    /\ EndCycle(w)
    /\ UNCHANGED <<now, rule, status, mapping, mishaps>>

(* A stale candle, or one outside the session: no action is recorded, and  *)
(* the cursor stays where it is.                                           *)
NoteCandle(w, c) ==
    /\ IsCandleStale(c) \/ c \in OffSession
    /\ RuntimeEvaluation(c, IF IsCandleStale(c) THEN "PRICE_STALE" ELSE "MARKET_CLOSED")
    /\ UNCHANGED <<cursor, order, cancel>>

Tradable(c) == ~IsCandleStale(c) /\ c \notin OffSession

(* _process_no_action, when neither mapping fires. *)
NoTrigger(w, c) ==
    /\ Tradable(c)
    /\ ~Fires(EntryTrigger, c) /\ ~Fires(ExitTrigger, c)
    /\ RuntimeEvaluation(c, "NO_TRIGGER")
    /\ cursor' = IF journal[c] = NoRecord THEN c ELSE cursor
    /\ UNCHANGED <<order, cancel>>

(* _process_entry_action: the pre-trade risk engine refuses.  A duplicate  *)
(* is swallowed here, and the cursor moves in any case.                    *)
EntryRejected(w, c) ==
    /\ Tradable(c)
    /\ Fires(EntryTrigger, c)
    /\ RuntimeEvaluation(c, "REJECTED")
    /\ cursor' = c
    /\ UNCHANGED <<order, cancel>>

(* _process_entry_action: evaluation, intent, order, reservation and PLACE *)
(* row in one savepoint.                                                   *)
EntryAccepted(w, c) ==
    /\ Tradable(c)
    /\ Fires(EntryTrigger, c)
    /\ RuntimeEvaluation(c, "ENTRY")
    /\ IF journal[c] = NoRecord
       THEN order' = [order EXCEPT ![c] = "PENDING_SUBMISSION"] /\ cursor' = c
       ELSE UNCHANGED <<order, cursor>>
    /\ UNCHANGED cancel

Cancellable ==
    {"CREATED", "ACCEPTED", "PENDING_SUBMISSION", "ACKNOWLEDGED", "PARTIALLY_FILLED"}

(* The orders an exit cancels: without a CANCEL row in one of the statuses *)
(* the code asks for ("PROCESSING" is not a status of the table).          *)
OpenOrders ==
    {c \in Candles : order[c] \in Cancellable /\ cancel[c] \notin {"PENDING", "DELIVERED"}}

(* An older row has the idempotency key an exit would give its row: the    *)
(* insert is a unique violation.                                           *)
Collision == \E c \in OpenOrders : cancel[c] # NoRecord

(* Mutant of NothingOpen: like a note, it leaves the cursor alone. *)
NothingOpenIsANote(w, c) ==
    /\ Tradable(c)
    /\ ~Fires(EntryTrigger, c) /\ Fires(ExitTrigger, c)
    /\ OpenOrders = {}
    /\ RuntimeEvaluation(c, "NOTHING_OPEN")
    /\ UNCHANGED <<cursor, order, cancel>>

(* _process_exit_action with nothing to cancel. *)
NothingOpen(w, c) ==
    /\ Tradable(c)
    /\ ~Fires(EntryTrigger, c) /\ Fires(ExitTrigger, c)
    /\ OpenOrders = {}
    /\ RuntimeEvaluation(c, "NOTHING_OPEN")
    /\ cursor' = IF journal[c] = NoRecord THEN c ELSE cursor
    /\ UNCHANGED <<order, cancel>>

(* Mutant of ExitSubmitted: a collision loses its row alone. *)
ExitKeepsRest(w, c) ==
    /\ Tradable(c)
    /\ ~Fires(EntryTrigger, c) /\ Fires(ExitTrigger, c)
    /\ OpenOrders # {}
    /\ RuntimeEvaluation(c, "EXIT")
    /\ cancel' = [b \in Candles |->
                    IF b \in OpenOrders /\ cancel[b] = NoRecord THEN "PENDING" ELSE cancel[b]]
    /\ cursor' = c
    /\ UNCHANGED order

(* _process_exit_action: the evaluation and a CANCEL row for each open      *)
(* order, in one savepoint; a duplicate of either undoes both.             *)
ExitSubmitted(w, c) ==
    /\ Tradable(c)
    /\ ~Fires(EntryTrigger, c) /\ Fires(ExitTrigger, c)
    /\ OpenOrders # {}
    /\ IF journal[c] = NoRecord /\ ~Collision
       THEN /\ RuntimeEvaluation(c, "EXIT")
            /\ cancel' = [b \in Candles |-> IF b \in OpenOrders THEN "PENDING" ELSE cancel[b]]
            /\ cursor' = c
       ELSE UNCHANGED <<journal, cancel, cursor>>
    /\ UNCHANGED order

EvaluateRuntimeCandle(w) ==
    /\ Evaluates(w)
    /\ \/ NoteCandle(w, target[w])
       \/ NoTrigger(w, target[w])
       \/ EntryRejected(w, target[w])
       \/ EntryAccepted(w, target[w])
       \/ NothingOpen(w, target[w])
       \/ ExitSubmitted(w, target[w])

-----------------------------------------------------------------------------
(* Around the workers. *)

Tick == now < Horizon /\ now' = now + 1
        /\ UNCHANGED <<rule, status, mapping, lease, records, process, mishaps>>

InCycle(id) == \E w \in Workers : WorkerId[w] = id /\ pc[w] # "idle"

(* The lease of a worker that is gone runs out; that of one at work may,   *)
(* too, when the provider or the database keeps it waiting.                *)
LeaseLapses ==
    /\ owner # Nobody /\ unexpired
    /\ unexpired' = FALSE
    /\ IF InCycle(owner) THEN mishaps < MaxMishaps /\ mishaps' = mishaps + 1
                         ELSE UNCHANGED mishaps
    /\ UNCHANGED <<now, rule, status, mapping, owner, fence, records, process>>

(* The process dies and a new one takes its place. *)
Crash(w) ==
    /\ pc[w] # "idle"
    /\ mishaps < MaxMishaps
    /\ mishaps' = mishaps + 1
    /\ pc' = [pc EXCEPT ![w] = "idle"]
    /\ last' = [last EXCEPT ![w] = 0]
    /\ target' = [target EXCEPT ![w] = 0]
    /\ UNCHANGED <<now, rule, status, mapping, lease, records>>

(* The operator: pausing and stopping revoke the claim, resuming does not. *)
Pause ==
    /\ status = "RUNNING"
    /\ status' = "PAUSED"
    /\ owner' = Nobody /\ unexpired' = FALSE /\ fence' = Nobody
    /\ UNCHANGED <<now, rule, mapping, records, process, mishaps>>
Stop ==
    /\ status \in {"RUNNING", "PAUSED"}
    /\ status' = "STOPPED"
    /\ owner' = Nobody /\ unexpired' = FALSE /\ fence' = Nobody
    /\ UNCHANGED <<now, rule, mapping, records, process, mishaps>>
Resume ==
    /\ status = "PAUSED" /\ mapping = "verified"
    /\ status' = "RUNNING"
    /\ UNCHANGED <<now, rule, mapping, lease, records, process, mishaps>>
KillSwitch ==
    /\ status \in {"RUNNING", "PAUSED"}
    /\ status' = "HALTED"
    /\ UNCHANGED <<now, rule, mapping, lease, records, process, mishaps>>

(* The mapping is rejected or disabled, or expires: none of these is       *)
(* undone for the mapping a configuration froze.                           *)
WithdrawMapping ==
    /\ mapping # "withdrawn"
    /\ mapping' = "withdrawn"
    /\ UNCHANGED <<now, rule, status, lease, records, process, mishaps>>
MappingExpires ==
    /\ mapping = "verified"
    /\ mapping' = "expired"
    /\ UNCHANGED <<now, rule, status, lease, records, process, mishaps>>

(* What the outbox worker and its operator do to an order (SandboxOutbox). *)
OutboxStatus ==
    {"PENDING_SUBMISSION", "ACKNOWLEDGED", "CANCEL_PENDING",
     "RECONCILIATION_REQUIRED", "PROVIDER_REJECTED", "CANCELLED"}
OutboxMovesOrder(c) ==
    /\ order[c] # NoRecord
    /\ \E s \in NextStates(order[c]) \cap OutboxStatus : order' = [order EXCEPT ![c] = s]
    /\ UNCHANGED <<now, rule, status, mapping, lease, cursor, journal, cancel, process, mishaps>>

(* ... and to a CANCEL row, which is DELIVERED with the order's CANCELLED. *)
NextRowStatus(s) ==
    CASE s \in {"PENDING", "RETRY_SCHEDULED"} -> {"CLAIMED"}
      [] s = "CLAIMED" ->
           {"PENDING", "RETRY_SCHEDULED", "DELIVERED", "RECONCILIATION_REQUIRED", "DEAD_LETTER"}
      [] OTHER -> {}
OutboxMovesCancel(c) ==
    /\ \E s \in NextRowStatus(cancel[c]) :
         /\ cancel' = [cancel EXCEPT ![c] = s]
         /\ IF s = "DELIVERED"
            THEN CanMove(order[c], "CANCELLED") /\ order' = [order EXCEPT ![c] = "CANCELLED"]
            ELSE UNCHANGED order
    /\ UNCHANGED <<now, rule, status, mapping, lease, cursor, journal, process, mishaps>>

-----------------------------------------------------------------------------
Cycle(w) ==
    \/ ClaimRuntimeLease(w)
    \/ AcquireProviderCandles(w)
    \/ AcquisitionFails(w)
    \/ EvaluationFails(w)
    \/ ReleaseAfterRollback(w)
    \/ EvaluateRuntimeCandle(w)

Environment ==
    \/ Tick
    \/ LeaseLapses
    \/ \E w \in Workers : Crash(w)
    \/ Pause \/ Stop \/ Resume \/ KillSwitch
    \/ WithdrawMapping \/ MappingExpires
    \/ \E c \in Candles : OutboxMovesOrder(c) \/ OutboxMovesCancel(c)

Next == (\E w \in Workers : Cycle(w)) \/ Environment

(* A worker polls as long as its process runs (run); time passes, and with *)
(* it the lease of a worker that is gone.                                  *)
Fairness ==
    /\ \A w \in Workers : WF_vars(Cycle(w))
    /\ WF_vars(Tick)
    /\ WF_vars(LeaseLapses)

Spec == Init /\ [][Next]_vars /\ Fairness

-----------------------------------------------------------------------------
(* Every variable has its type. *)
TypeOK ==
    /\ now \in Nat
    /\ rule \in [Candles -> RuleStatus]
    /\ status \in RuntimeStatus
    /\ mapping \in MappingStatus
    /\ owner \in {WorkerId[w] : w \in Workers} \cup {Nobody}
    /\ unexpired \in BOOLEAN
    /\ fence \in Workers \cup {Nobody}
    /\ cursor \in Candles \cup {0}
    /\ journal \in [Candles -> Decisions \cup Notes \cup {NoRecord}]
    /\ order \in [Candles -> OrderStatus \cup {NoRecord}]
    /\ cancel \in [Candles -> CancelStatus \cup {NoRecord}]
    /\ pc \in [Workers -> {"idle", "requesting", "evaluating", "rolled back"}]
    /\ last \in [Workers -> Candles \cup {0}]
    /\ target \in [Workers -> Candles \cup {0}]
    /\ mishaps \in 0..MaxMishaps

(* The evaluations are a journal of the series without gaps or repetitions, *)
(* whichever workers wrote it: the cursor moves with a decision and never    *)
(* past a candle that was only noted.  (worker.py 210-231: the next          *)
(* eligible candle opens exactly at the cursor.)                             *)
Journal == INSTANCE CandleJournal
    WITH Candles <- Candles, Absent <- Absent, cursor <- cursor, journal <- journal
ImplementsJournal == Journal!Spec

(* A worker whose claim was revoked in the meantime, by another worker, by *)
(* a pause or by a stop, records nothing, even if it has the same          *)
(* worker_id as its successor and the runtime runs again.                  *)
RevokedClaimRecordsNothing ==
    [][records' # records =>
         \/ UNCHANGED <<cursor, journal>>
         \/ \E w \in Workers : pc[w] = "evaluating" /\ pc'[w] = "idle" /\ fence = w]_vars

(* An exit is all or nothing: when it is recorded, every order of the      *)
(* runtime that can be cancelled has a CANCEL row that will be, or was,    *)
(* delivered.                                                              *)
ExitCancelsEveryOpenOrder ==
    [][\A c \in Candles :
         (journal[c] # "EXIT" /\ journal'[c] = "EXIT") =>
            \A b \in Candles : order'[b] \in Cancellable => cancel'[b] \in {"PENDING", "DELIVERED"}
      ]_vars

(* A runtime that keeps running gets through its series, whatever workers  *)
(* crash or lose their leases, until a candle is missing or was noted, as  *)
(* long as no exit collides with an old CANCEL row.                        *)
ThroughSeries ==
    \/ cursor = LastCandle
    \/ cursor # 0 /\ cursor + 1 \in Absent
    \/ \E c \in Candles : journal[c] \in Notes
CatchesUp == (<>[](status = "RUNNING" /\ mapping = "verified" /\ ~Collision)) => <>ThroughSeries
=============================================================================
