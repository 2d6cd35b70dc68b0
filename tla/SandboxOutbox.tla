--------------------------- MODULE SandboxOutbox ---------------------------
(***************************************************************************)
(* The transactional outbox of the Upstox sandbox: the order and outbox    *)
(* tables, the delivery workers (engine/sandbox/outbox_worker.py), the     *)
(* cancel request of a user (services/paper_service.py), the manual        *)
(* reconciliation (services/sandbox_service.py) and, external, the broker. *)
(*                                                                         *)
(* A database transaction is one atomic step.  The engine opens every      *)
(* transaction of a writer with BEGIN IMMEDIATE (database.py), so two      *)
(* transactions never overlap.  The one transaction of the worker that is  *)
(* several steps here - claim a batch or pass on a record whose gate is    *)
(* closed, and so on up to the next pre-transmission marker - is held by   *)
(* `txn': nobody else touches the tables meanwhile, and a crash in it rolls *)
(* it back, which is a crash before it began.                              *)
(*                                                                         *)
(* Time is abstract: a lease may lapse, and a backoff may elapse, at any   *)
(* moment after it was set.                                                *)
(***************************************************************************)
EXTENDS OrderStates, Naturals, Sequences, FiniteSets

CONSTANTS
    Orders,        \* orders of BROKER_SANDBOX runtimes
    BuyOrders,     \* those that reserve cash
    Workers,       \* outbox worker processes
    Nobody,        \* no worker
    BatchSize,     \* records one poll claims at most
    MaxAttempts,   \* SubmissionOutbox.max_attempts
    MaxCancels,    \* bound: CANCEL records of one order
    MaxAccepts,    \* bound: placements of one order the broker accepts
    MaxCrashes,    \* bound: worker crashes in one behaviour
    VaryingGates   \* bound: the transmission gates the environment moves

ASSUME OutboxAssumption ==
    /\ IsFiniteSet(Orders)
    /\ BuyOrders \subseteq Orders
    /\ Nobody \notin Workers
    /\ BatchSize \in Nat \ {0}
    /\ MaxAttempts \in Nat \ {0}
    /\ MaxCancels \in Nat
    /\ MaxAccepts \in Nat
    /\ MaxCrashes \in Nat

VARIABLES
    \* the database
    order,      \* order[o]: status of order o
    outbox,     \* outbox[r]: the outbox row r
    recon,      \* recon[r]: the reconciliation case of row r
    link,       \* link[o]: provider order ids of o's external order links
    cash,       \* cash[o]: the cash reservation of o
    \* the workers
    pc,         \* where worker w is in process_batch
    batch,      \* batch[w]: claimed rows still to handle, the current one first
    reply,      \* reply[w]: the broker's answer to w's call, once it has come
    txn,        \* the worker whose transaction is open, or Nobody
    crashes,    \* crashes so far
    \* outside
    wire,       \* requests sent and neither handled nor lost
    sent,       \* sent[r]: times row r was sent, 2 for more than once
    accepted,   \* accepted[o]: placements of o the broker has accepted
    live,       \* live[o]: those it has not cancelled
    clear       \* clear[g]: transmission gate g lets records through

db == <<order, outbox, recon, link, cash>>
workers == <<pc, batch, reply, txn, crashes>>
broker == <<wire, sent, accepted, live>>
vars == <<db, workers, broker, clear>>

-----------------------------------------------------------------------------
(* Row <<o, 0>> is the PLACE row of order o (key place:o), row <<o, k>> the *)
(* k-th CANCEL row (keys cancel:o, cancel:o:1, ...).                        *)
Rows == Orders \X (0..MaxCancels)
OrderOf(r) == r[1]
IsPlace(r) == r[2] = 0
PlaceRow(o) == <<o, 0>>

Queued == {"PENDING", "RETRY_SCHEDULED"}
OutboxStatus ==
    Queued \cup {"ABSENT", "CLAIMED", "DELIVERED", "RECONCILIATION_REQUIRED",
                 "DEAD_LETTER"}
OutboxRow ==
    [status    : OutboxStatus,
     claimedBy : Workers \cup {Nobody},
     lease     : {"none", "held", "lapsed"},
     due       : BOOLEAN,                 \* next_attempt_at has come
     attempts  : 0..MaxAttempts,          \* saturates: only compared with max_attempts
     marked    : BOOLEAN]                 \* transmission_started_at is set
NoRow == [status |-> "ABSENT", claimedBy |-> Nobody, lease |-> "none",
          due |-> FALSE, attempts |-> 0, marked |-> FALSE]
NewRow == [NoRow EXCEPT !.status = "PENDING", !.due = TRUE]

PlaceResolutions == {"PLACE_CONFIRMED", "PLACE_REJECTED"}
CancelResolutions == {"CANCEL_CONFIRMED", "CANCEL_NOT_CONFIRMED"}
CaseStatus == {"NONE", "OPEN"} \cup PlaceResolutions \cup CancelResolutions

Gates == {"network", "killSwitch", "mapping"}

ProviderIds == 1..MaxAccepts
NoReply == [kind |-> "none", id |-> 0]
Replies ==
    [kind : {"none", "rejected"}, id : {0}]
    \cup [kind : {"placed", "cancelled"}, id : ProviderIds]
Requests == [row : Rows, id : 0..MaxAccepts, by : Workers]

TypeOK ==
    /\ order \in [Orders -> OrderStatus]
    /\ outbox \in [Rows -> OutboxRow]
    /\ recon \in [Rows -> CaseStatus]
    /\ link \in [Orders -> SUBSET ProviderIds]
    /\ cash \in [Orders -> {"NONE", "HELD", "RELEASED"}]
    /\ pc \in [Workers -> {"idle", "batch", "marked", "http"}]
    /\ batch \in [Workers -> Seq(Rows)]
    /\ reply \in [Workers -> Replies]
    /\ txn \in Workers \cup {Nobody}
    /\ crashes \in 0..MaxCrashes
    /\ wire \subseteq Requests
    /\ sent \in [Rows -> 0..2]
    /\ accepted \in [Orders -> 0..MaxAccepts]
    /\ live \in [Orders -> SUBSET ProviderIds]
    /\ clear \in [Gates -> BOOLEAN]

Init ==
    /\ order = [o \in Orders |-> "CREATED"]
    /\ outbox = [r \in Rows |-> NoRow]
    /\ recon = [r \in Rows |-> "NONE"]
    /\ link = [o \in Orders |-> {}]
    /\ cash = [o \in Orders |-> "NONE"]
    /\ pc = [w \in Workers |-> "idle"]
    /\ batch = [w \in Workers |-> <<>>]
    /\ reply = [w \in Workers |-> NoReply]
    /\ txn = Nobody
    /\ crashes = 0
    /\ wire = {}
    /\ sent = [r \in Rows |-> 0]
    /\ accepted = [o \in Orders |-> 0]
    /\ live = [o \in Orders |-> {}]
    /\ clear = [g \in Gates |-> TRUE]

-----------------------------------------------------------------------------
(* Rows after an update.  Freed also drops the claim. *)
Freed(row, s) == [row EXCEPT !.status = s, !.claimedBy = Nobody, !.lease = "none"]
Claimed(row, w) ==
    [row EXCEPT !.status = "CLAIMED", !.claimedBy = w, !.lease = "held",
                !.attempts = IF @ < MaxAttempts THEN @ + 1 ELSE @]

(* _release_reserved_cash, _release_order_cash_reservation: BUY orders only, *)
(* once (idempotency key order_release:<id>).  No fill reaches a sandbox     *)
(* order (is_sandbox_authoritative_trades_supported is False), so the whole  *)
(* reservation is released.                                                  *)
Released(o) == [cash EXCEPT ![o] = IF @ = "HELD" THEN "RELEASED" ELSE @]

(* check_outbox_transmission_gates: the network gate (environment, toggle,   *)
(* owner, token) for every row, kill switches and mapping for PLACE only.    *)
GatesPass(r) ==
    /\ clear["network"]
    /\ IsPlace(r) => clear["killSwitch"] /\ clear["mapping"]

(* The order of the claim query: CANCEL before PLACE, then any order (due    *)
(* and creation times are abstract), at most BatchSize rows.                 *)
Batches(D) ==
    LET n == IF Cardinality(D) < BatchSize THEN Cardinality(D) ELSE BatchSize
    IN {s \in [1..n -> D] :
          /\ \A i, j \in 1..n : i < j => /\ s[i] # s[j]
                                         /\ IsPlace(s[i]) => IsPlace(s[j])
          /\ \A r \in D : \/ IsPlace(r)
                          \/ \E i \in 1..n : s[i] = r
                          \/ \A i \in 1..n : ~IsPlace(s[i])}

(* The worker is done with the head of its batch. *)
Advance(w) ==
    /\ batch' = [batch EXCEPT ![w] = Tail(@)]
    /\ pc' = [pc EXCEPT ![w] = IF Tail(batch[w]) = <<>> THEN "idle" ELSE "batch"]
    /\ reply' = [reply EXCEPT ![w] = NoReply]

(* process_record commits at its end.                                        *)
NextRecord(w) ==
    /\ Advance(w)
    /\ txn' = Nobody

(* process_record returns early where a gate is closed: what it wrote is     *)
(* committed with the marker of the next record, or at the end of the batch. *)
NextUncommitted(w) ==
    /\ Advance(w)
    /\ txn' = IF Tail(batch[w]) = <<>> THEN Nobody ELSE w

(* An exception leaves process_batch: run() rolls back, drops the batch and  *)
(* polls again.                                                              *)
Abandon(w) ==
    /\ batch' = [batch EXCEPT ![w] = <<>>]
    /\ pc' = [pc EXCEPT ![w] = "idle"]
    /\ txn' = txn
    /\ reply' = [reply EXCEPT ![w] = NoReply]

-----------------------------------------------------------------------------
(* The strategy engine has passed the risk checks and routed the order to    *)
(* the sandbox: order, reservation and PLACE row in one transaction.         *)
SubmitOrder(o) ==
    /\ txn = Nobody
    /\ order[o] = "CREATED"
    /\ order' = [order EXCEPT ![o] = "PENDING_SUBMISSION"]
    /\ outbox' = [outbox EXCEPT ![PlaceRow(o)] = NewRow]
    /\ cash' = [cash EXCEPT ![o] = IF o \in BuyOrders THEN "HELD" ELSE @]
    /\ UNCHANGED <<recon, link, workers, broker, clear>>

CancelRows(o) == {r \in Rows : OrderOf(r) = o /\ ~IsPlace(r) /\ outbox[r].status # "ABSENT"}
ActiveCancel(o) ==
    \E r \in CancelRows(o) :
        outbox[r].status \in Queued \cup {"CLAIMED", "RECONCILIATION_REQUIRED"}

(* The next CANCEL row of o: rows are never deleted, so the count in its     *)
(* idempotency key is that of the rows before it.                            *)
NextCancel(o, k) ==
    /\ outbox[<<o, k>>].status = "ABSENT"
    /\ \A j \in 1..(k - 1) : outbox[<<o, j>>].status # "ABSENT"

(* PaperService._cancel_order_internal on the sandbox path: the order waits  *)
(* in CANCEL_PENDING, and a CANCEL row is queued unless one is active.       *)
RequestCancel(o) ==
    /\ txn = Nobody
    /\ CanMove(order[o], "CANCEL_PENDING")
    /\ order' = [order EXCEPT ![o] = "CANCEL_PENDING"]
    /\ \/ /\ ActiveCancel(o)
          /\ UNCHANGED outbox
       \/ /\ ~ActiveCancel(o)
          /\ \E k \in 1..MaxCancels :
                /\ NextCancel(o, k)
                /\ outbox' = [outbox EXCEPT ![<<o, k>>] = NewRow]
    /\ UNCHANGED <<recon, link, cash, workers, broker, clear>>

-----------------------------------------------------------------------------
LapsedRows == {r \in Rows : outbox[r].status = "CLAIMED" /\ outbox[r].lease = "lapsed"}
DueRows == {r \in Rows : outbox[r].status \in Queued /\ outbox[r].due}

(* Mutants of Recovered: a marked row is requeued; a marked row is left.     *)
RecoveredByRequeue(row) == Freed(row, "RETRY_SCHEDULED")
RecoveredUnlessMarked(row) == IF row.marked THEN row ELSE Freed(row, "RETRY_SCHEDULED")

(* recover_expired_leases on one row: requeued when its transmission has not *)
(* begun, otherwise failed closed.                                           *)
Recovered(row) ==
    Freed(row, IF row.marked THEN "RECONCILIATION_REQUIRED" ELSE "RETRY_SCHEDULED")

(* Mutant of Opened: no case is opened. *)
NotOpened(case) == case

(* A case is opened once: the second insert violates a constraint.           *)
Opened(case) == IF case = "NONE" THEN "OPEN" ELSE case

(* process_batch: recover_expired_leases, then claim_records.  A lapsed row  *)
(* that fails closed takes its order along where the table lets it move, and *)
(* opens a case.  The session has autoflush off, so the claim query does not *)
(* see the rows just requeued, but opening a case flushes those before it.   *)
Poll(w) ==
    /\ pc[w] = "idle"
    /\ txn = Nobody
    /\ LET stuck == {r \in LapsedRows : outbox[r].marked}
           stuckOrders == {OrderOf(r) : r \in stuck}
           Row(r) == IF r \in LapsedRows THEN Recovered(outbox[r]) ELSE outbox[r]
           requeued == {r \in LapsedRows : Row(r).status \in Queued}
       IN \E flushed \in SUBSET requeued : \E s \in Batches(DueRows \cup flushed) :
            /\ stuck = {} => flushed = {}
            /\ outbox' = [r \in Rows |->
                 IF \E i \in DOMAIN s : s[i] = r THEN Claimed(Row(r), w) ELSE Row(r)]
            /\ order' = [o \in Orders |->
                 IF o \in stuckOrders /\ CanMove(order[o], "RECONCILIATION_REQUIRED")
                 THEN "RECONCILIATION_REQUIRED" ELSE order[o]]
            /\ recon' = [r \in Rows |-> IF r \in stuck THEN Opened(recon[r]) ELSE recon[r]]
            /\ batch' = [batch EXCEPT ![w] = s]
            /\ pc' = [pc EXCEPT ![w] = IF s = <<>> THEN "idle" ELSE "batch"]
            /\ txn' = IF s = <<>> THEN Nobody ELSE w
    /\ UNCHANGED <<link, cash, reply, crashes, broker, clear>>

(* Mutant of StatusAfterDeadLetter: a dead CANCEL leaves its order waiting.  *)
NoRevertAfterDeadLetter(r, status) ==
    IF IsPlace(r) /\ status = "PENDING_SUBMISSION" THEN "PROVIDER_REJECTED" ELSE status

(* Mutant of StatusAfterDeadLetter: only the order of a dead CANCEL moves.   *)
DeadPlaceForgotten(r, status) ==
    IF ~IsPlace(r) /\ status = "CANCEL_PENDING" THEN "ACKNOWLEDGED" ELSE status

(* A dead PLACE rejects its order, a dead CANCEL puts it back.               *)
StatusAfterDeadLetter(r, status) ==
    CASE IsPlace(r) /\ status = "PENDING_SUBMISSION" -> "PROVIDER_REJECTED"
      [] ~IsPlace(r) /\ status = "CANCEL_PENDING" -> "ACKNOWLEDGED"
      [] OTHER -> status

(* process_record finds a gate closed: reschedule, or dead-letter once the   *)
(* attempts are used up, and release the cash of an order that rejects.      *)
GateBlocked(w) ==
    /\ pc[w] = "batch"
    /\ txn \in {w, Nobody}
    /\ LET r == Head(batch[w])
           o == OrderOf(r)
           dead == outbox[r].attempts >= MaxAttempts
           status == IF dead THEN StatusAfterDeadLetter(r, order[o]) ELSE order[o]
       IN /\ ~GatesPass(r)
          /\ outbox' = [outbox EXCEPT ![r] =
               IF dead THEN Freed(@, "DEAD_LETTER")
                       ELSE [Freed(@, "RETRY_SCHEDULED") EXCEPT !.due = FALSE]]
          /\ order' = [order EXCEPT ![o] = status]
          /\ cash' = IF status = "PROVIDER_REJECTED" /\ order[o] # status
                     THEN Released(o) ELSE cash
    /\ NextUncommitted(w)
    /\ UNCHANGED <<recon, link, crashes, broker, clear>>

(* Mutant of CommitMarker: the marker is not made durable.                   *)
SkipMarker(w) ==
    /\ pc[w] = "batch"
    /\ txn \in {w, Nobody}
    /\ GatesPass(Head(batch[w]))
    /\ pc' = [pc EXCEPT ![w] = "marked"]
    /\ txn' = Nobody
    /\ UNCHANGED <<db, batch, reply, crashes, broker, clear>>

(* _commit_transmission_marker: the gates pass, and the marker is committed  *)
(* before anything is sent.                                                  *)
CommitMarker(w) ==
    /\ pc[w] = "batch"
    /\ txn \in {w, Nobody}
    /\ GatesPass(Head(batch[w]))
    /\ outbox' = [outbox EXCEPT ![Head(batch[w])].marked = TRUE]
    /\ pc' = [pc EXCEPT ![w] = "marked"]
    /\ txn' = Nobody
    /\ UNCHANGED <<order, recon, link, cash, batch, reply, crashes, broker, clear>>

Send(w, r, id) ==
    /\ wire' = wire \cup {[row |-> r, id |-> id, by |-> w]}
    /\ sent' = [sent EXCEPT ![r] = IF @ < 2 THEN @ + 1 ELSE @]
    /\ pc' = [pc EXCEPT ![w] = "http"]
    /\ UNCHANGED <<db, batch, reply, txn>>

(* _handle_place_action up to the call: only a PENDING_SUBMISSION order is   *)
(* sent; any other dead-letters the row, which keeps its claim columns.      *)
DispatchPlace(w) ==
    /\ pc[w] = "marked"
    /\ txn = Nobody
    /\ LET r == Head(batch[w])
       IN /\ IsPlace(r)
          /\ \/ /\ order[OrderOf(r)] = "PENDING_SUBMISSION"
                /\ Send(w, r, 0)
             \/ /\ order[OrderOf(r)] # "PENDING_SUBMISSION"
                /\ outbox' = [outbox EXCEPT ![r].status = "DEAD_LETTER"]
                /\ NextRecord(w)
                /\ UNCHANGED <<order, recon, link, cash, wire, sent>>
    /\ UNCHANGED <<crashes, accepted, live, clear>>

(* _handle_cancel_action up to the call: an order without an external link   *)
(* is cancelled locally.                                                     *)
DispatchCancel(w) ==
    /\ pc[w] = "marked"
    /\ txn = Nobody
    /\ LET r == Head(batch[w])
           o == OrderOf(r)
       IN /\ ~IsPlace(r)
          /\ \/ \E id \in link[o] : Send(w, r, id)
             \/ /\ link[o] = {}
                /\ CanMove(order[o], "CANCELLED")
                /\ order' = [order EXCEPT ![o] = "CANCELLED"]
                /\ cash' = Released(o)
                /\ outbox' = [outbox EXCEPT ![r] = Freed(@, "DELIVERED")]
                /\ NextRecord(w)
                /\ UNCHANGED <<recon, link, wire, sent>>
             \/ /\ link[o] = {}
                /\ ~CanMove(order[o], "CANCELLED")
                /\ Abandon(w)
                /\ UNCHANGED <<db, wire, sent>>
    /\ UNCHANGED <<crashes, accepted, live, clear>>

-----------------------------------------------------------------------------
(* The answers of the broker, handled.  place_order or cancel_order has      *)
(* returned or raised; process_record commits.                               *)

(* Mutants of PlaceAcknowledged: the provider order id is not stored; an     *)
(* answer without an id is stored.                                           *)
AcknowledgedWithoutLink(w) ==
    LET r == Head(batch[w])
        o == OrderOf(r)
    IN /\ reply[w].kind = "placed"
       /\ order' = [order EXCEPT ![o] = "ACKNOWLEDGED"]
       /\ outbox' = [outbox EXCEPT ![r] = Freed(@, "DELIVERED")]
       /\ NextRecord(w)
       /\ UNCHANGED <<recon, link, cash>>
AcknowledgedWithoutId(w) ==
    LET r == Head(batch[w])
        o == OrderOf(r)
    IN /\ reply[w].kind = "placed"
       /\ link' = [link EXCEPT ![o] = @ \cup {0}]
       /\ order' = [order EXCEPT ![o] = "ACKNOWLEDGED"]
       /\ outbox' = [outbox EXCEPT ![r] = Freed(@, "DELIVERED")]
       /\ NextRecord(w)
       /\ UNCHANGED <<recon, cash>>

(* UpstoxPlaceResult: the order is acknowledged whatever its status is now   *)
(* (the transition is validated from the status read before the call).  A    *)
(* second link to the same provider id violates a constraint at commit.      *)
PlaceAcknowledged(w) ==
    LET r == Head(batch[w])
        o == OrderOf(r)
        id == reply[w].id
    IN /\ reply[w].kind = "placed"
       /\ \/ /\ id \notin link[o]
             /\ link' = [link EXCEPT ![o] = @ \cup {id}]
             /\ order' = [order EXCEPT ![o] = "ACKNOWLEDGED"]
             /\ outbox' = [outbox EXCEPT ![r] = Freed(@, "DELIVERED")]
             /\ NextRecord(w)
             /\ UNCHANGED <<recon, cash>>
          \/ /\ id \in link[o]
             /\ Abandon(w)
             /\ UNCHANGED db

(* Mutant of PlaceRejected: the transition is not validated.                 *)
RejectedUnvalidated(w) ==
    LET r == Head(batch[w])
        o == OrderOf(r)
    IN /\ reply[w].kind = "rejected"
       /\ order' = [order EXCEPT ![o] = "PROVIDER_REJECTED"]
       /\ cash' = Released(o)
       /\ outbox' = [outbox EXCEPT ![r] = Freed(@, "DEAD_LETTER")]
       /\ NextRecord(w)
       /\ UNCHANGED <<recon, link>>

(* UpstoxClientError on a placement. *)
PlaceRejected(w) ==
    LET r == Head(batch[w])
        o == OrderOf(r)
    IN /\ reply[w].kind = "rejected"
       /\ \/ /\ CanMove(order[o], "PROVIDER_REJECTED")
             /\ order' = [order EXCEPT ![o] = "PROVIDER_REJECTED"]
             /\ cash' = Released(o)
             /\ outbox' = [outbox EXCEPT ![r] = Freed(@, "DEAD_LETTER")]
             /\ NextRecord(w)
             /\ UNCHANGED <<recon, link>>
          \/ /\ ~CanMove(order[o], "PROVIDER_REJECTED")
             /\ Abandon(w)
             /\ UNCHANGED db

(* UpstoxCancelResult. *)
CancelConfirmed(w) ==
    LET r == Head(batch[w])
        o == OrderOf(r)
    IN /\ reply[w].kind = "cancelled"
       /\ \/ /\ CanMove(order[o], "CANCELLED")
             /\ order' = [order EXCEPT ![o] = "CANCELLED"]
             /\ cash' = Released(o)
             /\ outbox' = [outbox EXCEPT ![r] = Freed(@, "DELIVERED")]
             /\ NextRecord(w)
             /\ UNCHANGED <<recon, link>>
          \/ /\ ~CanMove(order[o], "CANCELLED")
             /\ Abandon(w)
             /\ UNCHANGED db

(* _transition_to_reconciliation: a timeout, a 429, a 5xx, an unreadable     *)
(* body, or a client error on a cancel - whether or not the broker acted.    *)
(* The order moves when the table lets it; the case is opened once.          *)
Ambiguous(w) ==
    LET r == Head(batch[w])
        o == OrderOf(r)
    IN /\ order' = [order EXCEPT ![o] =
            IF CanMove(@, "RECONCILIATION_REQUIRED") THEN "RECONCILIATION_REQUIRED" ELSE @]
       /\ outbox' = [outbox EXCEPT ![r] = Freed(@, "RECONCILIATION_REQUIRED")]
       /\ recon' = [recon EXCEPT ![r] = Opened(@)]
       /\ NextRecord(w)
       /\ UNCHANGED <<link, cash>>

Settle(w) ==
    /\ pc[w] = "http"
    /\ txn = Nobody
    /\ PlaceAcknowledged(w) \/ PlaceRejected(w) \/ CancelConfirmed(w) \/ Ambiguous(w)
    /\ UNCHANGED <<crashes, broker, clear>>

(* The process dies, or its settling transaction cannot be committed.        *)
Crash(w) ==
    /\ pc[w] # "idle"
    /\ txn # w
    /\ crashes < MaxCrashes
    /\ crashes' = crashes + 1
    /\ Abandon(w)
    /\ UNCHANGED <<db, broker, clear>>

-----------------------------------------------------------------------------
(* What the operator, external, answers: what the broker shows, once no      *)
(* request for the order is under way.                                       *)
BrokerAgrees(o, res) ==
    CASE res = "PLACE_CONFIRMED" -> accepted[o] > 0
      [] res = "PLACE_REJECTED" -> accepted[o] = 0
      [] res = "CANCEL_CONFIRMED" -> live[o] = {}
      [] res = "CANCEL_NOT_CONFIRMED" -> live[o] # {}
      [] OTHER -> FALSE

(* SandboxService.resolve_reconciliation.  "Outbox remains permanently        *)
(* RECONCILIATION_REQUIRED".                                                 *)
RowAfterResolve(row, res) == row

Resolve(r, res) ==
    LET o == OrderOf(r)
    IN /\ txn = Nobody
       /\ recon[r] = "OPEN"
       /\ order[o] = "RECONCILIATION_REQUIRED"
       /\ outbox[r].status = "RECONCILIATION_REQUIRED"
       /\ res \in IF IsPlace(r) THEN PlaceResolutions ELSE CancelResolutions
       /\ BrokerAgrees(o, res)
       /\ \A q \in wire : OrderOf(q.row) # o
       /\ recon' = [recon EXCEPT ![r] = res]
       /\ order' = [order EXCEPT ![o] =
            CASE res = "PLACE_REJECTED" -> "PROVIDER_REJECTED"
              [] res = "CANCEL_CONFIRMED" -> "CANCELLED"
              [] OTHER -> "ACKNOWLEDGED"]
       /\ cash' = IF res \in {"PLACE_REJECTED", "CANCEL_CONFIRMED"} THEN Released(o) ELSE cash
       /\ link' = IF res = "PLACE_CONFIRMED" /\ link[o] = {}
                  THEN [link EXCEPT ![o] = {accepted[o]}] ELSE link
       /\ outbox' = [outbox EXCEPT ![r] = RowAfterResolve(@, res)]
       /\ UNCHANGED <<workers, broker, clear>>

-----------------------------------------------------------------------------
(* External: the broker handles a request, and the answer reaches the worker *)
(* that still waits for it.                                                  *)
Answer(q, a) ==
    reply' = IF pc[q.by] = "http" /\ Head(batch[q.by]) = q.row
             THEN [reply EXCEPT ![q.by] = a] ELSE reply

BrokerPlaces(q) ==
    LET o == OrderOf(q.row)
    IN /\ IsPlace(q.row)
       /\ wire' = wire \ {q}
       /\ \/ /\ accepted[o] < MaxAccepts
             /\ accepted' = [accepted EXCEPT ![o] = @ + 1]
             /\ live' = [live EXCEPT ![o] = @ \cup {accepted[o] + 1}]
             /\ Answer(q, [kind |-> "placed", id |-> accepted[o] + 1])
          \/ /\ Answer(q, [kind |-> "rejected", id |-> 0])
             /\ UNCHANGED <<accepted, live>>

BrokerCancels(q) ==
    LET o == OrderOf(q.row)
    IN /\ ~IsPlace(q.row)
       /\ q.id \in live[o]
       /\ wire' = wire \ {q}
       /\ live' = [live EXCEPT ![o] = @ \ {q.id}]
       /\ Answer(q, [kind |-> "cancelled", id |-> q.id])
       /\ UNCHANGED accepted

(* The request never reaches the broker, or the broker refuses it.           *)
RequestLost(q) ==
    /\ wire' = wire \ {q}
    /\ UNCHANGED <<accepted, live, reply>>

Broker ==
    /\ \E q \in wire : BrokerPlaces(q) \/ BrokerCancels(q) \/ RequestLost(q)
    /\ UNCHANGED <<db, pc, batch, txn, crashes, sent, clear>>

(* The claim of row r outlives its lease; the backoff of row r elapses.      *)
LeaseLapses(r) ==
    /\ outbox[r].status = "CLAIMED"
    /\ outbox[r].lease = "held"
    /\ txn # outbox[r].claimedBy
    /\ outbox' = [outbox EXCEPT ![r].lease = "lapsed"]
    /\ UNCHANGED <<order, recon, link, cash, workers, broker, clear>>

BackoffElapses(r) ==
    /\ outbox[r].status = "RETRY_SCHEDULED"
    /\ ~outbox[r].due
    /\ outbox' = [outbox EXCEPT ![r].due = TRUE]
    /\ UNCHANGED <<order, recon, link, cash, workers, broker, clear>>

(* An operator moves a gate.  reset_kill_switch is refused while an order is *)
(* in CANCEL_PENDING.                                                        *)
MoveGate(g) ==
    /\ txn = Nobody
    /\ g = "killSwitch" /\ ~clear[g] => \A o \in Orders : order[o] # "CANCEL_PENDING"
    /\ clear' = [clear EXCEPT ![g] = ~@]
    /\ UNCHANGED <<db, workers, broker>>

-----------------------------------------------------------------------------
WorkerStep(w) ==
    \/ Poll(w)
    \/ GateBlocked(w)
    \/ CommitMarker(w)
    \/ DispatchPlace(w)
    \/ DispatchCancel(w)
    \/ Settle(w)

Next ==
    \/ \E o \in Orders : SubmitOrder(o) \/ RequestCancel(o)
    \/ \E w \in Workers : WorkerStep(w) \/ Crash(w)
    \/ \E r \in Rows : LeaseLapses(r) \/ BackoffElapses(r)
    \/ \E r \in Rows, res \in CaseStatus : Resolve(r, res)
    \/ \E g \in VaryingGates : MoveGate(g)
    \/ Broker

Spec == Init /\ [][Next]_vars

(* A worker process keeps polling, a lease and a backoff run out.            *)
Fairness ==
    /\ \A w \in Workers : WF_vars(WorkerStep(w))
    /\ \A r \in Rows : WF_vars(LeaseLapses(r)) /\ WF_vars(BackoffElapses(r))

FairSpec == Spec /\ Fairness

-----------------------------------------------------------------------------
(* What a record the worker has finished with can say. *)
FinalRow == {"DELIVERED", "RECONCILIATION_REQUIRED", "DEAD_LETTER"}

(* Nothing reaches the broker for a row whose transmission marker is not     *)
(* durable: a crash after the call always finds the marker                   *)
(* (_commit_transmission_marker before every adapter call).                  *)
MarkerPrecedesTransmission ==
    \A r \in Rows : sent[r] > 0 => outbox[r].marked

(* A row is transmitted at most once, whatever crashes, lapses and requeues  *)
(* happen in between (recover_expired_leases: "NEVER retransmit").  The code *)
(* keeps this with one worker, or with one row per claim, and breaks it with *)
(* two workers and a row that waits in a batch while its lease lapses.       *)
TransmittedAtMostOnce ==
    \A r \in Rows : sent[r] <= 1

(* Every order alive at the broker is known here: an external link names it, *)
(* or its PLACE row is still in flight and will be recovered, or an open     *)
(* reconciliation case waits for the operator.                               *)
LiveIsKnown ==
    \A o \in Orders : \A id \in live[o] :
        \/ id \in link[o]
        \/ outbox[PlaceRow(o)].status = "CLAIMED" /\ outbox[PlaceRow(o)].marked
        \/ recon[PlaceRow(o)] = "OPEN"

(* A cancelled order whose provider order is known is not alive there.       *)
CancelledIsDead ==
    \A o \in Orders : order[o] = "CANCELLED" => live[o] \cap link[o] = {}

(* No timeout, crash, lapse or late answer loses an order at the broker: what *)
(* is alive there is linked, in flight or in an open case (no link does not  *)
(* mean no broker order), and what is linked and alive is not cancelled here *)
(* (_handle_place_action, _handle_cancel_action, recover_expired_leases).    *)
AcceptedIsAccounted ==
    LiveIsKnown /\ CancelledIsDead

(* Cash follows the order: reserved on submission, released once with the    *)
(* move to a final status by whichever of worker and operator makes it, and  *)
(* held as long as the placement is not dead.  A PLACE row that exhausts its *)
(* retries, or is refused, has released the cash (docs: "reserved cash is    *)
(* released exactly once"), unless a cancel was requested: then the death of *)
(* the row leaves order and cash to the CANCEL row, which the code does not  *)
(* always settle.                                                            *)
ReservationFollowsOrder ==
    \A o \in BuyOrders :
        /\ cash[o] = "NONE" <=> order[o] = "CREATED"
        /\ order[o] \in Terminal => cash[o] = "RELEASED"
        /\ /\ order[o] \notin {"CREATED"} \cup Terminal
           /\ outbox[PlaceRow(o)].status # "DEAD_LETTER"
           => cash[o] = "HELD"
        /\ outbox[PlaceRow(o)].status = "DEAD_LETTER" /\ CancelRows(o) = {}
           => cash[o] = "RELEASED"

(* The status of a row is what is known of its transmission: it has a         *)
(* reconciliation case exactly when the outcome is ambiguous, and DELIVERED   *)
(* is unambiguous success - a placement is linked to its provider order, a    *)
(* cancel has cancelled its order - whatever the operator resolves meanwhile. *)
RowTellsOutcome ==
    \A r \in Rows :
        /\ recon[r] # "NONE" <=> outbox[r].status = "RECONCILIATION_REQUIRED"
        /\ outbox[r].status = "DELIVERED" =>
              IF IsPlace(r) THEN link[OrderOf(r)] # {} ELSE order[OrderOf(r)] = "CANCELLED"

(* The CANCEL rows of an order that can still be sent.                       *)
Sendable(o) == {r \in CancelRows(o) : outbox[r].status \in Queued \cup {"CLAIMED"}}

(* An order never has two CANCEL rows to send, and as long as the outcome of *)
(* each of its cancels is known, waiting in CANCEL_PENDING it has one: a     *)
(* CANCEL row that is delivered or dead has moved its order on ("Never leave *)
(* order stuck in CANCEL_PENDING").  A cancel that was ambiguous, resolved or *)
(* not, is the one thing that can leave it without a row to send.            *)
CancelPendingIsDriven ==
    \A o \in Orders :
        /\ \A r, q \in Sendable(o) : r = q
        /\ /\ order[o] = "CANCEL_PENDING"
           /\ \A r \in CancelRows(o) : outbox[r].status # "RECONCILIATION_REQUIRED"
           => Sendable(o) # {}

(* With one worker every order moves along VALID_ORDER_TRANSITIONS: nothing  *)
(* the users, the operator, crashes and recovery do during a broker call     *)
(* outdates the status the worker read before it.                            *)
Lifecycle == INSTANCE OrderLifecycle
    WITH Orders <- Orders, order <- order
FollowsLifecycle == Lifecycle!Spec

(* With several workers the table is left in one way only: the answer to a   *)
(* placement arrives after another worker or the operator has decided the    *)
(* order; the answer links the order and acknowledges it all the same.       *)
OnlyLateAnswersLeaveTable ==
    [][\A o \in Orders :
          \/ order'[o] = order[o]
          \/ CanMove(order[o], order'[o])
          \/ order'[o] = "ACKNOWLEDGED" /\ link'[o] # link[o]]_vars

(* Every row that is queued gets an outcome, whatever the gates do.          *)
EveryRowSettles ==
    \A r \in Rows : outbox[r].status = "PENDING" ~> outbox[r].status \in FinalRow

(* A cancel request whose row is on its way is decided: the order leaves     *)
(* CANCEL_PENDING ("Never leave order stuck in CANCEL_PENDING").             *)
CancelRequestIsDecided ==
    \A o \in Orders :
        (/\ order[o] = "CANCEL_PENDING"
         /\ \E r \in CancelRows(o) : outbox[r].status \in Queued)
        ~> order[o] # "CANCEL_PENDING"
=============================================================================
