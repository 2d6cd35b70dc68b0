------------------------ MODULE OrchestrationWorker ------------------------
(***************************************************************************)
(* The replay of strategy runtimes: the evaluation workers                 *)
(* (engine/orchestration/worker.py), the lifecycle requests of an operator *)
(* (services/orchestration_service.py) and the kill switch                 *)
(* (services/paper_service.py), over the tables strategy_runtimes,         *)
(* runtime_orchestration_configs and runtime_evaluations.                  *)
(*                                                                         *)
(* A transaction is one step: the engine opens each with BEGIN IMMEDIATE   *)
(* (database.py).  A worker's pass over one runtime is a transaction that  *)
(* claims it, one that checks it and ingests its candles, one that         *)
(* evaluates and finalizes the interval, and, where one of them rolls      *)
(* back, one that releases the lease.  Anything may happen in between.     *)
(*                                                                         *)
(* Time is abstract: a lease may lapse and a backoff elapse at any moment. *)
(* fencing_generation only grows and is only compared for equality, so it  *)
(* is represented by the worker process whose claim made the current one.  *)
(* Fills and orders of an interval belong to its commit and are not kept.  *)
(***************************************************************************)
EXTENDS Naturals, Sequences, SequencesExt, FiniteSets

CONSTANTS
    Runtimes,      \* runtime ids: numbers, their order breaks ties
    Paper,         \* those with INTERNAL_PAPER, all on one account
    OpenAt,        \* OpenAt[r]: replay_open_at
    CloseAt,       \* CloseAt[r]: replay_close_at
    Timeframe,     \* Timeframe[r]: the configured timeframe
    Workers,       \* evaluation worker processes
    WorkerId,      \* WorkerId[w]: its worker_id; an operator may give it (cli.py)
    Nobody,        \* no worker
    MaxRetries,    \* MAX_EVALUATION_RETRIES
    Interventions, \* bound: what operators and the environment do
    Failures,      \* bound: how a pass may fail
    MaxMishaps     \* bound: crashes, and leases that lapse under their worker

ASSUME OrchestrationAssumption ==
    /\ Runtimes \subseteq Nat
    /\ Paper \subseteq Runtimes
    /\ OpenAt \in [Runtimes -> Nat]
    /\ CloseAt \in [Runtimes -> Nat]
    /\ Timeframe \in [Runtimes -> Nat \ {0}]
    /\ \A r \in Runtimes :
         OpenAt[r] < CloseAt[r] /\ (CloseAt[r] - OpenAt[r]) % Timeframe[r] = 0
    /\ Nobody \notin Workers
    /\ \A w \in Workers : WorkerId[w] # Nobody
    /\ MaxRetries \in Nat \ {0}
    /\ MaxMishaps \in Nat
    /\ Interventions \subseteq {"PAUSE", "RESUME", "STOP", "KILL_SWITCH", "GATE"}
    /\ Failures \subseteq {"INGESTION", "SYNCHRONIZATION", "EVALUATION", "FINALIZATION"}

VARIABLES
    \* the database
    status,      \* status[r]: StrategyRuntime.status
    checkpoint,  \* checkpoint[r]: checkpoint_close_at, or replay_open_at while NULL
    owner,       \* owner[r]: lease_owner
    unexpired,   \* unexpired[r]: lease_expires_at is in the future
    fence,       \* fence[r]: process that acquired the current fencing_generation
    retries,     \* retries[r]: retry_count
    due,         \* due[r]: next_attempt_at is NULL or past
    log,         \* the rows of runtime_evaluations, in commit order
    killSwitch,  \* an active kill switch covers the owner of the runtimes
    eligible,    \* eligible[r]: the other readiness gates: mapping, account, ...
    \* the workers
    pc,          \* where worker w is in its pass
    job,         \* job[w]: the runtime it works on and what it has read
    mishaps      \* crashes and untimely lapses so far

db == <<status, checkpoint, owner, unexpired, fence, retries, due, log,
        killSwitch, eligible>>
workers == <<pc, job, mishaps>>
vars == <<db, workers>>

-----------------------------------------------------------------------------
RuntimeStatus == {"READY", "RUNNING", "PAUSED", "HALTED", "STOPPED", "COMPLETED"}
NoJob == [runtime |-> Nobody, boundary |-> 0, fresh |-> FALSE, charge |-> FALSE]
Ids == {WorkerId[w] : w \in Workers}

Earlier(b, r, c, s) == b < c \/ (b = c /\ r < s)

(* The interval close r evaluates next, while its replay is not at its end. *)
NextClose(r) == checkpoint[r] + Timeframe[r]
Remaining(r) == checkpoint[r] < CloseAt[r]

(* Mutant of BehindAccount: an equal close is never behind. *)
BehindAccountIgnoringTies(r) ==
    /\ r \in Paper
    /\ \E e \in ToSet(log) : e.runtime \in Paper /\ e.boundary > NextClose(r)

(* The account has committed something at or after r's next close in       *)
(* replay order: a close past it (committed_replay_watermark), or the same *)
(* close of a runtime with r's id or a greater one.                        *)
BehindAccount(r) ==
    /\ r \in Paper
    /\ \E e \in ToSet(log) :
         e.runtime \in Paper /\ ~Earlier(e.boundary, e.runtime, NextClose(r), r)

(* Mutants of BlockedByMember: a paused member gives up its place; members  *)
(* at the same close block each other.                                      *)
BlockedByRunning(r) ==
    /\ r \in Paper
    /\ \E m \in Paper \ {r} :
         /\ status[m] = "RUNNING"
         /\ NextClose(m) <= CloseAt[m]
         /\ Earlier(NextClose(m), m, NextClose(r), r)
BlockedByTie(r) ==
    /\ r \in Paper
    /\ \E m \in Paper \ {r} :
         /\ status[m] \in {"RUNNING", "PAUSED"}
         /\ NextClose(m) <= CloseAt[m]
         /\ NextClose(m) <= NextClose(r)

(* A running or paused member of the account has to evaluate before r. *)
BlockedByMember(r) ==
    /\ r \in Paper
    /\ \E m \in Paper \ {r} :
         /\ status[m] \in {"RUNNING", "PAUSED"}
         /\ NextClose(m) <= CloseAt[m]
         /\ Earlier(NextClose(m), m, NextClose(r), r)

(* Mutant of Ready: the kill switch gate is missing. *)
ReadyUnderKillSwitch(r) == eligible[r]

(* evaluate_activation_readiness, but for the lifecycle status. *)
Ready(r) == ~killSwitch /\ eligible[r]

Init ==
    /\ status = [r \in Runtimes |-> "READY"]
    /\ checkpoint = OpenAt
    /\ owner = [r \in Runtimes |-> Nobody]
    /\ unexpired = [r \in Runtimes |-> FALSE]
    /\ fence = [r \in Runtimes |-> Nobody]
    /\ retries = [r \in Runtimes |-> 0]
    /\ due = [r \in Runtimes |-> TRUE]
    /\ log = <<>>
    /\ killSwitch = FALSE
    /\ eligible = [r \in Runtimes |-> TRUE]
    /\ pc = [w \in Workers |-> "idle"]
    /\ job = [w \in Workers |-> NoJob]
    /\ mishaps = 0

-----------------------------------------------------------------------------
(* The worker *)

Claimable(r) ==
    /\ status[r] = "RUNNING"
    /\ retries[r] < MaxRetries
    /\ owner[r] = Nobody \/ ~unexpired[r]
    /\ due[r]
    /\ Remaining(r)

(* claim_next_candidate: the claimable runtime with the earliest close *)
ClaimNextCandidate(w) ==
    /\ pc[w] = "idle"
    /\ \E r \in Runtimes :
         /\ Claimable(r)
         /\ \A s \in Runtimes \ {r} :
              Claimable(s) => Earlier(NextClose(r), r, NextClose(s), s)
         /\ owner' = [owner EXCEPT ![r] = WorkerId[w]]
         /\ unexpired' = [unexpired EXCEPT ![r] = TRUE]
         /\ fence' = [fence EXCEPT ![r] = w]
         /\ job' = [job EXCEPT ![w] = [NoJob EXCEPT !.runtime = r]]
    /\ pc' = [pc EXCEPT ![w] = "claimed"]
    /\ UNCHANGED <<status, checkpoint, retries, due, log, killSwitch, eligible, mishaps>>

EndPass(w) ==
    /\ pc' = [pc EXCEPT ![w] = "idle"]
    /\ job' = [job EXCEPT ![w] = NoJob]

(* Mutant of Holds: the worker_id is taken for the generation. *)
HoldsById(w, r) == owner[r] = WorkerId[w]

(* The lease on r is w's and no later claim or request has superseded it. *)
Holds(w, r) == owner[r] = WorkerId[w] /\ fence[r] = w

(* Mutant of Release: the quarantine overwrites whatever status there is. *)
ReleaseAnyStatus(w, r, charge, later) ==
    LET quarantine == charge /\ retries[r] + 1 >= MaxRetries IN
    IF Holds(w, r)
    THEN /\ owner' = [owner EXCEPT ![r] = Nobody]
         /\ unexpired' = [unexpired EXCEPT ![r] = FALSE]
         /\ due' = [due EXCEPT ![r] = IF charge THEN quarantine ELSE ~later]
         /\ retries' = [retries EXCEPT ![r] =
                IF quarantine THEN MaxRetries ELSE IF charge THEN @ + 1 ELSE @]
         /\ status' = [status EXCEPT ![r] = IF quarantine THEN "PAUSED" ELSE @]
         /\ UNCHANGED <<checkpoint, fence, log, killSwitch, eligible>>
    ELSE UNCHANGED db

(* release_lease by w.  A charged release counts an attempt and, at the    *)
(* last one, quarantines the runtime; `later' says whether a release that  *)
(* is not charged sets next_attempt_at.                                    *)
Release(w, r, charge, later) ==
    LET quarantine == charge /\ retries[r] + 1 >= MaxRetries IN
    IF Holds(w, r)
    THEN /\ owner' = [owner EXCEPT ![r] = Nobody]
         /\ unexpired' = [unexpired EXCEPT ![r] = FALSE]
         /\ due' = [due EXCEPT ![r] = IF charge THEN quarantine ELSE ~later]
         /\ retries' = [retries EXCEPT ![r] =
                IF quarantine THEN MaxRetries ELSE IF charge THEN @ + 1 ELSE @]
         /\ status' = [status EXCEPT ![r] =
                IF quarantine /\ @ = "RUNNING" THEN "PAUSED" ELSE @]
         /\ UNCHANGED <<checkpoint, fence, log, killSwitch, eligible>>
    ELSE UNCHANGED db

(* A transaction rolled back; the release that follows is another one. *)
RollBack(w, charge) ==
    /\ pc' = [pc EXCEPT ![w] = "releasing"]
    /\ job' = [job EXCEPT ![w].charge = charge]
    /\ UNCHANGED <<db, mishaps>>

ReleaseAfterRollback(w) ==
    /\ pc[w] = "releasing"
    /\ Release(w, job[w].runtime, job[w].charge, TRUE)
    /\ EndPass(w) /\ UNCHANGED mishaps

(* process_runtime_step up to the commit of the candles *)
FindNotRunning(w) ==
    /\ pc[w] = "claimed" /\ status[job[w].runtime] # "RUNNING"
    /\ Release(w, job[w].runtime, FALSE, FALSE)
    /\ EndPass(w) /\ UNCHANGED mishaps

(* Mutant of FailGate: a closed gate costs no attempt. *)
FailGateFree(w) ==
    /\ pc[w] = "claimed" /\ status[job[w].runtime] = "RUNNING" /\ ~Ready(job[w].runtime)
    /\ Release(w, job[w].runtime, FALSE, TRUE)
    /\ EndPass(w) /\ UNCHANGED mishaps

FailGate(w) ==
    /\ pc[w] = "claimed" /\ status[job[w].runtime] = "RUNNING" /\ ~Ready(job[w].runtime)
    /\ Release(w, job[w].runtime, TRUE, TRUE)
    /\ EndPass(w) /\ UNCHANGED mishaps

(* The step past the gates.  Its branch for a checkpoint that is at the end *)
(* of the window is dead: RunningHasWork.                                  *)
Proceeds(w) ==
    /\ pc[w] = "claimed"
    /\ status[job[w].runtime] = "RUNNING"
    /\ Ready(job[w].runtime)

FailIngestion(w) ==
    "INGESTION" \in Failures /\ Proceeds(w) /\ RollBack(w, TRUE)

(* Mutant of Ingest: the target is one interval too far. *)
IngestTooFar(w) ==
    LET r == job[w].runtime IN
    /\ Proceeds(w)
    /\ pc' = [pc EXCEPT ![w] = "ingested"]
    /\ job' = [job EXCEPT ![w].boundary = NextClose(r) + Timeframe[r],
                          ![w].fresh = unexpired[r]]
    /\ UNCHANGED <<db, mishaps>>

Ingest(w) ==
    LET r == job[w].runtime IN
    /\ Proceeds(w)
    /\ pc' = [pc EXCEPT ![w] = "ingested"]
    /\ job' = [job EXCEPT ![w].boundary = NextClose(r), ![w].fresh = unexpired[r]]
    /\ UNCHANGED <<db, mishaps>>

(* evaluate_boundary raises: release_lease commits in the same transaction *)
FailEvaluation(w) ==
    /\ pc[w] = "ingested"
    /\ \/ "EVALUATION" \in Failures /\ Release(w, job[w].runtime, TRUE, TRUE)
       \/ "SYNCHRONIZATION" \in Failures /\ Release(w, job[w].runtime, FALSE, TRUE)
    /\ EndPass(w) /\ UNCHANGED mishaps

(* _fenced_finalize_step: the runtime may no longer be RUNNING, its         *)
(* checkpoint may have passed the boundary, the lease may be lost.          *)
Superseded(w, r) ==
    \/ status[r] # "RUNNING"
    \/ /\ checkpoint[r] < job[w].boundary
       /\ ~(Holds(w, r) /\ job[w].fresh)

MayFinalize(w) ==
    LET r == job[w].runtime IN
    /\ pc[w] = "ingested"
    /\ ~Superseded(w, r)
    /\ checkpoint[r] < job[w].boundary

(* StaleWorkerFencedError: rolled back, and nothing is released *)
Abandon(w) ==
    /\ pc[w] = "ingested" /\ Superseded(w, job[w].runtime)
    /\ EndPass(w) /\ UNCHANGED <<db, mishaps>>

(* Another worker committed the interval: its evaluation is the result. *)
FindWinner(w) ==
    LET r == job[w].runtime IN
    /\ pc[w] = "ingested" /\ status[r] = "RUNNING"
    /\ checkpoint[r] >= job[w].boundary
    /\ owner' = [owner EXCEPT ![r] = IF Holds(w, r) THEN Nobody ELSE @]
    /\ unexpired' = [unexpired EXCEPT ![r] = @ /\ ~Holds(w, r)]
    /\ EndPass(w)
    /\ UNCHANGED <<status, checkpoint, fence, retries, due, log, killSwitch,
                   eligible, mishaps>>

(* AccountBarrierBlockedError *)
DeferToMember(w) ==
    MayFinalize(w) /\ BlockedByMember(job[w].runtime) /\ RollBack(w, FALSE)

(* Fills, order planning or an insert raise. *)
FailFinalization(w) ==
    /\ "FINALIZATION" \in Failures
    /\ MayFinalize(w) /\ ~BlockedByMember(job[w].runtime)
    /\ RollBack(w, TRUE)

Recorded(r, b) == \E e \in ToSet(log) : e.runtime = r /\ e.boundary = b

(* Mutant of Commit: the runtime completes one interval late.              *)
CommitIncomplete(w) ==
    LET r == job[w].runtime
        b == job[w].boundary
    IN
    /\ MayFinalize(w) /\ ~BlockedByMember(r) /\ ~BehindAccount(r)
    /\ log' = IF Recorded(r, b) THEN log
              ELSE Append(log, [runtime |-> r, boundary |-> b])
    /\ checkpoint' = [checkpoint EXCEPT ![r] = b]
    /\ owner' = [owner EXCEPT ![r] = Nobody]
    /\ unexpired' = [unexpired EXCEPT ![r] = FALSE]
    /\ retries' = [retries EXCEPT ![r] = 0]
    /\ due' = [due EXCEPT ![r] = TRUE]
    /\ status' = [status EXCEPT ![r] = IF b > CloseAt[r] THEN "COMPLETED" ELSE @]
    /\ EndPass(w)
    /\ UNCHANGED <<fence, killSwitch, eligible, mishaps>>

(* The evaluation and the checkpoint are committed together; the last      *)
(* interval completes the runtime.  RuntimeReplayBehindAccountError is not *)
(* raised to a running member: MembersKeepTheirPlace.                      *)
Commit(w) ==
    LET r == job[w].runtime
        b == job[w].boundary
    IN
    /\ MayFinalize(w) /\ ~BlockedByMember(r) /\ ~BehindAccount(r)
    /\ log' = IF Recorded(r, b) THEN log
              ELSE Append(log, [runtime |-> r, boundary |-> b])
    /\ checkpoint' = [checkpoint EXCEPT ![r] = b]
    /\ owner' = [owner EXCEPT ![r] = Nobody]
    /\ unexpired' = [unexpired EXCEPT ![r] = FALSE]
    /\ retries' = [retries EXCEPT ![r] = 0]
    /\ due' = [due EXCEPT ![r] = TRUE]
    /\ status' = [status EXCEPT ![r] = IF b >= CloseAt[r] THEN "COMPLETED" ELSE @]
    /\ EndPass(w)
    /\ UNCHANGED <<fence, killSwitch, eligible, mishaps>>

(* The process dies; its transaction, if one is open, rolls back. *)
Crash(w) ==
    /\ pc[w] # "idle" /\ mishaps < MaxMishaps
    /\ mishaps' = mishaps + 1
    /\ EndPass(w) /\ UNCHANGED db

-----------------------------------------------------------------------------
(* Time *)

Lapse(r) ==
    LET working == \E w \in Workers : pc[w] # "idle" /\ job[w].runtime = r /\ Holds(w, r) IN
    /\ unexpired[r]
    /\ working => mishaps < MaxMishaps
    /\ unexpired' = [unexpired EXCEPT ![r] = FALSE]
    /\ mishaps' = IF working THEN mishaps + 1 ELSE mishaps
    /\ UNCHANGED <<status, checkpoint, owner, fence, retries, due, log, killSwitch,
                   eligible, pc, job>>

BackoffElapses(r) ==
    /\ ~due[r]
    /\ due' = [due EXCEPT ![r] = TRUE]
    /\ UNCHANGED <<status, checkpoint, owner, unexpired, fence, retries, log,
                   killSwitch, eligible, workers>>

-----------------------------------------------------------------------------
(* The operator *)

MoveTo(r, s) ==
    /\ status' = [status EXCEPT ![r] = s]
    /\ UNCHANGED <<checkpoint, retries, due, log, killSwitch, eligible, workers>>

Revoke(r) ==
    /\ owner' = [owner EXCEPT ![r] = Nobody]
    /\ unexpired' = [unexpired EXCEPT ![r] = FALSE]
    /\ fence' = [fence EXCEPT ![r] = Nobody]

ActivateOrchestration(r) ==
    /\ status[r] = "READY" /\ Ready(r) /\ ~BehindAccount(r)
    /\ MoveTo(r, "RUNNING") /\ UNCHANGED <<owner, unexpired, fence>>

PauseOrchestration(r) ==
    /\ "PAUSE" \in Interventions
    /\ status[r] = "RUNNING"
    /\ Revoke(r) /\ MoveTo(r, "PAUSED")

(* The status is committed.  retry_count, next_attempt_at and the bumped   *)
(* fencing_generation are only flushed after that commit; the route closes *)
(* the session without another one, which rolls them back.                 *)
ResumeOrchestration(r) ==
    /\ "RESUME" \in Interventions
    /\ status[r] = "PAUSED" /\ Ready(r) /\ ~BehindAccount(r)
    /\ MoveTo(r, "RUNNING") /\ UNCHANGED <<owner, unexpired, fence>>

StopOrchestration(r) ==
    /\ "STOP" \in Interventions
    /\ status[r] \in {"RUNNING", "PAUSED", "HALTED"}
    /\ Revoke(r) /\ MoveTo(r, "STOPPED")

(* engage_kill_switch flushes the switch and every runtime's status before *)
(* anything commits; leases are left alone.                                *)
EngageKillSwitch ==
    /\ "KILL_SWITCH" \in Interventions
    /\ ~killSwitch /\ killSwitch' = TRUE
    /\ status' = [r \in Runtimes |->
         IF status[r] \in {"RUNNING", "PAUSED"} THEN "HALTED" ELSE status[r]]
    /\ UNCHANGED <<checkpoint, owner, unexpired, fence, retries, due, log, eligible,
                   workers>>

ResetKillSwitch ==
    /\ killSwitch /\ killSwitch' = FALSE
    /\ UNCHANGED <<status, checkpoint, owner, unexpired, fence, retries, due, log,
                   eligible, workers>>

(* A mapping is disabled or verified again, an account funded or emptied. *)
GateMoves(r) ==
    /\ "GATE" \in Interventions
    /\ eligible' = [eligible EXCEPT ![r] = ~@]
    /\ UNCHANGED <<status, checkpoint, owner, unexpired, fence, retries, due, log,
                   killSwitch, workers>>

-----------------------------------------------------------------------------
(* A pass that has begun, and the next claim *)
Pass(w) ==
    \/ FindNotRunning(w) \/ FailGate(w) \/ FailIngestion(w) \/ Ingest(w)
    \/ FailEvaluation(w) \/ Abandon(w) \/ FindWinner(w) \/ DeferToMember(w)
    \/ FailFinalization(w) \/ Commit(w) \/ ReleaseAfterRollback(w)

Next ==
    \/ \E w \in Workers : ClaimNextCandidate(w) \/ Pass(w) \/ Crash(w)
    \/ \E r \in Runtimes :
         \/ Lapse(r) \/ BackoffElapses(r) \/ GateMoves(r)
         \/ ActivateOrchestration(r) \/ PauseOrchestration(r)
         \/ ResumeOrchestration(r) \/ StopOrchestration(r)
    \/ EngageKillSwitch
    \/ ResetKillSwitch

Spec == Init /\ [][Next]_vars

(* The worker's loop claims again and again and finishes what it began;    *)
(* time passes.  Operators owe nothing, and nothing has to fail.           *)
Fairness ==
    /\ \A w \in Workers : WF_vars(ClaimNextCandidate(w)) /\ WF_vars(Pass(w))
    /\ \A r \in Runtimes : WF_vars(Lapse(r)) /\ WF_vars(BackoffElapses(r))

FairSpec == Spec /\ Fairness

-----------------------------------------------------------------------------
(* Every variable has its type; a checkpoint never leaves the window       *)
(* (constraint ck_orch_config_checkpoint), nor does a worker's target.     *)
TypeOK ==
    /\ status \in [Runtimes -> RuntimeStatus]
    /\ checkpoint \in [Runtimes -> Nat]
    /\ \A r \in Runtimes : checkpoint[r] \in OpenAt[r]..CloseAt[r]
    /\ owner \in [Runtimes -> Ids \cup {Nobody}]
    /\ unexpired \in [Runtimes -> BOOLEAN]
    /\ fence \in [Runtimes -> Workers \cup {Nobody}]
    /\ retries \in [Runtimes -> 0..MaxRetries]
    /\ due \in [Runtimes -> BOOLEAN]
    /\ log \in Seq([runtime : Runtimes, boundary : Nat])
    /\ killSwitch \in BOOLEAN
    /\ eligible \in [Runtimes -> BOOLEAN]
    /\ pc \in [Workers -> {"idle", "claimed", "ingested", "releasing"}]
    /\ job \in [Workers -> [runtime : Runtimes \cup {Nobody}, boundary : Nat,
                            fresh : BOOLEAN, charge : BOOLEAN]]
    /\ \A w \in Workers : pc[w] # "idle" =>
         job[w].runtime \in Runtimes /\ job[w].boundary <= CloseAt[job[w].runtime]
    /\ mishaps \in 0..MaxMishaps

(* r's evaluated closes, and its interval closes up to c.                  *)
Evaluated(r) == {e.boundary : e \in {f \in ToSet(log) : f.runtime = r}}
Closes(r, c) ==
    {b \in (OpenAt[r] + 1)..c : (b - OpenAt[r]) % Timeframe[r] = 0}

(* Evaluations and checkpoint agree, whichever worker died or was overtaken *)
(* between its transactions: the rows of a runtime are its interval closes  *)
(* up to the checkpoint, without gap or repetition.                         *)
CheckpointIsCommitted ==
    \A r \in Runtimes :
       /\ Evaluated(r) = Closes(r, checkpoint[r])
       /\ \A i, j \in DOMAIN log :
            i < j /\ log[i].runtime = r /\ log[j].runtime = r
              => log[i].boundary < log[j].boundary

(* A running member of the account is never behind what the account has    *)
(* committed, and a paused one keeps its place: it can always be resumed.  *)
MembersKeepTheirPlace ==
    \A r \in Paper : status[r] \in {"RUNNING", "PAUSED"} => ~BehindAccount(r)

(* A running replay has an interval left: the one that commits its last     *)
(* interval completes it in the same transaction.                           *)
RunningHasWork ==
    \A r \in Runtimes : status[r] \in {"RUNNING", "PAUSED"} => Remaining(r)

(* While a kill switch is engaged nothing runs: whoever was running was     *)
(* halted with it, and nobody is started, resumed or released into RUNNING. *)
NothingRunsUnderKillSwitch ==
    killSwitch => \A r \in Runtimes : status[r] # "RUNNING"

(* VALID_RUNTIME_TRANSITIONS (engine/paper/state_machine.py), the part for *)
(* configured runtimes                                                     *)
RuntimeMoves ==
    {<<"READY", "RUNNING">>, <<"RUNNING", "PAUSED">>, <<"RUNNING", "HALTED">>,
     <<"RUNNING", "STOPPED">>, <<"RUNNING", "COMPLETED">>, <<"PAUSED", "RUNNING">>,
     <<"PAUSED", "HALTED">>, <<"PAUSED", "STOPPED">>, <<"HALTED", "READY">>,
     <<"HALTED", "STOPPED">>}

(* A runtime's status only moves along the table, although workers release *)
(* and quarantine long after an operator moved it.                         *)
FollowsRuntimeTable ==
    [][\A r \in Runtimes :
         status'[r] # status[r] => <<status[r], status'[r]>> \in RuntimeMoves]_vars

(* A worker whose claim a later claim, a pause or a stop superseded commits *)
(* nothing, even if the new holder runs under the same worker_id.           *)
RevokedClaimNeverCommits ==
    [][\A w \in Workers :
         /\ pc[w] = "ingested" /\ pc'[w] # "ingested"
         /\ fence[job[w].runtime] # w
         => checkpoint' = checkpoint /\ log' = log]_vars

(* The committed evaluations are a replay as ReplayLedger promises it:     *)
(* every interval once and in order, and the account's members in step.    *)
Ledger == INSTANCE ReplayLedger
    WITH Runtimes <- Runtimes, Paper <- Paper, OpenAt <- OpenAt,
         CloseAt <- CloseAt, Timeframe <- Timeframe, log <- log
ImplementsLedger == Ledger!Spec

(* Unless a member is paused - nobody but the quarantine pauses here -     *)
(* every replay that runs is evaluated to its end: the barrier of the      *)
(* account never has its members waiting for each other.                   *)
EveryReplayCompletes ==
    \A r \in Runtimes :
       status[r] = "RUNNING" ~>
         status[r] = "COMPLETED" \/ \E m \in Runtimes : status[m] = "PAUSED"

(* A runtime whose gates stay closed does not run for ever. *)
ClosedGateQuarantines ==
    \A r \in Runtimes : <>[]~eligible[r] => <>[](status[r] # "RUNNING")

(* Resuming a quarantined runtime recovers it: "Operator resume from        *)
(* quarantine restores RUNNING status, resets retry_count to 0" (the test   *)
(* test_operator_resume_clears_quarantine).  Unless it does, no worker ever *)
(* claims the running runtime.                                              *)
ResumeClearsQuarantine ==
    [][\A r \in Runtimes :
         /\ status[r] = "PAUSED" /\ retries[r] = MaxRetries
         /\ status'[r] = "RUNNING"
         => retries'[r] = 0]_vars
=============================================================================
