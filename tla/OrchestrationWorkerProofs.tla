--------------------- MODULE OrchestrationWorkerProofs ---------------------
(***************************************************************************)
(* What is proved of OrchestrationWorker for any runtimes, windows,        *)
(* timeframes, workers, worker ids, retries, failures and mishaps.         *)
(***************************************************************************)
EXTENDS OrchestrationWorker, TLAPS

(* b is the open of r's window or an interval close of it.                 *)
OnGrid(r, b) ==
    b \in OpenAt[r]..CloseAt[r] /\ (b - OpenAt[r]) % Timeframe[r] = 0

(* Checkpoints and targets are interval closes.                            *)
CheckpointsOnGrid == \A r \in Runtimes : OnGrid(r, checkpoint[r])
TargetsOnGrid ==
    \A w \in Workers : pc[w] = "ingested" => OnGrid(job[w].runtime, job[w].boundary)

(* RunningHasWork, and the same of a runtime not yet activated.            *)
WorkLeft ==
    \A r \in Runtimes : status[r] \in {"READY", "RUNNING", "PAUSED"} => Remaining(r)

(* While nobody supersedes its claim, a worker's target is the next close. *)
TargetIsNext ==
    \A w \in Workers :
       pc[w] = "ingested" /\ fence[job[w].runtime] = w
         => job[w].boundary = NextClose(job[w].runtime)

Window == TypeOK /\ CheckpointsOnGrid /\ TargetsOnGrid /\ WorkLeft

-----------------------------------------------------------------------------
(* The grid                                                                *)

(* Multiples of t: none lies strictly between two neighbours.               *)
LEMMA Multiples ==
    ASSUME NEW t \in Nat \ {0}, NEW n \in Nat
    PROVE  n % t = 0 <=> \E k \in Nat : n = k * t
<1>1. ASSUME n % t = 0 PROVE n \div t \in Nat /\ n = (n \div t) * t
  BY <1>1
<1>2. ASSUME NEW k \in Nat, n = k * t PROVE n % t = 0
  <2>1. n \div t \in Nat /\ n % t \in 0..(t - 1) /\ n = (n \div t) * t + (n % t)
    OBVIOUS
  <2> DEFINE q == n \div t
             m == n % t
  <2> HIDE DEF q, m
  <2>2. q \in Nat /\ m \in 0..(t - 1) /\ k * t = q * t + m
    BY <1>2, <2>1 DEF q, m
  <2>3. (k - q) * t = m
    BY <2>2
  <2>4. k - q <= 0
    <3>1. CASE k - q >= 1
      <4>1. (k - q) * t >= t
        BY <2>2, <3>1
      <4> QED
        BY <2>2, <2>3, <4>1
    <3> QED
      BY <2>2, <3>1
  <2>5. (k - q) * t <= 0
    BY <2>2, <2>4
  <2> QED
    BY <2>2, <2>3, <2>5 DEF m
<1> QED
  BY <1>1, <1>2

LEMMA MultiplesStep ==
    ASSUME NEW t \in Nat \ {0}, NEW n \in Nat, n % t = 0
    PROVE  /\ (n + t) % t = 0
           /\ \A m \in Nat : n < m /\ m % t = 0 => n + t <= m
<1>1. PICK k \in Nat : n = k * t
  BY Multiples
<1>2. k + 1 \in Nat /\ n + t = (k + 1) * t
  BY <1>1
<1>3. (n + t) % t = 0
  <2> DEFINE p == n + t
             j == k + 1
  <2>1. p \in Nat /\ j \in Nat /\ p = j * t
    BY <1>2
  <2> HIDE DEF p, j
  <2>2. p % t = 0
    BY <2>1, Multiples
  <2> QED
    BY <2>2 DEF p
<1>4. ASSUME NEW m \in Nat, n < m, m % t = 0 PROVE n + t <= m
  <2>1. PICK j \in Nat : m = j * t
    BY <1>4, Multiples
  <2>2. j >= k + 1
    <3>1. CASE j <= k
      <4>1. k - j \in Nat /\ k * t = j * t + (k - j) * t /\ (k - j) * t >= 0
        BY <3>1
      <4> QED
        BY <1>1, <1>4, <2>1, <4>1
    <3> QED
      BY <3>1
  <2>3. j - (k + 1) \in Nat /\ j * t = (k + 1) * t + (j - (k + 1)) * t
        /\ (j - (k + 1)) * t >= 0
    BY <2>2
  <2> QED
    BY <1>2, <2>1, <2>3
<1> QED
  BY <1>3, <1>4

LEMMA GridIsNat ==
    ASSUME NEW r \in Runtimes, NEW b, OnGrid(r, b)
    PROVE  b \in Nat /\ CloseAt[r] \in Nat /\ OpenAt[r] <= b /\ b <= CloseAt[r]
<1>1. OpenAt[r] \in Nat /\ CloseAt[r] \in Nat
  BY OrchestrationAssumption
<1> QED
  BY <1>1 DEF OnGrid

LEMMA GridStart == \A r \in Runtimes : OnGrid(r, OpenAt[r])
<1> SUFFICES ASSUME NEW r \in Runtimes PROVE OnGrid(r, OpenAt[r])
  OBVIOUS
<1>1. OpenAt[r] \in Nat /\ CloseAt[r] \in Nat /\ OpenAt[r] < CloseAt[r]
      /\ Timeframe[r] \in Nat \ {0}
  BY OrchestrationAssumption
<1>2. 0 % Timeframe[r] = 0
  BY <1>1
<1> QED
  BY <1>1, <1>2 DEF OnGrid

(* Short of the end, the next close is in the window and on the grid.      *)
LEMMA GridStep ==
    ASSUME NEW r \in Runtimes, OnGrid(r, checkpoint[r]), Remaining(r)
    PROVE  OnGrid(r, NextClose(r))
<1> DEFINE n == checkpoint[r] - OpenAt[r]
           m == CloseAt[r] - OpenAt[r]
           t == Timeframe[r]
<1>1. /\ checkpoint[r] \in Nat /\ OpenAt[r] \in Nat /\ CloseAt[r] \in Nat
      /\ t \in Nat \ {0} /\ n \in Nat /\ m \in Nat /\ n < m /\ m % t = 0 /\ n % t = 0
  BY GridIsNat, OrchestrationAssumption DEF OnGrid, Remaining
<1>2. (n + t) % t = 0 /\ n + t <= m
  <2> HIDE DEF n, m, t
  <2> QED
    BY <1>1, MultiplesStep
<1>3. NextClose(r) = checkpoint[r] + t /\ NextClose(r) - OpenAt[r] = n + t
  BY <1>1 DEF NextClose
<1> QED
  BY <1>1, <1>2, <1>3 DEF OnGrid

-----------------------------------------------------------------------------
(* The parts of TypeOK that a step of one actor changes together            *)
DbType ==
    /\ status \in [Runtimes -> RuntimeStatus]
    /\ checkpoint \in [Runtimes -> Nat]
    /\ owner \in [Runtimes -> Ids \cup {Nobody}]
    /\ unexpired \in [Runtimes -> BOOLEAN]
    /\ fence \in [Runtimes -> Workers \cup {Nobody}]
    /\ retries \in [Runtimes -> 0..MaxRetries]
    /\ due \in [Runtimes -> BOOLEAN]
    /\ log \in Seq([runtime : Runtimes, boundary : Nat])
    /\ killSwitch \in BOOLEAN
    /\ eligible \in [Runtimes -> BOOLEAN]

Jobs == [runtime : Runtimes \cup {Nobody}, boundary : Nat, fresh : BOOLEAN,
         charge : BOOLEAN]
WorkerType ==
    /\ pc \in [Workers -> {"idle", "claimed", "ingested", "releasing"}]
    /\ job \in [Workers -> Jobs]
    /\ \A w \in Workers : pc[w] # "idle" =>
         job[w].runtime \in Runtimes /\ job[w].boundary <= CloseAt[job[w].runtime]
    /\ mishaps \in 0..MaxMishaps

LEMMA TypeParts ==
    TypeOK <=> /\ DbType /\ WorkerType
               /\ \A r \in Runtimes : checkpoint[r] \in OpenAt[r]..CloseAt[r]
  BY DEF TypeOK, DbType, WorkerType, Jobs

LEMMA NoJobType == NoJob \in Jobs
  BY DEF NoJob, Jobs

(* A pass that ends leaves the worker's variables in their types.           *)
LEMMA EndPassType ==
    ASSUME WorkerType, NEW w \in Workers, EndPass(w), mishaps' \in 0..MaxMishaps
    PROVE  WorkerType' /\ \A v \in Workers : pc'[v] = "ingested" =>
                             pc[v] = "ingested" /\ job'[v] = job[v]
  BY NoJobType DEF WorkerType, EndPass

(* What release_lease writes: types, and no status but a quarantine's.      *)
LEMMA ReleaseEffect ==
    ASSUME DbType, NEW w \in Workers, NEW r \in Runtimes,
           NEW charge \in BOOLEAN, NEW later \in BOOLEAN, Release(w, r, charge, later)
    PROVE  /\ DbType'
           /\ UNCHANGED <<checkpoint, fence, log, killSwitch, eligible>>
           /\ \A s \in Runtimes : status'[s] = status[s]
                                  \/ (status[s] = "RUNNING" /\ status'[s] = "PAUSED")
<1> DEFINE quarantine == charge /\ retries[r] + 1 >= MaxRetries
<1>1. CASE ~Holds(w, r)
  BY <1>1 DEF Release, db, DbType
<1>2. CASE Holds(w, r)
  <2>1. /\ owner' = [owner EXCEPT ![r] = Nobody]
        /\ unexpired' = [unexpired EXCEPT ![r] = FALSE]
        /\ due' = [due EXCEPT ![r] = IF charge THEN quarantine ELSE ~later]
        /\ retries' = [retries EXCEPT ![r] =
               IF quarantine THEN MaxRetries
               ELSE IF charge THEN retries[r] + 1 ELSE retries[r]]
        /\ status' = [status EXCEPT ![r] =
               IF quarantine /\ status[r] = "RUNNING" THEN "PAUSED" ELSE status[r]]
        /\ UNCHANGED <<checkpoint, fence, log, killSwitch, eligible>>
    BY <1>2 DEF Release
  <2>2. quarantine \in BOOLEAN
    OBVIOUS
  <2>3. retries' \in [Runtimes -> 0..MaxRetries]
    BY <2>1, OrchestrationAssumption DEF DbType
  <2>4. status' \in [Runtimes -> RuntimeStatus]
    BY <2>1 DEF DbType, RuntimeStatus
  <2> HIDE DEF quarantine
  <2>5. due' \in [Runtimes -> BOOLEAN]
    BY <2>1, <2>2, Zenon DEF DbType
  <2>6. \A s \in Runtimes : status'[s] = status[s]
                            \/ (status[s] = "RUNNING" /\ status'[s] = "PAUSED")
    BY <2>1 DEF DbType
  <2>7. owner' \in [Runtimes -> Ids \cup {Nobody}] /\ unexpired' \in [Runtimes -> BOOLEAN]
    BY <2>1 DEF DbType
  <2> QED
    BY <2>1, <2>3, <2>4, <2>5, <2>6, <2>7 DEF DbType
<1> QED
  BY <1>1, <1>2

-----------------------------------------------------------------------------
(* Types, the grid and the work left                                       *)
Active == {"READY", "RUNNING", "PAUSED"}

(* A step that commits nothing keeps Window if it keeps the types, makes no *)
(* runtime active again and gives workers only targets on the grid.         *)
LEMMA WithoutCommit ==
    ASSUME Window, DbType', WorkerType', checkpoint' = checkpoint,
           \A r \in Runtimes : status'[r] \in Active => status[r] \in Active,
           \A w \in Workers : pc'[w] = "ingested" =>
              \/ pc[w] = "ingested" /\ job'[w] = job[w]
              \/ OnGrid(job'[w].runtime, job'[w].boundary)
    PROVE  Window'
<1>1. TypeOK'
  BY TypeParts DEF Window, TypeOK, DbType, WorkerType, Jobs
<1>2. CheckpointsOnGrid' /\ WorkLeft'
  BY DEF Window, CheckpointsOnGrid, WorkLeft, Remaining, OnGrid, Active
<1>3. TargetsOnGrid'
  BY DEF Window, TargetsOnGrid, OnGrid
<1> QED
  BY <1>1, <1>2, <1>3 DEF Window

LEMMA InitWindow == Init => Window
<1> SUFFICES ASSUME Init PROVE Window
  OBVIOUS
<1>1. OpenAt \in [Runtimes -> Nat]
      /\ \A r \in Runtimes : OpenAt[r] < CloseAt[r] /\ CloseAt[r] \in Nat
  BY OrchestrationAssumption
<1>2. DbType
  <2>1. checkpoint \in [Runtimes -> Nat] /\ status \in [Runtimes -> RuntimeStatus]
    BY <1>1 DEF Init, RuntimeStatus
  <2>2. /\ unexpired \in [Runtimes -> BOOLEAN]
        /\ due \in [Runtimes -> BOOLEAN]
        /\ eligible \in [Runtimes -> BOOLEAN]
        /\ killSwitch \in BOOLEAN
    BY DEF Init
  <2>3. retries \in [Runtimes -> 0..MaxRetries]
    BY OrchestrationAssumption DEF Init
  <2>4. log \in Seq([runtime : Runtimes, boundary : Nat])
    BY DEF Init
  <2>5. owner \in [Runtimes -> Ids \cup {Nobody}] /\ fence \in [Runtimes -> Workers \cup {Nobody}]
    BY DEF Init
  <2> QED
    BY <2>1, <2>2, <2>3, <2>4, <2>5 DEF DbType
<1>3. WorkerType
  BY NoJobType, OrchestrationAssumption DEF Init, WorkerType
<1>4. TypeOK
  BY <1>1, <1>2, <1>3, TypeParts DEF Init
<1>5. CheckpointsOnGrid
  BY GridStart DEF Init, CheckpointsOnGrid
<1>6. WorkLeft /\ TargetsOnGrid
  BY <1>1 DEF Init, WorkLeft, Remaining, TargetsOnGrid
<1> QED
  BY <1>4, <1>5, <1>6 DEF Window

(* The claim.                                                               *)
LEMMA ClaimWindow ==
    ASSUME Window, NEW w \in Workers, ClaimNextCandidate(w)
    PROVE  Window'
<1>1. DbType /\ WorkerType
  BY TypeParts DEF Window
<1>2. PICK r \in Runtimes :
        /\ owner' = [owner EXCEPT ![r] = WorkerId[w]]
        /\ unexpired' = [unexpired EXCEPT ![r] = TRUE]
        /\ fence' = [fence EXCEPT ![r] = w]
        /\ job' = [job EXCEPT ![w] = [NoJob EXCEPT !.runtime = r]]
  BY DEF ClaimNextCandidate
<1>3. /\ pc' = [pc EXCEPT ![w] = "claimed"]
      /\ UNCHANGED <<status, checkpoint, retries, due, log, killSwitch, eligible, mishaps>>
  BY DEF ClaimNextCandidate
<1>4. DbType'
  BY <1>1, <1>2, <1>3 DEF DbType, Ids
<1>5. [NoJob EXCEPT !.runtime = r] \in Jobs /\ [NoJob EXCEPT !.runtime = r].runtime = r
      /\ [NoJob EXCEPT !.runtime = r].boundary = 0
  BY DEF NoJob, Jobs
<1>6. CloseAt[r] \in Nat
  BY OrchestrationAssumption
<1>7. WorkerType'
  BY <1>1, <1>2, <1>3, <1>5, <1>6 DEF WorkerType
<1> QED
  BY <1>1, <1>2, <1>3, <1>4, <1>7, WithoutCommit DEF WorkerType

(* A pass that releases and ends.                                           *)
LEMMA ReleaseWindow ==
    ASSUME Window, NEW w \in Workers, pc[w] # "idle",
           NEW charge \in BOOLEAN, NEW later \in BOOLEAN,
           Release(w, job[w].runtime, charge, later), EndPass(w), UNCHANGED mishaps
    PROVE  Window'
<1>1. DbType /\ WorkerType /\ job[w].runtime \in Runtimes
  BY TypeParts DEF Window, WorkerType
<1>2. DbType' /\ checkpoint' = checkpoint
      /\ \A r \in Runtimes : status'[r] = status[r]
                             \/ (status[r] = "RUNNING" /\ status'[r] = "PAUSED")
  BY <1>1, ReleaseEffect
<1>3. mishaps' \in 0..MaxMishaps
  BY <1>1 DEF WorkerType
<1>4. WorkerType' /\ \A v \in Workers : pc'[v] = "ingested" =>
                        pc[v] = "ingested" /\ job'[v] = job[v]
  BY <1>1, <1>3, EndPassType
<1>5. \A r \in Runtimes : status'[r] \in Active => status[r] \in Active
  BY <1>2 DEF Active
<1> QED
  BY <1>2, <1>4, <1>5, WithoutCommit

(* A pass that ends and leaves the database alone.                          *)
LEMMA EndWindow ==
    ASSUME Window, NEW w \in Workers, EndPass(w), UNCHANGED db,
           mishaps' \in 0..MaxMishaps
    PROVE  Window'
<1>1. DbType /\ WorkerType
  BY TypeParts DEF Window
<1>2. DbType' /\ checkpoint' = checkpoint /\ status' = status
  BY <1>1 DEF db, DbType
<1>3. WorkerType' /\ \A v \in Workers : pc'[v] = "ingested" =>
                        pc[v] = "ingested" /\ job'[v] = job[v]
  BY <1>1, EndPassType
<1> QED
  BY <1>2, <1>3, WithoutCommit

LEMMA RollBackWindow ==
    ASSUME Window, NEW w \in Workers, pc[w] # "idle", NEW charge \in BOOLEAN,
           RollBack(w, charge)
    PROVE  Window'
<1>1. DbType /\ WorkerType
  BY TypeParts DEF Window
<1>2. DbType' /\ checkpoint' = checkpoint /\ status' = status
  BY <1>1 DEF RollBack, db, DbType
<1>3. WorkerType' /\ \A v \in Workers : pc'[v] = "ingested" =>
                        pc[v] = "ingested" /\ job'[v] = job[v]
  BY <1>1 DEF RollBack, WorkerType, Jobs
<1> QED
  BY <1>2, <1>3, WithoutCommit

(* The target of an ingestion is the runtime's next close.                  *)
LEMMA IngestWindow ==
    ASSUME Window, NEW w \in Workers, Ingest(w)
    PROVE  Window'
<1> DEFINE r == job[w].runtime
<1>1. DbType /\ WorkerType /\ pc[w] = "claimed" /\ r \in Runtimes /\ status[r] = "RUNNING"
  BY TypeParts DEF Window, WorkerType, Ingest, Proceeds
<1>2. /\ pc' = [pc EXCEPT ![w] = "ingested"]
      /\ job' = [job EXCEPT ![w].boundary = NextClose(r), ![w].fresh = unexpired[r]]
      /\ UNCHANGED <<db, mishaps>>
  BY DEF Ingest
<1>3. OnGrid(r, NextClose(r))
  BY <1>1, GridStep DEF Window, CheckpointsOnGrid, WorkLeft
<1>4. NextClose(r) \in Nat /\ NextClose(r) <= CloseAt[r]
  BY <1>1, <1>3, GridIsNat
<1>5. DbType' /\ checkpoint' = checkpoint /\ status' = status
  BY <1>1, <1>2 DEF db, DbType
<1>6. unexpired[r] \in BOOLEAN
  BY <1>1 DEF DbType
<1> HIDE DEF r
<1>7. job' \in [Workers -> Jobs]
  <2> DEFINE new == [job[w] EXCEPT !.boundary = NextClose(r), !.fresh = unexpired[r]]
  <2>1. new \in Jobs
    BY <1>1, <1>4, <1>6 DEF WorkerType, Jobs
  <2>2. job' = [job EXCEPT ![w] = new]
    BY <1>1, <1>2 DEF WorkerType
  <2> QED
    BY <1>1, <2>1, <2>2 DEF WorkerType
<1>8. job'[w].runtime = r /\ job'[w].boundary = NextClose(r)
      /\ \A v \in Workers \ {w} : job'[v] = job[v] /\ pc'[v] = pc[v]
  BY <1>1, <1>2 DEF WorkerType, Jobs, r
<1>9. WorkerType'
  BY <1>1, <1>2, <1>4, <1>7, <1>8 DEF WorkerType
<1> QED
  BY <1>1, <1>2, <1>3, <1>5, <1>8, <1>9, WithoutCommit DEF WorkerType

LEMMA WinnerWindow ==
    ASSUME Window, NEW w \in Workers, FindWinner(w)
    PROVE  Window'
<1>1. DbType /\ WorkerType
  BY TypeParts DEF Window
<1>2. DbType' /\ checkpoint' = checkpoint /\ status' = status
  BY <1>1, Zenon DEF FindWinner, DbType
<1>3. mishaps' \in 0..MaxMishaps /\ EndPass(w)
  BY <1>1 DEF FindWinner, WorkerType
<1> QED
  BY <1>1, <1>2, <1>3, EndPassType, WithoutCommit

(* A commit: the checkpoint becomes the target, and a target short of the   *)
(* end leaves work.                                                         *)
LEMMA CommitWindow ==
    ASSUME Window, NEW w \in Workers, Commit(w)
    PROVE  Window'
<1> DEFINE r == job[w].runtime
           b == job[w].boundary
<1>1. DbType /\ WorkerType /\ pc[w] = "ingested" /\ r \in Runtimes /\ status[r] = "RUNNING"
  BY TypeParts DEF Window, WorkerType, Commit, MayFinalize, Superseded
<1>2. /\ log' = IF Recorded(r, b) THEN log
                ELSE Append(log, [runtime |-> r, boundary |-> b])
      /\ checkpoint' = [checkpoint EXCEPT ![r] = b]
      /\ owner' = [owner EXCEPT ![r] = Nobody]
      /\ unexpired' = [unexpired EXCEPT ![r] = FALSE]
      /\ retries' = [retries EXCEPT ![r] = 0]
      /\ due' = [due EXCEPT ![r] = TRUE]
      /\ status' = [status EXCEPT ![r] = IF b >= CloseAt[r] THEN "COMPLETED" ELSE @]
      /\ EndPass(w)
      /\ UNCHANGED <<fence, killSwitch, eligible, mishaps>>
  BY DEF Commit
<1>3. OnGrid(r, b)
  BY <1>1 DEF Window, TargetsOnGrid
<1>4. b \in Nat /\ b <= CloseAt[r] /\ CloseAt[r] \in Nat
  BY <1>1, <1>3, GridIsNat
<1> HIDE DEF r, b
<1>5. log' \in Seq([runtime : Runtimes, boundary : Nat])
  <2> DEFINE T == [runtime : Runtimes, boundary : Nat]
             e == [runtime |-> r, boundary |-> b]
  <2>1. e \in T /\ log \in Seq(T)
    BY <1>1, <1>4 DEF DbType, r
  <2>2. log' = log \/ log' = Append(log, e)
    BY <1>2
  <2> HIDE DEF T, e
  <2>3. Append(log, e) \in Seq(T)
    BY <2>1
  <2>4. log' \in Seq(T)
    BY <2>1, <2>2, <2>3
  <2> QED
    BY <2>4 DEF T
<1>6. DbType'
  <2>1. retries' \in [Runtimes -> 0..MaxRetries]
    BY <1>1, <1>2, OrchestrationAssumption DEF DbType
  <2>2. status' \in [Runtimes -> RuntimeStatus]
    BY <1>1, <1>2 DEF DbType, RuntimeStatus
  <2> QED
    BY <1>1, <1>2, <1>4, <1>5, <2>1, <2>2 DEF DbType
<1>7. WorkerType' /\ \A v \in Workers : pc'[v] = "ingested" =>
                        pc[v] = "ingested" /\ job'[v] = job[v]
  BY <1>1, <1>2, EndPassType DEF WorkerType
<1>8. CheckpointsOnGrid'
  BY <1>1, <1>2, <1>3 DEF Window, CheckpointsOnGrid, OnGrid, DbType
<1>9. TypeOK'
  BY <1>6, <1>7, <1>8 DEF TypeOK, DbType, WorkerType, Jobs, CheckpointsOnGrid, OnGrid
<1>10. WorkLeft'
  BY <1>1, <1>2, <1>4 DEF Window, WorkLeft, Remaining, DbType
<1>11. TargetsOnGrid'
  BY <1>7 DEF Window, TargetsOnGrid, OnGrid
<1> QED
  BY <1>8, <1>9, <1>10, <1>11 DEF Window

(* Time, the environment and the kill switch.                               *)
LEMMA OutsideWindow ==
    ASSUME Window,
           \/ \E r \in Runtimes : Lapse(r) \/ BackoffElapses(r) \/ GateMoves(r)
           \/ EngageKillSwitch \/ ResetKillSwitch
    PROVE  Window'
<1>1. DbType /\ WorkerType
  BY TypeParts DEF Window
<1>2. checkpoint' = checkpoint /\ pc' = pc /\ job' = job
  BY DEF Lapse, BackoffElapses, GateMoves, EngageKillSwitch, ResetKillSwitch, workers
<1>3. ASSUME NEW r \in Runtimes, Lapse(r)
      PROVE  DbType' /\ WorkerType' /\ status' = status
  <2>1. mishaps' \in 0..MaxMishaps
    BY <1>1, <1>3, OrchestrationAssumption DEF Lapse, WorkerType
  <2> QED
    BY <1>1, <1>2, <1>3, <2>1 DEF Lapse, DbType, WorkerType
<1>4. ASSUME NEW r \in Runtimes, BackoffElapses(r) \/ GateMoves(r)
      PROVE  DbType' /\ WorkerType' /\ status' = status
  <2>1. CASE BackoffElapses(r)
    BY <1>1, <2>1 DEF BackoffElapses, DbType, WorkerType, workers
  <2>2. CASE GateMoves(r)
    <3>1. eligible' \in [Runtimes -> BOOLEAN]
      BY <1>1, <2>2, Zenon DEF GateMoves, DbType
    <3> QED
      BY <1>1, <2>2, <3>1 DEF GateMoves, DbType, WorkerType, workers
  <2> QED
    BY <1>4, <2>1, <2>2
<1>5. ASSUME EngageKillSwitch
      PROVE  DbType' /\ WorkerType'
             /\ \A r \in Runtimes : status'[r] \in Active => status[r] \in Active
  BY <1>1, <1>5 DEF EngageKillSwitch, DbType, WorkerType, workers, RuntimeStatus, Active
<1>6. ASSUME ResetKillSwitch
      PROVE  DbType' /\ WorkerType' /\ status' = status
  BY <1>1, <1>6 DEF ResetKillSwitch, DbType, WorkerType, workers
<1> QED
  BY <1>2, <1>3, <1>4, <1>5, <1>6, WithoutCommit

(* The requests of an operator.                                             *)
LEMMA RequestWindow ==
    ASSUME Window, NEW r \in Runtimes,
           \/ ActivateOrchestration(r) \/ PauseOrchestration(r)
           \/ ResumeOrchestration(r) \/ StopOrchestration(r)
    PROVE  Window'
<1>1. DbType /\ WorkerType
  BY TypeParts DEF Window
<1>2. /\ UNCHANGED <<checkpoint, retries, due, log, killSwitch, eligible, workers>>
      /\ \/ UNCHANGED <<owner, unexpired, fence>>
         \/ Revoke(r)
  BY DEF ActivateOrchestration, PauseOrchestration, ResumeOrchestration,
         StopOrchestration, MoveTo
<1>3. PICK s \in {"RUNNING", "PAUSED", "STOPPED"} :
        /\ status' = [status EXCEPT ![r] = s]
        /\ s \in Active => status[r] \in Active
  BY DEF ActivateOrchestration, PauseOrchestration, ResumeOrchestration,
         StopOrchestration, MoveTo, Active
<1>4. owner' \in [Runtimes -> Ids \cup {Nobody}] /\ unexpired' \in [Runtimes -> BOOLEAN]
      /\ fence' \in [Runtimes -> Workers \cup {Nobody}]
  BY <1>1, <1>2 DEF Revoke, DbType
<1>5. status' \in [Runtimes -> RuntimeStatus]
      /\ \A q \in Runtimes : status'[q] \in Active => status[q] \in Active
  BY <1>1, <1>3 DEF DbType, RuntimeStatus
<1>6. DbType' /\ WorkerType'
  BY <1>1, <1>2, <1>4, <1>5 DEF DbType, WorkerType, workers
<1> QED
  BY <1>2, <1>5, <1>6, WithoutCommit DEF workers

LEMMA PassWindow ==
    ASSUME Window, NEW w \in Workers, Pass(w)
    PROVE  Window'
<1>1. job[w].charge \in BOOLEAN /\ mishaps \in 0..MaxMishaps
  BY TypeParts DEF Window, WorkerType, Jobs
<1>2. CASE FindNotRunning(w)
  BY <1>2, ReleaseWindow DEF FindNotRunning
<1>3. CASE FailGate(w)
  BY <1>3, ReleaseWindow DEF FailGate
<1>4. CASE FailIngestion(w)
  BY <1>4, RollBackWindow DEF FailIngestion, Proceeds
<1>5. CASE Ingest(w)
  BY <1>5, IngestWindow
<1>6. CASE FailEvaluation(w)
  BY <1>6, ReleaseWindow DEF FailEvaluation
<1>7. CASE Abandon(w)
  BY <1>1, <1>7, EndWindow DEF Abandon
<1>8. CASE FindWinner(w)
  BY <1>8, WinnerWindow
<1>9. CASE DeferToMember(w)
  BY <1>9, RollBackWindow DEF DeferToMember, MayFinalize
<1>10. CASE FailFinalization(w)
  BY <1>10, RollBackWindow DEF FailFinalization, MayFinalize
<1>11. CASE Commit(w)
  BY <1>11, CommitWindow
<1>12. CASE ReleaseAfterRollback(w)
  BY <1>1, <1>12, ReleaseWindow DEF ReleaseAfterRollback
<1> QED
  BY <1>2, <1>3, <1>4, <1>5, <1>6, <1>7, <1>8, <1>9, <1>10, <1>11, <1>12 DEF Pass

LEMMA CrashWindow ==
    ASSUME Window, NEW w \in Workers, Crash(w)
    PROVE  Window'
<1>1. mishaps' \in 0..MaxMishaps
  BY TypeParts, OrchestrationAssumption DEF Window, WorkerType, Crash
<1> QED
  BY <1>1, EndWindow DEF Crash

LEMMA NextWindow == Window /\ [Next]_vars => Window'
<1> SUFFICES ASSUME Window, [Next]_vars PROVE Window'
  OBVIOUS
<1>1. CASE \E w \in Workers : ClaimNextCandidate(w) \/ Pass(w) \/ Crash(w)
  BY <1>1, ClaimWindow, PassWindow, CrashWindow
<1>2. CASE \/ \E r \in Runtimes : Lapse(r) \/ BackoffElapses(r) \/ GateMoves(r)
           \/ EngageKillSwitch \/ ResetKillSwitch
  BY <1>2, OutsideWindow
<1>3. CASE \E r \in Runtimes :
              \/ ActivateOrchestration(r) \/ PauseOrchestration(r)
              \/ ResumeOrchestration(r) \/ StopOrchestration(r)
  BY <1>3, RequestWindow
<1>4. CASE UNCHANGED vars
  <2>1. DbType' /\ WorkerType' /\ checkpoint' = checkpoint /\ status' = status
        /\ pc' = pc /\ job' = job
    BY <1>4, TypeParts DEF Window, DbType, WorkerType, vars, db, workers
  <2> QED
    BY <2>1, WithoutCommit
<1> QED
  BY <1>1, <1>2, <1>3, <1>4 DEF Next

-----------------------------------------------------------------------------
(* What kinds of steps there are, for everything but types                  *)

Request(r) ==
    \/ ActivateOrchestration(r) \/ PauseOrchestration(r)
    \/ ResumeOrchestration(r) \/ StopOrchestration(r)

(* Nothing is committed, and at most a running runtime is quarantined.      *)
Quiet ==
    /\ UNCHANGED <<checkpoint, log, killSwitch>>
    /\ \A r \in Runtimes : status'[r] = status[r]
                           \/ (status[r] = "RUNNING" /\ status'[r] = "PAUSED")

LEMMA PassKinds ==
    ASSUME Window, NEW w \in Workers, Pass(w)
    PROVE  Quiet \/ Commit(w)
<1>1. job[w].charge \in BOOLEAN /\ DbType
      /\ (pc[w] # "idle" => job[w].runtime \in Runtimes)
  BY TypeParts DEF Window, WorkerType, Jobs
<1>2. CASE \/ FindNotRunning(w) \/ FailGate(w) \/ FailEvaluation(w)
           \/ ReleaseAfterRollback(w)
  <2>1. PICK charge \in BOOLEAN, later \in BOOLEAN :
          pc[w] # "idle" /\ Release(w, job[w].runtime, charge, later)
    BY <1>1, <1>2 DEF FindNotRunning, FailGate, FailEvaluation, ReleaseAfterRollback
  <2> QED
    BY <1>1, <2>1, ReleaseEffect DEF Quiet
<1>3. CASE \/ FailIngestion(w) \/ Ingest(w) \/ Abandon(w) \/ DeferToMember(w)
           \/ FailFinalization(w)
  BY <1>3 DEF FailIngestion, Ingest, Abandon, DeferToMember, FailFinalization,
              RollBack, db, Quiet
<1>4. CASE FindWinner(w)
  BY <1>4 DEF FindWinner, Quiet
<1> QED
  BY <1>2, <1>3, <1>4 DEF Pass

LEMMA StepKinds ==
    ASSUME Window, [Next]_vars
    PROVE  \/ Quiet
           \/ \E w \in Workers : Commit(w)
           \/ \E r \in Runtimes : Request(r)
           \/ EngageKillSwitch \/ ResetKillSwitch
<1>1. ASSUME NEW w \in Workers, ClaimNextCandidate(w) \/ Crash(w)
      PROVE  Quiet
  BY <1>1 DEF ClaimNextCandidate, Crash, db, Quiet
<1>2. ASSUME NEW r \in Runtimes, Lapse(r) \/ BackoffElapses(r) \/ GateMoves(r)
      PROVE  Quiet
  BY <1>2 DEF Lapse, BackoffElapses, GateMoves, Quiet
<1>3. CASE UNCHANGED vars
  BY <1>3 DEF vars, db, Quiet
<1> QED
  BY <1>1, <1>2, <1>3, PassKinds DEF Next, Request

(* A request on r.                                                          *)
LEMMA RequestEffect ==
    ASSUME Window, NEW r \in Runtimes, Request(r)
    PROVE  /\ UNCHANGED <<checkpoint, log, killSwitch, pc, job>>
           /\ \A q \in Runtimes \ {r} : status'[q] = status[q]
           /\ \/ /\ status[r] \in {"READY", "PAUSED"} /\ status'[r] = "RUNNING"
                 /\ Ready(r) /\ ~BehindAccount(r)
              \/ status[r] = "RUNNING" /\ status'[r] = "PAUSED"
              \/ status[r] \in {"RUNNING", "PAUSED", "HALTED"} /\ status'[r] = "STOPPED"
<1>1. status \in [Runtimes -> RuntimeStatus]
  BY DEF Window, TypeOK
<1> QED
  BY <1>1 DEF Request, ActivateOrchestration, PauseOrchestration, ResumeOrchestration,
              StopOrchestration, MoveTo, workers

(* A commit by w: only the holder of the current generation gets here.      *)
LEMMA CommitEffect ==
    ASSUME Window, NEW w \in Workers, Commit(w)
    PROVE  LET r == job[w].runtime
               b == job[w].boundary
           IN /\ r \in Runtimes /\ status[r] = "RUNNING"
              /\ Holds(w, r) /\ pc[w] = "ingested" /\ pc'[w] = "idle"
              /\ ~BlockedByMember(r) /\ ~BehindAccount(r)
              /\ checkpoint' = [checkpoint EXCEPT ![r] = b]
              /\ ToSet(log') \subseteq ToSet(log) \cup {[runtime |-> r, boundary |-> b]}
              /\ \A q \in Runtimes \ {r} : status'[q] = status[q]
              /\ status'[r] \in {"RUNNING", "COMPLETED"}
              /\ killSwitch' = killSwitch
<1> DEFINE r == job[w].runtime
           b == job[w].boundary
           e == [runtime |-> r, boundary |-> b]
<1>1. /\ status \in [Runtimes -> RuntimeStatus] /\ pc[w] = "ingested"
      /\ r \in Runtimes /\ b \in Nat
      /\ pc \in [Workers -> {"idle", "claimed", "ingested", "releasing"}]
      /\ log \in Seq([runtime : Runtimes, boundary : Nat])
  BY DEF Window, TypeOK, Commit, MayFinalize
<1>2. status[r] = "RUNNING" /\ Holds(w, r)
  BY DEF Commit, MayFinalize, Superseded
<1>3. log' = log \/ log' = Append(log, e)
  BY DEF Commit
<1>4. ToSet(log') \subseteq ToSet(log) \cup {e}
  <2>1. CASE log' = log
    BY <2>1
  <2>2. CASE log' = Append(log, e)
    <3> SUFFICES ASSUME NEW i \in DOMAIN log' PROVE log'[i] \in ToSet(log) \cup {e}
      BY DEF ToSet
    <3> HIDE DEF e
    <3>1. i \in 1..Len(log) \/ i = Len(log) + 1
      BY <1>1, <2>2
    <3> QED
      BY <1>1, <2>2, <3>1 DEF ToSet
  <2> QED
    BY <1>3, <2>1, <2>2
<1>5. pc'[w] = "idle"
  BY <1>1 DEF Commit, EndPass
<1>6. /\ \A q \in Runtimes \ {r} : status'[q] = status[q]
      /\ status'[r] \in {"RUNNING", "COMPLETED"}
  BY <1>1, <1>2 DEF Commit
<1> QED
  BY <1>1, <1>2, <1>4, <1>5, <1>6 DEF Commit

-----------------------------------------------------------------------------
(* The kill switch                                                          *)
LEMMA NextKillSwitch ==
    Window /\ NothingRunsUnderKillSwitch /\ [Next]_vars => NothingRunsUnderKillSwitch'
<1> SUFFICES ASSUME Window, NothingRunsUnderKillSwitch, [Next]_vars,
                    killSwitch', NEW r \in Runtimes
             PROVE  status'[r] # "RUNNING"
  BY DEF NothingRunsUnderKillSwitch
<1>1. CASE Quiet
  BY <1>1 DEF Quiet, NothingRunsUnderKillSwitch
<1>2. ASSUME NEW w \in Workers, Commit(w) PROVE FALSE
  BY <1>2, CommitEffect DEF NothingRunsUnderKillSwitch
<1>3. ASSUME NEW q \in Runtimes, Request(q) PROVE status'[r] # "RUNNING"
  BY <1>3, RequestEffect DEF Ready, NothingRunsUnderKillSwitch
<1>4. CASE EngageKillSwitch
  BY <1>4 DEF EngageKillSwitch
<1>5. CASE ResetKillSwitch
  BY <1>5 DEF ResetKillSwitch
<1> QED
  BY <1>1, <1>2, <1>3, <1>4, <1>5, StepKinds

-----------------------------------------------------------------------------
(* Targets                                                                  *)

(* A step leaves w with a target only by its own ingestion, or by doing     *)
(* nothing about it; and w gets no generation while it has one.             *)
LEMMA TargetKept ==
    ASSUME Window, [Next]_vars, NEW w \in Workers, pc'[w] = "ingested"
    PROVE  \/ Ingest(w)
           \/ /\ pc[w] = "ingested" /\ job'[w] = job[w]
              /\ fence'[job[w].runtime] = w => fence[job[w].runtime] = w
<1>1. DbType /\ WorkerType
  BY TypeParts DEF Window
<1> DEFINE Kept == /\ pc[w] = "ingested" /\ job'[w] = job[w]
                   /\ fence'[job[w].runtime] = w => fence[job[w].runtime] = w
<1>2. ASSUME NEW v \in Workers, EndPass(v), fence' = fence
      PROVE  Kept
  BY <1>1, <1>2 DEF EndPass, WorkerType
<1>3. ASSUME NEW v \in Workers, ClaimNextCandidate(v)
      PROVE  Kept
  <2>1. /\ pc' = [pc EXCEPT ![v] = "claimed"]
        /\ \E r \in Runtimes : /\ fence' = [fence EXCEPT ![r] = v]
                               /\ job' = [job EXCEPT ![v] = [NoJob EXCEPT !.runtime = r]]
    BY <1>3 DEF ClaimNextCandidate
  <2>2. w # v
    BY <1>1, <2>1 DEF WorkerType
  <2> QED
    BY <1>1, <2>1, <2>2 DEF WorkerType, DbType
<1>4. ASSUME NEW v \in Workers, Pass(v)
      PROVE  Ingest(w) \/ Kept
  <2>1. fence' = fence
    <3>1. ASSUME NEW charge, NEW later, Release(v, job[v].runtime, charge, later)
          PROVE  fence' = fence
      BY <3>1 DEF Release, db
    <3> QED
      BY <1>4, <3>1 DEF Pass, FindNotRunning, FailGate, FailIngestion, Ingest, FailEvaluation,
         Abandon, FindWinner, DeferToMember, FailFinalization, Commit, ReleaseAfterRollback,
         RollBack, db
  <2>2. CASE FailIngestion(v) \/ DeferToMember(v) \/ FailFinalization(v)
    BY <1>1, <2>1, <2>2 DEF FailIngestion, DeferToMember, FailFinalization, RollBack, WorkerType
  <2>3. CASE Ingest(v)
    <3>1. CASE v = w
      BY <2>3, <3>1
    <3>2. CASE v # w
      BY <1>1, <2>1, <2>3, <3>2 DEF Ingest, WorkerType
    <3> QED
      BY <3>1, <3>2
  <2>4. CASE \/ FindNotRunning(v) \/ FailGate(v) \/ FailEvaluation(v) \/ Abandon(v)
             \/ FindWinner(v) \/ Commit(v) \/ ReleaseAfterRollback(v)
    BY <1>2, <2>1, <2>4 DEF FindNotRunning, FailGate, FailEvaluation, Abandon, FindWinner,
       Commit, ReleaseAfterRollback
  <2> QED
    BY <1>4, <2>2, <2>3, <2>4 DEF Pass
<1>5. ASSUME NEW v \in Workers, Crash(v) PROVE Kept
  BY <1>2, <1>5 DEF Crash, db
<1>6. ASSUME NEW r \in Runtimes, Request(r) PROVE Kept
  <2>1. fence' = fence \/ fence' = [fence EXCEPT ![r] = Nobody]
    BY <1>6 DEF Request, ActivateOrchestration, PauseOrchestration, ResumeOrchestration,
       StopOrchestration, Revoke
  <2>2. pc' = pc /\ job' = job
    BY <1>6, RequestEffect
  <2> QED
    BY <1>1, <2>1, <2>2, OrchestrationAssumption DEF DbType, WorkerType
<1>7. CASE \/ \E r \in Runtimes : Lapse(r) \/ BackoffElapses(r) \/ GateMoves(r)
           \/ EngageKillSwitch \/ ResetKillSwitch \/ UNCHANGED vars
  BY <1>7 DEF Lapse, BackoffElapses, GateMoves, EngageKillSwitch, ResetKillSwitch, vars, db,
     workers
<1> QED
  BY <1>3, <1>4, <1>5, <1>6, <1>7 DEF Next, Request

LEMMA NextTarget ==
    Window /\ TargetIsNext /\ [Next]_vars => TargetIsNext'
<1> SUFFICES ASSUME Window, TargetIsNext, [Next]_vars, NEW w \in Workers,
                    pc'[w] = "ingested", fence'[job'[w].runtime] = w
             PROVE  job'[w].boundary =
                      checkpoint'[job'[w].runtime] + Timeframe[job'[w].runtime]
  BY DEF TargetIsNext, NextClose
<1>1. DbType /\ WorkerType
  BY TypeParts DEF Window
<1>2. CASE Ingest(w)
  <2>1. job'[w].runtime = job[w].runtime /\ job'[w].boundary = NextClose(job[w].runtime)
        /\ checkpoint' = checkpoint
    BY <1>1, <1>2 DEF Ingest, WorkerType, Jobs, db
  <2> QED
    BY <2>1 DEF NextClose
<1>3. CASE ~Ingest(w)
  <2> DEFINE r == job[w].runtime
  <2>1. pc[w] = "ingested" /\ job'[w] = job[w] /\ fence[r] = w
    BY <1>3, TargetKept
  <2>2. job[w].boundary = NextClose(r) /\ r \in Runtimes
    BY <1>1, <2>1 DEF TargetIsNext, WorkerType
  <2>3. checkpoint'[r] = checkpoint[r]
    <3>1. ASSUME NEW v \in Workers, Commit(v) PROVE checkpoint'[r] = checkpoint[r]
      <4>1. Holds(v, job[v].runtime) /\ pc'[v] = "idle"
            /\ checkpoint' = [checkpoint EXCEPT ![job[v].runtime] = job[v].boundary]
        BY <3>1, CommitEffect
      <4>2. job[v].runtime # r
        BY <2>1, <4>1 DEF Holds
      <4> QED
        BY <1>1, <4>1, <4>2, <2>2 DEF DbType
    <3>2. CASE EngageKillSwitch \/ ResetKillSwitch \/ Quiet
      BY <3>2 DEF EngageKillSwitch, ResetKillSwitch, Quiet
    <3>3. ASSUME NEW q \in Runtimes, Request(q) PROVE checkpoint' = checkpoint
      BY <3>3, RequestEffect
    <3> QED
      BY <3>1, <3>2, <3>3, StepKinds
  <2> QED
    BY <2>1, <2>2, <2>3 DEF NextClose
<1> QED
  BY <1>2, <1>3

-----------------------------------------------------------------------------
(* The order of the account                                                 *)

(* What the account has committed is before the next close of a member.     *)
InStep(r) ==
    \A e \in ToSet(log) :
       e.runtime \in Paper => Earlier(e.boundary, e.runtime, NextClose(r), r)

LEMMA MemberInStep == \A r \in Paper : ~BehindAccount(r) <=> InStep(r)
  BY DEF BehindAccount, InStep

(* Numbers for the comparisons.                                             *)
LEMMA ReplayNumbers ==
    ASSUME TypeOK
    PROVE  /\ Runtimes \subseteq Nat /\ Paper \subseteq Runtimes
           /\ \A r \in Runtimes : NextClose(r) \in Nat /\ Timeframe[r] \in Nat \ {0}
           /\ \A e \in ToSet(log) : e.runtime \in Runtimes /\ e.boundary \in Nat
<1>1. /\ Runtimes \subseteq Nat /\ Paper \subseteq Runtimes
      /\ \A r \in Runtimes : checkpoint[r] \in Nat /\ Timeframe[r] \in Nat \ {0}
  BY OrchestrationAssumption DEF TypeOK
<1>2. log \in Seq([runtime : Runtimes, boundary : Nat])
  BY DEF TypeOK
<1>3. \A r \in Runtimes : NextClose(r) \in Nat
  BY <1>1 DEF NextClose
<1>4. ASSUME NEW e \in ToSet(log)
      PROVE  e.runtime \in Runtimes /\ e.boundary \in Nat
  <2> DEFINE T == [runtime : Runtimes, boundary : Nat]
  <2>1. PICK i \in DOMAIN log : e = log[i]
    BY DEF ToSet
  <2>2. log \in Seq(T)
    BY <1>2
  <2> HIDE DEF T
  <2>3. e \in T
    BY <2>1, <2>2
  <2> QED
    BY <2>3 DEF T
<1> QED
  BY <1>1, <1>3, <1>4

(* A commit of another runtime: the barrier has let it go first.            *)
LEMMA OtherStaysInStep ==
    ASSUME Window, TargetIsNext, MembersKeepTheirPlace, NEW w \in Workers, Commit(w),
           NEW r \in Paper, r # job[w].runtime, status'[r] \in {"RUNNING", "PAUSED"}
    PROVE  InStep(r)'
<1> DEFINE q == job[w].runtime
           b == job[w].boundary
<1>1. /\ q \in Runtimes /\ Holds(w, q) /\ pc[w] = "ingested" /\ ~BlockedByMember(q)
      /\ checkpoint' = [checkpoint EXCEPT ![q] = b]
      /\ ToSet(log') \subseteq ToSet(log) \cup {[runtime |-> q, boundary |-> b]}
      /\ \A s \in Runtimes \ {q} : status'[s] = status[s]
  BY CommitEffect
<1>2. r \in Runtimes /\ checkpoint \in [Runtimes -> Nat]
  BY OrchestrationAssumption DEF Window, TypeOK
<1>3. b = NextClose(q)
  BY <1>1 DEF TargetIsNext, Holds
<1>4. status[r] \in {"RUNNING", "PAUSED"} /\ InStep(r)
  BY <1>1, <1>2, MemberInStep DEF MembersKeepTheirPlace
<1>5. NextClose(r) <= CloseAt[r]
  <2>1. OnGrid(r, checkpoint[r]) /\ Remaining(r)
    BY <1>2, <1>4 DEF Window, CheckpointsOnGrid, WorkLeft
  <2> QED
    BY <1>2, <2>1, GridStep, GridIsNat
<1>6. q \in Paper => Earlier(b, q, NextClose(r), r)
  <2> SUFFICES ASSUME q \in Paper PROVE Earlier(b, q, NextClose(r), r)
    OBVIOUS
  <2>1. ~Earlier(NextClose(r), r, NextClose(q), q)
    BY <1>1, <1>4, <1>5 DEF BlockedByMember
  <2>2. NextClose(q) \in Nat /\ NextClose(r) \in Nat /\ q \in Nat /\ r \in Nat
    BY <1>1, <1>2, ReplayNumbers DEF Window
  <2> QED
    BY <1>3, <2>1, <2>2 DEF Earlier
<1>7. NextClose(r)' = NextClose(r)
  BY <1>1, <1>2 DEF NextClose
<1> QED
  BY <1>1, <1>4, <1>6, <1>7 DEF InStep

(* The runtime that commits moves past its own evaluation.                  *)
LEMMA CommitterStaysInStep ==
    ASSUME Window, TargetIsNext, NEW w \in Workers, Commit(w),
           NEW q \in Paper, q = job[w].runtime
    PROVE  InStep(q)'
<1> DEFINE b == job[w].boundary
<1>1. /\ q \in Runtimes /\ Holds(w, q) /\ pc[w] = "ingested" /\ ~BehindAccount(q)
      /\ checkpoint' = [checkpoint EXCEPT ![q] = b]
      /\ ToSet(log') \subseteq ToSet(log) \cup {[runtime |-> q, boundary |-> b]}
  BY CommitEffect
<1>2. b = NextClose(q)
  BY <1>1 DEF TargetIsNext, Holds
<1>3. InStep(q)
  BY <1>1, MemberInStep
<1>4. /\ b \in Nat /\ q \in Nat /\ Timeframe[q] \in Nat \ {0}
      /\ \A e \in ToSet(log) : e.boundary \in Nat
  BY <1>1, <1>2, ReplayNumbers DEF Window
<1>5. checkpoint'[q] + Timeframe[q] = b + Timeframe[q]
  BY <1>1 DEF Window, TypeOK
<1> DEFINE n == checkpoint'[q] + Timeframe[q]
<1> SUFFICES ASSUME NEW e \in ToSet(log'), e.runtime \in Paper
             PROVE  Earlier(e.boundary, e.runtime, n, q)
  BY DEF InStep, NextClose
<1>6. e.boundary <= b /\ e.boundary \in Nat
  <2>1. CASE e \in ToSet(log)
    BY <1>2, <1>3, <1>4, <2>1 DEF InStep, Earlier
  <2>2. CASE e = [runtime |-> q, boundary |-> b]
    BY <1>4, <2>2
  <2> QED
    BY <1>1, <2>1, <2>2
<1> QED
  BY <1>4, <1>5, <1>6 DEF Earlier

LEMMA NextMembers ==
    Window /\ TargetIsNext /\ MembersKeepTheirPlace /\ [Next]_vars => MembersKeepTheirPlace'
<1> SUFFICES ASSUME Window, TargetIsNext, MembersKeepTheirPlace, [Next]_vars,
                    NEW r \in Paper, status'[r] \in {"RUNNING", "PAUSED"}
             PROVE  ~BehindAccount(r)'
  BY DEF MembersKeepTheirPlace
<1>1. r \in Runtimes /\ status \in [Runtimes -> RuntimeStatus]
  BY OrchestrationAssumption DEF Window, TypeOK
<1>2. ASSUME checkpoint' = checkpoint, log' = log, ~BehindAccount(r)
      PROVE  ~BehindAccount(r)'
  BY <1>2 DEF BehindAccount, NextClose
<1>3. CASE Quiet
  <2>1. status[r] \in {"RUNNING", "PAUSED"}
    BY <1>1, <1>3 DEF Quiet
  <2> QED
    BY <1>2, <1>3, <2>1 DEF Quiet, MembersKeepTheirPlace
<1>4. CASE EngageKillSwitch \/ ResetKillSwitch
  <2>1. status[r] \in {"RUNNING", "PAUSED"} /\ checkpoint' = checkpoint /\ log' = log
    BY <1>1, <1>4 DEF EngageKillSwitch, ResetKillSwitch
  <2> QED
    BY <1>2, <2>1 DEF MembersKeepTheirPlace
<1>5. ASSUME NEW q \in Runtimes, Request(q)
      PROVE  ~BehindAccount(r)'
  <2>1. checkpoint' = checkpoint /\ log' = log
    BY <1>5, RequestEffect
  <2>2. status[r] \in {"RUNNING", "PAUSED"} \/ ~BehindAccount(r)
    BY <1>1, <1>5, RequestEffect
  <2> QED
    BY <1>2, <2>1, <2>2 DEF MembersKeepTheirPlace
<1>6. ASSUME NEW w \in Workers, Commit(w)
      PROVE  ~BehindAccount(r)'
  <2>1. InStep(r)'
    BY <1>6, OtherStaysInStep, CommitterStaysInStep
  <2> QED
    BY <2>1 DEF InStep, BehindAccount
<1> QED
  BY <1>3, <1>4, <1>5, <1>6, StepKinds

-----------------------------------------------------------------------------
(* The log                                                                  *)

(* From a checkpoint on the grid, one interval adds one close.              *)
LEMMA ClosesStep ==
    ASSUME NEW r \in Runtimes, OnGrid(r, checkpoint[r])
    PROVE  Closes(r, NextClose(r)) = Closes(r, checkpoint[r]) \cup {NextClose(r)}
<1> DEFINE o == OpenAt[r]
           c == checkpoint[r]
           t == Timeframe[r]
<1>1. o \in Nat /\ c \in Nat /\ o <= c /\ t \in Nat \ {0} /\ (c - o) % t = 0
  BY GridIsNat, OrchestrationAssumption DEF OnGrid
<1>2. NextClose(r) = c + t
  BY DEF NextClose
<1>3. \A n \in Nat : Closes(r, n) = {b \in (o + 1)..n : (b - o) % t = 0}
  BY DEF Closes
<1> HIDE DEF o, c, t
<1>4. /\ ((c - o) + t) % t = 0
      /\ \A m \in Nat : c - o < m /\ m % t = 0 => (c - o) + t <= m
  <2>1. c - o \in Nat
    BY <1>1
  <2> QED
    BY <1>1, <2>1, MultiplesStep
<1>5. ASSUME NEW b \in (o + 1)..(c + t), (b - o) % t = 0
      PROVE  b \in (o + 1)..c \/ b = c + t
  <2>1. b - o \in Nat /\ b \in Nat
    BY <1>1, <1>5
  <2>2. CASE c < b
    <3> DEFINE m == b - o
    <3>1. m \in Nat /\ c - o < m /\ m % t = 0
      BY <1>1, <1>5, <2>1, <2>2
    <3> HIDE DEF m
    <3>2. (c - o) + t <= m
      BY <1>4, <3>1
    <3> QED
      BY <1>1, <1>5, <2>1, <3>2 DEF m
  <2>3. CASE b <= c
    BY <1>1, <2>1, <2>3
  <2> QED
    BY <1>1, <2>1, <2>2, <2>3
<1>6. c + t \in (o + 1)..(c + t) /\ ((c + t) - o) % t = 0
  <2>1. (c + t) - o = (c - o) + t
    BY <1>1
  <2> QED
    BY <1>1, <1>4, <2>1
<1>7. \A b \in (o + 1)..c : b \in (o + 1)..(c + t)
  BY <1>1
<1>8. {b \in (o + 1)..(c + t) : (b - o) % t = 0}
        = {b \in (o + 1)..c : (b - o) % t = 0} \cup {c + t}
  BY <1>5, <1>6, <1>7
<1> QED
  BY <1>1, <1>2, <1>3, <1>8 DEF c

(* A commit adds exactly the next close of its runtime.                     *)
LEMMA CommitAppends ==
    ASSUME Window, TargetIsNext, CheckpointIsCommitted, NEW w \in Workers, Commit(w),
           NEW r \in Runtimes, r = job[w].runtime
    PROVE  /\ log' = Append(log, [runtime |-> r, boundary |-> NextClose(r)])
           /\ checkpoint' = [checkpoint EXCEPT ![r] = NextClose(r)]
           /\ NextClose(r) \in Nat /\ checkpoint[r] < NextClose(r)
           /\ OnGrid(r, NextClose(r)) /\ OnGrid(r, checkpoint[r])
           /\ ~BehindAccount(r)
<1>1. Holds(w, r) /\ pc[w] = "ingested" /\ status[r] = "RUNNING" /\ ~BehindAccount(r)
      /\ checkpoint' = [checkpoint EXCEPT ![r] = job[w].boundary]
  BY CommitEffect
<1>2. job[w].boundary = NextClose(r)
  BY <1>1 DEF TargetIsNext, Holds
<1>3. OnGrid(r, checkpoint[r]) /\ Remaining(r)
  BY <1>1 DEF Window, CheckpointsOnGrid, WorkLeft
<1>4. OnGrid(r, NextClose(r))
  BY <1>3, GridStep
<1>5. checkpoint[r] \in Nat /\ NextClose(r) \in Nat /\ checkpoint[r] < NextClose(r)
  BY <1>3, <1>4, GridIsNat, OrchestrationAssumption DEF NextClose
<1>6. ~Recorded(r, NextClose(r))
  <2> SUFFICES ASSUME NEW e \in ToSet(log), e.runtime = r, e.boundary = NextClose(r)
               PROVE  FALSE
    BY DEF Recorded
  <2>1. NextClose(r) \in Closes(r, checkpoint[r])
    BY DEF CheckpointIsCommitted, Evaluated
  <2>2. NextClose(r) <= checkpoint[r]
    BY <1>5, <2>1, OrchestrationAssumption DEF Closes
  <2> QED
    BY <1>5, <2>2
<1> QED
  BY <1>1, <1>2, <1>3, <1>4, <1>5, <1>6 DEF Commit

LEMMA AppendedEntries ==
    ASSUME NEW S, NEW s \in Seq(S), NEW e \in S
    PROVE  /\ Append(s, e) \in Seq(S)
           /\ DOMAIN Append(s, e) = DOMAIN s \cup {Len(s) + 1}
           /\ \A i \in DOMAIN s : Append(s, e)[i] = s[i]
           /\ Append(s, e)[Len(s) + 1] = e
           /\ ToSet(Append(s, e)) = ToSet(s) \cup {e}
<1>1. /\ Append(s, e) \in Seq(S) /\ Len(Append(s, e)) = Len(s) + 1
      /\ \A i \in 1..Len(s) : Append(s, e)[i] = s[i]
      /\ Append(s, e)[Len(s) + 1] = e
  OBVIOUS
<1>2. DOMAIN s = 1..Len(s) /\ Len(s) \in Nat /\ DOMAIN Append(s, e) = 1..(Len(s) + 1)
  BY <1>1
<1>3. DOMAIN Append(s, e) = DOMAIN s \cup {Len(s) + 1}
  BY <1>2
<1> QED
  BY <1>1, <1>2, <1>3 DEF ToSet

LEMMA CommitKeepsLog ==
    ASSUME Window, TargetIsNext, CheckpointIsCommitted, NEW w \in Workers, Commit(w)
    PROVE  CheckpointIsCommitted'
<1> DEFINE r == job[w].runtime
           n == NextClose(r)
           e == [runtime |-> r, boundary |-> n]
           T == [runtime : Runtimes, boundary : Nat]
<1>1. r \in Runtimes
  BY CommitEffect
<1>2. /\ log' = Append(log, e)
      /\ checkpoint' = [checkpoint EXCEPT ![r] = n]
      /\ n \in Nat /\ checkpoint[r] < n /\ OnGrid(r, checkpoint[r])
  BY <1>1, CommitAppends
<1>3. log \in Seq(T) /\ e \in T /\ checkpoint \in [Runtimes -> Nat]
  BY <1>1, <1>2 DEF Window, TypeOK
<1>4. Closes(r, n) = Closes(r, checkpoint[r]) \cup {n}
  BY <1>1, <1>2, ClosesStep
<1>5. e.runtime = r /\ e.boundary = n
  OBVIOUS
<1> HIDE DEF r, n, e, T
<1>6. /\ DOMAIN log' = DOMAIN log \cup {Len(log) + 1}
      /\ \A i \in DOMAIN log : log'[i] = log[i]
      /\ log'[Len(log) + 1] = e
      /\ ToSet(log') = ToSet(log) \cup {e}
  BY <1>2, <1>3, AppendedEntries
<1> SUFFICES ASSUME NEW q \in Runtimes
             PROVE  /\ Evaluated(q)' = Closes(q, checkpoint'[q])
                    /\ \A i, j \in DOMAIN log' :
                         i < j /\ log'[i].runtime = q /\ log'[j].runtime = q
                           => log'[i].boundary < log'[j].boundary
  BY DEF CheckpointIsCommitted, Closes
<1>7. Evaluated(q)' = Closes(q, checkpoint'[q])
  <2>1. CASE q = r
    <3>1. Evaluated(q)' = Evaluated(q) \cup {n}
      BY <1>5, <1>6, <2>1 DEF Evaluated
    <3> QED
      BY <1>1, <1>2, <1>3, <1>4, <2>1, <3>1 DEF CheckpointIsCommitted
  <2>2. CASE q # r
    <3>1. Evaluated(q)' = Evaluated(q)
      BY <1>5, <1>6, <2>2 DEF Evaluated
    <3>2. checkpoint'[q] = checkpoint[q]
      BY <1>2, <1>3, <2>2
    <3> QED
      BY <3>1, <3>2 DEF CheckpointIsCommitted
  <2> QED
    BY <2>1, <2>2
<1>8. ASSUME NEW i \in DOMAIN log', NEW j \in DOMAIN log', i < j,
             log'[i].runtime = q, log'[j].runtime = q
      PROVE  log'[i].boundary < log'[j].boundary
  <2>1. DOMAIN log = 1..Len(log) /\ Len(log) \in Nat
    BY <1>3
  <2>2. i \in DOMAIN log
    BY <1>6, <1>8, <2>1
  <2>3. CASE j \in DOMAIN log
    BY <1>6, <1>8, <2>2, <2>3 DEF CheckpointIsCommitted
  <2>4. CASE j = Len(log) + 1
    <3>1. q = r /\ log'[j].boundary = n
      BY <1>5, <1>6, <1>8, <2>4
    <3>2. log[i].boundary \in Evaluated(r)
      BY <1>6, <1>8, <2>2, <3>1 DEF Evaluated, ToSet
    <3>3. log[i].boundary \in Closes(r, checkpoint[r])
      BY <1>1, <3>2 DEF CheckpointIsCommitted
    <3>4. log[i].boundary \in Nat /\ log[i].boundary <= checkpoint[r]
      BY <1>1, <1>3, <3>3, OrchestrationAssumption DEF Closes
    <3> QED
      BY <1>1, <1>2, <1>3, <1>6, <2>2, <3>1, <3>4
  <2> QED
    BY <1>6, <2>3, <2>4
<1> QED
  BY <1>7, <1>8

(* Every step leaves the log and the checkpoints alone or is a commit.      *)
LEMMA CommitOrNothing ==
    ASSUME Window, [Next]_vars
    PROVE  (checkpoint' = checkpoint /\ log' = log) \/ \E w \in Workers : Commit(w)
<1>1. CASE Quiet \/ EngageKillSwitch \/ ResetKillSwitch
  BY <1>1 DEF Quiet, EngageKillSwitch, ResetKillSwitch
<1>2. ASSUME NEW r \in Runtimes, Request(r) PROVE checkpoint' = checkpoint /\ log' = log
  BY <1>2, RequestEffect
<1> QED
  BY <1>1, <1>2, StepKinds

LEMMA NextLog ==
    Window /\ TargetIsNext /\ CheckpointIsCommitted /\ [Next]_vars => CheckpointIsCommitted'
<1> SUFFICES ASSUME Window, TargetIsNext, CheckpointIsCommitted, [Next]_vars
             PROVE  CheckpointIsCommitted'
  OBVIOUS
<1>1. CASE checkpoint' = checkpoint /\ log' = log
  BY <1>1 DEF CheckpointIsCommitted, Evaluated, Closes
<1> QED
  BY <1>1, CommitKeepsLog, CommitOrNothing

-----------------------------------------------------------------------------
(* Theorems                                                                 *)

(* The inductive invariant: types, checkpoints and targets that are closes  *)
(* of the window, work left to whatever may run, targets that are the next  *)
(* close, the log, the kill switch and the order of the account.            *)
Inv ==
    /\ Window
    /\ TargetIsNext
    /\ CheckpointIsCommitted
    /\ NothingRunsUnderKillSwitch
    /\ MembersKeepTheirPlace

LEMMA InitInv == Init => Inv
<1> SUFFICES ASSUME Init PROVE Inv
  OBVIOUS
<1>1. TargetIsNext /\ NothingRunsUnderKillSwitch
  BY DEF Init, TargetIsNext, NothingRunsUnderKillSwitch
<1>2. MembersKeepTheirPlace
  BY OrchestrationAssumption DEF Init, MembersKeepTheirPlace
<1>3. CheckpointIsCommitted
  <2>1. ToSet(log) = {} /\ DOMAIN log = {}
    BY DEF Init, ToSet
  <2>2. \A r \in Runtimes : Closes(r, checkpoint[r]) = {}
    BY OrchestrationAssumption DEF Init, Closes
  <2>3. \A r \in Runtimes : Evaluated(r) = {}
    BY <2>1 DEF Evaluated
  <2> QED
    BY <2>1, <2>2, <2>3 DEF CheckpointIsCommitted
<1> QED
  BY <1>1, <1>2, <1>3, InitWindow DEF Inv

(* Inv holds in every reachable state, for any runtimes, workers and bounds. *)
THEOREM Invariance == Spec => []Inv
<1>1. Inv /\ [Next]_vars => Inv'
  BY NextWindow, NextTarget, NextLog, NextKillSwitch, NextMembers DEF Inv
<1> QED
  BY <1>1, InitInv, PTL DEF Spec

(* Every reachable state is well typed: no checkpoint and no target of a    *)
(* worker leaves the replay window, whichever worker was superseded.        *)
THEOREM TypeCorrect == Spec => []TypeOK
<1>1. Inv => TypeOK
  BY DEF Inv, Window
<1> QED
  BY <1>1, Invariance, PTL

(* A running or paused replay has an interval left: the commit of its last  *)
(* interval completes it in the same transaction.                           *)
THEOREM ReplayHasWork == Spec => []RunningHasWork
<1>1. Inv => RunningHasWork
  BY DEF Inv, Window, WorkLeft, RunningHasWork
<1> QED
  BY <1>1, Invariance, PTL

(* While a kill switch is engaged no runtime is RUNNING.                    *)
THEOREM KillSwitchHolds == Spec => []NothingRunsUnderKillSwitch
<1>1. Inv => NothingRunsUnderKillSwitch
  BY DEF Inv
<1> QED
  BY <1>1, Invariance, PTL

(* No running or paused member is behind what its account has committed, so *)
(* the check of _fenced_finalize_step never refuses a running runtime.      *)
THEOREM AccountInStep == Spec => []MembersKeepTheirPlace
<1>1. Inv => MembersKeepTheirPlace
  BY DEF Inv
<1> QED
  BY <1>1, Invariance, PTL

(* The evaluations of every runtime are its interval closes up to its       *)
(* checkpoint, once and in order, whatever workers crash or race.           *)
THEOREM CheckpointCorrect == Spec => []CheckpointIsCommitted
<1>1. Inv => CheckpointIsCommitted
  BY DEF Inv
<1> QED
  BY <1>1, Invariance, PTL

(* A worker whose generation was superseded commits nothing.                *)
THEOREM FencingHolds == Spec => RevokedClaimNeverCommits
<1> DEFINE Safe == \A w \in Workers :
         /\ pc[w] = "ingested" /\ pc'[w] # "ingested"
         /\ fence[job[w].runtime] # w
         => checkpoint' = checkpoint /\ log' = log
<1>1. Inv /\ [Next]_vars => [Safe]_vars
  <2> SUFFICES ASSUME Inv, [Next]_vars, NEW w \in Workers,
                      pc[w] = "ingested", pc'[w] # "ingested", fence[job[w].runtime] # w
               PROVE  checkpoint' = checkpoint /\ log' = log
    OBVIOUS
  <2>1. Window /\ pc \in [Workers -> {"idle", "claimed", "ingested", "releasing"}]
    BY DEF Inv, Window, TypeOK
  <2>2. ASSUME NEW v \in Workers, Commit(v) PROVE FALSE
    <3>1. Holds(v, job[v].runtime)
      BY <2>1, <2>2, CommitEffect
    <3>2. pc' = [pc EXCEPT ![v] = "idle"]
      BY <2>2 DEF Commit, EndPass
    <3>3. v = w
      BY <2>1, <3>2
    <3> QED
      BY <3>1, <3>3 DEF Holds
  <2>3. CASE Quiet \/ EngageKillSwitch \/ ResetKillSwitch
    BY <2>3 DEF Quiet, EngageKillSwitch, ResetKillSwitch
  <2>4. ASSUME NEW r \in Runtimes, Request(r) PROVE checkpoint' = checkpoint /\ log' = log
    BY <2>1, <2>4, RequestEffect
  <2> QED
    BY <2>1, <2>2, <2>3, <2>4, StepKinds
<1> QED
  BY <1>1, Invariance, PTL DEF Spec, RevokedClaimNeverCommits

(* Every status change is one of VALID_RUNTIME_TRANSITIONS, also when a      *)
(* worker releases or completes long after an operator moved the status.     *)
THEOREM StatusesFollowTable == Spec => FollowsRuntimeTable
<1> DEFINE Moves == \A r \in Runtimes :
         status'[r] # status[r] => <<status[r], status'[r]>> \in RuntimeMoves
<1>1. Inv /\ [Next]_vars => [Moves]_vars
  <2> SUFFICES ASSUME Inv, [Next]_vars, NEW r \in Runtimes, status'[r] # status[r]
               PROVE  <<status[r], status'[r]>> \in RuntimeMoves
    OBVIOUS
  <2>1. Window
    BY DEF Inv
  <2>2. CASE Quiet
    BY <2>2 DEF Quiet, RuntimeMoves
  <2>3. ASSUME NEW w \in Workers, Commit(w)
        PROVE  <<status[r], status'[r]>> \in RuntimeMoves
    BY <2>1, <2>3, CommitEffect DEF RuntimeMoves
  <2>4. ASSUME NEW q \in Runtimes, Request(q)
        PROVE  <<status[r], status'[r]>> \in RuntimeMoves
    BY <2>1, <2>4, RequestEffect DEF RuntimeMoves
  <2>5. CASE EngageKillSwitch \/ ResetKillSwitch
    BY <2>5 DEF EngageKillSwitch, ResetKillSwitch, RuntimeMoves
  <2> QED
    BY <2>1, <2>2, <2>3, <2>4, <2>5, StepKinds
<1> QED
  BY <1>1, Invariance, PTL DEF Spec, FollowsRuntimeTable

(* A commit of the worker is a commit of the ledger.                        *)
LEMMA CommitIsLedgerCommit ==
    ASSUME Inv, NEW w \in Workers, Commit(w)
    PROVE  Ledger!Next
<1> DEFINE r == job[w].runtime
           n == NextClose(r)
<1>1. r \in Runtimes
  BY CommitEffect DEF Inv
<1>2. /\ log' = Append(log, [runtime |-> r, boundary |-> n])
      /\ n \in Nat /\ checkpoint[r] < n
      /\ OnGrid(r, n) /\ OnGrid(r, checkpoint[r]) /\ ~BehindAccount(r)
  BY <1>1, CommitAppends DEF Inv
<1>3. /\ OpenAt[r] \in Nat /\ CloseAt[r] \in Nat /\ checkpoint[r] \in Nat
      /\ OpenAt[r] <= checkpoint[r] /\ n <= CloseAt[r] /\ n = checkpoint[r] + Timeframe[r]
      /\ Timeframe[r] \in Nat
  BY <1>1, <1>2, GridIsNat, OrchestrationAssumption DEF NextClose
<1>4. Ledger!Done(r) = Closes(r, checkpoint[r]) /\ Ledger!ToSet(log) = ToSet(log)
  <2>1. Ledger!ToSet(log) = ToSet(log)
    BY DEF ToSet, Ledger!ToSet
  <2> QED
    BY <1>1, <2>1 DEF Inv, CheckpointIsCommitted, Evaluated, Ledger!Done
<1> HIDE DEF r, n
<1>5. n = OpenAt[r] + Timeframe[r] \/ n - Timeframe[r] \in Ledger!Done(r)
  <2>1. CASE checkpoint[r] = OpenAt[r]
    BY <1>3, <2>1
  <2>2. CASE checkpoint[r] # OpenAt[r]
    <3>1. checkpoint[r] \in Closes(r, checkpoint[r])
      BY <1>2, <1>3, <2>2 DEF Closes, OnGrid
    <3> QED
      BY <1>3, <1>4, <3>1
  <2> QED
    BY <2>1, <2>2
<1>6. \A c \in Ledger!Done(r) : c < n
  BY <1>2, <1>3, <1>4 DEF Closes
<1>7. r \in Paper => \A e \in ToSet(log) :
         e.runtime \in Paper => Ledger!Earlier(e.boundary, e.runtime, n, r)
  BY <1>2 DEF BehindAccount, Earlier, Ledger!Earlier, n
<1>8. n \in (OpenAt[r] + 1)..CloseAt[r]
  BY <1>2, <1>3
<1>9. Ledger!Commit(r)
  BY <1>2, <1>4, <1>5, <1>6, <1>7, <1>8 DEF Ledger!Commit, Ledger!IsNext
<1> QED
  BY <1>1, <1>9 DEF Ledger!Next

(* The workers implement the ledger: what they commit is, for any runtimes  *)
(* and any workers, a replay that evaluates every interval once and in      *)
(* order and keeps the members of the account in step.                      *)
THEOREM LedgerImplemented == Spec => ImplementsLedger
<1>1. Init => Ledger!Init
  BY DEF Init, Ledger!Init
<1>2. Inv /\ [Next]_vars => [Ledger!Next]_log
  <2> SUFFICES ASSUME Inv, [Next]_vars PROVE Ledger!Next \/ log' = log
    OBVIOUS
  <2> QED
    BY CommitOrNothing, CommitIsLedgerCommit DEF Inv
<1> QED
  BY <1>1, <1>2, Invariance, PTL DEF Spec, ImplementsLedger, Ledger!Spec
=============================================================================
