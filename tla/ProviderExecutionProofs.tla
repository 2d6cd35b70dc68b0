---------------------- MODULE ProviderExecutionProofs ----------------------
(***************************************************************************)
(* What is proved of ProviderExecution for any series, session calendar,   *)
(* rule, trigger, staleness limit, workers and worker ids.                 *)
(***************************************************************************)
EXTENDS ProviderExecution, TLAPS

(* A worker that holds the fence has read the cursor there is.               *)
ClaimIsCurrent ==
    \A w \in Workers : pc[w] \in {"requesting", "evaluating"} /\ fence = w => last[w] = cursor

(* A worker evaluates a closed candle of the series, and the next one after  *)
(* the cursor it read.                                                       *)
TargetIsNext ==
    \A w \in Workers : pc[w] = "evaluating" =>
        /\ target[w] \in Candles \ Absent
        /\ IF last[w] = 0 THEN \A d \in Candles : d < target[w] => d \in Absent
                          ELSE target[w] = last[w] + 1

(* What is written beyond the cursor is a note, for a reason that lasts.     *)
NotesLast ==
    \A c \in Candles : journal[c] # NoRecord =>
        \/ c <= cursor
        \/ journal[c] \in Notes /\ ~Tradable(c)

(* Orders and CANCEL rows are backed by evidence: an order exists for the  *)
(* candles whose evaluation accepted an entry and for no other, and its    *)
(* CANCEL row comes from an exit decided on a later candle.                *)
OrdersHaveEvidence ==
    \A c \in Candles :
       /\ order[c] # NoRecord <=> journal[c] = "ENTRY"
       /\ cancel[c] # NoRecord =>
            /\ order[c] # NoRecord
            /\ \E d \in Candles : d > c /\ journal[d] = "EXIT"

Inv ==
    /\ TypeOK
    /\ ClaimIsCurrent
    /\ TargetIsNext
    /\ NotesLast
    /\ OrdersHaveEvidence

-----------------------------------------------------------------------------
LEMMA CandleNat ==
    /\ \A c \in Candles : c \in Nat /\ c # 0
    /\ MaxMishaps \in Nat /\ MaxStaleness \in Nat
  BY ProviderAssumption DEF Candles

LEMMA AnotherMishap ==
    ASSUME mishaps \in 0..MaxMishaps,
           mishaps' = mishaps \/ (mishaps < MaxMishaps /\ mishaps' = mishaps + 1)
    PROVE  mishaps' \in 0..MaxMishaps
  BY CandleNat

(* The end of a cycle keeps the types.                                       *)
LEMMA EndCycleType ==
    ASSUME TypeOK, NEW w \in Workers, EndCycle(w)
    PROVE  /\ owner' \in {WorkerId[v] : v \in Workers} \cup {Nobody}
           /\ unexpired' \in BOOLEAN
           /\ fence' = fence
           /\ pc' = [pc EXCEPT ![w] = "idle"]
           /\ last' \in [Workers -> Candles \cup {0}]
           /\ target' \in [Workers -> Candles \cup {0}]
<1>1. \/ owner' = Nobody /\ unexpired' = FALSE
      \/ owner' = owner /\ unexpired' = unexpired
  BY DEF EndCycle, ReleaseRuntimeLease
<1> QED
  BY <1>1 DEF EndCycle, TypeOK

(* What the evaluation of a candle writes: a note, a decision with the       *)
(* cursor, or nothing (a duplicate).                                         *)
Unwritten == records' = records

NoteWritten(c, what) ==
    /\ ~Tradable(c)
    /\ journal[c] = NoRecord
    /\ journal' = [journal EXCEPT ![c] = what]
    /\ cursor' = cursor /\ order' = order /\ cancel' = cancel

QuietDecision(c, what) ==
    /\ journal[c] = NoRecord
    /\ journal' = [journal EXCEPT ![c] = what]
    /\ cursor' = c /\ order' = order /\ cancel' = cancel

EntryWritten(c) ==
    /\ journal[c] = NoRecord
    /\ journal' = [journal EXCEPT ![c] = "ENTRY"]
    /\ cursor' = c
    /\ order' = [order EXCEPT ![c] = "PENDING_SUBMISSION"]
    /\ cancel' = cancel

ExitWritten(c) ==
    /\ journal[c] = NoRecord
    /\ journal' = [journal EXCEPT ![c] = "EXIT"]
    /\ cursor' = c
    /\ order' = order
    /\ cancel' = [b \in Candles |-> IF b \in OpenOrders THEN "PENDING" ELSE cancel[b]]

Written(c) ==
    \/ Unwritten
    \/ \E what \in Notes : NoteWritten(c, what)
    \/ \E what \in {"NO_TRIGGER", "REJECTED", "NOTHING_OPEN"} : QuietDecision(c, what)
    \/ EntryWritten(c)
    \/ ExitWritten(c)

(* The candle of an evaluation is the next one, and if it can be traded no   *)
(* row was written for it.                                                   *)
LEMMA EvaluatedIsNext ==
    ASSUME Inv, NEW w \in Workers, EvaluateRuntimeCandle(w)
    PROVE  /\ target[w] \in Candles \ Absent
           /\ target[w] > cursor
           /\ IF cursor = 0 THEN \A d \in Candles : d < target[w] => d \in Absent
                            ELSE target[w] = cursor + 1
           /\ Tradable(target[w]) => journal[target[w]] = NoRecord
<1>1. pc[w] = "evaluating" /\ fence = w
  BY DEF EvaluateRuntimeCandle, Evaluates, Admitted, Holds
<1>2. last[w] = cursor
  BY <1>1 DEF Inv, ClaimIsCurrent
<1>3. /\ target[w] \in Candles \ Absent
      /\ IF cursor = 0 THEN \A d \in Candles : d < target[w] => d \in Absent
                       ELSE target[w] = cursor + 1
  BY <1>1, <1>2 DEF Inv, TargetIsNext
<1>4. target[w] > cursor
  <2>1. cursor \in Nat /\ target[w] \in Nat \ {0}
    <3>1. cursor \in Candles \cup {0}
      BY DEF Inv, TypeOK
    <3> QED
      BY <1>3, <3>1, CandleNat
  <2> QED
    BY <1>3, <2>1
<1>5. ASSUME Tradable(target[w])
      PROVE  journal[target[w]] = NoRecord
  <2>1. cursor \in Nat /\ target[w] \in Nat \ {0}
    <3>1. cursor \in Candles \cup {0}
      BY DEF Inv, TypeOK
    <3> QED
      BY <1>3, <3>1, CandleNat
  <2>2. ~(target[w] <= cursor)
    BY <1>4, <2>1
  <2> QED
    BY <1>3, <1>5, <2>2 DEF Inv, NotesLast
<1> QED
  BY <1>3, <1>4, <1>5

LEMMA Outcome ==
    ASSUME Inv, NEW w \in Workers, EvaluateRuntimeCandle(w), NEW c, c = target[w]
    PROVE  Written(c)
<1>0. Tradable(c) => journal[c] = NoRecord
  BY EvaluatedIsNext
<1>1. CASE NoteCandle(w, c)
  <2>1. ~Tradable(c) /\ cursor' = cursor /\ order' = order /\ cancel' = cancel
    BY <1>1 DEF NoteCandle, Tradable
  <2>2. PICK what \in Notes : RuntimeEvaluation(c, what)
    BY <1>1 DEF NoteCandle, Notes
  <2>3. CASE journal[c] = NoRecord
    <3>1. NoteWritten(c, what)
      BY <2>1, <2>2, <2>3 DEF RuntimeEvaluation, NoteWritten
    <3> QED
      BY <3>1 DEF Written
  <2>4. CASE journal[c] # NoRecord
    <3>1. Unwritten
      BY <2>1, <2>2, <2>4 DEF RuntimeEvaluation, Unwritten, records
    <3> QED
      BY <3>1 DEF Written
  <2> QED
    BY <2>3, <2>4
<1>2. CASE NoTrigger(w, c)
  <2>1. QuietDecision(c, "NO_TRIGGER")
    BY <1>0, <1>2 DEF NoTrigger, RuntimeEvaluation, QuietDecision
  <2> QED
    BY <2>1 DEF Written
<1>3. CASE EntryRejected(w, c)
  <2>1. QuietDecision(c, "REJECTED")
    BY <1>0, <1>3 DEF EntryRejected, RuntimeEvaluation, QuietDecision
  <2> QED
    BY <2>1 DEF Written
<1>4. CASE EntryAccepted(w, c)
  <2>1. EntryWritten(c)
    BY <1>0, <1>4 DEF EntryAccepted, RuntimeEvaluation, EntryWritten
  <2> QED
    BY <2>1 DEF Written
<1>5. CASE NothingOpen(w, c)
  <2>1. QuietDecision(c, "NOTHING_OPEN")
    BY <1>0, <1>5 DEF NothingOpen, RuntimeEvaluation, QuietDecision
  <2> QED
    BY <2>1 DEF Written
<1>6. CASE ExitSubmitted(w, c)
  <2>1. journal[c] = NoRecord
    BY <1>0, <1>6 DEF ExitSubmitted
  <2>2. CASE Collision
    BY <1>6, <2>2 DEF ExitSubmitted, Written, Unwritten, records
  <2>3. CASE ~Collision
    <3>1. ExitWritten(c)
      BY <1>6, <2>1, <2>3 DEF ExitSubmitted, RuntimeEvaluation, ExitWritten
    <3> QED
      BY <3>1 DEF Written
  <2> QED
    BY <2>2, <2>3
<1> QED
  BY <1>1, <1>2, <1>3, <1>4, <1>5, <1>6 DEF EvaluateRuntimeCandle

(* Everything else leaves cursor and journal alone.                          *)
LEMMA OnlyEvaluationsWrite ==
    ASSUME [Next]_vars, ~\E w \in Workers : EvaluateRuntimeCandle(w)
    PROVE  cursor' = cursor /\ journal' = journal
  BY DEF Next, Cycle, Environment, vars, records, ClaimRuntimeLease, AcquireProviderCandles,
         AcquisitionFails, EvaluationFails, ReleaseAfterRollback, Tick, LeaseLapses, Crash,
         Pause, Stop, Resume, KillSwitch, WithdrawMapping, MappingExpires, OutboxMovesOrder,
         OutboxMovesCancel

-----------------------------------------------------------------------------
LEMMA WrittenType ==
    ASSUME TypeOK, NEW c \in Candles, Written(c)
    PROVE  /\ cursor' \in Candles \cup {0}
           /\ journal' \in [Candles -> Decisions \cup Notes \cup {NoRecord}]
           /\ order' \in [Candles -> OrderStatus \cup {NoRecord}]
           /\ cancel' \in [Candles -> CancelStatus \cup {NoRecord}]
<1>1. CASE Unwritten
  BY <1>1 DEF Unwritten, records, TypeOK
<1>2. CASE \E what \in Notes : NoteWritten(c, what)
  BY <1>2 DEF NoteWritten, TypeOK
<1>3. CASE \E what \in {"NO_TRIGGER", "REJECTED", "NOTHING_OPEN"} : QuietDecision(c, what)
  BY <1>3 DEF QuietDecision, TypeOK, Decisions
<1>4. CASE EntryWritten(c)
  <2>1. "PENDING_SUBMISSION" \in OrderStatus /\ "ENTRY" \in Decisions
    BY DEF OrderStatus, Decisions
  <2> QED
    BY <1>4, <2>1 DEF EntryWritten, TypeOK
<1>5. CASE ExitWritten(c)
  BY <1>5 DEF ExitWritten, TypeOK, Decisions, CancelStatus
<1> QED
  BY <1>1, <1>2, <1>3, <1>4, <1>5 DEF Written

LEMMA TypeStep ==
    ASSUME Inv, [Next]_vars
    PROVE  TypeOK'
<1>0. TypeOK
  BY DEF Inv
<1>1. ASSUME NEW w \in Workers, ClaimRuntimeLease(w)
      PROVE  TypeOK'
  BY <1>0, <1>1 DEF ClaimRuntimeLease, TypeOK, records
<1>2. ASSUME NEW w \in Workers, AcquireProviderCandles(w)
      PROVE  TypeOK'
  <2>1. PICK c \in NextTarget(w) : target' = [target EXCEPT ![w] = c]
    BY <1>2 DEF AcquireProviderCandles
  <2>2. c \in Candles
    BY DEF NextTarget
  <2> QED
    BY <1>0, <1>2, <2>1, <2>2 DEF AcquireProviderCandles, TypeOK, records, lease
<1>3. ASSUME NEW w \in Workers, AcquisitionFails(w)
      PROVE  TypeOK'
  <2>1. mishaps' \in 0..MaxMishaps
    <3>1. mishaps \in 0..MaxMishaps
      BY <1>0 DEF TypeOK
    <3>2. mishaps' = mishaps \/ (mishaps < MaxMishaps /\ mishaps' = mishaps + 1)
      BY <1>3 DEF AcquisitionFails
    <3> QED
      BY <3>1, <3>2, AnotherMishap
  <2> QED
    BY <1>0, <1>3, <2>1, EndCycleType DEF AcquisitionFails, TypeOK, records
<1>4. ASSUME NEW w \in Workers, EvaluationFails(w)
      PROVE  TypeOK'
  <2>1. mishaps' \in 0..MaxMishaps
    <3>1. mishaps \in 0..MaxMishaps
      BY <1>0 DEF TypeOK
    <3>2. mishaps' = mishaps \/ (mishaps < MaxMishaps /\ mishaps' = mishaps + 1)
      BY <1>4 DEF EvaluationFails
    <3> QED
      BY <3>1, <3>2, AnotherMishap
  <2> QED
    BY <1>0, <1>4, <2>1 DEF EvaluationFails, TypeOK, records, lease
<1>5. ASSUME NEW w \in Workers, ReleaseAfterRollback(w)
      PROVE  TypeOK'
  BY <1>0, <1>5, EndCycleType DEF ReleaseAfterRollback, TypeOK, records
<1>6. ASSUME NEW w \in Workers, EvaluateRuntimeCandle(w)
      PROVE  TypeOK'
  <2>1. target[w] \in Candles /\ Written(target[w])
    BY <1>6, EvaluatedIsNext, Outcome
  <2>2. EndCycle(w) /\ UNCHANGED <<now, rule, status, mapping, mishaps>>
    BY <1>6 DEF EvaluateRuntimeCandle, Evaluates
  <2> QED
    BY <1>0, <2>1, <2>2, WrittenType, EndCycleType DEF TypeOK
<1>7. ASSUME Tick
      PROVE  TypeOK'
  <2>1. now' \in Nat
    <3>1. now \in Nat
      BY <1>0 DEF TypeOK
    <3> QED
      BY <1>7, <3>1 DEF Tick
  <2> QED
    BY <1>0, <1>7, <2>1 DEF Tick, TypeOK, records, lease, process
<1>8. ASSUME LeaseLapses
      PROVE  TypeOK'
  <2>1. mishaps' \in 0..MaxMishaps
    <3>1. mishaps \in 0..MaxMishaps
      BY <1>0 DEF TypeOK
    <3>2. mishaps' = mishaps \/ (mishaps < MaxMishaps /\ mishaps' = mishaps + 1)
      BY <1>8 DEF LeaseLapses
    <3> QED
      BY <3>1, <3>2, AnotherMishap
  <2> QED
    BY <1>0, <1>8, <2>1 DEF LeaseLapses, TypeOK, records, process
<1>9. ASSUME NEW w \in Workers, Crash(w)
      PROVE  TypeOK'
  <2>1. mishaps' \in 0..MaxMishaps
    <3>1. mishaps \in 0..MaxMishaps
      BY <1>0 DEF TypeOK
    <3>2. mishaps' = mishaps \/ (mishaps < MaxMishaps /\ mishaps' = mishaps + 1)
      BY <1>9 DEF Crash
    <3> QED
      BY <3>1, <3>2, AnotherMishap
  <2> QED
    BY <1>0, <1>9, <2>1 DEF Crash, TypeOK, records, lease
<1>10. ASSUME Pause \/ Stop \/ Resume \/ KillSwitch \/ WithdrawMapping \/ MappingExpires
       PROVE  TypeOK'
  BY <1>0, <1>10 DEF Pause, Stop, Resume, KillSwitch, WithdrawMapping, MappingExpires, TypeOK,
                     RuntimeStatus, MappingStatus,
                     records, lease, process
<1>11. ASSUME NEW c \in Candles, OutboxMovesOrder(c)
       PROVE  TypeOK'
  <2>1. OutboxStatus \subseteq OrderStatus
    BY DEF OutboxStatus, OrderStatus
  <2> QED
    BY <1>0, <1>11, <2>1 DEF OutboxMovesOrder, TypeOK, lease, process
<1>12. ASSUME NEW c \in Candles, OutboxMovesCancel(c)
       PROVE  TypeOK'
  <2>1. PICK s \in NextRowStatus(cancel[c]) :
           /\ cancel' = [cancel EXCEPT ![c] = s]
           /\ order' = order \/ order' = [order EXCEPT ![c] = "CANCELLED"]
    BY <1>12 DEF OutboxMovesCancel
  <2>2. s \in CancelStatus
    BY <2>1 DEF NextRowStatus, CancelStatus
  <2>3. "CANCELLED" \in OrderStatus
    BY DEF OrderStatus
  <2> QED
    BY <1>0, <1>12, <2>1, <2>2, <2>3 DEF OutboxMovesCancel, TypeOK, lease, process
<1>13. CASE UNCHANGED vars
  BY <1>0, <1>13 DEF vars, TypeOK, records, lease, process
<1> QED
  BY <1>1, <1>2, <1>3, <1>4, <1>5, <1>6, <1>7, <1>8, <1>9, <1>10, <1>11, <1>12, <1>13
     DEF Next, Cycle, Environment

-----------------------------------------------------------------------------
LEMMA ClaimStep ==
    ASSUME Inv, [Next]_vars
    PROVE  ClaimIsCurrent'
<1>0. TypeOK /\ ClaimIsCurrent
  BY DEF Inv
<1>1. ASSUME NEW w \in Workers, ClaimRuntimeLease(w)
      PROVE  ClaimIsCurrent'
  <2>1. fence' = w /\ cursor' = cursor /\ last'[w] = cursor
    BY <1>0, <1>1 DEF ClaimRuntimeLease, TypeOK, records
  <2> QED
    BY <2>1 DEF ClaimIsCurrent
(* A worker that starts nothing, and a fence that names nobody new.          *)
<1>2. ASSUME cursor' = cursor,
             \A w \in Workers : pc'[w] \in {"requesting", "evaluating"} =>
                 pc[w] \in {"requesting", "evaluating"} /\ last'[w] = last[w],
             fence' \in {fence, Nobody}
      PROVE  ClaimIsCurrent'
  BY <1>0, <1>2, ProviderAssumption DEF ClaimIsCurrent
<1>3. ASSUME NEW w \in Workers, AcquireProviderCandles(w)
      PROVE  ClaimIsCurrent'
  <2>1. \A v \in Workers : pc'[v] \in {"requesting", "evaluating"} =>
           pc[v] \in {"requesting", "evaluating"} /\ last'[v] = last[v]
    BY <1>0, <1>3 DEF AcquireProviderCandles, TypeOK
  <2> QED
    BY <1>2, <1>3, <2>1 DEF AcquireProviderCandles, records, lease
<1>4. ASSUME NEW w \in Workers, pc' = [pc EXCEPT ![w] = "idle"] \/ pc' = [pc EXCEPT ![w] = "rolled back"],
             \A v \in Workers \ {w} : last'[v] = last[v], cursor' = cursor, fence' = fence
      PROVE  ClaimIsCurrent'
  <2>1. \A v \in Workers : pc'[v] \in {"requesting", "evaluating"} =>
           pc[v] \in {"requesting", "evaluating"} /\ last'[v] = last[v]
    BY <1>0, <1>4 DEF TypeOK
  <2> QED
    BY <1>2, <1>4, <2>1
<1>5. ASSUME NEW w \in Workers, AcquisitionFails(w) \/ ReleaseAfterRollback(w)
      PROVE  ClaimIsCurrent'
  <2>1. EndCycle(w) /\ cursor' = cursor
    BY <1>5 DEF AcquisitionFails, ReleaseAfterRollback, records
  <2>2. \A v \in Workers \ {w} : last'[v] = last[v]
    BY <1>0, <2>1 DEF EndCycle, TypeOK
  <2>3. fence' = fence /\ pc' = [pc EXCEPT ![w] = "idle"]
    BY <2>1 DEF EndCycle
  <2> QED
    BY <1>4, <2>1, <2>2, <2>3
<1>6. ASSUME NEW w \in Workers, EvaluationFails(w)
      PROVE  ClaimIsCurrent'
  BY <1>4, <1>6 DEF EvaluationFails, records, lease
<1>7. ASSUME NEW w \in Workers, EvaluateRuntimeCandle(w)
      PROVE  ClaimIsCurrent'
  <2>1. fence = w /\ EndCycle(w)
    BY <1>7 DEF EvaluateRuntimeCandle, Evaluates, Admitted, Holds
  <2>2. fence' = w /\ pc'[w] = "idle"
    BY <1>0, <2>1 DEF EndCycle, TypeOK
  <2> QED
    BY <2>2 DEF ClaimIsCurrent
<1>8. ASSUME NEW w \in Workers, Crash(w)
      PROVE  ClaimIsCurrent'
  <2>1. \A v \in Workers \ {w} : last'[v] = last[v]
    BY <1>0, <1>8 DEF Crash, TypeOK
  <2>2. pc' = [pc EXCEPT ![w] = "idle"] /\ cursor' = cursor /\ fence' = fence
    BY <1>8 DEF Crash, records, lease
  <2> QED
    BY <1>4, <2>1, <2>2
<1>9. ASSUME pc' = pc, last' = last, cursor' = cursor, fence' \in {fence, Nobody}
      PROVE  ClaimIsCurrent'
  BY <1>2, <1>9
<1>10. ASSUME Environment, ~\E w \in Workers : Crash(w)
       PROVE  pc' = pc /\ last' = last /\ cursor' = cursor /\ fence' \in {fence, Nobody}
  BY <1>10 DEF Environment, Tick, LeaseLapses, Pause, Stop, Resume, KillSwitch, WithdrawMapping,
               MappingExpires, OutboxMovesOrder, OutboxMovesCancel, records, lease, process
<1>11. CASE UNCHANGED vars
  BY <1>9, <1>11 DEF vars, records, lease, process
<1> QED
  BY <1>1, <1>3, <1>5, <1>6, <1>7, <1>8, <1>9, <1>10, <1>11 DEF Next, Cycle, Environment

LEMMA TargetStep ==
    ASSUME Inv, [Next]_vars
    PROVE  TargetIsNext'
<1>0. TypeOK /\ TargetIsNext
  BY DEF Inv
(* A worker that evaluates afterwards did so before, the same candle.        *)
<1>1. ASSUME \A w \in Workers : pc'[w] = "evaluating" =>
                pc[w] = "evaluating" /\ target'[w] = target[w] /\ last'[w] = last[w]
      PROVE  TargetIsNext'
  BY <1>0, <1>1 DEF TargetIsNext
<1>2. ASSUME NEW w \in Workers, AcquireProviderCandles(w)
      PROVE  TargetIsNext'
  <2>1. PICK c \in NextTarget(w) : target' = [target EXCEPT ![w] = c]
    BY <1>2 DEF AcquireProviderCandles
  <2>2. last' = last /\ \A v \in Workers \ {w} : pc'[v] = pc[v] /\ target'[v] = target[v]
    BY <1>0, <1>2, <2>1 DEF AcquireProviderCandles, TypeOK
  <2>3. c \in Candles \ Absent /\ target'[w] = c
    BY <1>0, <2>1 DEF NextTarget, TypeOK
  <2>4. IF last[w] = 0 THEN \A d \in Candles : d < c => d \in Absent
                       ELSE c = last[w] + 1
    <3>1. CASE last[w] # 0
      BY <2>1, <3>1 DEF NextTarget
    <3>2. CASE last[w] = 0
      <4>1. c <= now /\ \A d \in Candles \ Absent : d <= now => c <= d
        BY <2>1, <3>2 DEF NextTarget
      <4>2. now \in Nat /\ c \in Nat
        BY <1>0, <2>3, CandleNat DEF TypeOK
      <4>3. ASSUME NEW d \in Candles, d < c
            PROVE  d \in Absent
        <5>1. d \in Nat
          BY CandleNat
        <5> QED
          BY <4>1, <4>2, <4>3, <5>1
      <4> QED
        BY <3>2, <4>3
    <3> QED
      BY <3>1, <3>2
  <2> QED
    BY <1>0, <2>2, <2>3, <2>4 DEF TargetIsNext
<1>3. ASSUME NEW w \in Workers, Cycle(w), ~AcquireProviderCandles(w)
      PROVE  TargetIsNext'
  <2>1. /\ \A v \in Workers \ {w} : pc'[v] = pc[v] /\ target'[v] = target[v] /\ last'[v] = last[v]
        /\ pc'[w] # "evaluating"
    BY <1>0, <1>3 DEF Cycle, ClaimRuntimeLease, AcquisitionFails, EvaluationFails,
                      ReleaseAfterRollback, EvaluateRuntimeCandle, Evaluates, EndCycle, TypeOK
  <2> QED
    BY <1>1, <2>1
<1>4. ASSUME NEW w \in Workers, Crash(w)
      PROVE  TargetIsNext'
  <2>1. /\ \A v \in Workers \ {w} : pc'[v] = pc[v] /\ target'[v] = target[v] /\ last'[v] = last[v]
        /\ pc'[w] # "evaluating"
    BY <1>0, <1>4 DEF Crash, TypeOK
  <2> QED
    BY <1>1, <2>1
<1>5. ASSUME UNCHANGED process
      PROVE  TargetIsNext'
  BY <1>1, <1>5 DEF process
<1>6. ASSUME Environment, ~\E w \in Workers : Crash(w)
      PROVE  UNCHANGED process
  BY <1>6 DEF Environment, Tick, LeaseLapses, Pause, Stop, Resume, KillSwitch, WithdrawMapping,
              MappingExpires, OutboxMovesOrder, OutboxMovesCancel
<1>7. CASE UNCHANGED vars
  BY <1>5, <1>7 DEF vars
<1> QED
  BY <1>2, <1>3, <1>4, <1>5, <1>6, <1>7 DEF Next

LEMMA NotesStep ==
    ASSUME Inv, [Next]_vars
    PROVE  NotesLast'
<1>0. TypeOK /\ NotesLast
  BY DEF Inv
<1>1. \A c \in Candles : Tradable(c)' => Tradable(c)
  <2>1. now' = now \/ now' = now + 1
    BY DEF Next, Cycle, Environment, vars, ClaimRuntimeLease, AcquireProviderCandles,
           AcquisitionFails, EvaluationFails, ReleaseAfterRollback, EvaluateRuntimeCandle,
           Evaluates, Tick, LeaseLapses, Crash, Pause, Stop, Resume, KillSwitch,
           WithdrawMapping, MappingExpires, OutboxMovesOrder, OutboxMovesCancel
  <2>2. now \in Nat
    BY <1>0 DEF TypeOK
  <2>3. ASSUME NEW c \in Candles, IsCandleStale(c)
        PROVE  IsCandleStale(c)'
    <3>1. c \in Nat /\ MaxStaleness \in Nat
      BY CandleNat
    <3> QED
      BY <2>1, <2>2, <2>3, <3>1 DEF IsCandleStale
  <2> QED
    BY <2>3 DEF Tradable
<1>2. ASSUME NEW w \in Workers, EvaluateRuntimeCandle(w)
      PROVE  NotesLast'
  <2>0. PICK c : c = target[w]
    OBVIOUS
  <2>1. c \in Candles /\ c > cursor /\ c \in Nat /\ cursor \in Nat
    <3>1. cursor \in Candles \cup {0}
      BY <1>0 DEF TypeOK
    <3> QED
      BY <1>2, <2>0, <3>1, EvaluatedIsNext, CandleNat
  <2>2. Written(c)
    BY <1>2, <2>0, Outcome
  <2>3. CASE Unwritten
    BY <1>0, <1>1, <2>3 DEF Unwritten, records, NotesLast
  <2>4. CASE \E what \in Notes : NoteWritten(c, what)
    <3>1. PICK what \in Notes : NoteWritten(c, what)
      BY <2>4
    <3>2. ~Tradable(c)' /\ journal'[c] = what
      BY <1>0, <1>1, <2>1, <3>1 DEF NoteWritten, TypeOK
    <3>3. cursor' = cursor /\ \A d \in Candles \ {c} : journal'[d] = journal[d]
      BY <1>0, <3>1 DEF NoteWritten, TypeOK
    <3> QED
      BY <1>0, <1>1, <3>2, <3>3 DEF NotesLast
  <2>5. CASE cursor' = c /\ \A d \in Candles \ {c} : journal'[d] = journal[d]
    <3>1. \A d \in Candles : d \in Nat
      BY CandleNat
    <3>2. \A d \in Candles : d <= cursor => d <= c
      BY <2>1, <3>1
    <3>3. c <= c
      BY <2>1
    <3> QED
      BY <1>0, <1>1, <2>5, <3>2, <3>3 DEF NotesLast
  <2>6. ASSUME NEW what, journal' = [journal EXCEPT ![c] = what], cursor' = c
        PROVE  NotesLast'
    BY <1>0, <2>5, <2>6 DEF TypeOK
  <2> QED
    BY <2>2, <2>3, <2>4, <2>6 DEF Written, QuietDecision, EntryWritten, ExitWritten
<1>3. CASE ~\E w \in Workers : EvaluateRuntimeCandle(w)
  <2>1. cursor' = cursor /\ journal' = journal
    BY <1>3, OnlyEvaluationsWrite
  <2> QED
    BY <1>0, <1>1, <2>1 DEF NotesLast
<1> QED
  BY <1>2, <1>3

(* What the outbox does leaves an order an order, and adds no CANCEL row.    *)
LEMMA OutboxEffect ==
    ASSUME TypeOK, OrdersHaveEvidence, NEW b \in Candles,
           OutboxMovesOrder(b) \/ OutboxMovesCancel(b)
    PROVE  /\ journal' = journal /\ cursor' = cursor
           /\ \A c \in Candles : /\ order'[c] # NoRecord <=> order[c] # NoRecord
                                 /\ cancel'[c] # NoRecord => cancel[c] # NoRecord
<1>1. CASE OutboxMovesOrder(b)
  <2>1. NoRecord \notin OutboxStatus
    BY DEF NoRecord, OutboxStatus
  <2>2. PICK s \in OutboxStatus : order[b] # NoRecord /\ order' = [order EXCEPT ![b] = s]
    BY <1>1 DEF OutboxMovesOrder
  <2> QED
    BY <1>1, <2>1, <2>2 DEF OutboxMovesOrder, TypeOK
<1>2. CASE OutboxMovesCancel(b)
  <2>1. PICK s \in NextRowStatus(cancel[b]) :
          /\ cancel' = [cancel EXCEPT ![b] = s]
          /\ order' = order \/ order' = [order EXCEPT ![b] = "CANCELLED"]
    BY <1>2 DEF OutboxMovesCancel
  <2>2. cancel[b] # NoRecord
    BY <2>1 DEF NextRowStatus, NoRecord
  <2>3. order[b] # NoRecord
    BY <2>2 DEF OrdersHaveEvidence
  <2>4. "CANCELLED" # NoRecord
    BY DEF NoRecord
  <2> QED
    BY <1>2, <2>1, <2>2, <2>3, <2>4 DEF OutboxMovesCancel, TypeOK
<1> QED
  BY <1>1, <1>2

LEMMA EvidenceStep ==
    ASSUME Inv, [Next]_vars
    PROVE  OrdersHaveEvidence'
<1>0. TypeOK /\ OrdersHaveEvidence
  BY DEF Inv
<1>1. ASSUME NEW w \in Workers, EvaluateRuntimeCandle(w)
      PROVE  OrdersHaveEvidence'
  <2>0. PICK c : c = target[w]
    OBVIOUS
  <2>1. c \in Candles /\ c > cursor /\ c \in Nat /\ cursor \in Nat
    <3>1. cursor \in Candles \cup {0}
      BY <1>0 DEF TypeOK
    <3> QED
      BY <1>1, <2>0, <3>1, EvaluatedIsNext, CandleNat
  <2>2. Written(c)
    BY <1>1, <2>0, Outcome
  <2>3. CASE Unwritten
    BY <1>0, <2>3 DEF Unwritten, records, OrdersHaveEvidence
(* A row that is neither an entry nor an exit.                               *)
  <2>4. ASSUME NEW what, what \notin {"ENTRY", "EXIT"}, journal[c] = NoRecord,
               journal' = [journal EXCEPT ![c] = what], order' = order, cancel' = cancel
        PROVE  OrdersHaveEvidence'
    <3>1. \A d \in Candles : /\ journal'[d] = "ENTRY" <=> journal[d] = "ENTRY"
                             /\ journal[d] = "EXIT" => journal'[d] = "EXIT"
      BY <1>0, <2>4 DEF TypeOK, NoRecord
    <3> QED
      BY <1>0, <2>4, <3>1 DEF OrdersHaveEvidence
  <2>5. CASE EntryWritten(c)
    <3>1. \A d \in Candles : /\ journal'[d] = "ENTRY" <=> d = c \/ journal[d] = "ENTRY"
                             /\ journal[d] = "EXIT" => journal'[d] = "EXIT"
      BY <1>0, <2>5 DEF EntryWritten, TypeOK, NoRecord
    <3>2. \A d \in Candles : order'[d] # NoRecord <=> d = c \/ order[d] # NoRecord
      BY <1>0, <2>1, <2>5 DEF EntryWritten, TypeOK, NoRecord
    <3>3. cancel' = cancel
      BY <2>5 DEF EntryWritten
    <3> QED
      BY <1>0, <3>1, <3>2, <3>3 DEF OrdersHaveEvidence
  <2>6. CASE ExitWritten(c)
    <3>1. \A d \in Candles : /\ journal'[d] = "ENTRY" <=> journal[d] = "ENTRY"
                             /\ journal'[d] = "EXIT" <=> d = c \/ journal[d] = "EXIT"
      BY <1>0, <2>1, <2>6 DEF ExitWritten, TypeOK, NoRecord
    <3>2. \A b \in Candles : cancel'[b] = IF b \in OpenOrders THEN "PENDING" ELSE cancel[b]
      BY <2>6 DEF ExitWritten
    <3>3. ASSUME NEW b \in OpenOrders
          PROVE  b \in Candles /\ order[b] # NoRecord /\ b < c
      <4>1. b \in Candles /\ order[b] # NoRecord
        BY DEF OpenOrders, Cancellable, NoRecord
      <4>2. journal[b] = "ENTRY"
        BY <1>0, <4>1 DEF OrdersHaveEvidence
      <4>3. b <= cursor
        BY <4>1, <4>2 DEF Inv, NotesLast, Notes, NoRecord
      <4>4. b \in Nat
        BY <4>1, CandleNat
      <4> QED
        BY <2>1, <4>1, <4>3, <4>4
    <3>4. order' = order
      BY <2>6 DEF ExitWritten
    <3>5. ASSUME NEW b \in Candles, cancel'[b] # NoRecord
          PROVE  order'[b] # NoRecord /\ \E d \in Candles : d > b /\ journal'[d] = "EXIT"
      <4>1. CASE b \in OpenOrders
        <5>1. c > b /\ order[b] # NoRecord
          BY <2>1, <3>3, <4>1, CandleNat
        <5> QED
          BY <2>1, <3>1, <3>4, <5>1
      <4>2. CASE b \notin OpenOrders
        BY <1>0, <3>1, <3>2, <3>4, <3>5, <4>2 DEF OrdersHaveEvidence
      <4> QED
        BY <4>1, <4>2
    <3> QED
      BY <1>0, <3>1, <3>4, <3>5 DEF OrdersHaveEvidence
  <2>7. CASE \E what \in Notes : NoteWritten(c, what)
    BY <2>4, <2>7 DEF NoteWritten, Notes
  <2>8. CASE \E what \in {"NO_TRIGGER", "REJECTED", "NOTHING_OPEN"} : QuietDecision(c, what)
    BY <2>4, <2>8 DEF QuietDecision
  <2> QED
    BY <2>2, <2>3, <2>5, <2>6, <2>7, <2>8 DEF Written
<1>2. ASSUME NEW c \in Candles, OutboxMovesOrder(c) \/ OutboxMovesCancel(c)
      PROVE  OrdersHaveEvidence'
  BY <1>0, <1>2, OutboxEffect DEF OrdersHaveEvidence
<1>3. CASE /\ ~\E w \in Workers : EvaluateRuntimeCandle(w)
           /\ ~\E c \in Candles : OutboxMovesOrder(c) \/ OutboxMovesCancel(c)
  <2>1. records' = records
    BY <1>3 DEF Next, Cycle, Environment, vars, records, ClaimRuntimeLease,
                AcquireProviderCandles, AcquisitionFails, EvaluationFails,
                ReleaseAfterRollback, Tick, LeaseLapses, Crash, Pause, Stop, Resume,
                KillSwitch, WithdrawMapping, MappingExpires
  <2> QED
    BY <1>0, <2>1 DEF records, OrdersHaveEvidence
<1> QED
  BY <1>1, <1>2, <1>3

-----------------------------------------------------------------------------
LEMMA InvInit == Init => Inv
<1> SUFFICES ASSUME Init PROVE Inv
  OBVIOUS
<1>1. rule \in [Candles -> RuleStatus] /\ 0 \in 0..MaxMishaps
  BY ProviderAssumption, CandleNat DEF Init
<1>2. TypeOK
  BY <1>1 DEF Init, TypeOK, RuntimeStatus, MappingStatus
<1>3. ClaimIsCurrent /\ TargetIsNext
  BY DEF Init, ClaimIsCurrent, TargetIsNext
<1>4. NotesLast /\ OrdersHaveEvidence
  BY DEF Init, NotesLast, OrdersHaveEvidence, NoRecord
<1> QED
  BY <1>2, <1>3, <1>4 DEF Inv

LEMMA InvStep == Inv /\ [Next]_vars => Inv'
  BY TypeStep, ClaimStep, TargetStep, NotesStep, EvidenceStep DEF Inv

(* The invariant of the evaluation of provider candles.                      *)
THEOREM Invariance == Spec => []Inv
  BY InvInit, InvStep, PTL DEF Spec

(* Every variable keeps its type, whatever workers crash, lapse or race.     *)
THEOREM TypeCorrect == Spec => []TypeOK
<1>1. Inv => TypeOK
  BY DEF Inv
<1> QED
  BY <1>1, Invariance, PTL

(* An order exists for the evaluations that accepted an entry and for no     *)
(* other, and a CANCEL row only after an exit on a later candle: evaluation, *)
(* order and row are written in one savepoint, and the engine never looks at *)
(* a candle twice (evaluate_runtime_candle).                                 *)
THEOREM Evidence == Spec => []OrdersHaveEvidence
<1>1. Inv => OrdersHaveEvidence
  BY DEF Inv
<1> QED
  BY <1>1, Invariance, PTL

(* A worker whose claim was revoked writes no evaluation, even if the worker *)
(* that superseded it has its id: the engine compares the generation.        *)
THEOREM RevokedRecordsNothing == Spec => RevokedClaimRecordsNothing
<1> DEFINE Step == records' # records =>
                     \/ UNCHANGED <<cursor, journal>>
                     \/ \E w \in Workers : pc[w] = "evaluating" /\ pc'[w] = "idle" /\ fence = w
<1>1. ASSUME Inv, [Next]_vars
      PROVE  Step
  <2>1. ASSUME NEW w \in Workers, EvaluateRuntimeCandle(w)
        PROVE  pc[w] = "evaluating" /\ pc'[w] = "idle" /\ fence = w
    BY <1>1, <2>1 DEF EvaluateRuntimeCandle, Evaluates, Admitted, Holds, EndCycle, Inv, TypeOK
  <2> QED
    BY <1>1, <2>1, OnlyEvaluationsWrite
<1>2. Inv /\ [Next]_vars => [Step]_vars
  BY <1>1
<1> QED
  BY <1>2, Invariance, PTL DEF Spec, RevokedClaimRecordsNothing

(* When an exit is recorded, no order that could be cancelled is left        *)
(* without a CANCEL row that is waiting or was delivered.                    *)
THEOREM ExitComplete == Spec => ExitCancelsEveryOpenOrder
<1> DEFINE Step == \A c \in Candles :
                     (journal[c] # "EXIT" /\ journal'[c] = "EXIT") =>
                        \A b \in Candles :
                           order'[b] \in Cancellable => cancel'[b] \in {"PENDING", "DELIVERED"}
<1>1. ASSUME Inv, [Next]_vars
      PROVE  Step
  <2> SUFFICES ASSUME NEW c \in Candles, journal[c] # "EXIT", journal'[c] = "EXIT"
               PROVE  \A b \in Candles :
                        order'[b] \in Cancellable => cancel'[b] \in {"PENDING", "DELIVERED"}
    OBVIOUS
  <2>1. PICK w \in Workers : EvaluateRuntimeCandle(w)
    BY <1>1, OnlyEvaluationsWrite
  <2>2. PICK e : e = target[w]
    OBVIOUS
  <2>3. Written(e)
    BY <1>1, <2>1, <2>2, Outcome
  <2>4. \A what : journal' = [journal EXCEPT ![e] = what] => what = "EXIT"
    BY <1>1 DEF Inv, TypeOK
  <2>5. ~Unwritten /\ ~EntryWritten(e)
    BY <2>4 DEF Unwritten, records, EntryWritten
  <2>6. ~(\E what \in Notes : NoteWritten(e, what))
    BY <2>4 DEF Notes, NoteWritten
  <2>7. ~(\E what \in {"NO_TRIGGER", "REJECTED", "NOTHING_OPEN"} : QuietDecision(e, what))
    BY <2>4 DEF QuietDecision
  <2>8. ExitWritten(e)
    BY <2>3, <2>5, <2>6, <2>7 DEF Written
  <2> QED
    BY <2>8 DEF ExitWritten, OpenOrders
<1>2. Inv /\ [Next]_vars => [Step]_vars
  BY <1>1
<1> QED
  BY <1>2, Invariance, PTL DEF Spec, ExitCancelsEveryOpenOrder

(* The evaluations implement CandleJournal: one candle after the other, each *)
(* at most once, none passed over, whichever workers wrote them.             *)
THEOREM JournalImplemented == Spec => ImplementsJournal
<1>1. Init => Journal!Init
  BY DEF Init, Journal!Init, NoRecord
<1>2. ASSUME Inv, [Next]_vars
      PROVE  [Journal!Next]_<<cursor, journal>>
  <2>1. CASE ~\E w \in Workers : EvaluateRuntimeCandle(w)
    BY <1>2, <2>1, OnlyEvaluationsWrite
  <2>2. ASSUME NEW w \in Workers, EvaluateRuntimeCandle(w)
        PROVE  [Journal!Next]_<<cursor, journal>>
    <3>0. PICK c : c = target[w]
      OBVIOUS
    <3>1. c \in Candles /\ Written(c)
      BY <1>2, <2>2, <3>0, EvaluatedIsNext, Outcome
    <3>2. Journal!IsNext(c)
      BY <1>2, <2>2, <3>0, EvaluatedIsNext DEF Journal!IsNext
    <3>3. CASE Unwritten
      BY <3>3 DEF Unwritten, records
    <3>4. ASSUME NEW what \in Notes, NoteWritten(c, what)
          PROVE  Journal!Next
      <4>1. Journal!Enter(c, what) /\ cursor' = cursor /\ what \in Journal!Notes
        BY <3>2, <3>4 DEF Journal!Enter, NoteWritten, NoRecord, Journal!Notes, Notes
      <4> QED
        BY <3>1, <4>1 DEF Journal!Next, Journal!Note
    <3>5. ASSUME NEW what \in Decisions, journal[c] = NoRecord,
                 journal' = [journal EXCEPT ![c] = what], cursor' = c
          PROVE  Journal!Next
      <4>1. Journal!Enter(c, what) /\ cursor' = c /\ what \in Journal!Decisions
        BY <3>2, <3>5 DEF Journal!Enter, NoRecord, Journal!Decisions, Decisions
      <4> QED
        BY <3>1, <4>1 DEF Journal!Next, Journal!Decide
    <3>6. {"NO_TRIGGER", "REJECTED", "NOTHING_OPEN", "ENTRY", "EXIT"} \subseteq Decisions
      BY DEF Decisions
    <3> QED
      BY <3>1, <3>3, <3>4, <3>5, <3>6 DEF Written, QuietDecision, EntryWritten, ExitWritten
  <2> QED
    BY <2>1, <2>2
<1>3. Inv /\ [Next]_vars => [Journal!Next]_<<cursor, journal>>
  BY <1>2
<1> QED
  BY <1>1, <1>3, Invariance, PTL DEF Spec, ImplementsJournal, Journal!Spec
=============================================================================
