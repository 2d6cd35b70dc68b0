----------------------- MODULE SandboxDeliveryProofs ------------------------
(***************************************************************************)
(* What is proved of SandboxOutbox about the requests it sends and what    *)
(* becomes of them: any orders, attempts, cancels, crashes, lapses and     *)
(* gates.  Three parts, by what they need of the workers.                  *)
(*   WaitsAreDriven holds whatever the workers do.                         *)
(*   SentAtMostOnce, NothingForgotten and CancelledOrdersAreDead hold as   *)
(* long as no two claims of one poll can be out at a time (OneAtATime): a  *)
(* worker claims one record after the other (batch limit 1), or there is   *)
(* one worker.                                                             *)
(*   CashFollowsOrder, CancelsAreDriven, RowsTellOutcomes and              *)
(* OrdersFollowLifecycle hold with one worker (OneWorker), any batch limit. *)
(***************************************************************************)
EXTENDS SandboxOutboxProofs

OneWorker == \A v, w \in Workers : v = w
OneAtATime == BatchSize = 1 \/ OneWorker

(* The position of a record in a batch that its worker has not marked yet.   *)
Waits(w, i) == i > 1 \/ pc[w] = "batch"

(* A batch names each record once, and no more of them than its limit.       *)
BatchesAreSmall ==
    \A w \in Workers :
        /\ pc[w] = "idle" => batch[w] = <<>>
        /\ BatchSize = 1 => Len(batch[w]) <= 1
        /\ \A i, j \in 1..Len(batch[w]) : batch[w][i] = batch[w][j] => i = j

(* A worker that still has records to mark has the tables to itself, or is   *)
(* the only one.                                                             *)
BatchIsAlone == \A w \in Workers : pc[w] = "batch" => txn = w \/ OneWorker

(* A record that waits in a batch is claimed, and its transmission has not   *)
(* begun.                                                                    *)
WaitingIsUnsent ==
    \A w \in Workers : \A i \in 1..Len(batch[w]) :
        Waits(w, i) => outbox[batch[w][i]].status = "CLAIMED" /\ ~outbox[batch[w][i]].marked

(* Nor has that of a queued one.                                             *)
QueuedIsUnsent == \A r \in Rows : outbox[r].status \in Queued => ~outbox[r].marked

(* A marker is one worker's licence to send once.                            *)
LicenceIsOwn ==
    \A w \in Workers : pc[w] = "marked" =>
        /\ sent[Head(batch[w])] = 0
        /\ \A v \in Workers : pc[v] = "marked" /\ Head(batch[v]) = Head(batch[w]) => v = w

Sending ==
    /\ BatchesAreSmall
    /\ BatchIsAlone
    /\ WaitingIsUnsent
    /\ QueuedIsUnsent
    /\ LicenceIsOwn
    /\ TransmittedAtMostOnce

-----------------------------------------------------------------------------
(* A case belongs to a row that is not on its way any more.                  *)
CasesAreClosed ==
    \A r \in Rows : outbox[r].status \in Queued \cup {"ABSENT", "CLAIMED"} => recon[r] = "NONE"

(* Of the placement o the broker may still see or has not forgotten: the     *)
(* row is on its way or waits for the operator.                              *)
Accounted(o) ==
    \/ outbox[PlaceRow(o)].status = "CLAIMED" /\ outbox[PlaceRow(o)].marked
    \/ recon[PlaceRow(o)] = "OPEN"

(* A placement under way is the only one, nothing was accepted before it.    *)
WireIsOnly ==
    \A q \in wire : IsPlace(q.row) =>
        /\ sent[q.row] = 1
        /\ accepted[OrderOf(q.row)] = 0
        /\ Accounted(OrderOf(q.row))
        /\ \A p \in wire : p.row = q.row => p = q

(* Nothing is accepted of what was not sent, and no order twice.             *)
AcceptedOnce ==
    \A o \in Orders :
        /\ accepted[o] <= sent[PlaceRow(o)]
        /\ live[o] \cup link[o] \subseteq 1..accepted[o]

(* The answer a worker holds is that to its row.                             *)
AnswersAreTrue ==
    \A w \in Workers :
        LET r == Head(batch[w])
            o == OrderOf(r)
        IN /\ pc[w] = "http" => sent[r] # 0
           /\ reply[w] # NoReply => pc[w] = "http"
           /\ reply[w].kind = "placed" => IsPlace(r) /\ reply[w].id \in 1..accepted[o]
           /\ reply[w].kind = "cancelled" => ~IsPlace(r)
           /\ reply[w].kind = "rejected" =>
                IsPlace(r) /\ accepted[o] = 0 /\ \A q \in wire : q.row # r

(* A licence to place an order that still waits to be placed is one of a     *)
(* claim that stands.                                                        *)
LicenceIsCurrent ==
    \A w \in Workers :
        LET r == Head(batch[w])
        IN pc[w] = "marked" /\ IsPlace(r) /\ order[OrderOf(r)] = "PENDING_SUBMISSION"
             => outbox[r].status = "CLAIMED"

Receiving ==
    /\ CasesAreClosed
    /\ LicenceIsCurrent
    /\ WireIsOnly
    /\ AcceptedOnce
    /\ AnswersAreTrue
    /\ LiveIsKnown

Delivery == Inv /\ (OneAtATime => Sending /\ Receiving)

-----------------------------------------------------------------------------
(* Steps of the users, the operator, the broker and time: no worker moves,   *)
(* and a row is created or keeps its status and marker.                      *)
Calm ==
    /\ UNCHANGED <<pc, batch, txn, sent>>
    /\ \A r \in Rows :
         \/ /\ outbox'[r].status = outbox[r].status
            /\ outbox'[r].marked = outbox[r].marked
         \/ outbox[r].status = "ABSENT" /\ outbox'[r] = NewRow

LEMMA CalmSteps ==
    ASSUME TypeOK, CreatedHasNoRow, Next, ~\E w \in Workers : WorkerStep(w) \/ Crash(w)
    PROVE  Calm
<1>1. ASSUME NEW o \in Orders, SubmitOrder(o) PROVE Calm
  <2>1. outbox[PlaceRow(o)].status = "ABSENT"
    BY <1>1 DEF SubmitOrder, CreatedHasNoRow
  <2> QED
    BY <1>1, <2>1 DEF SubmitOrder, Calm, TypeOK, workers, broker
<1>2. ASSUME NEW o \in Orders, RequestCancel(o) PROVE Calm
  BY <1>2 DEF RequestCancel, NextCancel, Calm, TypeOK, workers, broker
<1>3. ASSUME NEW r \in Rows, LeaseLapses(r) \/ BackoffElapses(r) PROVE Calm
  <2>1. \A q \in Rows : outbox[q] \in OutboxRow
    BY DEF TypeOK
  <2>2. \A q \in Rows :
          outbox'[q].status = outbox[q].status /\ outbox'[q].marked = outbox[q].marked
    <3>1. \A row \in OutboxRow :
            /\ [row EXCEPT !.lease = "lapsed"].status = row.status
            /\ [row EXCEPT !.lease = "lapsed"].marked = row.marked
            /\ [row EXCEPT !.due = TRUE].status = row.status
            /\ [row EXCEPT !.due = TRUE].marked = row.marked
      BY DEF OutboxRow
    <3>2. \/ outbox' = [outbox EXCEPT ![r] = [outbox[r] EXCEPT !.lease = "lapsed"]]
          \/ outbox' = [outbox EXCEPT ![r] = [outbox[r] EXCEPT !.due = TRUE]]
      BY <1>3 DEF LeaseLapses, BackoffElapses
    <3>3. ASSUME NEW q \in Rows
          PROVE  outbox'[q] \in {outbox[q], [outbox[q] EXCEPT !.lease = "lapsed"],
                                 [outbox[q] EXCEPT !.due = TRUE]}
      BY <3>2 DEF TypeOK
    <3> QED
      BY <2>1, <3>1, <3>3
  <2>3. UNCHANGED <<pc, batch, txn, sent>>
    BY <1>3 DEF LeaseLapses, BackoffElapses, workers, broker
  <2> QED
    BY <2>2, <2>3 DEF Calm
<1>4. ASSUME NEW r \in Rows, NEW res \in CaseStatus, Resolve(r, res) PROVE Calm
  BY <1>4 DEF Resolve, RowAfterResolve, Calm, TypeOK, workers, broker
<1>5. ASSUME NEW g \in VaryingGates, MoveGate(g) PROVE Calm
  BY <1>5 DEF MoveGate, Calm, db, workers, broker
<1>6. ASSUME Broker PROVE Calm
  BY <1>6 DEF Broker, Calm, db
<1> QED
  BY <1>1, <1>2, <1>3, <1>4, <1>5, <1>6 DEF Next

(* A worker that handles a record changes its own state and that row.        *)
Handles(w) ==
    \/ GateBlocked(w) \/ CommitMarker(w) \/ DispatchPlace(w) \/ DispatchCancel(w) \/ Settle(w)

LEMMA HandlesHead ==
    ASSUME TypeOK, InFlight, NEW w \in Workers, Handles(w)
    PROVE  /\ pc[w] # "idle" /\ txn \in {w, Nobody}
           /\ batch[w] \in Seq(Rows) /\ batch[w] # <<>> /\ Head(batch[w]) = batch[w][1]
           /\ Head(batch[w]) \in Rows /\ OrderOf(Head(batch[w])) \in Orders
           /\ outbox[Head(batch[w])] \in OutboxRow
           /\ outbox' \in [Rows -> OutboxRow]
           /\ \A r \in Rows : r # Head(batch[w]) => outbox'[r] = outbox[r] /\ recon'[r] = recon[r]
           /\ \A v \in Workers : v # w =>
                pc'[v] = pc[v] /\ batch'[v] = batch[v] /\ reply'[v] = reply[v]
           /\ \/ batch'[w] = batch[w] /\ pc'[w] \in {"marked", "http"} /\ reply' = reply
              \/ Advance(w) \/ Abandon(w)
<1> DEFINE r == Head(batch[w])
<1>1. pc[w] # "idle" /\ txn \in {w, Nobody}
  BY DEF Handles, GateBlocked, CommitMarker, DispatchPlace, DispatchCancel, Settle
<1>2. /\ batch[w] \in Seq(Rows) /\ batch[w] # <<>> /\ r = batch[w][1]
      /\ r \in Rows /\ OrderOf(r) \in Orders /\ outbox[r] \in OutboxRow
  BY <1>1, CurrentRow DEF TypeOK, InFlight
<1>3. outbox' \in [Rows -> OutboxRow]
  BY BatchType, DispatchType, SettleType DEF Handles, TypeOK
<1>4. \A q \in Rows : q # r => outbox'[q] = outbox[q] /\ recon'[q] = recon[q]
  <2>1. CASE GateBlocked(w) \/ CommitMarker(w)
    BY <1>2, <2>1 DEF GateBlocked, CommitMarker, TypeOK
  <2>2. CASE DispatchPlace(w) \/ DispatchCancel(w)
    BY <1>2, <2>2 DEF DispatchPlace, DispatchCancel, Send, db, TypeOK
  <2>3. CASE Settle(w)
    BY <1>2, <2>3
    DEF Settle, PlaceAcknowledged, PlaceRejected, CancelConfirmed, Ambiguous, db, TypeOK
  <2> QED
    BY <2>1, <2>2, <2>3 DEF Handles
<1>5. \/ /\ pc' = [pc EXCEPT ![w] = "marked"] \/ pc' = [pc EXCEPT ![w] = "http"]
         /\ UNCHANGED <<batch, reply>>
      \/ Advance(w) \/ Abandon(w)
  BY DEF Handles, GateBlocked, CommitMarker, DispatchPlace, DispatchCancel, Settle, Send,
         PlaceAcknowledged, PlaceRejected, CancelConfirmed, Ambiguous, NextRecord,
         NextUncommitted
<1>6. \A v \in Workers : v # w =>
        pc'[v] = pc[v] /\ batch'[v] = batch[v] /\ reply'[v] = reply[v]
  BY <1>5 DEF Advance, Abandon, TypeOK
<1>7. \/ batch'[w] = batch[w] /\ pc'[w] \in {"marked", "http"} /\ reply' = reply
      \/ Advance(w) \/ Abandon(w)
  BY <1>5 DEF TypeOK
<1> HIDE DEF r
<1> QED
  BY <1>1, <1>2, <1>3, <1>4, <1>6, <1>7 DEF r

(* What the record's step leaves of the batch: itself, its tail, nothing.    *)
LEMMA HandlesBatch ==
    ASSUME TypeOK, InFlight, NEW w \in Workers, Handles(w) \/ Crash(w)
    PROVE  /\ batch'[w] \in Seq(Rows)
           /\ Len(batch'[w]) <= Len(batch[w])
           /\ \/ batch'[w] = batch[w] /\ pc'[w] \in {"marked", "http"}
              \/ /\ \A i \in 1..Len(batch'[w]) :
                      i + 1 \in 1..Len(batch[w]) /\ batch'[w][i] = batch[w][i + 1]
                 /\ pc'[w] \in {"batch", "idle"}
                 /\ pc'[w] = "idle" => batch'[w] = <<>>
                 /\ pc'[w] = "batch" => Advance(w) /\ Len(batch[w]) > 1
<1>1. batch[w] \in Seq(Rows) /\ batch[w] # <<>>
  BY HandlesHead DEF Crash, TypeOK, InFlight
<1>2. CASE batch'[w] = batch[w] /\ pc'[w] \in {"marked", "http"}
  BY <1>1, <1>2
<1>3. CASE Advance(w)
  <2>1. batch'[w] = Tail(batch[w]) /\ pc'[w] = IF Tail(batch[w]) = <<>> THEN "idle" ELSE "batch"
    BY <1>3 DEF Advance, TypeOK
  <2>2. /\ Tail(batch[w]) \in Seq(Rows) /\ Len(Tail(batch[w])) = Len(batch[w]) - 1
        /\ \A i \in 1..Len(Tail(batch[w])) :
             i + 1 \in 1..Len(batch[w]) /\ Tail(batch[w])[i] = batch[w][i + 1]
        /\ Tail(batch[w]) # <<>> => Len(batch[w]) > 1
        /\ Len(batch[w]) \in Nat
    BY <1>1
  <2> DEFINE t == Tail(batch[w])
  <2> HIDE DEF t
  <2> QED
    BY <1>3, <2>1, <2>2 DEF t
<1>4. CASE Abandon(w)
  <2>1. batch'[w] = <<>> /\ pc'[w] = "idle"
    BY <1>4 DEF Abandon, TypeOK
  <2>2. <<>> \in Seq(Rows) /\ Len(<<>>) <= Len(batch[w]) /\ 1..Len(<<>>) = {}
    BY <1>1
  <2> QED
    BY <2>1, <2>2
<1> QED
  BY <1>2, <1>3, <1>4, HandlesHead DEF Crash

(* What a poll claims: records that were queued, or whose lease lapsed       *)
(* before their transmission began.                                          *)
LEMMA PollClaims ==
    ASSUME TypeOK, QueuedIsUnsent, NEW w \in Workers, Poll(w)
    PROVE  /\ txn = Nobody /\ pc[w] = "idle"
           /\ \A v \in Workers : v # w => pc'[v] = pc[v] /\ batch'[v] = batch[v]
           /\ batch'[w] \in Seq(Rows)
           /\ pc'[w] \in {"idle", "batch"}
           /\ pc'[w] = "idle" => batch'[w] = <<>>
           /\ pc'[w] = "batch" => txn' = w
           /\ BatchSize = 1 => Len(batch'[w]) <= 1
           /\ \A i, j \in 1..Len(batch'[w]) : batch'[w][i] = batch'[w][j] => i = j
           /\ \A i \in 1..Len(batch'[w]) :
                outbox'[batch'[w][i]].status = "CLAIMED" /\ ~outbox'[batch'[w][i]].marked
           /\ \A r \in Rows : outbox'[r].status \in Queued => ~outbox'[r].marked
<1> DEFINE Row(r) == IF r \in LapsedRows THEN Recovered(outbox[r]) ELSE outbox[r]
           requeued == {r \in LapsedRows : Row(r).status \in Queued}
<1>1. PICK flushed \in SUBSET requeued : \E s \in Batches(DueRows \cup flushed) :
        /\ outbox' = [r \in Rows |->
             IF \E i \in DOMAIN s : s[i] = r THEN Claimed(Row(r), w) ELSE Row(r)]
        /\ batch' = [batch EXCEPT ![w] = s]
        /\ pc' = [pc EXCEPT ![w] = IF s = <<>> THEN "idle" ELSE "batch"]
        /\ txn' = IF s = <<>> THEN Nobody ELSE w
  BY DEF Poll
<1>2. PICK s \in Batches(DueRows \cup flushed) :
        /\ outbox' = [r \in Rows |->
             IF \E i \in DOMAIN s : s[i] = r THEN Claimed(Row(r), w) ELSE Row(r)]
        /\ batch' = [batch EXCEPT ![w] = s]
        /\ pc' = [pc EXCEPT ![w] = IF s = <<>> THEN "idle" ELSE "batch"]
        /\ txn' = IF s = <<>> THEN Nobody ELSE w
  BY <1>1
<1> DEFINE D == DueRows \cup flushed
<1>3. D \in SUBSET Rows
  BY DEF DueRows, LapsedRows
<1>4. s \in Seq(Rows) /\ \A i \in 1..Len(s) : s[i] \in D
  BY <1>3, BatchIsSequence
<1>5. /\ BatchSize = 1 => Len(s) <= 1
      /\ \A i, j \in 1..Len(s) : s[i] = s[j] => i = j
  <2> DEFINE n == IF Cardinality(D) < BatchSize THEN Cardinality(D) ELSE BatchSize
  <2>1. n \in Nat /\ n <= BatchSize
    BY <1>3, RowsFinite, FS_Subset, FS_CardinalityType, OutboxAssumption
  <2>2. /\ s \in [1..n -> D]
        /\ \A i, j \in 1..n : i < j => s[i] # s[j]
    BY DEF Batches
  <2> HIDE DEF n, D
  <2>3. Len(s) = n
    BY <1>4, <2>1, <2>2
  <2> QED
    BY <2>1, <2>2, <2>3
<1>6. ASSUME NEW r \in Rows
      PROVE  /\ Row(r).marked = outbox[r].marked
             /\ Row(r).status \in Queued => ~Row(r).marked
             /\ r \in D => ~outbox[r].marked
             /\ Row(r) \in OutboxRow
  <2>1. outbox[r] \in OutboxRow
    BY DEF TypeOK
  <2>2. Recovered(outbox[r]) \in OutboxRow /\ Recovered(outbox[r]).marked = outbox[r].marked
    BY <2>1, RecoveredType, FreedKeeps DEF Recovered, OutboxStatus, Queued
  <2>3. outbox[r].marked => Recovered(outbox[r]).status = "RECONCILIATION_REQUIRED"
    BY <2>1, FreedKeeps DEF Recovered, OutboxStatus
  <2>4. Row(r).status \in Queued => ~Row(r).marked
    BY <2>1, <2>2, <2>3 DEF QueuedIsUnsent, Queued
  <2>5. r \in D => ~outbox[r].marked
    BY <2>2, <2>4 DEF DueRows, QueuedIsUnsent
  <2> QED
    BY <2>1, <2>2, <2>4, <2>5
<1>7. ASSUME NEW row \in OutboxRow
      PROVE  Claimed(row, w).status = "CLAIMED" /\ Claimed(row, w).marked = row.marked
  BY DEF Claimed, OutboxRow
<1>8. \A i \in 1..Len(s) : outbox'[s[i]].status = "CLAIMED" /\ ~outbox'[s[i]].marked
  <2> SUFFICES ASSUME NEW i \in 1..Len(s)
               PROVE  outbox'[s[i]].status = "CLAIMED" /\ ~outbox'[s[i]].marked
    OBVIOUS
  <2>1. s[i] \in D /\ s[i] \in Rows /\ i \in DOMAIN s
    BY <1>3, <1>4
  <2>2. outbox'[s[i]] = Claimed(Row(s[i]), w)
    BY <1>2, <2>1
  <2> HIDE DEF Row, D
  <2> QED
    BY <1>6, <1>7, <2>1, <2>2
<1>9. \A r \in Rows : outbox'[r].status \in Queued => ~outbox'[r].marked
  <2> SUFFICES ASSUME NEW r \in Rows, outbox'[r].status \in Queued
               PROVE  ~outbox'[r].marked
    OBVIOUS
  <2>1. outbox'[r] = Claimed(Row(r), w) \/ outbox'[r] = Row(r)
    BY <1>2
  <2> HIDE DEF Row
  <2> QED
    BY <1>6, <1>7, <2>1 DEF Queued
<1>10. batch'[w] = s /\ pc'[w] = IF s = <<>> THEN "idle" ELSE "batch"
  BY <1>2 DEF TypeOK
<1>11. \A v \in Workers : v # w => pc'[v] = pc[v] /\ batch'[v] = batch[v]
  BY <1>2 DEF TypeOK
<1>12. txn = Nobody /\ pc[w] = "idle"
  BY DEF Poll
<1> HIDE DEF Row, requeued, D
<1> QED
  BY <1>2, <1>4, <1>5, <1>8, <1>9, <1>10, <1>11, <1>12

-----------------------------------------------------------------------------
(* Sending.                                                                  *)
LEMMA SendingInit == Init => Sending
  BY DEF Init, Sending, BatchesAreSmall, BatchIsAlone, WaitingIsUnsent, QueuedIsUnsent,
         LicenceIsOwn, TransmittedAtMostOnce, NoRow, Queued

(* Whoever is not the acting worker has nothing waiting, unless he is the    *)
(* only one.                                                                 *)
LEMMA OthersWaitForNothing ==
    ASSUME TypeOK, OneAtATime, BatchesAreSmall, BatchIsAlone,
           NEW w \in Workers, txn \in {w, Nobody},
           NEW v \in Workers, v # w
    PROVE  pc[v] # "batch" /\ \A i \in 1..Len(batch[v]) : ~Waits(v, i)
<1>1. BatchSize = 1 /\ Len(batch[v]) <= 1 /\ Len(batch[v]) \in Nat
  BY DEF OneAtATime, OneWorker, BatchesAreSmall, TypeOK
<1>2. pc[v] # "batch"
  BY OutboxAssumption DEF BatchIsAlone, OneWorker
<1> QED
  BY <1>1, <1>2 DEF Waits

LEMMA SendingCalm ==
    ASSUME Inv, Sending, Calm
    PROVE  Sending'
<1> USE DEF Inv, Sending
<1>1. \A w \in Workers : \A i \in 1..Len(batch[w]) :
        /\ batch[w][i] \in Rows
        /\ outbox'[batch[w][i]].status = outbox[batch[w][i]].status
        /\ outbox'[batch[w][i]].marked = outbox[batch[w][i]].marked
  <2> SUFFICES ASSUME NEW w \in Workers, NEW i \in 1..Len(batch[w])
               PROVE  /\ batch[w][i] \in Rows
                      /\ outbox'[batch[w][i]].status = outbox[batch[w][i]].status
                      /\ outbox'[batch[w][i]].marked = outbox[batch[w][i]].marked
    OBVIOUS
  <2>1. batch[w][i] \in Rows /\ outbox[batch[w][i]].status # "ABSENT"
    BY DEF TypeOK, InFlight
  <2> QED
    BY <2>1 DEF Calm
<1>2. BatchesAreSmall' /\ BatchIsAlone' /\ LicenceIsOwn' /\ TransmittedAtMostOnce'
  BY DEF Calm, BatchesAreSmall, BatchIsAlone, LicenceIsOwn, TransmittedAtMostOnce
<1>3. WaitingIsUnsent'
  BY <1>1 DEF Calm, WaitingIsUnsent, Waits
<1>4. QueuedIsUnsent'
  <2> SUFFICES ASSUME NEW r \in Rows, outbox'[r].status \in Queued
               PROVE  ~outbox'[r].marked
    BY DEF QueuedIsUnsent
  <2>1. CASE outbox'[r] = NewRow
    BY <2>1 DEF NewRow, NoRow
  <2>2. CASE outbox'[r].status = outbox[r].status /\ outbox'[r].marked = outbox[r].marked
    BY <2>2 DEF QueuedIsUnsent
  <2> QED
    BY <2>1, <2>2 DEF Calm
<1> QED
  BY <1>2, <1>3, <1>4

LEMMA SendingPoll ==
    ASSUME Inv, OneAtATime, Sending, NEW w \in Workers, Poll(w)
    PROVE  Sending'
<1> USE DEF Inv, Sending
<1>1. /\ txn = Nobody /\ pc[w] = "idle"
      /\ \A v \in Workers : v # w => pc'[v] = pc[v] /\ batch'[v] = batch[v]
      /\ batch'[w] \in Seq(Rows)
      /\ pc'[w] \in {"idle", "batch"}
      /\ pc'[w] = "idle" => batch'[w] = <<>>
      /\ pc'[w] = "batch" => txn' = w
      /\ BatchSize = 1 => Len(batch'[w]) <= 1
      /\ \A i, j \in 1..Len(batch'[w]) : batch'[w][i] = batch'[w][j] => i = j
      /\ \A i \in 1..Len(batch'[w]) :
           outbox'[batch'[w][i]].status = "CLAIMED" /\ ~outbox'[batch'[w][i]].marked
      /\ \A r \in Rows : outbox'[r].status \in Queued => ~outbox'[r].marked
  BY PollClaims
<1>2. \A v \in Workers : v # w =>
        pc[v] # "batch" /\ \A i \in 1..Len(batch[v]) : ~Waits(v, i)
  BY <1>1, OthersWaitForNothing
<1>3. sent' = sent
  BY DEF Poll, broker
<1>4. BatchesAreSmall'
  BY <1>1 DEF BatchesAreSmall
<1>5. BatchIsAlone'
  BY <1>1, <1>2 DEF BatchIsAlone
<1>6. WaitingIsUnsent'
  BY <1>1, <1>2 DEF WaitingIsUnsent, Waits
<1>7. QueuedIsUnsent'
  BY <1>1 DEF QueuedIsUnsent
<1>8. LicenceIsOwn' /\ TransmittedAtMostOnce'
  <2>1. \A v \in Workers : pc'[v] = "marked" =>
          pc[v] = "marked" /\ batch'[v] = batch[v]
    BY <1>1
  <2> QED
    BY <1>3, <2>1 DEF LicenceIsOwn, TransmittedAtMostOnce
<1> QED
  BY <1>4, <1>5, <1>6, <1>7, <1>8

LEMMA SendingCrash ==
    ASSUME Inv, OneAtATime, Sending, NEW w \in Workers, Crash(w)
    PROVE  Sending'
<1> USE DEF Inv, Sending
<1>1. /\ \A v \in Workers : v # w => pc'[v] = pc[v] /\ batch'[v] = batch[v]
      /\ batch'[w] = <<>> /\ pc'[w] = "idle"
      /\ UNCHANGED <<outbox, txn, sent>>
  BY DEF Crash, Abandon, TypeOK, db, broker
<1>2. 1..Len(<<>>) = {} /\ Len(<<>>) <= 1
  OBVIOUS
<1>3. BatchesAreSmall' /\ BatchIsAlone'
  BY <1>1, <1>2 DEF BatchesAreSmall, BatchIsAlone
<1>4. WaitingIsUnsent' /\ QueuedIsUnsent'
  BY <1>1, <1>2 DEF WaitingIsUnsent, QueuedIsUnsent, Waits
<1>5. LicenceIsOwn' /\ TransmittedAtMostOnce'
  BY <1>1 DEF LicenceIsOwn, TransmittedAtMostOnce
<1> QED
  BY <1>3, <1>4, <1>5

(* What handling a record does to its row and to what was sent: a row that   *)
(* was not marked is marked, put back or given up; a marked one is sent or   *)
(* gets its outcome.                                                         *)
LEMMA HandlesRow ==
    ASSUME Inv, Sending, NEW w \in Workers, Handles(w)
    PROVE  LET r == Head(batch[w])
           IN  /\ outbox'[r].status \in Queued => pc[w] = "batch" /\ ~outbox'[r].marked
               /\ pc[w] = "batch" =>
                    /\ outbox[r].status = "CLAIMED" /\ ~outbox[r].marked
                    /\ sent[r] = 0 /\ sent' = sent
               /\ pc'[w] = "marked" => pc[w] = "batch" /\ CommitMarker(w)
               /\ \/ sent' = sent
                  \/ /\ pc[w] = "marked" /\ pc'[w] = "http"
                     /\ sent' = [sent EXCEPT ![r] = 1]
<1> USE DEF Inv, Sending
<1> DEFINE r == Head(batch[w])
<1>0. /\ pc[w] # "idle" /\ r \in Rows /\ outbox[r] \in OutboxRow
      /\ batch[w] \in Seq(Rows) /\ batch[w] # <<>> /\ r = batch[w][1]
  BY HandlesHead
<1>1. sent[r] \in 0..2
  BY <1>0 DEF TypeOK
<1>2. pc[w] = "batch" => outbox[r].status = "CLAIMED" /\ ~outbox[r].marked /\ sent[r] = 0
  <2>1. 1 \in 1..Len(batch[w])
    BY <1>0
  <2>2. pc[w] = "batch" => outbox[r].status = "CLAIMED" /\ ~outbox[r].marked
    BY <1>0, <2>1 DEF WaitingIsUnsent, Waits
  <2> QED
    BY <1>0, <1>1, <2>2 DEF MarkerPrecedesTransmission
<1>3. pc[w] = "batch" => GateBlocked(w) \/ CommitMarker(w)
  BY DEF Handles, DispatchPlace, DispatchCancel, Settle
<1>4. CASE GateBlocked(w)
  <2>1. pc[w] = "batch" /\ sent' = sent
    BY <1>4 DEF GateBlocked, broker
  <2>2. pc'[w] # "marked"
    BY <1>4 DEF GateBlocked, NextUncommitted, Advance, TypeOK
  <2>3. ~outbox'[r].marked
    BY <1>0, <1>2, <1>4, <2>1 DEF GateBlocked, Freed, OutboxRow, TypeOK
  <2> QED
    BY <1>2, <2>1, <2>2, <2>3
<1>5. CASE CommitMarker(w)
  <2>1. pc[w] = "batch" /\ sent' = sent
    BY <1>5 DEF CommitMarker, broker
  <2>2. outbox'[r].status = "CLAIMED"
    BY <1>0, <1>2, <1>5, <2>1 DEF CommitMarker, OutboxRow, TypeOK
  <2> QED
    BY <1>2, <1>5, <2>1, <2>2 DEF Queued
<1>6. CASE DispatchPlace(w) \/ DispatchCancel(w)
  <2>1. pc[w] = "marked" /\ sent[r] = 0 /\ outbox[r].marked
    BY <1>6 DEF DispatchPlace, DispatchCancel, LicenceIsOwn, InFlight
  <2>2. outbox[r].status \notin Queued
    BY <1>0, <2>1 DEF QueuedIsUnsent
  <2>3. outbox'[r].status \notin Queued
    <3>1. \/ UNCHANGED outbox
          \/ outbox' = [outbox EXCEPT ![r] = [outbox[r] EXCEPT !.status = "DEAD_LETTER"]]
          \/ outbox' = [outbox EXCEPT ![r] = Freed(outbox[r], "DELIVERED")]
      BY <1>6 DEF DispatchPlace, DispatchCancel, Send, db
    <3>2. /\ Freed(outbox[r], "DELIVERED").status = "DELIVERED"
          /\ [outbox[r] EXCEPT !.status = "DEAD_LETTER"].status = "DEAD_LETTER"
      BY <1>0, FreedKeeps DEF OutboxStatus, OutboxRow
    <3> QED
      BY <1>0, <2>2, <3>1, <3>2 DEF TypeOK, Queued
  <2>4. pc'[w] # "marked"
    BY <1>6 DEF DispatchPlace, DispatchCancel, Send, NextRecord, Advance, Abandon, TypeOK
  <2>5. \/ sent' = sent
        \/ pc'[w] = "http" /\ sent' = [sent EXCEPT ![r] = 1]
    BY <1>6, <2>1 DEF DispatchPlace, DispatchCancel, Send, TypeOK
  <2> QED
    BY <2>1, <2>3, <2>4, <2>5
<1>7. CASE Settle(w)
  <2>1. pc[w] = "http" /\ outbox[r].marked /\ sent' = sent
    BY <1>7 DEF Settle, InFlight, broker
  <2>2. outbox[r].status \notin Queued
    BY <1>0, <2>1 DEF QueuedIsUnsent
  <2>3. outbox'[r].status \notin Queued
    <3>1. \/ UNCHANGED outbox
          \/ \E s \in {"DELIVERED", "DEAD_LETTER", "RECONCILIATION_REQUIRED"} :
                outbox' = [outbox EXCEPT ![r] = Freed(outbox[r], s)]
      BY <1>7 DEF Settle, PlaceAcknowledged, PlaceRejected, CancelConfirmed, Ambiguous, db
    <3>2. \A s \in {"DELIVERED", "DEAD_LETTER", "RECONCILIATION_REQUIRED"} :
            Freed(outbox[r], s).status = s
      BY <1>0, FreedKeeps DEF OutboxStatus
    <3> QED
      BY <1>0, <2>2, <3>1, <3>2 DEF TypeOK, Queued
  <2>4. pc'[w] # "marked"
    BY <1>7
    DEF Settle, PlaceAcknowledged, PlaceRejected, CancelConfirmed, Ambiguous, NextRecord,
        Advance, Abandon, TypeOK
  <2> QED
    BY <2>1, <2>3, <2>4
<1> QED
  BY <1>4, <1>5, <1>6, <1>7 DEF Handles

LEMMA SendingHandles ==
    ASSUME Inv, OneAtATime, Sending, NEW w \in Workers, Handles(w)
    PROVE  Sending'
<1> USE DEF Inv, Sending
<1> DEFINE r == Head(batch[w])
<1>1. /\ pc[w] # "idle" /\ txn \in {w, Nobody}
      /\ batch[w] \in Seq(Rows) /\ batch[w] # <<>> /\ r = batch[w][1] /\ r \in Rows
      /\ \A q \in Rows : q # r => outbox'[q] = outbox[q]
      /\ \A v \in Workers : v # w => pc'[v] = pc[v] /\ batch'[v] = batch[v]
  BY HandlesHead
<1>2. \A v \in Workers : v # w =>
        pc[v] # "batch" /\ \A i \in 1..Len(batch[v]) : ~Waits(v, i)
  BY <1>1, OthersWaitForNothing
<1>3. /\ outbox'[r].status \in Queued => pc[w] = "batch" /\ ~outbox'[r].marked
      /\ pc[w] = "batch" =>
           /\ outbox[r].status = "CLAIMED" /\ ~outbox[r].marked
           /\ sent[r] = 0 /\ sent' = sent
      /\ pc'[w] = "marked" => pc[w] = "batch" /\ CommitMarker(w)
      /\ \/ sent' = sent
         \/ /\ pc[w] = "marked" /\ pc'[w] = "http"
            /\ sent' = [sent EXCEPT ![r] = 1]
  BY HandlesRow
<1>4. /\ batch'[w] \in Seq(Rows)
      /\ Len(batch'[w]) <= Len(batch[w])
      /\ \/ batch'[w] = batch[w] /\ pc'[w] \in {"marked", "http"}
         \/ /\ \A i \in 1..Len(batch'[w]) :
                 i + 1 \in 1..Len(batch[w]) /\ batch'[w][i] = batch[w][i + 1]
            /\ pc'[w] \in {"batch", "idle"}
            /\ pc'[w] = "idle" => batch'[w] = <<>>
            /\ pc'[w] = "batch" => Advance(w) /\ Len(batch[w]) > 1
  BY HandlesBatch
<1>5. BatchesAreSmall'
  <2> SUFFICES ASSUME NEW v \in Workers
               PROVE  /\ pc'[v] = "idle" => batch'[v] = <<>>
                      /\ BatchSize = 1 => Len(batch'[v]) <= 1
                      /\ \A i, j \in 1..Len(batch'[v]) : batch'[v][i] = batch'[v][j] => i = j
    BY DEF BatchesAreSmall
  <2>1. CASE v # w
    BY <1>1, <2>1 DEF BatchesAreSmall
  <2>2. CASE v = w
    <3>1. Len(batch[w]) \in Nat /\ Len(batch'[w]) \in Nat
      BY <1>1, <1>4
    <3>2. BatchSize = 1 => Len(batch'[w]) <= 1
      BY <1>4, <3>1 DEF BatchesAreSmall
    <3>3. \A i, j \in 1..Len(batch'[w]) : batch'[w][i] = batch'[w][j] => i = j
      <4>1. CASE batch'[w] = batch[w]
        BY <4>1 DEF BatchesAreSmall
      <4>2. CASE \A i \in 1..Len(batch'[w]) :
                   i + 1 \in 1..Len(batch[w]) /\ batch'[w][i] = batch[w][i + 1]
        <5> SUFFICES ASSUME NEW i \in 1..Len(batch'[w]), NEW j \in 1..Len(batch'[w]),
                            batch'[w][i] = batch'[w][j]
                     PROVE  i = j
          OBVIOUS
        <5>1. /\ i + 1 \in 1..Len(batch[w]) /\ j + 1 \in 1..Len(batch[w])
              /\ batch[w][i + 1] = batch[w][j + 1]
          BY <4>2
        <5>2. i + 1 = j + 1
          BY <5>1 DEF BatchesAreSmall
        <5> QED
          BY <5>2
      <4> QED
        BY <1>4, <4>1, <4>2
    <3> QED
      BY <1>1, <1>4, <2>2, <3>2, <3>3
  <2> QED
    BY <2>1, <2>2
<1>6. BatchIsAlone'
  <2> SUFFICES ASSUME NEW v \in Workers, pc'[v] = "batch"
               PROVE  txn' = v \/ OneWorker
    BY DEF BatchIsAlone, OneWorker
  <2>1. v = w
    BY <1>1, <1>2
  <2>2. Advance(w) /\ Len(batch[w]) > 1
    BY <1>4, <2>1
  <2>3. ~(Len(batch[w]) <= 1)
    BY <1>1, <2>2
  <2>4. OneWorker
    BY <2>3 DEF OneAtATime, BatchesAreSmall
  <2> QED
    BY <2>4
<1>7. WaitingIsUnsent'
  <2> SUFFICES ASSUME NEW v \in Workers, NEW i \in 1..Len(batch'[v]), Waits(v, i)'
               PROVE  /\ outbox'[batch'[v][i]].status = "CLAIMED"
                      /\ ~outbox'[batch'[v][i]].marked
    BY DEF WaitingIsUnsent
  <2>1. v = w
    BY <1>1, <1>2 DEF Waits
  <2>2. PICK j \in 1..Len(batch[w]) : j > 1 /\ batch'[w][i] = batch[w][j]
    <3>1. CASE batch'[w] = batch[w] /\ pc'[w] \in {"marked", "http"}
      BY <2>1, <3>1 DEF Waits
    <3>2. CASE i + 1 \in 1..Len(batch[w]) /\ batch'[w][i] = batch[w][i + 1]
      <4>1. i + 1 > 1
        BY <1>4, <2>1
      <4> QED
        BY <3>2, <4>1
    <3> QED
      BY <1>4, <2>1, <3>1, <3>2
  <2>3. 1 \in 1..Len(batch[w]) /\ batch[w][j] # r /\ batch[w][j] \in Rows
    BY <1>1, <2>2 DEF BatchesAreSmall
  <2>4. outbox[batch[w][j]].status = "CLAIMED" /\ ~outbox[batch[w][j]].marked
    BY <2>2 DEF WaitingIsUnsent, Waits
  <2> QED
    BY <1>1, <2>1, <2>2, <2>3, <2>4
<1>8. QueuedIsUnsent'
  BY <1>1, <1>3 DEF QueuedIsUnsent
<1>9. LicenceIsOwn'
  <2> SUFFICES ASSUME NEW v \in Workers, pc'[v] = "marked"
               PROVE  /\ sent'[Head(batch'[v])] = 0
                      /\ \A u \in Workers :
                           pc'[u] = "marked" /\ Head(batch'[u]) = Head(batch'[v]) => u = v
    BY DEF LicenceIsOwn
  <2>1. \A u \in Workers : pc'[u] = "marked" => batch'[u] = batch[u]
    BY <1>1, <1>4
  <2>2. \A u \in Workers : u # w /\ pc'[u] = "marked" =>
          pc[u] = "marked" /\ outbox[Head(batch[u])].marked
    BY <1>1 DEF InFlight
  <2>3. CASE pc'[w] = "marked"
    <3>1. ~outbox[r].marked /\ sent[r] = 0 /\ sent' = sent
      BY <1>3, <2>3
    <3>2. \A u \in Workers : u # w /\ pc'[u] = "marked" => Head(batch'[u]) # r
      BY <2>1, <2>2, <3>1
    <3>3. Head(batch'[w]) = r
      BY <2>1, <2>3
    <3>4. CASE v = w
      BY <3>1, <3>2, <3>3, <3>4
    <3>5. CASE v # w
      BY <2>1, <2>2, <3>1, <3>2, <3>3, <3>5 DEF LicenceIsOwn
    <3> QED
      BY <3>4, <3>5
  <2>4. CASE pc'[w] # "marked"
    <3>1. v # w /\ pc[v] = "marked" /\ batch'[v] = batch[v]
      BY <1>1, <2>4
    <3>2. Head(batch[v]) \in Rows
      BY <3>1, CurrentRow
    <3>3. pc[w] = "marked" => Head(batch[v]) # r
      BY <3>1 DEF LicenceIsOwn
    <3>4. sent'[Head(batch[v])] = 0
      BY <1>3, <3>1, <3>2, <3>3 DEF LicenceIsOwn, TypeOK
    <3>5. \A u \in Workers : pc'[u] = "marked" => u # w /\ pc[u] = "marked" /\ batch'[u] = batch[u]
      BY <1>1, <2>4
    <3> QED
      BY <3>1, <3>4, <3>5 DEF LicenceIsOwn
  <2> QED
    BY <2>3, <2>4
<1>10. TransmittedAtMostOnce'
  <2> HIDE DEF r
  <2>1. \A q \in Rows : sent'[q] = sent[q] \/ sent'[q] = 1
    BY <1>1, <1>3 DEF TypeOK
  <2> QED
    BY <2>1 DEF TransmittedAtMostOnce
<1> QED
  BY <1>5, <1>6, <1>7, <1>8, <1>9, <1>10

LEMMA SendingStep ==
    ASSUME Inv, OneAtATime, Sending, [Next]_vars
    PROVE  Sending'
<1>1. CASE UNCHANGED vars
  <2>1. Calm
    BY <1>1 DEF vars, db, workers, broker, Calm
  <2> QED
    BY <2>1, SendingCalm
<1>2. ASSUME NEW w \in Workers, WorkerStep(w) PROVE Sending'
  BY <1>2, SendingPoll, SendingHandles DEF WorkerStep, Handles
<1>3. ASSUME NEW w \in Workers, Crash(w) PROVE Sending'
  BY <1>3, SendingCrash
<1>4. CASE Next /\ ~\E w \in Workers : WorkerStep(w) \/ Crash(w)
  <2>1. Calm
    BY <1>4, CalmSteps DEF Inv
  <2> QED
    BY <2>1, SendingCalm
<1> QED
  BY <1>1, <1>2, <1>3, <1>4

-----------------------------------------------------------------------------
(* Receiving.                                                                *)
LEMMA PlaceRows ==
    /\ \A o \in Orders : PlaceRow(o) \in Rows /\ IsPlace(PlaceRow(o)) /\ OrderOf(PlaceRow(o)) = o
    /\ \A r \in Rows : OrderOf(r) \in Orders /\ (IsPlace(r) => r = PlaceRow(OrderOf(r)))
  BY OutboxAssumption DEF PlaceRow, Rows, IsPlace, OrderOf

LEMMA ReceivingInit == Init => Receiving
<1> SUFFICES ASSUME Init PROVE Receiving
  OBVIOUS
<1>1. CasesAreClosed /\ LicenceIsCurrent /\ WireIsOnly /\ LiveIsKnown
  BY DEF Init, CasesAreClosed, LicenceIsCurrent, WireIsOnly, LiveIsKnown
<1>2. AcceptedOnce
  BY PlaceRows DEF Init, AcceptedOnce
<1>3. AnswersAreTrue
  BY DEF Init, AnswersAreTrue, NoReply
<1> QED
  BY <1>1, <1>2, <1>3 DEF Receiving

(* No step but a submission makes an order wait to be placed.                *)
LEMMA OnlySubmissionPends ==
    ASSUME Inv, [Next]_vars, NEW o \in Orders, order'[o] = "PENDING_SUBMISSION"
    PROVE  order[o] = "PENDING_SUBMISSION" \/ SubmitOrder(o)
<1> USE DEF Inv
<1>1. ASSUME NEW p \in Orders, SubmitOrder(p) \/ RequestCancel(p)
      PROVE  order[o] = "PENDING_SUBMISSION" \/ SubmitOrder(o)
  BY <1>1 DEF SubmitOrder, RequestCancel, TypeOK
<1>2. ASSUME NEW w \in Workers, Poll(w) PROVE order[o] = "PENDING_SUBMISSION"
  BY <1>2 DEF Poll
<1>3. ASSUME NEW w \in Workers, Handles(w) PROVE order[o] = "PENDING_SUBMISSION"
  <2>1. Head(batch[w]) \in Rows /\ OrderOf(Head(batch[w])) \in Orders
    BY <1>3, HandlesHead
  <2>2. CASE GateBlocked(w)
    BY <2>1, <2>2 DEF GateBlocked, StatusAfterDeadLetter, TypeOK
  <2>3. CASE CommitMarker(w) \/ DispatchPlace(w) \/ DispatchCancel(w)
    BY <2>1, <2>3 DEF CommitMarker, DispatchPlace, DispatchCancel, Send, db, TypeOK
  <2>4. CASE Settle(w)
    BY <2>1, <2>4
    DEF Settle, PlaceAcknowledged, PlaceRejected, CancelConfirmed, Ambiguous, db, TypeOK
  <2> QED
    BY <1>3, <2>2, <2>3, <2>4 DEF Handles
<1>4. ASSUME NEW r \in Rows, NEW res \in CaseStatus, Resolve(r, res)
      PROVE  order[o] = "PENDING_SUBMISSION"
  BY <1>4 DEF Resolve, TypeOK
<1>5. CASE UNCHANGED order
  BY <1>5
<1>6. /\ UNCHANGED vars => UNCHANGED order
      /\ \A r \in Rows : LeaseLapses(r) \/ BackoffElapses(r) => UNCHANGED order
      /\ \A w \in Workers : Crash(w) => UNCHANGED order
      /\ \A g \in VaryingGates : MoveGate(g) => UNCHANGED order
      /\ Broker => UNCHANGED order
  BY DEF vars, db, LeaseLapses, BackoffElapses, Crash, MoveGate, Broker
<1> QED
  BY <1>1, <1>2, <1>3, <1>4, <1>5, <1>6 DEF Next, WorkerStep, Handles

(* Steps that touch neither the broker nor what is known of it.              *)
LEMMA ReceivingQuiet ==
    ASSUME Inv, Receiving, [Next]_vars, Calm,
           UNCHANGED <<reply, wire, accepted, live, link, recon>>
    PROVE  Receiving'
<1> USE DEF Inv, Receiving
<1>1. CasesAreClosed'
  BY DEF Calm, CasesAreClosed
<1>2. ASSUME NEW o \in Orders, Accounted(o) PROVE Accounted(o)'
  BY <1>2, PlaceRows DEF Calm, Accounted
<1>3. WireIsOnly'
  <2>1. \A q \in wire : OrderOf(q.row) \in Orders
    BY PlaceRows DEF TypeOK, Requests
  <2> QED
    BY <1>2, <2>1 DEF Calm, WireIsOnly
<1>4. AcceptedOnce' /\ AnswersAreTrue'
  BY DEF Calm, AcceptedOnce, AnswersAreTrue
<1>5. LiveIsKnown'
  BY <1>2 DEF LiveIsKnown, Accounted
<1>6. LicenceIsCurrent'
  <2> SUFFICES ASSUME NEW w \in Workers, pc'[w] = "marked", IsPlace(Head(batch'[w])),
                      order'[OrderOf(Head(batch'[w]))] = "PENDING_SUBMISSION"
               PROVE  outbox'[Head(batch'[w])].status = "CLAIMED"
    BY DEF LicenceIsCurrent
  <2> DEFINE r == Head(batch[w])
  <2>1. /\ pc[w] = "marked" /\ Head(batch'[w]) = r
        /\ r \in Rows /\ OrderOf(r) \in Orders /\ outbox[r].status # "ABSENT"
        /\ r = PlaceRow(OrderOf(r))
    BY CurrentRow, PlaceRows DEF Calm
  <2>2. ~SubmitOrder(OrderOf(r))
    BY <2>1 DEF SubmitOrder, CreatedHasNoRow
  <2>3. order[OrderOf(r)] = "PENDING_SUBMISSION"
    BY <2>1, <2>2, OnlySubmissionPends
  <2> HIDE DEF r
  <2>4. outbox[r].status = "CLAIMED"
    BY <2>1, <2>3 DEF LicenceIsCurrent, r
  <2> QED
    BY <2>1, <2>4 DEF Calm
<1> QED
  BY <1>1, <1>3, <1>4, <1>5, <1>6

LEMMA ReceivingResolve ==
    ASSUME Inv, TransmittedAtMostOnce, Receiving,
           NEW r \in Rows, NEW res \in CaseStatus, Resolve(r, res)
    PROVE  Receiving'
<1> USE DEF Inv, Receiving
<1> DEFINE o == OrderOf(r)
<1>0. o \in Orders /\ (IsPlace(r) => r = PlaceRow(o))
  BY PlaceRows
<1>1. /\ outbox' = outbox
      /\ UNCHANGED <<pc, batch, reply, wire, sent, accepted, live>>
      /\ recon[r] = "OPEN" /\ outbox[r].status = "RECONCILIATION_REQUIRED"
      /\ recon' = [recon EXCEPT ![r] = res]
      /\ \A q \in wire : OrderOf(q.row) # o
  BY DEF Resolve, RowAfterResolve, TypeOK, workers, broker
<1>2. CasesAreClosed'
  BY <1>1 DEF CasesAreClosed, TypeOK, Queued
<1>3. ASSUME NEW p \in Orders, p # o \/ ~IsPlace(r), Accounted(p) PROVE Accounted(p)'
  <2>1. PlaceRow(p) \in Rows /\ PlaceRow(p) # r
    BY <1>3, PlaceRows
  <2> QED
    BY <1>1, <1>3, <2>1 DEF Accounted, TypeOK
<1>4. WireIsOnly'
  <2>1. \A q \in wire : OrderOf(q.row) \in Orders
    BY PlaceRows DEF TypeOK, Requests
  <2> QED
    BY <1>1, <1>3, <2>1 DEF WireIsOnly
<1>5. accepted[o] \in Nat
  BY <1>0, OutboxAssumption DEF TypeOK
<1>6. AcceptedOnce'
  <2>1. \A p \in Orders : link'[p] \subseteq 1..accepted[p]
    <3>1. CASE res = "PLACE_CONFIRMED" /\ link[o] = {}
      <4>1. accepted[o] > 0 /\ link' = [link EXCEPT ![o] = {accepted[o]}]
        BY <3>1 DEF Resolve, BrokerAgrees
      <4> QED
        BY <1>0, <1>5, <4>1 DEF AcceptedOnce, TypeOK
    <3>2. CASE ~(res = "PLACE_CONFIRMED" /\ link[o] = {})
      BY <3>2 DEF Resolve, AcceptedOnce
    <3> QED
      BY <3>1, <3>2
  <2> QED
    BY <1>1, <2>1 DEF AcceptedOnce
<1>7. AnswersAreTrue'
  BY <1>1 DEF AnswersAreTrue
<1>8. LicenceIsCurrent'
  <2> SUFFICES ASSUME NEW w \in Workers, pc[w] = "marked", IsPlace(Head(batch[w])),
                      order'[OrderOf(Head(batch[w]))] = "PENDING_SUBMISSION"
               PROVE  outbox[Head(batch[w])].status = "CLAIMED"
    BY <1>1 DEF LicenceIsCurrent
  <2>1. OrderOf(Head(batch[w])) \in Orders
    BY CurrentRow
  <2>2. order[OrderOf(Head(batch[w]))] = "PENDING_SUBMISSION"
    BY <2>1 DEF Resolve, TypeOK
  <2> QED
    BY <2>2 DEF LicenceIsCurrent
<1>9. LiveIsKnown'
  <2> SUFFICES ASSUME NEW p \in Orders, NEW id \in live[p]
               PROVE  id \in link'[p] \/ Accounted(p)'
    BY <1>1 DEF LiveIsKnown, Accounted
  <2>1. link[p] \subseteq link'[p]
    BY <1>0 DEF Resolve, TypeOK
  <2>2. CASE p # o \/ ~IsPlace(r)
    BY <1>3, <2>1, <2>2 DEF LiveIsKnown, Accounted
  <2>3. CASE p = o /\ IsPlace(r)
    <3>1. res \in {"PLACE_CONFIRMED", "PLACE_REJECTED"}
      BY <2>3 DEF Resolve, PlaceResolutions
    <3>2. accepted[o] \in {0, 1} /\ live[o] \cup link[o] \subseteq 1..accepted[o]
      <4>1. sent[PlaceRow(o)] \in 0..1 /\ accepted[o] <= sent[PlaceRow(o)]
        BY <1>0, PlaceRows DEF AcceptedOnce, TransmittedAtMostOnce, TypeOK
      <4> QED
        BY <1>0, <1>5, <4>1 DEF AcceptedOnce
    <3>3. accepted[o] = 1 /\ id = 1 /\ res = "PLACE_CONFIRMED"
      <4>1. id \in 1..accepted[o]
        BY <2>3, <3>2
      <4> QED
        BY <3>1, <3>2, <4>1 DEF Resolve, BrokerAgrees
    <3>4. link'[o] = IF link[o] = {} THEN {1} ELSE link[o]
      BY <1>0, <3>3 DEF Resolve, TypeOK
    <3>5. link[o] \in {{}, {1}}
      BY <3>2, <3>3
    <3> QED
      BY <2>3, <3>3, <3>4, <3>5
  <2> QED
    BY <2>2, <2>3
<1> QED
  BY <1>2, <1>4, <1>6, <1>7, <1>8, <1>9

LEMMA ReceivingCrash ==
    ASSUME Inv, Receiving, NEW w \in Workers, Crash(w)
    PROVE  Receiving'
<1> USE DEF Inv, Receiving
<1>1. /\ UNCHANGED <<order, outbox, recon, link, wire, sent, accepted, live>>
      /\ \A v \in Workers : v # w => pc'[v] = pc[v] /\ batch'[v] = batch[v] /\ reply'[v] = reply[v]
      /\ pc'[w] = "idle" /\ reply'[w] = NoReply
  BY DEF Crash, Abandon, TypeOK, db, broker
<1>2. CasesAreClosed' /\ WireIsOnly' /\ AcceptedOnce' /\ LiveIsKnown'
  BY <1>1 DEF CasesAreClosed, WireIsOnly, Accounted, AcceptedOnce, LiveIsKnown
<1>3. AnswersAreTrue' /\ LicenceIsCurrent'
  BY <1>1 DEF AnswersAreTrue, LicenceIsCurrent, NoReply
<1> QED
  BY <1>2, <1>3

(* The tables after a poll: only a marked row whose lease lapsed fails       *)
(* closed, and its order waits no more to be placed.                         *)
LEMMA PollCloses ==
    ASSUME Inv, QueuedIsUnsent, NEW w \in Workers, Poll(w), NEW r \in Rows
    PROVE  /\ outbox'[r].status \in Queued \cup {"ABSENT", "CLAIMED"} =>
                /\ outbox[r].status \in Queued \cup {"ABSENT", "CLAIMED"}
                /\ recon'[r] = recon[r]
           /\ \/ /\ recon'[r] = recon[r]
                 /\ outbox[r].status = "CLAIMED" /\ outbox[r].marked =>
                      outbox'[r].status = "CLAIMED" /\ outbox'[r].marked
              \/ /\ outbox[r].status = "CLAIMED"
                 /\ recon'[r] = Opened(recon[r])
                 /\ order'[OrderOf(r)] # "PENDING_SUBMISSION"
           /\ \/ outbox'[r] = outbox[r] /\ recon'[r] = recon[r]
              \/ /\ outbox[r].status \in Queued \cup {"CLAIMED"}
                 /\ outbox'[r].status \in Queued \cup {"CLAIMED"}
                 /\ recon'[r] = recon[r]
              \/ /\ outbox[r].status = "CLAIMED"
                 /\ outbox'[r].status = "RECONCILIATION_REQUIRED"
                 /\ recon'[r] = Opened(recon[r])
           /\ r \in LapsedRows /\ outbox[r].marked
                => outbox'[r].status = "RECONCILIATION_REQUIRED"
<1> USE DEF Inv
<1> DEFINE stuck == {q \in LapsedRows : outbox[q].marked}
           stuckOrders == {OrderOf(q) : q \in stuck}
           Row(q) == IF q \in LapsedRows THEN Recovered(outbox[q]) ELSE outbox[q]
           requeued == {q \in LapsedRows : Row(q).status \in Queued}
<1>1. PICK flushed \in SUBSET requeued : \E s \in Batches(DueRows \cup flushed) :
        /\ outbox' = [q \in Rows |->
             IF \E i \in DOMAIN s : s[i] = q THEN Claimed(Row(q), w) ELSE Row(q)]
        /\ order' = [o \in Orders |->
             IF o \in stuckOrders /\ CanMove(order[o], "RECONCILIATION_REQUIRED")
             THEN "RECONCILIATION_REQUIRED" ELSE order[o]]
        /\ recon' = [q \in Rows |-> IF q \in stuck THEN Opened(recon[q]) ELSE recon[q]]
  BY DEF Poll
<1>2. PICK s \in Batches(DueRows \cup flushed) :
        /\ outbox' = [q \in Rows |->
             IF \E i \in DOMAIN s : s[i] = q THEN Claimed(Row(q), w) ELSE Row(q)]
        /\ order' = [o \in Orders |->
             IF o \in stuckOrders /\ CanMove(order[o], "RECONCILIATION_REQUIRED")
             THEN "RECONCILIATION_REQUIRED" ELSE order[o]]
        /\ recon' = [q \in Rows |-> IF q \in stuck THEN Opened(recon[q]) ELSE recon[q]]
  BY <1>1
<1> DEFINE D == DueRows \cup flushed
           claimed == \E i \in DOMAIN s : s[i] = r
<1>3. D \in SUBSET Rows
  BY DEF DueRows, LapsedRows
<1>4. claimed => r \in D
  BY <1>3, BatchIsSequence
<1>5. outbox[r] \in OutboxRow /\ OrderOf(r) \in Orders
  BY PlaceRows DEF TypeOK
<1>6. /\ Recovered(outbox[r]).marked = outbox[r].marked
      /\ Recovered(outbox[r]).status =
           IF outbox[r].marked THEN "RECONCILIATION_REQUIRED" ELSE "RETRY_SCHEDULED"
      /\ Recovered(outbox[r]) \in OutboxRow
  BY <1>5, RecoveredType, FreedKeeps DEF Recovered, OutboxStatus, Queued
<1>7. r \in LapsedRows => outbox[r].status = "CLAIMED"
  BY DEF LapsedRows
<1>8. claimed => ~outbox[r].marked /\ outbox[r].status \in Queued \cup {"CLAIMED"}
  <2>1. r \in DueRows => ~outbox[r].marked /\ outbox[r].status \in Queued
    BY DEF DueRows, QueuedIsUnsent
  <2>2. r \in flushed => ~outbox[r].marked /\ outbox[r].status = "CLAIMED"
    BY <1>6, <1>7 DEF Queued
  <2> QED
    BY <1>4, <2>1, <2>2
<1>9. Row(r) \in OutboxRow
      /\ Claimed(Row(r), w).status = "CLAIMED" /\ Claimed(Row(r), w).marked = Row(r).marked
  <2>1. Row(r) \in OutboxRow
    BY <1>5, <1>6
  <2> HIDE DEF Row
  <2> QED
    BY <2>1 DEF Claimed, OutboxRow
<1>10. /\ outbox'[r] = IF claimed THEN Claimed(Row(r), w) ELSE Row(r)
       /\ recon'[r] = IF r \in stuck THEN Opened(recon[r]) ELSE recon[r]
  BY <1>2
<1>11. CASE r \in stuck
  <2>1. ~claimed /\ r \in LapsedRows /\ outbox[r].marked
    BY <1>8, <1>11
  <2>2. outbox'[r].status = "RECONCILIATION_REQUIRED"
    BY <1>6, <1>10, <2>1
  <2>3. order'[OrderOf(r)] # "PENDING_SUBMISSION"
    <3>1. OrderOf(r) \in stuckOrders
      BY <1>11
    <3>2. CanMove("PENDING_SUBMISSION", "RECONCILIATION_REQUIRED")
      BY DEF CanMove, NextStates
    <3>3. order'[OrderOf(r)] = IF CanMove(order[OrderOf(r)], "RECONCILIATION_REQUIRED")
                               THEN "RECONCILIATION_REQUIRED" ELSE order[OrderOf(r)]
      BY <1>2, <1>5, <3>1
    <3> QED
      BY <3>2, <3>3
  <2> QED
    BY <1>7, <1>10, <1>11, <2>1, <2>2, <2>3 DEF Queued
<1>12. CASE r \notin stuck
  <2>1. recon'[r] = recon[r]
    BY <1>10, <1>12
  <2>2. outbox[r].status = "CLAIMED" /\ outbox[r].marked =>
          outbox'[r].status = "CLAIMED" /\ outbox'[r].marked
    BY <1>8, <1>10, <1>12
  <2>3. outbox'[r].status \in Queued \cup {"ABSENT", "CLAIMED"} =>
          outbox[r].status \in Queued \cup {"ABSENT", "CLAIMED"}
    <3>1. CASE claimed \/ r \in LapsedRows
      BY <1>7, <1>8, <3>1
    <3>2. CASE ~claimed /\ r \notin LapsedRows
      BY <1>10, <3>2
    <3> QED
      BY <3>1, <3>2
  <2>4. \/ outbox'[r] = outbox[r]
        \/ /\ outbox[r].status \in Queued \cup {"CLAIMED"}
           /\ outbox'[r].status \in Queued \cup {"CLAIMED"}
    <3>1. CASE claimed
      BY <1>8, <1>9, <1>10, <3>1
    <3>2. CASE ~claimed /\ r \notin LapsedRows
      BY <1>10, <3>2
    <3>3. CASE ~claimed /\ r \in LapsedRows
      <4>1. ~outbox[r].marked
        BY <1>12, <3>3
      <4>2. outbox'[r].status = "RETRY_SCHEDULED"
        BY <1>6, <1>10, <3>3, <4>1
      <4> QED
        BY <1>7, <3>3, <4>2 DEF Queued
    <3> QED
      BY <3>1, <3>2, <3>3
  <2> QED
    BY <1>12, <2>1, <2>2, <2>3, <2>4
<1> QED
  BY <1>11, <1>12

LEMMA ReceivingPoll ==
    ASSUME Inv, Sending, Receiving, NEW w \in Workers, Poll(w)
    PROVE  Receiving'
<1> USE DEF Inv, Sending, Receiving
<1>1. /\ pc[w] = "idle" /\ pc'[w] \in {"idle", "batch"}
      /\ \A v \in Workers : v # w => pc'[v] = pc[v] /\ batch'[v] = batch[v]
  BY PollClaims
<1>2. UNCHANGED <<link, reply, wire, sent, accepted, live>>
  BY DEF Poll, broker
<1>3. CasesAreClosed'
  BY PollCloses DEF CasesAreClosed
<1>4. ASSUME NEW o \in Orders, Accounted(o) PROVE Accounted(o)'
  <2> DEFINE r == PlaceRow(o)
  <2>1. r \in Rows
    BY PlaceRows
  <2>2. \/ /\ recon'[r] = recon[r]
           /\ outbox[r].status = "CLAIMED" /\ outbox[r].marked =>
                outbox'[r].status = "CLAIMED" /\ outbox'[r].marked
        \/ outbox[r].status = "CLAIMED" /\ recon'[r] = Opened(recon[r])
    BY <2>1, PollCloses
  <2>3. outbox[r].status = "CLAIMED" => recon[r] = "NONE"
    BY <2>1 DEF CasesAreClosed
  <2> QED
    BY <1>4, <2>2, <2>3 DEF Accounted, Opened
<1>5. WireIsOnly'
  <2>1. \A q \in wire : OrderOf(q.row) \in Orders
    BY PlaceRows DEF TypeOK, Requests
  <2> QED
    BY <1>2, <1>4, <2>1 DEF WireIsOnly
<1>6. AcceptedOnce'
  BY <1>2 DEF AcceptedOnce
<1>7. LiveIsKnown'
  BY <1>2, <1>4 DEF LiveIsKnown, Accounted
<1>8. AnswersAreTrue'
  <2>1. reply[w] = NoReply
    BY <1>1 DEF AnswersAreTrue
  <2> QED
    BY <1>1, <1>2, <2>1 DEF AnswersAreTrue, NoReply
<1>9. LicenceIsCurrent'
  <2> SUFFICES ASSUME NEW v \in Workers, pc'[v] = "marked", IsPlace(Head(batch'[v])),
                      order'[OrderOf(Head(batch'[v]))] = "PENDING_SUBMISSION"
               PROVE  outbox'[Head(batch'[v])].status = "CLAIMED"
    BY DEF LicenceIsCurrent
  <2> DEFINE r == Head(batch[v])
  <2>1. /\ pc[v] = "marked" /\ Head(batch'[v]) = r
        /\ r \in Rows /\ OrderOf(r) \in Orders /\ outbox[r].marked
    BY <1>1, CurrentRow DEF InFlight
  <2>2. order[OrderOf(r)] = "PENDING_SUBMISSION"
    BY <2>1 DEF Poll
  <2>3. outbox[r].status = "CLAIMED"
    BY <2>1, <2>2 DEF LicenceIsCurrent
  <2> HIDE DEF r
  <2> QED
    BY <2>1, <2>3, PollCloses
<1> QED
  BY <1>3, <1>5, <1>6, <1>7, <1>8, <1>9

LEMMA ReceivingBroker ==
    ASSUME Inv, TransmittedAtMostOnce, Receiving, Broker
    PROVE  Receiving'
<1> USE DEF Inv, Receiving
<1>1. UNCHANGED <<order, outbox, recon, link, pc, batch, sent>>
  BY DEF Broker, db
<1>2. PICK q \in wire : BrokerPlaces(q) \/ BrokerCancels(q) \/ RequestLost(q)
  BY DEF Broker
<1> DEFINE o == OrderOf(q.row)
<1>3. /\ q.row \in Rows /\ q.by \in Workers /\ o \in Orders
      /\ wire' = wire \ {q}
      /\ \A p \in wire : p.row \in Rows /\ OrderOf(p.row) \in Orders
      /\ \A p \in wire : IsPlace(p.row) => p.row = PlaceRow(OrderOf(p.row))
  BY <1>2, PlaceRows DEF TypeOK, Requests, BrokerPlaces, BrokerCancels, RequestLost
<1>4. CasesAreClosed' /\ LicenceIsCurrent'
  BY <1>1 DEF CasesAreClosed, LicenceIsCurrent
<1>5. accepted[o] \in 0..MaxAccepts /\ MaxAccepts \in Nat /\ live[o] \subseteq ProviderIds
  BY <1>3, OutboxAssumption DEF TypeOK
<1>6. IsPlace(q.row) =>
        /\ sent[q.row] = 1 /\ accepted[o] = 0 /\ Accounted(o) /\ live[o] = {} /\ link[o] = {}
        /\ \A p \in wire \ {q} : p.row # q.row
  <2>1. 1..0 = {}
    OBVIOUS
  <2> QED
    BY <1>3, <2>1 DEF WireIsOnly, AcceptedOnce
(* The orders but o are untouched; so is o unless the broker accepts it.     *)
<1>7. /\ accepted' \in [Orders -> Nat] /\ DOMAIN live' = Orders
      /\ \A p \in Orders : p # o => accepted'[p] = accepted[p] /\ live'[p] = live[p]
      /\ \/ accepted'[o] = accepted[o] /\ live'[o] \subseteq live[o]
         \/ IsPlace(q.row) /\ accepted'[o] = 1 /\ live'[o] = {1}
  <2>1. CASE BrokerPlaces(q)
    <3>1. CASE accepted' = [accepted EXCEPT ![o] = @ + 1]
               /\ live' = [live EXCEPT ![o] = @ \cup {accepted[o] + 1}]
      <4>1. accepted'[o] = 1 /\ live'[o] = {1}
        BY <1>3, <1>6, <2>1, <3>1 DEF BrokerPlaces, TypeOK
      <4>2. accepted' \in [Orders -> Nat] /\ DOMAIN live' = Orders
            /\ \A p \in Orders : p # o => accepted'[p] = accepted[p] /\ live'[p] = live[p]
        BY <1>3, <1>5, <3>1 DEF TypeOK
      <4> QED
        BY <2>1, <4>1, <4>2 DEF BrokerPlaces
    <3>2. CASE UNCHANGED <<accepted, live>>
      BY <1>5, <3>2 DEF TypeOK
    <3> QED
      BY <2>1, <3>1, <3>2 DEF BrokerPlaces
  <2>2. CASE BrokerCancels(q)
    BY <1>3, <1>5, <2>2 DEF BrokerCancels, TypeOK
  <2>3. CASE RequestLost(q)
    BY <1>5, <2>3 DEF RequestLost, TypeOK
  <2> QED
    BY <1>2, <2>1, <2>2, <2>3
<1>8. AcceptedOnce'
  <2> SUFFICES ASSUME NEW p \in Orders
               PROVE  /\ accepted'[p] <= sent[PlaceRow(p)]
                      /\ live'[p] \cup link[p] \subseteq 1..accepted'[p]
    BY <1>1 DEF AcceptedOnce
  <2>1. CASE accepted'[p] = accepted[p] /\ live'[p] \subseteq live[p]
    BY <2>1 DEF AcceptedOnce
  <2>2. CASE p = o /\ IsPlace(q.row) /\ accepted'[o] = 1 /\ live'[o] = {1}
    BY <1>3, <1>6, <2>2
  <2> QED
    BY <1>7, <2>1, <2>2
<1>9. WireIsOnly'
  <2> SUFFICES ASSUME NEW p \in wire \ {q}, IsPlace(p.row)
               PROVE  /\ sent[p.row] = 1
                      /\ accepted'[OrderOf(p.row)] = 0
                      /\ Accounted(OrderOf(p.row))
                      /\ \A u \in wire : u.row = p.row => u = p
    BY <1>1, <1>3 DEF WireIsOnly, Accounted
  <2>1. accepted'[OrderOf(p.row)] = accepted[OrderOf(p.row)]
    <3>1. CASE IsPlace(q.row)
      BY <1>3, <1>6, <1>7, <3>1
    <3>2. CASE ~IsPlace(q.row)
      BY <1>3, <1>7, <3>2
    <3> QED
      BY <3>1, <3>2
  <2> QED
    BY <2>1 DEF WireIsOnly
<1>10. LiveIsKnown'
  <2> SUFFICES ASSUME NEW p \in Orders, NEW id \in live'[p]
               PROVE  id \in link[p] \/ Accounted(p)
    BY <1>1 DEF LiveIsKnown, Accounted
  <2>1. CASE id \in live[p]
    BY <2>1 DEF LiveIsKnown, Accounted
  <2>2. CASE p = o /\ IsPlace(q.row)
    BY <1>6, <2>2
  <2> QED
    BY <1>7, <2>1, <2>2
(* The worker that waits for the answer gets it.                             *)
<1>11. AnswersAreTrue'
  <2> SUFFICES ASSUME NEW v \in Workers
               PROVE  LET r == Head(batch[v])
                          p == OrderOf(r)
                      IN /\ pc[v] = "http" => sent[r] # 0
                         /\ reply'[v] # NoReply => pc[v] = "http"
                         /\ reply'[v].kind = "placed" => IsPlace(r) /\ reply'[v].id \in 1..accepted'[p]
                         /\ reply'[v].kind = "cancelled" => ~IsPlace(r)
                         /\ reply'[v].kind = "rejected" =>
                              IsPlace(r) /\ accepted'[p] = 0 /\ \A u \in wire' : u.row # r
    BY <1>1 DEF AnswersAreTrue
  <2>1. CASE reply'[v] = reply[v]
    <3>1. CASE pc[v] # "http"
      BY <2>1, <3>1 DEF AnswersAreTrue, NoReply
    <3>2. CASE pc[v] = "http"
      <4> DEFINE r == Head(batch[v])
                 p == OrderOf(r)
      <4>1. r \in Rows /\ p \in Orders /\ (IsPlace(r) => r = PlaceRow(p))
        BY <3>2, CurrentRow, PlaceRows
      <4>2. accepted[p] \in Nat /\ accepted'[p] \in Nat /\ accepted[p] <= accepted'[p]
        <5>1. accepted[p] \in 0..MaxAccepts /\ accepted'[p] \in Nat
          BY <1>7, <4>1 DEF TypeOK
        <5>2. accepted'[p] = accepted[p] \/ (accepted[p] = 0 /\ accepted'[p] = 1)
          BY <1>6, <1>7, <4>1
        <5> HIDE DEF p, r
        <5> QED
          BY <1>5, <5>1, <5>2
      <4>3. reply[v].kind = "rejected" => r # q.row /\ accepted'[p] = 0
        <5> SUFFICES ASSUME reply[v].kind = "rejected"
                     PROVE  r # q.row /\ accepted'[p] = 0
          OBVIOUS
        <5>1. IsPlace(r) /\ accepted[p] = 0 /\ r # q.row
          BY DEF AnswersAreTrue
        <5>2. IsPlace(q.row) => o # p
          BY <1>3, <4>1, <5>1
        <5> QED
          BY <1>7, <4>1, <5>1, <5>2
      <4>4. /\ sent[r] # 0
            /\ reply[v].kind = "placed" => IsPlace(r) /\ reply[v].id \in 1..accepted[p]
            /\ reply[v].kind = "cancelled" => ~IsPlace(r)
            /\ reply[v].kind = "rejected" => IsPlace(r) /\ \A u \in wire : u.row # r
        BY <3>2 DEF AnswersAreTrue
      <4>5. reply[v].id \in 1..accepted[p] => reply[v].id \in 1..accepted'[p]
        BY <4>2
      <4> QED
        BY <1>3, <2>1, <3>2, <4>3, <4>4, <4>5
    <3> QED
      BY <3>1, <3>2
  <2>2. CASE /\ v = q.by /\ pc[v] = "http" /\ Head(batch[v]) = q.row
             /\ \/ /\ IsPlace(q.row) /\ accepted[o] < MaxAccepts
                   /\ accepted' = [accepted EXCEPT ![o] = @ + 1]
                   /\ reply'[v] = [kind |-> "placed", id |-> accepted[o] + 1]
                \/ /\ IsPlace(q.row) /\ accepted' = accepted
                   /\ reply'[v] = [kind |-> "rejected", id |-> 0]
                \/ ~IsPlace(q.row) /\ reply'[v] = [kind |-> "cancelled", id |-> q.id]
    <3>1. sent[q.row] # 0
      BY <2>2 DEF AnswersAreTrue
    <3>2. CASE reply'[v] = [kind |-> "placed", id |-> accepted[o] + 1] /\ IsPlace(q.row)
               /\ accepted' = [accepted EXCEPT ![o] = @ + 1]
      <4>1. accepted'[o] = 1 /\ reply'[v].id = 1 /\ reply'[v].kind = "placed"
        BY <1>3, <1>6, <3>2 DEF TypeOK
      <4> QED
        BY <2>2, <3>1, <3>2, <4>1
    <3>3. CASE reply'[v] = [kind |-> "rejected", id |-> 0] /\ IsPlace(q.row)
               /\ accepted' = accepted
      BY <1>3, <1>6, <2>2, <3>1, <3>3
    <3>4. CASE reply'[v] = [kind |-> "cancelled", id |-> q.id] /\ ~IsPlace(q.row)
      BY <2>2, <3>1, <3>4
    <3> QED
      BY <2>2, <3>2, <3>3, <3>4
  <2>3. \A a : Answer(q, a) =>
          \/ reply'[v] = reply[v]
          \/ v = q.by /\ pc[v] = "http" /\ Head(batch[v]) = q.row /\ reply'[v] = a
    BY <1>3 DEF Answer, TypeOK
  <2>4. CASE BrokerPlaces(q)
    BY <2>1, <2>2, <2>3, <2>4 DEF BrokerPlaces
  <2>5. CASE BrokerCancels(q)
    BY <2>1, <2>2, <2>3, <2>5 DEF BrokerCancels
  <2>6. CASE RequestLost(q)
    BY <2>1, <2>6 DEF RequestLost
  <2> QED
    BY <1>2, <2>4, <2>5, <2>6
<1> QED
  BY <1>4, <1>8, <1>9, <1>10, <1>11

(* The licence and the answer of every worker, after w handled a record.     *)
LEMMA ReceivingWorkers ==
    ASSUME Inv, Sending, Receiving, NEW w \in Workers, Handles(w),
           UNCHANGED accepted,
           \A q \in wire' : q \in wire \/ (q.row = Head(batch[w]) /\ pc[w] = "marked")
    PROVE  AnswersAreTrue' /\ LicenceIsCurrent'
<1> USE DEF Inv, Sending, Receiving
<1> DEFINE r == Head(batch[w])
<1>1. /\ pc[w] # "idle" /\ r \in Rows
      /\ \A q \in Rows : q # r => outbox'[q] = outbox[q] /\ recon'[q] = recon[q]
      /\ \A v \in Workers : v # w =>
           pc'[v] = pc[v] /\ batch'[v] = batch[v] /\ reply'[v] = reply[v]
      /\ \/ batch'[w] = batch[w] /\ pc'[w] \in {"marked", "http"} /\ reply' = reply
         \/ Advance(w) \/ Abandon(w)
  BY HandlesHead
<1>2. /\ pc[w] = "batch" => ~outbox[r].marked /\ sent[r] = 0 /\ sent' = sent
      /\ pc'[w] = "marked" => pc[w] = "batch" /\ CommitMarker(w)
      /\ \/ sent' = sent
         \/ /\ pc[w] = "marked" /\ pc'[w] = "http"
            /\ sent' = [sent EXCEPT ![r] = 1]
  BY HandlesRow
<1>3. pc[w] = "marked" => sent[r] = 0
  BY DEF LicenceIsOwn
<1>4. pc[w] = "http" => sent[r] # 0 /\ (Advance(w) \/ Abandon(w))
  BY DEF AnswersAreTrue, Handles, GateBlocked, CommitMarker, DispatchPlace, DispatchCancel,
         Settle, PlaceAcknowledged, PlaceRejected, CancelConfirmed, Ambiguous, NextRecord
<1>5. Advance(w) \/ Abandon(w) => reply'[w] = NoReply /\ pc'[w] \in {"idle", "batch"}
  BY DEF Advance, Abandon, TypeOK
<1>6. \A q \in Rows : sent[q] # 0 => sent'[q] # 0
  BY <1>1, <1>2 DEF TypeOK
<1>7. AnswersAreTrue'
  <2> SUFFICES ASSUME NEW v \in Workers
               PROVE  LET q == Head(batch'[v])
                          o == OrderOf(q)
                      IN /\ pc'[v] = "http" => sent'[q] # 0
                         /\ reply'[v] # NoReply => pc'[v] = "http"
                         /\ reply'[v].kind = "placed" => IsPlace(q) /\ reply'[v].id \in 1..accepted[o]
                         /\ reply'[v].kind = "cancelled" => ~IsPlace(q)
                         /\ reply'[v].kind = "rejected" =>
                              IsPlace(q) /\ accepted[o] = 0 /\ \A u \in wire' : u.row # q
    BY DEF AnswersAreTrue
  <2>1. CASE v = w
    <3>1. CASE Advance(w) \/ Abandon(w)
      BY <1>5, <2>1, <3>1 DEF NoReply
    <3>2. CASE batch'[w] = batch[w] /\ pc'[w] \in {"marked", "http"} /\ reply' = reply
      <4>1. pc[w] # "http"
        BY <1>4, <1>5, <3>2
      <4>2. reply'[w] = NoReply
        BY <3>2, <4>1 DEF AnswersAreTrue
      <4>3. pc'[w] = "http" => sent'[r] # 0
        <5> SUFFICES ASSUME pc'[w] = "http" PROVE sent'[r] # 0
          OBVIOUS
        <5>1. CASE CommitMarker(w)
          BY <5>1 DEF CommitMarker, TypeOK
        <5>2. CASE Send(w, r, 0) \/ \E id \in link[OrderOf(r)] : Send(w, r, id)
          <6>1. sent' = [sent EXCEPT ![r] = IF @ < 2 THEN @ + 1 ELSE @]
            BY <5>2 DEF Send
          <6>2. sent[r] \in 0..2 /\ sent'[r] = IF sent[r] < 2 THEN sent[r] + 1 ELSE sent[r]
            BY <1>1, <6>1 DEF TypeOK
          <6> HIDE DEF r
          <6> QED
            BY <6>2
        <5>3. CASE Advance(w) \/ Abandon(w)
          BY <1>5, <5>3
        <5>4. \/ CommitMarker(w) \/ Advance(w) \/ Abandon(w)
              \/ Send(w, r, 0) \/ \E id \in link[OrderOf(r)] : Send(w, r, id)
          BY DEF Handles, GateBlocked, DispatchPlace, DispatchCancel, Settle,
                 PlaceAcknowledged, PlaceRejected, CancelConfirmed, Ambiguous, NextRecord,
                 NextUncommitted
        <5> QED
          BY <5>1, <5>2, <5>3, <5>4
      <4> QED
        BY <2>1, <3>2, <4>2, <4>3 DEF NoReply
    <3> QED
      BY <1>1, <3>1, <3>2
  <2>2. CASE v # w
    <3> DEFINE q == Head(batch[v])
    <3>1. CASE pc[v] # "http"
      BY <1>1, <2>2, <3>1 DEF AnswersAreTrue, NoReply
    <3>2. CASE pc[v] = "http"
      <4>1. q \in Rows /\ sent[q] # 0
        BY <3>2, CurrentRow DEF AnswersAreTrue
      <4>2. pc[w] = "marked" => q # r
        BY <1>3, <4>1
      <4>3. \A u \in wire' : u.row = q => u \in wire
        BY <4>2
      <4>4. /\ pc'[v] = "http" /\ batch'[v] = batch[v] /\ reply'[v] = reply[v]
            /\ sent'[q] # 0
        BY <1>1, <1>6, <2>2, <3>2, <4>1
      <4> QED
        BY <4>3, <4>4 DEF AnswersAreTrue
    <3> QED
      BY <3>1, <3>2
  <2> QED
    BY <2>1, <2>2
<1>8. LicenceIsCurrent'
  <2> SUFFICES ASSUME NEW v \in Workers, pc'[v] = "marked", IsPlace(Head(batch'[v])),
                      order'[OrderOf(Head(batch'[v]))] = "PENDING_SUBMISSION"
               PROVE  outbox'[Head(batch'[v])].status = "CLAIMED"
    BY DEF LicenceIsCurrent
  <2>1. CASE v = w
    <3>1. CommitMarker(w) /\ outbox[r].status = "CLAIMED"
      BY <1>2, <2>1, HandlesRow
    <3>2. outbox[r] \in OutboxRow /\ batch'[w] = batch[w]
      BY <1>1, <3>1 DEF CommitMarker, TypeOK
    <3>3. outbox'[r] = [outbox[r] EXCEPT !.marked = TRUE]
      BY <1>1, <3>1 DEF CommitMarker, TypeOK
    <3>4. outbox'[r].status = "CLAIMED"
      BY <3>1, <3>2, <3>3 DEF OutboxRow
    <3> QED
      BY <2>1, <3>2, <3>4
  <2>2. CASE v # w
    <3> DEFINE q == Head(batch[v])
    <3>1. /\ pc[v] = "marked" /\ Head(batch'[v]) = q /\ IsPlace(q)
          /\ q \in Rows /\ OrderOf(q) \in Orders /\ outbox[q].status # "ABSENT"
          /\ q = PlaceRow(OrderOf(q)) /\ outbox[q].marked /\ sent[q] = 0
      BY <1>1, <2>2, CurrentRow, PlaceRows DEF InFlight, LicenceIsOwn
    <3>2. q # r
      BY <1>1, <1>2, <1>4, <2>2, <3>1 DEF LicenceIsOwn, TypeOK
    <3>3. order[OrderOf(q)] = "PENDING_SUBMISSION"
      <4>1. [Next]_vars
        BY DEF Handles, WorkerStep, Next
      <4>2. ~SubmitOrder(OrderOf(q))
        BY <3>1 DEF SubmitOrder, CreatedHasNoRow
      <4> QED
        BY <3>1, <4>1, <4>2, OnlySubmissionPends
    <3>4. outbox[q].status = "CLAIMED"
      BY <3>1, <3>3 DEF LicenceIsCurrent
    <3> HIDE DEF q, r
    <3> QED
      BY <1>1, <3>1, <3>2, <3>4
  <2> QED
    BY <2>1, <2>2
<1> QED
  BY <1>7, <1>8

(* The tables and the broker, after w handled record r of order o: what is   *)
(* left to show is about that record alone.  N are the requests w sent.      *)
LEMMA ReceivingRow ==
    ASSUME Inv, Sending, Receiving, NEW w \in Workers, Handles(w),
           NEW r, r = Head(batch[w]), NEW o, o = OrderOf(r), NEW N,
           UNCHANGED <<accepted, live>>,
           wire' = wire \cup N,
           \A q \in N : q.row = r /\ pc[w] = "marked" /\ \A p \in N : p = q,
           IsPlace(r) /\ N # {} => sent'[r] = 1 /\ Accounted(o)',
           \A p \in Orders : link[p] \subseteq link'[p] /\ link'[p] \subseteq 1..accepted[p],
           outbox'[r].status \in Queued \cup {"ABSENT", "CLAIMED"} => recon'[r] = "NONE",
           IsPlace(r) =>
             \/ Accounted(o) => Accounted(o)'
             \/ live[o] \subseteq link'[o] /\ \A q \in wire : q.row # r
    PROVE  Receiving'
<1> USE DEF Inv, Sending, Receiving
<1>1. /\ r \in Rows /\ o \in Orders /\ (IsPlace(r) => r = PlaceRow(o))
      /\ \A q \in Rows : q # r => outbox'[q] = outbox[q] /\ recon'[q] = recon[q]
  BY HandlesHead, PlaceRows
<1>2. AnswersAreTrue' /\ LicenceIsCurrent'
  <2>1. \A q \in wire' : q \in wire \/ (q.row = Head(batch[w]) /\ pc[w] = "marked")
    OBVIOUS
  <2> QED
    BY <2>1, ReceivingWorkers
<1>3. CasesAreClosed'
  BY <1>1 DEF CasesAreClosed
<1>4. ASSUME NEW p \in Orders, p # o \/ ~IsPlace(r), Accounted(p)
      PROVE  Accounted(p)'
  <2>1. PlaceRow(p) \in Rows /\ PlaceRow(p) # r
    BY <1>4, PlaceRows
  <2> QED
    BY <1>1, <1>4, <2>1 DEF Accounted
<1>5. sent' = sent \/ (sent[r] = 0 /\ sent' = [sent EXCEPT ![r] = 1])
  BY HandlesRow DEF LicenceIsOwn
<1>6. AcceptedOnce'
  <2> SUFFICES ASSUME NEW p \in Orders
               PROVE  /\ accepted[p] <= sent'[PlaceRow(p)]
                      /\ live[p] \cup link'[p] \subseteq 1..accepted[p]
    BY DEF AcceptedOnce
  <2>1. PlaceRow(p) \in Rows /\ accepted[p] \in 0..MaxAccepts /\ accepted[p] <= sent[PlaceRow(p)]
    BY PlaceRows DEF AcceptedOnce, TypeOK
  <2>2. CASE PlaceRow(p) = r /\ sent[r] = 0 /\ sent' = [sent EXCEPT ![r] = 1]
    <3>1. sent'[r] = 1 /\ accepted[p] <= 0
      BY <1>1, <2>1, <2>2 DEF TypeOK
    <3> QED
      BY <2>1, <2>2, <3>1, OutboxAssumption DEF AcceptedOnce
  <2>3. CASE sent'[PlaceRow(p)] = sent[PlaceRow(p)]
    BY <2>1, <2>3 DEF AcceptedOnce
  <2> QED
    BY <1>1, <1>5, <2>1, <2>2, <2>3 DEF TypeOK
<1>7. WireIsOnly'
  <2> SUFFICES ASSUME NEW q \in wire \cup N, IsPlace(q.row)
               PROVE  /\ sent'[q.row] = 1
                      /\ accepted[OrderOf(q.row)] = 0
                      /\ Accounted(OrderOf(q.row))'
                      /\ \A p \in wire \cup N : p.row = q.row => p = q
    BY <1>1 DEF WireIsOnly, Accounted
  <2>1. CASE q \in N
    <3>1. /\ q.row = r /\ IsPlace(r) /\ sent'[r] = 1 /\ Accounted(o)' /\ sent[r] = 0
      BY <2>1 DEF LicenceIsOwn
    <3>2. accepted[o] = 0
      BY <1>1, <3>1 DEF AcceptedOnce, TypeOK
    <3>3. \A p \in wire : p.row # r
      BY <3>1 DEF WireIsOnly
    <3> QED
      BY <2>1, <3>1, <3>2, <3>3
  <2>2. CASE q \in wire
    <3>1. /\ sent[q.row] = 1 /\ accepted[OrderOf(q.row)] = 0
          /\ Accounted(OrderOf(q.row))
          /\ \A p \in wire : p.row = q.row => p = q
      BY <2>2 DEF WireIsOnly
    <3>2. q.row \in Rows /\ OrderOf(q.row) \in Orders /\ q.row = PlaceRow(OrderOf(q.row))
      BY <2>2, PlaceRows DEF TypeOK, Requests
    <3>3. sent'[q.row] = 1
      BY <1>5, <3>1, <3>2 DEF TypeOK
    <3>4. \A p \in N : p.row # q.row
      BY <3>1 DEF LicenceIsOwn
    <3>5. Accounted(OrderOf(q.row))'
      <4>1. CASE q.row = r
        BY <2>2, <3>1, <4>1
      <4>2. CASE q.row # r
        <5>1. OrderOf(q.row) # o \/ ~IsPlace(r)
          BY <1>1, <3>2, <4>2
        <5> QED
          BY <1>4, <3>1, <3>2, <5>1
      <4> QED
        BY <4>1, <4>2
    <3> QED
      BY <3>1, <3>3, <3>4, <3>5
  <2> QED
    BY <2>1, <2>2
<1>8. LiveIsKnown'
  <2> SUFFICES ASSUME NEW p \in Orders, NEW id \in live[p]
               PROVE  id \in link'[p] \/ Accounted(p)'
    BY DEF LiveIsKnown, Accounted
  <2>1. id \in link[p] \/ Accounted(p)
    BY DEF LiveIsKnown, Accounted
  <2>2. CASE p # o \/ ~IsPlace(r)
    BY <1>4, <2>1, <2>2
  <2>3. CASE p = o /\ IsPlace(r)
    BY <2>1, <2>3
  <2> QED
    BY <2>2, <2>3
<1> QED
  BY <1>2, <1>3, <1>6, <1>7, <1>8

(* The same where w sent nothing.                                            *)
LEMMA ReceivingQuietRow ==
    ASSUME Inv, Sending, Receiving, NEW w \in Workers, Handles(w),
           NEW r, r = Head(batch[w]), NEW o, o = OrderOf(r),
           UNCHANGED <<wire, accepted, live>>,
           \A p \in Orders : link[p] \subseteq link'[p] /\ link'[p] \subseteq 1..accepted[p],
           outbox'[r].status \in Queued \cup {"ABSENT", "CLAIMED"} => recon'[r] = "NONE",
           IsPlace(r) =>
             \/ Accounted(o) => Accounted(o)'
             \/ live[o] \subseteq link'[o] /\ \A q \in wire : q.row # r
    PROVE  Receiving'
<1> DEFINE N == {}
<1>1. wire' = wire \cup N /\ N = {} /\ \A q \in N : FALSE
  OBVIOUS
<1>2. \A q \in N : q.row = r /\ pc[w] = "marked" /\ \A p \in N : p = q
  OBVIOUS
<1> HIDE DEF N
<1> QED
  BY <1>1, <1>2, ReceivingRow

(* Nothing was sent of the record: a placement has no request under way and  *)
(* nothing alive.                                                            *)
LEMMA UnsentIsUnknown ==
    ASSUME Inv, Receiving, NEW r \in Rows, IsPlace(r), sent[r] = 0
    PROVE  live[OrderOf(r)] = {} /\ \A q \in wire : q.row # r
<1>1. OrderOf(r) \in Orders /\ r = PlaceRow(OrderOf(r))
  BY PlaceRows
<1>2. accepted[OrderOf(r)] \in Nat /\ accepted[OrderOf(r)] <= 0
  BY <1>1, OutboxAssumption DEF Inv, TypeOK, Receiving, AcceptedOnce
<1>3. 1..accepted[OrderOf(r)] = {}
  BY <1>2
<1> QED
  BY <1>1, <1>3 DEF Receiving, AcceptedOnce, WireIsOnly

LEMMA ReceivingBatch ==
    ASSUME Inv, Sending, Receiving, NEW w \in Workers, GateBlocked(w) \/ CommitMarker(w)
    PROVE  Receiving'
<1> USE DEF Inv, Sending, Receiving
<1>0. PICK r, o : r = Head(batch[w]) /\ o = OrderOf(r)
  OBVIOUS
<1> USE <1>0
<1>1. Handles(w) /\ pc[w] = "batch" /\ UNCHANGED <<recon, link, wire, accepted, live>>
  BY DEF Handles, GateBlocked, CommitMarker, broker
<1>2. r \in Rows /\ o \in Orders /\ sent[r] = 0 /\ outbox[r].status = "CLAIMED"
  BY <1>1, HandlesHead, HandlesRow
<1>3. IsPlace(r) => live[o] = {} /\ \A q \in wire : q.row # r
  BY <1>2, UnsentIsUnknown
<1>4. recon'[r] = "NONE"
  BY <1>1, <1>2 DEF CasesAreClosed
<1>5. \A p \in Orders : link[p] \subseteq link'[p] /\ link'[p] \subseteq 1..accepted[p]
  BY <1>1 DEF AcceptedOnce
<1> QED
  BY <1>1, <1>3, <1>4, <1>5, ReceivingQuietRow

LEMMA ReceivingDispatch ==
    ASSUME Inv, Sending, Receiving, NEW w \in Workers, DispatchPlace(w) \/ DispatchCancel(w)
    PROVE  Receiving'
<1> USE DEF Inv, Sending, Receiving
<1>0. PICK r, o : r = Head(batch[w]) /\ o = OrderOf(r)
  OBVIOUS
<1> USE <1>0
<1>1. Handles(w) /\ pc[w] = "marked" /\ UNCHANGED <<recon, link, accepted, live>>
  BY DEF Handles, DispatchPlace, DispatchCancel, Send, db
<1>2. r \in Rows /\ o \in Orders /\ outbox[r] \in OutboxRow /\ (IsPlace(r) => r = PlaceRow(o))
  BY <1>1, HandlesHead, PlaceRows
<1>3. sent[r] = 0 /\ outbox[r].marked
  BY <1>1 DEF LicenceIsOwn, InFlight
<1>4. IsPlace(r) => live[o] = {} /\ \A q \in wire : q.row # r
  BY <1>2, <1>3, UnsentIsUnknown
<1>5. \A p \in Orders : link[p] \subseteq link'[p] /\ link'[p] \subseteq 1..accepted[p]
  BY <1>1 DEF AcceptedOnce
<1>6. outbox'[r].status \in Queued \cup {"ABSENT", "CLAIMED"} => recon'[r] = "NONE"
  <2>1. CASE UNCHANGED outbox
    BY <1>1, <1>2, <2>1 DEF CasesAreClosed
  <2>2. CASE \/ outbox' = [outbox EXCEPT ![r].status = "DEAD_LETTER"]
             \/ outbox' = [outbox EXCEPT ![r] = Freed(outbox[r], "DELIVERED")]
    <3>1. /\ [outbox[r] EXCEPT !.status = "DEAD_LETTER"].status = "DEAD_LETTER"
          /\ Freed(outbox[r], "DELIVERED").status = "DELIVERED"
      BY <1>2, FreedKeeps DEF OutboxRow, OutboxStatus
    <3>2. \/ outbox'[r] = [outbox[r] EXCEPT !.status = "DEAD_LETTER"]
          \/ outbox'[r] = Freed(outbox[r], "DELIVERED")
      BY <1>2, <2>2 DEF TypeOK
    <3> QED
      BY <3>1, <3>2 DEF Queued
  <2> QED
    BY <2>1, <2>2 DEF DispatchPlace, DispatchCancel, Send, db
<1>7. CASE wire' = wire
  BY <1>1, <1>4, <1>5, <1>6, <1>7, ReceivingQuietRow
<1>8. CASE \E id \in {0} \cup link[o] :
             Send(w, r, id) /\ (IsPlace(r) => order[o] = "PENDING_SUBMISSION")
  <2>1. PICK id \in {0} \cup link[o] :
          Send(w, r, id) /\ (IsPlace(r) => order[o] = "PENDING_SUBMISSION")
    BY <1>8
  <2> DEFINE N == {[row |-> r, id |-> id, by |-> w]}
  <2>2. wire' = wire \cup N /\ UNCHANGED <<outbox, recon>>
        /\ sent' = [sent EXCEPT ![r] = IF @ < 2 THEN @ + 1 ELSE @]
    BY <2>1 DEF Send, db
  <2>3. sent'[r] = 1
    BY <1>2, <1>3, <2>2 DEF TypeOK
  <2>4. IsPlace(r) => Accounted(o)'
    BY <1>1, <1>2, <1>3, <2>1, <2>2 DEF LicenceIsCurrent, Accounted
  <2>5. \A q \in N : q.row = r /\ \A p \in N : p = q
    OBVIOUS
  <2> HIDE DEF N
  <2> QED
    BY <1>1, <1>4, <1>5, <1>6, <2>2, <2>3, <2>4, <2>5, ReceivingRow
<1> QED
  BY <1>7, <1>8 DEF DispatchPlace, DispatchCancel

LEMMA ReceivingSettle ==
    ASSUME Inv, Sending, Receiving, NEW w \in Workers, Settle(w)
    PROVE  Receiving'
<1> USE DEF Inv, Sending, Receiving
<1>0. PICK r, o : r = Head(batch[w]) /\ o = OrderOf(r)
  OBVIOUS
<1> USE <1>0
<1>1. Handles(w) /\ pc[w] = "http" /\ UNCHANGED <<wire, accepted, live>>
  BY DEF Handles, Settle, broker
<1>2. r \in Rows /\ o \in Orders /\ outbox[r] \in OutboxRow /\ (IsPlace(r) => r = PlaceRow(o))
  BY <1>1, HandlesHead, PlaceRows
<1>4. /\ \A p \in Orders : link[p] \subseteq 1..accepted[p]
      /\ accepted[o] \in Nat /\ live[o] \subseteq 1..accepted[o]
      /\ IsPlace(r) => accepted[o] <= 1
  <2>1. accepted[o] \in Nat /\ sent[PlaceRow(o)] \in 0..2
    BY <1>2, PlaceRows, OutboxAssumption DEF TypeOK
  <2>2. accepted[o] <= sent[PlaceRow(o)] /\ sent[PlaceRow(o)] <= 1
    BY <1>2, PlaceRows DEF AcceptedOnce, TransmittedAtMostOnce
  <2> QED
    BY <1>2, <2>1, <2>2 DEF AcceptedOnce
<1>5. CASE UNCHANGED <<outbox, recon, link>>
  <2>1. Accounted(o) => Accounted(o)'
    BY <1>5 DEF Accounted
  <2>2. outbox'[r].status \in Queued \cup {"ABSENT", "CLAIMED"} => recon'[r] = "NONE"
    BY <1>2, <1>5 DEF CasesAreClosed
  <2> QED
    BY <1>1, <1>4, <1>5, <2>1, <2>2, ReceivingQuietRow
(* The row gets its outcome and is not on its way any more.                  *)
<1>6. ASSUME NEW s \in {"DELIVERED", "DEAD_LETTER", "RECONCILIATION_REQUIRED"},
             outbox' = [outbox EXCEPT ![r] = Freed(@, s)]
      PROVE  outbox'[r].status \in Queued \cup {"ABSENT", "CLAIMED"} => recon'[r] = "NONE"
  <2>1. outbox'[r] = Freed(outbox[r], s) /\ Freed(outbox[r], s).status = s
    BY <1>2, <1>6, FreedKeeps DEF TypeOK, OutboxStatus
  <2> QED
    BY <2>1 DEF Queued
<1>7. CASE PlaceAcknowledged(w) /\ reply[w].id \notin link[o]
  <2>1. /\ link' = [link EXCEPT ![o] = @ \cup {reply[w].id}]
        /\ outbox' = [outbox EXCEPT ![r] = Freed(@, "DELIVERED")]
        /\ IsPlace(r) /\ reply[w].id \in 1..accepted[o]
    BY <1>7 DEF PlaceAcknowledged, AnswersAreTrue
  <2>2. \A p \in Orders : link[p] \subseteq link'[p] /\ link'[p] \subseteq 1..accepted[p]
    BY <1>2, <1>4, <2>1 DEF TypeOK
  <2>3. live[o] \subseteq link'[o]
    <3>1. reply[w].id = 1 /\ accepted[o] = 1
      BY <1>4, <2>1
    <3>2. live[o] \subseteq {1} /\ 1 \in link'[o]
      BY <1>2, <1>4, <2>1, <3>1 DEF TypeOK
    <3> QED
      BY <3>2
  <2>4. \A q \in wire : q.row # r
    BY <1>2, <1>4, <2>1 DEF WireIsOnly
  <2>5. outbox'[r].status \in Queued \cup {"ABSENT", "CLAIMED"} => recon'[r] = "NONE"
    BY <1>6, <2>1
  <2> QED
    BY <1>1, <2>2, <2>3, <2>4, <2>5, ReceivingQuietRow
<1>8. CASE PlaceRejected(w) /\ CanMove(order[o], "PROVIDER_REJECTED")
  <2>1. /\ UNCHANGED link
        /\ outbox' = [outbox EXCEPT ![r] = Freed(@, "DEAD_LETTER")] \/ UNCHANGED <<outbox, recon>>
        /\ accepted[o] = 0 /\ \A q \in wire : q.row # r
    BY <1>8 DEF PlaceRejected, AnswersAreTrue, db
  <2>2. live[o] = {}
    BY <1>4, <2>1
  <2>3. outbox'[r].status \in Queued \cup {"ABSENT", "CLAIMED"} => recon'[r] = "NONE"
    BY <1>2, <1>6, <2>1 DEF CasesAreClosed
  <2> QED
    BY <1>1, <1>4, <2>1, <2>2, <2>3, ReceivingQuietRow
<1>9. CASE CancelConfirmed(w)
  <2>1. /\ ~IsPlace(r)
        /\ UNCHANGED <<recon, link>>
        /\ outbox' = [outbox EXCEPT ![r] = Freed(@, "DELIVERED")] \/ UNCHANGED outbox
    BY <1>9 DEF CancelConfirmed, AnswersAreTrue, db
  <2>2. outbox'[r].status \in Queued \cup {"ABSENT", "CLAIMED"} => recon'[r] = "NONE"
    BY <1>2, <1>6, <2>1 DEF CasesAreClosed
  <2> QED
    BY <1>1, <1>4, <2>1, <2>2, ReceivingQuietRow
<1>10. CASE Ambiguous(w)
  <2>1. /\ UNCHANGED link
        /\ outbox' = [outbox EXCEPT ![r] = Freed(@, "RECONCILIATION_REQUIRED")]
        /\ recon' = [recon EXCEPT ![r] = Opened(@)]
    BY <1>10 DEF Ambiguous
  <2>2. IsPlace(r) /\ Accounted(o) => Accounted(o)'
    <3>1. recon'[r] = Opened(recon[r])
      BY <1>2, <2>1 DEF TypeOK
    <3>2. outbox[r].status = "CLAIMED" => recon[r] = "NONE"
      BY <1>2 DEF CasesAreClosed
    <3> QED
      BY <1>2, <3>1, <3>2 DEF Accounted, Opened
  <2>3. outbox'[r].status \in Queued \cup {"ABSENT", "CLAIMED"} => recon'[r] = "NONE"
    BY <1>6, <2>1
  <2> QED
    BY <1>1, <1>4, <2>1, <2>2, <2>3, ReceivingQuietRow
<1> QED
  BY <1>5, <1>7, <1>8, <1>9, <1>10 DEF Settle, PlaceAcknowledged, PlaceRejected, db

LEMMA ReceivingStep ==
    ASSUME Inv, OneAtATime, Sending, Receiving, [Next]_vars
    PROVE  Receiving'
<1> USE DEF Inv
<1>1. ASSUME UNCHANGED <<pc, batch, reply, wire, accepted, live, link, recon>>, Calm
      PROVE  Receiving'
  BY <1>1, ReceivingQuiet
<1>2. CASE UNCHANGED vars
  BY <1>1, <1>2 DEF vars, db, workers, broker, Calm
<1>3. ASSUME NEW w \in Workers, WorkerStep(w) PROVE Receiving'
  BY <1>3, ReceivingPoll, ReceivingBatch, ReceivingDispatch, ReceivingSettle DEF WorkerStep
<1>4. ASSUME NEW w \in Workers, Crash(w) PROVE Receiving'
  BY <1>4, ReceivingCrash
<1>5. ASSUME NEW r \in Rows, NEW res \in CaseStatus, Resolve(r, res) PROVE Receiving'
  BY <1>5, ReceivingResolve DEF Sending
<1>6. CASE Broker
  BY <1>6, ReceivingBroker DEF Sending
<1>7. CASE /\ Next
           /\ ~\E w \in Workers : WorkerStep(w) \/ Crash(w)
           /\ ~\E r \in Rows, res \in CaseStatus : Resolve(r, res)
           /\ ~Broker
  <2>1. Calm
    BY <1>7, CalmSteps
  <2>2. UNCHANGED <<pc, batch, reply, wire, accepted, live, link, recon>>
    BY <1>7 DEF Next, SubmitOrder, RequestCancel, LeaseLapses, BackoffElapses, MoveGate,
                workers, broker, db
  <2> QED
    BY <1>1, <2>1, <2>2
<1> QED
  BY <1>2, <1>3, <1>4, <1>5, <1>6, <1>7

-----------------------------------------------------------------------------
LEMMA DeliveryInit == Init => Delivery
  BY InvInit, SendingInit, ReceivingInit DEF Delivery

LEMMA DeliveryStep == Delivery /\ [Next]_vars => Delivery'
<1> SUFFICES ASSUME Delivery, [Next]_vars PROVE Delivery'
  OBVIOUS
<1>1. Inv'
  BY InvStep DEF Delivery
<1>2. ASSUME OneAtATime PROVE Sending' /\ Receiving'
  BY <1>2, SendingStep, ReceivingStep DEF Delivery
<1>3. OneAtATime' => OneAtATime
  BY DEF OneAtATime, OneWorker
<1> QED
  BY <1>1, <1>2, <1>3 DEF Delivery

LEMMA Delivered == Spec => []Delivery
<1> QED
  BY DeliveryInit, DeliveryStep, PTL DEF Spec

(* No row is transmitted twice, whatever crashes, lapses, requeues and late  *)
(* answers come between, as long as no two claims of one poll are out at a   *)
(* time (claim_records, recover_expired_leases).  Without OneAtATime it is   *)
(* false: a worker goes on with a batch whose leases have lapsed.            *)
THEOREM SentAtMostOnce == Spec => [](OneAtATime => TransmittedAtMostOnce)
<1>1. Delivery => (OneAtATime => TransmittedAtMostOnce)
  BY DEF Delivery, Sending
<1> QED
  BY <1>1, Delivered, PTL

-----------------------------------------------------------------------------
(* The statuses of a CANCEL row that is on its way or in reconciliation.     *)
Driving == Queued \cup {"CLAIMED", "RECONCILIATION_REQUIRED"}

(* An active CANCEL row of o stays one.                                      *)
CancelsKept(o) ==
    \A r \in Rows :
        OrderOf(r) = o /\ ~IsPlace(r) /\ outbox[r].status \in Driving
          => outbox'[r].status \in Driving

(* An order waiting in CANCEL_PENDING has an active CANCEL row.               *)
WaitIsDriven == \A o \in Orders : order[o] = "CANCEL_PENDING" => ActiveCancel(o)

LEMMA ActiveCancelKept ==
    ASSUME NEW o, ActiveCancel(o), CancelsKept(o)
    PROVE  ActiveCancel(o)'
  BY DEF ActiveCancel, CancelRows, CancelsKept, Driving, Queued

(* The user, the operator, the broker and time: only a request makes an      *)
(* order wait, and it leaves an active CANCEL row behind.                    *)
LEMMA DrivenCalm ==
    ASSUME Inv, WaitIsDriven, Next,
           ~\E w \in Workers : WorkerStep(w) \/ Crash(w),
           NEW o \in Orders, order'[o] = "CANCEL_PENDING"
    PROVE  ActiveCancel(o)'
<1> USE DEF Inv
<1>1. CancelsKept(o)
  <2>1. Calm
    BY CalmSteps
  <2>2. NewRow.status = "PENDING"
    BY DEF NewRow, NoRow
  <2> QED
    BY <2>1, <2>2 DEF Calm, CancelsKept, Driving, Queued
<1>2. CASE RequestCancel(o)
  <2>1. CASE ActiveCancel(o)
    BY <1>1, <2>1, ActiveCancelKept
  <2>2. CASE ~ActiveCancel(o)
    <3>1. PICK k \in 1..MaxCancels : outbox' = [outbox EXCEPT ![<<o, k>>] = NewRow]
      BY <1>2, <2>2 DEF RequestCancel
    <3>2. <<o, k>> \in Rows /\ OrderOf(<<o, k>>) = o /\ ~IsPlace(<<o, k>>)
      BY OutboxAssumption DEF Rows, OrderOf, IsPlace
    <3>3. outbox'[<<o, k>>].status = "PENDING"
      BY <3>1, <3>2 DEF TypeOK, NewRow, NoRow
    <3> QED
      BY <3>2, <3>3 DEF ActiveCancel, CancelRows, Queued
  <2> QED
    BY <2>1, <2>2
<1>3. CASE ~RequestCancel(o)
  <2>1. order[o] = "CANCEL_PENDING"
    BY <1>3 DEF Next, SubmitOrder, RequestCancel, LeaseLapses, BackoffElapses, Resolve,
                MoveGate, Broker, db, TypeOK
  <2> QED
    BY <1>1, <2>1, ActiveCancelKept DEF WaitIsDriven
<1> QED
  BY <1>2, <1>3

(* A poll requeues, fails closed or claims: an active row stays active.      *)
LEMMA DrivenPoll ==
    ASSUME Inv, WaitIsDriven, NEW w \in Workers, Poll(w),
           NEW o \in Orders, order'[o] = "CANCEL_PENDING"
    PROVE  ActiveCancel(o)'
<1> USE DEF Inv
<1> DEFINE Row(r) == IF r \in LapsedRows THEN Recovered(outbox[r]) ELSE outbox[r]
<1>1. order[o] = "CANCEL_PENDING"
  BY DEF Poll
<1>2. \A r \in Rows : outbox'[r] \in {Row(r), Claimed(Row(r), w)}
  BY DEF Poll
<1>3. ASSUME NEW r \in Rows, outbox[r].status \in Driving
      PROVE  outbox'[r].status \in Driving
  <2>1. outbox[r] \in OutboxRow
    BY DEF TypeOK
  <2>2. Recovered(outbox[r]) \in OutboxRow /\ Recovered(outbox[r]).status \in Driving
    BY <2>1, RecoveredType, FreedKeeps DEF Recovered, OutboxStatus, Driving, Queued
  <2>3. Row(r) \in OutboxRow /\ Row(r).status \in Driving
    BY <1>3, <2>1, <2>2
  <2>4. Claimed(Row(r), w).status = "CLAIMED"
    BY <2>3 DEF Claimed, OutboxRow
  <2> HIDE DEF Row
  <2> QED
    BY <1>2, <2>3, <2>4 DEF Driving
<1> QED
  BY <1>1, <1>3, ActiveCancelKept DEF CancelsKept, WaitIsDriven

(* A worker gives up a CANCEL row only together with the wait of its order.  *)
LEMMA DrivenHandles ==
    ASSUME Inv, WaitIsDriven, NEW w \in Workers, Handles(w),
           NEW o \in Orders, order'[o] = "CANCEL_PENDING"
    PROVE  ActiveCancel(o)'
<1> USE DEF Inv
<1>0. PICK r : r = Head(batch[w])
  OBVIOUS
<1> USE <1>0
<1>1. /\ r \in Rows /\ OrderOf(r) \in Orders /\ outbox[r] \in OutboxRow
      /\ \A q \in Rows : q # r => outbox'[q] = outbox[q]
  BY HandlesHead
<1>2. order[o] = "CANCEL_PENDING"
  <2>1. \/ UNCHANGED order
        \/ \E s \in OrderStatus \ {"CANCEL_PENDING"} :
              order' = [order EXCEPT ![OrderOf(r)] = s]
        \/ GateBlocked(w) /\ order' = [order EXCEPT ![OrderOf(r)] = order[OrderOf(r)]]
    <3>1. CASE GateBlocked(w)
      BY <1>1, <3>1 DEF GateBlocked, StatusAfterDeadLetter, OrderStatus
    <3>2. CASE CommitMarker(w) \/ DispatchPlace(w) \/ DispatchCancel(w)
      BY <3>2 DEF CommitMarker, DispatchPlace, DispatchCancel, Send, db, OrderStatus
    <3>3. CASE Settle(w)
      BY <1>1, <3>3 DEF Settle, PlaceAcknowledged, PlaceRejected, CancelConfirmed, Ambiguous,
                        db, OrderStatus, TypeOK
    <3> QED
      BY <3>1, <3>2, <3>3 DEF Handles
  <2> QED
    BY <1>1, <2>1 DEF TypeOK
<1>3. OrderOf(r) = o /\ ~IsPlace(r) /\ outbox[r].status \in Driving
        => outbox'[r].status \in Driving
  <2> SUFFICES ASSUME OrderOf(r) = o, ~IsPlace(r), outbox[r].status \in Driving
               PROVE  outbox'[r].status \in Driving
    OBVIOUS
  <2>1. CASE GateBlocked(w)
    <3>1. ~(outbox[r].attempts >= MaxAttempts)
      BY <1>2, <2>1 DEF GateBlocked, StatusAfterDeadLetter, TypeOK
    <3>2. outbox' = [outbox EXCEPT ![r] = [Freed(@, "RETRY_SCHEDULED") EXCEPT !.due = FALSE]]
      BY <2>1, <3>1 DEF GateBlocked
    <3>3. Freed(outbox[r], "RETRY_SCHEDULED") \in OutboxRow
          /\ Freed(outbox[r], "RETRY_SCHEDULED").status = "RETRY_SCHEDULED"
      BY <1>1, FreedType, FreedKeeps DEF OutboxStatus, Queued
    <3>4. outbox'[r].status = "RETRY_SCHEDULED"
      BY <1>1, <3>2, <3>3 DEF TypeOK, OutboxRow
    <3> QED
      BY <3>4 DEF Driving, Queued
  <2>2. CASE CommitMarker(w)
    BY <1>1, <2>2 DEF CommitMarker, TypeOK, OutboxRow
  <2>3. CASE DispatchPlace(w) \/ DispatchCancel(w)
    <3>1. UNCHANGED outbox
      BY <1>1, <1>2, <2>3 DEF DispatchPlace, DispatchCancel, Send, db, TypeOK
    <3> QED
      BY <3>1
  <2>4. CASE Settle(w)
    <3>1. \/ UNCHANGED outbox
          \/ outbox' = [outbox EXCEPT ![r] = Freed(@, "RECONCILIATION_REQUIRED")]
      BY <1>1, <1>2, <2>4 DEF Settle, PlaceAcknowledged, PlaceRejected, CancelConfirmed,
                              Ambiguous, db, TypeOK
    <3>2. Freed(outbox[r], "RECONCILIATION_REQUIRED").status = "RECONCILIATION_REQUIRED"
      BY <1>1, FreedKeeps DEF OutboxStatus
    <3> QED
      BY <1>1, <3>1, <3>2 DEF TypeOK, Driving
  <2> QED
    BY <2>1, <2>2, <2>3, <2>4 DEF Handles
<1>4. CancelsKept(o)
  BY <1>1, <1>3 DEF CancelsKept
<1> QED
  BY <1>2, <1>4, ActiveCancelKept DEF WaitIsDriven

LEMMA DrivenStep ==
    ASSUME Inv, WaitIsDriven, [Next]_vars
    PROVE  WaitIsDriven'
<1> USE DEF Inv
<1> SUFFICES ASSUME NEW o \in Orders, order'[o] = "CANCEL_PENDING"
             PROVE  ActiveCancel(o)'
  BY DEF WaitIsDriven
<1>1. ASSUME NEW w \in Workers, WorkerStep(w) PROVE ActiveCancel(o)'
  BY <1>1, DrivenPoll, DrivenHandles DEF WorkerStep, Handles
<1>2. ASSUME UNCHANGED <<order, outbox>> PROVE ActiveCancel(o)'
  <2>1. CancelsKept(o) /\ ActiveCancel(o)
    BY <1>2 DEF CancelsKept, WaitIsDriven
  <2> QED
    BY <2>1, ActiveCancelKept
<1>3. /\ UNCHANGED vars => UNCHANGED <<order, outbox>>
      /\ \A w \in Workers : Crash(w) => UNCHANGED <<order, outbox>>
  BY DEF vars, Crash, db
<1> QED
  BY <1>1, <1>2, <1>3, DrivenCalm

(* An order that waits in CANCEL_PENDING always has a CANCEL row queued,     *)
(* claimed or in reconciliation: whatever the workers, crashes, lapses and   *)
(* closed gates do, a CANCEL row is given up only together with the wait of  *)
(* its order (_cancel_order_internal, process_record, _handle_cancel_action).*)
LEMMA WaitsAreDriven == Spec => []WaitIsDriven
<1>1. Init => Inv /\ WaitIsDriven
  BY InvInit DEF Init, WaitIsDriven
<1>2. (Inv /\ WaitIsDriven) /\ [Next]_vars => (Inv /\ WaitIsDriven)'
  BY InvStep, DrivenStep
<1> QED
  BY <1>1, <1>2, PTL DEF Spec

-----------------------------------------------------------------------------
(* A confirmed cancel names a placement of its order that the broker had     *)
(* accepted and that is not alive any more.                                  *)
ConfirmedIsDead ==
    \A w \in Workers : reply[w].kind = "cancelled" =>
        LET o == OrderOf(Head(batch[w]))
        IN reply[w].id \in (1..accepted[o]) \ live[o]

Cancelling == ConfirmedIsDead /\ CancelledIsDead

(* The broker accepts one placement of an order at most.                     *)
LEMMA OnePlacement ==
    ASSUME Inv, Sending, Receiving, NEW o \in Orders
    PROVE  /\ accepted[o] \in {0, 1}
           /\ live[o] \subseteq 1..accepted[o] /\ link[o] \subseteq 1..accepted[o]
<1>1. accepted[o] \in Nat /\ sent[PlaceRow(o)] \in 0..2
  BY PlaceRows, OutboxAssumption DEF Inv, TypeOK
<1>2. accepted[o] <= sent[PlaceRow(o)] /\ sent[PlaceRow(o)] <= 1
  BY PlaceRows DEF Sending, Receiving, AcceptedOnce, TransmittedAtMostOnce
<1> QED
  BY <1>1, <1>2 DEF Receiving, AcceptedOnce

(* The broker accepts, cancels or forgets a request: what it accepts is the  *)
(* first placement of its order, what it cancels is not alive any more.      *)
LEMMA BrokerSteps ==
    ASSUME Inv, Sending, Receiving, Broker
    PROVE  /\ UNCHANGED <<order, link, batch>>
           /\ \A o \in Orders :
                \/ accepted'[o] = accepted[o] /\ live'[o] \subseteq live[o]
                \/ accepted[o] = 0
           /\ \A w \in Workers :
                \/ reply'[w] = reply[w]
                \/ reply'[w].kind = "cancelled" =>
                     LET o == OrderOf(Head(batch[w]))
                     IN reply'[w].id \in (1..accepted'[o]) \ live'[o]
<1> USE DEF Inv, Receiving
<1>1. PICK q \in wire : BrokerPlaces(q) \/ BrokerCancels(q) \/ RequestLost(q)
  BY DEF Broker
<1> DEFINE p == OrderOf(q.row)
<1>2. q \in Requests /\ q.row \in Rows /\ p \in Orders /\ q.by \in Workers
  BY PlaceRows DEF TypeOK, Requests
<1>3. UNCHANGED <<order, link, batch>>
  BY DEF Broker, db
<1>4. CASE BrokerPlaces(q)
  <2>1. accepted[p] = 0
    BY <1>4 DEF BrokerPlaces, WireIsOnly
  <2>2. \A o \in Orders : o # p => accepted'[o] = accepted[o] /\ live'[o] = live[o]
    BY <1>4 DEF BrokerPlaces, TypeOK
  <2>3. \A w \in Workers : reply'[w] = reply[w] \/ reply'[w].kind \in {"placed", "rejected"}
    BY <1>4 DEF BrokerPlaces, Answer, TypeOK
  <2> HIDE DEF p
  <2> QED
    BY <1>3, <2>1, <2>2, <2>3
<1>5. CASE BrokerCancels(q)
  <2>1. UNCHANGED accepted /\ live' = [live EXCEPT ![p] = @ \ {q.id}] /\ q.id \in live[p]
    BY <1>5 DEF BrokerCancels
  <2>2. q.id \in (1..accepted'[p]) \ live'[p]
    BY <1>2, <2>1 DEF AcceptedOnce, TypeOK
  <2>3. \A w \in Workers :
          \/ reply'[w] = reply[w]
          \/ Head(batch[w]) = q.row /\ reply'[w] = [kind |-> "cancelled", id |-> q.id]
    BY <1>5 DEF BrokerCancels, Answer, TypeOK
  <2>4. \A o \in Orders : accepted'[o] = accepted[o] /\ live'[o] \subseteq live[o]
    BY <1>2, <2>1 DEF TypeOK
  <2> QED
    BY <1>3, <2>2, <2>3, <2>4
<1>6. CASE RequestLost(q)
  BY <1>3, <1>6 DEF RequestLost
<1> QED
  BY <1>1, <1>4, <1>5, <1>6

(* An answer is kept with the record it answers, or dropped with it.         *)
LEMMA AnswersStay ==
    ASSUME Inv, Sending, Receiving, Next, ~Broker, NEW w \in Workers, reply'[w] # NoReply
    PROVE  /\ reply'[w] = reply[w] /\ batch'[w] = batch[w]
           /\ UNCHANGED <<accepted, live>>
<1> USE DEF Inv
<1>1. UNCHANGED <<accepted, live>>
  BY DEF Next, WorkerStep, SubmitOrder, RequestCancel, Poll, GateBlocked, CommitMarker,
         DispatchPlace, DispatchCancel, Settle, Crash, LeaseLapses, BackoffElapses, Resolve,
         MoveGate, broker
<1>2. ASSUME NEW v \in Workers, Handles(v) \/ Crash(v)
      PROVE  reply'[w] = reply[w] /\ batch'[w] = batch[w]
  <2>1. CASE v # w
    BY <1>2, <2>1, HandlesHead DEF Crash, Abandon, TypeOK
  <2>2. CASE v = w
    <3>1. ~Advance(w) /\ ~Abandon(w)
      BY DEF Advance, Abandon, TypeOK
    <3> QED
      BY <1>2, <2>2, <3>1, HandlesHead DEF Crash
  <2> QED
    BY <2>1, <2>2
<1>3. ASSUME NEW v \in Workers, Poll(v)
      PROVE  reply'[w] = reply[w] /\ batch'[w] = batch[w]
  <2>1. reply'[w] = reply[w]
    BY <1>3 DEF Poll
  <2>2. pc[w] = "http"
    BY <2>1 DEF Receiving, AnswersAreTrue
  <2>3. v # w
    BY <1>3, <2>2 DEF Poll
  <2> QED
    BY <1>3, <2>1, <2>3, PollClaims DEF Sending
<1>4. CASE ~\E v \in Workers : WorkerStep(v) \/ Crash(v)
  BY <1>1, <1>4 DEF Next, SubmitOrder, RequestCancel, LeaseLapses, BackoffElapses, Resolve,
                    MoveGate, workers
<1> QED
  BY <1>1, <1>2, <1>3, <1>4 DEF WorkerStep, Handles

LEMMA ConfirmedStep ==
    ASSUME Inv, Sending, Receiving, ConfirmedIsDead, Next
    PROVE  ConfirmedIsDead'
<1> SUFFICES ASSUME NEW w \in Workers, reply'[w].kind = "cancelled"
             PROVE  LET o == OrderOf(Head(batch'[w]))
                    IN reply'[w].id \in (1..accepted'[o]) \ live'[o]
  BY DEF ConfirmedIsDead
<1>1. reply'[w] # NoReply
  BY DEF NoReply
<1>2. CASE ~Broker
  BY <1>1, <1>2, AnswersStay DEF ConfirmedIsDead
<1>3. CASE Broker /\ reply'[w] = reply[w]
  <2>0. PICK o : o = OrderOf(Head(batch[w]))
    OBVIOUS
  <2>1. batch' = batch /\ reply[w].id \in (1..accepted[o]) \ live[o]
    BY <1>3, <2>0, BrokerSteps DEF ConfirmedIsDead
  <2>2. pc[w] = "http"
    BY <1>1, <1>3 DEF Receiving, AnswersAreTrue
  <2>3. o \in Orders
    BY <2>0, <2>2, CurrentRow DEF Inv
  <2>4. accepted[o] # 0
    BY <2>1
  <2> QED
    BY <1>3, <2>0, <2>1, <2>3, <2>4, BrokerSteps
<1>4. CASE Broker /\ reply'[w] # reply[w]
  BY <1>4, BrokerSteps
<1> QED
  BY <1>2, <1>3, <1>4

(* A worker cancels an order that has no provider order, or whose provider   *)
(* order it knows to be dead; a placement it acknowledges is not cancelled.  *)
LEMMA HandlesCancels ==
    ASSUME Inv, Sending, Receiving, Cancelling, NEW w \in Workers, Handles(w),
           NEW o \in Orders, order'[o] = "CANCELLED"
    PROVE  live[o] \cap link'[o] = {}
<1> USE DEF Inv
<1>0. PICK r, p : r = Head(batch[w]) /\ p = OrderOf(r)
  OBVIOUS
<1> USE <1>0
<1>1. r \in Rows /\ p \in Orders
  BY HandlesHead
<1>2. CASE o # p
  <2>1. order'[o] = order[o] /\ link'[o] = link[o]
    <3>1. CASE GateBlocked(w) \/ CommitMarker(w)
      BY <1>2, <3>1 DEF GateBlocked, CommitMarker, TypeOK
    <3>2. CASE DispatchPlace(w) \/ DispatchCancel(w)
      BY <1>2, <3>2 DEF DispatchPlace, DispatchCancel, Send, db, TypeOK
    <3>3. CASE Settle(w)
      BY <1>2, <3>3 DEF Settle, PlaceAcknowledged, PlaceRejected, CancelConfirmed, Ambiguous,
                        db, TypeOK
    <3> QED
      BY <3>1, <3>2, <3>3 DEF Handles
  <2> QED
    BY <2>1 DEF Cancelling, CancelledIsDead
<1>3. CASE o = p
  <2>1. CASE order[o] = "CANCELLED" /\ link'[o] = link[o]
    BY <2>1 DEF Cancelling, CancelledIsDead
  <2>2. CASE GateBlocked(w)
    <3>1. order[o] = "CANCELLED" /\ link'[o] = link[o]
      BY <1>3, <2>2 DEF GateBlocked, StatusAfterDeadLetter, TypeOK
    <3> QED
      BY <2>1, <3>1
  <2>3. CASE CommitMarker(w) \/ DispatchPlace(w)
    BY <2>1, <2>3 DEF CommitMarker, DispatchPlace, Send, db
  <2>4. CASE DispatchCancel(w)
    <3>1. link'[o] = {} \/ (order[o] = "CANCELLED" /\ link'[o] = link[o])
      BY <1>3, <2>4 DEF DispatchCancel, Send, db
    <3> QED
      BY <2>1, <3>1
  <2>5. CASE Settle(w)
    <3>1. \/ order[o] = "CANCELLED" /\ link'[o] = link[o]
          \/ reply[w].kind = "cancelled" /\ link' = link
      BY <1>3, <2>5 DEF Settle, PlaceAcknowledged, PlaceRejected, CancelConfirmed, Ambiguous,
                        db, TypeOK, CanMove, NextStates
    <3>2. ASSUME reply[w].kind = "cancelled"
          PROVE  live[o] = {}
      <4>1. reply[w].id \in (1..accepted[o]) \ live[o]
        BY <1>3, <3>2 DEF Cancelling, ConfirmedIsDead
      <4>2. accepted[o] = 1 /\ live[o] \subseteq 1..1
        BY <4>1, OnePlacement
      <4>3. 1..1 = {1}
        OBVIOUS
      <4> QED
        BY <4>1, <4>2, <4>3
    <3> QED
      BY <2>1, <3>1, <3>2
  <2> QED
    BY <2>2, <2>3, <2>4, <2>5 DEF Handles
<1> QED
  BY <1>2, <1>3

LEMMA CancelledStep ==
    ASSUME Inv, Sending, Receiving, Cancelling, Next
    PROVE  CancelledIsDead'
<1> USE DEF Inv
<1> SUFFICES ASSUME NEW o \in Orders, order'[o] = "CANCELLED"
             PROVE  live'[o] \cap link'[o] = {}
  BY DEF CancelledIsDead
<1>1. ASSUME order[o] = "CANCELLED", UNCHANGED <<live, link>>
      PROVE  live'[o] \cap link'[o] = {}
  BY <1>1 DEF Cancelling, CancelledIsDead
<1>2. ASSUME NEW w \in Workers, Handles(w) PROVE live'[o] \cap link'[o] = {}
  <2>1. UNCHANGED live
    BY <1>2 DEF Handles, GateBlocked, CommitMarker, DispatchPlace, DispatchCancel, Settle, broker
  <2> QED
    BY <1>2, <2>1, HandlesCancels
<1>3. ASSUME NEW w \in Workers, Poll(w) \/ Crash(w) PROVE live'[o] \cap link'[o] = {}
  BY <1>1, <1>3 DEF Poll, Crash, broker, db
<1>4. ASSUME NEW r \in Rows, NEW res \in CaseStatus, Resolve(r, res)
      PROVE  live'[o] \cap link'[o] = {}
  <2>1. UNCHANGED live /\ OrderOf(r) \in Orders
    BY <1>4, PlaceRows DEF Resolve, broker
  <2>2. CASE o = OrderOf(r)
    <3>1. res = "CANCEL_CONFIRMED"
      BY <1>4, <2>1, <2>2 DEF Resolve, TypeOK
    <3>2. live[o] = {}
      BY <1>4, <2>2, <3>1 DEF Resolve, BrokerAgrees
    <3> QED
      BY <2>1, <3>2
  <2>3. CASE o # OrderOf(r)
    <3>1. order[o] = "CANCELLED" /\ link'[o] = link[o]
      BY <1>4, <2>3 DEF Resolve, TypeOK
    <3> QED
      BY <2>1, <3>1 DEF Cancelling, CancelledIsDead
  <2> QED
    BY <2>2, <2>3
<1>5. CASE Broker
  <2>1. order[o] = "CANCELLED" /\ link' = link
    BY <1>5, BrokerSteps
  <2>2. CASE live'[o] \subseteq live[o]
    BY <2>1, <2>2 DEF Cancelling, CancelledIsDead
  <2>3. CASE accepted[o] = 0
    <3>1. 1..0 = {}
      OBVIOUS
    <3> QED
      BY <2>1, <2>3, <3>1, OnePlacement
  <2> QED
    BY <1>5, <2>2, <2>3, BrokerSteps
<1>6. CASE /\ Next /\ ~Broker
           /\ ~\E w \in Workers : WorkerStep(w) \/ Crash(w)
           /\ ~\E r \in Rows, res \in CaseStatus : Resolve(r, res)
  <2>1. UNCHANGED <<live, link>> /\ order[o] = "CANCELLED"
    BY <1>6 DEF Next, SubmitOrder, RequestCancel, LeaseLapses, BackoffElapses, MoveGate,
                broker, db, TypeOK
  <2> QED
    BY <1>1, <2>1
<1> QED
  BY <1>2, <1>3, <1>4, <1>5, <1>6 DEF WorkerStep, Handles

LEMMA CancellingStep ==
    ASSUME Inv, Sending, Receiving, Cancelling, [Next]_vars
    PROVE  Cancelling'
<1>1. CASE UNCHANGED vars
  <2>1. UNCHANGED <<order, link, batch, reply, accepted, live>>
    BY <1>1 DEF vars, db, workers, broker
  <2> QED
    BY <2>1 DEF Cancelling, ConfirmedIsDead, CancelledIsDead
<1>2. CASE Next
  BY <1>2, ConfirmedStep, CancelledStep DEF Cancelling
<1> QED
  BY <1>1, <1>2

LEMMA CancelsKill == Spec => [](OneAtATime => Cancelling)
<1>1. Init => Delivery /\ (OneAtATime => Cancelling)
  <2>1. Init => Cancelling
    BY DEF Init, Cancelling, ConfirmedIsDead, CancelledIsDead, NoReply
  <2> QED
    BY <2>1, DeliveryInit
<1>2. (Delivery /\ (OneAtATime => Cancelling)) /\ [Next]_vars
        => (Delivery /\ (OneAtATime => Cancelling))'
  <2> SUFFICES ASSUME Delivery, OneAtATime => Cancelling, [Next]_vars, OneAtATime'
               PROVE  Cancelling'
    BY DeliveryStep
  <2>1. OneAtATime
    BY DEF OneAtATime, OneWorker
  <2> QED
    BY <2>1, CancellingStep DEF Delivery
<1> QED
  BY <1>1, <1>2, PTL DEF Spec

(* Every order alive at the broker is linked here, on its way or in an open  *)
(* case, and a cancelled order is not alive there under an id it is linked   *)
(* to: no interleaving of a late answer, a timeout, a crash, a local cancel  *)
(* and the operator's resolution loses or buries what trades there           *)
(* (_handle_place_action, _handle_cancel_action, resolve_reconciliation).    *)
THEOREM NothingForgotten == Spec => [](OneAtATime => AcceptedIsAccounted)
<1>1. Delivery /\ (OneAtATime => Cancelling) => (OneAtATime => AcceptedIsAccounted)
  BY DEF Delivery, Receiving, Cancelling, AcceptedIsAccounted
<1> QED
  BY <1>1, CancelsKill, Delivered, PTL

-----------------------------------------------------------------------------
(* The records of a batch are claimed until the worker is done with them:    *)
(* nobody polls meanwhile.                                                   *)
BatchIsClaimed ==
    \A w \in Workers : \A i \in 1..Len(batch[w]) : outbox[batch[w][i]].status = "CLAIMED"

(* An order whose placement is being answered still waits for the answer.    *)
PlacementPends ==
    \A w \in Workers : pc[w] = "http" /\ IsPlace(Head(batch[w])) =>
        order[OrderOf(Head(batch[w]))] \in {"PENDING_SUBMISSION", "CANCEL_PENDING"}

(* The reservation of an order is its status.                                *)
CashIsCurrent ==
    \A o \in BuyOrders :
        cash[o] = CASE order[o] = "CREATED" -> "NONE"
                    [] order[o] \in Terminal -> "RELEASED"
                    [] OTHER -> "HELD"

(* An order has one active CANCEL row at most.                               *)
OneActive ==
    \A r, q \in Rows :
        /\ OrderOf(r) = OrderOf(q) /\ ~IsPlace(r) /\ ~IsPlace(q)
        /\ outbox[r].status \in Driving /\ outbox[q].status \in Driving
        => r = q

(* An order that nobody has asked to cancel waits for its placement as long  *)
(* as that can be sent, and is final once it is dead.                        *)
Decides(o) ==
    /\ outbox[PlaceRow(o)].status \in Queued \cup {"CLAIMED"} => order[o] = "PENDING_SUBMISSION"
    /\ outbox[PlaceRow(o)].status = "DEAD_LETTER" => order[o] \in Terminal
PlacementDecides == \A o \in Orders : CancelRows(o) = {} => Decides(o)

Outcomes ==
    /\ BatchIsClaimed
    /\ PlacementPends
    /\ CashIsCurrent
    /\ OneActive
    /\ PlacementDecides
    /\ RowTellsOutcome

-----------------------------------------------------------------------------
(* What one step may do to order o and its cash: nothing, or one move of the *)
(* table, which reserves at submission and releases when it is final.        *)
Moves(o) ==
    \/ order'[o] = order[o] /\ cash'[o] = cash[o]
    \/ /\ CanMove(order[o], order'[o])
       /\ \/ /\ order[o] = "CREATED" /\ order'[o] = "PENDING_SUBMISSION"
             /\ cash'[o] = IF o \in BuyOrders THEN "HELD" ELSE cash[o]
          \/ /\ order[o] # "CREATED" /\ order'[o] \in Terminal
             /\ cash'[o] = IF cash[o] = "HELD" THEN "RELEASED" ELSE cash[o]
          \/ /\ order[o] # "CREATED" /\ order'[o] \notin Terminal
             /\ cash'[o] = cash[o]

LEMMA MovesCalm ==
    ASSUME Inv, Next, ~\E w \in Workers : WorkerStep(w) \/ Crash(w), NEW o \in Orders
    PROVE  Moves(o)
<1> USE DEF Inv
<1>1. ASSUME NEW p \in Orders, SubmitOrder(p) PROVE Moves(o)
  <2>1. CASE p = o
    <3>1. CanMove("CREATED", "PENDING_SUBMISSION")
      BY DEF CanMove, NextStates
    <3>2. /\ order[o] = "CREATED" /\ order'[o] = "PENDING_SUBMISSION"
          /\ cash'[o] = IF o \in BuyOrders THEN "HELD" ELSE cash[o]
      BY <1>1, <2>1 DEF SubmitOrder, TypeOK
    <3> QED
      BY <3>1, <3>2 DEF Moves
  <2>2. CASE p # o
    BY <1>1, <2>2 DEF SubmitOrder, TypeOK, Moves
  <2> QED
    BY <2>1, <2>2
<1>2. ASSUME NEW p \in Orders, RequestCancel(p) PROVE Moves(o)
  <2>1. CASE p = o
    <3>1. /\ CanMove(order[o], "CANCEL_PENDING") /\ order'[o] = "CANCEL_PENDING"
          /\ cash'[o] = cash[o]
      BY <1>2, <2>1 DEF RequestCancel, TypeOK
    <3>2. order[o] # "CREATED"
      BY <3>1 DEF CanMove, NextStates
    <3> QED
      BY <3>1, <3>2 DEF Moves, Terminal
  <2>2. CASE p # o
    BY <1>2, <2>2 DEF RequestCancel, TypeOK, Moves
  <2> QED
    BY <2>1, <2>2
<1>3. ASSUME NEW r \in Rows, NEW res \in CaseStatus, Resolve(r, res) PROVE Moves(o)
  <2>1. OrderOf(r) \in Orders
    BY PlaceRows
  <2>2. CASE OrderOf(r) = o
    <3>1. /\ order[o] = "RECONCILIATION_REQUIRED"
          /\ order'[o] = CASE res = "PLACE_REJECTED" -> "PROVIDER_REJECTED"
                           [] res = "CANCEL_CONFIRMED" -> "CANCELLED"
                           [] OTHER -> "ACKNOWLEDGED"
          /\ cash' = IF res \in {"PLACE_REJECTED", "CANCEL_CONFIRMED"} THEN Released(o) ELSE cash
      BY <1>3, <2>2 DEF Resolve, TypeOK
    <3>2. CanMove(order[o], order'[o])
      BY <3>1 DEF CanMove, NextStates
    <3>3. CASE res \in {"PLACE_REJECTED", "CANCEL_CONFIRMED"}
      <4>1. order'[o] \in Terminal
        BY <3>1, <3>3 DEF Terminal
      <4>2. cash'[o] = IF cash[o] = "HELD" THEN "RELEASED" ELSE cash[o]
        BY <3>1, <3>3 DEF Released, TypeOK
      <4> QED
        BY <3>1, <3>2, <4>1, <4>2 DEF Moves
    <3>4. CASE res \notin {"PLACE_REJECTED", "CANCEL_CONFIRMED"}
      <4>1. order'[o] = "ACKNOWLEDGED" /\ cash' = cash
        BY <3>1, <3>4
      <4> QED
        BY <3>1, <3>2, <4>1 DEF Moves, Terminal
    <3> QED
      BY <3>3, <3>4
  <2>3. CASE OrderOf(r) # o
    BY <1>3, <2>1, <2>3 DEF Resolve, Released, TypeOK, Moves
  <2> QED
    BY <2>2, <2>3
<1>4. ASSUME UNCHANGED <<order, cash>> PROVE Moves(o)
  BY <1>4 DEF Moves
<1>5. /\ \A r \in Rows : LeaseLapses(r) \/ BackoffElapses(r) => UNCHANGED <<order, cash>>
      /\ \A g \in VaryingGates : MoveGate(g) => UNCHANGED <<order, cash>>
      /\ Broker => UNCHANGED <<order, cash>>
  BY DEF LeaseLapses, BackoffElapses, MoveGate, Broker, db
<1> QED
  BY <1>1, <1>2, <1>3, <1>4, <1>5 DEF Next

(* A worker validates every move, except that of a placement it gets         *)
(* acknowledged: there the order has waited for the answer.                  *)
LEMMA MovesHandles ==
    ASSUME Inv, AnswersAreTrue, PlacementPends, NEW w \in Workers, Handles(w), NEW o \in Orders
    PROVE  Moves(o)
<1> USE DEF Inv
<1>0. PICK r, p : r = Head(batch[w]) /\ p = OrderOf(r)
  OBVIOUS
<1> USE <1>0
<1>1. r \in Rows /\ p \in Orders
  BY HandlesHead
(* Three shapes cover the handlers: they leave the order alone, they end it  *)
(* and release its cash, or they move it on.                                 *)
<1>2. ASSUME UNCHANGED <<order, cash>> PROVE Moves(o)
  BY <1>2 DEF Moves
<1>3. ASSUME NEW s \in Terminal, CanMove(order[p], s), order[p] # "CREATED",
             order' = [order EXCEPT ![p] = s], cash' = Released(p)
      PROVE  Moves(o)
  BY <1>1, <1>3 DEF Moves, Released, TypeOK
<1>4. ASSUME NEW s, s \notin Terminal, CanMove(order[p], s) \/ s = order[p],
             order[p] # "CREATED" \/ s = order[p],
             order' = [order EXCEPT ![p] = s], UNCHANGED cash
      PROVE  Moves(o)
  BY <1>1, <1>4 DEF Moves, TypeOK
<1>5. {"CANCELLED", "PROVIDER_REJECTED"} \subseteq Terminal
      /\ {"ACKNOWLEDGED", "RECONCILIATION_REQUIRED"} \cap Terminal = {}
  BY DEF Terminal
<1>6. \A t \in {"CANCELLED", "PROVIDER_REJECTED", "RECONCILIATION_REQUIRED"} :
        CanMove(order[p], t) => order[p] # "CREATED"
  BY DEF CanMove, NextStates
<1>7. CASE GateBlocked(w)
  <2> DEFINE dead == outbox[r].attempts >= MaxAttempts
  <2>1. CASE ~dead
    <3>1. order' = [order EXCEPT ![p] = order[p]] /\ cash' = cash
      BY <1>7, <2>1 DEF GateBlocked
    <3> QED
      BY <1>1, <3>1 DEF Moves, TypeOK
  <2>2. CASE dead /\ IsPlace(r) /\ order[p] = "PENDING_SUBMISSION"
    <3>1. order' = [order EXCEPT ![p] = "PROVIDER_REJECTED"] /\ cash' = Released(p)
      BY <1>7, <2>2 DEF GateBlocked, StatusAfterDeadLetter
    <3>2. CanMove(order[p], "PROVIDER_REJECTED")
      BY <2>2 DEF CanMove, NextStates
    <3> QED
      BY <1>3, <1>5, <2>2, <3>1, <3>2
  <2>3. CASE dead /\ ~IsPlace(r) /\ order[p] = "CANCEL_PENDING"
    <3>1. order' = [order EXCEPT ![p] = "ACKNOWLEDGED"] /\ cash' = cash
      BY <1>7, <2>3 DEF GateBlocked, StatusAfterDeadLetter
    <3>2. CanMove(order[p], "ACKNOWLEDGED")
      BY <2>3 DEF CanMove, NextStates
    <3> QED
      BY <1>4, <1>5, <2>3, <3>1, <3>2
  <2>4. CASE /\ dead
             /\ ~(IsPlace(r) /\ order[p] = "PENDING_SUBMISSION")
             /\ ~(~IsPlace(r) /\ order[p] = "CANCEL_PENDING")
    <3>1. order' = [order EXCEPT ![p] = order[p]] /\ cash' = cash
      BY <1>7, <2>4 DEF GateBlocked, StatusAfterDeadLetter
    <3> QED
      BY <1>1, <3>1 DEF Moves, TypeOK
  <2> QED
    BY <2>1, <2>2, <2>3, <2>4
<1>8. CASE CommitMarker(w) \/ DispatchPlace(w)
  BY <1>2, <1>8 DEF CommitMarker, DispatchPlace, Send, db
<1>9. CASE DispatchCancel(w)
  <2>1. \/ UNCHANGED <<order, cash>>
        \/ /\ CanMove(order[p], "CANCELLED")
           /\ order' = [order EXCEPT ![p] = "CANCELLED"] /\ cash' = Released(p)
    BY <1>9 DEF DispatchCancel, Send, db
  <2> QED
    BY <1>2, <1>3, <1>5, <1>6, <2>1
<1>10. CASE Settle(w)
  <2>1. CASE PlaceAcknowledged(w)
    <3>1. order[p] \in {"PENDING_SUBMISSION", "CANCEL_PENDING"}
      BY <1>10, <2>1 DEF Settle, PlaceAcknowledged, AnswersAreTrue, PlacementPends
    <3>2. CanMove(order[p], "ACKNOWLEDGED")
      BY <3>1 DEF CanMove, NextStates
    <3>3. \/ UNCHANGED <<order, cash>>
          \/ order' = [order EXCEPT ![p] = "ACKNOWLEDGED"] /\ cash' = cash
      BY <2>1 DEF PlaceAcknowledged, db
    <3> QED
      BY <1>2, <1>4, <1>5, <3>1, <3>2, <3>3
  <2>2. CASE PlaceRejected(w)
    BY <1>2, <1>3, <1>5, <1>6, <2>2 DEF PlaceRejected, db
  <2>3. CASE CancelConfirmed(w)
    BY <1>2, <1>3, <1>5, <1>6, <2>3 DEF CancelConfirmed, db
  <2>4. CASE Ambiguous(w)
    <3>1. CASE CanMove(order[p], "RECONCILIATION_REQUIRED")
      <4>1. order' = [order EXCEPT ![p] = "RECONCILIATION_REQUIRED"] /\ cash' = cash
        BY <1>1, <2>4, <3>1 DEF Ambiguous, TypeOK
      <4> QED
        BY <1>4, <1>5, <1>6, <3>1, <4>1
    <3>2. CASE ~CanMove(order[p], "RECONCILIATION_REQUIRED")
      <4>1. UNCHANGED <<order, cash>>
        BY <1>1, <2>4, <3>2 DEF Ambiguous, TypeOK
      <4> QED
        BY <1>2, <4>1
    <3> QED
      BY <3>1, <3>2
  <2> QED
    BY <1>10, <2>1, <2>2, <2>3, <2>4 DEF Settle
<1> QED
  BY <1>7, <1>8, <1>9, <1>10 DEF Handles

LEMMA MovesStep ==
    ASSUME Inv, AnswersAreTrue, PlacementPends, [Next]_vars, NEW o \in Orders
    PROVE  Moves(o)
<1>1. ASSUME NEW w \in Workers, Poll(w) PROVE Moves(o)
  <2>1. cash' = cash
    BY <1>1 DEF Poll
  <2>2. CASE order'[o] = order[o]
    BY <2>1, <2>2 DEF Moves
  <2>3. CASE order'[o] # order[o]
    <3>1. order'[o] = "RECONCILIATION_REQUIRED" /\ CanMove(order[o], "RECONCILIATION_REQUIRED")
      BY <1>1, <2>3 DEF Poll
    <3>2. order[o] # "CREATED" /\ order'[o] \notin Terminal
      BY <3>1 DEF CanMove, NextStates, Terminal
    <3> QED
      BY <2>1, <3>1, <3>2 DEF Moves
  <2> QED
    BY <2>2, <2>3
<1>2. ASSUME UNCHANGED <<order, cash>> PROVE Moves(o)
  BY <1>2 DEF Moves
<1>3. /\ UNCHANGED vars => UNCHANGED <<order, cash>>
      /\ \A w \in Workers : Crash(w) => UNCHANGED <<order, cash>>
  BY DEF vars, Crash, db
<1> QED
  BY <1>1, <1>2, <1>3, MovesCalm, MovesHandles DEF WorkerStep, Handles

-----------------------------------------------------------------------------
(* Cash: follows from the moves alone.                                       *)
LEMMA ReservationStep ==
    ASSUME Inv, CashIsCurrent, \A o \in Orders : Moves(o)
    PROVE  CashIsCurrent'
<1> SUFFICES ASSUME NEW o \in BuyOrders
             PROVE  cash'[o] = CASE order'[o] = "CREATED" -> "NONE"
                                 [] order'[o] \in Terminal -> "RELEASED"
                                 [] OTHER -> "HELD"
  BY DEF CashIsCurrent
<1>1. o \in Orders
  BY OutboxAssumption
<1>2. cash[o] = CASE order[o] = "CREATED" -> "NONE"
                  [] order[o] \in Terminal -> "RELEASED"
                  [] OTHER -> "HELD"
  BY DEF CashIsCurrent
<1>3. \A s, t : CanMove(s, t) => s \notin Terminal /\ t # "CREATED"
  BY DEF CanMove, NextStates, Terminal
<1>4. "CREATED" \notin Terminal /\ "PENDING_SUBMISSION" \notin Terminal
  BY DEF Terminal
<1>5. CASE order'[o] = order[o] /\ cash'[o] = cash[o]
  BY <1>2, <1>5
<1>6. CASE CanMove(order[o], order'[o])
  <2>1. order[o] \notin Terminal /\ order'[o] # "CREATED"
    BY <1>3, <1>6
  <2>2. CASE order[o] = "CREATED" /\ order'[o] = "PENDING_SUBMISSION" /\ cash'[o] = "HELD"
    BY <1>4, <2>2
  <2>3. CASE /\ order[o] # "CREATED" /\ order'[o] \in Terminal
             /\ cash'[o] = IF cash[o] = "HELD" THEN "RELEASED" ELSE cash[o]
    BY <1>2, <2>1, <2>3
  <2>4. CASE order[o] # "CREATED" /\ order'[o] \notin Terminal /\ cash'[o] = cash[o]
    BY <1>2, <1>5, <2>1, <2>4
  <2>5. CASE order'[o] = order[o] /\ cash'[o] = cash[o]
    BY <1>5, <2>5
  <2> QED
    BY <1>1, <2>2, <2>3, <2>4, <2>5 DEF Moves
<1> QED
  BY <1>1, <1>5, <1>6 DEF Moves

(* The one worker sends a placement that is pending; what happens before the *)
(* answer is handled can at most ask for its cancel.                         *)
LEMMA PendsStep ==
    ASSUME Inv, OneWorker, PlacementPends, [Next]_vars
    PROVE  PlacementPends'
<1> USE DEF Inv
<1> SUFFICES ASSUME NEW w \in Workers, pc'[w] = "http", IsPlace(Head(batch'[w]))
             PROVE  order'[OrderOf(Head(batch'[w]))] \in {"PENDING_SUBMISSION", "CANCEL_PENDING"}
  BY DEF PlacementPends
<1>1. ASSUME NEW v \in Workers, Poll(v) PROVE FALSE
  <2>1. v = w
    BY DEF OneWorker
  <2> QED
    BY <1>1, <2>1 DEF Poll, TypeOK
<1>2. ASSUME NEW v \in Workers, Crash(v) PROVE FALSE
  <2>1. v = w
    BY DEF OneWorker
  <2> QED
    BY <1>2, <2>1 DEF Crash, Abandon, TypeOK
<1>3. ASSUME NEW v \in Workers, Handles(v)
      PROVE  order'[OrderOf(Head(batch'[w]))] \in {"PENDING_SUBMISSION", "CANCEL_PENDING"}
  <2>1. v = w
    BY DEF OneWorker
  <2>2. ~NextRecord(w) /\ ~NextUncommitted(w) /\ ~Advance(w) /\ ~Abandon(w)
    BY DEF NextRecord, NextUncommitted, Advance, Abandon, TypeOK
  <2>3. pc' # [pc EXCEPT ![w] = "marked"]
    BY DEF TypeOK
  <2>4. /\ batch' = batch /\ order' = order
        /\ IsPlace(Head(batch[w])) => order[OrderOf(Head(batch[w]))] = "PENDING_SUBMISSION"
    <3>1. DispatchPlace(w) \/ DispatchCancel(w)
      BY <1>3, <2>1, <2>2, <2>3
      DEF Handles, GateBlocked, CommitMarker, Settle, PlaceAcknowledged, PlaceRejected,
          CancelConfirmed, Ambiguous, NextRecord, NextUncommitted
    <3> QED
      BY <2>2, <3>1 DEF DispatchPlace, DispatchCancel, Send, db
  <2> QED
    BY <2>4
<1>4. ASSUME Next, ~\E v \in Workers : WorkerStep(v) \/ Crash(v)
      PROVE  order'[OrderOf(Head(batch'[w]))] \in {"PENDING_SUBMISSION", "CANCEL_PENDING"}
  <2>0. PICK o : o = OrderOf(Head(batch[w]))
    OBVIOUS
  <2>1. UNCHANGED <<pc, batch>>
    BY <1>4, CalmSteps DEF Calm
  <2>2. order[o] \in {"PENDING_SUBMISSION", "CANCEL_PENDING"} /\ o \in Orders
    BY <2>0, <2>1, CurrentRow DEF PlacementPends
  <2>3. order'[o] = order[o] \/ order'[o] = "CANCEL_PENDING"
    BY <1>4, <2>2 DEF Next, SubmitOrder, RequestCancel, LeaseLapses, BackoffElapses, Resolve,
                      MoveGate, Broker, db, TypeOK
  <2> QED
    BY <2>0, <2>1, <2>2, <2>3
<1>5. CASE UNCHANGED vars
  BY <1>5 DEF vars, db, workers, PlacementPends
<1> QED
  BY <1>1, <1>2, <1>3, <1>4, <1>5 DEF WorkerStep, Handles

(* The rows of the one batch: a poll claims them, the worker is done with    *)
(* them one after the other, and nobody else writes them.                    *)
LEMMA ClaimedStep ==
    ASSUME Inv, OneWorker, Sending, BatchIsClaimed, [Next]_vars
    PROVE  BatchIsClaimed'
<1> USE DEF Inv, Sending
<1> SUFFICES ASSUME NEW w \in Workers, NEW i \in 1..Len(batch'[w])
             PROVE  outbox'[batch'[w][i]].status = "CLAIMED"
  BY DEF BatchIsClaimed
<1>0. batch[w] \in Seq(Rows) /\ \A j \in 1..Len(batch[w]) : batch[w][j] \in Rows
  BY DEF TypeOK
<1>1. ASSUME NEW v \in Workers, Poll(v) PROVE outbox'[batch'[w][i]].status = "CLAIMED"
  <2>1. v = w
    BY DEF OneWorker
  <2> QED
    BY <1>1, <2>1, PollClaims
<1>2. ASSUME NEW v \in Workers, Handles(v) \/ Crash(v)
      PROVE  outbox'[batch'[w][i]].status = "CLAIMED"
  <2>1. v = w
    BY DEF OneWorker
  <2>2. CASE batch'[w] = batch[w] /\ pc'[w] \in {"marked", "http"}
    <3>1. outbox[batch[w][i]].status = "CLAIMED" /\ batch[w][i] \in Rows
      BY <1>0, <2>2 DEF BatchIsClaimed
    <3>2. ~Advance(w) /\ ~Abandon(w)
      BY <2>2 DEF Advance, Abandon, TypeOK
    <3>3. CommitMarker(w) \/ UNCHANGED outbox
      BY <1>2, <2>1, <3>2
      DEF Handles, GateBlocked, DispatchPlace, DispatchCancel, Send, db, Settle,
          PlaceAcknowledged, PlaceRejected, CancelConfirmed, Ambiguous, NextRecord,
          NextUncommitted, Crash
    <3>4. CASE CommitMarker(w)
      <4>1. /\ outbox' = [outbox EXCEPT ![Head(batch[w])] = [outbox[Head(batch[w])] EXCEPT !.marked = TRUE]]
            /\ outbox[Head(batch[w])] \in OutboxRow
        BY <3>4, CurrentRow DEF CommitMarker
      <4>2. [outbox[Head(batch[w])] EXCEPT !.marked = TRUE].status = outbox[Head(batch[w])].status
        BY <4>1 DEF OutboxRow
      <4>3. outbox'[batch[w][i]].status = outbox[batch[w][i]].status
        BY <3>1, <4>1, <4>2 DEF TypeOK
      <4> QED
        BY <2>2, <3>1, <4>3
    <3> QED
      BY <2>2, <3>1, <3>3, <3>4
  <2>3. CASE \A j \in 1..Len(batch'[w]) :
               j + 1 \in 1..Len(batch[w]) /\ batch'[w][j] = batch[w][j + 1]
    <3>1. i + 1 \in 1..Len(batch[w]) /\ batch'[w][i] = batch[w][i + 1] /\ i + 1 # 1 /\ 1 \in 1..Len(batch[w])
      <4>1. i + 1 \in 1..Len(batch[w]) /\ batch'[w][i] = batch[w][i + 1]
        BY <2>3
      <4>2. Len(batch'[w]) \in Nat /\ Len(batch[w]) \in Nat
        BY <1>0, <1>2, <2>1, HandlesBatch
      <4> QED
        BY <4>1, <4>2
    <3>2. batch[w][i + 1] \in Rows /\ outbox[batch[w][i + 1]].status = "CLAIMED"
      BY <1>0, <3>1 DEF BatchIsClaimed
    <3>3. CASE Handles(w)
      <4>1. Head(batch[w]) = batch[w][1]
        BY <3>3, HandlesHead
      <4>2. batch[w][i + 1] # Head(batch[w])
        BY <3>1, <4>1 DEF BatchesAreSmall
      <4> QED
        BY <3>1, <3>2, <3>3, <4>2, HandlesHead
    <3>4. CASE Crash(w)
      BY <3>1, <3>2, <3>4 DEF Crash, db
    <3> QED
      BY <1>2, <2>1, <3>3, <3>4
  <2> QED
    BY <1>2, <2>1, <2>2, <2>3, HandlesBatch
<1>3. ASSUME Calm PROVE outbox'[batch'[w][i]].status = "CLAIMED"
  <2>1. batch' = batch
    BY <1>3 DEF Calm
  <2>2. batch[w][i] \in Rows /\ outbox[batch[w][i]].status = "CLAIMED"
    BY <1>0, <2>1 DEF BatchIsClaimed
  <2> QED
    BY <1>3, <2>1, <2>2 DEF Calm
<1>4. UNCHANGED vars => Calm
  BY DEF vars, db, workers, broker, Calm
<1> QED
  BY <1>1, <1>2, <1>3, <1>4, CalmSteps DEF WorkerStep, Handles

-----------------------------------------------------------------------------
(* No CANCEL row becomes active that was not, but the one a request adds,    *)
(* and it adds one only to an order that has none.                           *)
NoneActivated ==
    \A r \in Rows :
        ~IsPlace(r) /\ outbox'[r].status \in Driving => outbox[r].status \in Driving

LEMMA PollActivatesNone ==
    ASSUME TypeOK, NEW w \in Workers, Poll(w)
    PROVE  NoneActivated
<1> DEFINE Row(r) == IF r \in LapsedRows THEN Recovered(outbox[r]) ELSE outbox[r]
           requeued == {r \in LapsedRows : Row(r).status \in Queued}
<1>1. PICK flushed \in SUBSET requeued : \E s \in Batches(DueRows \cup flushed) :
        outbox' = [r \in Rows |->
             IF \E i \in DOMAIN s : s[i] = r THEN Claimed(Row(r), w) ELSE Row(r)]
  BY DEF Poll
<1>2. PICK s \in Batches(DueRows \cup flushed) :
        outbox' = [r \in Rows |->
             IF \E i \in DOMAIN s : s[i] = r THEN Claimed(Row(r), w) ELSE Row(r)]
  BY <1>1
<1>3. DueRows \cup flushed \in SUBSET Rows
  BY DEF DueRows, LapsedRows
<1>4. \A i \in DOMAIN s : s[i] \in DueRows \cup LapsedRows
  BY <1>3, BatchIsSequence
<1> SUFFICES ASSUME NEW r \in Rows, outbox'[r].status \in Driving
             PROVE  outbox[r].status \in Driving
  BY DEF NoneActivated
<1>5. CASE r \in DueRows \cup LapsedRows
  BY <1>5 DEF DueRows, LapsedRows, Driving
<1>6. CASE r \notin DueRows \cup LapsedRows
  <2>1. outbox'[r] = outbox[r]
    BY <1>2, <1>4, <1>6
  <2> QED
    BY <2>1
<1> QED
  BY <1>5, <1>6

LEMMA OneActiveKept ==
    ASSUME OneActive, NoneActivated
    PROVE  OneActive'
  BY DEF OneActive, NoneActivated

LEMMA OneActiveRequest ==
    ASSUME TypeOK, OneActive, NEW o \in Orders, RequestCancel(o)
    PROVE  OneActive'
<1>1. CASE ActiveCancel(o)
  BY <1>1, OneActiveKept DEF RequestCancel, NoneActivated
<1>2. CASE ~ActiveCancel(o)
  <2>1. PICK k \in 1..MaxCancels : outbox' = [outbox EXCEPT ![<<o, k>>] = NewRow]
    BY <1>2 DEF RequestCancel
  <2>2. <<o, k>> \in Rows /\ OrderOf(<<o, k>>) = o
    BY OutboxAssumption DEF Rows, OrderOf
  <2>3. \A r \in Rows : r # <<o, k>> => outbox'[r] = outbox[r]
    BY <2>1 DEF TypeOK
  <2>4. ASSUME NEW r \in Rows, OrderOf(r) = o, ~IsPlace(r)
        PROVE  outbox[r].status \notin Driving
    BY <1>2, <2>4 DEF ActiveCancel, CancelRows, Driving, Queued
  <2> SUFFICES ASSUME NEW r \in Rows, NEW q \in Rows,
                      OrderOf(r) = OrderOf(q), ~IsPlace(r), ~IsPlace(q),
                      outbox'[r].status \in Driving, outbox'[q].status \in Driving
               PROVE  r = q
    BY DEF OneActive
  <2>5. CASE OrderOf(r) = o
    BY <2>3, <2>4, <2>5
  <2>6. CASE OrderOf(r) # o
    <3>1. outbox'[r] = outbox[r] /\ outbox'[q] = outbox[q]
      BY <2>2, <2>3, <2>6
    <3> QED
      BY <3>1 DEF OneActive
  <2> QED
    BY <2>5, <2>6
<1> QED
  BY <1>1, <1>2

LEMMA OneActiveStep ==
    ASSUME Inv, OneWorker, BatchIsClaimed, OneActive, [Next]_vars
    PROVE  OneActive'
<1> USE DEF Inv
<1>1. ASSUME NEW w \in Workers, Handles(w) PROVE NoneActivated
  <2>1. /\ batch[w] # <<>> /\ batch[w] \in Seq(Rows)
        /\ Head(batch[w]) = batch[w][1]
        /\ \A r \in Rows : r # Head(batch[w]) => outbox'[r] = outbox[r]
    BY <1>1, HandlesHead
  <2>2. 1 \in 1..Len(batch[w])
    BY <2>1
  <2>3. outbox[Head(batch[w])].status = "CLAIMED"
    BY <2>1, <2>2 DEF BatchIsClaimed
  <2> QED
    BY <2>1, <2>3 DEF NoneActivated, Driving
<1>2. ASSUME UNCHANGED outbox PROVE NoneActivated
  BY <1>2 DEF NoneActivated
<1>3. ASSUME NEW o \in Orders, SubmitOrder(o) PROVE NoneActivated
  <2>1. \A r \in Rows : ~IsPlace(r) => r # PlaceRow(o)
    BY DEF IsPlace, PlaceRow
  <2> QED
    BY <1>3, <2>1 DEF SubmitOrder, NoneActivated, TypeOK
<1>4. ASSUME NEW r \in Rows, LeaseLapses(r) \/ BackoffElapses(r) PROVE NoneActivated
  <2>1. outbox[r].status \in Driving
    BY <1>4 DEF LeaseLapses, BackoffElapses, Driving, Queued
  <2>2. \A q \in Rows : q # r => outbox'[q] = outbox[q]
    BY <1>4 DEF LeaseLapses, BackoffElapses, TypeOK
  <2> QED
    BY <2>1, <2>2 DEF NoneActivated
<1>5. ASSUME NEW r \in Rows, NEW res \in CaseStatus, Resolve(r, res) PROVE UNCHANGED outbox
  BY <1>5 DEF Resolve, RowAfterResolve, TypeOK
<1>6. /\ UNCHANGED vars => UNCHANGED outbox
      /\ \A w \in Workers : Crash(w) => UNCHANGED outbox
      /\ \A g \in VaryingGates : MoveGate(g) => UNCHANGED outbox
      /\ Broker => UNCHANGED outbox
  BY DEF vars, db, Crash, MoveGate, Broker
<1>7. ASSUME NEW w \in Workers, WorkerStep(w) PROVE NoneActivated
  BY <1>1, <1>7, PollActivatesNone DEF WorkerStep, Handles
<1>8. (\E o \in Orders : RequestCancel(o)) \/ NoneActivated
  BY <1>2, <1>3, <1>4, <1>5, <1>6, <1>7 DEF Next
<1> QED
  BY <1>8, OneActiveKept, OneActiveRequest

-----------------------------------------------------------------------------
(* What row r, its case, its links and its order say of one another.         *)
Tells(r) ==
    /\ recon[r] # "NONE" <=> outbox[r].status = "RECONCILIATION_REQUIRED"
    /\ outbox[r].status = "DELIVERED" =>
          IF IsPlace(r) THEN link[OrderOf(r)] # {} ELSE order[OrderOf(r)] = "CANCELLED"

(* A row that was not delivered now, and whose case is not touched, tells    *)
(* what it told: no link is ever lost, no cancelled order moves on.          *)
LEMMA TellsKept ==
    ASSUME NEW r, Tells(r), Moves(OrderOf(r)),
           link[OrderOf(r)] # {} => link'[OrderOf(r)] # {},
           outbox'[r].status = "DELIVERED" => outbox[r].status = "DELIVERED",
           recon'[r] # "NONE" <=> outbox'[r].status = "RECONCILIATION_REQUIRED"
    PROVE  Tells(r)'
<1>1. \A t : ~CanMove("CANCELLED", t)
  BY DEF CanMove, NextStates
<1> QED
  BY <1>1 DEF Tells, Moves

(* Nothing takes a link away.                                                *)
LEMMA LinksKept ==
    ASSUME Inv, [Next]_vars, NEW o \in Orders, link[o] # {}
    PROVE  link'[o] # {}
<1> USE DEF Inv
<1>1. ASSUME NEW w \in Workers, WorkerStep(w) PROVE link'[o] # {}
  <2>1. CASE PlaceAcknowledged(w) /\ link' # link
    <3>1. \E p, id : link' = [link EXCEPT ![p] = @ \cup {id}]
      BY <2>1 DEF PlaceAcknowledged, db
    <3> QED
      BY <3>1 DEF TypeOK
  <2>2. CASE link' = link
    BY <2>2
  <2> QED
    BY <1>1, <2>1, <2>2
    DEF WorkerStep, Poll, GateBlocked, CommitMarker, DispatchPlace, DispatchCancel, Send, db,
        Settle, PlaceRejected, CancelConfirmed, Ambiguous
<1>2. ASSUME NEW r \in Rows, NEW res \in CaseStatus, Resolve(r, res) PROVE link'[o] # {}
  <2>1. link' = link \/ \E a : link' = [link EXCEPT ![OrderOf(r)] = {a}]
    BY <1>2 DEF Resolve
  <2> QED
    BY <2>1 DEF TypeOK
<1> QED
  BY <1>1, <1>2 DEF Next, vars, db, SubmitOrder, RequestCancel, Crash, LeaseLapses,
                    BackoffElapses, MoveGate, Broker

LEMMA TellsCalm ==
    ASSUME Inv, RowTellsOutcome, Next, ~\E w \in Workers : WorkerStep(w) \/ Crash(w),
           NEW r \in Rows, Moves(OrderOf(r))
    PROVE  Tells(r)'
<1> USE DEF Inv
<1>1. Tells(r)
  BY DEF RowTellsOutcome, Tells
<1>2. link[OrderOf(r)] # {} => link'[OrderOf(r)] # {}
  BY PlaceRows, LinksKept
<1>3. \/ outbox'[r].status = outbox[r].status
      \/ outbox[r].status = "ABSENT" /\ outbox'[r].status = "PENDING"
  <2>1. NewRow.status = "PENDING"
    BY DEF NewRow, NoRow
  <2> QED
    BY <2>1, CalmSteps DEF Calm
<1>4. recon'[r] = recon[r] \/ (recon[r] # "NONE" /\ recon'[r] # "NONE")
  <2>1. ASSUME NEW q \in Rows, NEW res \in CaseStatus, Resolve(q, res)
        PROVE  recon'[r] = recon[r] \/ (recon[r] # "NONE" /\ recon'[r] # "NONE")
    <3>1. recon[q] = "OPEN" /\ recon' = [recon EXCEPT ![q] = res] /\ res # "NONE"
      BY <2>1 DEF Resolve, PlaceResolutions, CancelResolutions
    <3> QED
      BY <3>1 DEF TypeOK
  <2> QED
    BY <2>1 DEF Next, SubmitOrder, RequestCancel, LeaseLapses, BackoffElapses, MoveGate,
                Broker, db
<1> QED
  BY <1>1, <1>2, <1>3, <1>4, TellsKept DEF Tells

LEMMA TellsPoll ==
    ASSUME Inv, Sending, RowTellsOutcome, NEW w \in Workers, Poll(w),
           NEW r \in Rows, Moves(OrderOf(r))
    PROVE  Tells(r)'
<1>1. Tells(r)
  BY DEF RowTellsOutcome, Tells
<1>2. link' = link
  BY DEF Poll
<1>3. /\ outbox'[r].status = "DELIVERED" => outbox[r].status = "DELIVERED"
      /\ recon'[r] # "NONE" <=> outbox'[r].status = "RECONCILIATION_REQUIRED"
  <2>1. CASE outbox'[r] = outbox[r] /\ recon'[r] = recon[r]
    BY <1>1, <2>1 DEF Tells
  <2>2. CASE /\ outbox[r].status \in Queued \cup {"CLAIMED"}
             /\ outbox'[r].status \in Queued \cup {"CLAIMED"}
             /\ recon'[r] = recon[r]
    BY <1>1, <2>2 DEF Tells, Queued
  <2>3. CASE /\ outbox[r].status = "CLAIMED"
             /\ outbox'[r].status = "RECONCILIATION_REQUIRED"
             /\ recon'[r] = Opened(recon[r])
    BY <1>1, <2>3 DEF Tells, Opened
  <2> QED
    BY <2>1, <2>2, <2>3, PollCloses DEF Sending
<1> QED
  BY <1>1, <1>2, <1>3, TellsKept

LEMMA TellsHandles ==
    ASSUME Inv, AnswersAreTrue, BatchIsClaimed, RowTellsOutcome, NEW w \in Workers, Handles(w),
           NEW q \in Rows, Moves(OrderOf(q)), link[OrderOf(q)] # {} => link'[OrderOf(q)] # {}
    PROVE  Tells(q)'
<1> USE DEF Inv
<1>0. PICK r : r = Head(batch[w])
  OBVIOUS
<1> USE <1>0
<1>1. /\ r \in Rows /\ OrderOf(r) \in Orders /\ outbox[r] \in OutboxRow
      /\ \A p \in Rows : p # r => outbox'[p] = outbox[p] /\ recon'[p] = recon[p]
  BY HandlesHead
<1>2. outbox[r].status = "CLAIMED" /\ recon[r] = "NONE"
  <2>1. r = batch[w][1] /\ 1 \in 1..Len(batch[w])
    BY HandlesHead
  <2> QED
    BY <1>1, <2>1 DEF BatchIsClaimed, RowTellsOutcome
<1>3. Tells(q)
  BY DEF RowTellsOutcome, Tells
<1>4. CASE q # r
  BY <1>1, <1>3, <1>4, TellsKept DEF Tells
<1>5. CASE q = r
  <2>1. ASSUME recon' = recon, outbox'[r].status \notin {"DELIVERED", "RECONCILIATION_REQUIRED"}
        PROVE  Tells(r)'
    BY <1>2, <1>3, <1>5, <2>1, TellsKept DEF Tells
  <2>2. ASSUME NEW s \in OutboxStatus, outbox' = [outbox EXCEPT ![r] = Freed(@, s)]
        PROVE  outbox'[r].status = s
    BY <1>1, <2>2, FreedKeeps DEF TypeOK
  <2>3. {"DELIVERED", "DEAD_LETTER", "RECONCILIATION_REQUIRED"} \subseteq OutboxStatus
    BY DEF OutboxStatus
  <2>4. CASE UNCHANGED <<outbox, recon>>
    BY <1>2, <1>5, <2>1, <2>4
  <2>5. CASE GateBlocked(w)
    <3>1. CASE outbox' = [outbox EXCEPT ![r] = Freed(@, "DEAD_LETTER")]
      BY <1>5, <2>1, <2>2, <2>3, <2>5, <3>1 DEF GateBlocked
    <3>2. CASE outbox' = [outbox EXCEPT ![r] =
                            [Freed(@, "RETRY_SCHEDULED") EXCEPT !.due = FALSE]]
      <4>1. Freed(outbox[r], "RETRY_SCHEDULED") \in OutboxRow
            /\ Freed(outbox[r], "RETRY_SCHEDULED").status = "RETRY_SCHEDULED"
        BY <1>1, FreedType, FreedKeeps DEF OutboxStatus, Queued
      <4>2. outbox'[r].status = "RETRY_SCHEDULED"
        BY <1>1, <3>2, <4>1 DEF TypeOK, OutboxRow
      <4> QED
        BY <1>5, <2>1, <2>5, <4>2 DEF GateBlocked
    <3> QED
      BY <2>5, <3>1, <3>2 DEF GateBlocked
  <2>6. CASE CommitMarker(w)
    <3>1. outbox'[r].status = "CLAIMED"
      BY <1>1, <1>2, <2>6 DEF CommitMarker, TypeOK, OutboxRow
    <3> QED
      BY <1>5, <2>1, <2>6, <3>1 DEF CommitMarker
  <2>7. CASE DispatchPlace(w)
    <3>1. CASE outbox' = [outbox EXCEPT ![r].status = "DEAD_LETTER"] /\ recon' = recon
      <4>1. outbox'[r].status = "DEAD_LETTER"
        BY <1>1, <3>1 DEF TypeOK, OutboxRow
      <4> QED
        BY <1>5, <2>1, <3>1, <4>1
    <3> QED
      BY <1>5, <2>4, <2>7, <3>1 DEF DispatchPlace, Send, db
  <2>8. ASSUME ~IsPlace(r), order' = [order EXCEPT ![OrderOf(r)] = "CANCELLED"], recon' = recon,
               outbox' = [outbox EXCEPT ![r] = Freed(@, "DELIVERED")]
        PROVE  Tells(r)'
    <3>1. outbox'[r].status = "DELIVERED" /\ order'[OrderOf(r)] = "CANCELLED"
      BY <1>1, <2>2, <2>3, <2>8 DEF TypeOK
    <3> QED
      BY <1>2, <2>8, <3>1 DEF Tells
  <2>9. CASE DispatchCancel(w)
    BY <1>5, <2>4, <2>8, <2>9 DEF DispatchCancel, Send, db
  <2>10. CASE Settle(w)
    <3>1. CASE PlaceAcknowledged(w) /\ reply[w].id \notin link[OrderOf(r)]
      <4>1. /\ IsPlace(r) /\ recon' = recon
            /\ link' = [link EXCEPT ![OrderOf(r)] = @ \cup {reply[w].id}]
            /\ outbox' = [outbox EXCEPT ![r] = Freed(@, "DELIVERED")]
        BY <3>1 DEF PlaceAcknowledged, AnswersAreTrue
      <4>2. outbox'[r].status = "DELIVERED" /\ link'[OrderOf(r)] # {}
        BY <1>1, <2>2, <2>3, <4>1 DEF TypeOK
      <4> QED
        BY <1>2, <1>5, <4>1, <4>2 DEF Tells
    <3>2. CASE PlaceRejected(w)
      BY <1>5, <2>1, <2>2, <2>3, <2>4, <3>2 DEF PlaceRejected, db
    <3>3. CASE CancelConfirmed(w)
      BY <1>5, <2>4, <2>8, <3>3 DEF CancelConfirmed, db, AnswersAreTrue
    <3>4. CASE Ambiguous(w)
      <4>1. outbox'[r].status = "RECONCILIATION_REQUIRED"
        BY <2>2, <2>3, <3>4 DEF Ambiguous
      <4>2. recon'[r] # "NONE"
        BY <1>1, <3>4 DEF Ambiguous, Opened, TypeOK
      <4> QED
        BY <1>5, <4>1, <4>2 DEF Tells
    <3> QED
      BY <1>5, <2>4, <2>10, <3>1, <3>2, <3>3, <3>4 DEF Settle, PlaceAcknowledged, db
  <2> QED
    BY <2>5, <2>6, <2>7, <2>9, <2>10 DEF Handles
<1> QED
  BY <1>4, <1>5

-----------------------------------------------------------------------------
(* A step that leaves order and PLACE row of o as they are decides nothing.  *)
LEMMA DecidesKept ==
    ASSUME NEW o, Decides(o), order'[o] = order[o],
           outbox'[PlaceRow(o)].status = outbox[PlaceRow(o)].status
    PROVE  Decides(o)'
  BY DEF Decides, PlaceRow

(* Users, operator, broker and time: a resolution finds the PLACE row in     *)
(* reconciliation, and after a request the order has a CANCEL row.           *)
LEMMA DecidesCalm ==
    ASSUME Inv, Next, ~\E w \in Workers : WorkerStep(w) \/ Crash(w),
           NEW o \in Orders, CancelRows(o) = {}, CancelRows(o)' = {}, Decides(o)
    PROVE  Decides(o)'
<1> USE DEF Inv
<1>0. PlaceRow(o) \in Rows
  BY PlaceRows
<1>1. ASSUME NEW p \in Orders, SubmitOrder(p) PROVE Decides(o)'
  <2>1. CASE p = o
    <3>1. order'[o] = "PENDING_SUBMISSION" /\ outbox'[PlaceRow(o)] = NewRow
      BY <1>0, <1>1, <2>1 DEF SubmitOrder, TypeOK
    <3>2. NewRow.status = "PENDING"
      BY DEF NewRow, NoRow
    <3> QED
      BY <3>1, <3>2 DEF Decides, PlaceRow
  <2>2. CASE p # o
    <3>1. PlaceRow(p) # PlaceRow(o)
      BY <2>2 DEF PlaceRow
    <3>2. order'[o] = order[o] /\ outbox'[PlaceRow(o)] = outbox[PlaceRow(o)]
      BY <1>0, <1>1, <2>2, <3>1 DEF SubmitOrder, TypeOK
    <3> QED
      BY <3>2, DecidesKept
  <2> QED
    BY <2>1, <2>2
<1>2. ASSUME NEW p \in Orders, RequestCancel(p) PROVE Decides(o)'
  <2>1. PICK k \in 1..MaxCancels :
          UNCHANGED outbox \/ outbox' = [outbox EXCEPT ![<<p, k>>] = NewRow]
    <3>1. CASE ActiveCancel(p)
      <4>1. PICK r \in CancelRows(p) : TRUE
        BY <3>1 DEF ActiveCancel
      <4>2. r[2] \in 1..MaxCancels
        BY <4>1, OutboxAssumption DEF CancelRows, Rows, IsPlace
      <4> QED
        BY <1>2, <3>1, <4>2 DEF RequestCancel, ActiveCancel
    <3>2. CASE ~ActiveCancel(p)
      BY <1>2, <3>2 DEF RequestCancel
    <3> QED
      BY <3>1, <3>2
  <2>2. <<p, k>> \in Rows /\ OrderOf(<<p, k>>) = p /\ ~IsPlace(<<p, k>>) /\ <<p, k>> # PlaceRow(o)
    BY OutboxAssumption DEF Rows, OrderOf, IsPlace, PlaceRow
  <2>3. p # o
    <3>1. CASE ActiveCancel(p)
      BY <3>1 DEF ActiveCancel
    <3>2. CASE ~ActiveCancel(p)
      <4>1. PICK j \in 1..MaxCancels : outbox' = [outbox EXCEPT ![<<p, j>>] = NewRow]
        BY <1>2, <3>2 DEF RequestCancel
      <4>2. <<p, j>> \in Rows /\ OrderOf(<<p, j>>) = p /\ ~IsPlace(<<p, j>>)
        BY OutboxAssumption DEF Rows, OrderOf, IsPlace
      <4>3. outbox'[<<p, j>>].status # "ABSENT"
        BY <4>1, <4>2 DEF TypeOK, NewRow, NoRow
      <4>4. <<p, j>> \in CancelRows(p)'
        BY <4>2, <4>3 DEF CancelRows
      <4> QED
        BY <4>4
    <3> QED
      BY <3>1, <3>2
  <2>4. order'[o] = order[o] /\ outbox'[PlaceRow(o)] = outbox[PlaceRow(o)]
    BY <1>0, <1>2, <2>1, <2>2, <2>3 DEF RequestCancel, TypeOK
  <2> QED
    BY <2>4, DecidesKept
<1>3. ASSUME NEW r \in Rows, NEW res \in CaseStatus, Resolve(r, res) PROVE Decides(o)'
  <2>1. outbox' = outbox /\ outbox[r].status = "RECONCILIATION_REQUIRED"
    BY <1>3 DEF Resolve, RowAfterResolve, TypeOK
  <2>2. CASE OrderOf(r) = o
    <3>1. IsPlace(r)
      BY <2>1, <2>2 DEF CancelRows
    <3>2. r = PlaceRow(o)
      BY <2>2, <3>1, PlaceRows
    <3> QED
      BY <2>1, <3>2 DEF Decides, Queued, PlaceRow
  <2>3. CASE OrderOf(r) # o
    <3>1. order'[o] = order[o]
      BY <1>3, <2>3 DEF Resolve, TypeOK
    <3> QED
      BY <2>1, <3>1, DecidesKept
  <2> QED
    BY <2>2, <2>3
<1>4. ASSUME NEW r \in Rows, LeaseLapses(r) \/ BackoffElapses(r) PROVE Decides(o)'
  <2>1. \A row \in OutboxRow :
          /\ [row EXCEPT !.lease = "lapsed"].status = row.status
          /\ [row EXCEPT !.due = TRUE].status = row.status
    BY DEF OutboxRow
  <2>2. \/ outbox' = [outbox EXCEPT ![r] = [outbox[r] EXCEPT !.lease = "lapsed"]]
        \/ outbox' = [outbox EXCEPT ![r] = [outbox[r] EXCEPT !.due = TRUE]]
    BY <1>4 DEF LeaseLapses, BackoffElapses
  <2>3. outbox'[PlaceRow(o)].status = outbox[PlaceRow(o)].status
    <3>1. PICK p : p = PlaceRow(o)
      OBVIOUS
    <3>2. p \in Rows /\ outbox[p] \in OutboxRow
      BY <1>0, <3>1 DEF TypeOK
    <3>3. outbox'[p] \in {outbox[p], [outbox[p] EXCEPT !.lease = "lapsed"],
                          [outbox[p] EXCEPT !.due = TRUE]}
      BY <2>2, <3>2 DEF TypeOK
    <3>4. /\ [outbox[p] EXCEPT !.lease = "lapsed"].status = outbox[p].status
          /\ [outbox[p] EXCEPT !.due = TRUE].status = outbox[p].status
      BY <2>1, <3>2
    <3>5. outbox'[p].status = outbox[p].status
      <4>1. CASE outbox'[p] = outbox[p]
        BY <4>1
      <4>2. CASE outbox'[p] = [outbox[p] EXCEPT !.lease = "lapsed"]
        BY <3>4, <4>2
      <4>3. CASE outbox'[p] = [outbox[p] EXCEPT !.due = TRUE]
        BY <3>4, <4>3
      <4> QED
        BY <3>3, <4>1, <4>2, <4>3
    <3> QED
      BY <3>1, <3>5
  <2>4. order' = order
    BY <1>4 DEF LeaseLapses, BackoffElapses
  <2> QED
    BY <2>3, <2>4, DecidesKept
<1>5. ASSUME UNCHANGED <<order, outbox>> PROVE Decides(o)'
  BY <1>5, DecidesKept
<1>6. /\ \A g \in VaryingGates : MoveGate(g) => UNCHANGED <<order, outbox>>
      /\ Broker => UNCHANGED <<order, outbox>>
  BY DEF MoveGate, Broker, db
<1> QED
  BY <1>1, <1>2, <1>3, <1>4, <1>5, <1>6 DEF Next

(* A poll moves the order only of a row it fails closed, and that is the     *)
(* PLACE row here.                                                           *)
LEMMA DecidesPoll ==
    ASSUME Inv, Sending, NEW w \in Workers, Poll(w),
           NEW o \in Orders, CancelRows(o) = {}, Decides(o)
    PROVE  Decides(o)'
<1> USE DEF Inv, Sending
<1>0. PlaceRow(o) \in Rows
  BY PlaceRows
<1>1. CASE order'[o] = order[o]
  <2>1. \/ outbox'[PlaceRow(o)] = outbox[PlaceRow(o)]
        \/ /\ outbox[PlaceRow(o)].status \in Queued \cup {"CLAIMED"}
           /\ outbox'[PlaceRow(o)].status \in Queued \cup {"CLAIMED"}
        \/ outbox'[PlaceRow(o)].status = "RECONCILIATION_REQUIRED"
    BY <1>0, PollCloses
  <2> QED
    BY <1>1, <2>1 DEF Decides, Queued, PlaceRow
<1>2. CASE order'[o] # order[o]
  <2>1. PICK r \in LapsedRows : outbox[r].marked /\ OrderOf(r) = o
    BY <1>2 DEF Poll
  <2>2. r \in Rows /\ outbox[r].status = "CLAIMED"
    BY DEF LapsedRows
  <2>3. IsPlace(r)
    BY <2>1, <2>2 DEF CancelRows
  <2>4. r = PlaceRow(o)
    BY <2>1, <2>2, <2>3, PlaceRows
  <2>5. outbox'[PlaceRow(o)].status = "RECONCILIATION_REQUIRED"
    BY <2>1, <2>2, <2>4, PollCloses
  <2> QED
    BY <2>5 DEF Decides, Queued, PlaceRow
<1> QED
  BY <1>1, <1>2

(* The worker's record is claimed; as the PLACE row of an uncancelled order  *)
(* it finds that order waiting.                                              *)
LEMMA DecidesHandles ==
    ASSUME Inv, BatchIsClaimed, NEW w \in Workers, Handles(w),
           NEW o \in Orders, CancelRows(o) = {}, Decides(o)
    PROVE  Decides(o)'
<1> USE DEF Inv
<1>0. PICK r : r = Head(batch[w])
  OBVIOUS
<1> USE <1>0
<1>1. /\ r \in Rows /\ OrderOf(r) \in Orders /\ outbox[r] \in OutboxRow
      /\ \A q \in Rows : q # r => outbox'[q] = outbox[q]
  BY HandlesHead
<1>2. outbox[r].status = "CLAIMED"
  <2>1. r = batch[w][1] /\ 1 \in 1..Len(batch[w])
    BY HandlesHead
  <2> QED
    BY <1>1, <2>1 DEF BatchIsClaimed
<1>3. CASE OrderOf(r) # o
  <2>1. PlaceRow(o) \in Rows /\ PlaceRow(o) # r
    BY <1>3, PlaceRows
  <2>2. order' = order \/ \E s : order' = [order EXCEPT ![OrderOf(r)] = s]
    BY DEF Handles, GateBlocked, CommitMarker, DispatchPlace, DispatchCancel, Send, db, Settle,
           PlaceAcknowledged, PlaceRejected, CancelConfirmed, Ambiguous
  <2>3. order'[o] = order[o]
    BY <1>3, <2>2 DEF TypeOK
  <2> QED
    BY <1>1, <2>1, <2>3, DecidesKept
<1>4. CASE OrderOf(r) = o
  <2>1. IsPlace(r)
    BY <1>1, <1>2, <1>4 DEF CancelRows
  <2>2. r = PlaceRow(o)
    BY <1>1, <1>4, <2>1, PlaceRows
  <2>3. order[o] = "PENDING_SUBMISSION"
    BY <1>2, <2>2 DEF Decides
  <2>4. ASSUME NEW s \in OutboxStatus, outbox' = [outbox EXCEPT ![r] = Freed(@, s)]
        PROVE  outbox'[r].status = s
    BY <1>1, <2>4, FreedKeeps DEF TypeOK
  <2>5. {"DELIVERED", "DEAD_LETTER", "RECONCILIATION_REQUIRED"} \subseteq OutboxStatus
    BY DEF OutboxStatus
  <2>6. ASSUME outbox'[r].status \in {"DELIVERED", "RECONCILIATION_REQUIRED"}
        PROVE  Decides(o)'
    BY <2>2, <2>6 DEF Decides, Queued, PlaceRow
  <2>7. ASSUME outbox'[r].status # "DEAD_LETTER", order'[o] = order[o] PROVE Decides(o)'
    BY <2>2, <2>3, <2>7 DEF Decides, PlaceRow
  <2>8. ASSUME outbox'[r].status = "DEAD_LETTER", order'[o] = "PROVIDER_REJECTED"
        PROVE  Decides(o)'
    BY <2>2, <2>8 DEF Decides, Queued, PlaceRow, Terminal
  <2>9. CASE UNCHANGED <<order, outbox>>
    BY <1>2, <2>7, <2>9
  <2>10. CASE GateBlocked(w)
    <3>1. CASE outbox[r].attempts >= MaxAttempts
      <4>1. /\ outbox' = [outbox EXCEPT ![r] = Freed(@, "DEAD_LETTER")]
            /\ order' = [order EXCEPT ![o] = "PROVIDER_REJECTED"]
        BY <1>4, <2>1, <2>3, <2>10, <3>1 DEF GateBlocked, StatusAfterDeadLetter
      <4>2. outbox'[r].status = "DEAD_LETTER" /\ order'[o] = "PROVIDER_REJECTED"
        BY <2>4, <2>5, <4>1 DEF TypeOK
      <4> QED
        BY <2>8, <4>2
    <3>2. CASE ~(outbox[r].attempts >= MaxAttempts)
      <4>1. /\ outbox' = [outbox EXCEPT ![r] =
                            [Freed(outbox[r], "RETRY_SCHEDULED") EXCEPT !.due = FALSE]]
            /\ order' = [order EXCEPT ![o] = order[o]]
        BY <1>4, <2>10, <3>2 DEF GateBlocked
      <4>2. Freed(outbox[r], "RETRY_SCHEDULED") \in OutboxRow
            /\ Freed(outbox[r], "RETRY_SCHEDULED").status = "RETRY_SCHEDULED"
        BY <1>1, FreedType, FreedKeeps DEF OutboxStatus, Queued
      <4>3. outbox'[r].status = "RETRY_SCHEDULED"
        BY <1>1, <4>1, <4>2 DEF TypeOK, OutboxRow
      <4>4. order'[o] = order[o]
        BY <4>1 DEF TypeOK
      <4> QED
        BY <2>7, <4>3, <4>4
    <3> QED
      BY <3>1, <3>2
  <2>11. CASE CommitMarker(w)
    <3>1. outbox'[r].status = "CLAIMED"
      BY <1>1, <1>2, <2>11 DEF CommitMarker, TypeOK, OutboxRow
    <3> QED
      BY <2>7, <2>11, <3>1 DEF CommitMarker
  <2>12. CASE DispatchPlace(w)
    BY <1>4, <2>3, <2>9, <2>12 DEF DispatchPlace, Send, db
  <2>13. CASE DispatchCancel(w)
    BY <2>1, <2>13 DEF DispatchCancel
  <2>14. CASE Settle(w)
    <3>1. CASE PlaceAcknowledged(w) \/ CancelConfirmed(w)
      BY <2>4, <2>5, <2>6, <2>9, <3>1 DEF PlaceAcknowledged, CancelConfirmed, db
    <3>2. CASE PlaceRejected(w) /\ outbox' # outbox
      <4>1. /\ outbox' = [outbox EXCEPT ![r] = Freed(@, "DEAD_LETTER")]
            /\ order' = [order EXCEPT ![o] = "PROVIDER_REJECTED"]
        BY <1>4, <3>2 DEF PlaceRejected, db
      <4>2. outbox'[r].status = "DEAD_LETTER" /\ order'[o] = "PROVIDER_REJECTED"
        BY <2>4, <2>5, <4>1 DEF TypeOK
      <4> QED
        BY <2>8, <4>2
    <3>3. CASE PlaceRejected(w) /\ outbox' = outbox
      <4>1. outbox'[r].status = "CLAIMED"
        BY <1>2, <3>3
      <4>2. CanMove(order[o], "PROVIDER_REJECTED")
        BY <2>3 DEF CanMove, NextStates
      <4>3. outbox' = [outbox EXCEPT ![r] = Freed(@, "DEAD_LETTER")]
        BY <1>4, <3>3, <4>2 DEF PlaceRejected
      <4>4. outbox'[r].status = "DEAD_LETTER"
        BY <2>4, <2>5, <4>3
      <4> QED
        BY <4>1, <4>4
    <3>4. CASE Ambiguous(w)
      BY <2>4, <2>5, <2>6, <3>4 DEF Ambiguous
    <3> QED
      BY <2>14, <3>1, <3>2, <3>3, <3>4 DEF Settle
  <2> QED
    BY <2>10, <2>11, <2>12, <2>13, <2>14 DEF Handles
<1> QED
  BY <1>3, <1>4

LEMMA DecidesStep ==
    ASSUME Inv, Sending, BatchIsClaimed, PlacementDecides, [Next]_vars
    PROVE  PlacementDecides'
<1> USE DEF Inv
<1> SUFFICES ASSUME NEW o \in Orders, CancelRows(o)' = {}
             PROVE  Decides(o)'
  BY DEF PlacementDecides
<1>1. CancelRows(o) = {}
  <2>1. RowsKept
    BY RowsStep
  <2>2. \A r \in CancelRows(o) : r \in CancelRows(o)'
    BY <2>1 DEF RowsKept, CancelRows
  <2> QED
    BY <2>2
<1>2. Decides(o)
  BY <1>1 DEF PlacementDecides
<1>3. ASSUME UNCHANGED <<order, outbox>> PROVE Decides(o)'
  BY <1>2, <1>3, DecidesKept
<1>4. /\ UNCHANGED vars => UNCHANGED <<order, outbox>>
      /\ \A w \in Workers : Crash(w) => UNCHANGED <<order, outbox>>
  BY DEF vars, Crash, db
<1>5. ASSUME NEW w \in Workers, WorkerStep(w) PROVE Decides(o)'
  BY <1>1, <1>2, <1>5, DecidesPoll, DecidesHandles DEF WorkerStep, Handles
<1>6. ASSUME Next, ~\E w \in Workers : WorkerStep(w) \/ Crash(w) PROVE Decides(o)'
  BY <1>1, <1>2, <1>6, DecidesCalm
<1> QED
  BY <1>3, <1>4, <1>5, <1>6

-----------------------------------------------------------------------------
LEMMA OutcomesInit == Init => Outcomes
<1> SUFFICES ASSUME Init PROVE Outcomes
  OBVIOUS
<1>1. BatchIsClaimed /\ PlacementPends
  BY DEF Init, BatchIsClaimed, PlacementPends
<1>2. CashIsCurrent
  <2> SUFFICES ASSUME NEW o \in BuyOrders
               PROVE  order[o] = "CREATED" /\ cash[o] = "NONE"
    BY DEF CashIsCurrent, Terminal
  <2>1. o \in Orders
    BY OutboxAssumption
  <2> QED
    BY <2>1 DEF Init
<1>3. RowTellsOutcome
  BY DEF Init, RowTellsOutcome, NoRow
<1>4. OneActive
  BY DEF Init, OneActive, NoRow, Driving, Queued
<1>5. PlacementDecides
  BY PlaceRows DEF Init, PlacementDecides, Decides, NoRow, Queued
<1> QED
  BY <1>1, <1>2, <1>3, <1>4, <1>5 DEF Outcomes

LEMMA OutcomesStep ==
    ASSUME Inv, OneWorker, Sending, Receiving, Outcomes, [Next]_vars
    PROVE  Outcomes'
<1> USE DEF Outcomes
<1>1. \A o \in Orders : Moves(o)
  BY MovesStep DEF Receiving
<1>2. BatchIsClaimed' /\ PlacementPends' /\ CashIsCurrent' /\ OneActive' /\ PlacementDecides'
  BY <1>1, ClaimedStep, PendsStep, ReservationStep, OneActiveStep, DecidesStep
<1>3. RowTellsOutcome'
  <2> SUFFICES ASSUME NEW r \in Rows PROVE Tells(r)'
    BY DEF RowTellsOutcome, Tells
  <2>1. OrderOf(r) \in Orders /\ Moves(OrderOf(r)) /\ Tells(r)
    BY <1>1, PlaceRows DEF RowTellsOutcome, Tells
  <2>2. ASSUME NEW w \in Workers, WorkerStep(w) PROVE Tells(r)'
    <3>1. link[OrderOf(r)] # {} => link'[OrderOf(r)] # {}
      BY <2>1, LinksKept
    <3> QED
      BY <2>1, <2>2, <3>1, TellsPoll, TellsHandles DEF WorkerStep, Handles, Receiving
  <2>3. ASSUME UNCHANGED db PROVE Tells(r)'
    BY <2>1, <2>3 DEF db, Tells
  <2>4. /\ UNCHANGED vars => UNCHANGED db
        /\ \A w \in Workers : Crash(w) => UNCHANGED db
    BY DEF vars, Crash
  <2> QED
    BY <2>1, <2>2, <2>3, <2>4, TellsCalm
<1> QED
  BY <1>2, <1>3

LEMMA OutcomesHold == Spec => []((Delivery /\ (OneWorker => Outcomes)))
<1>1. Init => Delivery /\ (OneWorker => Outcomes)
  BY DeliveryInit, OutcomesInit
<1>2. (Delivery /\ (OneWorker => Outcomes)) /\ [Next]_vars
        => (Delivery /\ (OneWorker => Outcomes))'
  <2> SUFFICES ASSUME Delivery, OneWorker => Outcomes, [Next]_vars, OneWorker'
               PROVE  Outcomes'
    BY DeliveryStep
  <2>1. OneWorker /\ OneAtATime
    BY DEF OneAtATime, OneWorker
  <2> QED
    BY <2>1, OutcomesStep DEF Delivery
<1> QED
  BY <1>1, <1>2, PTL DEF Spec

(* Cash is reserved for a buy order from its submission on, released with    *)
(* its move to a final status, whoever - broker answer, local cancel, dead   *)
(* letter, operator - makes it, and held while its placement is not dead.    *)
(* With the placement it is released, unless a cancel was requested.         *)
THEOREM CashFollowsOrder == Spec => [](OneWorker => ReservationFollowsOrder)
<1>1. CashIsCurrent /\ PlacementDecides => ReservationFollowsOrder
  <2> SUFFICES ASSUME CashIsCurrent, PlacementDecides, NEW o \in BuyOrders
               PROVE  /\ cash[o] = "NONE" <=> order[o] = "CREATED"
                      /\ order[o] \in Terminal => cash[o] = "RELEASED"
                      /\ order[o] \notin {"CREATED"} \cup Terminal => cash[o] = "HELD"
                      /\ outbox[PlaceRow(o)].status = "DEAD_LETTER" /\ CancelRows(o) = {}
                         => cash[o] = "RELEASED"
    BY DEF ReservationFollowsOrder
  <2>1. "CREATED" \notin Terminal /\ o \in Orders
    BY OutboxAssumption DEF Terminal
  <2>2. cash[o] = CASE order[o] = "CREATED" -> "NONE"
                    [] order[o] \in Terminal -> "RELEASED"
                    [] OTHER -> "HELD"
    BY DEF CashIsCurrent
  <2>3. outbox[PlaceRow(o)].status = "DEAD_LETTER" /\ CancelRows(o) = {}
          => order[o] \in Terminal
    BY <2>1 DEF PlacementDecides, Decides
  <2> QED
    BY <2>1, <2>2, <2>3
<1>2. (Delivery /\ (OneWorker => Outcomes)) => (OneWorker => ReservationFollowsOrder)
  BY <1>1 DEF Outcomes
<1> QED
  BY <1>2, OutcomesHold, PTL

(* An order has one CANCEL row to send at most; waiting in CANCEL_PENDING it *)
(* has one, unless the outcome of one of its cancels is not known            *)
(* (_cancel_order_internal queues when none is active; process_record and    *)
(* _handle_cancel_action give a row up only with the wait of its order).     *)
THEOREM CancelsAreDriven == Spec => [](OneWorker => CancelPendingIsDriven)
<1>1. WaitIsDriven /\ OneActive => CancelPendingIsDriven
  <2> SUFFICES ASSUME WaitIsDriven, OneActive, NEW o \in Orders
               PROVE  /\ \A r, q \in Sendable(o) : r = q
                      /\ /\ order[o] = "CANCEL_PENDING"
                         /\ \A r \in CancelRows(o) :
                               outbox[r].status # "RECONCILIATION_REQUIRED"
                         => Sendable(o) # {}
    BY DEF CancelPendingIsDriven
  <2>1. \A r, q \in Sendable(o) : r = q
    BY DEF Sendable, CancelRows, OneActive, Driving
  <2>2. ASSUME order[o] = "CANCEL_PENDING",
               \A r \in CancelRows(o) : outbox[r].status # "RECONCILIATION_REQUIRED"
        PROVE  Sendable(o) # {}
    BY <2>2 DEF WaitIsDriven, ActiveCancel, Sendable
  <2> QED
    BY <2>1, <2>2
<1>2. WaitIsDriven /\ (Delivery /\ (OneWorker => Outcomes))
        => (OneWorker => CancelPendingIsDriven)
  BY <1>1 DEF Outcomes
<1> QED
  BY <1>2, WaitsAreDriven, OutcomesHold, PTL

(* The status of a row says what is known of its transmission: a case exists *)
(* exactly for an ambiguous one, and DELIVERED means linked or cancelled.    *)
THEOREM RowsTellOutcomes == Spec => [](OneWorker => RowTellsOutcome)
<1>1. (Delivery /\ (OneWorker => Outcomes)) => (OneWorker => RowTellsOutcome)
  BY DEF Outcomes
<1> QED
  BY <1>1, OutcomesHold, PTL

(* Refinement: with one worker every step of the outbox moves each order     *)
(* along VALID_ORDER_TRANSITIONS or leaves it where it is, also the          *)
(* acknowledgement the code validates from a status it read before the call. *)
LEMMA MovesAreLifecycle ==
    ASSUME TypeOK', \A o \in Orders : Moves(o)
    PROVE  [Lifecycle!Next]_order
<1> DEFINE M == {o \in Orders : order'[o] # order[o]}
<1>1. Lifecycle!Move(M)
  BY DEF Lifecycle!Move, Lifecycle!OrderStatus, Lifecycle!CanMove, Lifecycle!NextStates,
         TypeOK, OrderStatus, Moves, CanMove, NextStates
<1>2. M \in SUBSET Orders
  OBVIOUS
<1> QED
  BY <1>1, <1>2 DEF Lifecycle!Next

THEOREM OrdersFollowLifecycle ==
    ASSUME OneWorker
    PROVE  Spec => FollowsLifecycle
<1>1. Init => Lifecycle!Init
  BY DEF Init, Lifecycle!Init
<1>2. (Delivery /\ (OneWorker => Outcomes)) /\ [Next]_vars => [Lifecycle!Next]_order
  <2> SUFFICES ASSUME Delivery, OneWorker => Outcomes, [Next]_vars
               PROVE  [Lifecycle!Next]_order
    OBVIOUS
  <2>1. OneAtATime /\ Inv /\ Inv'
    BY InvStep DEF OneAtATime, Delivery
  <2>2. \A o \in Orders : Moves(o)
    BY <2>1, MovesStep DEF Delivery, Receiving, Outcomes
  <2> QED
    BY <2>1, <2>2, MovesAreLifecycle DEF Inv
<1> QED
  BY <1>1, <1>2, OutcomesHold, PTL DEF Spec, FollowsLifecycle, Lifecycle!Spec
=============================================================================
