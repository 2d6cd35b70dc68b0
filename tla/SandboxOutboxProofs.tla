------------------------ MODULE SandboxOutboxProofs ------------------------
(***************************************************************************)
(* What is proved of SandboxOutbox for any number of orders, workers,      *)
(* attempts, cancels and crashes, and any batch size.                      *)
(***************************************************************************)
EXTENDS SandboxOutbox, FiniteSetTheorems, TLAPS

(* A worker that is not idle holds a batch, its rows exist, and past the     *)
(* marker the current row is marked.                                         *)
InFlight ==
    \A w \in Workers :
        /\ pc[w] # "idle" => batch[w] # <<>>
        /\ pc[w] \in {"marked", "http"} => outbox[Head(batch[w])].marked
        /\ \A i \in 1..Len(batch[w]) : outbox[batch[w][i]].status # "ABSENT"

(* Nothing has been sent for a row that does not exist.                      *)
AbsentIsUnsent == \A r \in Rows : outbox[r].status = "ABSENT" => sent[r] = 0

(* An order that is not submitted has no PLACE row.                          *)
CreatedHasNoRow ==
    \A o \in Orders : order[o] = "CREATED" => outbox[PlaceRow(o)].status = "ABSENT"

Inv ==
    /\ TypeOK
    /\ InFlight
    /\ AbsentIsUnsent
    /\ CreatedHasNoRow
    /\ MarkerPrecedesTransmission

-----------------------------------------------------------------------------
(* Rows, and the sets of rows a batch is drawn from, are finite.             *)
LEMMA RowsFinite == IsFiniteSet(Rows)
<1>1. IsFiniteSet(0..MaxCancels)
  BY FS_Interval, OutboxAssumption
<1> QED
  BY <1>1, FS_Product, OutboxAssumption DEF Rows

(* A batch is a sequence of rows of the set it is drawn from.                *)
LEMMA BatchIsSequence ==
    ASSUME NEW D \in SUBSET Rows, NEW s \in Batches(D)
    PROVE  /\ s \in Seq(Rows)
           /\ \A i \in 1..Len(s) : s[i] \in D
<1> DEFINE n == IF Cardinality(D) < BatchSize THEN Cardinality(D) ELSE BatchSize
<1>1. n \in Nat
  BY RowsFinite, FS_Subset, FS_CardinalityType, OutboxAssumption
<1>2. s \in [1..n -> D]
  BY DEF Batches
<1> QED
  BY <1>1, <1>2

(* What the handlers write into a row is a row.                              *)
LEMMA NewRowType == NoRow \in OutboxRow /\ NewRow \in OutboxRow
<1>1. 0 \in 0..MaxAttempts
  BY OutboxAssumption
<1>2. NoRow \in OutboxRow
  BY <1>1 DEF NoRow, OutboxRow, OutboxStatus, Queued
<1>3. NewRow \in OutboxRow
  BY <1>2 DEF NewRow, OutboxRow, OutboxStatus, Queued
<1> QED
  BY <1>2, <1>3

LEMMA FreedType ==
    ASSUME NEW row \in OutboxRow, NEW s \in OutboxStatus
    PROVE  Freed(row, s) \in OutboxRow
  BY DEF OutboxRow, Freed

LEMMA ClaimedType ==
    ASSUME NEW row \in OutboxRow, NEW w \in Workers
    PROVE  Claimed(row, w) \in OutboxRow
<1>1. "CLAIMED" \in OutboxStatus
  BY DEF OutboxStatus
<1>2. (IF row.attempts < MaxAttempts THEN row.attempts + 1 ELSE row.attempts)
        \in 0..MaxAttempts
  BY OutboxAssumption DEF OutboxRow
<1> QED
  BY <1>1, <1>2 DEF OutboxRow, Claimed

LEMMA RecoveredType ==
    ASSUME NEW row \in OutboxRow
    PROVE  Recovered(row) \in OutboxRow
  BY FreedType DEF Recovered, OutboxStatus, Queued

(* CREATED is never moved to.                                                *)
LEMMA NothingMovesToCreated ==
    \A s, t \in OrderStatus : CanMove(s, t) => t # "CREATED"
  BY DEF OrderStatus, CanMove, NextStates

-----------------------------------------------------------------------------
(* The current row of a worker that is not idle.                             *)
LEMMA CurrentRow ==
    ASSUME TypeOK, InFlight, NEW w \in Workers, pc[w] # "idle"
    PROVE  /\ Head(batch[w]) \in Rows
           /\ OrderOf(Head(batch[w])) \in Orders
           /\ Tail(batch[w]) \in Seq(Rows)
           /\ outbox[Head(batch[w])] \in OutboxRow
           /\ outbox[Head(batch[w])].status # "ABSENT"
<1>1. batch[w] \in Seq(Rows) /\ batch[w] # <<>>
  BY DEF TypeOK, InFlight
<1>2. Head(batch[w]) = batch[w][1] /\ 1 \in 1..Len(batch[w])
  BY <1>1
<1>3. Head(batch[w]) \in Rows /\ Tail(batch[w]) \in Seq(Rows)
  BY <1>1
<1> QED
  BY <1>2, <1>3 DEF TypeOK, InFlight, Rows, OrderOf

(* Advance and Abandon keep the worker variables in their types.             *)
LEMMA AdvanceType ==
    ASSUME TypeOK, InFlight, NEW w \in Workers, pc[w] # "idle",
           Advance(w) \/ Abandon(w)
    PROVE  /\ batch' \in [Workers -> Seq(Rows)]
           /\ pc' \in [Workers -> {"idle", "batch", "marked", "http"}]
           /\ reply' \in [Workers -> Replies]
<1>1. Tail(batch[w]) \in Seq(Rows) /\ <<>> \in Seq(Rows)
  BY CurrentRow
<1>2. NoReply \in Replies
  BY OutboxAssumption DEF NoReply, Replies
<1> QED
  BY <1>1, <1>2 DEF Advance, Abandon, TypeOK

-----------------------------------------------------------------------------
(* Type correctness.                                                         *)
LEMMA InitType == Init => TypeOK
<1> SUFFICES ASSUME Init PROVE TypeOK
  OBVIOUS
<1>1. NoRow \in OutboxRow
  BY NewRowType
<1>2. NoReply \in Replies
  BY OutboxAssumption DEF NoReply, Replies
<1> QED
  BY <1>1, <1>2, OutboxAssumption DEF Init, TypeOK, OrderStatus, CaseStatus

LEMMA SubmitType ==
    ASSUME TypeOK, NEW o \in Orders, SubmitOrder(o) \/ RequestCancel(o)
    PROVE  TypeOK'
<1>1. CASE SubmitOrder(o)
  BY <1>1, NewRowType DEF SubmitOrder, TypeOK, OrderStatus, workers, broker, PlaceRow
<1>2. CASE RequestCancel(o)
  BY <1>2, NewRowType DEF RequestCancel, TypeOK, OrderStatus, workers, broker
<1> QED
  BY <1>1, <1>2

LEMMA PollType ==
    ASSUME TypeOK, NEW w \in Workers, Poll(w)
    PROVE  TypeOK'
<1> DEFINE stuck == {r \in LapsedRows : outbox[r].marked}
           Row(r) == IF r \in LapsedRows THEN Recovered(outbox[r]) ELSE outbox[r]
           requeued == {r \in LapsedRows : Row(r).status \in Queued}
<1>0. PICK flushed \in SUBSET requeued : \E s \in Batches(DueRows \cup flushed) :
        /\ outbox' = [r \in Rows |->
             IF \E i \in DOMAIN s : s[i] = r THEN Claimed(Row(r), w) ELSE Row(r)]
        /\ batch' = [batch EXCEPT ![w] = s]
        /\ pc' = [pc EXCEPT ![w] = IF s = <<>> THEN "idle" ELSE "batch"]
        /\ txn' = IF s = <<>> THEN Nobody ELSE w
  BY DEF Poll
<1>1. PICK s \in Batches(DueRows \cup flushed) :
        /\ outbox' = [r \in Rows |->
             IF \E i \in DOMAIN s : s[i] = r THEN Claimed(Row(r), w) ELSE Row(r)]
        /\ batch' = [batch EXCEPT ![w] = s]
        /\ pc' = [pc EXCEPT ![w] = IF s = <<>> THEN "idle" ELSE "batch"]
        /\ txn' = IF s = <<>> THEN Nobody ELSE w
  BY <1>0
<1>2. DueRows \cup flushed \in SUBSET Rows
  BY DEF DueRows, LapsedRows
<1>3. s \in Seq(Rows)
  BY <1>2, BatchIsSequence
<1>4. \A r \in Rows : Row(r) \in OutboxRow
  BY RecoveredType DEF TypeOK
<1>5. outbox' \in [Rows -> OutboxRow]
  BY <1>1, <1>4, ClaimedType
<1>6. order' \in [Orders -> OrderStatus]
  BY DEF Poll, TypeOK, OrderStatus
<1>7. recon' \in [Rows -> CaseStatus]
  BY DEF Poll, TypeOK, CaseStatus, Opened
<1>8. /\ batch' \in [Workers -> Seq(Rows)]
      /\ pc' \in [Workers -> {"idle", "batch", "marked", "http"}]
      /\ txn' \in Workers \cup {Nobody}
  BY <1>1, <1>3 DEF TypeOK
<1> QED
  BY <1>5, <1>6, <1>7, <1>8 DEF Poll, TypeOK, broker

LEMMA BatchType ==
    ASSUME TypeOK, InFlight, NEW w \in Workers, GateBlocked(w) \/ CommitMarker(w)
    PROVE  TypeOK'
<1> DEFINE r == Head(batch[w])
           o == OrderOf(r)
<1>0. pc[w] # "idle"
  BY DEF GateBlocked, CommitMarker
<1>1. r \in Rows /\ o \in Orders /\ outbox[r] \in OutboxRow
  BY <1>0, CurrentRow
<1>2. CASE GateBlocked(w)
  <2>1. outbox' \in [Rows -> OutboxRow]
    <3>1. Freed(outbox[r], "DEAD_LETTER") \in OutboxRow
      BY <1>1, FreedType DEF OutboxStatus
    <3>2. [Freed(outbox[r], "RETRY_SCHEDULED") EXCEPT !.due = FALSE] \in OutboxRow
      BY <1>1, FreedType DEF OutboxStatus, Queued, OutboxRow
    <3> QED
      BY <1>2, <3>1, <3>2 DEF GateBlocked, TypeOK
  <2>2. order' \in [Orders -> OrderStatus]
    BY <1>1, <1>2 DEF GateBlocked, TypeOK, StatusAfterDeadLetter, OrderStatus
  <2>3. cash' \in [Orders -> {"NONE", "HELD", "RELEASED"}]
    BY <1>1, <1>2 DEF GateBlocked, TypeOK, Released
  <2>4. txn' \in Workers \cup {Nobody}
    BY <1>2 DEF GateBlocked, NextUncommitted
  <2> QED
    BY <1>0, <1>2, <2>1, <2>2, <2>3, <2>4, AdvanceType
    DEF GateBlocked, NextUncommitted, TypeOK, broker
<1>3. CASE CommitMarker(w)
  <2>1. [outbox[r] EXCEPT !.marked = TRUE] \in OutboxRow
    BY <1>1 DEF OutboxRow
  <2>2. outbox' \in [Rows -> OutboxRow]
    BY <1>3, <2>1 DEF CommitMarker, TypeOK
  <2> QED
    BY <1>3, <2>2 DEF CommitMarker, TypeOK, broker
<1> QED
  BY <1>2, <1>3

LEMMA SendType ==
    ASSUME TypeOK, NEW w \in Workers, NEW r \in Rows, NEW id \in 0..MaxAccepts,
           Send(w, r, id)
    PROVE  /\ wire' \subseteq Requests
           /\ sent' \in [Rows -> 0..2]
           /\ pc' \in [Workers -> {"idle", "batch", "marked", "http"}]
<1>1. [row |-> r, id |-> id, by |-> w] \in Requests
  BY DEF Requests
<1>2. wire' \subseteq Requests
  BY <1>1 DEF Send, TypeOK
<1>3. (IF sent[r] < 2 THEN sent[r] + 1 ELSE sent[r]) \in 0..2
  BY DEF TypeOK
<1> QED
  BY <1>2, <1>3 DEF Send, TypeOK

LEMMA DispatchType ==
    ASSUME TypeOK, InFlight, NEW w \in Workers, DispatchPlace(w) \/ DispatchCancel(w)
    PROVE  TypeOK'
<1> DEFINE r == Head(batch[w])
           o == OrderOf(r)
<1>0. pc[w] # "idle" /\ txn = Nobody
  BY DEF DispatchPlace, DispatchCancel
<1>1. r \in Rows /\ o \in Orders /\ outbox[r] \in OutboxRow
  BY <1>0, CurrentRow
<1>2. ASSUME NEW id \in 0..MaxAccepts, Send(w, r, id),
             UNCHANGED <<crashes, accepted, live, clear>>
      PROVE  TypeOK'
  BY <1>1, <1>2, SendType DEF Send, TypeOK, db
<1>3. CASE DispatchPlace(w)
  <2>1. CASE Send(w, r, 0)
    BY <1>2, <1>3, <2>1, OutboxAssumption DEF DispatchPlace
  <2>2. CASE ~Send(w, r, 0)
    <3>1. /\ outbox' = [outbox EXCEPT ![r].status = "DEAD_LETTER"]
          /\ NextRecord(w)
          /\ UNCHANGED <<order, recon, link, cash, wire, sent>>
      BY <1>3, <2>2 DEF DispatchPlace
    <3>2. [outbox[r] EXCEPT !.status = "DEAD_LETTER"] \in OutboxRow
      BY <1>1 DEF OutboxRow, OutboxStatus
    <3>3. outbox' \in [Rows -> OutboxRow]
      BY <3>1, <3>2 DEF TypeOK
    <3>4. txn' \in Workers \cup {Nobody}
      BY <3>1 DEF NextRecord
    <3> QED
      BY <1>0, <1>3, <3>1, <3>3, <3>4, AdvanceType DEF DispatchPlace, NextRecord, TypeOK
  <2> QED
    BY <2>1, <2>2
<1>4. CASE DispatchCancel(w)
  <2>1. CASE \E id \in link[o] : Send(w, r, id)
    <3>1. PICK id \in link[o] : Send(w, r, id)
      BY <2>1
    <3>2. id \in 0..MaxAccepts
      BY <1>1, OutboxAssumption DEF TypeOK, ProviderIds
    <3> QED
      BY <1>2, <1>4, <3>1, <3>2 DEF DispatchCancel
  <2>2. CASE /\ CanMove(order[o], "CANCELLED")
             /\ order' = [order EXCEPT ![o] = "CANCELLED"]
             /\ cash' = Released(o)
             /\ outbox' = [outbox EXCEPT ![r] = Freed(@, "DELIVERED")]
             /\ NextRecord(w)
             /\ UNCHANGED <<recon, link, wire, sent>>
    <3>1. outbox' \in [Rows -> OutboxRow]
      BY <1>1, <2>2, FreedType DEF TypeOK, OutboxStatus
    <3>2. txn' \in Workers \cup {Nobody}
      BY <2>2 DEF NextRecord
    <3>3. order' \in [Orders -> OrderStatus] /\ cash' \in [Orders -> {"NONE", "HELD", "RELEASED"}]
      BY <1>1, <2>2 DEF TypeOK, OrderStatus, Released
    <3> QED
      BY <1>0, <1>4, <2>2, <3>1, <3>2, <3>3, AdvanceType DEF DispatchCancel, NextRecord, TypeOK
  <2>3. CASE Abandon(w) /\ UNCHANGED <<db, wire, sent>>
    BY <1>0, <1>4, <2>3, AdvanceType DEF DispatchCancel, Abandon, TypeOK, db
  <2> QED
    BY <1>4, <2>1, <2>2, <2>3 DEF DispatchCancel
<1> QED
  BY <1>3, <1>4

(* Every way an answer is handled either writes one final row with its order *)
(* and case, or abandons the batch and writes nothing.                       *)
LEMMA SettleType ==
    ASSUME TypeOK, InFlight, NEW w \in Workers, Settle(w)
    PROVE  TypeOK'
<1> DEFINE r == Head(batch[w])
           o == OrderOf(r)
<1>0. pc[w] # "idle" /\ txn = Nobody
  BY DEF Settle
<1>1. r \in Rows /\ o \in Orders /\ outbox[r] \in OutboxRow
  BY <1>0, CurrentRow
<1>2. \A s \in OutboxStatus :
        [outbox EXCEPT ![r] = Freed(@, s)] \in [Rows -> OutboxRow]
  BY <1>1, FreedType DEF TypeOK
<1>3. {"DELIVERED", "DEAD_LETTER", "RECONCILIATION_REQUIRED"} \subseteq OutboxStatus
  BY DEF OutboxStatus
<1>4. Released(o) \in [Orders -> {"NONE", "HELD", "RELEASED"}]
  BY <1>1 DEF TypeOK, Released
<1>5. ASSUME Abandon(w), UNCHANGED db PROVE TypeOK'
  BY <1>0, <1>5, AdvanceType DEF Settle, Abandon, TypeOK, db, broker
<1>6. ASSUME /\ Advance(w) /\ txn' \in Workers \cup {Nobody}
             /\ order' \in [Orders -> OrderStatus]
             /\ outbox' \in [Rows -> OutboxRow]
             /\ recon' \in [Rows -> CaseStatus]
             /\ link' \in [Orders -> SUBSET ProviderIds]
             /\ cash' \in [Orders -> {"NONE", "HELD", "RELEASED"}]
      PROVE  TypeOK'
  BY <1>0, <1>6, AdvanceType DEF Settle, TypeOK, broker
<1>7. NextRecord(w) => Advance(w) /\ txn' \in Workers \cup {Nobody}
  BY DEF NextRecord
<1>8. CASE PlaceAcknowledged(w)
  <2>1. reply[w].id \in ProviderIds
    BY <1>8 DEF PlaceAcknowledged, TypeOK, Replies
  <2>2. [link EXCEPT ![o] = @ \cup {reply[w].id}] \in [Orders -> SUBSET ProviderIds]
    BY <1>1, <2>1 DEF TypeOK
  <2>3. [order EXCEPT ![o] = "ACKNOWLEDGED"] \in [Orders -> OrderStatus]
    BY <1>1 DEF TypeOK, OrderStatus
  <2>4. CASE Abandon(w) /\ UNCHANGED db
    BY <1>5, <2>4
  <2>5. CASE ~(Abandon(w) /\ UNCHANGED db)
    <3>1. /\ link' = [link EXCEPT ![o] = @ \cup {reply[w].id}]
          /\ order' = [order EXCEPT ![o] = "ACKNOWLEDGED"]
          /\ outbox' = [outbox EXCEPT ![r] = Freed(@, "DELIVERED")]
          /\ NextRecord(w)
          /\ UNCHANGED <<recon, cash>>
      BY <1>8, <2>5 DEF PlaceAcknowledged
    <3> QED
      BY <1>2, <1>3, <1>6, <1>7, <2>2, <2>3, <3>1 DEF TypeOK
  <2> QED
    BY <2>4, <2>5
<1>9. CASE PlaceRejected(w)
  BY <1>1, <1>2, <1>3, <1>4, <1>5, <1>6, <1>7, <1>9
  DEF PlaceRejected, TypeOK, OrderStatus
<1>10. CASE CancelConfirmed(w)
  BY <1>1, <1>2, <1>3, <1>4, <1>5, <1>6, <1>7, <1>10
  DEF CancelConfirmed, TypeOK, OrderStatus
<1>11. CASE Ambiguous(w)
  <2>1. recon' \in [Rows -> CaseStatus]
    BY <1>1, <1>11 DEF Ambiguous, TypeOK, Opened, CaseStatus
  <2> QED
    BY <1>1, <1>2, <1>3, <1>6, <1>7, <1>11, <2>1 DEF Ambiguous, TypeOK, OrderStatus
<1> QED
  BY <1>8, <1>9, <1>10, <1>11 DEF Settle

LEMMA ResolveType ==
    ASSUME TypeOK, NEW r \in Rows, NEW res \in CaseStatus, Resolve(r, res)
    PROVE  TypeOK'
<1> DEFINE o == OrderOf(r)
<1>1. o \in Orders
  BY DEF Rows, OrderOf
<1>2. outbox' \in [Rows -> OutboxRow]
  BY DEF Resolve, RowAfterResolve, TypeOK
<1>3. recon' \in [Rows -> CaseStatus]
  BY DEF Resolve, TypeOK
<1>4. order' \in [Orders -> OrderStatus]
  BY <1>1 DEF Resolve, TypeOK, OrderStatus
<1>5. cash' \in [Orders -> {"NONE", "HELD", "RELEASED"}]
  BY <1>1 DEF Resolve, TypeOK, Released
<1>6. link' \in [Orders -> SUBSET ProviderIds]
  <2>1. CASE res = "PLACE_CONFIRMED" /\ link[o] = {}
    <3>1. accepted[o] \in ProviderIds
      BY <1>1, <2>1, OutboxAssumption DEF Resolve, BrokerAgrees, TypeOK, ProviderIds
    <3> QED
      BY <2>1, <3>1 DEF Resolve, TypeOK
  <2>2. CASE ~(res = "PLACE_CONFIRMED" /\ link[o] = {})
    BY <2>2 DEF Resolve, TypeOK
  <2> QED
    BY <2>1, <2>2
<1> QED
  BY <1>2, <1>3, <1>4, <1>5, <1>6 DEF Resolve, TypeOK, workers, broker

LEMMA AnswerType ==
    ASSUME TypeOK, NEW q \in Requests, NEW a \in Replies, Answer(q, a)
    PROVE  reply' \in [Workers -> Replies]
  BY DEF Answer, TypeOK, Requests

LEMMA BrokerType ==
    ASSUME TypeOK, Broker
    PROVE  TypeOK'
<1>1. PICK q \in wire : BrokerPlaces(q) \/ BrokerCancels(q) \/ RequestLost(q)
  BY DEF Broker
<1> DEFINE o == OrderOf(q.row)
<1>2. q \in Requests /\ o \in Orders
  BY DEF TypeOK, Requests, Rows, OrderOf
<1>3. wire' \subseteq Requests
  BY <1>1 DEF BrokerPlaces, BrokerCancels, RequestLost, TypeOK
<1>4. CASE BrokerPlaces(q)
  <2>1. CASE /\ accepted[o] < MaxAccepts
             /\ accepted' = [accepted EXCEPT ![o] = @ + 1]
             /\ live' = [live EXCEPT ![o] = @ \cup {accepted[o] + 1}]
             /\ Answer(q, [kind |-> "placed", id |-> accepted[o] + 1])
    <3>1. accepted[o] + 1 \in ProviderIds /\ accepted[o] + 1 \in 0..MaxAccepts
      BY <1>2, <2>1, OutboxAssumption DEF TypeOK, ProviderIds
    <3>2. reply' \in [Workers -> Replies]
      BY <1>2, <2>1, <3>1, AnswerType DEF Replies
    <3> QED
      BY <1>2, <1>3, <2>1, <3>1, <3>2 DEF Broker, TypeOK, db
  <2>2. CASE Answer(q, [kind |-> "rejected", id |-> 0]) /\ UNCHANGED <<accepted, live>>
    <3>1. reply' \in [Workers -> Replies]
      BY <1>2, <2>2, AnswerType DEF Replies
    <3> QED
      BY <1>3, <2>2, <3>1 DEF Broker, TypeOK, db
  <2> QED
    BY <1>4, <2>1, <2>2 DEF BrokerPlaces
<1>5. CASE BrokerCancels(q)
  <2>1. q.id \in ProviderIds
    BY <1>2, <1>5 DEF BrokerCancels, TypeOK
  <2>2. reply' \in [Workers -> Replies]
    BY <1>2, <1>5, <2>1, AnswerType DEF BrokerCancels, Replies
  <2> QED
    BY <1>2, <1>3, <1>5, <2>2 DEF BrokerCancels, Broker, TypeOK, db
<1>6. CASE RequestLost(q)
  BY <1>3, <1>6 DEF RequestLost, Broker, TypeOK, db
<1> QED
  BY <1>1, <1>4, <1>5, <1>6

LEMMA TimeType ==
    ASSUME TypeOK, NEW r \in Rows, LeaseLapses(r) \/ BackoffElapses(r)
    PROVE  TypeOK'
<1>1. /\ [outbox[r] EXCEPT !.lease = "lapsed"] \in OutboxRow
      /\ [outbox[r] EXCEPT !.due = TRUE] \in OutboxRow
  BY DEF TypeOK, OutboxRow
<1> QED
  BY <1>1 DEF LeaseLapses, BackoffElapses, TypeOK, workers, broker

LEMMA CrashType ==
    ASSUME TypeOK, InFlight, NEW w \in Workers, Crash(w)
    PROVE  TypeOK'
<1>1. pc[w] # "idle" /\ Abandon(w)
  BY DEF Crash
<1>2. crashes' \in 0..MaxCrashes
  BY OutboxAssumption DEF Crash, TypeOK
<1> QED
  BY <1>1, <1>2, AdvanceType DEF Crash, Abandon, TypeOK, db, broker

(* Every step keeps the types.                                               *)
LEMMA TypeStep ==
    ASSUME TypeOK, InFlight, [Next]_vars
    PROVE  TypeOK'
<1>1. ASSUME NEW w \in Workers, WorkerStep(w) PROVE TypeOK'
  BY <1>1, PollType, BatchType, DispatchType, SettleType DEF WorkerStep
<1>2. ASSUME NEW g \in VaryingGates, MoveGate(g) PROVE TypeOK'
  BY <1>2 DEF MoveGate, TypeOK, db, workers, broker
<1>3. CASE UNCHANGED vars
  BY <1>3 DEF vars, db, workers, broker, TypeOK
<1> QED
  BY <1>1, <1>2, <1>3, SubmitType, CrashType, TimeType, ResolveType, BrokerType DEF Next

-----------------------------------------------------------------------------
(* A row that exists keeps existing and keeps its marker.                    *)
RowsKept ==
    \A r \in Rows : outbox[r].status # "ABSENT" =>
        /\ outbox'[r].status # "ABSENT"
        /\ outbox[r].marked => outbox'[r].marked

(* No row comes into existence.                                              *)
NoNewRow ==
    \A r \in Rows : outbox[r].status = "ABSENT" => outbox'[r].status = "ABSENT"

(* What is written over one existing row leaves it existing and marked.      *)
LEMMA RowWritten ==
    ASSUME TypeOK, NEW r \in Rows, outbox[r].status # "ABSENT",
           NEW row, row.status # "ABSENT", outbox[r].marked => row.marked,
           outbox' = [outbox EXCEPT ![r] = row]
    PROVE  RowsKept /\ NoNewRow
  BY DEF RowsKept, NoNewRow, TypeOK

LEMMA RowsUnchanged ==
    ASSUME UNCHANGED outbox
    PROVE  RowsKept /\ NoNewRow
  BY DEF RowsKept, NoNewRow

LEMMA FreedKeeps ==
    ASSUME NEW row \in OutboxRow, NEW s \in OutboxStatus
    PROVE  Freed(row, s).status = s /\ Freed(row, s).marked = row.marked
  BY DEF Freed, OutboxRow

LEMMA PollRows ==
    ASSUME TypeOK, NEW w \in Workers, Poll(w)
    PROVE  RowsKept /\ NoNewRow
<1> DEFINE Row(r) == IF r \in LapsedRows THEN Recovered(outbox[r]) ELSE outbox[r]
           requeued == {r \in LapsedRows : Row(r).status \in Queued}
<1>1. PICK flushed \in SUBSET requeued : \E s \in Batches(DueRows \cup flushed) :
        outbox' = [r \in Rows |->
             IF \E i \in DOMAIN s : s[i] = r THEN Claimed(Row(r), w) ELSE Row(r)]
  BY DEF Poll
<1>2. PICK s \in Batches(DueRows \cup flushed) :
        outbox' = [r \in Rows |->
             IF \E i \in DOMAIN s : s[i] = r THEN Claimed(Row(r), w) ELSE Row(r)]
  BY <1>1
<1>3. DueRows \cup flushed \in SUBSET Rows
  BY DEF DueRows, LapsedRows
<1>4. \A i \in DOMAIN s : s[i] \in DueRows \cup LapsedRows
  BY <1>3, BatchIsSequence
<1>5. ASSUME NEW r \in Rows
      PROVE  /\ outbox[r].status # "ABSENT" => Row(r).status # "ABSENT"
             /\ outbox[r].status = "ABSENT" => Row(r).status = "ABSENT"
             /\ Row(r).marked = outbox[r].marked
             /\ Row(r) \in OutboxRow
  BY FreedKeeps, RecoveredType DEF Recovered, LapsedRows, TypeOK, OutboxStatus, Queued
<1>6. ASSUME NEW row \in OutboxRow
      PROVE  Claimed(row, w).status = "CLAIMED" /\ Claimed(row, w).marked = row.marked
  BY DEF Claimed, OutboxRow
<1>7. ASSUME NEW r \in Rows, \E i \in DOMAIN s : s[i] = r
      PROVE  outbox[r].status # "ABSENT"
  BY <1>4, <1>7 DEF DueRows, LapsedRows, Queued
<1> QED
  BY <1>2, <1>5, <1>6, <1>7 DEF RowsKept, NoNewRow

LEMMA WorkerRows ==
    ASSUME TypeOK, InFlight, NEW w \in Workers, WorkerStep(w)
    PROVE  RowsKept /\ NoNewRow
<1> DEFINE r == Head(batch[w])
           o == OrderOf(r)
<1>1. CASE Poll(w)
  BY <1>1, PollRows
<1>2. ASSUME pc[w] # "idle"
      PROVE  /\ r \in Rows /\ outbox[r] \in OutboxRow /\ outbox[r].status # "ABSENT"
             /\ \A s \in OutboxStatus \ {"ABSENT"} :
                   outbox' = [outbox EXCEPT ![r] = Freed(@, s)] => RowsKept /\ NoNewRow
  <2>1. r \in Rows /\ outbox[r] \in OutboxRow /\ outbox[r].status # "ABSENT"
    BY <1>2, CurrentRow
  <2>2. ASSUME NEW s \in OutboxStatus \ {"ABSENT"},
               outbox' = [outbox EXCEPT ![r] = Freed(@, s)]
        PROVE  RowsKept /\ NoNewRow
    <3> DEFINE row == Freed(outbox[r], s)
    <3>1. outbox' = [outbox EXCEPT ![r] = row]
      BY <2>1, <2>2
    <3>2. row.status # "ABSENT" /\ row.marked = outbox[r].marked
      BY <2>1, FreedKeeps
    <3> HIDE DEF row
    <3> QED
      BY <2>1, <3>1, <3>2, RowWritten
  <2> QED
    BY <2>1, <2>2
<1>3. CASE GateBlocked(w)
  <2>1. pc[w] # "idle"
    BY <1>3 DEF GateBlocked
  <2>2. CASE outbox' = [outbox EXCEPT ![r] = Freed(@, "DEAD_LETTER")]
    BY <1>2, <2>1, <2>2 DEF OutboxStatus
  <2>3. CASE outbox' = [outbox EXCEPT ![r] =
                          [Freed(@, "RETRY_SCHEDULED") EXCEPT !.due = FALSE]]
    <3> DEFINE row == [Freed(outbox[r], "RETRY_SCHEDULED") EXCEPT !.due = FALSE]
    <3>1. Freed(outbox[r], "RETRY_SCHEDULED") \in OutboxRow
      BY <1>2, <2>1, FreedType DEF OutboxStatus, Queued
    <3>2. row.status = "RETRY_SCHEDULED" /\ row.marked = outbox[r].marked
      BY <1>2, <2>1, <3>1, FreedKeeps DEF OutboxRow, OutboxStatus, Queued
    <3>3. outbox' = [outbox EXCEPT ![r] = row]
      BY <1>2, <2>1, <2>3
    <3> HIDE DEF row
    <3> QED
      BY <1>2, <2>1, <3>2, <3>3, RowWritten
  <2> QED
    BY <1>3, <2>2, <2>3 DEF GateBlocked
<1>4. CASE CommitMarker(w)
  <2>1. pc[w] # "idle" /\ outbox' = [outbox EXCEPT ![r].marked = TRUE]
    BY <1>4 DEF CommitMarker
  <2> QED
    BY <1>2, <2>1 DEF RowsKept, NoNewRow, TypeOK, OutboxRow
<1>5. CASE DispatchPlace(w)
  <2>1. pc[w] # "idle"
    BY <1>5 DEF DispatchPlace
  <2> DEFINE row == [outbox[r] EXCEPT !.status = "DEAD_LETTER"]
  <2>2. UNCHANGED outbox \/ outbox' = [outbox EXCEPT ![r] = row]
    BY <1>5 DEF DispatchPlace, Send, db
  <2>3. row.status # "ABSENT" /\ row.marked = outbox[r].marked
    BY <1>2, <2>1 DEF OutboxRow
  <2> HIDE DEF row
  <2> QED
    BY <1>2, <2>1, <2>2, <2>3, RowsUnchanged, RowWritten
<1>6. CASE DispatchCancel(w)
  <2>1. pc[w] # "idle"
    BY <1>6 DEF DispatchCancel
  <2>2. UNCHANGED outbox \/ outbox' = [outbox EXCEPT ![r] = Freed(@, "DELIVERED")]
    BY <1>6 DEF DispatchCancel, Send, db
  <2> QED
    BY <1>2, <2>1, <2>2, RowsUnchanged DEF OutboxStatus
<1>7. CASE Settle(w)
  <2>1. pc[w] # "idle"
    BY <1>7 DEF Settle
  <2>2. \/ UNCHANGED outbox
        \/ \E s \in {"DELIVERED", "DEAD_LETTER", "RECONCILIATION_REQUIRED"} :
              outbox' = [outbox EXCEPT ![r] = Freed(@, s)]
    BY <1>7 DEF Settle, PlaceAcknowledged, PlaceRejected, CancelConfirmed, Ambiguous, db
  <2> QED
    BY <1>2, <2>1, <2>2, RowsUnchanged DEF OutboxStatus
<1> QED
  BY <1>1, <1>3, <1>4, <1>5, <1>6, <1>7 DEF WorkerStep

(* No step removes a row or a marker.                                        *)
LEMMA RowsStep ==
    ASSUME TypeOK, InFlight, CreatedHasNoRow, [Next]_vars
    PROVE  RowsKept
<1>1. ASSUME NEW o \in Orders, SubmitOrder(o) PROVE RowsKept
  <2>1. outbox' = [outbox EXCEPT ![PlaceRow(o)] = NewRow]
        /\ outbox[PlaceRow(o)].status = "ABSENT"
    BY <1>1 DEF SubmitOrder, CreatedHasNoRow
  <2> QED
    BY <2>1 DEF RowsKept, TypeOK
<1>2. ASSUME NEW o \in Orders, RequestCancel(o) PROVE RowsKept
  <2>1. CASE UNCHANGED outbox
    BY <2>1, RowsUnchanged
  <2>2. CASE \E k \in 1..MaxCancels :
               NextCancel(o, k) /\ outbox' = [outbox EXCEPT ![<<o, k>>] = NewRow]
    BY <2>2 DEF NextCancel, RowsKept, TypeOK
  <2> QED
    BY <1>2, <2>1, <2>2 DEF RequestCancel
<1>3. ASSUME NEW r \in Rows, LeaseLapses(r) \/ BackoffElapses(r) PROVE RowsKept
  BY <1>3 DEF LeaseLapses, BackoffElapses, RowsKept, TypeOK, OutboxRow
<1>4. ASSUME NEW r \in Rows, NEW res \in CaseStatus, Resolve(r, res) PROVE RowsKept
  BY <1>4 DEF Resolve, RowAfterResolve, RowsKept, TypeOK
<1>5. CASE UNCHANGED outbox
  BY <1>5, RowsUnchanged
<1>6. UNCHANGED vars => UNCHANGED outbox
  BY DEF vars, db
<1>7. \A w \in Workers : Crash(w) => UNCHANGED outbox
  BY DEF Crash, db
<1>8. \A g \in VaryingGates : MoveGate(g) => UNCHANGED outbox
  BY DEF MoveGate, db
<1>9. Broker => UNCHANGED outbox
  BY DEF Broker, db
<1> QED
  BY <1>1, <1>2, <1>3, <1>4, <1>5, <1>6, <1>7, <1>8, <1>9, WorkerRows DEF Next

(* Only a marked row that exists is sent.                                    *)
LEMMA SentStep ==
    ASSUME TypeOK, InFlight, [Next]_vars, NEW r \in Rows, sent'[r] # sent[r]
    PROVE  outbox[r].status # "ABSENT" /\ outbox[r].marked
<1>1. PICK w \in Workers : DispatchPlace(w) \/ DispatchCancel(w)
  <2>1. ~UNCHANGED sent
    OBVIOUS
  <2> QED
    BY <2>1 DEF Next, vars, broker, SubmitOrder, RequestCancel, WorkerStep, Crash, Poll,
                GateBlocked, CommitMarker, Settle, LeaseLapses, BackoffElapses, Resolve,
                MoveGate, Broker
<1>2. pc[w] = "marked" /\ Head(batch[w]) \in Rows
      /\ outbox[Head(batch[w])].status # "ABSENT"
  BY <1>1, CurrentRow DEF DispatchPlace, DispatchCancel
<1>3. r = Head(batch[w])
  BY <1>1, <1>2 DEF DispatchPlace, DispatchCancel, Send, TypeOK
<1> QED
  BY <1>2, <1>3 DEF InFlight

(* An order leaves CREATED with its PLACE row, and only then.                *)
LEMMA CreatedStep ==
    ASSUME TypeOK, InFlight, CreatedHasNoRow, [Next]_vars
    PROVE  CreatedHasNoRow'
<1> SUFFICES ASSUME NEW o \in Orders, order'[o] = "CREATED"
             PROVE  outbox'[PlaceRow(o)].status = "ABSENT"
  BY DEF CreatedHasNoRow, PlaceRow
<1>0. PlaceRow(o) \in Rows
  BY OutboxAssumption DEF PlaceRow, Rows
<1>1. ASSUME NEW p \in Orders, SubmitOrder(p)
      PROVE  outbox'[PlaceRow(o)].status = "ABSENT"
  <2>1. p # o /\ order[o] = "CREATED"
    BY <1>1 DEF SubmitOrder, TypeOK
  <2> QED
    BY <1>0, <1>1, <2>1 DEF SubmitOrder, CreatedHasNoRow, PlaceRow, TypeOK
<1>2. ASSUME NEW p \in Orders, RequestCancel(p)
      PROVE  outbox'[PlaceRow(o)].status = "ABSENT"
  <2>1. order[o] = "CREATED"
    BY <1>2 DEF RequestCancel, TypeOK
  <2>2. \A k \in 1..MaxCancels : <<p, k>> # PlaceRow(o)
    BY DEF PlaceRow
  <2>3. outbox'[PlaceRow(o)] = outbox[PlaceRow(o)]
    BY <1>0, <1>2, <2>2 DEF RequestCancel, TypeOK
  <2> QED
    BY <2>1, <2>3 DEF CreatedHasNoRow
<1>3. ASSUME order[o] = "CREATED", NoNewRow
      PROVE  outbox'[PlaceRow(o)].status = "ABSENT"
  BY <1>0, <1>3 DEF CreatedHasNoRow, NoNewRow
<1>4. ASSUME NEW w \in Workers, WorkerStep(w)
      PROVE  outbox'[PlaceRow(o)].status = "ABSENT"
  <2>1. CASE Poll(w)
    <3>1. order[o] = "CREATED"
      BY <2>1 DEF Poll
    <3> QED
      BY <1>3, <2>1, <3>1, PollRows
  <2>2. CASE ~Poll(w)
    <3>1. pc[w] # "idle" /\ Head(batch[w]) \in Rows /\ OrderOf(Head(batch[w])) \in Orders
      BY <1>4, <2>2, CurrentRow
      DEF WorkerStep, GateBlocked, CommitMarker, DispatchPlace, DispatchCancel, Settle
    <3>2. \/ UNCHANGED order
          \/ \E s \in OrderStatus \ {"CREATED"} :
                order' = [order EXCEPT ![OrderOf(Head(batch[w]))] = s]
      <4>1. CASE GateBlocked(w)
        BY <3>1, <4>1 DEF GateBlocked, StatusAfterDeadLetter, TypeOK, OrderStatus
      <4>2. CASE CommitMarker(w) \/ DispatchPlace(w) \/ DispatchCancel(w)
        BY <4>2 DEF CommitMarker, DispatchPlace, DispatchCancel, Send, db, OrderStatus
      <4>3. CASE Settle(w)
        BY <3>1, <4>3
        DEF Settle, PlaceAcknowledged, PlaceRejected, CancelConfirmed, Ambiguous, db,
            OrderStatus, TypeOK
      <4> QED
        BY <1>4, <2>2, <4>1, <4>2, <4>3 DEF WorkerStep
    <3>3. order[o] = "CREATED"
      BY <3>2 DEF TypeOK
    <3> QED
      BY <1>3, <1>4, <3>3, WorkerRows
  <2> QED
    BY <2>1, <2>2
<1>5. ASSUME NEW r \in Rows, LeaseLapses(r) \/ BackoffElapses(r)
      PROVE  outbox'[PlaceRow(o)].status = "ABSENT"
  <2>1. NoNewRow /\ order[o] = "CREATED"
    BY <1>5 DEF LeaseLapses, BackoffElapses, NoNewRow, TypeOK, OutboxRow
  <2> QED
    BY <1>3, <2>1
<1>6. ASSUME NEW r \in Rows, NEW res \in CaseStatus, Resolve(r, res)
      PROVE  outbox'[PlaceRow(o)].status = "ABSENT"
  <2>1. NoNewRow
    BY <1>6 DEF Resolve, RowAfterResolve, NoNewRow, TypeOK
  <2>2. order[o] = "CREATED"
    BY <1>6 DEF Resolve, TypeOK
  <2> QED
    BY <1>3, <2>1, <2>2
<1>7. CASE UNCHANGED <<order, outbox>>
  BY <1>3, <1>7, RowsUnchanged
<1>8. UNCHANGED vars => UNCHANGED <<order, outbox>>
  BY DEF vars, db
<1>9. /\ \A w \in Workers : Crash(w) => UNCHANGED <<order, outbox>>
      /\ \A g \in VaryingGates : MoveGate(g) => UNCHANGED <<order, outbox>>
      /\ Broker => UNCHANGED <<order, outbox>>
  BY DEF Crash, MoveGate, Broker, db
<1> QED
  BY <1>1, <1>2, <1>4, <1>5, <1>6, <1>7, <1>8, <1>9 DEF Next

-----------------------------------------------------------------------------
(* InFlight is preserved for the worker w that acts, given its new state,    *)
(* and for the others, whose rows are kept.                                  *)
LEMMA ActingWorker ==
    ASSUME TypeOK, InFlight, RowsKept, NEW w \in Workers,
           NEW p, pc' = [pc EXCEPT ![w] = p],
           NEW b, batch' = [batch EXCEPT ![w] = b],
           p # "idle" => b # <<>>,
           p \in {"marked", "http"} => outbox'[Head(b)].marked,
           \A i \in 1..Len(b) : outbox'[b[i]].status # "ABSENT"
    PROVE  InFlight'
<1> SUFFICES ASSUME NEW v \in Workers
             PROVE  /\ pc'[v] # "idle" => batch'[v] # <<>>
                    /\ pc'[v] \in {"marked", "http"} => outbox'[Head(batch'[v])].marked
                    /\ \A i \in 1..Len(batch'[v]) : outbox'[batch'[v][i]].status # "ABSENT"
  BY DEF InFlight
<1>1. CASE v = w
  BY <1>1 DEF TypeOK
<1>2. CASE v # w
  <2>1. pc'[v] = pc[v] /\ batch'[v] = batch[v]
    BY <1>2 DEF TypeOK
  <2>2. \A i \in 1..Len(batch[v]) :
          batch[v][i] \in Rows /\ outbox[batch[v][i]].status # "ABSENT"
    BY DEF TypeOK, InFlight
  <2>3. \A i \in 1..Len(batch[v]) : outbox'[batch[v][i]].status # "ABSENT"
    BY <2>2 DEF RowsKept
  <2>4. CASE pc[v] = "idle"
    BY <2>1, <2>3, <2>4
  <2>5. CASE pc[v] # "idle"
    <3>1. /\ Head(batch[v]) \in Rows
          /\ outbox[Head(batch[v])].status # "ABSENT"
          /\ batch[v] # <<>>
      BY <2>5, CurrentRow DEF InFlight
    <3>2. pc[v] \in {"marked", "http"} => outbox'[Head(batch[v])].marked
      BY <3>1 DEF InFlight, RowsKept
    <3> QED
      BY <2>1, <2>3, <3>1, <3>2
  <2> QED
    BY <2>4, <2>5
<1> QED
  BY <1>1, <1>2

LEMMA OtherWorkers ==
    ASSUME TypeOK, InFlight, RowsKept, UNCHANGED <<pc, batch>>
    PROVE  InFlight'
<1>1. CASE Workers = {}
  BY <1>1 DEF InFlight
<1>2. CASE Workers # {}
  <2>1. PICK w \in Workers : TRUE
    BY <1>2
  <2>2. pc' = [pc EXCEPT ![w] = pc[w]] /\ batch' = [batch EXCEPT ![w] = batch[w]]
    BY DEF TypeOK
  <2>3. \A i \in 1..Len(batch[w]) : outbox'[batch[w][i]].status # "ABSENT"
    <3>1. \A i \in 1..Len(batch[w]) : batch[w][i] \in Rows
      BY DEF TypeOK
    <3> QED
      BY <3>1 DEF InFlight, RowsKept
  <2>4. pc[w] # "idle" => batch[w] # <<>>
    BY DEF InFlight
  <2>5. pc[w] \in {"marked", "http"} => outbox'[Head(batch[w])].marked
    BY CurrentRow DEF InFlight, RowsKept
  <2> HIDE DEF InFlight
  <2> QED
    BY <2>2, <2>3, <2>4, <2>5, ActingWorker
<1> QED
  BY <1>1, <1>2

(* Advance and Abandon leave a tail of the batch.                            *)
LEMMA BatchShrinks ==
    ASSUME TypeOK, InFlight, RowsKept, NEW w \in Workers, pc[w] # "idle",
           Advance(w) \/ Abandon(w)
    PROVE  InFlight'
<1>1. batch[w] \in Seq(Rows) /\ batch[w] # <<>>
  BY DEF TypeOK, InFlight
<1>2. CASE Advance(w)
  <2> DEFINE b == Tail(batch[w])
             p == IF b = <<>> THEN "idle" ELSE "batch"
  <2>1. batch' = [batch EXCEPT ![w] = b] /\ pc' = [pc EXCEPT ![w] = p]
    BY <1>2 DEF Advance
  <2>2. \A i \in 1..Len(b) : i + 1 \in 1..Len(batch[w]) /\ b[i] = batch[w][i + 1]
    BY <1>1
  <2>3. \A i \in 1..Len(batch[w]) : outbox'[batch[w][i]].status # "ABSENT"
    BY <1>1 DEF InFlight, RowsKept
  <2>4. \A i \in 1..Len(b) : outbox'[b[i]].status # "ABSENT"
    BY <2>2, <2>3
  <2>5. (p # "idle" => b # <<>>) /\ p \notin {"marked", "http"}
    OBVIOUS
  <2> HIDE DEF b, p
  <2> QED
    BY <2>1, <2>4, <2>5, ActingWorker
<1>3. CASE Abandon(w)
  <2>1. batch' = [batch EXCEPT ![w] = <<>>] /\ pc' = [pc EXCEPT ![w] = "idle"]
    BY <1>3 DEF Abandon
  <2>2. \A i \in 1..Len(<<>>) : outbox'[<<>>[i]].status # "ABSENT"
    OBVIOUS
  <2> QED
    BY <2>1, <2>2, ActingWorker
<1> QED
  BY <1>2, <1>3

LEMMA InFlightPoll ==
    ASSUME TypeOK, InFlight, NEW w \in Workers, Poll(w)
    PROVE  InFlight'
<1> DEFINE Row(r) == IF r \in LapsedRows THEN Recovered(outbox[r]) ELSE outbox[r]
           requeued == {r \in LapsedRows : Row(r).status \in Queued}
<1>1. PICK flushed \in SUBSET requeued : \E s \in Batches(DueRows \cup flushed) :
        /\ outbox' = [r \in Rows |->
             IF \E i \in DOMAIN s : s[i] = r THEN Claimed(Row(r), w) ELSE Row(r)]
        /\ batch' = [batch EXCEPT ![w] = s]
        /\ pc' = [pc EXCEPT ![w] = IF s = <<>> THEN "idle" ELSE "batch"]
  BY DEF Poll
<1>2. PICK s \in Batches(DueRows \cup flushed) :
        /\ outbox' = [r \in Rows |->
             IF \E i \in DOMAIN s : s[i] = r THEN Claimed(Row(r), w) ELSE Row(r)]
        /\ batch' = [batch EXCEPT ![w] = s]
        /\ pc' = [pc EXCEPT ![w] = IF s = <<>> THEN "idle" ELSE "batch"]
  BY <1>1
<1>3. DueRows \cup flushed \in SUBSET Rows
  BY DEF DueRows, LapsedRows
<1>4. s \in Seq(Rows) /\ \A i \in 1..Len(s) : s[i] \in Rows
  BY <1>3, BatchIsSequence
<1>5. \A r \in Rows : Row(r) \in OutboxRow
  BY RecoveredType DEF TypeOK
<1>6. \A row \in OutboxRow : Claimed(row, w).status = "CLAIMED"
  BY DEF Claimed, OutboxRow
<1>7. \A i \in 1..Len(s) : outbox'[s[i]].status # "ABSENT"
  BY <1>2, <1>4, <1>5, <1>6
<1> DEFINE p == IF s = <<>> THEN "idle" ELSE "batch"
<1>8. /\ pc' = [pc EXCEPT ![w] = p]
      /\ batch' = [batch EXCEPT ![w] = s]
      /\ p # "idle" => s # <<>>
      /\ p \notin {"marked", "http"}
  BY <1>2
<1> HIDE DEF p
<1> QED
  BY <1>7, <1>8, PollRows, ActingWorker

LEMMA InFlightStep ==
    ASSUME TypeOK, InFlight, CreatedHasNoRow, [Next]_vars
    PROVE  InFlight'
<1>0. RowsKept
  BY RowsStep
<1>1. ASSUME NEW w \in Workers, CommitMarker(w) PROVE InFlight'
  <2>1. batch[w] \in Seq(Rows) /\ batch[w] # <<>> /\ Head(batch[w]) \in Rows
    BY <1>1, CurrentRow DEF CommitMarker, TypeOK, InFlight
  <2>2. outbox'[Head(batch[w])].marked
    BY <1>1, <2>1 DEF CommitMarker, TypeOK, OutboxRow
  <2>3. \A i \in 1..Len(batch[w]) : outbox'[batch[w][i]].status # "ABSENT"
    BY <1>0, <2>1 DEF InFlight, RowsKept
  <2>4. pc' = [pc EXCEPT ![w] = "marked"] /\ batch' = [batch EXCEPT ![w] = batch[w]]
    BY <1>1 DEF CommitMarker, TypeOK
  <2> QED
    BY <1>0, <2>1, <2>2, <2>3, <2>4, ActingWorker
<1>2. ASSUME NEW w \in Workers, NEW r, NEW id, pc[w] = "marked", Send(w, r, id)
      PROVE  InFlight'
  <2>1. batch[w] # <<>> /\ outbox'[Head(batch[w])].marked
    BY <1>0, <1>2, CurrentRow DEF InFlight, RowsKept
  <2>2. \A i \in 1..Len(batch[w]) : outbox'[batch[w][i]].status # "ABSENT"
    BY <1>0 DEF TypeOK, InFlight, RowsKept
  <2>3. pc' = [pc EXCEPT ![w] = "http"] /\ batch' = [batch EXCEPT ![w] = batch[w]]
    BY <1>2 DEF Send, TypeOK
  <2> QED
    BY <1>0, <2>1, <2>2, <2>3, ActingWorker
<1>3. ASSUME NEW w \in Workers, pc[w] # "idle",
             NextRecord(w) \/ NextUncommitted(w) \/ Abandon(w)
      PROVE  InFlight'
  BY <1>0, <1>3, BatchShrinks DEF NextRecord, NextUncommitted
<1>4. ASSUME NEW w \in Workers, WorkerStep(w) PROVE InFlight'
  <2>1. CASE GateBlocked(w)
    BY <1>3, <2>1 DEF GateBlocked
  <2>2. CASE DispatchPlace(w)
    BY <1>2, <1>3, <2>2 DEF DispatchPlace
  <2>3. CASE DispatchCancel(w)
    BY <1>2, <1>3, <2>3 DEF DispatchCancel
  <2>4. CASE Settle(w)
    BY <1>3, <2>4 DEF Settle, PlaceAcknowledged, PlaceRejected, CancelConfirmed, Ambiguous
  <2> QED
    BY <1>1, <1>4, <2>1, <2>2, <2>3, <2>4, InFlightPoll DEF WorkerStep
<1>5. ASSUME NEW w \in Workers, Crash(w) PROVE InFlight'
  BY <1>3, <1>5 DEF Crash
<1>6. ASSUME UNCHANGED <<pc, batch>> PROVE InFlight'
  BY <1>0, <1>6, OtherWorkers
<1>7. /\ UNCHANGED vars => UNCHANGED <<pc, batch>>
      /\ \A o \in Orders : SubmitOrder(o) \/ RequestCancel(o) => UNCHANGED <<pc, batch>>
      /\ \A r \in Rows : LeaseLapses(r) \/ BackoffElapses(r) => UNCHANGED <<pc, batch>>
      /\ \A r \in Rows, res \in CaseStatus : Resolve(r, res) => UNCHANGED <<pc, batch>>
      /\ \A g \in VaryingGates : MoveGate(g) => UNCHANGED <<pc, batch>>
      /\ Broker => UNCHANGED <<pc, batch>>
  BY DEF vars, workers, SubmitOrder, RequestCancel, LeaseLapses, BackoffElapses, Resolve,
         MoveGate, Broker
<1> QED
  BY <1>4, <1>5, <1>6, <1>7 DEF Next

-----------------------------------------------------------------------------
LEMMA InvInit == Init => Inv
<1> SUFFICES ASSUME Init PROVE Inv
  OBVIOUS
<1>1. InFlight
  BY DEF Init, InFlight
<1>2. AbsentIsUnsent /\ MarkerPrecedesTransmission
  BY DEF Init, AbsentIsUnsent, MarkerPrecedesTransmission
<1>3. CreatedHasNoRow
  BY OutboxAssumption DEF Init, CreatedHasNoRow, PlaceRow, Rows, NoRow
<1> QED
  BY <1>1, <1>2, <1>3, InitType DEF Inv

LEMMA InvStep == Inv /\ [Next]_vars => Inv'
<1> SUFFICES ASSUME Inv, [Next]_vars PROVE Inv'
  OBVIOUS
<1> USE DEF Inv
<1>1. RowsKept
  BY RowsStep
<1>2. TypeOK'
  BY TypeStep
<1>3. InFlight'
  BY InFlightStep
<1>4. CreatedHasNoRow'
  BY CreatedStep
<1>5. AbsentIsUnsent'
  <2> SUFFICES ASSUME NEW r \in Rows, outbox'[r].status = "ABSENT"
               PROVE  sent'[r] = 0
    BY DEF AbsentIsUnsent
  <2>1. outbox[r].status = "ABSENT"
    BY <1>1 DEF RowsKept
  <2>2. sent'[r] = sent[r]
    BY <2>1, SentStep
  <2> QED
    BY <2>1, <2>2 DEF AbsentIsUnsent
<1>6. MarkerPrecedesTransmission'
  <2> SUFFICES ASSUME NEW r \in Rows, sent'[r] > 0
               PROVE  outbox'[r].marked
    BY DEF MarkerPrecedesTransmission
  <2>1. CASE sent'[r] = sent[r]
    <3>1. outbox[r].marked /\ outbox[r].status # "ABSENT"
      BY <2>1 DEF MarkerPrecedesTransmission, AbsentIsUnsent
    <3> QED
      BY <1>1, <3>1 DEF RowsKept
  <2>2. CASE sent'[r] # sent[r]
    BY <1>1, <2>2, SentStep DEF RowsKept
  <2> QED
    BY <2>1, <2>2
<1> QED
  BY <1>2, <1>3, <1>4, <1>5, <1>6

(* Inv holds in every reachable state.                                       *)
THEOREM Invariance == Spec => []Inv
  BY InvInit, InvStep, PTL DEF Spec

(* Every variable keeps its type, whatever the constants are.                *)
THEOREM TypeCorrect == Spec => []TypeOK
<1>1. Inv => TypeOK
  BY DEF Inv
<1> QED
  BY <1>1, Invariance, PTL

(* Nothing is sent to the broker for a row whose pre-transmission marker is  *)
(* not durable, whatever the number of workers, crashes, lapsed leases and   *)
(* retries: recovery can always tell that a transmission may have begun.     *)
THEOREM MarkerDurable == Spec => []MarkerPrecedesTransmission
<1>1. Inv => MarkerPrecedesTransmission
  BY DEF Inv
<1> QED
  BY <1>1, Invariance, PTL
=============================================================================
