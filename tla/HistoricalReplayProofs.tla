----------------------- MODULE HistoricalReplayProofs -----------------------
(***************************************************************************)
(* The invariants of HistoricalReplay, proved.                             *)
(*                                                                         *)
(* Shape says what a state looks like, Faithful what has been said so far, *)
(* InOrder, AllSampled and Summed what the points of the subjects and the  *)
(* sums over them are.  Two inductions carry the rest: over the nodes of a *)
(* tree, from the children up, and over the steps of a loop over points,   *)
(* both as an induction over the set of positions reached.                 *)
(***************************************************************************)
EXTENDS HistoricalReplay, FoldLemmas

-----------------------------------------------------------------------------
(* Series and what of them is known.                                         *)
Candle == [at : Nat, close : Nat]

LEMMA SequenceOf ==
    ASSUME NEW A, NEW s \in Seq(A), NEW B, \A k \in 1..Len(s) : s[k] \in B
    PROVE  s \in Seq(B)
<1>1. Len(s) \in Nat /\ s = [k \in 1..Len(s) |-> s[k]]
  OBVIOUS
<1>2. s \in [1..Len(s) -> B]
  BY <1>1
<1> QED
  BY <1>1, <1>2

LEMMA HeadAndTail ==
    ASSUME NEW A, NEW s \in Seq(A), s # <<>>
    PROVE  /\ Head(s) \in A /\ Head(s) = s[1] /\ Len(s) >= 1
           /\ Tail(s) \in Seq(A) /\ Len(Tail(s)) = Len(s) - 1
           /\ \A i \in 1..(Len(s) - 1) : Tail(s)[i] = s[i + 1]
           /\ Tail(s) # <<>> <=> Len(s) > 1
<1>1. Len(s) \in Nat /\ Len(s) # 0
  OBVIOUS
<1>2. Head(s) = s[1] /\ Head(s) \in A
  BY <1>1
<1>3. /\ Tail(s) \in Seq(A) /\ Len(Tail(s)) = Len(s) - 1
      /\ \A i \in 1..(Len(s) - 1) : Tail(s)[i] = s[i + 1]
  BY <1>1
<1>4. Tail(s) # <<>> <=> Len(Tail(s)) # 0
  BY <1>3
<1> QED
  BY <1>1, <1>2, <1>3, <1>4

LEMMA CandleAt ==
    ASSUME NEW s \in Seq(Candle)
    PROVE  \A i \in 1..Len(s) : s[i] \in Candle /\ s[i].at \in Nat
<1>1. \A i \in 1..Len(s) : s[i] \in Candle
  OBVIOUS
<1> QED
  BY <1>1 DEF Candle

LEMMA KnownByIs ==
    ASSUME NEW s \in Seq(Candle), NEW t \in Int
    PROVE  /\ KnownBy(s, t) \in 0..Len(s)
           /\ \A i \in 1..KnownBy(s, t) : s[i].at <= t
           /\ KnownBy(s, t) < Len(s) => s[KnownBy(s, t) + 1].at > t
<1> DEFINE K == {n \in 0..Len(s) : \A i \in 1..n : s[i].at <= t}
<1>1. Max(K) \in K /\ \A n \in K : Max(K) >= n
  <2>1. K \in SUBSET (0..Len(s)) /\ 0 \in K /\ Len(s) \in Nat
    OBVIOUS
  <2> HIDE DEF K
  <2> QED
    BY <2>1, MaxOf
<1>2. KnownBy(s, t) = Max(K)
  BY DEF KnownBy
<1> DEFINE m == Max(K)
<1>3. m \in K /\ m + 1 \notin K
  <2>1. m \in Int /\ ~(m >= m + 1)
    BY <1>1
  <2> HIDE DEF K
  <2> QED
    BY <1>1, <2>1
<1> HIDE DEF m
<1>4. m < Len(s) => s[m + 1].at > t
  <2> SUFFICES ASSUME m < Len(s), ~(s[m + 1].at > t)
               PROVE  FALSE
    OBVIOUS
  <2>1. m \in Int /\ m + 1 \in 1..Len(s)
    BY <1>3
  <2>2. s[m + 1].at \in Nat
    BY <2>1, CandleAt
  <2>3. s[m + 1].at <= t
    BY <2>2
  <2>4. \A i \in 1..(m + 1) : i \in 1..m \/ i = m + 1
    BY <2>1
  <2>5. m + 1 \in 0..Len(s) /\ \A i \in 1..(m + 1) : s[i].at <= t
    BY <1>3, <2>1, <2>3, <2>4
  <2> QED
    BY <1>3, <2>5
<1> QED
  BY <1>2, <1>3, <1>4 DEF m

(* There is only one number like that.                                       *)
LEMMA KnownByOnly ==
    ASSUME NEW s \in Seq(Candle), NEW t \in Int, NEW n \in 0..Len(s),
           \A i \in 1..n : s[i].at <= t,
           n < Len(s) => s[n + 1].at > t
    PROVE  KnownBy(s, t) = n
<1> DEFINE k == KnownBy(s, t)
<1>1. k \in 0..Len(s) /\ (\A i \in 1..k : s[i].at <= t) /\ (k < Len(s) => s[k + 1].at > t)
  BY KnownByIs
<1> HIDE DEF k
<1>2. \A i \in 1..Len(s) : s[i].at \in Nat
  BY CandleAt
<1>3. ~(k < n)
  <2> SUFFICES ASSUME k < n PROVE FALSE
    OBVIOUS
  <2>1. k + 1 \in 1..n /\ k + 1 \in 1..Len(s) /\ k < Len(s)
    BY <1>1
  <2> QED
    BY <1>1, <1>2, <2>1
<1>4. ~(n < k)
  <2> SUFFICES ASSUME n < k PROVE FALSE
    OBVIOUS
  <2>1. n + 1 \in 1..k /\ n + 1 \in 1..Len(s) /\ n < Len(s)
    BY <1>1
  <2> QED
    BY <1>1, <1>2, <2>1
<1> QED
  BY <1>1, <1>3, <1>4 DEF k

(* What was known stays known as it was when a later candle closes.          *)
LEMMA VisibleStays ==
    ASSUME NEW s \in Seq(Candle), NEW c \in Candle, NEW t \in Int, c.at > t
    PROVE  Visible(Append(s, c), t) = Visible(s, t)
<1> DEFINE k == KnownBy(s, t)
           r == Append(s, c)
<1>1. k \in 0..Len(s) /\ (\A i \in 1..k : s[i].at <= t) /\ (k < Len(s) => s[k + 1].at > t)
  BY KnownByIs
<1>2. r \in Seq(Candle) /\ Len(r) = Len(s) + 1 /\ r[Len(s) + 1] = c
      /\ \A i \in 1..Len(s) : r[i] = s[i]
  OBVIOUS
<1> HIDE DEF k, r
<1>3. KnownBy(r, t) = k
  <2>1. k \in 0..Len(r) /\ \A i \in 1..k : r[i].at <= t
    BY <1>1, <1>2
  <2>2. r[k + 1].at > t
    <3>1. CASE k < Len(s)
      BY <1>1, <1>2, <3>1
    <3>2. CASE k = Len(s)
      BY <1>2, <3>2
    <3> QED
      BY <1>1, <3>1, <3>2
  <2> QED
    BY <1>2, <2>1, <2>2, KnownByOnly
<1>4. SubSeq(r, 1, k) = SubSeq(s, 1, k)
  BY <1>1, <1>2
<1> QED
  BY <1>3, <1>4 DEF Visible, k, r

(* At the last close everything is known.                                    *)
LEMMA VisibleAll ==
    ASSUME NEW s \in Seq(Candle), NEW t \in Int, \A i \in 1..Len(s) : s[i].at <= t
    PROVE  Visible(s, t) = s
<1>1. KnownBy(s, t) = Len(s)
  BY KnownByOnly
<1>2. SubSeq(s, 1, Len(s)) = s
  OBVIOUS
<1> QED
  BY <1>1, <1>2 DEF Visible

LEMMA VisibleType ==
    ASSUME NEW s \in Seq(Candle), NEW t \in Int
    PROVE  /\ Visible(s, t) \in Seq(Candle)
           /\ Visible(s, t) # <<>> => s # <<>>
<1>1. KnownBy(s, t) \in 0..Len(s)
  BY KnownByIs
<1>2. Visible(s, t) = SubSeq(s, 1, KnownBy(s, t))
  BY DEF Visible
<1> QED
  BY <1>1, <1>2

-----------------------------------------------------------------------------
(* One condition, over a series and over its first n candles.                *)
Sound(c) ==
    \A operand \in {c.lhs, c.rhs} :
       operand.kind = "average" => operand.period \in Nat \ {0}

LEMMA ValueStays ==
    ASSUME NEW s \in Seq(Candle), NEW n \in 0..Len(s), NEW x, NEW i \in 0..n, Known(x, i),
           x.kind # "range",
           x.kind = "average" => x.period \in Nat \ {0}
    PROVE  Value(x, SubSeq(s, 1, n), i) = Value(x, s, i)
<1>1. CASE x.kind = "number"
  BY <1>1 DEF Value
<1>2. CASE x.kind = "average"
  <2>1. x.period \in Nat \ {0} /\ i >= x.period
    BY <1>2 DEF Known
  <2> DEFINE a == i - x.period + 1
  <2>2. a \in 1..(n + 1) /\ i \in 0..n
    BY <2>1
  <2> HIDE DEF a
  <2>3. SubSeq(SubSeq(s, 1, n), a, i) = SubSeq(s, a, i)
    BY <2>2
  <2> QED
    BY <1>2, <2>3 DEF Value, a
<1>3. x.kind \in {"number", "average"}
  BY DEF Known
<1> QED
  BY <1>1, <1>2, <1>3

LEMMA HoldsStays ==
    ASSUME NEW s \in Seq(Candle), NEW n \in 0..Len(s), NEW c, Sound(c), NEW i \in 1..n,
           ~Malformed(c), ~Incomparable(c), Ready(c, i)
    PROVE  Holds(c, SubSeq(s, 1, n), i) <=> Holds(c, s, i)
<1> DEFINE r == SubSeq(s, 1, n)
<1>1. c.lhs.kind = "average" /\ (c.rhs.kind = "range" <=> c.operator = "BETWEEN")
  BY DEF Malformed, Incomparable
<1>2. /\ c.lhs.kind = "average" => c.lhs.period \in Nat \ {0}
      /\ c.rhs.kind = "average" => c.rhs.period \in Nat \ {0}
  BY DEF Sound
<1>3. Value(c.lhs, r, i) = Value(c.lhs, s, i)
  BY <1>1, <1>2, ValueStays DEF Ready
<1>4. c.operator # "BETWEEN" => Value(c.rhs, r, i) = Value(c.rhs, s, i)
  BY <1>1, <1>2, ValueStays DEF Ready
<1>5. c.operator \in Crossings => /\ Value(c.lhs, r, i - 1) = Value(c.lhs, s, i - 1)
                                  /\ Value(c.rhs, r, i - 1) = Value(c.rhs, s, i - 1)
  <2> SUFFICES ASSUME c.operator \in Crossings
               PROVE  /\ Value(c.lhs, r, i - 1) = Value(c.lhs, s, i - 1)
                      /\ Value(c.rhs, r, i - 1) = Value(c.rhs, s, i - 1)
    OBVIOUS
  <2>1. Known(c.lhs, i - 1) /\ Known(c.rhs, i - 1) /\ i - 1 \in 0..n
    BY DEF Ready
  <2>2. c.rhs.kind # "range"
    BY <1>1 DEF Crossings
  <2> QED
    BY <1>1, <1>2, <2>1, <2>2, ValueStays
<1> HIDE DEF r
<1>6. c.operator = "BETWEEN" => (Holds(c, r, i) <=> Holds(c, s, i))
  BY <1>3 DEF Holds
<1>7. c.operator \in Crossings => (Holds(c, r, i) <=> Holds(c, s, i))
  BY <1>3, <1>4, <1>5 DEF Holds, Crossings
<1>8. c.operator \notin Crossings \cup {"BETWEEN"} => (Holds(c, r, i) <=> Holds(c, s, i))
  BY <1>3, <1>4 DEF Holds, Crossings
<1> QED
  BY <1>6, <1>7, <1>8 DEF r

LEMMA RawStays ==
    ASSUME NEW s \in Seq(Candle), NEW n \in 0..Len(s), NEW c, Sound(c), NEW i \in 1..n,
           ~Malformed(c), ~Incomparable(c)
    PROVE  Raw(c, SubSeq(s, 1, n), i) = Raw(c, s, i)
  BY HoldsStays DEF Raw

(* Once warm, warm for ever.                                                 *)
LEMMA ReadyStays ==
    ASSUME NEW c, Sound(c), NEW n \in Nat, Ready(c, n)
    PROVE  Ready(c, n + 1)
<1>1. ASSUME NEW x \in {c.lhs, c.rhs}, NEW i \in Int, Known(x, i)
      PROVE  Known(x, i + 1)
  BY <1>1 DEF Known, Sound
<1>2. n = (n - 1) + 1 /\ n - 1 \in Int
  OBVIOUS
<1> QED
  BY <1>1, <1>2 DEF Ready

(* The ages of the triggers that a condition has when n candles are known.   *)
Ages(c, s, n) == {age \in 0..Horizon : age < n /\ Raw(c, s, n - age) = "TRUE"}

LEMMA LeafStatusIs ==
    ASSUME NEW s \in Seq(Candle), NEW n \in 0..Len(s), NEW c, Sound(c)
    PROVE  LeafStatus(c, SubSeq(s, 1, n)) =
              IF Malformed(c) THEN "INVALID"
              ELSE IF ~Ready(c, n) THEN "UNAVAILABLE"
              ELSE IF Incomparable(c) THEN "INVALID"
              ELSE IF Ages(c, s, n) = {} THEN "FALSE"
              ELSE IF Min(Ages(c, s, n)) <= Window THEN "TRUE"
              ELSE "UNAVAILABLE"
<1> DEFINE r == SubSeq(s, 1, n)
<1>1. Len(r) = n
  OBVIOUS
<1>2. CASE Malformed(c) \/ Incomparable(c)
  BY <1>1, <1>2 DEF LeafStatus
<1>3. CASE ~Malformed(c) /\ ~Incomparable(c)
  <2>1. Horizon \in Nat
    BY RuleAssumption DEF Horizon
  <2>2. ASSUME NEW age \in 0..Horizon, age < n
        PROVE  Raw(c, r, n - age) = Raw(c, s, n - age)
    <3>1. n - age \in 1..n
      BY <2>1, <2>2
    <3> QED
      BY <1>3, <3>1, RawStays
  <2>3. {age \in 0..Horizon : age < n /\ Raw(c, r, n - age) = "TRUE"} = Ages(c, s, n)
    BY <2>2 DEF Ages
  <2> HIDE DEF r
  <2>4. LeafStatus(c, r) =
          IF ~Ready(c, n) THEN "UNAVAILABLE"
          ELSE IF Ages(c, s, n) = {} THEN "FALSE"
          ELSE IF Min(Ages(c, s, n)) <= Window THEN "TRUE"
          ELSE "UNAVAILABLE"
    BY <1>1, <1>3, <2>3 DEF LeafStatus
  <2> QED
    BY <1>3, <2>4 DEF r
<1> QED
  BY <1>2, <1>3

(* A candle more makes every trigger one older, and may be one itself.       *)
LEMMA TriggerExpires ==
    ASSUME NEW s \in Seq(Candle), Len(s) > 1, NEW c, Sound(c),
           NEW before, before = LeafStatus(c, SubSeq(s, 1, Len(s) - 1)),
           NEW after, after = LeafStatus(c, SubSeq(s, 1, Len(s)))
    PROVE  /\ before = "TRUE" => after # "FALSE"
           /\ before = "FALSE" => after \in {"TRUE", "FALSE"}
<1> DEFINE n == Len(s) - 1
           A == Ages(c, s, n)
           B == Ages(c, s, n + 1)
<1>1. n \in Nat /\ n \in 0..Len(s) /\ n + 1 = Len(s) /\ n + 1 \in 0..Len(s)
  OBVIOUS
<1>2. Window \in Nat /\ Horizon \in Nat /\ Window + 1 <= Horizon
  BY RuleAssumption DEF Horizon
<1>3. \A age \in A : age + 1 <= Horizon => age + 1 \in B
  <2> SUFFICES ASSUME NEW age \in A, age + 1 <= Horizon
               PROVE  age + 1 \in B
    OBVIOUS
  <2>1. age \in 0..Horizon /\ age < n /\ Raw(c, s, n - age) = "TRUE"
    BY DEF Ages
  <2>2. (n + 1) - (age + 1) = n - age /\ age + 1 \in 0..Horizon /\ age + 1 < n + 1
    BY <1>1, <1>2, <2>1
  <2> HIDE DEF n
  <2> QED
    BY <2>1, <2>2 DEF Ages
<1>4. \A age \in B : age # 0 => age - 1 \in A
  <2> SUFFICES ASSUME NEW age \in B, age # 0
               PROVE  age - 1 \in A
    OBVIOUS
  <2>1. age \in 0..Horizon /\ age < n + 1 /\ Raw(c, s, (n + 1) - age) = "TRUE"
    BY DEF Ages
  <2>2. n - (age - 1) = (n + 1) - age /\ age - 1 \in 0..Horizon /\ age - 1 < n
    BY <1>1, <1>2, <2>1
  <2> HIDE DEF n
  <2> QED
    BY <2>1, <2>2 DEF Ages
<1>5. A \in SUBSET Nat /\ B \in SUBSET Nat
  BY <1>2 DEF Ages
<1> DEFINE Status(T, k) ==
             IF Malformed(c) THEN "INVALID"
             ELSE IF ~Ready(c, k) THEN "UNAVAILABLE"
             ELSE IF Incomparable(c) THEN "INVALID"
             ELSE IF T = {} THEN "FALSE"
             ELSE IF Min(T) <= Window THEN "TRUE"
             ELSE "UNAVAILABLE"
<1>6. before = Status(A, n) /\ after = Status(B, n + 1)
  <2> HIDE DEF n
  <2>1. LeafStatus(c, SubSeq(s, 1, n)) = Status(A, n)
    BY <1>1, LeafStatusIs
  <2>2. LeafStatus(c, SubSeq(s, 1, n + 1)) = Status(B, n + 1)
    BY <1>1, LeafStatusIs
  <2> QED
    BY <1>1, <2>1, <2>2 DEF n
<1> HIDE DEF n, A, B
<1>7. Ready(c, n) => Ready(c, n + 1)
  BY <1>1, ReadyStays
<1>8. A # {} /\ Min(A) <= Window => B # {}
  <2> SUFFICES ASSUME A # {}, Min(A) <= Window
               PROVE  B # {}
    OBVIOUS
  <2>1. Min(A) \in A /\ Min(A) \in Nat
    BY <1>5, MinOf
  <2> QED
    BY <1>2, <1>3, <2>1
<1>9. A = {} /\ B # {} => Min(B) <= Window
  <2> SUFFICES ASSUME A = {}, B # {}
               PROVE  Min(B) <= Window
    OBVIOUS
  <2>1. Min(B) \in B
    BY <1>5, MinOf
  <2>2. Min(B) = 0
    BY <1>4, <2>1
  <2> QED
    BY <1>2, <2>2
<1> QED
  BY <1>6, <1>7, <1>8, <1>9

-----------------------------------------------------------------------------
(* The tree.  A child comes after its parent, so what follows for a node     *)
(* from its children holds of the whole tree.                                *)
FromChildren(A, tree) ==
    \A n \in DOMAIN tree : (\A m \in Walked(tree[n]) : m \in A) => n \in A

LEMMA WalkedLater ==
    ASSUME NEW tree, WellFormed(tree), NEW n \in DOMAIN tree
    PROVE  /\ DOMAIN tree = 1..Len(tree) /\ Len(tree) \in Nat
           /\ Walked(tree[n]) \subseteq (n + 1)..Len(tree)
           /\ Walked(tree[n]) \subseteq DOMAIN tree
<1>1. DOMAIN tree = 1..Len(tree) /\ Len(tree) \in Nat
  BY DEF WellFormed
<1>2. tree[n].children \subseteq (n + 1)..Len(tree)
  BY DEF WellFormed
<1>3. Walked(tree[n]) \subseteq tree[n].children
  BY DEF Walked
<1> QED
  BY <1>1, <1>2, <1>3

LEMMA TreeInduction ==
    ASSUME NEW tree, WellFormed(tree), NEW A, FromChildren(A, tree)
    PROVE  DOMAIN tree \subseteq A
<1> DEFINE size == Len(tree)
           B == {k \in Nat : \A n \in DOMAIN tree : n + k > size => n \in A}
<1>1. DOMAIN tree = 1..size /\ size \in Nat
  BY DEF WellFormed
<1>2. 0 \in B
  BY <1>1
<1>3. ASSUME NEW k \in Nat, k \in B
      PROVE  k + 1 \in B
  <2> SUFFICES ASSUME NEW n \in DOMAIN tree, n + (k + 1) > size
               PROVE  n \in A
    OBVIOUS
  <2>1. ASSUME NEW m \in Walked(tree[n])
        PROVE  m \in A
    <3>1. m \in DOMAIN tree /\ m \in (n + 1)..size
      BY WalkedLater
    <3>2. m + k > size
      BY <1>1, <3>1
    <3> QED
      BY <1>3, <3>1, <3>2
  <2> QED
    BY <2>1 DEF FromChildren
<1>4. size \in B
  <2> HIDE DEF B
  <2> QED
    BY <1>1, <1>2, <1>3, SetInduction
<1>5. \A n \in DOMAIN tree : n + size > size
  BY <1>1
<1> QED
  BY <1>4, <1>5

(* The statuses of the nodes when the leaves have theirs.                    *)
StatusOf(st, tree, leaf, n) ==
    IF IsLeaf(tree[n]) THEN leaf[n]
    ELSE GroupStatus(tree[n].type, {st[m] : m \in Walked(tree[n])})

AreStatuses(st, tree, leaf) == \A n \in DOMAIN tree : st[n] = StatusOf(st, tree, leaf, n)

LEMMA StatusesExist ==
    ASSUME NEW tree, WellFormed(tree), NEW leaf
    PROVE  \E st : AreStatuses(st, tree, leaf) /\ st[1] = TreeStatus(tree, leaf)
<1> DEFINE size == Len(tree)
           Furthest(k) == {n \in DOMAIN tree : n + k > size}
           Solves(g, k) == \A n \in Furthest(k) : g[n] = StatusOf(g, tree, leaf, n)
           B == {k \in Nat : \E g : Solves(g, k)}
           Eq(g) == g = [n \in DOMAIN tree |->
                           IF IsLeaf(tree[n]) THEN leaf[n]
                           ELSE GroupStatus(tree[n].type, {g[m] : m \in Walked(tree[n])})]
           h == CHOOSE g : Eq(g)
<1>1. DOMAIN tree = 1..size /\ size \in Nat
  BY DEF WellFormed
<1>2. 0 \in B
  <2>1. Furthest(0) = {}
    BY <1>1
  <2> QED
    BY <2>1
<1>3. ASSUME NEW k \in Nat, k \in B
      PROVE  k + 1 \in B
  <2>1. PICK g : Solves(g, k)
    BY <1>3
  <2> DEFINE f == [n \in DOMAIN tree |-> StatusOf(g, tree, leaf, n)]
  <2>2. \A n \in Furthest(k) : f[n] = g[n]
    BY <2>1
  <2>3. ASSUME NEW n \in Furthest(k + 1)
        PROVE  f[n] = StatusOf(f, tree, leaf, n)
    <3>1. Walked(tree[n]) \subseteq Furthest(k)
      <4>1. n \in DOMAIN tree /\ n + (k + 1) > size
        OBVIOUS
      <4>2. Walked(tree[n]) \subseteq (n + 1)..size
        BY <4>1, WalkedLater
      <4>3. \A m \in (n + 1)..size : m \in DOMAIN tree /\ m + k > size
        BY <1>1, <4>1
      <4> QED
        BY <4>2, <4>3
    <3>2. {f[m] : m \in Walked(tree[n])} = {g[m] : m \in Walked(tree[n])}
      BY <2>2, <3>1
    <3>3. f[n] = StatusOf(g, tree, leaf, n)
      OBVIOUS
    <3> HIDE DEF f
    <3> QED
      BY <3>2, <3>3 DEF StatusOf
  <2>4. Solves(f, k + 1)
    BY <2>3
  <2> HIDE DEF f, Solves
  <2> QED
    BY <2>4
<1>4. size \in B
  <2> HIDE DEF B
  <2> QED
    BY <1>1, <1>2, <1>3, SetInduction
<1>5. PICK g : Solves(g, size)
  BY <1>4
<1>6. \A n \in DOMAIN tree : g[n] = StatusOf(g, tree, leaf, n)
  <2>1. DOMAIN tree = Furthest(size)
    BY <1>1
  <2> QED
    BY <1>5, <2>1
<1> DEFINE f == [n \in DOMAIN tree |-> g[n]]
<1>7. Eq(f)
  <2>1. ASSUME NEW n \in DOMAIN tree
        PROVE  f[n] = IF IsLeaf(tree[n]) THEN leaf[n]
                      ELSE GroupStatus(tree[n].type, {f[m] : m \in Walked(tree[n])})
    <3>1. Walked(tree[n]) \subseteq DOMAIN tree
      BY WalkedLater
    <3>2. {f[m] : m \in Walked(tree[n])} = {g[m] : m \in Walked(tree[n])}
      BY <3>1
    <3>3. f[n] = StatusOf(g, tree, leaf, n)
      BY <1>6
    <3> HIDE DEF f
    <3> QED
      BY <3>2, <3>3 DEF StatusOf
  <2>2. f = [n \in DOMAIN tree |-> f[n]]
    OBVIOUS
  <2> HIDE DEF f
  <2> QED
    BY <2>1, <2>2, Zenon
<1>8. Eq(h)
  <2> HIDE DEF Eq, f
  <2> QED
    BY <1>7, Zenon
<1>9. TreeStatus(tree, leaf) = h[1]
  BY DEF TreeStatus
<1> HIDE DEF h
<1>10. AreStatuses(h, tree, leaf)
  BY <1>8 DEF AreStatuses, StatusOf
<1> QED
  BY <1>9, <1>10

(* What one walked node of a kind has for children.                          *)
LEMMA WalkedNodes ==
    ASSUME NEW tree, WellFormed(tree), NEW n \in DOMAIN tree
    PROVE  /\ Walked(tree[n]) # {} => tree[n].type \in {"AND", "OR", "NOT"}
           /\ tree[n].type = "NOT" /\ Walked(tree[n]) # {} => \E m : Walked(tree[n]) = {m}
<1>1. Walked(tree[n]) # {} => tree[n].type \in {"AND", "OR", "NOT"}
  BY DEF Walked
<1>2. ASSUME tree[n].type = "NOT", Walked(tree[n]) # {}
      PROVE  \E m : Walked(tree[n]) = {m}
  <2>1. Cardinality(tree[n].children) = 1 /\ Walked(tree[n]) = tree[n].children
    BY <1>2 DEF Walked
  <2>2. IsFiniteSet(tree[n].children)
    <3>1. tree[n].children \in SUBSET ((n + 1)..Len(tree)) /\ n + 1 \in Int /\ Len(tree) \in Int
      BY DEF WellFormed
    <3>2. IsFiniteSet((n + 1)..Len(tree))
      BY <3>1, FS_Interval
    <3> QED
      BY <3>1, <3>2, FS_Subset
  <2> QED
    BY <2>1, <2>2, FS_Singleton
<1> QED
  BY <1>1, <1>2

LEMMA GroupType ==
    ASSUME NEW S, S \subseteq Statuses, NEW type
    PROVE  GroupStatus(type, S) \in Statuses
<1>1. S # {} => (CHOOSE status \in S : TRUE) \in Statuses
  OBVIOUS
<1>2. \A v \in Statuses : Negation(v) \in Statuses
  BY DEF Negation, Statuses
<1>3. Conjunction(S) \in Statuses /\ Disjunction(S) \in Statuses /\ "INVALID" \in Statuses
  BY DEF Conjunction, Disjunction, Statuses
<1>4. S # {} => Negation(CHOOSE status \in S : TRUE) \in Statuses
  BY <1>1, <1>2
<1> QED
  BY <1>3, <1>4 DEF GroupStatus

(* Every node has one of the four statuses when the leaves have.             *)
LEMMA StatusesType ==
    ASSUME NEW tree, WellFormed(tree), NEW leaf, \A n \in Leaves(tree) : leaf[n] \in Statuses,
           NEW st, AreStatuses(st, tree, leaf)
    PROVE  \A n \in DOMAIN tree : st[n] \in Statuses
<1> DEFINE A == {n \in DOMAIN tree : st[n] \in Statuses}
<1>1. ASSUME NEW n \in DOMAIN tree, \A m \in Walked(tree[n]) : m \in A
      PROVE  n \in A
  <2>1. st[n] = StatusOf(st, tree, leaf, n)
    BY DEF AreStatuses
  <2>2. CASE IsLeaf(tree[n])
    BY <2>1, <2>2 DEF Leaves, StatusOf
  <2>3. CASE ~IsLeaf(tree[n])
    <3>1. {st[m] : m \in Walked(tree[n])} \subseteq Statuses
      BY <1>1
    <3> QED
      BY <2>1, <2>3, <3>1, GroupType DEF StatusOf
  <2> QED
    BY <2>2, <2>3
<1>2. FromChildren(A, tree)
  BY <1>1 DEF FromChildren
<1> HIDE DEF A
<1>3. DOMAIN tree \subseteq A
  BY <1>2, TreeInduction
<1> QED
  BY <1>3 DEF A

LEMMA TreeStatusType ==
    ASSUME NEW tree, WellFormed(tree), tree # NoTree,
           NEW leaf, \A n \in Leaves(tree) : leaf[n] \in Statuses
    PROVE  TreeStatus(tree, leaf) \in Statuses
<1>1. 1 \in DOMAIN tree
  BY DEF WellFormed, NoTree
<1>2. PICK st : AreStatuses(st, tree, leaf) /\ st[1] = TreeStatus(tree, leaf)
  BY StatusesExist
<1> QED
  BY <1>1, <1>2, StatusesType

LEMMA EvaluatedType ==
    ASSUME NEW tree, WellFormed(tree), tree # NoTree, NEW s
    PROVE  Evaluated(tree, s) \in Statuses
<1> DEFINE leaf == [n \in Leaves(tree) |-> LeafStatus(tree[n].condition, s)]
<1>1. \A c : LeafStatus(c, s) \in Statuses
  BY DEF LeafStatus, Statuses
<1>2. \A n \in Leaves(tree) : leaf[n] \in Statuses
  BY <1>1
<1> HIDE DEF leaf
<1>3. TreeStatus(tree, leaf) \in Statuses
  BY <1>2, TreeStatusType
<1> QED
  BY <1>3 DEF Evaluated, leaf

(* Answers to what is open do not change a group that has a status.          *)
Firm(v, u) == IF v = "UNAVAILABLE" THEN u # "INVALID" ELSE u = v

Answers(other, leaf, N) == \A n \in N : Firm(leaf[n], other[n])

Of(st, W) == {st[m] : m \in W}

LEMMA GroupAnswered ==
    ASSUME NEW W, NEW type, type = "NOT" => \E m : W = {m},
           NEW st, Of(st, W) \subseteq Statuses,
           NEW ot, Of(ot, W) \subseteq Statuses,
           Answers(ot, st, W)
    PROVE  Firm(GroupStatus(type, Of(st, W)), GroupStatus(type, Of(ot, W)))
<1> USE DEF Of, Firm
<1> DEFINE v == GroupStatus(type, Of(st, W))
           u == GroupStatus(type, Of(ot, W))
           S == {st[m] : m \in W}
           T == {ot[m] : m \in W}
<1>0. \A m \in W : IF st[m] = "UNAVAILABLE" THEN ot[m] # "INVALID" ELSE ot[m] = st[m]
  BY DEF Answers
<1>1. S = {} <=> T = {}
  OBVIOUS
<1>2. \A x \in S : x # "UNAVAILABLE" => x \in T
  BY <1>0
<1>3. \A x \in T : x \in S \/ ("UNAVAILABLE" \in S /\ x # "INVALID")
  BY <1>0
<1>4. S \subseteq Statuses /\ T \subseteq Statuses
  OBVIOUS
<1>5. CASE type = "NOT"
  <2>1. PICK m : W = {m}
    BY <1>5
  <2>2. S = {st[m]} /\ T = {ot[m]} /\ m \in W
    BY <2>1
  <2>3. (CHOOSE x \in S : TRUE) = st[m] /\ (CHOOSE x \in T : TRUE) = ot[m]
    BY <2>2
  <2> HIDE DEF S, T
  <2>4. v = Negation(st[m]) /\ u = Negation(ot[m])
    BY <1>5, <2>2, <2>3 DEF GroupStatus, S, T
  <2>5. st[m] \in Statuses /\ ot[m] \in Statuses
    BY <2>2
  <2> QED
    BY <1>0, <2>2, <2>4, <2>5 DEF Negation, Statuses
<1> HIDE DEF S, T
<1>6. CASE type = "AND" /\ S # {}
  <2>1. v = Conjunction(S) /\ u = Conjunction(T)
    BY <1>1, <1>6 DEF GroupStatus, S, T
  <2> QED
    BY <1>1, <1>2, <1>3, <1>4, <1>6, <2>1 DEF Conjunction, Statuses
<1>7. CASE type = "OR" /\ S # {}
  <2>1. v = Disjunction(S) /\ u = Disjunction(T)
    BY <1>1, <1>7 DEF GroupStatus, S, T
  <2> QED
    BY <1>1, <1>2, <1>3, <1>4, <1>7, <2>1 DEF Disjunction, Statuses
<1>8. CASE S = {} \/ type \notin {"AND", "OR", "NOT"}
  BY <1>1, <1>8 DEF GroupStatus, S, T
<1> QED
  BY <1>5, <1>6, <1>7, <1>8

LEMMA TreeAnswered ==
    ASSUME NEW tree, WellFormed(tree), tree # NoTree,
           NEW leaf, \A n \in Leaves(tree) : leaf[n] \in Statuses,
           NEW other, \A n \in Leaves(tree) : other[n] \in Statuses,
           Answers(other, leaf, Leaves(tree)),
           TreeStatus(tree, leaf) # "UNAVAILABLE"
    PROVE  TreeStatus(tree, other) = TreeStatus(tree, leaf)
<1>1. PICK st : AreStatuses(st, tree, leaf) /\ st[1] = TreeStatus(tree, leaf)
  BY StatusesExist
<1>2. PICK ot : AreStatuses(ot, tree, other) /\ ot[1] = TreeStatus(tree, other)
  BY StatusesExist
<1>3. \A n \in DOMAIN tree : st[n] \in Statuses /\ ot[n] \in Statuses
  BY <1>1, <1>2, StatusesType
<1> DEFINE A == {n \in DOMAIN tree : Firm(st[n], ot[n])}
<1>4. ASSUME NEW n \in DOMAIN tree, \A m \in Walked(tree[n]) : m \in A
      PROVE  n \in A
  <2>1. st[n] = StatusOf(st, tree, leaf, n) /\ ot[n] = StatusOf(ot, tree, other, n)
    BY <1>1, <1>2 DEF AreStatuses
  <2>2. CASE IsLeaf(tree[n])
    BY <2>1, <2>2 DEF Leaves, StatusOf, Answers
  <2>3. CASE ~IsLeaf(tree[n])
    <3> DEFINE W == Walked(tree[n])
    <3>1. Answers(ot, st, W) /\ Of(st, W) \subseteq Statuses /\ Of(ot, W) \subseteq Statuses
      <4>1. W \subseteq DOMAIN tree
        BY WalkedLater
      <4> QED
        BY <1>3, <1>4, <4>1 DEF Answers, Of
    <3>2. st[n] = GroupStatus(tree[n].type, Of(st, W))
          /\ ot[n] = GroupStatus(tree[n].type, Of(ot, W))
      BY <2>1, <2>3 DEF StatusOf, Of
    <3>3. CASE W = {}
      BY <3>2, <3>3 DEF GroupStatus, Of, Firm
    <3>4. CASE W # {}
      <4>1. tree[n].type = "NOT" => \E m : W = {m}
        BY <3>4, WalkedNodes
      <4> DEFINE type == tree[n].type
      <4> HIDE DEF W, type
      <4>2. Firm(GroupStatus(type, Of(st, W)), GroupStatus(type, Of(ot, W)))
        BY <3>1, <4>1, GroupAnswered DEF type
      <4> QED
        BY <3>2, <4>2 DEF type
    <3> QED
      BY <3>3, <3>4
  <2> QED
    BY <2>2, <2>3
<1>5. FromChildren(A, tree)
  BY <1>4 DEF FromChildren
<1> HIDE DEF A
<1>6. DOMAIN tree \subseteq A
  BY <1>5, TreeInduction
<1>7. 1 \in DOMAIN tree
  BY DEF WellFormed, NoTree
<1> QED
  BY <1>1, <1>2, <1>6, <1>7 DEF A, Firm

-----------------------------------------------------------------------------
(* The shapes of the variables.                                              *)
Verdicts == Statuses \cup {Rejected}
Point == [at : 1..LastTime, status : Statuses]
Phases == {"live", "reference", "subject", "summary", "done", "failed"}

SeriesShape ==
    /\ clock \in 0..LastTime
    /\ strategy \in Strategies
    /\ series \in [Datasets -> Seq(Candle)]
    /\ \A d \in Datasets : \A i \in 1..Len(series[d]) : series[d][i].at \in 1..clock
    /\ \A d \in Datasets : \A i, j \in 1..Len(series[d]) :
          i < j => series[d][i].at < series[d][j].at

LiveShape ==
    /\ live \in [SubjectSet -> Seq(Verdicts)]
    /\ \A s \in SubjectSet : Len(live[s]) = clock

ReplayShape ==
    /\ phase \in Phases
    /\ counted \in Nat
    /\ global \subseteq Statuses
    /\ pending \in Seq(1..LastTime)
    /\ waiting \in Seq(SubjectSet)
    /\ points \in [SubjectSet -> Seq(Point)]
    /\ phase = "live" => \A s \in SubjectSet : points[s] = <<>>
    /\ phase # "live" => clock = LastTime
    /\ phase \in {"reference", "subject"} => pending # <<>>
    /\ phase \in {"live", "summary", "done"} => pending = <<>>
    /\ phase = "subject" => waiting # <<>>
    /\ \A i, j \in 1..Len(waiting) : i # j => waiting[i] # waiting[j]

Shape == SeriesShape /\ LiveShape /\ ReplayShape

LEMMA OverallType ==
    ASSUME NEW S
    PROVE  Overall(S) \in Statuses
  BY DEF Overall, Conjunction, Statuses

LEMMA LiveVerdictType ==
    ASSUME NEW st, NEW r, NEW s, NEW t
    PROVE  EvaluateStrategyRules(st, r, s, t) \in Verdicts
  BY OverallType DEF EvaluateStrategyRules, Verdicts

LEMMA SubjectsAre ==
    /\ LastTime \in Nat
    /\ Subjects \in Seq(SubjectSet) /\ Subjects # <<>>
    /\ \A i, j \in 1..Len(Subjects) : i # j => Subjects[i] # Subjects[j]
    /\ Reference \in Datasets /\ SubjectSet \subseteq Datasets
<1>1. Subjects \in Seq(SubjectSet) /\ Subjects # <<>> /\ IsInjective(Subjects)
      /\ LastTime \in Nat
  BY ReplayAssumption
<1>2. \A i, j \in 1..Len(Subjects) : i # j => Subjects[i] # Subjects[j]
  BY <1>1 DEF IsInjective
<1> QED
  BY <1>1, <1>2 DEF Datasets

LEMMA StrategyTrees ==
    ASSUME strategy \in Strategies
    PROVE  \A tree \in {strategy.global, strategy.candidate} \ {NoTree} : WellFormed(tree)
  BY ReplayAssumption

(* The sample is of the instants of reference candles, in their order.       *)
IsSlice(r, s, a, n) ==
    /\ a + n <= Len(s)
    /\ Len(r) = n
    /\ \A i \in 1..n : r[i] = s[a + i]

LEMMA BoundedType ==
    ASSUME NEW s \in Seq(Candle), NEW from \in Nat, NEW to \in Nat
    PROVE  \E a \in Nat : \E n \in Nat : IsSlice(Bounded(s, from, to), s, a, n)
<1> DEFINE before == {i \in DOMAIN s : s[i].at < from}
           after == {i \in DOMAIN s : s[i].at > to}
           a == Cardinality(before)
           b == Cardinality(after)
           r == SubSeq(s, a + 1, Len(s) - b)
<1>1. a \in Nat /\ b \in Nat /\ a <= Len(s) /\ b <= Len(s)
  <2>1. IsFiniteSet(1..Len(s)) /\ Cardinality(1..Len(s)) = Len(s)
    <3>1. 1 \in Int /\ Len(s) \in Nat
      OBVIOUS
    <3> QED
      BY <3>1, FS_Interval
  <2>2. before \subseteq 1..Len(s) /\ after \subseteq 1..Len(s)
    OBVIOUS
  <2>3. IsFiniteSet(before) /\ IsFiniteSet(after)
    BY <2>1, <2>2, FS_Subset
  <2>4. Cardinality(before) <= Len(s) /\ Cardinality(after) <= Len(s)
    BY <2>1, <2>2, FS_Subset
  <2> QED
    BY <2>3, <2>4, FS_CardinalityType
<1>2. Bounded(s, from, to) = r
  BY DEF Bounded
<1> HIDE DEF a, b
<1>3. CASE a + b <= Len(s)
  <2>1. Len(r) = Len(s) - b - a /\ \A i \in 1..Len(r) : r[i] = s[a + i]
    BY <1>1, <1>3
  <2>2. a + Len(r) <= Len(s) /\ Len(r) \in Nat
    BY <1>1, <1>3, <2>1
  <2> HIDE DEF r
  <2>3. IsSlice(r, s, a, Len(r))
    BY <2>1, <2>2 DEF IsSlice
  <2> QED
    BY <1>1, <1>2, <2>2, <2>3
<1>4. CASE a + b > Len(s)
  <2>1. r = <<>>
    BY <1>1, <1>4
  <2> HIDE DEF r
  <2>2. IsSlice(r, s, 0, 0)
    BY <2>1 DEF IsSlice
  <2> QED
    BY <1>2, <2>2
<1> QED
  BY <1>1, <1>3, <1>4

LEMMA SampledType ==
    ASSUME NEW s \in Seq(Candle), NEW r \in Requests,
           \A i, j \in 1..Len(s) : i < j => s[i].at < s[j].at
    PROVE  LET sample == Sampled(s, r.from, r.to, r.step)
           IN /\ sample \in Seq(Nat)
              /\ \A k \in 1..Len(sample) : \E i \in 1..Len(s) : sample[k] = s[i].at
              /\ \A k, m \in 1..Len(sample) : k < m => sample[k] < sample[m]
<1> DEFINE from == r.from  to == r.to  step == r.step
           bounded == Bounded(s, from, to)
           size == (Len(bounded) + step - 1) \div step
           sample == Sampled(s, from, to, step)
           at(i) == (i - 1) * step + 1
<1>1. from \in Nat /\ to \in Nat /\ step \in Nat \ {0}
  BY ReplayAssumption
<1> HIDE DEF from, to, step
<1>2. PICK a \in Nat : \E n \in Nat : IsSlice(bounded, s, a, n)
  BY <1>1, BoundedType
<1>3. PICK n \in Nat : IsSlice(bounded, s, a, n)
  BY <1>2
<1>4. a + n <= Len(s) /\ Len(bounded) = n /\ \A i \in 1..n : bounded[i] = s[a + i]
  BY <1>3 DEF IsSlice
<1>5. sample = [i \in 1..size |-> bounded[at(i)].at]
  BY DEF Sampled
<1> HIDE DEF bounded, sample
<1>6. size \in Nat /\ size * step <= n + step - 1
  BY <1>1, <1>4
<1>7. \A i \in 1..size : at(i) \in 1..n
  <2> SUFFICES ASSUME NEW i \in 1..size
               PROVE  at(i) \in 1..n
    OBVIOUS
  <2>1. i * step <= size * step /\ i * step >= step
    BY <1>1, <1>6
  <2>2. (i - 1) * step = i * step - step
    BY <1>1, <1>6
  <2>3. i * step \in Int /\ size * step \in Int
    BY <1>1, <1>6
  <2> QED
    BY <1>1, <1>4, <1>6, <2>1, <2>2, <2>3
<1>8. \A i, j \in 1..size : i < j => at(i) < at(j)
  <2> SUFFICES ASSUME NEW i \in 1..size, NEW j \in 1..size, i < j
               PROVE  at(i) < at(j)
    OBVIOUS
  <2>1. (j - 1) * step = (i - 1) * step + (j - i) * step
    BY <1>1, <1>6
  <2>2. (j - i) * step >= step
    BY <1>1, <1>6
  <2>3. (i - 1) * step \in Int /\ (j - i) * step \in Int
    BY <1>1, <1>6
  <2> QED
    BY <1>1, <2>1, <2>2, <2>3
<1> HIDE DEF size, at
<1>9. \A k \in 1..size : sample[k] = s[a + at(k)].at /\ a + at(k) \in 1..Len(s)
  BY <1>4, <1>5, <1>6, <1>7
<1>10. \A k \in 1..size : sample[k] \in Nat
  BY <1>9, CandleAt
<1>11. sample \in Seq(Nat) /\ Len(sample) = size
  BY <1>5, <1>6, <1>10
<1>12. ASSUME NEW k \in 1..size, NEW m \in 1..size, k < m
       PROVE  sample[k] < sample[m]
  <2>1. a + at(k) < a + at(m)
    BY <1>4, <1>7, <1>8, <1>12
  <2> QED
    BY <1>9, <2>1
<1> QED
  BY <1>9, <1>11, <1>12 DEF from, to, step, sample

-----------------------------------------------------------------------------
LEMMA InitShape ==
    ASSUME Init
    PROVE  Shape
<1>1. LastTime \in Nat
  BY SubjectsAre
<1>2. SeriesShape
  BY <1>1 DEF Init, SeriesShape
<1>3. LiveShape
  BY DEF Init, LiveShape
<1>4. ReplayShape
  BY DEF Init, ReplayShape, Phases
<1> QED
  BY <1>2, <1>3, <1>4 DEF Shape

(* A close makes every series that has a candle one longer.                  *)
LEMMA CloseSeries ==
    ASSUME Shape, NEW move \in Moves, Close(move), NEW d \in Datasets
    PROVE  \/ move[d] = 0 /\ series'[d] = series[d]
           \/ \E c \in Candle : c.at = clock' /\ series'[d] = Append(series[d], c)
<1>1. move \in [Datasets -> Nat]
  BY ReplayAssumption
<1>2. clock' = clock + 1 /\ clock' \in Nat
  BY SubjectsAre DEF Close, Shape, SeriesShape
<1>3. CASE move[d] = 0
  BY <1>3 DEF Close
<1>4. CASE move[d] # 0
  <2> DEFINE c == [at |-> clock + 1, close |-> move[d]]
  <2>1. series'[d] = Append(series[d], c)
    BY <1>4 DEF Close
  <2>2. c \in Candle /\ c.at = clock'
    BY <1>1, <1>2 DEF Candle
  <2> QED
    BY <2>1, <2>2
<1> QED
  BY <1>3, <1>4

LEMMA CloseShape ==
    ASSUME Shape, NEW move \in Moves, Close(move)
    PROVE  Shape'
<1>1. clock \in Nat /\ clock' = clock + 1 /\ clock' \in 0..LastTime /\ LastTime \in Nat
  BY SubjectsAre DEF Close, Shape, SeriesShape
<1>2. ASSUME NEW d \in Datasets
      PROVE  /\ series'[d] \in Seq(Candle)
             /\ \A i \in 1..Len(series'[d]) : series'[d][i].at \in 1..clock'
             /\ \A i, j \in 1..Len(series'[d]) :
                   i < j => series'[d][i].at < series'[d][j].at
  <2>1. /\ series[d] \in Seq(Candle)
        /\ \A i \in 1..Len(series[d]) : series[d][i].at \in 1..clock
        /\ \A i, j \in 1..Len(series[d]) : i < j => series[d][i].at < series[d][j].at
    BY DEF Shape, SeriesShape
  <2>2. CASE series'[d] = series[d]
    BY <1>1, <2>1, <2>2
  <2>3. ASSUME NEW c \in Candle, c.at = clock', series'[d] = Append(series[d], c)
        PROVE  /\ series'[d] \in Seq(Candle)
               /\ \A i \in 1..Len(series'[d]) : series'[d][i].at \in 1..clock'
               /\ \A i, j \in 1..Len(series'[d]) :
                     i < j => series'[d][i].at < series'[d][j].at
    <3> DEFINE n == Len(series[d])
               r == series'[d]
    <3>1. r \in Seq(Candle) /\ Len(r) = n + 1 /\ r[n + 1] = c /\ n \in Nat
          /\ \A i \in 1..n : r[i] = series[d][i]
      BY <2>1, <2>3
    <3> HIDE DEF r, n
    <3>2. \A i \in 1..(n + 1) : i \in 1..n \/ i = n + 1
      BY <3>1
    <3>3. \A i \in 1..n : r[i].at \in 1..clock
      BY <2>1, <3>1 DEF n
    <3>4. \A i \in 1..(n + 1) : r[i].at \in 1..clock'
      BY <1>1, <2>3, <3>1, <3>2, <3>3
    <3>5. ASSUME NEW i \in 1..(n + 1), NEW j \in 1..(n + 1), i < j
          PROVE  r[i].at < r[j].at
      <4>1. i \in 1..n
        BY <3>1, <3>5
      <4>2. CASE j = n + 1
        BY <1>1, <2>3, <3>1, <3>3, <4>1, <4>2
      <4>3. CASE j \in 1..n
        BY <2>1, <3>1, <3>5, <4>1, <4>3 DEF n
      <4> QED
        BY <3>2, <4>2, <4>3
    <3> QED
      BY <3>1, <3>4, <3>5 DEF r
  <2> QED
    BY <2>2, <2>3, CloseSeries
<1>3. SeriesShape'
  <2>1. series' = [d \in Datasets |-> series'[d]]
    BY DEF Close
  <2>2. strategy' \in Strategies
    BY DEF Close, Shape, SeriesShape
  <2>3. series' \in [Datasets -> Seq(Candle)]
    BY <1>2, <2>1
  <2> QED
    BY <1>1, <1>2, <2>2, <2>3 DEF SeriesShape
<1>4. LiveShape'
  <2>1. ASSUME NEW s \in SubjectSet
        PROVE  live'[s] \in Seq(Verdicts) /\ Len(live'[s]) = clock'
    <3>1. PICK v \in Verdicts : live'[s] = Append(live[s], v)
      BY LiveVerdictType DEF Close
    <3>2. live[s] \in Seq(Verdicts) /\ Len(live[s]) = clock
      BY DEF Shape, LiveShape
    <3> QED
      BY <1>1, <3>1, <3>2
  <2>2. live' = [s \in SubjectSet |-> live'[s]]
    BY DEF Close
  <2>3. live' \in [SubjectSet -> Seq(Verdicts)]
    BY <2>1, <2>2
  <2> QED
    BY <2>1, <2>3 DEF LiveShape
<1>5. ReplayShape'
  BY DEF Close, Shape, ReplayShape
<1> QED
  BY <1>3, <1>4, <1>5 DEF Shape

LEMMA AskShape ==
    ASSUME Shape, NEW r \in Requests, Ask(r)
    PROVE  Shape'
<1> DEFINE sample == Sampled(series[Reference], r.from, r.to, r.step)
<1>1. /\ series[Reference] \in Seq(Candle)
      /\ \A i \in 1..Len(series[Reference]) : series[Reference][i].at \in 1..clock
      /\ \A i, j \in 1..Len(series[Reference]) :
            i < j => series[Reference][i].at < series[Reference][j].at
  BY SubjectsAre DEF Shape, SeriesShape
<1>2. clock = LastTime /\ sample # <<>> /\ pending' = sample /\ phase' = "reference"
  BY DEF Ask
<1>3. /\ sample \in Seq(Nat)
      /\ \A k \in 1..Len(sample) : \E i \in 1..Len(series[Reference]) :
            sample[k] = series[Reference][i].at
  BY <1>1, SampledType
<1> HIDE DEF sample
<1>4. \A k \in 1..Len(sample) : sample[k] \in 1..LastTime
  BY <1>1, <1>2, <1>3
<1>5. sample \in Seq(1..LastTime)
  BY <1>3, <1>4, SequenceOf
<1>6. SeriesShape' /\ LiveShape'
  BY DEF Ask, Shape, SeriesShape, LiveShape
<1>7. ReplayShape'
  BY <1>2, <1>5 DEF Ask, Shape, ReplayShape, Phases
<1> QED
  BY <1>6, <1>7 DEF Shape

-----------------------------------------------------------------------------
(* The walk.  An evaluator that has counted less refuses no node that one    *)
(* that has counted more does not refuse; within the limit they refuse the   *)
(* same ones.                                                                *)
Reached(tree) == {n \in DOMAIN tree : DepthOf(tree)[n] > 0}
Upto(tree, n) == Cardinality({m \in Reached(tree) : m <= n})
Refused(tree, c) ==
    {n \in Reached(tree) : DepthOf(tree)[n] > MaxDepth \/ c + Upto(tree, n) > MaxNodes}

LEMMA WalkIs ==
    ASSUME NEW tree, NEW c
    PROVE  /\ Walk(tree, c).refused = (Refused(tree, c) # {})
           /\ Walk(tree, c).counted =
                c + Upto(tree, IF Refused(tree, c) # {} THEN Min(Refused(tree, c))
                               ELSE Max(Reached(tree)))
<1> DEFINE reached == {n \in DOMAIN tree : DepthOf(tree)[n] > 0}
           number(n) == c + Cardinality({m \in reached : m <= n})
           refused == {n \in reached : DepthOf(tree)[n] > MaxDepth \/ number(n) > MaxNodes}
<1>1. Walk(tree, c) = [refused |-> refused # {},
                       counted |-> IF refused # {} THEN number(Min(refused))
                                   ELSE number(Max(reached))]
  BY DEF Walk
<1>2. reached = Reached(tree)
  BY DEF Reached
<1>3. \A n : number(n) = c + Upto(tree, n)
  BY <1>2 DEF Upto
<1>4. refused = Refused(tree, c)
  BY <1>2, <1>3 DEF Refused
<1> HIDE DEF reached, number, refused
<1> QED
  BY <1>1, <1>2, <1>3, <1>4

LEMMA UptoType ==
    ASSUME NEW tree, WellFormed(tree), NEW n
    PROVE  Upto(tree, n) \in Nat
<1>1. DOMAIN tree = 1..Len(tree) /\ Len(tree) \in Nat
  BY DEF WellFormed
<1>2. {m \in Reached(tree) : m <= n} \subseteq DOMAIN tree
  BY DEF Reached
<1>3. IsFiniteSet(1..Len(tree))
  BY <1>1, FS_Interval
<1> QED
  BY <1>1, <1>2, <1>3, FS_Subset, FS_CardinalityType DEF Upto

LEMMA WalkCounts ==
    ASSUME NEW tree, WellFormed(tree), NEW c \in Nat
    PROVE  Walk(tree, c).counted \in Nat /\ Walk(tree, c).counted >= c
  BY WalkIs, UptoType

LEMMA WalkLess ==
    ASSUME NEW tree, WellFormed(tree), NEW c \in Nat, NEW b \in Nat, b <= c
    PROVE  /\ ~Walk(tree, c).refused => /\ ~Walk(tree, b).refused
                                        /\ Walk(tree, b).counted <= Walk(tree, c).counted
           /\ Walk(tree, c).counted <= MaxNodes =>
                 Walk(tree, b).refused = Walk(tree, c).refused
<1>0. MaxNodes \in Nat
  BY RuleAssumption
<1>1. \A n : b + Upto(tree, n) <= c + Upto(tree, n) /\ Upto(tree, n) \in Nat
  BY UptoType
<1>2. Refused(tree, b) \subseteq Refused(tree, c)
  <2>1. \A n : b + Upto(tree, n) > MaxNodes => c + Upto(tree, n) > MaxNodes
    BY <1>0, <1>1
  <2> QED
    BY <2>1 DEF Refused
<1>3. ASSUME ~Walk(tree, c).refused
      PROVE  ~Walk(tree, b).refused /\ Walk(tree, b).counted <= Walk(tree, c).counted
  <2>1. Refused(tree, c) = {} /\ Refused(tree, b) = {}
    BY <1>2, <1>3, WalkIs
  <2>2. /\ Walk(tree, c).counted = c + Upto(tree, Max(Reached(tree)))
        /\ Walk(tree, b).counted = b + Upto(tree, Max(Reached(tree)))
        /\ ~Walk(tree, b).refused
    BY <2>1, WalkIs
  <2> QED
    BY <1>1, <2>2
<1>4. ASSUME Walk(tree, c).counted <= MaxNodes, Walk(tree, c).refused
      PROVE  Walk(tree, b).refused
  <2>1. Refused(tree, c) # {}
    BY <1>4, WalkIs
  <2> DEFINE m == Min(Refused(tree, c))
  <2>2. Refused(tree, c) \in SUBSET Nat
    <3>1. DOMAIN tree = 1..Len(tree) /\ Len(tree) \in Nat
      BY DEF WellFormed
    <3> QED
      BY <3>1 DEF Refused, Reached
  <2>3. m \in Refused(tree, c)
    BY <2>1, <2>2, MinOf
  <2>4. Walk(tree, c).counted = c + Upto(tree, m)
    BY <2>1, WalkIs
  <2> HIDE DEF m
  <2>5. ~(c + Upto(tree, m) > MaxNodes)
    <3>1. c + Upto(tree, m) <= MaxNodes /\ c + Upto(tree, m) \in Int
      BY <1>1, <1>4, <2>4
    <3> QED
      BY <1>0, <3>1
  <2>6. m \in Refused(tree, b)
    BY <2>3, <2>5 DEF Refused
  <2> QED
    BY <2>6, WalkIs
<1>5. Walk(tree, b).refused \in BOOLEAN /\ Walk(tree, c).refused \in BOOLEAN
  BY WalkIs
<1>6. Walk(tree, c).counted <= MaxNodes => Walk(tree, b).refused = Walk(tree, c).refused
  BY <1>3, <1>4, <1>5
<1> QED
  BY <1>3, <1>6

-----------------------------------------------------------------------------
(* The steps of a replay keep the shapes.                                    *)
LEMMA ReferenceWalk ==
    ASSUME Shape, EvaluateReference
    PROVE  counted' \in Nat /\ counted' >= counted
<1>1. counted \in Nat /\ strategy \in Strategies
  BY DEF Shape, ReplayShape, SeriesShape
<1>2. CASE strategy.global = NoTree
  BY <1>1, <1>2 DEF EvaluateReference
<1>3. CASE strategy.global # NoTree
  <2>1. WellFormed(strategy.global)
    BY <1>1, <1>3, StrategyTrees
  <2>2. counted' = Walk(strategy.global, counted).counted
    BY <1>3 DEF EvaluateReference
  <2> QED
    BY <1>1, <2>1, <2>2, WalkCounts
<1> QED
  BY <1>2, <1>3

LEMMA ReferenceShape ==
    ASSUME Shape, EvaluateReference
    PROVE  Shape'
<1>1. SeriesShape' /\ LiveShape'
  BY DEF EvaluateReference, Shape, SeriesShape, LiveShape
<1>2. phase = "reference" /\ pending' = pending /\ points' = points /\ clock' = clock
  BY DEF EvaluateReference
<1>3. ASSUME phase' = "failed", waiting' = waiting, global' = global
      PROVE  ReplayShape'
  BY <1>2, <1>3, ReferenceWalk DEF Shape, ReplayShape, Phases
<1>4. ASSUME phase' = "subject", waiting' = Subjects,
             global' = {Evaluated(tree, Visible(series[Reference], Now)) :
                           tree \in {strategy.global} \ {NoTree}}
      PROVE  ReplayShape'
  <2>1. \A tree \in {strategy.global} \ {NoTree} : WellFormed(tree)
    BY StrategyTrees DEF Shape, SeriesShape
  <2>2. global' \subseteq Statuses
    BY <1>4, <2>1, EvaluatedType
  <2>3. counted' \in Nat
    BY ReferenceWalk
  <2> QED
    BY <1>2, <1>4, <2>2, <2>3, SubjectsAre DEF Shape, ReplayShape, Phases
<1>5. ReplayShape'
  BY <1>3, <1>4 DEF EvaluateReference
<1> QED
  BY <1>1, <1>5 DEF Shape

LEMMA SubjectVerdictType ==
    ASSUME Shape, phase = "subject"
    PROVE  /\ Now \in 1..LastTime
           /\ Head(waiting) \in SubjectSet
           /\ SubjectVerdict(Head(waiting)).status \in Statuses
           /\ SubjectVerdict(Head(waiting)).counted \in Nat
           /\ SubjectVerdict(Head(waiting)).counted >= counted
<1> DEFINE s == Head(waiting)
           subj == Visible(series[s], Now)
           walk == IF strategy.candidate = NoTree \/ subj = <<>>
                   THEN [refused |-> FALSE, counted |-> counted]
                   ELSE Walk(strategy.candidate, counted)
           candidate == {Evaluated(tree, subj) : tree \in {strategy.candidate} \ {NoTree}}
<1>1. Now \in 1..LastTime /\ s \in SubjectSet
  BY HeadAndTail DEF Shape, ReplayShape, Now
<1>2. SubjectVerdict(s) = [counted |-> walk.counted,
                           status |-> IF subj = <<>> \/ walk.refused THEN "INVALID"
                                      ELSE Overall(global \cup candidate)]
  BY DEF SubjectVerdict
<1>3. walk.counted \in Nat /\ walk.counted >= counted
  <2>1. counted \in Nat /\ strategy \in Strategies
    BY DEF Shape, ReplayShape, SeriesShape
  <2>2. CASE strategy.candidate = NoTree \/ subj = <<>>
    BY <2>1, <2>2
  <2>3. CASE ~(strategy.candidate = NoTree \/ subj = <<>>)
    <3>1. WellFormed(strategy.candidate)
      BY <2>1, <2>3, StrategyTrees
    <3>2. walk = Walk(strategy.candidate, counted)
      BY <2>3
    <3> QED
      BY <2>1, <3>1, <3>2, WalkCounts
  <2> QED
    BY <2>2, <2>3
<1> HIDE DEF subj, walk, candidate
<1>4. SubjectVerdict(s).status \in Statuses
  BY <1>2, OverallType DEF Statuses
<1> QED
  BY <1>1, <1>2, <1>3, <1>4

LEMMA SubjectShape ==
    ASSUME Shape, EvaluateSubject
    PROVE  Shape'
<1> DEFINE s == Head(waiting)
           verdict == SubjectVerdict(s)
<1>1. SeriesShape' /\ LiveShape'
  BY DEF EvaluateSubject, Shape, SeriesShape, LiveShape
<1>2. /\ phase = "subject" /\ clock' = clock /\ global' = global
      /\ counted' = verdict.counted
      /\ points' = [points EXCEPT ![s] = Append(@, [at |-> Now, status |-> verdict.status])]
      /\ waiting' = Tail(waiting)
      /\ IF waiting' # <<>> THEN phase' = phase /\ pending' = pending
         ELSE /\ pending' = Tail(pending)
              /\ phase' = IF Len(pending) > 1 THEN "reference" ELSE "summary"
  BY DEF EvaluateSubject
<1>3. Now \in 1..LastTime /\ s \in SubjectSet /\ verdict.status \in Statuses
      /\ verdict.counted \in Nat
  BY <1>2, SubjectVerdictType
<1> DEFINE point == [at |-> Now, status |-> verdict.status]
<1>4. point \in Point
  BY <1>3 DEF Point
<1> HIDE DEF verdict, point, s
<1>5. points' \in [SubjectSet -> Seq(Point)]
  BY <1>2, <1>3, <1>4 DEF Shape, ReplayShape, point
<1>6. /\ waiting' \in Seq(SubjectSet) /\ pending' \in Seq(1..LastTime)
      /\ \A i, j \in 1..Len(waiting') : i # j => waiting'[i] # waiting'[j]
  <2>1. /\ waiting \in Seq(SubjectSet) /\ waiting # <<>>
        /\ pending \in Seq(1..LastTime) /\ pending # <<>>
        /\ \A i, j \in 1..Len(waiting) : i # j => waiting[i] # waiting[j]
    BY <1>2 DEF Shape, ReplayShape
  <2>2. waiting' \in Seq(SubjectSet) /\ Len(waiting') = Len(waiting) - 1
        /\ \A i \in 1..Len(waiting') : waiting'[i] = waiting[i + 1] /\ i + 1 \in 1..Len(waiting)
    BY <1>2, <2>1
  <2>3. pending' \in Seq(1..LastTime)
    BY <1>2, <2>1, HeadAndTail
  <2>4. ASSUME NEW i \in 1..Len(waiting'), NEW j \in 1..Len(waiting'), i # j
        PROVE  waiting'[i] # waiting'[j]
    <3>1. i + 1 # j + 1
      BY <2>4
    <3> QED
      BY <2>1, <2>2, <3>1
  <2> QED
    BY <2>2, <2>3, <2>4
<1>7. /\ phase' \in Phases \ {"live"}
      /\ phase' \in {"reference", "subject"} => pending' # <<>>
      /\ phase' \in {"live", "summary", "done"} => pending' = <<>>
      /\ phase' = "subject" => waiting' # <<>>
  <2>1. pending \in Seq(1..LastTime) /\ pending # <<>>
    BY <1>2 DEF Shape, ReplayShape
  <2>2. Tail(pending) # <<>> <=> Len(pending) > 1
    BY <2>1, HeadAndTail
  <2> QED
    BY <1>2, <2>1, <2>2 DEF Phases
<1>8. ReplayShape'
  BY <1>2, <1>3, <1>5, <1>6, <1>7 DEF Shape, ReplayShape
<1> QED
  BY <1>1, <1>8 DEF Shape

LEMMA NextShape ==
    ASSUME Shape, [Next]_vars
    PROVE  Shape'
<1>1. ASSUME NEW move \in Moves, Close(move)
      PROVE  Shape'
  BY <1>1, CloseShape
<1>2. ASSUME NEW r \in Requests, Ask(r)
      PROVE  Shape'
  BY <1>2, AskShape
<1>3. CASE Summarise
  BY <1>3 DEF Summarise, Shape, SeriesShape, LiveShape, ReplayShape, Phases
<1>4. CASE UNCHANGED vars
  BY <1>4 DEF vars, Shape, SeriesShape, LiveShape, ReplayShape
<1> QED
  BY <1>1, <1>2, <1>3, <1>4, ReferenceShape, SubjectShape DEF Next

-----------------------------------------------------------------------------
(* A replay says what was said live.  Behind it: what was said live is what  *)
(* an evaluation of the same instant would say now; and while the evaluator  *)
(* has not counted too much, a fresh one would have refused nothing that it  *)
(* has walked.                                                               *)
LiveStands ==
    \A s \in SubjectSet : \A t \in 1..clock :
       Visible(series[s], t) # <<>> =>
          live[s][t] = EvaluateStrategyRules(strategy, series[Reference], series[s], t)

GlobalStands ==
    phase = "subject" =>
       /\ global = {Evaluated(tree, Visible(series[Reference], Now)) :
                       tree \in {strategy.global} \ {NoTree}}
       /\ strategy.global # NoTree => /\ ~Walk(strategy.global, 0).refused
                                      /\ Walk(strategy.global, 0).counted <= counted

ReferenceKnown ==
    \A k \in 1..Len(pending) : Visible(series[Reference], pending[k]) # <<>>

Faithful == LiveStands /\ GlobalStands /\ ReferenceKnown /\ ReplayIsFaithful

LEMMA VisibleThen ==
    ASSUME NEW s \in Seq(Candle), NEW i \in 1..Len(s),
           \A j, k \in 1..Len(s) : j < k => s[j].at < s[k].at
    PROVE  Visible(s, s[i].at) # <<>>
<1> DEFINE t == s[i].at
           n == KnownBy(s, t)
<1>1. t \in Int /\ t \in Nat /\ s[1].at \in Nat /\ 1 \in 1..Len(s) /\ Len(s) \in Nat
  BY CandleAt
<1>2. n \in 0..Len(s) /\ (n < Len(s) => s[n + 1].at > t)
  <2> HIDE DEF t
  <2> QED
    BY <1>1, KnownByIs
<1> HIDE DEF n
<1>3. n # 0
  <2>1. s[1].at <= s[i].at
    <3>1. i = 1 \/ 1 < i
      OBVIOUS
    <3> QED
      BY <1>1, <3>1
  <2> QED
    BY <1>1, <1>2, <2>1
<1>4. Len(SubSeq(s, 1, n)) = n
  BY <1>2
<1> QED
  BY <1>3, <1>4 DEF Visible, n

LEMMA SameLiveVerdict ==
    ASSUME NEW st, NEW t, NEW r, NEW q, Visible(q, t) = Visible(r, t),
           NEW s, NEW u, Visible(u, t) = Visible(s, t), s # <<>>, u # <<>>
    PROVE  EvaluateStrategyRules(st, q, u, t) = EvaluateStrategyRules(st, r, s, t)
  BY DEF EvaluateStrategyRules

LEMMA CloseFaithful ==
    ASSUME Shape, Faithful, NEW move \in Moves, Close(move)
    PROVE  Faithful'
<1>1. clock \in Nat /\ clock' = clock + 1 /\ strategy' = strategy /\ phase = "live"
  BY SubjectsAre DEF Close, Shape, SeriesShape
<1>2. \A d \in Datasets : series[d] \in Seq(Candle)
  BY DEF Shape, SeriesShape
<1>3. ASSUME NEW d \in Datasets, NEW t \in 1..clock
      PROVE  Visible(series'[d], t) = Visible(series[d], t)
  <2>1. CASE series'[d] = series[d]
    BY <2>1
  <2>2. ASSUME NEW c \in Candle, c.at = clock', series'[d] = Append(series[d], c)
        PROVE  Visible(series'[d], t) = Visible(series[d], t)
    <3>1. c.at > t /\ t \in Int
      BY <1>1, <2>2
    <3> QED
      BY <1>2, <2>2, <3>1, VisibleStays
  <2> QED
    BY <2>1, <2>2, CloseSeries
<1>4. ASSUME NEW s \in SubjectSet, NEW t \in 1..clock', Visible(series'[s], t) # <<>>
      PROVE  live'[s][t] = EvaluateStrategyRules(strategy, series'[Reference], series'[s], t)
  <2> DEFINE v == EvaluateStrategyRules(strategy, series'[Reference], series'[s], clock')
  <2>1. live'[s] = Append(live[s], v)
    <3>1. series' = [d \in Datasets |-> IF move[d] = 0 THEN series[d]
                       ELSE Append(series[d], [at |-> clock + 1, close |-> move[d]])]
      BY DEF Close
    <3>2. live'[s] = Append(live[s],
                 EvaluateStrategyRules(strategy, series'[Reference], series'[s], clock + 1))
      BY <3>1 DEF Close
    <3> QED
      BY <1>1, <3>2
  <2>2. live[s] \in Seq(Verdicts) /\ Len(live[s]) = clock /\ v \in Verdicts
    BY LiveVerdictType DEF Shape, LiveShape
  <2> HIDE DEF v
  <2>3. CASE t = clock'
    <3>1. live'[s][t] = v
      BY <1>1, <2>1, <2>2, <2>3
    <3> QED
      BY <2>3, <3>1 DEF v
  <2>4. CASE t \in 1..clock
    <3>1. live'[s][t] = live[s][t]
      BY <1>1, <2>1, <2>2, <2>4
    <3>2. s \in Datasets /\ Reference \in Datasets
      BY SubjectsAre
    <3>3. /\ Visible(series'[s], t) = Visible(series[s], t)
          /\ Visible(series'[Reference], t) = Visible(series[Reference], t)
      BY <1>3, <2>4, <3>2
    <3>4. series'[s] \in Seq(Candle) /\ series[s] \in Seq(Candle) /\ t \in Int
      BY <1>2, <2>4, <3>2, CloseShape DEF Shape, SeriesShape
    <3>5. series[s] # <<>> /\ series'[s] # <<>>
      BY <1>4, <3>3, <3>4, VisibleType
    <3>6. live[s][t] = EvaluateStrategyRules(strategy, series[Reference], series[s], t)
      BY <1>4, <2>4, <3>3 DEF Faithful, LiveStands
    <3> QED
      BY <3>1, <3>3, <3>5, <3>6, SameLiveVerdict
  <2> QED
    BY <1>1, <2>3, <2>4
<1>5. LiveStands'
  BY <1>1, <1>4 DEF LiveStands
<1>6. phase' = "live" /\ pending' = <<>> /\ \A s \in SubjectSet : points'[s] = <<>>
  BY <1>1 DEF Close, Shape, ReplayShape
<1>7. GlobalStands'
  BY <1>6 DEF GlobalStands
<1>8. ReferenceKnown'
  BY <1>6 DEF ReferenceKnown
<1>9. ReplayIsFaithful'
  BY <1>6 DEF ReplayIsFaithful
<1> QED
  BY <1>5, <1>7, <1>8, <1>9 DEF Faithful

LEMMA AskFaithful ==
    ASSUME Shape, Faithful, NEW r \in Requests, Ask(r)
    PROVE  Faithful'
<1> DEFINE ref == series[Reference]
           sample == Sampled(ref, r.from, r.to, r.step)
<1>1. /\ phase = "live" /\ phase' = "reference" /\ pending' = sample /\ series' = series
      /\ clock' = clock /\ strategy' = strategy /\ live' = live /\ points' = points
  BY DEF Ask
<1>2. ref \in Seq(Candle) /\ \A i, j \in 1..Len(ref) : i < j => ref[i].at < ref[j].at
  BY SubjectsAre DEF Shape, SeriesShape
<1>3. \A k \in 1..Len(sample) : \E i \in 1..Len(ref) : sample[k] = ref[i].at
  <2> HIDE DEF ref
  <2> QED
    BY <1>2, SampledType
<1>4. \A i \in 1..Len(ref) : Visible(ref, ref[i].at) # <<>>
  <2> HIDE DEF ref
  <2> QED
    BY <1>2, VisibleThen
<1> HIDE DEF sample
<1>5. ReferenceKnown'
  BY <1>1, <1>3, <1>4 DEF ReferenceKnown
<1>6. LiveStands'
  BY <1>1 DEF LiveStands, Faithful
<1>7. GlobalStands'
  BY <1>1 DEF GlobalStands
<1>8. ReplayIsFaithful'
  <2>1. \A s \in SubjectSet : points'[s] = <<>>
    BY <1>1 DEF Shape, ReplayShape
  <2> QED
    BY <2>1 DEF ReplayIsFaithful
<1> QED
  BY <1>5, <1>6, <1>7, <1>8 DEF Faithful

(* A statement about the points says the same as long as neither they, nor   *)
(* the series, nor what was said live have changed.                          *)
LEMMA PointsStand ==
    ASSUME Faithful, series' = series, live' = live, points' = points, counted' >= counted,
           counted \in Nat, counted' \in Nat
    PROVE  ReplayIsFaithful'
<1>1. MaxNodes \in Nat
  BY RuleAssumption
<1>2. counted' <= MaxNodes => counted <= MaxNodes
  BY <1>1
<1> QED
  BY <1>2 DEF Faithful, ReplayIsFaithful, AsItWasLive

LEMMA ReferenceFaithful ==
    ASSUME Shape, Faithful, EvaluateReference
    PROVE  Faithful'
<1>1. /\ series' = series /\ clock' = clock /\ strategy' = strategy /\ live' = live
      /\ points' = points /\ pending' = pending
  BY DEF EvaluateReference
<1>2. counted \in Nat /\ counted' \in Nat /\ counted' >= counted /\ strategy \in Strategies
  BY ReferenceWalk DEF Shape, ReplayShape, SeriesShape
<1>3. LiveStands' /\ ReferenceKnown'
  BY <1>1 DEF Faithful, LiveStands, ReferenceKnown
<1>4. ReplayIsFaithful'
  BY <1>1, <1>2, PointsStand
<1>5. ASSUME phase' = "subject"
      PROVE  GlobalStands'
  <2>1. global' = {Evaluated(tree, Visible(series[Reference], Now)) :
                     tree \in {strategy.global} \ {NoTree}}
    BY <1>5 DEF EvaluateReference
  <2>2. Now' = Now
    BY <1>1 DEF Now
  <2>3. strategy.global # NoTree => /\ ~Walk(strategy.global, 0).refused
                                    /\ Walk(strategy.global, 0).counted <= counted'
    <3> SUFFICES ASSUME strategy.global # NoTree
                 PROVE  /\ ~Walk(strategy.global, 0).refused
                        /\ Walk(strategy.global, 0).counted <= counted'
      OBVIOUS
    <3>1. WellFormed(strategy.global)
      BY <1>2, StrategyTrees
    <3>2. ~Walk(strategy.global, counted).refused
          /\ counted' = Walk(strategy.global, counted).counted
      BY <1>5 DEF EvaluateReference
    <3> QED
      BY <1>2, <3>1, <3>2, WalkLess
  <2> QED
    BY <1>1, <2>1, <2>2, <2>3 DEF GlobalStands
<1>6. GlobalStands'
  BY <1>5 DEF GlobalStands
<1> QED
  BY <1>3, <1>4, <1>6 DEF Faithful

(* The verdict on a subject is the one of a fresh evaluation.                *)
LEMMA VerdictIsLive ==
    ASSUME Shape, Faithful, phase = "subject",
           NEW s, s = Head(waiting),
           SubjectVerdict(s).counted <= MaxNodes, Visible(series[s], Now) # <<>>,
           NEW then, then = live[s][Now]
    PROVE  SubjectVerdict(s).status = IF then = Rejected THEN "INVALID" ELSE then
<1> DEFINE ref == Visible(series[Reference], Now)
           subj == Visible(series[s], Now)
           none == [refused |-> FALSE, counted |-> 0]
           first == IF strategy.global = NoTree THEN none ELSE Walk(strategy.global, 0)
           second == IF strategy.candidate = NoTree THEN none
                     ELSE Walk(strategy.candidate, first.counted)
           walk == IF strategy.candidate = NoTree
                   THEN [refused |-> FALSE, counted |-> counted]
                   ELSE Walk(strategy.candidate, counted)
           candidate == {Evaluated(tree, subj) : tree \in {strategy.candidate} \ {NoTree}}
<1>1. /\ Now \in 1..LastTime /\ s \in SubjectSet /\ s \in Datasets /\ clock = LastTime
      /\ counted \in Nat /\ strategy \in Strategies
  BY SubjectVerdictType, SubjectsAre DEF Shape, ReplayShape, SeriesShape
<1>2. series[s] # <<>>
  <2>1. series[s] \in Seq(Candle) /\ Now \in Int
    BY <1>1 DEF Shape, SeriesShape
  <2> QED
    BY <2>1, VisibleType
<1>3. ref # <<>>
  <2>1. pending \in Seq(1..LastTime) /\ pending # <<>>
    BY DEF Shape, ReplayShape
  <2>2. Now = pending[1] /\ 1 \in 1..Len(pending)
    BY <2>1, HeadAndTail DEF Now
  <2> QED
    BY <2>2 DEF Faithful, ReferenceKnown
<1>4. then = EvaluateStrategyRules(strategy, series[Reference], series[s], Now)
  BY <1>1 DEF Faithful, LiveStands
<1>5. then = IF first.refused \/ second.refused THEN Rejected ELSE Overall(global \cup candidate)
  <2>1. global = {Evaluated(tree, ref) : tree \in {strategy.global} \ {NoTree}}
    BY DEF Faithful, GlobalStands
  <2>2. {IF series[s] = <<>> THEN "UNAVAILABLE" ELSE Evaluated(tree, subj) :
            tree \in {strategy.candidate} \ {NoTree}} = candidate
    BY <1>2
  <2> HIDE DEF candidate
  <2> QED
    BY <1>2, <1>3, <1>4, <2>1, <2>2 DEF EvaluateStrategyRules
<1>6. ~first.refused /\ first.counted \in Nat /\ first.counted <= counted
  <2>1. CASE strategy.global = NoTree
    BY <1>1, <2>1
  <2>2. CASE strategy.global # NoTree
    <3>1. WellFormed(strategy.global) /\ 0 \in Nat
      BY <1>1, <2>2, StrategyTrees
    <3>2. Walk(strategy.global, 0).counted \in Nat
      BY <3>1, WalkCounts
    <3>3. first = Walk(strategy.global, 0)
      BY <2>2
    <3> QED
      BY <2>2, <3>2, <3>3 DEF Faithful, GlobalStands
  <2> QED
    BY <2>1, <2>2
<1>7. SubjectVerdict(s) = [counted |-> walk.counted,
                           status |-> IF walk.refused THEN "INVALID"
                                      ELSE Overall(global \cup candidate)]
  BY DEF SubjectVerdict
<1> HIDE DEF first
<1>8. second.refused = walk.refused
  <2>1. CASE strategy.candidate = NoTree
    BY <2>1
  <2>2. CASE strategy.candidate # NoTree
    <3>1. WellFormed(strategy.candidate)
      BY <1>1, <2>2, StrategyTrees
    <3>2. second = Walk(strategy.candidate, first.counted)
          /\ walk = Walk(strategy.candidate, counted)
      BY <2>2
    <3>3. Walk(strategy.candidate, counted).counted <= MaxNodes
      BY <1>7, <3>2
    <3> HIDE DEF second, walk
    <3> QED
      BY <1>1, <1>6, <3>1, <3>2, <3>3, WalkLess
  <2> QED
    BY <2>1, <2>2
<1> HIDE DEF second, walk, candidate
<1>9. Overall(global \cup candidate) # Rejected
  BY OverallType DEF Statuses, Rejected
<1> QED
  BY <1>5, <1>6, <1>7, <1>8, <1>9

LEMMA SubjectFaithful ==
    ASSUME Shape, Faithful, EvaluateSubject
    PROVE  Faithful'
<1> DEFINE s == Head(waiting)
           verdict == SubjectVerdict(s)
           point == [at |-> Now, status |-> verdict.status]
<1>1. /\ series' = series /\ clock' = clock /\ strategy' = strategy /\ live' = live
      /\ phase = "subject" /\ counted' = verdict.counted /\ global' = global
      /\ points' = [points EXCEPT ![s] = Append(@, point)]
      /\ \/ pending' = pending
         \/ pending' = Tail(pending) /\ phase' # "subject"
  BY DEF EvaluateSubject
<1>2. /\ Now \in 1..LastTime /\ s \in SubjectSet /\ counted \in Nat /\ counted' \in Nat
      /\ counted' >= counted /\ points \in [SubjectSet -> Seq(Point)]
  BY <1>1, SubjectVerdictType DEF Shape, ReplayShape
<1>3. LiveStands'
  BY <1>1 DEF Faithful, LiveStands
<1>4. ReferenceKnown'
  <2>1. pending \in Seq(1..LastTime) /\ pending # <<>>
    BY <1>1 DEF Shape, ReplayShape
  <2>2. CASE pending' = pending
    BY <1>1, <2>2 DEF Faithful, ReferenceKnown
  <2>3. CASE pending' = Tail(pending)
    <3>1. \A k \in 1..Len(pending') : pending'[k] = pending[k + 1] /\ k + 1 \in 1..Len(pending)
      BY <2>1, <2>3
    <3> QED
      BY <1>1, <3>1 DEF Faithful, ReferenceKnown
  <2> QED
    BY <1>1, <2>2, <2>3
<1>5. GlobalStands'
  <2> SUFFICES ASSUME phase' = "subject"
               PROVE  GlobalStands'
    BY DEF GlobalStands
  <2>1. Now' = Now
    BY <1>1 DEF Now
  <2>2. strategy.global # NoTree => Walk(strategy.global, 0).counted <= counted'
    <3> SUFFICES ASSUME strategy.global # NoTree
                 PROVE  Walk(strategy.global, 0).counted <= counted'
      OBVIOUS
    <3>1. WellFormed(strategy.global) /\ 0 \in Nat
      BY StrategyTrees DEF Shape, SeriesShape
    <3>2. Walk(strategy.global, 0).counted \in Nat
      BY <3>1, WalkCounts
    <3>3. Walk(strategy.global, 0).counted <= counted
      BY <1>1 DEF Faithful, GlobalStands
    <3> QED
      BY <1>2, <3>2, <3>3
  <2> QED
    BY <1>1, <2>1, <2>2 DEF Faithful, GlobalStands
<1>6. ASSUME counted' <= MaxNodes, NEW u \in SubjectSet, NEW i \in DOMAIN points'[u]
      PROVE  AsItWasLive(u, points'[u][i])
  <2>1. counted <= MaxNodes /\ MaxNodes \in Nat
    BY <1>2, <1>6, RuleAssumption
  <2>2. CASE i \in DOMAIN points[u] /\ points'[u][i] = points[u][i]
    BY <2>1, <2>2 DEF Faithful, ReplayIsFaithful
  <2>3. CASE u = s /\ points'[u][i] = point
    <3>1. point.at = Now /\ point.status = verdict.status
      OBVIOUS
    <3>2. ASSUME Visible(series[s], Now) # <<>>
          PROVE  verdict.status = IF live[s][Now] = Rejected THEN "INVALID" ELSE live[s][Now]
      <4>1. verdict.counted <= MaxNodes
        BY <1>1, <1>6
      <4> QED
        BY <1>1, <3>2, <4>1, VerdictIsLive
    <3> HIDE DEF point, verdict, s
    <3> QED
      BY <2>3, <3>1, <3>2 DEF AsItWasLive
  <2>4. \/ i \in DOMAIN points[u] /\ points'[u][i] = points[u][i]
        \/ u = s /\ points'[u][i] = point
    <3> HIDE DEF point, s
    <3>1. CASE u = s
      <4>1. points'[u] = Append(points[u], point) /\ points[u] \in Seq(Point)
        BY <1>1, <1>2, <3>1
      <4>2. i \in 1..(Len(points[u]) + 1)
        BY <1>6, <4>1
      <4> QED
        BY <3>1, <4>1, <4>2
    <3>2. CASE u # s
      BY <1>1, <1>2, <3>2
    <3> QED
      BY <3>1, <3>2
  <2> QED
    BY <2>2, <2>3, <2>4
<1>7. ReplayIsFaithful'
  BY <1>1, <1>6 DEF ReplayIsFaithful, AsItWasLive
<1> QED
  BY <1>3, <1>4, <1>5, <1>7 DEF Faithful

LEMMA InitFaithful ==
    ASSUME Init
    PROVE  Faithful
<1>1. LiveStands
  BY DEF Init, LiveStands
<1>2. GlobalStands /\ ReferenceKnown
  BY DEF Init, GlobalStands, ReferenceKnown
<1>3. ReplayIsFaithful
  BY DEF Init, ReplayIsFaithful
<1> QED
  BY <1>1, <1>2, <1>3 DEF Faithful

LEMMA NextFaithful ==
    ASSUME Shape, Faithful, [Next]_vars
    PROVE  Faithful'
<1>1. ASSUME NEW move \in Moves, Close(move)
      PROVE  Faithful'
  BY <1>1, CloseFaithful
<1>2. ASSUME NEW r \in Requests, Ask(r)
      PROVE  Faithful'
  BY <1>2, AskFaithful
<1>3. CASE Summarise
  BY <1>3 DEF Summarise, Faithful, LiveStands, GlobalStands, ReferenceKnown,
              ReplayIsFaithful, AsItWasLive, Now
<1>4. CASE UNCHANGED vars
  BY <1>4 DEF vars, Faithful, LiveStands, GlobalStands, ReferenceKnown,
              ReplayIsFaithful, AsItWasLive, Now
<1> QED
  BY <1>1, <1>2, <1>3, <1>4, ReferenceFaithful, SubjectFaithful DEF Next

(* The shapes hold in every state.                                           *)
LEMMA ShapeHolds ==
    Spec => []Shape
<1>1. Init => Shape
  BY InitShape
<1>2. Shape /\ [Next]_vars => Shape'
  BY NextShape
<1> QED
  BY <1>1, <1>2, PTL DEF Spec

(* A replay point says what was said live when its candle was the last one   *)
(* known, as long as the replay's one evaluator has not walked more nodes    *)
(* than one evaluation may: for all datasets, trees, closes and ranges.      *)
THEOREM ReplayEquivalence == Spec => []ReplayIsFaithful
<1>1. Init => Shape /\ Faithful
  BY InitShape, InitFaithful
<1>2. Shape /\ Faithful /\ [Next]_vars => (Shape /\ Faithful)'
  BY NextShape, NextFaithful
<1>3. Faithful => ReplayIsFaithful
  BY DEF Faithful
<1> QED
  BY <1>1, <1>2, <1>3, PTL DEF Spec

-----------------------------------------------------------------------------
(* The conditions of the rule engine.                                        *)

(* A condition that held lapses to UNAVAILABLE before it is FALSE, and one   *)
(* that was FALSE never expires before it has held: for all candles, trees,  *)
(* windows and memories.                                                     *)
THEOREM TriggersExpire == Spec => []TriggersExpireVisibly
<1>1. ASSUME Shape
      PROVE  TriggersExpireVisibly
  <2> SUFFICES ASSUME NEW d \in Datasets, NEW c \in Conditions, Len(series[d]) > 1
               PROVE  LET after == StatusAfter(c, d, Len(series[d]))
                          before == StatusAfter(c, d, Len(series[d]) - 1)
                      IN /\ before = "TRUE" => after # "FALSE"
                         /\ before = "FALSE" => after \in {"TRUE", "FALSE"}
    BY DEF TriggersExpireVisibly
  <2>1. series[d] \in Seq(Candle) /\ strategy \in Strategies
    BY <1>1 DEF Shape, SeriesShape
  <2>2. Sound(c)
    <3>1. PICK tree \in {strategy.global, strategy.candidate} :
                  c \in {tree[n].condition : n \in Leaves(tree)}
      BY DEF Conditions
    <3>2. PICK n \in Leaves(tree) : c = tree[n].condition
      BY <3>1
    <3>3. tree # NoTree
      BY <3>2 DEF Leaves, NoTree
    <3>4. WellFormed(tree)
      BY <2>1, <3>1, <3>3, StrategyTrees
    <3> QED
      BY <3>2, <3>4 DEF WellFormed, Sound
  <2> DEFINE s == series[d]
             before == LeafStatus(c, SubSeq(s, 1, Len(s) - 1))
             after == LeafStatus(c, SubSeq(s, 1, Len(s)))
  <2>3. /\ before = "TRUE" => after # "FALSE"
        /\ before = "FALSE" => after \in {"TRUE", "FALSE"}
    <3> HIDE DEF s
    <3>1. s \in Seq(Candle) /\ Len(s) > 1
      BY <2>1 DEF s
    <3> QED
      BY <2>2, <3>1, TriggerExpires
  <2> QED
    BY <2>3 DEF StatusAfter
<1> QED
  BY <1>1, ShapeHolds, PTL

(* A verdict reached while conditions are UNAVAILABLE stays the same         *)
(* whatever they turn out to be: for all trees and series.                   *)
THEOREM VerdictsFirm == Spec => []VerdictsAreFirm
<1>1. ASSUME Shape
      PROVE  VerdictsAreFirm
  <2> SUFFICES ASSUME NEW tree \in {strategy.global, strategy.candidate} \ {NoTree},
                      NEW d \in Datasets,
                      NEW now, now = [n \in Leaves(tree) |->
                                         LeafStatus(tree[n].condition, series[d])],
                      NEW open, open = {n \in Leaves(tree) : now[n] = "UNAVAILABLE"},
                      TreeStatus(tree, now) # "UNAVAILABLE",
                      NEW answer \in [open -> {"TRUE", "FALSE"}]
               PROVE  TreeStatus(tree, [n \in Leaves(tree) |->
                          IF n \in open THEN answer[n] ELSE now[n]]) = TreeStatus(tree, now)
    BY DEF VerdictsAreFirm
  <2>1. WellFormed(tree) /\ tree # NoTree
    BY <1>1, StrategyTrees DEF Shape, SeriesShape
  <2>2. \A n \in Leaves(tree) : now[n] \in Statuses
    BY DEF LeafStatus, Statuses
  <2> DEFINE other == [n \in Leaves(tree) |-> IF n \in open THEN answer[n] ELSE now[n]]
  <2>3. \A n \in Leaves(tree) : other[n] = IF n \in open THEN answer[n] ELSE now[n]
    OBVIOUS
  <2> HIDE DEF other
  <2>4. \A n \in Leaves(tree) : other[n] \in Statuses
    BY <2>2, <2>3 DEF Statuses
  <2>5. Answers(other, now, Leaves(tree))
    BY <2>2, <2>3 DEF Answers, Firm, Statuses
  <2> QED
    BY <2>1, <2>2, <2>4, <2>5, TreeAnswered DEF other
<1> QED
  BY <1>1, ShapeHolds, PTL

-----------------------------------------------------------------------------
(* The order of time.  What a subject still has to be evaluated at comes     *)
(* after its points, and together they are the sample.                       *)
Rest(s) ==
    IF phase = "subject" /\ ~Contains(waiting, s) THEN Tail(pending) ELSE pending

InOrder ==
    /\ \A i, j \in 1..Len(pending) : i < j => pending[i] < pending[j]
    /\ \A s \in SubjectSet :
         /\ \A i, j \in 1..Len(points[s]) : i < j => points[s][i].at < points[s][j].at
         /\ \A i \in 1..Len(points[s]), k \in 1..Len(Rest(s)) : points[s][i].at < Rest(s)[k]

SampleSize == Len(Sampled(series[Reference], request.from, request.to, request.step))

AllSampled ==
    phase # "live" => \A s \in SubjectSet : Len(points[s]) + Len(Rest(s)) = SampleSize

(* The subject that was evaluated has one instant less before it, the others *)
(* as many as they had, whether they wait for the same instant or the next.  *)
LEMMA RestAdvances ==
    ASSUME Shape, EvaluateSubject, NEW s, s = Head(waiting)
    PROVE  /\ Rest(s) = pending
           /\ Rest(s)' = Tail(pending)
           /\ \A u \in SubjectSet \ {s} : Rest(u)' = Rest(u)
<1>1. /\ phase = "subject" /\ waiting' = Tail(waiting)
      /\ IF waiting' # <<>> THEN phase' = phase /\ pending' = pending
         ELSE pending' = Tail(pending) /\ phase' # "subject"
  BY DEF EvaluateSubject
<1>2. /\ waiting \in Seq(SubjectSet) /\ waiting # <<>>
      /\ \A i, j \in 1..Len(waiting) : i # j => waiting[i] # waiting[j]
  BY <1>1 DEF Shape, ReplayShape
<1>3. /\ s = waiting[1] /\ 1 \in 1..Len(waiting) /\ Len(waiting) \in Nat
      /\ waiting' \in Seq(SubjectSet) /\ Len(waiting') = Len(waiting) - 1
      /\ \A i \in 1..Len(waiting') : waiting'[i] = waiting[i + 1] /\ i + 1 \in 1..Len(waiting)
      /\ waiting' # <<>> <=> Len(waiting) > 1
  BY <1>1, <1>2, HeadAndTail
<1>4. Contains(waiting, s) /\ ~Contains(waiting', s)
  <2>1. ASSUME NEW i \in 1..Len(waiting')
        PROVE  waiting'[i] # s
    <3>1. waiting'[i] = waiting[i + 1] /\ i + 1 \in 1..Len(waiting) /\ i + 1 # 1
      BY <1>3
    <3> QED
      BY <1>2, <1>3, <3>1
  <2> QED
    BY <1>3, <2>1 DEF Contains
<1>5. ASSUME NEW u, u # s
      PROVE  Contains(waiting', u) <=> Contains(waiting, u)
  <2>1. ASSUME NEW i \in 1..Len(waiting), waiting[i] = u
        PROVE  \E j \in 1..Len(waiting') : waiting'[j] = u
    <3>1. i # 1
      BY <1>3, <1>5, <2>1
    <3>2. i - 1 \in 1..Len(waiting') /\ (i - 1) + 1 = i
      BY <1>3, <3>1
    <3>3. waiting'[i - 1] = u
      BY <1>3, <2>1, <3>2
    <3> QED
      BY <3>2, <3>3
  <2> QED
    BY <1>3, <2>1 DEF Contains
<1>6. Rest(s) = pending /\ Rest(s)' = Tail(pending)
  BY <1>1, <1>4 DEF Rest
<1>7. ASSUME NEW u \in SubjectSet, u # s
      PROVE  Rest(u)' = Rest(u)
  <2>1. CASE waiting' # <<>>
    BY <1>1, <1>5, <1>7, <2>1 DEF Rest
  <2>2. CASE waiting' = <<>>
    <3>1. ~Contains(waiting', u)
      BY <2>2 DEF Contains
    <3>2. ~Contains(waiting, u)
      BY <1>5, <1>7, <3>1
    <3> QED
      BY <1>1, <2>2, <3>2 DEF Rest
  <2> QED
    BY <2>1, <2>2
<1> QED
  BY <1>6, <1>7

LEMMA AskInOrder ==
    ASSUME Shape, NEW r \in Requests, Ask(r)
    PROVE  InOrder' /\ AllSampled'
<1> DEFINE ref == series[Reference]
           sample == Sampled(ref, r.from, r.to, r.step)
<1>1. /\ phase = "live" /\ phase' = "reference" /\ pending' = sample /\ series' = series
      /\ request' = r /\ points' = points
  BY DEF Ask
<1>2. \A s \in SubjectSet : points'[s] = <<>>
  BY <1>1 DEF Shape, ReplayShape
<1>3. \A k, m \in 1..Len(sample) : k < m => sample[k] < sample[m]
  <2>1. ref \in Seq(Candle) /\ \A i, j \in 1..Len(ref) : i < j => ref[i].at < ref[j].at
    BY SubjectsAre DEF Shape, SeriesShape
  <2> HIDE DEF ref
  <2> QED
    BY <2>1, SampledType
<1>4. sample \in Seq(1..LastTime)
  BY <1>1, AskShape DEF Shape, ReplayShape
<1>5. \A s \in SubjectSet : Rest(s)' = sample
  BY <1>1 DEF Rest
<1>6. SampleSize' = Len(sample)
  BY <1>1 DEF SampleSize
<1> HIDE DEF sample
<1>7. InOrder'
  BY <1>1, <1>2, <1>3 DEF InOrder
<1>8. AllSampled'
  BY <1>2, <1>4, <1>5, <1>6 DEF AllSampled
<1> QED
  BY <1>7, <1>8

LEMMA ReferenceInOrder ==
    ASSUME Shape, InOrder, AllSampled, EvaluateReference
    PROVE  InOrder' /\ AllSampled'
<1>1. /\ phase = "reference" /\ pending' = pending /\ points' = points /\ series' = series
      /\ request' = request
      /\ phase' = "failed" \/ (phase' = "subject" /\ waiting' = Subjects)
  BY DEF EvaluateReference
<1>2. ASSUME NEW s \in SubjectSet
      PROVE  Rest(s)' = Rest(s)
  <2>1. Contains(Subjects, s)
    BY SubjectsAre DEF Contains, SubjectSet
  <2> QED
    BY <1>1, <2>1 DEF Rest
<1>3. InOrder'
  BY <1>1, <1>2 DEF InOrder
<1>4. AllSampled'
  BY <1>1, <1>2 DEF AllSampled, SampleSize
<1> QED
  BY <1>3, <1>4

LEMMA SubjectInOrder ==
    ASSUME Shape, InOrder, AllSampled, EvaluateSubject
    PROVE  InOrder' /\ AllSampled'
<1> PICK s \in SubjectSet : s = Head(waiting)
  BY SubjectVerdictType DEF EvaluateSubject
<1> DEFINE point == [at |-> Now, status |-> SubjectVerdict(s).status]
<1>1. /\ phase = "subject" /\ phase' # "live" /\ series' = series /\ request' = request
      /\ points' = [points EXCEPT ![s] = Append(@, point)]
      /\ pending' = pending \/ pending' = Tail(pending)
  BY DEF EvaluateSubject
<1>2. /\ pending \in Seq(1..LastTime) /\ pending # <<>> /\ LastTime \in Nat
      /\ points \in [SubjectSet -> Seq(Point)] /\ s \in SubjectSet
  BY <1>1, SubjectVerdictType, SubjectsAre DEF Shape, ReplayShape
<1>3. /\ Now = pending[1] /\ Len(pending) \in Nat /\ Len(pending) >= 1
      /\ Tail(pending) \in Seq(1..LastTime) /\ Len(Tail(pending)) = Len(pending) - 1
      /\ \A k \in 1..Len(Tail(pending)) : Tail(pending)[k] = pending[k + 1]
                                          /\ k + 1 \in 1..Len(pending)
  BY <1>2, HeadAndTail DEF Now
<1>4. /\ Rest(s) = pending /\ Rest(s)' = Tail(pending)
      /\ \A u \in SubjectSet \ {s} : Rest(u)' = Rest(u)
  BY RestAdvances
<1>5. point.at = Now
  OBVIOUS
<1> HIDE DEF point
<1>6. \A i, j \in 1..Len(pending') : i < j => pending'[i] < pending'[j]
  <2>1. CASE pending' = pending
    BY <2>1 DEF InOrder
  <2>2. CASE pending' = Tail(pending)
    <3>1. ASSUME NEW i \in 1..Len(pending'), NEW j \in 1..Len(pending'), i < j
          PROVE  pending'[i] < pending'[j]
      <4>1. pending'[i] = pending[i + 1] /\ pending'[j] = pending[j + 1]
            /\ i + 1 \in 1..Len(pending) /\ j + 1 \in 1..Len(pending) /\ i + 1 < j + 1
        BY <1>3, <2>2, <3>1
      <4> QED
        BY <4>1 DEF InOrder
    <3> QED
      BY <3>1
  <2> QED
    BY <1>1, <2>1, <2>2
<1>7. ASSUME NEW u \in SubjectSet
      PROVE  /\ \A i, j \in 1..Len(points'[u]) :
                   i < j => points'[u][i].at < points'[u][j].at
             /\ \A i \in 1..Len(points'[u]), k \in 1..Len(Rest(u)') :
                   points'[u][i].at < Rest(u)'[k]
             /\ Len(points'[u]) + Len(Rest(u)') = SampleSize
  <2>1. CASE u # s
    <3>1. points'[u] = points[u] /\ Rest(u)' = Rest(u)
      BY <1>1, <1>2, <1>4, <2>1
    <3> QED
      BY <1>1, <3>1 DEF InOrder, AllSampled
  <2>2. CASE u = s
    <3> DEFINE p == points[s]
               q == points'[s]
               n == Len(p)
    <3>1. q = Append(p, point) /\ p \in Seq(Point)
      BY <1>1, <1>2
    <3>2. /\ n \in Nat /\ Len(q) = n + 1 /\ q[n + 1].at = pending[1]
          /\ \A i \in 1..n : q[i] = p[i]
      BY <1>3, <1>5, <3>1
    <3>3. /\ \A i, j \in 1..n : i < j => p[i].at < p[j].at
          /\ \A i \in 1..n, k \in 1..Len(pending) : p[i].at < pending[k]
          /\ n + Len(pending) = SampleSize
      BY <1>1, <1>2, <1>4 DEF InOrder, AllSampled
    <3> HIDE DEF p, q, n
    <3>4. \A i \in 1..(n + 1) : i \in 1..n \/ i = n + 1
      BY <3>2
    <3>5. 1 \in 1..Len(pending)
      BY <1>3
    <3>6. ASSUME NEW i \in 1..(n + 1), NEW j \in 1..(n + 1), i < j
          PROVE  q[i].at < q[j].at
      <4>1. i \in 1..n
        BY <3>2, <3>6
      <4> QED
        BY <3>2, <3>3, <3>4, <3>5, <3>6, <4>1
    <3>7. ASSUME NEW i \in 1..(n + 1), NEW k \in 1..Len(Tail(pending))
          PROVE  q[i].at < Tail(pending)[k]
      <4>1. Tail(pending)[k] = pending[k + 1] /\ k + 1 \in 1..Len(pending) /\ 1 < k + 1
        BY <1>3
      <4>2. pending[1] < pending[k + 1]
        BY <3>5, <4>1 DEF InOrder
      <4> QED
        BY <3>2, <3>3, <3>4, <4>1, <4>2
    <3>8. Len(q) + Len(Tail(pending)) = SampleSize
      BY <1>3, <3>2, <3>3
    <3> QED
      BY <1>4, <2>2, <3>2, <3>6, <3>7, <3>8 DEF q
  <2> QED
    BY <2>1, <2>2
<1>8. SampleSize' = SampleSize
  BY <1>1 DEF SampleSize
<1>9. InOrder'
  BY <1>6, <1>7 DEF InOrder
<1>10. AllSampled'
  BY <1>7, <1>8 DEF AllSampled
<1> QED
  BY <1>9, <1>10

LEMMA NextInOrder ==
    ASSUME Shape, InOrder, AllSampled, [Next]_vars
    PROVE  InOrder' /\ AllSampled'
<1>1. ASSUME NEW move \in Moves, Close(move)
      PROVE  InOrder' /\ AllSampled'
  <2>1. /\ pending' = <<>> /\ phase' = "live"
        /\ \A s \in SubjectSet : points'[s] = <<>>
    BY <1>1 DEF Close, Shape, ReplayShape
  <2> QED
    BY <2>1 DEF InOrder, AllSampled
<1>2. ASSUME NEW r \in Requests, Ask(r)
      PROVE  InOrder' /\ AllSampled'
  BY <1>2, AskInOrder
<1>3. CASE Summarise
  BY <1>3 DEF Summarise, InOrder, AllSampled, Rest, SampleSize
<1>4. CASE UNCHANGED vars
  BY <1>4 DEF vars, InOrder, AllSampled, Rest, SampleSize
<1> QED
  BY <1>1, <1>2, <1>3, <1>4, ReferenceInOrder, SubjectInOrder DEF Next

LEMMA InitInOrder ==
    ASSUME Init
    PROVE  InOrder /\ AllSampled
  BY DEF Init, InOrder, AllSampled

LEMMA RestType ==
    ASSUME Shape, InOrder, NEW s
    PROVE  /\ Rest(s) \in Seq(Nat)
           /\ \A k, m \in 1..Len(Rest(s)) : k < m => Rest(s)[k] < Rest(s)[m]
<1> DEFINE r == Rest(s)
<1>1. pending \in Seq(1..LastTime) /\ LastTime \in Nat /\ (phase = "subject" => pending # <<>>)
  BY SubjectsAre DEF Shape, ReplayShape
<1>2. pending \in Seq(Nat)
  <2>1. \A k \in 1..Len(pending) : pending[k] \in Nat
    BY <1>1
  <2> QED
    BY <1>1, <2>1, SequenceOf
<1>3. \A k, m \in 1..Len(pending) : k < m => pending[k] < pending[m]
  BY DEF InOrder
<1>4. r = pending \/ (r = Tail(pending) /\ pending # <<>>)
  BY <1>1 DEF Rest
<1> HIDE DEF r
<1>5. CASE r = pending
  BY <1>2, <1>3, <1>5 DEF r
<1>6. CASE r = Tail(pending) /\ pending # <<>>
  <2>1. /\ r \in Seq(Nat) /\ Len(r) = Len(pending) - 1 /\ Len(pending) \in Nat
        /\ \A k \in 1..(Len(pending) - 1) : r[k] = pending[k + 1]
    BY <1>2, <1>6, HeadAndTail
  <2>2. ASSUME NEW k \in 1..Len(r), NEW m \in 1..Len(r), k < m
        PROVE  r[k] < r[m]
    <3>1. k + 1 \in 1..Len(pending) /\ m + 1 \in 1..Len(pending) /\ k + 1 < m + 1
      BY <2>1, <2>2
    <3>2. r[k] = pending[k + 1] /\ r[m] = pending[m + 1]
      BY <2>1
    <3> QED
      BY <1>3, <3>1, <3>2
  <2> QED
    BY <2>1, <2>2 DEF r
<1> QED
  BY <1>4, <1>5, <1>6

(* What increases, followed by what increases and comes after it.            *)
LEMMA Joined ==
    ASSUME NEW q \in Seq(Nat), NEW r \in Seq(Nat),
           \A k, m \in 1..Len(q) : k < m => q[k] < q[m],
           \A k, m \in 1..Len(r) : k < m => r[k] < r[m],
           \A k \in 1..Len(q), m \in 1..Len(r) : q[k] < r[m],
           NEW i \in 1..(Len(q \o r) - 1)
    PROVE  (q \o r)[i] < (q \o r)[i + 1]
<1> DEFINE t == q \o r
           n == Len(q)
<1>1. /\ n \in Nat /\ Len(r) \in Nat /\ Len(t) = n + Len(r)
      /\ \A k \in 1..n : t[k] = q[k]
      /\ \A k \in 1..Len(r) : t[n + k] = r[k]
  OBVIOUS
<1>2. i \in 1..(Len(t) - 1)
  OBVIOUS
<1> HIDE DEF t
<1>3. CASE i + 1 <= n
  <2>1. i \in 1..n /\ i + 1 \in 1..n
    BY <1>1, <1>2, <1>3
  <2> QED
    BY <1>1, <2>1 DEF t
<1>4. CASE i = n
  <2>1. i \in 1..n /\ 1 \in 1..Len(r)
    BY <1>1, <1>2, <1>4
  <2>2. t[i] = q[i] /\ t[i + 1] = r[1]
    BY <1>1, <1>4, <2>1
  <2> QED
    BY <2>1, <2>2 DEF t
<1>5. CASE i > n
  <2>1. /\ i - n \in 1..Len(r) /\ i - n + 1 \in 1..Len(r)
        /\ n + (i - n) = i /\ n + (i - n + 1) = i + 1 /\ i - n < i - n + 1
    BY <1>1, <1>2, <1>5
  <2>2. t[n + (i - n)] = r[i - n] /\ t[n + (i - n + 1)] = r[i - n + 1]
    <3> HIDE DEF n
    <3> QED
      BY <1>1, <2>1
  <2>3. t[i] = r[i - n] /\ t[i + 1] = r[i - n + 1]
    BY <2>1, <2>2
  <2> QED
    BY <2>1, <2>3 DEF t
<1> QED
  BY <1>1, <1>2, <1>3, <1>4, <1>5

LEMMA TimesOf ==
    ASSUME Shape, InOrder, NEW s \in SubjectSet,
           NEW q, q = [i \in DOMAIN points[s] |-> points[s][i].at]
    PROVE  /\ q \in Seq(Nat)
           /\ \A k, m \in 1..Len(q) : k < m => q[k] < q[m]
           /\ \A k \in 1..Len(q), m \in 1..Len(Rest(s)) : q[k] < Rest(s)[m]
<1> DEFINE p == points[s]
<1>1. p \in Seq(Point) /\ LastTime \in Nat
  BY SubjectsAre DEF Shape, ReplayShape
<1>2. /\ \A k, m \in 1..Len(p) : k < m => p[k].at < p[m].at
      /\ \A k \in 1..Len(p), m \in 1..Len(Rest(s)) : p[k].at < Rest(s)[m]
  BY DEF InOrder
<1>3. q = [i \in DOMAIN p |-> p[i].at]
  OBVIOUS
<1> HIDE DEF p
<1>4. DOMAIN p = 1..Len(p) /\ Len(p) \in Nat /\ \A k \in 1..Len(p) : p[k] \in Point
  BY <1>1
<1>5. \A k \in 1..Len(p) : p[k].at \in Nat
  BY <1>1, <1>4 DEF Point
<1>6. q \in Seq(Nat) /\ Len(q) = Len(p) /\ \A k \in 1..Len(p) : q[k] = p[k].at
  BY <1>3, <1>4, <1>5
<1> QED
  BY <1>2, <1>4, <1>6

(* Every variable has its shape in every state, and a subject's points with  *)
(* the instants to come are in the order of time.                            *)
THEOREM ReplayTypes == Spec => []TypeOK
<1>1. Init => Shape /\ InOrder /\ AllSampled
  BY InitShape, InitInOrder
<1>2. Shape /\ InOrder /\ AllSampled /\ [Next]_vars => (Shape /\ InOrder /\ AllSampled)'
  BY NextShape, NextInOrder
<1>3. ASSUME Shape, InOrder
      PROVE  TypeOK
  <2>1. ASSUME NEW s \in SubjectSet
        PROVE  /\ live[s] \in Seq(Statuses \cup {Rejected})
               /\ \A i \in DOMAIN points[s] : points[s][i].status \in Statuses
    <3>1. points[s] \in Seq(Point)
      BY <1>3 DEF Shape, ReplayShape
    <3>2. \A i \in DOMAIN points[s] : points[s][i] \in Point
      BY <3>1
    <3> QED
      BY <1>3, <3>2 DEF Shape, LiveShape, Verdicts, Point
  <2>2. ASSUME NEW s \in SubjectSet,
               NEW i \in 1..(Len([j \in DOMAIN points[s] |-> points[s][j].at] \o Rest(s)) - 1)
        PROVE  ([j \in DOMAIN points[s] |-> points[s][j].at] \o Rest(s))[i]
                 < ([j \in DOMAIN points[s] |-> points[s][j].at] \o Rest(s))[i + 1]
    <3> DEFINE q == [j \in DOMAIN points[s] |-> points[s][j].at]
               r == Rest(s)
    <3>1. /\ q \in Seq(Nat)
          /\ \A k, m \in 1..Len(q) : k < m => q[k] < q[m]
          /\ \A k \in 1..Len(q), m \in 1..Len(r) : q[k] < r[m]
      BY <1>3, TimesOf
    <3>2. r \in Seq(Nat) /\ \A k, m \in 1..Len(r) : k < m => r[k] < r[m]
      BY <1>3, RestType
    <3>3. i \in 1..(Len(q \o r) - 1)
      OBVIOUS
    <3> HIDE DEF q, r
    <3>4. (q \o r)[i] < (q \o r)[i + 1]
      BY <3>1, <3>2, <3>3, Joined
    <3> QED
      BY <3>4 DEF q, r
  <2> QED
    BY <1>3, <2>1, <2>2 DEF TypeOK, Rest, Shape, SeriesShape, ReplayShape, Phases
<1> QED
  BY <1>1, <1>2, <1>3, PTL DEF Spec

-----------------------------------------------------------------------------
(* What a timeline says of a subject's points, counted as they come.         *)
With(p, v) == {i \in DOMAIN p : p[i].status = v}
Answered(p) == With(p, "TRUE") \cup With(p, "FALSE")
Changes(p) == {i \in 2..Len(p) : p[i].status # p[i - 1].status}

(* The lengths of the runs of a status within the first n points.            *)
RunsUpto(p, v, n) ==
    {m \in 1..n : \E i \in 1..n : i + m - 1 <= n /\ i..(i + m - 1) \subseteq With(p, v)}

Best(b, p, v, n) ==
    /\ b \in Nat
    /\ b = 0 \/ b \in RunsUpto(p, v, n)
    /\ \A m \in RunsUpto(p, v, n) : m <= b

(* The longest run of a status so far: the current one counts too.           *)
Longest(acc, v) == IF v = acc.previous THEN Max({acc.runs[v], acc.length}) ELSE acc.runs[v]

Accumulators == [transitions : Nat, runs : [Statuses -> Nat], length : Nat, first : Nat,
                 unavailable : Nat, invalid : Nat, previous : Statuses \cup {NoStatus}]

CurrentRun(acc, p, n) ==
    IF n = 0 THEN acc.previous = NoStatus
    ELSE /\ acc.previous = p[n].status
         /\ acc.length \in 1..n
         /\ \A i \in (n - acc.length + 1)..n : p[i].status = p[n].status
         /\ acc.length < n => p[n - acc.length].status # p[n].status

FirstAnswer(first, p, n) ==
    IF \E i \in 1..n : i \in Answered(p)
    THEN \E i \in 1..n : /\ i \in Answered(p) /\ first = p[i].at
                         /\ \A j \in 1..(i - 1) : j \notin Answered(p)
    ELSE first = 0

Tallied(acc, p, n) ==
    /\ acc.transitions = Cardinality(Changes(p) \cap (1..n))
    /\ acc.unavailable = Cardinality(With(p, "UNAVAILABLE") \cap (1..n))
    /\ acc.invalid = Cardinality(With(p, "INVALID") \cap (1..n))
    /\ FirstAnswer(acc.first, p, n)
    /\ CurrentRun(acc, p, n)
    /\ \A v \in Statuses : Best(Longest(acc, v), p, v, n)

LEMMA CountNext ==
    ASSUME NEW T, NEW n \in Nat
    PROVE  /\ Cardinality(T \cap (1..n)) \in Nat
           /\ Cardinality(T \cap (1..(n + 1)))
                 = Cardinality(T \cap (1..n)) + (IF n + 1 \in T THEN 1 ELSE 0)
<1> DEFINE S == T \cap (1..n)
<1>1. IsFiniteSet(S) /\ Cardinality(S) \in Nat
  <2>1. IsFiniteSet(1..n)
    <3>1. 1 \in Int /\ n \in Int
      OBVIOUS
    <3> QED
      BY <3>1, FS_Interval
  <2>2. S \subseteq 1..n
    OBVIOUS
  <2> QED
    BY <2>1, <2>2, FS_Subset, FS_CardinalityType
<1>2. n + 1 \notin S
  OBVIOUS
<1>3. CASE n + 1 \in T
  <2>1. T \cap (1..(n + 1)) = S \cup {n + 1}
    BY <1>3
  <2>2. Cardinality(S \cup {n + 1}) = Cardinality(S) + 1
    <3> HIDE DEF S
    <3> QED
      BY <1>1, <1>2, FS_AddElement
  <2> QED
    BY <1>1, <1>3, <2>1, <2>2
<1>4. CASE n + 1 \notin T
  <2>1. T \cap (1..(n + 1)) = S
    BY <1>4
  <2> QED
    BY <1>1, <1>4, <2>1
<1> QED
  BY <1>3, <1>4

LEMMA MaxOfTwo ==
    ASSUME NEW a \in Nat, NEW b \in Nat
    PROVE  Max({a, b}) = (IF a >= b THEN a ELSE b) /\ Max({a, b}) \in Nat
<1>1. Max({a, b}) \in {a, b} /\ \A y \in {a, b} : Max({a, b}) >= y
  <2> DEFINE S == {a, b}
  <2>1. a + b \in Nat /\ S \in SUBSET (0..(a + b)) /\ S # {}
    OBVIOUS
  <2> HIDE DEF S
  <2>2. Max(S) \in S /\ \A y \in S : Max(S) >= y
    BY <2>1, MaxOf
  <2> QED
    BY <2>2 DEF S
<1> QED
  BY <1>1

LEMMA StatusesAre ==
    /\ NoStatus \notin Statuses
    /\ {"TRUE", "FALSE", "UNAVAILABLE", "INVALID"} \subseteq Statuses
  BY DEF Statuses, NoStatus

LEMMA AccumulatorIs ==
    ASSUME NEW a \in Accumulators
    PROVE  /\ a.transitions \in Nat /\ a.runs \in [Statuses -> Nat] /\ a.length \in Nat
           /\ a.first \in Nat /\ a.unavailable \in Nat /\ a.invalid \in Nat
           /\ a.previous \in Statuses \cup {NoStatus}
  BY DEF Accumulators

LEMMA PointIs ==
    ASSUME NEW x \in Point
    PROVE  x.at \in Nat /\ x.at >= 1 /\ x.status \in Statuses
<1>1. LastTime \in Nat
  BY SubjectsAre
<1> QED
  BY <1>1 DEF Point

LEMMA CountedType ==
    ASSUME NEW a \in Accumulators, NEW x \in Point
    PROVE  Counted(a, x) \in Accumulators
<1> DEFINE same == x.status = a.previous
           runs == IF same \/ a.previous = NoStatus THEN a.runs
                   ELSE [a.runs EXCEPT ![a.previous] = Max({@, a.length})]
           transitions == a.transitions + (IF a.previous # NoStatus /\ ~same THEN 1 ELSE 0)
           length == IF same THEN a.length + 1 ELSE 1
           first == IF a.first = 0 /\ x.status \in {"TRUE", "FALSE"} THEN x.at ELSE a.first
           unavailable == a.unavailable + (IF x.status = "UNAVAILABLE" THEN 1 ELSE 0)
           invalid == a.invalid + (IF x.status = "INVALID" THEN 1 ELSE 0)
<1>1. /\ a.transitions \in Nat /\ a.runs \in [Statuses -> Nat] /\ a.length \in Nat
      /\ a.first \in Nat /\ a.unavailable \in Nat /\ a.invalid \in Nat
      /\ a.previous \in Statuses \cup {NoStatus}
  BY AccumulatorIs
<1>2. x.at \in Nat /\ x.status \in Statuses
  BY PointIs
<1>3. Counted(a, x) = [transitions |-> transitions, runs |-> runs, length |-> length,
                       first |-> first, unavailable |-> unavailable, invalid |-> invalid,
                       previous |-> x.status]
  BY DEF Counted
<1>4. runs \in [Statuses -> Nat]
  <2>1. CASE same \/ a.previous = NoStatus
    BY <1>1, <2>1
  <2>2. CASE ~(same \/ a.previous = NoStatus)
    <3>1. a.previous \in Statuses /\ a.runs[a.previous] \in Nat
      BY <1>1, <2>2
    <3>2. Max({a.runs[a.previous], a.length}) \in Nat
      BY <1>1, <3>1, MaxOfTwo
    <3>3. runs = [a.runs EXCEPT ![a.previous] = Max({a.runs[a.previous], a.length})]
      BY <2>2
    <3> HIDE DEF runs
    <3> QED
      BY <1>1, <3>1, <3>2, <3>3
  <2> QED
    BY <2>1, <2>2
<1>5. /\ transitions \in Nat /\ length \in Nat /\ first \in Nat /\ unavailable \in Nat
      /\ invalid \in Nat
  BY <1>1, <1>2
<1> HIDE DEF runs, transitions, length, first, unavailable, invalid
<1> QED
  BY <1>2, <1>3, <1>4, <1>5 DEF Accumulators

LEMMA PointAt ==
    ASSUME NEW p \in Seq(Point)
    PROVE  /\ Len(p) \in Nat /\ DOMAIN p = 1..Len(p)
           /\ \A i \in 1..Len(p) : p[i] \in Point /\ p[i].status \in Statuses /\ p[i].at \in Nat
                                   /\ p[i].at >= 1
<1>1. \A i \in 1..Len(p) : p[i] \in Point
  OBVIOUS
<1> QED
  BY <1>1, PointIs

(* One more point lengthens the current run or starts another one.           *)
LEMMA RunNext ==
    ASSUME NEW p \in Seq(Point), NEW n \in Nat, n + 1 <= Len(p),
           NEW a \in Accumulators, CurrentRun(a, p, n),
           NEW b, b = Counted(a, p[n + 1])
    PROVE  CurrentRun(b, p, n + 1)
<1> DEFINE x == p[n + 1]
           same == x.status = a.previous
<1>1. b.previous = x.status /\ b.length = IF same THEN a.length + 1 ELSE 1
  BY DEF Counted
<1>2. x.status \in Statuses /\ NoStatus \notin Statuses
  BY PointAt, StatusesAre
<1>3. CASE n = 0
  <2>1. ~same
    BY <1>2, <1>3 DEF CurrentRun
  <2>2. b.length = 1
    BY <1>1, <2>1
  <2> QED
    BY <1>1, <1>3, <2>2 DEF CurrentRun
<1>4. CASE n > 0 /\ same
  <2>1. /\ a.previous = p[n].status /\ a.length \in 1..n
        /\ \A i \in (n - a.length + 1)..n : p[i].status = p[n].status
        /\ a.length < n => p[n - a.length].status # p[n].status
    BY <1>4 DEF CurrentRun
  <2>2. x.status = p[n].status /\ b.length = a.length + 1
    BY <1>1, <1>4, <2>1
  <2>3. b.length \in 1..(n + 1) /\ (n + 1) - b.length + 1 = n - a.length + 1
        /\ (n + 1) - b.length = n - a.length
    BY <2>1, <2>2
  <2>4. \A i \in (n - a.length + 1)..(n + 1) : p[i].status = x.status
    <3> SUFFICES ASSUME NEW i \in (n - a.length + 1)..(n + 1)
                 PROVE  p[i].status = x.status
      OBVIOUS
    <3>1. i \in (n - a.length + 1)..n \/ i = n + 1
      BY <2>1
    <3> QED
      BY <2>1, <2>2, <3>1
  <2>5. b.length < n + 1 => p[(n + 1) - b.length].status # x.status
    BY <2>1, <2>2, <2>3
  <2> HIDE DEF x
  <2> QED
    BY <1>1, <2>3, <2>4, <2>5 DEF CurrentRun, x
<1>5. CASE n > 0 /\ ~same
  <2>1. p[n].status # x.status /\ b.length = 1
    BY <1>1, <1>5 DEF CurrentRun
  <2>2. (n + 1) - b.length = n /\ b.length \in 1..(n + 1)
    BY <2>1
  <2>3. \A i \in (n + 1)..(n + 1) : i = n + 1
    OBVIOUS
  <2> QED
    BY <1>1, <2>1, <2>2, <2>3 DEF CurrentRun
<1> QED
  BY <1>3, <1>4, <1>5

LEMMA LongestNext ==
    ASSUME NEW a \in Accumulators, NEW x \in Point, NEW v \in Statuses,
           NEW b, b = Counted(a, x)
    PROVE  /\ Longest(a, v) \in Nat
           /\ Longest(b, v) = IF v = x.status THEN Max({Longest(a, v), b.length})
                              ELSE Longest(a, v)
<1> DEFINE same == x.status = a.previous
<1>1. /\ b.previous = x.status
      /\ b.runs = IF same \/ a.previous = NoStatus THEN a.runs
                  ELSE [a.runs EXCEPT ![a.previous] = Max({a.runs[a.previous], a.length})]
      /\ b.length = IF same THEN a.length + 1 ELSE 1
  BY DEF Counted
<1>2. /\ a.runs \in [Statuses -> Nat] /\ a.length \in Nat
      /\ a.previous \in Statuses \cup {NoStatus} /\ x.status \in Statuses
      /\ NoStatus \notin Statuses /\ b.length \in Nat
  BY <1>1, AccumulatorIs, PointIs, StatusesAre
<1>3. a.runs[v] \in Nat
  BY <1>2
<1>4. Longest(a, v) \in Nat
  BY <1>2, <1>3, MaxOfTwo DEF Longest
<1>5. CASE v # x.status
  <2>1. Longest(b, v) = b.runs[v]
    BY <1>1, <1>5 DEF Longest
  <2>2. b.runs[v] = IF v = a.previous THEN Max({a.runs[v], a.length}) ELSE a.runs[v]
    <3>1. CASE same \/ a.previous = NoStatus
      BY <1>1, <1>2, <1>5, <3>1
    <3>2. CASE ~(same \/ a.previous = NoStatus)
      BY <1>1, <1>2, <3>2
    <3> QED
      BY <3>1, <3>2
  <2> QED
    BY <1>4, <1>5, <2>1, <2>2 DEF Longest
<1>6. CASE v = x.status
  <2>1. Longest(b, v) = Max({b.runs[v], b.length})
    BY <1>1, <1>6 DEF Longest
  <2>2. CASE same
    <3>1. b.runs[v] = a.runs[v] /\ b.length = a.length + 1
          /\ Longest(a, v) = Max({a.runs[v], a.length})
      BY <1>1, <1>6, <2>2 DEF Longest
    <3>2. /\ Max({a.runs[v], a.length}) = IF a.runs[v] >= a.length THEN a.runs[v] ELSE a.length
          /\ Max({a.runs[v], b.length}) = IF a.runs[v] >= b.length THEN a.runs[v] ELSE b.length
          /\ Max({Longest(a, v), b.length})
                = IF Longest(a, v) >= b.length THEN Longest(a, v) ELSE b.length
      BY <1>2, <1>3, <1>4, MaxOfTwo
    <3> QED
      BY <1>2, <1>3, <1>4, <1>6, <2>1, <3>1, <3>2
  <2>3. CASE ~same
    <3>1. b.runs[v] = a.runs[v] /\ Longest(a, v) = a.runs[v]
      BY <1>1, <1>2, <1>6, <2>3 DEF Longest
    <3> QED
      BY <1>4, <1>6, <2>1, <3>1
  <2> QED
    BY <2>2, <2>3
<1> QED
  BY <1>5, <1>6, <1>4

(* So the longest run stays the longest.                                     *)
LEMMA BestNext ==
    ASSUME NEW p \in Seq(Point), NEW n \in Nat, n + 1 <= Len(p), NEW v \in Statuses,
           NEW c, Best(c, p, v, n),
           NEW b, CurrentRun(b, p, n + 1),
           NEW d, d = IF v = p[n + 1].status THEN Max({c, b.length}) ELSE c
    PROVE  Best(d, p, v, n + 1)
<1> DEFINE x == p[n + 1]
           L == b.length
           T == With(p, v)
           R == RunsUpto(p, v, n)
           S == RunsUpto(p, v, n + 1)
<1>1. c \in Nat /\ (c = 0 \/ c \in R) /\ \A m \in R : m <= c
  BY DEF Best
<1>2. /\ L \in 1..(n + 1)
      /\ \A i \in ((n + 1) - L + 1)..(n + 1) : p[i].status = x.status
      /\ L < n + 1 => p[(n + 1) - L].status # x.status
  BY DEF CurrentRun
<1>3. Len(p) \in Nat /\ \A i : i \in T <=> (i \in 1..Len(p) /\ p[i].status = v)
  BY DEF With
<1>4. /\ \A m : m \in R <=>
            m \in 1..n /\ \E i \in 1..n : i + m - 1 <= n /\ i..(i + m - 1) \subseteq T
      /\ \A m : m \in S <=> m \in 1..(n + 1) /\ \E i \in 1..(n + 1) : i + m - 1 <= n + 1
                                                 /\ i..(i + m - 1) \subseteq T
  BY DEF RunsUpto
<1> HIDE DEF L, T, R, S
<1>5. R \subseteq S
  <2> SUFFICES ASSUME NEW m \in R PROVE m \in S
    OBVIOUS
  <2>1. PICK i \in 1..n : m \in 1..n /\ i + m - 1 <= n /\ i..(i + m - 1) \subseteq T
    BY <1>4
  <2>2. m \in 1..(n + 1) /\ i \in 1..(n + 1) /\ i + m - 1 <= n + 1
    BY <2>1
  <2> QED
    BY <1>4, <2>1, <2>2
<1>6. ASSUME NEW m \in S, m \notin R
      PROVE  v = x.status /\ m <= L
  <2>1. PICK i \in 1..(n + 1) : m \in 1..(n + 1) /\ i + m - 1 <= n + 1 /\ i..(i + m - 1) \subseteq T
    BY <1>4, <1>6
  <2>2. i + m - 1 = n + 1
    <3> SUFFICES ASSUME i + m - 1 <= n PROVE FALSE
      BY <2>1
    <3>1. m \in 1..n /\ i \in 1..n
      BY <2>1
    <3> QED
      BY <1>4, <1>6, <2>1, <3>1
  <2>3. \A j \in i..(n + 1) : p[j].status = v
    BY <1>3, <2>1, <2>2
  <2>4. v = x.status
    <3>1. n + 1 \in i..(n + 1)
      OBVIOUS
    <3> QED
      BY <2>3, <3>1
  <2>5. m <= L
    <3> SUFFICES ASSUME m > L PROVE FALSE
      BY <1>2, <2>1
    <3>1. L < n + 1 /\ (n + 1) - L \in i..(n + 1)
      BY <1>2, <2>1, <2>2
    <3> QED
      BY <1>2, <2>3, <2>4, <3>1
  <2> QED
    BY <2>4, <2>5
<1>7. CASE v = x.status
  <2>1. L \in S
    <3> DEFINE i == (n + 1) - L + 1
    <3>1. i \in 1..(n + 1) /\ i + L - 1 = n + 1
      BY <1>2
    <3>2. \A j \in i..(n + 1) : j \in 1..Len(p) /\ p[j].status = v
      BY <1>2, <1>3, <1>7
    <3>3. i..(n + 1) \subseteq T
      BY <1>3, <3>2
    <3> HIDE DEF i
    <3>4. i..(i + L - 1) \subseteq T /\ i + L - 1 <= n + 1
      BY <3>1, <3>3
    <3> QED
      BY <1>2, <1>4, <3>1, <3>4
  <2>2. d = IF c >= L THEN c ELSE L
    <3>1. d = Max({c, L}) /\ L \in Nat
      BY <1>2, <1>7 DEF L
    <3> QED
      BY <1>1, <3>1, MaxOfTwo
  <2>3. d \in Nat /\ d \in S /\ c <= d /\ L <= d
    <3>1. CASE c >= L
      <4>1. c # 0 /\ c \in R
        BY <1>1, <1>2, <3>1
      <4> QED
        BY <1>1, <1>2, <1>5, <2>2, <3>1, <4>1
    <3>2. CASE c < L
      BY <1>1, <1>2, <2>1, <2>2, <3>2
    <3> QED
      BY <1>1, <1>2, <3>1, <3>2
  <2>4. ASSUME NEW m \in S
        PROVE  m <= d
    <3>1. m \in Int
      BY <1>4, <2>4
    <3>2. CASE m \in R
      BY <1>1, <2>3, <3>1, <3>2
    <3>3. CASE m \notin R
      BY <1>2, <1>6, <2>3, <3>1, <3>3
    <3> QED
      BY <3>2, <3>3
  <2> QED
    BY <2>3, <2>4 DEF Best, S
<1>8. CASE v # x.status
  <2>1. d = c /\ S \subseteq R
    BY <1>6, <1>8
  <2> QED
    BY <1>1, <1>5, <2>1 DEF Best, S
<1> QED
  BY <1>7, <1>8

LEMMA FirstNext ==
    ASSUME NEW p \in Seq(Point), NEW n \in Nat, n + 1 <= Len(p),
           NEW f, FirstAnswer(f, p, n),
           NEW g, g = IF f = 0 /\ p[n + 1].status \in {"TRUE", "FALSE"} THEN p[n + 1].at ELSE f
    PROVE  FirstAnswer(g, p, n + 1)
<1> DEFINE A == Answered(p)
<1>1. Len(p) \in Nat /\ \A i \in 1..Len(p) : /\ p[i].at \in Nat /\ p[i].at >= 1
                                             /\ i \in A <=> p[i].status \in {"TRUE", "FALSE"}
  BY PointAt DEF Answered, With
<1>2. n + 1 \in 1..Len(p) /\ n + 1 \in 1..(n + 1)
      /\ \A i \in 1..(n + 1) : i \in 1..n \/ i = n + 1
  BY <1>1
<1> HIDE DEF A
<1>3. CASE \E i \in 1..n : i \in A
  <2>1. PICK i \in 1..n : i \in A /\ f = p[i].at /\ \A j \in 1..(i - 1) : j \notin A
    BY <1>3 DEF FirstAnswer, A
  <2>2. f # 0 /\ g = f
    <3>1. i \in 1..Len(p)
      BY <1>1
    <3> QED
      BY <1>1, <2>1, <3>1
  <2>3. i \in 1..(n + 1)
    OBVIOUS
  <2> QED
    BY <2>1, <2>2, <2>3 DEF FirstAnswer, A
<1>4. CASE ~\E i \in 1..n : i \in A
  <2>1. f = 0
    BY <1>4 DEF FirstAnswer, A
  <2>2. CASE n + 1 \in A
    <3>1. g = p[n + 1].at
      BY <1>1, <1>2, <2>1, <2>2
    <3>2. (n + 1) - 1 = n
      OBVIOUS
    <3> QED
      BY <1>2, <1>4, <2>2, <3>1, <3>2 DEF FirstAnswer, A
  <2>3. CASE n + 1 \notin A
    <3>1. g = 0
      BY <1>1, <1>2, <2>1, <2>3
    <3> QED
      BY <1>2, <1>4, <2>3, <3>1 DEF FirstAnswer, A
  <2> QED
    BY <2>2, <2>3
<1> QED
  BY <1>3, <1>4

LEMMA TallyNext ==
    ASSUME NEW p \in Seq(Point), NEW n \in Nat, n + 1 <= Len(p),
           NEW a \in Accumulators, Tallied(a, p, n)
    PROVE  Tallied(Counted(a, p[n + 1]), p, n + 1)
<1> DEFINE x == p[n + 1]
           b == Counted(a, x)
<1>1. Len(p) \in Nat /\ n + 1 \in 1..Len(p) /\ x \in Point /\ x.status \in Statuses
      /\ NoStatus \notin Statuses /\ \A i \in 1..Len(p) : p[i].status \in Statuses
  BY PointAt, StatusesAre
<1>2. CurrentRun(b, p, n + 1)
  BY RunNext DEF Tallied
<1>3. ASSUME NEW v \in Statuses
      PROVE  Best(Longest(b, v), p, v, n + 1)
  <2>1. Longest(b, v) = IF v = x.status THEN Max({Longest(a, v), b.length}) ELSE Longest(a, v)
    BY <1>1, LongestNext
  <2>2. Best(Longest(a, v), p, v, n)
    BY DEF Tallied
  <2> HIDE DEF b
  <2> QED
    BY <1>2, <2>1, <2>2, BestNext
<1>4. FirstAnswer(b.first, p, n + 1)
  <2>1. b.first = IF a.first = 0 /\ x.status \in {"TRUE", "FALSE"} THEN x.at ELSE a.first
    BY DEF Counted
  <2>2. FirstAnswer(a.first, p, n)
    BY DEF Tallied
  <2> HIDE DEF b
  <2> QED
    BY <2>1, <2>2, FirstNext
<1>5. b.transitions = Cardinality(Changes(p) \cap (1..(n + 1)))
  <2>1. b.transitions = a.transitions
                + (IF a.previous # NoStatus /\ x.status # a.previous THEN 1 ELSE 0)
    BY DEF Counted
  <2>2. n + 1 \in Changes(p) <=> (a.previous # NoStatus /\ x.status # a.previous)
    <3>1. CASE n = 0
      BY <3>1 DEF Changes, Tallied, CurrentRun
    <3>2. CASE n > 0
      <4>1. a.previous = p[n].status /\ n \in 1..Len(p)
        BY <1>1, <3>2 DEF Tallied, CurrentRun
      <4>2. a.previous # NoStatus
        BY <1>1, <4>1
      <4>3. n + 1 \in 2..Len(p) /\ (n + 1) - 1 = n
        BY <1>1, <3>2
      <4> QED
        BY <4>1, <4>2, <4>3 DEF Changes
    <3> QED
      BY <3>1, <3>2
  <2>3. a.transitions = Cardinality(Changes(p) \cap (1..n))
    BY DEF Tallied
  <2> HIDE DEF b
  <2> QED
    BY <2>1, <2>2, <2>3, CountNext
<1>6. ASSUME NEW v
      PROVE  Cardinality(With(p, v) \cap (1..(n + 1)))
               = Cardinality(With(p, v) \cap (1..n)) + (IF x.status = v THEN 1 ELSE 0)
  <2>1. n + 1 \in With(p, v) <=> x.status = v
    BY <1>1 DEF With
  <2> QED
    BY <2>1, CountNext
<1>7. b.unavailable = Cardinality(With(p, "UNAVAILABLE") \cap (1..(n + 1)))
  <2>1. b.unavailable = a.unavailable + (IF x.status = "UNAVAILABLE" THEN 1 ELSE 0)
    BY DEF Counted
  <2> HIDE DEF b
  <2> QED
    BY <1>6, <2>1 DEF Tallied
<1>8. b.invalid = Cardinality(With(p, "INVALID") \cap (1..(n + 1)))
  <2>1. b.invalid = a.invalid + (IF x.status = "INVALID" THEN 1 ELSE 0)
    BY DEF Counted
  <2> HIDE DEF b
  <2> QED
    BY <1>6, <2>1 DEF Tallied
<1> QED
  BY <1>2, <1>3, <1>4, <1>5, <1>7, <1>8 DEF Tallied

(* The loop over the points is a chain of accumulators.                      *)
LEMMA StartType ==
    Start \in Accumulators
<1>1. [v \in Statuses |-> 0] \in [Statuses -> Nat] /\ NoStatus \in Statuses \cup {NoStatus}
  OBVIOUS
<1> QED
  BY <1>1 DEF Start, Accumulators

IsLoop(g, p) ==
    /\ g[0] = Start
    /\ \A k \in 1..Len(p) : g[k] = Counted(g[k - 1], p[k])

LEMMA LoopExists ==
    ASSUME NEW p \in Seq(Point)
    PROVE  \E g : IsLoop(g, p) /\ g[Len(p)] = FoldLeft(Counted, Start, p)
<1> DEFINE n == Len(p)
           D == 1..n
           c == [T \in SUBSET D |-> Max(T)]
           G == [k \in D |-> [a \in Accumulators |-> Counted(a, p[k])]]
           Eq(h) == h = [s \in SUBSET DOMAIN p |->
                           IF s = {} THEN Start ELSE Counted(h[s \ {Max(s)}], p[Max(s)])]
           it == CHOOSE h : Eq(h)
<1>1. n \in Nat /\ DOMAIN p = D /\ \A k \in D : p[k] \in Point
  BY PointAt
<1>2. FoldLeft(Counted, Start, p) = it[DOMAIN p]
  BY DEF FoldLeft, MapThenFoldSet
<1>3. IsFiniteSet(D)
  <2>1. 1 \in Int /\ n \in Int
    BY <1>1
  <2> QED
    BY <2>1, FS_Interval
<1>4. Chooses(c, D)
  <2>1. ASSUME NEW T \in SUBSET D, T # {}
        PROVE  Max(T) \in T
    BY <1>1, <2>1, MaxIn
  <2> QED
    BY <2>1 DEF Chooses
<1>5. G \in [D -> [Accumulators -> Accumulators]]
  BY <1>1, CountedType
<1>6. PICK h \in [SUBSET D -> Accumulators] : FoldsTo(h, D, Start, G, c)
  <2> HIDE DEF D, G, c
  <2> QED
    BY <1>3, <1>4, <1>5, StartType, SubsetRecursion
<1>7. ASSUME NEW s \in SUBSET D, s # {}
      PROVE  h[s] = Counted(h[s \ {Max(s)}], p[Max(s)])
  <2>1. Max(s) \in D /\ s \ {Max(s)} \in SUBSET D
    BY <1>1, <1>7, MaxIn
  <2>2. h[s \ {Max(s)}] \in Accumulators
    BY <2>1
  <2>3. h[s] = G[c[s]][h[s \ {c[s]}]]
    <3> HIDE DEF G, c
    <3> QED
      BY <1>6, <1>7 DEF FoldsTo
  <2> QED
    BY <2>1, <2>2, <2>3
<1>8. h[{}] = Start
  <2>1. {} \in SUBSET D
    OBVIOUS
  <2> HIDE DEF G, c, D
  <2> QED
    BY <1>6, <2>1 DEF FoldsTo
<1>9. Eq(h)
  BY <1>1, <1>6, <1>7, <1>8
<1>10. Eq(it)
  <2> HIDE DEF Eq
  <2> QED
    BY <1>9, Zenon
<1> HIDE DEF it
<1>11. \A s \in SUBSET D :
          it[s] = IF s = {} THEN Start ELSE Counted(it[s \ {Max(s)}], p[Max(s)])
  BY <1>1, <1>10
<1> DEFINE g == [k \in 0..n |-> it[1..k]]
<1>12. g[0] = Start
  <2>1. 1..0 = {} /\ {} \in SUBSET D
    OBVIOUS
  <2>2. g[0] = it[1..0]
    BY <1>1
  <2> QED
    BY <1>11, <2>1, <2>2
<1>13. ASSUME NEW k \in 1..n
       PROVE  g[k] = Counted(g[k - 1], p[k])
  <2>1. Max(1..k) = k /\ (1..k) \ {k} = 1..(k - 1) /\ 1..k \in SUBSET D
    BY <1>1, MaxOfInterval
  <2>2. 1..k # {} /\ k \in 0..n /\ k - 1 \in 0..n
    BY <1>1
  <2>3. it[1..k] = Counted(it[1..(k - 1)], p[k])
    BY <1>11, <2>1, <2>2
  <2> QED
    BY <2>2, <2>3
<1>14. g[n] = it[D]
  BY <1>1
<1> HIDE DEF g, D
<1>15. IsLoop(g, p)
  BY <1>12, <1>13 DEF IsLoop
<1> QED
  BY <1>1, <1>2, <1>14, <1>15

LEMMA StartTallied ==
    ASSUME NEW p \in Seq(Point)
    PROVE  Tallied(Start, p, 0)
<1>1. \A T : Cardinality(T \cap (1..0)) = 0
  <2>1. \A T : T \cap (1..0) = {}
    OBVIOUS
  <2> QED
    BY <2>1, FS_EmptySet
<1>2. FirstAnswer(Start.first, p, 0) /\ CurrentRun(Start, p, 0)
  BY DEF Start, FirstAnswer, CurrentRun
<1>3. ASSUME NEW v \in Statuses
      PROVE  Best(Longest(Start, v), p, v, 0)
  <2>1. Longest(Start, v) = 0
    <3>1. v # NoStatus
      BY StatusesAre
    <3> QED
      BY <3>1 DEF Longest, Start
  <2>2. RunsUpto(p, v, 0) = {}
    BY DEF RunsUpto
  <2> QED
    BY <2>1, <2>2 DEF Best
<1>4. Start.transitions = 0 /\ Start.unavailable = 0 /\ Start.invalid = 0
  BY DEF Start
<1> QED
  BY <1>1, <1>2, <1>3, <1>4 DEF Tallied

LEMMA LoopTallied ==
    ASSUME NEW p \in Seq(Point), NEW g, IsLoop(g, p)
    PROVE  g[Len(p)] \in Accumulators /\ Tallied(g[Len(p)], p, Len(p))
<1> DEFINE A == {k \in Nat : k <= Len(p) => g[k] \in Accumulators /\ Tallied(g[k], p, k)}
<1>1. Len(p) \in Nat /\ \A k \in 1..Len(p) : p[k] \in Point
  BY PointAt
<1>2. 0 \in A
  BY StartType, StartTallied DEF IsLoop
<1>3. ASSUME NEW k \in Nat, k \in A
      PROVE  k + 1 \in A
  <2> SUFFICES ASSUME k + 1 <= Len(p)
               PROVE  g[k + 1] \in Accumulators /\ Tallied(g[k + 1], p, k + 1)
    OBVIOUS
  <2>1. k <= Len(p) /\ k + 1 \in 1..Len(p) /\ (k + 1) - 1 = k
    BY <1>1
  <2>2. g[k] \in Accumulators /\ Tallied(g[k], p, k)
    BY <1>3, <2>1
  <2>3. g[k + 1] = Counted(g[k], p[k + 1])
    BY <2>1 DEF IsLoop
  <2>4. p[k + 1] \in Point
    BY <1>1, <2>1
  <2>5. Counted(g[k], p[k + 1]) \in Accumulators
    BY <2>2, <2>4, CountedType
  <2>6. Tallied(Counted(g[k], p[k + 1]), p, k + 1)
    BY <2>2, TallyNext
  <2> QED
    BY <2>3, <2>5, <2>6
<1>4. Len(p) \in A
  <2> HIDE DEF A
  <2> QED
    BY <1>1, <1>2, <1>3, SetInduction
<1> QED
  BY <1>1, <1>4

LEMMA MaxOfBest ==
    ASSUME NEW p, NEW v, NEW n \in Nat, NEW b, Best(b, p, v, n)
    PROVE  Max({0} \cup RunsUpto(p, v, n)) = b
<1> DEFINE S == {0} \cup RunsUpto(p, v, n)
<1>1. S \in SUBSET (0..n) /\ S # {}
  BY DEF RunsUpto
<1>2. b \in Nat /\ b \in S /\ \A m \in S : m <= b
  BY DEF Best
<1> HIDE DEF S
<1>3. Max(S) \in S /\ \A m \in S : Max(S) >= m
  BY <1>1, MaxOf
<1>4. Max(S) >= b /\ Max(S) <= b /\ Max(S) \in Int
  <2> DEFINE m == Max(S)
  <2>1. m \in S /\ m >= b
    BY <1>2, <1>3
  <2>2. m \in 0..n
    BY <1>1, <2>1
  <2>3. m <= b
    BY <1>2, <2>1
  <2> QED
    BY <2>1, <2>2, <2>3
<1>5. Max(S) = b
  BY <1>2, <1>4
<1> QED
  BY <1>5 DEF S

LEMMA FirstIs ==
    ASSUME NEW p \in Seq(Point), NEW f, FirstAnswer(f, p, Len(p))
    PROVE  f = IF Answered(p) = {} THEN 0 ELSE p[Min(Answered(p))].at
<1> DEFINE A == Answered(p)
<1>1. Len(p) \in Nat /\ A \subseteq 1..Len(p)
  BY PointAt DEF Answered, With
<1>2. A \in SUBSET Nat
  BY <1>1
<1> HIDE DEF A
<1>3. CASE A = {}
  BY <1>3 DEF FirstAnswer, A
<1>4. CASE A # {}
  <2>1. PICK i \in 1..Len(p) : i \in A /\ f = p[i].at /\ \A j \in 1..(i - 1) : j \notin A
    BY <1>1, <1>4 DEF FirstAnswer, A
  <2>2. Min(A) \in A /\ \A y \in A : Min(A) <= y
    BY <1>2, <1>4, MinOf
  <2>3. Min(A) \in 1..Len(p) /\ Min(A) <= i
    BY <1>1, <2>1, <2>2
  <2>4. Min(A) = i
    <3> SUFFICES ASSUME Min(A) # i PROVE FALSE
      OBVIOUS
    <3>1. Min(A) \in 1..(i - 1)
      BY <2>3
    <3> QED
      BY <2>1, <2>2, <3>1
  <2> QED
    BY <1>4, <2>1, <2>4 DEF A
<1> QED
  BY <1>3, <1>4 DEF A

(* The timeline of a subject says what its points say.                       *)
LEMMA TimelineIs ==
    ASSUME NEW p \in Seq(Point), NEW t, t = Timeline(p)
    PROVE  /\ t.transitions = Cardinality(Changes(p))
           /\ \A v \in Statuses : t.runs[v] = Max({0} \cup RunsUpto(p, v, Len(p)))
           /\ t.first = IF Answered(p) = {} THEN 0 ELSE p[Min(Answered(p))].at
           /\ t.unavailable = Cardinality(With(p, "UNAVAILABLE"))
           /\ t.invalid = Cardinality(With(p, "INVALID"))
<1> DEFINE acc == FoldLeft(Counted, Start, p)
           n == Len(p)
<1>1. n \in Nat /\ DOMAIN p = 1..n
  BY PointAt
<1>2. acc \in Accumulators /\ Tallied(acc, p, n)
  <2>1. PICK g : IsLoop(g, p) /\ g[n] = acc
    BY LoopExists
  <2> HIDE DEF acc
  <2> QED
    BY <2>1, LoopTallied
<1>3. t = [transitions |-> acc.transitions,
           runs |-> [acc.runs EXCEPT ![acc.previous] = Max({acc.runs[acc.previous], acc.length})],
           first |-> acc.first, unavailable |-> acc.unavailable, invalid |-> acc.invalid]
  BY DEF Timeline
<1> HIDE DEF acc
<1>4. /\ t.transitions = acc.transitions /\ t.first = acc.first
      /\ t.unavailable = acc.unavailable /\ t.invalid = acc.invalid
      /\ t.runs = [acc.runs EXCEPT ![acc.previous] = Max({acc.runs[acc.previous], acc.length})]
  BY <1>3
<1>5. Changes(p) \cap (1..n) = Changes(p) /\ \A v : With(p, v) \cap (1..n) = With(p, v)
  BY <1>1 DEF Changes, With
<1>6. /\ t.transitions = Cardinality(Changes(p))
      /\ t.unavailable = Cardinality(With(p, "UNAVAILABLE"))
      /\ t.invalid = Cardinality(With(p, "INVALID"))
  BY <1>2, <1>5, <1>4 DEF Tallied
<1>7. t.first = IF Answered(p) = {} THEN 0 ELSE p[Min(Answered(p))].at
  <2>1. FirstAnswer(t.first, p, n)
    BY <1>2, <1>4 DEF Tallied
  <2> QED
    BY <2>1, FirstIs
<1>8. ASSUME NEW v \in Statuses
      PROVE  t.runs[v] = Max({0} \cup RunsUpto(p, v, n))
  <2>1. acc.runs \in [Statuses -> Nat]
    BY <1>2, AccumulatorIs
  <2>2. t.runs[v] = Longest(acc, v)
    BY <1>4, <2>1 DEF Longest
  <2>3. Best(Longest(acc, v), p, v, n)
    BY <1>2 DEF Tallied
  <2> QED
    BY <1>1, <2>2, <2>3, MaxOfBest
<1> QED
  BY <1>6, <1>7, <1>8

LEMMA SubjectsFinite ==
    IsFiniteSet(SubjectSet)
<1> DEFINE n == Len(Subjects)
<1>1. Subjects \in Seq(SubjectSet)
  BY SubjectsAre
<1>2. n \in Nat /\ DOMAIN Subjects = 1..n /\ Subjects \in [1..n -> SubjectSet]
  BY <1>1
<1>3. Subjects \in Surjection(1..n, SubjectSet)
  BY <1>2 DEF Surjection, SubjectSet
<1>4. IsFiniteSet(1..n)
  <2>1. 1 \in Int /\ n \in Int
    BY <1>2
  <2> QED
    BY <2>1, FS_Interval
<1> QED
  BY <1>3, <1>4, FS_Surjection

(* The totals count the points of every status, and a summary is made of the *)
(* points there are.                                                         *)
CountsOf(ps, v) == [s \in SubjectSet |-> Cardinality(With(ps[s], v))]

Summed ==
    /\ totals \in [Statuses -> Int]
    /\ \A v \in Statuses : totals[v] = SumFunctionOnSet(CountsOf(points, v), SubjectSet)
    /\ phase = "done" => timelines = [s \in SubjectSet |-> Timeline(points[s])]

LEMMA CountsType ==
    ASSUME NEW ps \in [SubjectSet -> Seq(Point)], NEW v
    PROVE  Terms(CountsOf(ps, v), SubjectSet)
<1>1. ASSUME NEW p \in Seq(Point)
      PROVE  Cardinality(With(p, v)) \in Int
  <2>1. With(p, v) \cap (1..Len(p)) = With(p, v) /\ Len(p) \in Nat
    BY PointAt DEF With
  <2> DEFINE T == With(p, v)
  <2> HIDE DEF T
  <2>2. Cardinality(T \cap (1..Len(p))) \in Nat /\ T \cap (1..Len(p)) = T
    BY <2>1, CountNext DEF T
  <2>3. Cardinality(T) \in Nat
    BY <2>2
  <2> QED
    BY <2>3 DEF T
<1> QED
  BY <1>1 DEF Terms, CountsOf

LEMMA InitSummed ==
    ASSUME Init
    PROVE  Summed
<1>1. totals = [v \in Statuses |-> 0] /\ phase = "live"
  BY DEF Init
<1>2. ASSUME NEW v \in Statuses
      PROVE  SumFunctionOnSet(CountsOf(points, v), SubjectSet) = 0
  <2> DEFINE g == CountsOf(points, v)
  <2>1. \A s \in SubjectSet : g[s] = 0
    <3>1. \A s \in SubjectSet : With(points[s], v) = {}
      BY DEF Init, With
    <3> QED
      BY <3>1, FS_EmptySet DEF CountsOf
  <2> HIDE DEF g
  <2>2. Terms(g, SubjectSet) /\ Restricts(g, g, {}, SubjectSet)
    BY <2>1 DEF Terms, Restricts
  <2>3. SumFunctionOnSet(g, {}) = SumFunctionOnSet(g, SubjectSet)
    BY <2>2, SubjectsFinite, SumRestrict
  <2> QED
    BY <2>3, SumEmpty DEF g
<1> QED
  BY <1>1, <1>2 DEF Summed

LEMMA SubjectSummed ==
    ASSUME Shape, Summed, EvaluateSubject
    PROVE  Summed'
<1> PICK s \in SubjectSet : s = Head(waiting)
  BY SubjectVerdictType DEF EvaluateSubject
<1> DEFINE status == SubjectVerdict(s).status
           point == [at |-> Now, status |-> status]
<1>1. /\ phase' # "done"
      /\ points' = [points EXCEPT ![s] = Append(@, point)]
      /\ totals' = [totals EXCEPT ![status] = @ + 1]
  BY DEF EvaluateSubject
<1>2. /\ status \in Statuses /\ point.status = status
      /\ points \in [SubjectSet -> Seq(Point)] /\ points' \in [SubjectSet -> Seq(Point)]
  BY SubjectVerdictType, SubjectShape DEF Shape, ReplayShape, EvaluateSubject
<1>3. totals \in [Statuses -> Int]
  BY DEF Summed
<1> HIDE DEF status, point
<1>4. totals' \in [Statuses -> Int]
  BY <1>1, <1>2, <1>3
<1>5. ASSUME NEW v \in Statuses
      PROVE  totals'[v] = SumFunctionOnSet(CountsOf(points', v), SubjectSet)
  <2> DEFINE f == CountsOf(points, v)
             g == CountsOf(points', v)
             p == points[s]
             n == Len(p)
  <2>1. p \in Seq(Point) /\ n \in Nat /\ points'[s] = Append(p, point)
    BY <1>1, <1>2
  <2>2. g[s] = f[s] + (IF status = v THEN 1 ELSE 0) /\ f[s] \in Int
    <3> DEFINE q == points'[s]
    <3>1. /\ q \in Seq(Point) /\ Len(q) = n + 1 /\ q[n + 1] = point
          /\ \A i \in 1..n : q[i] = p[i]
      BY <1>2, <2>1
    <3> HIDE DEF p, q, n
    <3>2. DOMAIN q = 1..(n + 1)
      BY <3>1
    <3>3. With(q, v) \cap (1..n) = With(p, v)
      <4>1. DOMAIN p = 1..n
        BY <2>1 DEF n
      <4> QED
        BY <2>1, <3>1, <3>2, <4>1 DEF With
    <3>4. With(q, v) \cap (1..(n + 1)) = With(q, v)
      BY <3>2 DEF With
    <3>5. n + 1 \in With(q, v) <=> status = v
      BY <1>2, <2>1, <3>1, <3>2 DEF With
    <3>6. /\ Cardinality(With(p, v)) \in Nat
          /\ Cardinality(With(q, v)) = Cardinality(With(p, v)) + (IF status = v THEN 1 ELSE 0)
      BY <2>1, <3>3, <3>4, <3>5, CountNext
    <3> QED
      BY <3>6 DEF CountsOf, p, q
  <2>3. \A u \in SubjectSet : u # s => g[u] = f[u]
    BY <1>1, <1>2 DEF CountsOf
  <2>4. Terms(f, SubjectSet) /\ Terms(g, SubjectSet)
    BY <1>2, CountsType
  <2> HIDE DEF f, g, p, n
  <2>5. AgreeBut(f, g, SubjectSet, s)
    BY <2>3 DEF AgreeBut
  <2>6. SumFunctionOnSet(g, SubjectSet) = SumFunctionOnSet(f, SubjectSet) - f[s] + g[s]
    BY <2>4, <2>5, SubjectsFinite, SumChange
  <2>7. totals[v] = SumFunctionOnSet(f, SubjectSet) /\ totals[v] \in Int
    BY <1>3 DEF Summed, f
  <2>8. totals'[v] = totals[v] + (IF status = v THEN 1 ELSE 0)
    <3>1. CASE status = v
      BY <1>1, <1>2, <1>3, <3>1
    <3>2. CASE status # v
      BY <1>1, <1>2, <1>3, <2>7, <3>2
    <3> QED
      BY <3>1, <3>2
  <2>9. totals'[v] = SumFunctionOnSet(g, SubjectSet)
    <3>1. CASE status = v
      BY <2>2, <2>6, <2>7, <2>8, <3>1
    <3>2. CASE status # v
      BY <2>2, <2>6, <2>7, <2>8, <3>2
    <3> QED
      BY <3>1, <3>2
  <2> QED
    BY <2>9 DEF g
<1> QED
  BY <1>1, <1>4, <1>5 DEF Summed

LEMMA NextSummed ==
    ASSUME Shape, Summed, [Next]_vars
    PROVE  Summed'
<1>1. ASSUME points' = points, totals' = totals,
             phase' = "done" => timelines' = [s \in SubjectSet |-> Timeline(points[s])]
      PROVE  Summed'
  BY <1>1 DEF Summed
<1>2. ASSUME NEW move \in Moves, Close(move)
      PROVE  Summed'
  BY <1>1, <1>2 DEF Close
<1>3. ASSUME NEW r \in Requests, Ask(r)
      PROVE  Summed'
  BY <1>1, <1>3 DEF Ask
<1>4. CASE EvaluateReference
  <2>1. points' = points /\ totals' = totals /\ phase' # "done"
    BY <1>4 DEF EvaluateReference
  <2> QED
    BY <1>1, <2>1
<1>5. CASE Summarise
  BY <1>1, <1>5 DEF Summarise
<1>6. CASE UNCHANGED vars
  BY <1>1, <1>6 DEF vars, Summed
<1> QED
  BY <1>2, <1>3, <1>4, <1>5, <1>6, SubjectSummed DEF Next

(* What a finished replay reports adds up to its points: the totals, and     *)
(* each subject's changes of status, longest runs and first answer.  For all *)
(* strategies, candles, ranges and steps.                                    *)
THEOREM ReplayAddsUp == Spec => []TimelinesAddUp
<1>1. Init => Shape /\ InOrder /\ AllSampled /\ Summed
  BY InitShape, InitInOrder, InitSummed
<1>2. /\ Shape /\ InOrder /\ AllSampled /\ Summed /\ [Next]_vars
      => (Shape /\ InOrder /\ AllSampled /\ Summed)'
  BY NextShape, NextInOrder, NextSummed
<1>3. ASSUME Shape, AllSampled, Summed
      PROVE  TimelinesAddUp
  <2> SUFFICES ASSUME phase = "done"
               PROVE  TimelinesAddUp
    BY DEF TimelinesAddUp
  <2>1. ASSUME NEW v \in Statuses
        PROVE  totals[v] = SumFunctionOnSet(
                  [s \in SubjectSet |-> Cardinality({i \in DOMAIN points[s] :
                                                        points[s][i].status = v})], SubjectSet)
    <3>1. totals[v] = SumFunctionOnSet(CountsOf(points, v), SubjectSet)
      BY <1>3 DEF Summed
    <3> QED
      BY <3>1 DEF CountsOf, With
  <2>2. ASSUME NEW s \in SubjectSet
        PROVE  /\ Len(points[s]) = SampleSize
               /\ timelines[s] = Timeline(points[s])
               /\ points[s] \in Seq(Point)
    <3>1. pending = <<>> /\ points \in [SubjectSet -> Seq(Point)]
      BY <1>3 DEF Shape, ReplayShape
    <3>2. Rest(s) = <<>>
      BY <3>1 DEF Rest
    <3>3. Len(points[s]) + Len(Rest(s)) = SampleSize
      BY <1>3 DEF AllSampled
    <3>4. Len(points[s]) \in Nat /\ Len(Rest(s)) = 0
      BY <3>1, <3>2
    <3> QED
      BY <1>3, <3>1, <3>3, <3>4 DEF Summed
  <2>3. ASSUME NEW s \in SubjectSet
        PROVE  /\ timelines[s].transitions = Cardinality(
                     {i \in 2..Len(points[s]) : points[s][i].status # points[s][i - 1].status})
               /\ timelines[s].unavailable =
                     Cardinality({i \in DOMAIN points[s] : points[s][i].status = "UNAVAILABLE"})
               /\ timelines[s].invalid =
                     Cardinality({i \in DOMAIN points[s] : points[s][i].status = "INVALID"})
    <3>1. /\ timelines[s].transitions = Cardinality(Changes(points[s]))
          /\ timelines[s].unavailable = Cardinality(With(points[s], "UNAVAILABLE"))
          /\ timelines[s].invalid = Cardinality(With(points[s], "INVALID"))
      BY <2>2, TimelineIs
    <3> QED
      BY <3>1 DEF Changes, With
  <2>4. ASSUME NEW s \in SubjectSet, NEW v \in Statuses
        PROVE  timelines[s].runs[v] = Max({0} \cup
                 {n \in 1..Len(points[s]) : \E i \in DOMAIN points[s] :
                    /\ i + n - 1 <= Len(points[s])
                    /\ i..(i + n - 1) \subseteq {j \in DOMAIN points[s] : points[s][j].status = v}})
    <3>1. timelines[s].runs[v] = Max({0} \cup RunsUpto(points[s], v, Len(points[s])))
      BY <2>2, TimelineIs
    <3>2. DOMAIN points[s] = 1..Len(points[s])
      BY <2>2, PointAt
    <3> QED
      BY <3>1, <3>2 DEF RunsUpto, With
  <2>5. ASSUME NEW s \in SubjectSet,
               NEW A, A = {i \in DOMAIN points[s] : points[s][i].status = "TRUE"}
                          \cup {i \in DOMAIN points[s] : points[s][i].status = "FALSE"}
        PROVE  timelines[s].first = IF A = {} THEN 0 ELSE points[s][Min(A)].at
    <3>1. A = Answered(points[s])
      BY <2>5 DEF Answered, With
    <3> QED
      BY <2>2, <3>1, TimelineIs
  <2> QED
    BY <2>1, <2>2, <2>3, <2>4, <2>5 DEF TimelinesAddUp, SampleSize
<1> QED
  BY <1>1, <1>2, <1>3, PTL DEF Spec
=============================================================================
