-------------------------- MODULE PaperLedgerProofs -------------------------
(***************************************************************************)
(* The invariants of PaperLedger, proved.                                  *)
(*                                                                         *)
(* A step of a runtime is a fold over the account's orders or over the     *)
(* mappings, so the argument has four levels.  First the arithmetic of one *)
(* fill and one release, for every amount.  Then one statement (a fill,    *)
(* the end of an order, a new order) keeps LedgerOK when the book it       *)
(* leaves is sound: FillKeeps, EndKeeps, AppendKeeps, from the arithmetic  *)
(* and the sums of FoldLemmas.  A fold of statements is a chain of books   *)
(* (FoldIsChain) and keeps it by induction along the chain.  An action     *)
(* commits a book only if it is sound.                                     *)
(***************************************************************************)
EXTENDS PaperLedger, FoldLemmas

-----------------------------------------------------------------------------
(* Division rounds down.                                                     *)
LEMMA DivisionRoundsDown ==
    ASSUME NEW a \in Nat, NEW b \in Nat \ {0}
    PROVE  /\ a \div b \in Nat
           /\ (a \div b) * b <= a
           /\ a < ((a \div b) + 1) * b
  OBVIOUS

LEMMA ProductIsNat ==
    ASSUME NEW a \in Nat, NEW b \in Nat
    PROVE  a * b \in Nat
  OBVIOUS

LEMMA ProductMonotonic ==
    ASSUME NEW a \in Nat, NEW b \in Nat, NEW c \in Nat, a <= b
    PROVE  a * c <= b * c /\ c * a <= c * b
  OBVIOUS

(* What of a product is cancelled.                                           *)
LEMMA CancelFactor ==
    ASSUME NEW a \in Int, NEW b \in Int, NEW c \in Nat \ {0}, a * c <= b * c
    PROVE  a <= b
  OBVIOUS

LEMMA ExactDivision ==
    ASSUME NEW a \in Nat, NEW b \in Nat \ {0}
    PROVE  (a * b) \div b = a
  OBVIOUS

LEMMA ProductSplits ==
    ASSUME NEW a \in Nat, NEW b \in Nat, NEW c \in Nat, b <= a
    PROVE  a * c = b * c + (a - b) * c
  OBVIOUS

-----------------------------------------------------------------------------
(* What is assumed of an order and an account: the fields the operators      *)
(* read, with amounts in whole units, and something left to fill.            *)
IsOpenOrder(o) ==
    /\ {"kind", "side", "limit", "quantity", "filled", "status", "held"} \subseteq DOMAIN o
    /\ o.kind \in {"replay", "manual"} /\ o.side \in {"BUY", "SELL"}
    /\ o.limit \in Nat /\ o.quantity \in Nat /\ o.filled \in Nat
    /\ o.filled < o.quantity
    /\ o.held \in Int

IsAccount(a) ==
    /\ {"total", "reserved", "net", "avg", "pnl"} \subseteq DOMAIN a
    /\ a.total \in Int /\ a.reserved \in Nat /\ a.net \in Nat /\ a.avg \in Nat /\ a.pnl \in Int

LEMMA FilledFields ==
    ASSUME NEW a, NEW o, IsOpenOrder(o), NEW q \in Nat, NEW p \in Nat
    PROVE  LET n == FilledOrder(a, o, q, p)
           IN  /\ n.filled = o.filled + q
               /\ n.held = o.held - ReleasedByFill(a, o, q, p)
               /\ n.limit = o.limit /\ n.quantity = o.quantity
               /\ n.side = o.side /\ n.kind = o.kind
               /\ Remaining(n) = Remaining(o) - q
<1> DEFINE n == FilledOrder(a, o, q, p)
<1>1. /\ n.filled = o.filled + q
      /\ n.held = o.held - ReleasedByFill(a, o, q, p)
      /\ n.limit = o.limit /\ n.quantity = o.quantity /\ n.side = o.side /\ n.kind = o.kind
  BY DEF FilledOrder, IsOpenOrder
<1> HIDE DEF n
<1>2. Remaining(n) = Remaining(o) - q
  BY <1>1 DEF Remaining, IsOpenOrder
<1> QED
  BY <1>1, <1>2 DEF n

(* A share of an amount that covers "rest" units at a price, rounded down,   *)
(* leaves enough for the units that remain.                                  *)
LEMMA ShareLeavesEnough ==
    ASSUME NEW held \in Nat, NEW rest \in Nat \ {0}, NEW limit \in Nat, NEW q \in Nat,
           q <= rest, rest * limit <= held
    PROVE  /\ (held * q) \div rest \in Nat
           /\ (held * q) \div rest <= held
           /\ (rest - q) * limit <= held - (held * q) \div rest
<1> DEFINE d == (held * q) \div rest
<1>1. held * q \in Nat /\ held * (rest - q) \in Nat
  BY ProductIsNat
<1>2. d \in Nat /\ d * rest <= held * q
  BY <1>1, DivisionRoundsDown
<1> HIDE DEF d
<1>3. held * rest = held * q + held * (rest - q)
  OBVIOUS
<1>4. d * rest <= held * rest
  BY <1>1, <1>2, <1>3
<1>5. d <= held
  BY <1>2, <1>4, CancelFactor
<1>6. (rest - q) * limit \in Nat /\ (rest - q) * (rest * limit) \in Nat
  BY ProductIsNat
<1>7. (rest - q) * (rest * limit) <= (rest - q) * held
  <2>1. rest * limit \in Nat /\ rest - q \in Nat
    BY ProductIsNat
  <2> QED
    BY <2>1, ProductMonotonic
<1>8. ((rest - q) * limit) * rest = (rest - q) * (rest * limit)
  OBVIOUS
<1>9. (rest - q) * held = held * (rest - q)
  OBVIOUS
<1>10. (held - d) * rest = held * rest - d * rest
  BY <1>2
<1>11. ((rest - q) * limit) * rest <= (held - d) * rest
  <2> DEFINE A == held * rest
             B == d * rest
             C == held * q
             D == held * (rest - q)
             E == ((rest - q) * limit) * rest
             G == (held - d) * rest
  <2>1. A \in Nat /\ B \in Nat /\ C \in Nat /\ D \in Nat
    BY <1>1, <1>2, ProductIsNat
  <2>2. A = C + D /\ B <= C /\ G = A - B /\ E <= D
    BY <1>2, <1>3, <1>7, <1>8, <1>9, <1>10
  <2>3. E \in Nat
    BY <1>6, <1>8
  <2> HIDE DEF A, B, C, D, E, G
  <2>4. E <= G
    BY <2>1, <2>2, <2>3
  <2> QED
    BY <2>4 DEF E, G
<1>12. (rest - q) * limit <= held - d
  BY <1>2, <1>6, <1>11, CancelFactor
<1> QED
  BY <1>2, <1>5, <1>12 DEF d

(* A partial fill of a replay's BUY order releases its share of what the     *)
(* order holds, rounded down (_apply_fill).  Whatever is filled, at whatever *)
(* price, the order keeps enough to buy the rest at its limit, what it gives *)
(* back is what leaves the account's reserved cash, and the last fill gives  *)
(* back everything.                                                          *)
THEOREM FillKeepsBacking ==
    ASSUME NEW a, IsAccount(a), NEW o, IsOpenOrder(o), o.kind = "replay", o.side = "BUY",
           NEW q \in Nat, q <= Remaining(o), NEW p \in Nat,
           Remaining(o) * o.limit <= o.held
    PROVE  LET n == FilledOrder(a, o, q, p)
           IN  /\ n.held \in Nat
               /\ Remaining(n) * n.limit <= n.held
               /\ a.reserved - FilledAccount(a, o, q, p).reserved = o.held - n.held
               /\ Remaining(n) = 0 => n.held = 0
<1> DEFINE n == FilledOrder(a, o, q, p)
           d == (o.held * q) \div Remaining(o)
<1>1. Remaining(o) \in Nat \ {0} /\ o.held \in Nat /\ o.limit \in Nat
  <2>1. Remaining(o) \in Nat \ {0} /\ o.held \in Int /\ o.limit \in Nat
    BY DEF Remaining, IsOpenOrder
  <2>2. Remaining(o) * o.limit \in Nat
    BY <2>1, ProductIsNat
  <2> QED
    BY <2>1, <2>2
<1>2. ReleasedByFill(a, o, q, p) = d
  BY DEF ReleasedByFill
<1>3. n.held = o.held - d /\ n.limit = o.limit /\ Remaining(n) = Remaining(o) - q
  BY <1>2, FilledFields
<1>4. d \in Nat /\ d <= o.held /\ (Remaining(o) - q) * o.limit <= o.held - d
  BY <1>1, ShareLeavesEnough
<1>5. FilledAccount(a, o, q, p).reserved = a.reserved - d
  <2>1. \A b : "reserved" \in DOMAIN b =>
               \A t, r : [b EXCEPT !.total = t, !.reserved = r].reserved = r
    OBVIOUS
  <2>2. "reserved" \in DOMAIN Position(a, o.side, q, p, FillFee(o, q, p))
    BY DEF Position, IsAccount
  <2> QED
    BY <1>2, <2>1, <2>2 DEF FilledAccount
<1>6. ASSUME Remaining(n) = 0
      PROVE  d = o.held
  <2>1. q = Remaining(o)
    BY <1>1, <1>3, <1>6
  <2> QED
    BY <1>1, <2>1, ExactDivision
<1> HIDE DEF n, d
<1>7. /\ n.held \in Nat
      /\ Remaining(n) * n.limit <= n.held
      /\ a.reserved - FilledAccount(a, o, q, p).reserved = o.held - n.held
      /\ Remaining(n) = 0 => n.held = 0
  BY <1>1, <1>3, <1>4, <1>5, <1>6 DEF IsAccount
<1> QED
  BY <1>7 DEF n

(* The end of a replay's BUY order, whether it is cancelled or expires,      *)
(* gives back exactly what the order still holds, as long as the account has *)
(* that reserved.                                                            *)
THEOREM EndReleasesAll ==
    ASSUME NEW a, IsAccount(a), NEW o, IsOpenOrder(o), o.kind = "replay", o.side = "BUY",
           o.held \in Nat, o.held <= a.reserved, NEW outcome
    PROVE  /\ EndedOrder(a, o, outcome).held = 0
           /\ EndedAccount(a, o, outcome).reserved = a.reserved - o.held
<1>1. a.reserved \in Nat /\ o.held \in Nat
  BY DEF IsAccount
<1>2. ReleasedByEnd(a, o, outcome) = o.held
  BY <1>1 DEF ReleasedByEnd, Smaller
<1>3. EndedOrder(a, o, outcome).held = o.held - o.held
  BY <1>2 DEF EndedOrder, IsOpenOrder
<1>4. EndedAccount(a, o, outcome).reserved = Larger(0, a.reserved - o.held)
  BY <1>2 DEF EndedAccount, IsAccount
<1> QED
  BY <1>1, <1>3, <1>4 DEF Larger

-----------------------------------------------------------------------------
(* The percentage fee of parts is no more than that of the whole, and that   *)
(* of less no more than that of more.                                        *)
LEMMA FeeOfParts ==
    ASSUME NEW x \in Nat, NEW y \in Nat
    PROVE  /\ PercentageFee(x) \in Nat
           /\ PercentageFee(x) + PercentageFee(y) <= PercentageFee(x + y)
<1>1. FeeBasisPoints \in Nat
  BY AccountingAssumption
<1> DEFINE X == x * FeeBasisPoints
           Y == y * FeeBasisPoints
<1>2. X \in Nat /\ Y \in Nat /\ (x + y) * FeeBasisPoints = X + Y
  BY <1>1, ProductIsNat
<1> HIDE DEF X, Y
<1>3. (X \div 10000) + (Y \div 10000) <= (X + Y) \div 10000 /\ X \div 10000 \in Nat
  BY <1>2
<1> QED
  BY <1>2, <1>3 DEF PercentageFee, X, Y

LEMMA FeeMonotonic ==
    ASSUME NEW x \in Nat, NEW y \in Nat, x <= y
    PROVE  PercentageFee(x) <= PercentageFee(y)
<1>1. y - x \in Nat /\ x + (y - x) = y
  OBVIOUS
<1>2. PercentageFee(x) + PercentageFee(y - x) <= PercentageFee(y)
  BY <1>1, FeeOfParts
<1>3. PercentageFee(x) \in Nat /\ PercentageFee(y - x) \in Nat /\ PercentageFee(y) \in Nat
  BY <1>1, FeeOfParts
<1> QED
  BY <1>2, <1>3

(* A fill at no more than the limit, and the reservation that the rest of    *)
(* the order needs, cost no more than the reservation needed before: however *)
(* a manual LIMIT order is split into fills and wherever it ends, what       *)
(* _apply_fill and the cancellation release together stays within what the   *)
(* order reserved, and other orders' reservations are not touched.           *)
THEOREM FillsStayWithinReservation ==
    ASSUME NEW a, NEW o, IsOpenOrder(o), NEW q \in Nat \ {0}, q <= Remaining(o),
           NEW p \in Nat, p <= o.limit
    PROVE  q * p + FillFee(o, q, p) + FormulaRelease(FilledOrder(a, o, q, p))
             <= FormulaRelease(o)
<1> DEFINE n == FilledOrder(a, o, q, p)
           rest == Remaining(o)
           L == o.limit
           flat == IF o.filled = 0 THEN FlatFee ELSE 0
<1>1. rest \in Nat \ {0} /\ L \in Nat /\ o.filled \in Nat /\ o.quantity \in Nat /\ flat \in Nat
  BY AccountingAssumption DEF Remaining, IsOpenOrder
<1>2. n.filled = o.filled + q /\ n.limit = L /\ n.quantity = o.quantity /\ Remaining(n) = rest - q
  BY FilledFields
<1>3. rest = o.quantity <=> o.filled = 0
  BY <1>1 DEF Remaining
<1>4. Remaining(n) # n.quantity
  BY <1>1, <1>2 DEF Remaining
<1> DEFINE R == (rest - q) * L
           Q == q * L
           P == q * p
<1>5. rest - q \in Nat /\ R \in Nat /\ Q \in Nat /\ P \in Nat /\ P <= Q /\ rest * L = Q + R
  <2>1. rest - q \in Nat /\ rest - q <= rest
    BY <1>1
  <2> QED
    BY <1>1, <2>1, ProductIsNat, ProductMonotonic, ProductSplits
<1>6. FormulaRelease(o) = Q + R + PercentageFee(Q + R) + flat
  BY <1>3, <1>5 DEF FormulaRelease
<1>7. FormulaRelease(n) = R + PercentageFee(R) + 0
  BY <1>2, <1>4 DEF FormulaRelease
<1>8. FillFee(o, q, p) = PercentageFee(P) + flat
  BY DEF FillFee
<1> HIDE DEF R, Q, P, n, flat, rest, L
<1>9. /\ PercentageFee(P) \in Nat /\ PercentageFee(Q) \in Nat /\ PercentageFee(R) \in Nat
      /\ PercentageFee(Q + R) \in Nat
      /\ PercentageFee(P) <= PercentageFee(Q)
      /\ PercentageFee(Q) + PercentageFee(R) <= PercentageFee(Q + R)
  <2>1. Q + R \in Nat
    BY <1>5
  <2> QED
    BY <1>5, <2>1, FeeOfParts, FeeMonotonic
<1>10. P + FillFee(o, q, p) + FormulaRelease(n) <= FormulaRelease(o)
  BY <1>1, <1>5, <1>6, <1>7, <1>8, <1>9
<1> QED
  BY <1>10 DEF P, n

-----------------------------------------------------------------------------
(* What the account has gained and not booked: cash and position at cost,    *)
(* without the realized profit.                                              *)
AtCost(a) == a.total + a.net * a.avg - a.pnl

(* A purchase loses the rounding of the new average price, less than a unit  *)
(* of money for every unit of the position, and never gains; a sale loses    *)
(* nothing (apply_fill_to_position with _apply_fill).  So paper trading      *)
(* neither creates money nor loses more than rounding explains.              *)
THEOREM FillKeepsMoney ==
    ASSUME NEW a, IsAccount(a), NEW o, IsOpenOrder(o),
           NEW q \in Nat \ {0}, NEW p \in Nat,
           o.side = "SELL" => q <= a.net
    PROVE  LET b == FilledAccount(a, o, q, p)
           IN  /\ o.side = "BUY" => /\ AtCost(b) <= AtCost(a)
                                    /\ AtCost(a) - AtCost(b) < a.net + q
               /\ o.side = "SELL" => AtCost(b) = AtCost(a)
<1> DEFINE b == FilledAccount(a, o, q, p)
           fee == FillFee(o, q, p)
<1>1. a.net \in Nat /\ a.avg \in Nat /\ a.total \in Int /\ a.pnl \in Int
  BY DEF IsAccount
<1>2. q * p \in Nat /\ fee \in Int
  <2>1. q * p \in Nat
    BY ProductIsNat
  <2> QED
    BY <2>1, FeeOfParts, AccountingAssumption DEF FillFee
<1> HIDE DEF fee
<1>3. CASE o.side = "BUY"
  <2> DEFINE N == a.net + q
             C == a.net * a.avg + q * p
  <2>1. N \in Nat \ {0} /\ C \in Nat
    BY <1>1, <1>2, ProductIsNat
  <2>2. /\ b.total = a.total - (q * p + fee)
        /\ b.net = N
        /\ b.avg = C \div N
        /\ b.pnl = a.pnl - fee
    BY <1>1, <1>2, <1>3 DEF FilledAccount, Position, IsAccount, fee
  <2> HIDE DEF b, N, C
  <2>3. (C \div N) * N <= C /\ C < ((C \div N) + 1) * N /\ C \div N \in Nat
    BY <2>1, DivisionRoundsDown
  <2>4. ((C \div N) + 1) * N = (C \div N) * N + N /\ N * (C \div N) = (C \div N) * N
    BY <2>1, <2>3
  <2>5. AtCost(b) = a.total - (q * p + fee) + (C \div N) * N - (a.pnl - fee)
    BY <2>2, <2>4 DEF AtCost
  <2>6. AtCost(a) = a.total + (C - q * p) - a.pnl
    <3>1. C - q * p = a.net * a.avg
      BY <1>1, <1>2, ProductIsNat DEF C
    <3> QED
      BY <3>1 DEF AtCost
  <2> DEFINE D == (C \div N) * N
  <2>7. D \in Nat /\ D <= C /\ C < D + N
    BY <2>1, <2>3, <2>4, ProductIsNat
  <2>8. AtCost(b) = a.total - (q * p + fee) + D - (a.pnl - fee)
    BY <2>5
  <2> HIDE DEF D
  <2>9. AtCost(a) - AtCost(b) = C - D
    BY <1>1, <1>2, <2>1, <2>6, <2>7, <2>8
  <2>10. AtCost(a) \in Int /\ AtCost(b) \in Int
    BY <1>1, <1>2, <2>1, <2>6, <2>7, <2>8
  <2>11. AtCost(b) <= AtCost(a) /\ AtCost(a) - AtCost(b) < N
    BY <2>1, <2>7, <2>9, <2>10
  <2> QED
    BY <1>3, <2>11 DEF b, N
<1>4. CASE o.side = "SELL"
  <2>1. /\ b.total = a.total + (q * p - fee)
        /\ b.net = a.net - q
        /\ b.avg = (IF q = a.net THEN 0 ELSE a.avg)
        /\ b.pnl = a.pnl + q * (p - a.avg) - fee
    BY <1>1, <1>2, <1>4 DEF FilledAccount, Position, IsAccount, fee
  <2> HIDE DEF b
  <2>2. b.net * b.avg = a.net * a.avg - q * a.avg
    BY <1>1, <1>4, <2>1
  <2>3. q * (p - a.avg) = q * p - q * a.avg
    BY <1>1
  <2>4. q * a.avg \in Nat /\ a.net * a.avg \in Nat
    BY <1>1, ProductIsNat
  <2>5. AtCost(b) = a.total + (q * p - fee) + (a.net * a.avg - q * a.avg)
                      - (a.pnl + (q * p - q * a.avg) - fee)
    BY <2>1, <2>2, <2>3 DEF AtCost
  <2>6. AtCost(b) = AtCost(a)
    BY <1>1, <1>2, <2>4, <2>5 DEF AtCost
  <2> QED
    BY <1>4, <2>6 DEF b
<1> QED
  BY <1>3, <1>4 DEF IsOpenOrder

-----------------------------------------------------------------------------
(* A LIMIT order is never filled beyond its limit, nor at a price the candle *)
(* did not trade at (calculate_order_fills).                                 *)
THEOREM FillsRespectLimits ==
    ASSUME NEW o, IsOpenOrder(o), o.limit > 0,
           NEW candle, candle.open \in Nat \ {0}, candle.low \in Nat \ {0}, candle.high \in Nat,
           candle.low <= candle.open, candle.open <= candle.high,
           FillPrice(o, candle) # 0
    PROVE  /\ o.side = "BUY" => FillPrice(o, candle) <= o.limit
           /\ o.side = "SELL" => FillPrice(o, candle) >= o.limit
           /\ candle.low <= FillPrice(o, candle) /\ FillPrice(o, candle) <= candle.high
<1>1. CASE o.side = "BUY"
  BY <1>1 DEF FillPrice, IsOpenOrder
<1>2. CASE o.side = "SELL"
  BY <1>2 DEF FillPrice, IsOpenOrder
<1> QED
  BY <1>1, <1>2 DEF IsOpenOrder

(* What a candle fills is whole lots, no more than what is left of the order *)
(* and no more than what is left of the candle's volume.                     *)
THEOREM FillsFit ==
    ASSUME NEW o, IsOpenOrder(o), NEW room \in Nat
    PROVE  /\ FillQuantity(o, room) \in Nat
           /\ FillQuantity(o, room) <= Remaining(o)
           /\ FillQuantity(o, room) <= room
           /\ FillQuantity(o, room) % LotSize = 0
<1> DEFINE m == Smaller(Remaining(o), room)
<1>1. m \in Nat /\ m <= Remaining(o) /\ m <= room /\ Remaining(o) \in Nat
  BY DEF Smaller, Remaining, IsOpenOrder
<1>2. LotSize \in Nat \ {0}
  BY AccountingAssumption
<1> HIDE DEF m
<1>3. m \div LotSize \in Nat /\ (m \div LotSize) * LotSize <= m
  BY <1>1, <1>2, DivisionRoundsDown
<1>4. \A k \in Nat : (k * LotSize) % LotSize = 0 /\ k * LotSize \in Nat
  BY <1>2, ProductIsNat
<1>5. FillQuantity(o, room) = (m \div LotSize) * LotSize
  BY DEF FillQuantity, m
<1> QED
  BY <1>1, <1>3, <1>4, <1>5

-----------------------------------------------------------------------------
(* The folds of a step.  Stage says what each of them does with the next     *)
(* element; "e" is a record that names the fold and its arguments.           *)
Stage(e, b, x) ==
    CASE e.fold = "fill" -> IF x \in e.live THEN FillOrder(b, x, e.candle) ELSE b
      [] e.fold = "expire" -> IF x \in e.live THEN EndOrder(b, x, "EXPIRED") ELSE b
      [] e.fold = "plan" -> IF x.id \in e.triggered THEN Plan(b, e.runtime, x, e.candle) ELSE b

(* What a fold over n elements comes to: a chain of books.                   *)
IsChain(h, e, b, seq, n) ==
    /\ h[0] = b
    /\ \A k \in 1..n : h[k] = Stage(e, h[k - 1], seq[k])

IsFold(it, e, b, seq, n) ==
    it = [s \in SUBSET (1..n) |-> IF s = {} THEN b
                                  ELSE Stage(e, it[s \ {Max(s)}], seq[Max(s)])]

(* There is such a fold ...                                                  *)
LEMMA FoldExists ==
    ASSUME NEW e, NEW b, NEW seq, NEW n \in Nat
    PROVE  \E it : IsFold(it, e, b, seq, n)
<1> DEFINE Upto(m) == {s \in SUBSET (1..n) : s \subseteq 1..m}
           Body(g, s) == IF s = {} THEN b ELSE Stage(e, g[s \ {Max(s)}], seq[Max(s)])
           Solves(g, m) == \A s \in Upto(m) : g[s] = Body(g, s)
           N == {m \in Nat : \E g : Solves(g, m)}
<1>1. 0 \in N
  <2>1. \A s \in Upto(0) : s = {}
    OBVIOUS
  <2>2. Solves([s \in SUBSET (1..n) |-> b], 0)
    BY <2>1
  <2> QED
    BY <2>2
<1>2. ASSUME NEW m \in Nat, m \in N
      PROVE  m + 1 \in N
  <2>1. PICK g : Solves(g, m)
    BY <1>2
  <2> DEFINE k == [s \in SUBSET (1..n) |-> Body(g, s)]
  <2>2. \A s \in Upto(m) : k[s] = g[s]
    BY <2>1
  <2>3. ASSUME NEW s \in Upto(m + 1), s # {}
        PROVE  s \ {Max(s)} \in Upto(m)
    <3>1. Max(s) \in s /\ \A y \in s : Max(s) >= y
      BY <2>3, MaxIn
    <3>2. ASSUME NEW y \in s \ {Max(s)}
          PROVE  y \in 1..m
      <4>1. y \in 1..(m + 1) /\ Max(s) \in 1..(m + 1) /\ Max(s) >= y /\ y # Max(s)
        BY <2>3, <3>1
      <4> QED
        BY <4>1
    <3>3. s \ {Max(s)} \subseteq 1..m
      BY <3>2
    <3> QED
      BY <3>3
  <2>4. Solves(k, m + 1)
    <3> SUFFICES ASSUME NEW s \in Upto(m + 1)
                 PROVE  k[s] = Body(k, s)
      OBVIOUS
    <3>1. k[s] = Body(g, s)
      OBVIOUS
    <3>2. CASE s = {}
      BY <3>1, <3>2
    <3>3. CASE s # {}
      <4>1. g[s \ {Max(s)}] = k[s \ {Max(s)}]
        BY <2>2, <2>3, <3>3
      <4> HIDE DEF k
      <4> QED
        BY <3>1, <3>3, <4>1
    <3> QED
      BY <3>2, <3>3
  <2> HIDE DEF k, Solves
  <2> QED
    BY <2>4
<1>3. n \in N
  <2> HIDE DEF N
  <2> QED
    BY <1>1, <1>2, SetInduction
<1>4. PICK g : Solves(g, n)
  BY <1>3
<1> DEFINE f == [s \in SUBSET (1..n) |-> g[s]]
<1>5. \A s \in SUBSET (1..n) : s # {} => s \ {Max(s)} \in SUBSET (1..n)
  BY MaxIn
<1>6. \A s \in SUBSET (1..n) : f[s] = Body(f, s)
  BY <1>4, <1>5
<1>7. IsFold(f, e, b, seq, n)
  BY <1>6 DEF IsFold
<1> QED
  BY <1>7

(* ... and on the whole sequence it is the end of a chain.                   *)
LEMMA FoldIsChain ==
    ASSUME NEW e, NEW b, NEW seq, NEW n \in Nat, NEW it, IsFold(it, e, b, seq, n)
    PROVE  \E h : IsChain(h, e, b, seq, n) /\ h[n] = it[1..n]
<1> DEFINE h == [k \in 0..n |-> it[1..k]]
<1>1. \A s \in SUBSET (1..n) :
         it[s] = IF s = {} THEN b ELSE Stage(e, it[s \ {Max(s)}], seq[Max(s)])
  BY DEF IsFold
<1>2. h[0] = b
  <2>1. 1..0 = {} /\ it[{}] = b
    BY <1>1
  <2>2. h[0] = it[1..0]
    OBVIOUS
  <2> QED
    BY <2>1, <2>2
<1>3. ASSUME NEW k \in 1..n
      PROVE  h[k] = Stage(e, h[k - 1], seq[k])
  <2>1. Max(1..k) = k /\ (1..k) \ {k} = 1..(k - 1) /\ 1..k \in SUBSET (1..n)
    BY MaxOfInterval
  <2>2. 1..k # {}
    OBVIOUS
  <2>3. it[1..k] = Stage(e, it[1..(k - 1)], seq[k])
    BY <1>1, <2>1, <2>2
  <2>4. h[k] = it[1..k] /\ h[k - 1] = it[1..(k - 1)]
    OBVIOUS
  <2> QED
    BY <2>3, <2>4
<1>4. h[n] = it[1..n]
  OBVIOUS
<1> HIDE DEF h
<1> QED
  BY <1>2, <1>3, <1>4 DEF IsChain

-----------------------------------------------------------------------------
(* The ledger invariant, of an account "a" and its orders "os" when the      *)
(* runtimes have the kinds K.                                                *)
MappingIds == {Mappings[i].id : i \in DOMAIN Mappings}
Statuses == {"ACCEPTED", "PARTIALLY_FILLED", "FILLED", "CANCELLED", "EXPIRED", "RISK_REJECTED"}
Order == [runtime : Runtimes, kind : {"manual", "replay"}, mapping : MappingIds,
          effect : {"ENTRY", "EXIT"}, side : {"BUY", "SELL"}, limit : Nat, quantity : Nat,
          filled : Nat, status : Statuses, held : Int, placed : Nat]
Account == [total : Nat, reserved : Nat, net : Nat, avg : Nat, pnl : Int]

WellFormed(K, o) ==
    /\ o \in Order
    /\ o.kind = K[o.runtime]
    /\ o.filled <= o.quantity
    /\ IsLive(o) => o.filled < o.quantity

OrdersOK(K, os) == os \in Seq(Order) /\ \A k \in DOMAIN os : WellFormed(K, os[k])

Backed(o) ==
    IF o.side = "BUY" /\ IsLive(o) THEN Remaining(o) * o.limit <= o.held ELSE o.held = 0

AllReplays(K) == \A r \in Runtimes : K[r] = "replay"

(* What an order counts for in a sum.                                        *)
Columns == {"held", "pending", "bought"}
Weight(w, o) ==
    CASE w = "held" -> o.held
      [] w = "pending" -> IF o.side = "SELL" /\ IsLive(o) THEN Remaining(o) ELSE 0
      [] w = "bought" -> IF o.side = "BUY" THEN o.filled ELSE 0
Weights(w, os) == [k \in DOMAIN os |-> Weight(w, os[k])]
Total(w, os) == SumFunctionOnSet(Weights(w, os), DOMAIN os)

LedgerOK(K, a, os) ==
    /\ a \in Account
    /\ OrdersOK(K, os)
    /\ AllReplays(K) => /\ a.reserved = Total("held", os)
                        /\ \A k \in DOMAIN os : Backed(os[k])
                        /\ Total("pending", os) <= a.net
    /\ a.net <= Total("bought", os)
    /\ AtCost(a) <= Funds
    /\ Funds - AtCost(a) <= Total("bought", os) * Total("bought", os)

LEMMA WeightType ==
    ASSUME NEW K, NEW o, WellFormed(K, o)
    PROVE  /\ Remaining(o) \in Nat
           /\ \A w \in Columns : Weight(w, o) \in Int
           /\ Weight("pending", o) \in Nat
           /\ Weight("bought", o) \in Nat
<1>1. Remaining(o) \in Nat /\ o.filled \in Nat /\ o.held \in Int
  BY DEF WellFormed, Order, Remaining
<1>2. Weight("held", o) = o.held
  BY DEF Weight
<1>3. Weight("pending", o) \in Nat
  BY <1>1 DEF Weight
<1>4. Weight("bought", o) \in Nat
  BY <1>1 DEF Weight
<1> QED
  BY <1>1, <1>2, <1>3, <1>4 DEF Columns

LEMMA OrdersFinite ==
    ASSUME NEW os \in Seq(Order)
    PROVE  DOMAIN os = 1..Len(os) /\ Len(os) \in Nat /\ IsFiniteSet(DOMAIN os)
<1>1. DOMAIN os = 1..Len(os) /\ Len(os) \in Nat
  OBVIOUS
<1> QED
  BY <1>1, FS_Interval

LEMMA TotalType ==
    ASSUME NEW K, NEW os, OrdersOK(K, os)
    PROVE  /\ \A w \in Columns : Total(w, os) \in Int
           /\ Total("pending", os) \in Nat
           /\ Total("bought", os) \in Nat
<1>1. IsFiniteSet(DOMAIN os) /\ \A k \in DOMAIN os : WellFormed(K, os[k])
  BY OrdersFinite DEF OrdersOK
<1>2. ASSUME NEW w \in Columns
      PROVE  Total(w, os) \in Int
  <2>1. \A k \in DOMAIN os : Weights(w, os)[k] \in Int
    BY <1>1, WeightType DEF Weights
  <2> QED
    BY <1>1, <2>1, SumType DEF Total
<1>3. ASSUME NEW w \in {"pending", "bought"}
      PROVE  Total(w, os) \in Nat
  <2>1. \A k \in DOMAIN os : Weights(w, os)[k] \in Nat
    BY <1>1, WeightType DEF Weights
  <2> QED
    BY <1>1, <2>1, TermWithinSum DEF Total
<1> QED
  BY <1>2, <1>3

LEMMA ReplacedOrder ==
    ASSUME NEW K, NEW os, OrdersOK(K, os),
           NEW k \in DOMAIN os, NEW o, WellFormed(K, o)
    PROVE  LET ns == [os EXCEPT ![k] = o]
           IN  /\ ns \in Seq(Order) /\ DOMAIN ns = DOMAIN os /\ Len(ns) = Len(os)
               /\ ns[k] = o /\ \A j \in DOMAIN os \ {k} : ns[j] = os[j]
               /\ \A w \in Columns : Total(w, ns) = Total(w, os) - Weight(w, os[k]) + Weight(w, o)
<1> DEFINE ns == [os EXCEPT ![k] = o]
<1>1. o \in Order /\ os \in Seq(Order) /\ \A j \in DOMAIN os : WellFormed(K, os[j])
  BY DEF WellFormed, OrdersOK
<1>2. ns \in Seq(Order) /\ DOMAIN ns = DOMAIN os /\ Len(ns) = Len(os)
  BY <1>1
<1>3. ns[k] = o /\ \A j \in DOMAIN os \ {k} : ns[j] = os[j]
  OBVIOUS
<1> HIDE DEF ns
<1>4. ASSUME NEW w \in Columns
      PROVE  Total(w, ns) = Total(w, os) - Weight(w, os[k]) + Weight(w, o)
  <2>1. \A j \in DOMAIN os : Weights(w, os)[j] \in Int /\ Weights(w, ns)[j] \in Int
    BY <1>1, <1>2, <1>3, WeightType DEF Weights
  <2>2. \A j \in DOMAIN os \ {k} : Weights(w, os)[j] = Weights(w, ns)[j]
    BY <1>2, <1>3 DEF Weights
  <2>3. Weights(w, os)[k] = Weight(w, os[k]) /\ Weights(w, ns)[k] = Weight(w, o)
    BY <1>2, <1>3 DEF Weights
  <2>4. IsFiniteSet(DOMAIN os)
    BY <1>1, OrdersFinite
  <2>5. SumFunctionOnSet(Weights(w, ns), DOMAIN os)
          = SumFunctionOnSet(Weights(w, os), DOMAIN os) - Weights(w, os)[k] + Weights(w, ns)[k]
    <3> DEFINE D == DOMAIN os
               f == Weights(w, os)
               g == Weights(w, ns)
    <3>1. /\ IsFiniteSet(D) /\ k \in D
          /\ Terms(f, D) /\ Terms(g, D) /\ AgreeBut(f, g, D, k)
      BY <2>1, <2>2, <2>4 DEF Terms, AgreeBut
    <3> HIDE DEF D, f, g
    <3>2. SumFunctionOnSet(g, D) = SumFunctionOnSet(f, D) - f[k] + g[k]
      BY <3>1, SumChange
    <3> QED
      BY <3>2 DEF D, f, g
  <2> QED
    BY <1>2, <2>3, <2>5 DEF Total
<1> QED
  BY <1>2, <1>3, <1>4 DEF ns

LEMMA AppendedOrder ==
    ASSUME NEW K, NEW os, OrdersOK(K, os),
           NEW o, WellFormed(K, o)
    PROVE  LET ns == Append(os, o)
           IN  /\ ns \in Seq(Order) /\ Len(ns) = Len(os) + 1
               /\ DOMAIN ns = DOMAIN os \cup {Len(os) + 1}
               /\ ns[Len(os) + 1] = o /\ \A j \in DOMAIN os : ns[j] = os[j]
               /\ \A w \in Columns : Total(w, ns) = Total(w, os) + Weight(w, o)
<1> DEFINE ns == Append(os, o)
           n == Len(os) + 1
<1>1. o \in Order /\ os \in Seq(Order) /\ \A j \in DOMAIN os : WellFormed(K, os[j])
  BY DEF WellFormed, OrdersOK
<1>2. ns \in Seq(Order) /\ DOMAIN ns = DOMAIN os \cup {n} /\ Len(ns) = n /\ n \notin DOMAIN os
  BY <1>1
<1>3. ns[n] = o /\ \A j \in DOMAIN os : ns[j] = os[j]
  BY <1>1
<1> HIDE DEF ns, n
<1>4. ASSUME NEW w \in Columns
      PROVE  Total(w, ns) = Total(w, os) + Weight(w, o)
  <2> DEFINE f == Weights(w, ns)
  <2>1. \A j \in DOMAIN os \cup {n} : f[j] \in Int
    BY <1>1, <1>2, <1>3, WeightType DEF Weights
  <2>2. \A j \in DOMAIN os : Weights(w, os)[j] = f[j]
    BY <1>2, <1>3 DEF Weights
  <2>3. f[n] = Weight(w, o)
    BY <1>2, <1>3 DEF Weights
  <2>4. IsFiniteSet(DOMAIN os)
    BY <1>1, OrdersFinite
  <2> HIDE DEF f
  <2>5. SumFunctionOnSet(f, DOMAIN os \cup {n}) = SumFunctionOnSet(f, DOMAIN os) + f[n]
    <3> DEFINE D == DOMAIN os
    <3>1. IsFiniteSet(D) /\ n \notin D /\ \A j \in D \cup {n} : f[j] \in Int
      BY <1>2, <2>1, <2>4
    <3> HIDE DEF D
    <3>2. SumFunctionOnSet(f, D \cup {n}) = SumFunctionOnSet(f, D) + f[n]
      BY <3>1, SumAdd
    <3> QED
      BY <3>2 DEF D
  <2>6. SumFunctionOnSet(Weights(w, os), DOMAIN os) = SumFunctionOnSet(f, DOMAIN os)
    BY <2>1, <2>2, <2>4, SumEqual
  <2> QED
    BY <1>2, <2>3, <2>5, <2>6 DEF Total, f
<1> QED
  BY <1>2, <1>3, <1>4 DEF ns, n

-----------------------------------------------------------------------------
(* A fill keeps the ledger invariant.                                        *)
LEMMA FillTypes ==
    ASSUME NEW K, NEW a \in Account, NEW o, WellFormed(K, o), IsLive(o),
           o.kind \in {"manual", "replay"},
           NEW q \in Nat \ {0}, q <= Remaining(o), NEW p \in Nat
    PROVE  /\ IsOpenOrder(o) /\ IsAccount(a)
           /\ q * p \in Nat
           /\ FillFee(o, q, p) \in Nat
           /\ ReleasedByFill(a, o, q, p) \in Int
<1>1. IsOpenOrder(o) /\ IsAccount(a)
  BY DEF WellFormed, Order, Account, IsOpenOrder, IsAccount
<1>2. q * p \in Nat
  BY ProductIsNat
<1>3. FillFee(o, q, p) \in Nat
  <2>1. PercentageFee(q * p) \in Nat
    BY <1>2, FeeOfParts
  <2> QED
    BY <2>1, AccountingAssumption DEF FillFee
<1>4. Remaining(o) \in Nat \ {0} /\ o.held \in Int /\ a.reserved \in Nat
  BY DEF WellFormed, Order, Account, Remaining
<1>5. (o.held * q) \div Remaining(o) \in Int
  <2>1. o.held * q \in Int
    BY <1>4
  <2> QED
    BY <1>4, <2>1
<1>6. Smaller(q * p + FillFee(o, q, p), a.reserved) \in Int
  BY <1>2, <1>3, <1>4 DEF Smaller
<1>7. o.side \in {"BUY", "SELL"}
  BY DEF WellFormed, Order
<1> QED
  BY <1>1, <1>2, <1>3, <1>5, <1>6, <1>7 DEF ReleasedByFill

LEMMA FilledWellFormed ==
    ASSUME NEW K, NEW a \in Account, NEW o, WellFormed(K, o), IsLive(o),
           NEW q \in Nat \ {0}, q <= Remaining(o), NEW p \in Nat
    PROVE  LET n == FilledOrder(a, o, q, p)
           IN  /\ WellFormed(K, n)
               /\ n.side = o.side
               /\ IsLive(n) <=> Remaining(n) # 0
               /\ Weight("held", n) = o.held - ReleasedByFill(a, o, q, p)
               /\ Weight("pending", o) - Weight("pending", n) = IF o.side = "SELL" THEN q ELSE 0
               /\ Weight("bought", n) - Weight("bought", o) = IF o.side = "BUY" THEN q ELSE 0
<1> DEFINE n == FilledOrder(a, o, q, p)
<1>1. /\ o \in Order /\ o.kind = K[o.runtime] /\ o.filled < o.quantity
      /\ o.filled \in Nat /\ o.quantity \in Nat /\ Remaining(o) = o.quantity - o.filled
  BY DEF WellFormed, Order, Remaining
<1>2. IsOpenOrder(o) /\ ReleasedByFill(a, o, q, p) \in Int
  BY <1>1, FillTypes DEF Order
<1>3. /\ n \in Order
      /\ n.runtime = o.runtime
      /\ n.status = IF o.filled + q >= o.quantity THEN "FILLED" ELSE "PARTIALLY_FILLED"
  <2> DEFINE f == o.filled + q
             h == o.held - ReleasedByFill(a, o, q, p)
             s == IF o.filled + q >= o.quantity THEN "FILLED" ELSE "PARTIALLY_FILLED"
  <2>1. f \in Nat /\ h \in Int /\ s \in Statuses
    BY <1>1, <1>2 DEF Order, Statuses
  <2>2. n = [o EXCEPT !.filled = f, !.held = h, !.status = s]
    BY DEF FilledOrder
  <2> HIDE DEF n, f, h, s
  <2>3. n \in Order /\ n.runtime = o.runtime /\ n.status = s
    BY <1>1, <2>1, <2>2 DEF Order
  <2> QED
    BY <2>3 DEF s
<1>4. /\ n.filled = o.filled + q /\ n.held = o.held - ReleasedByFill(a, o, q, p)
      /\ n.quantity = o.quantity /\ n.side = o.side /\ n.kind = o.kind
      /\ Remaining(n) = Remaining(o) - q
  BY <1>2, FilledFields
<1> HIDE DEF n
<1>5. n.filled <= n.quantity /\ (IsLive(n) <=> n.filled < n.quantity)
  BY <1>1, <1>3, <1>4 DEF IsLive, Live
<1>6. WellFormed(K, n)
  BY <1>1, <1>3, <1>4, <1>5 DEF WellFormed
<1>7. IsLive(n) <=> Remaining(n) # 0
  BY <1>1, <1>4, <1>5
<1>8. Weight("held", n) = o.held - ReleasedByFill(a, o, q, p)
  BY <1>4 DEF Weight
<1>9. Weight("pending", o) - Weight("pending", n) = IF o.side = "SELL" THEN q ELSE 0
  BY <1>1, <1>4, <1>7 DEF Weight
<1>10. Weight("bought", n) - Weight("bought", o) = IF o.side = "BUY" THEN q ELSE 0
  BY <1>1, <1>4 DEF Weight
<1> QED
  BY <1>4, <1>6, <1>7, <1>8, <1>9, <1>10 DEF n

LEMMA FilledAccountType ==
    ASSUME NEW K, NEW a \in Account, NEW o, WellFormed(K, o), IsLive(o),
           NEW q \in Nat \ {0}, q <= Remaining(o), NEW p \in Nat,
           Sound(FilledAccount(a, o, q, p))
    PROVE  LET b == FilledAccount(a, o, q, p)
           IN  /\ b \in Account
               /\ b.reserved = a.reserved - ReleasedByFill(a, o, q, p)
               /\ b.net = IF o.side = "BUY" THEN a.net + q ELSE a.net - q
<1> DEFINE b == FilledAccount(a, o, q, p)
           fee == FillFee(o, q, p)
           d == ReleasedByFill(a, o, q, p)
<1>1. q * p \in Nat /\ fee \in Nat /\ d \in Int /\ o.side \in {"BUY", "SELL"}
  BY FillTypes DEF WellFormed, Order
<1>2. a.total \in Nat /\ a.reserved \in Nat /\ a.net \in Nat /\ a.avg \in Nat /\ a.pnl \in Int
  BY DEF Account
<1>3. Sound(b)
  OBVIOUS
<1> HIDE DEF fee, d
<1>4. CASE o.side = "BUY"
  <2> DEFINE N == a.net + q
             C == a.net * a.avg + q * p
  <2>1. N \in Nat \ {0} /\ C \in Nat
    BY <1>1, <1>2, ProductIsNat
  <2>2. C \div N \in Nat
    BY <2>1, DivisionRoundsDown
  <2> DEFINE P == [a EXCEPT !.net = N, !.avg = C \div N, !.pnl = a.pnl - fee]
             t == a.total - (q * p + fee)
             r == a.reserved - d
  <2>7. b = [P EXCEPT !.total = t, !.reserved = r]
    BY <1>1, <1>2, <1>4 DEF FilledAccount, Position, fee, d
  <2>8. t \in Int /\ r \in Int /\ a.pnl - fee \in Int
    BY <1>1, <1>2
  <2> HIDE DEF N, C, t, r
  <2>9. /\ P \in [total : Nat, reserved : Nat, net : Nat, avg : Nat, pnl : Int]
        /\ P.net = N
    BY <2>1, <2>2, <2>8 DEF Account
  <2> HIDE DEF P, b
  <2>3. /\ b \in [total : Int, reserved : Int, net : Nat, avg : Nat, pnl : Int]
        /\ b.net = N /\ b.reserved = r
    BY <2>7, <2>8, <2>9
  <2>4. 0 <= b.reserved /\ b.reserved <= b.total
    BY <1>3 DEF Sound
  <2>6. b \in Account
    BY <2>3, <2>4 DEF Account
  <2> QED
    BY <1>4, <2>3, <2>6 DEF b, N, d, r
<1>5. CASE o.side = "SELL"
  <2> DEFINE m == a.net - q
             v == IF q = a.net THEN 0 ELSE a.avg
             g == a.pnl + q * (p - a.avg) - fee
             P == [a EXCEPT !.net = m, !.avg = v, !.pnl = g]
             t == a.total + (q * p - fee)
             r == a.reserved - d
  <2>1. b = [P EXCEPT !.total = t, !.reserved = r]
    BY <1>1, <1>2, <1>5 DEF FilledAccount, Position, fee, d
  <2>2. q * (p - a.avg) \in Int
    BY <1>2
  <2>3. t \in Int /\ r \in Int /\ m \in Int /\ v \in Nat /\ g \in Int
    BY <1>1, <1>2, <2>2
  <2> HIDE DEF m, v, g, t, r
  <2>4. P \in [total : Nat, reserved : Nat, net : Int, avg : Nat, pnl : Int] /\ P.net = m
    BY <2>3 DEF Account
  <2> HIDE DEF P, b
  <2>5. /\ b \in [total : Int, reserved : Int, net : Int, avg : Nat, pnl : Int]
        /\ b.net = m /\ b.reserved = r
    BY <2>1, <2>3, <2>4
  <2>6. b \in Account
    BY <1>3, <2>5 DEF Account, Sound
  <2> QED
    BY <1>5, <2>5, <2>6 DEF b, d, m, r
<1> QED
  BY <1>1, <1>4, <1>5

(* The squares by which the drift is bounded.                                *)
LEMMA SquareGrows ==
    ASSUME NEW x \in Nat, NEW q \in Nat \ {0}, NEW net \in Nat, net <= x
    PROVE  x * x + net + q <= (x + q) * (x + q)
<1>1. (x + q) * (x + q) = x * x + x * q + x * q + q * q
  OBVIOUS
<1>2. x * q \in Nat /\ q * q \in Nat /\ x * x \in Nat
  BY ProductIsNat
<1>3. x * 1 <= x * q /\ q * 1 <= q * q
  BY ProductMonotonic
<1> QED
  BY <1>1, <1>2, <1>3

LEMMA FillKeeps ==
    ASSUME NEW K, NEW a, NEW os, LedgerOK(K, a, os), NEW k \in DOMAIN os, IsLive(os[k]),
           NEW q \in Nat \ {0}, q <= Remaining(os[k]), NEW p \in Nat,
           Sound(FilledAccount(a, os[k], q, p))
    PROVE  LedgerOK(K, FilledAccount(a, os[k], q, p),
                    [os EXCEPT ![k] = FilledOrder(a, os[k], q, p)])
<1> DEFINE o == os[k]
           n == FilledOrder(a, o, q, p)
           b == FilledAccount(a, o, q, p)
           ns == [os EXCEPT ![k] = n]
           d == ReleasedByFill(a, o, q, p)
<1>1. /\ a \in Account /\ OrdersOK(K, os)
      /\ os \in Seq(Order) /\ \A j \in DOMAIN os : WellFormed(K, os[j])
      /\ WellFormed(K, o) /\ o.side \in {"BUY", "SELL"} /\ o.kind \in {"manual", "replay"}
      /\ o.runtime \in Runtimes /\ o.kind = K[o.runtime]
  BY DEF LedgerOK, OrdersOK, WellFormed, Order
<1>2. /\ WellFormed(K, n) /\ n.side = o.side /\ (IsLive(n) <=> Remaining(n) # 0)
      /\ Weight("held", n) = o.held - d
      /\ Weight("pending", o) - Weight("pending", n) = IF o.side = "SELL" THEN q ELSE 0
      /\ Weight("bought", n) - Weight("bought", o) = IF o.side = "BUY" THEN q ELSE 0
  BY <1>1, FilledWellFormed
<1>3. /\ b \in Account
      /\ b.reserved = a.reserved - d
      /\ b.net = IF o.side = "BUY" THEN a.net + q ELSE a.net - q
  BY <1>1, FilledAccountType
<1>4. IsOpenOrder(o) /\ IsAccount(a) /\ d \in Int
  BY <1>1, FillTypes
<1> HIDE DEF n, b
<1>5. /\ ns \in Seq(Order) /\ DOMAIN ns = DOMAIN os
      /\ ns[k] = n /\ \A j \in DOMAIN os \ {k} : ns[j] = os[j]
      /\ \A w \in Columns : Total(w, ns) = Total(w, os) - Weight(w, o) + Weight(w, n)
  BY <1>1, <1>2, ReplacedOrder
<1> HIDE DEF ns, d
<1>6. OrdersOK(K, ns)
  BY <1>1, <1>2, <1>5 DEF OrdersOK
<1>7. /\ Total("held", os) \in Int /\ Total("pending", os) \in Nat /\ Total("bought", os) \in Nat
      /\ Total("held", ns) \in Int /\ Total("pending", ns) \in Nat /\ Total("bought", ns) \in Nat
  BY <1>1, <1>5, <1>6, TotalType DEF Columns
<1>8. /\ \A w \in Columns : Weight(w, o) \in Int /\ Weight(w, n) \in Int
      /\ Weight("held", o) = o.held /\ o.held \in Int
  BY <1>1, <1>2, WeightType DEF Weight, WellFormed, Order
<1>9. /\ Total("held", ns) = Total("held", os) - d
      /\ Total("pending", ns) = Total("pending", os) - (IF o.side = "SELL" THEN q ELSE 0)
      /\ Total("bought", ns) = Total("bought", os) + (IF o.side = "BUY" THEN q ELSE 0)
  <2>1. /\ Total("held", ns) = Total("held", os) - Weight("held", o) + Weight("held", n)
        /\ Total("pending", ns) = Total("pending", os) - Weight("pending", o) + Weight("pending", n)
        /\ Total("bought", ns) = Total("bought", os) - Weight("bought", o) + Weight("bought", n)
    BY <1>5 DEF Columns
  <2>2. /\ Weight("pending", o) \in Int /\ Weight("pending", n) \in Int
        /\ Weight("bought", o) \in Int /\ Weight("bought", n) \in Int
    BY <1>8 DEF Columns
  <2>3. Total("held", ns) = Total("held", os) - d
    BY <1>2, <1>4, <1>7, <1>8, <2>1
  <2> DEFINE qs == IF o.side = "SELL" THEN q ELSE 0
             qb == IF o.side = "BUY" THEN q ELSE 0
  <2>4. qs \in Int /\ qb \in Int
    OBVIOUS
  <2>5. /\ Weight("pending", o) - Weight("pending", n) = qs
        /\ Weight("bought", n) - Weight("bought", o) = qb
    BY <1>2
  <2> HIDE DEF qs, qb
  <2>6. /\ Total("pending", ns) = Total("pending", os) - qs
        /\ Total("bought", ns) = Total("bought", os) + qb
    BY <1>7, <2>1, <2>2, <2>4, <2>5
  <2> QED
    BY <2>3, <2>6 DEF qs, qb
<1>10. a.net \in Nat /\ a.reserved \in Nat
  BY <1>1 DEF Account
<1>11. ASSUME AllReplays(K)
       PROVE  /\ b.reserved = Total("held", ns)
              /\ \A j \in DOMAIN ns : Backed(ns[j])
              /\ Total("pending", ns) <= b.net
  <2>1. /\ a.reserved = Total("held", os) /\ \A j \in DOMAIN os : Backed(os[j])
        /\ Total("pending", os) <= a.net
    BY <1>11 DEF LedgerOK
  <2>2. b.reserved = Total("held", ns)
    BY <1>3, <1>9, <2>1
  <2>3. Total("pending", ns) <= b.net
    BY <1>1, <1>3, <1>7, <1>9, <1>10, <2>1
  <2>4. Backed(n)
    <3>1. o.kind = "replay"
      BY <1>1, <1>11 DEF AllReplays
    <3>2. CASE o.side = "BUY"
      <4>1. Remaining(o) * o.limit <= o.held
        BY <2>1, <3>2 DEF Backed
      <4>2. Remaining(n) * n.limit <= n.held /\ (Remaining(n) = 0 => n.held = 0)
        BY <1>4, <3>1, <3>2, <4>1, FillKeepsBacking DEF n
      <4> QED
        BY <1>2, <3>2, <4>2 DEF Backed
    <3>3. CASE o.side = "SELL"
      <4>1. o.held = 0 /\ d = 0
        BY <2>1, <3>3 DEF Backed, d, ReleasedByFill
      <4>2. Weight("held", n) = n.held
        BY DEF Weight
      <4> QED
        BY <1>2, <3>3, <4>1, <4>2 DEF Backed
    <3> QED
      BY <1>1, <3>2, <3>3
  <2> QED
    BY <1>5, <2>1, <2>2, <2>3, <2>4
<1>12. a.net <= Total("bought", os) /\ b.net <= Total("bought", ns)
  <2>1. a.net <= Total("bought", os)
    BY DEF LedgerOK
  <2> QED
    BY <1>1, <1>3, <1>7, <1>9, <1>10, <2>1
<1>13. AtCost(b) <= Funds /\ Funds - AtCost(b) <= Total("bought", ns) * Total("bought", ns)
  <2> DEFINE x == Total("bought", os)
             y == Total("bought", ns)
  <2>1. AtCost(a) <= Funds /\ Funds - AtCost(a) <= x * x
    BY DEF LedgerOK
  <2>2. /\ o.side = "BUY" => AtCost(b) <= AtCost(a) /\ AtCost(a) - AtCost(b) < a.net + q
        /\ o.side = "SELL" => AtCost(b) = AtCost(a)
    <3>1. o.side = "SELL" => q <= a.net
      BY <1>3, <1>10 DEF Account
    <3> QED
      BY <1>4, <3>1, FillKeepsMoney DEF b
  <2>3. AtCost(a) \in Int /\ AtCost(b) \in Int /\ Funds \in Int
    <3>1. ASSUME NEW c \in Account
          PROVE  AtCost(c) \in Int
      <4>1. c.net \in Nat /\ c.avg \in Nat /\ c.total \in Nat /\ c.pnl \in Int
        BY DEF Account
      <4>2. c.net * c.avg \in Nat
        BY <4>1, ProductIsNat
      <4> QED
        BY <4>1, <4>2 DEF AtCost
    <3>2. Funds \in Int
      BY LedgerAssumption
    <3> QED
      BY <1>1, <1>3, <3>1, <3>2
  <2>4. x \in Nat /\ y = IF o.side = "BUY" THEN x + q ELSE x
    BY <1>1, <1>7, <1>9
  <2>5. a.net <= x /\ a.net \in Nat
    BY <1>10, <1>12
  <2> HIDE DEF x, y
  <2>6. x * x \in Nat /\ x * x + a.net + q <= (x + q) * (x + q) /\ (x + q) * (x + q) \in Nat
    BY <2>4, <2>5, SquareGrows, ProductIsNat
  <2> DEFINE xx == x * x
             zz == (x + q) * (x + q)
  <2>7. CASE o.side = "BUY"
    <3>1. y * y = zz /\ xx \in Nat /\ zz \in Nat /\ xx + a.net + q <= zz /\ Funds - AtCost(a) <= xx
      BY <2>1, <2>4, <2>6, <2>7
    <3> HIDE DEF xx, zz
    <3>2. AtCost(b) <= Funds /\ Funds - AtCost(b) <= zz
      BY <2>1, <2>2, <2>3, <2>5, <2>7, <3>1
    <3> QED
      BY <3>1, <3>2 DEF y
  <2>8. CASE o.side = "SELL"
    BY <2>1, <2>2, <2>4, <2>8 DEF y
  <2> QED
    BY <1>1, <2>7, <2>8
<1>14. LedgerOK(K, b, ns)
  BY <1>3, <1>5, <1>6, <1>11, <1>12, <1>13 DEF LedgerOK
<1> QED
  BY <1>14 DEF b, ns, n

-----------------------------------------------------------------------------
(* The end of an order keeps the ledger invariant.                           *)
LEMMA HeldWithinReserved ==
    ASSUME NEW K, NEW a, NEW os, LedgerOK(K, a, os), AllReplays(K), NEW k \in DOMAIN os
    PROVE  os[k].held \in Nat /\ os[k].held <= a.reserved
<1>1. /\ OrdersOK(K, os) /\ a.reserved = Total("held", os) /\ \A j \in DOMAIN os : Backed(os[j])
      /\ IsFiniteSet(DOMAIN os)
  BY OrdersFinite DEF LedgerOK, OrdersOK
<1>2. ASSUME NEW j \in DOMAIN os
      PROVE  os[j].held \in Nat
  <2>1. os[j].held \in Int /\ os[j].limit \in Nat /\ Remaining(os[j]) \in Nat
    BY <1>1, WeightType DEF OrdersOK, WellFormed, Order
  <2>2. Remaining(os[j]) * os[j].limit \in Nat
    BY <2>1, ProductIsNat
  <2> QED
    BY <1>1, <2>1, <2>2 DEF Backed
<1>3. \A j \in DOMAIN os : Weights("held", os)[j] = os[j].held
  BY DEF Weights, Weight
<1>4. Weights("held", os)[k] <= SumFunctionOnSet(Weights("held", os), DOMAIN os)
  BY <1>1, <1>2, <1>3, TermWithinSum
<1> QED
  BY <1>1, <1>2, <1>3, <1>4 DEF Total

LEMMA EndKeeps ==
    ASSUME NEW K, NEW a, NEW os, LedgerOK(K, a, os), NEW k \in DOMAIN os, IsLive(os[k]),
           NEW how \in {"CANCELLED", "EXPIRED"},
           Sound(EndedAccount(a, os[k], how))
    PROVE  LedgerOK(K, EndedAccount(a, os[k], how), [os EXCEPT ![k] = EndedOrder(a, os[k], how)])
<1> DEFINE o == os[k]
           n == EndedOrder(a, o, how)
           b == EndedAccount(a, o, how)
           ns == [os EXCEPT ![k] = n]
           d == ReleasedByEnd(a, o, how)
<1>1. /\ a \in Account /\ OrdersOK(K, os) /\ WellFormed(K, o)
      /\ o \in Order /\ o.kind = K[o.runtime] /\ o.filled < o.quantity
  BY DEF LedgerOK, OrdersOK, WellFormed
<1>2. /\ o.side \in {"BUY", "SELL"} /\ o.kind \in {"manual", "replay"} /\ o.runtime \in Runtimes
      /\ o.held \in Int /\ a.reserved \in Nat /\ a.total \in Nat
      /\ o.filled \in Nat /\ o.quantity \in Nat /\ o.limit \in Nat
  BY <1>1 DEF Order, Account
<1>3. d \in Int
  <2>1. FormulaRelease(o) \in Int
    <3>1. Remaining(o) \in Nat
      BY <1>1, <1>2 DEF Remaining
    <3>2. Remaining(o) * o.limit \in Nat
      BY <1>2, <3>1, ProductIsNat
    <3>3. PercentageFee(Remaining(o) * o.limit) \in Nat
      BY <3>2, FeeOfParts
    <3> QED
      BY <3>2, <3>3, AccountingAssumption DEF FormulaRelease
  <2> QED
    BY <1>2, <2>1 DEF ReleasedByEnd, Smaller
<1> DEFINE h == o.held - d
           r == Larger(0, a.reserved - d)
<1>4. h \in Int /\ r \in Nat
  BY <1>2, <1>3 DEF Larger
<1>5. n = [o EXCEPT !.status = how, !.held = h] /\ b = [a EXCEPT !.reserved = r]
  BY DEF EndedOrder, EndedAccount
<1> HIDE DEF n, b, h, r
<1>6. /\ n \in Order /\ n.status = how /\ n.held = h /\ n.runtime = o.runtime /\ n.kind = o.kind
      /\ n.side = o.side /\ n.filled = o.filled /\ n.quantity = o.quantity
  <2>1. how \in Statuses
    BY DEF Statuses
  <2> QED
    BY <1>1, <1>4, <1>5, <2>1 DEF Order
<1>7. WellFormed(K, n) /\ ~IsLive(n)
  BY <1>1, <1>2, <1>6 DEF WellFormed, IsLive, Live
<1>8. /\ b \in Account /\ b.reserved = r
      /\ b.net = a.net /\ b.avg = a.avg /\ b.total = a.total /\ b.pnl = a.pnl
  BY <1>1, <1>4, <1>5 DEF Account
<1>9. /\ ns \in Seq(Order) /\ DOMAIN ns = DOMAIN os
      /\ ns[k] = n /\ \A j \in DOMAIN os \ {k} : ns[j] = os[j]
      /\ \A w \in Columns : Total(w, ns) = Total(w, os) - Weight(w, o) + Weight(w, n)
  BY <1>1, <1>7, ReplacedOrder
<1> HIDE DEF ns
<1>10. OrdersOK(K, ns)
  BY <1>1, <1>7, <1>9 DEF OrdersOK
<1>11. /\ Total("held", os) \in Int /\ Total("pending", os) \in Nat /\ Total("bought", os) \in Nat
  BY <1>1, TotalType DEF Columns
<1>12. /\ Weight("held", o) = o.held /\ Weight("held", n) = h
       /\ Weight("pending", o) \in Nat /\ Weight("pending", n) = 0
       /\ Weight("bought", o) \in Nat /\ Weight("bought", n) = Weight("bought", o)
  BY <1>1, <1>6, <1>7, WeightType DEF Weight
<1>13. /\ Total("held", ns) = Total("held", os) - o.held + h
       /\ Total("pending", ns) <= Total("pending", os)
       /\ Total("bought", ns) = Total("bought", os)
  <2>1. /\ Total("held", ns) = Total("held", os) - o.held + h
        /\ Total("pending", ns) = Total("pending", os) - Weight("pending", o) + 0
        /\ Total("bought", ns) = Total("bought", os) - Weight("bought", o) + Weight("bought", o)
    BY <1>9, <1>12 DEF Columns
  <2> QED
    BY <1>11, <1>12, <2>1
<1>14. ASSUME AllReplays(K)
       PROVE  /\ b.reserved = Total("held", ns)
              /\ \A j \in DOMAIN ns : Backed(ns[j])
              /\ Total("pending", ns) <= b.net
  <2>1. /\ a.reserved = Total("held", os) /\ \A j \in DOMAIN os : Backed(os[j])
        /\ Total("pending", os) <= a.net
    BY <1>14 DEF LedgerOK
  <2>2. o.held \in Nat /\ o.held <= a.reserved
    BY <1>14, HeldWithinReserved
  <2>3. o.kind = "replay"
    BY <1>1, <1>2, <1>14 DEF AllReplays
  <2>4. d = o.held
    <3>1. CASE o.side = "BUY"
      BY <2>2, <2>3, <3>1 DEF ReleasedByEnd, Smaller
    <3>2. CASE o.side = "SELL"
      BY <2>1, <3>2 DEF ReleasedByEnd, Backed
    <3> QED
      BY <1>2, <3>1, <3>2
  <2>5. h = 0 /\ r = a.reserved - o.held
    BY <1>2, <2>2, <2>4 DEF h, r, Larger
  <2>6. Backed(n)
    BY <1>6, <1>7, <2>5 DEF Backed
  <2>7. \A j \in DOMAIN ns : Backed(ns[j])
    BY <1>9, <2>1, <2>6
  <2>8. b.reserved = Total("held", ns)
    BY <1>2, <1>8, <1>13, <2>1, <2>5
  <2>9. Total("pending", ns) <= b.net
    <3>1. Total("pending", ns) \in Int /\ a.net \in Int
      BY <1>1, <1>10, TotalType DEF Columns, Account
    <3> QED
      BY <1>8, <1>11, <1>13, <2>1, <3>1
  <2> QED
    BY <2>7, <2>8, <2>9
<1>15. AtCost(b) = AtCost(a)
  BY <1>8 DEF AtCost
<1>16. LedgerOK(K, b, ns)
  BY <1>8, <1>10, <1>13, <1>14, <1>15 DEF LedgerOK
<1> QED
  BY <1>16 DEF b, ns, n

(* A new order that adds what it holds to the reserved cash, and does not    *)
(* sell more than is free, keeps the ledger invariant.                       *)
LEMMA AppendKeeps ==
    ASSUME NEW K, NEW a, NEW os, LedgerOK(K, a, os), NEW o, WellFormed(K, o), o.filled = 0,
           NEW b \in Account, b.reserved = a.reserved + o.held,
           b.net = a.net, b.avg = a.avg, b.total = a.total, b.pnl = a.pnl,
           AllReplays(K) => Backed(o) /\ Total("pending", os) + Weight("pending", o) <= a.net
    PROVE  LedgerOK(K, b, Append(os, o))
<1> DEFINE ns == Append(os, o)
<1>1. a \in Account /\ OrdersOK(K, os)
  BY DEF LedgerOK
<1>2. /\ ns \in Seq(Order) /\ DOMAIN ns = DOMAIN os \cup {Len(os) + 1}
      /\ ns[Len(os) + 1] = o /\ \A j \in DOMAIN os : ns[j] = os[j]
      /\ \A w \in Columns : Total(w, ns) = Total(w, os) + Weight(w, o)
  BY <1>1, AppendedOrder
<1> HIDE DEF ns
<1>3. OrdersOK(K, ns)
  BY <1>1, <1>2 DEF OrdersOK
<1>4. Weight("held", o) = o.held /\ Weight("bought", o) = 0
  BY DEF Weight
<1>5. Total("bought", os) \in Nat
  BY <1>1, TotalType
<1>6. /\ Total("held", ns) = Total("held", os) + o.held
      /\ Total("pending", ns) = Total("pending", os) + Weight("pending", o)
      /\ Total("bought", ns) = Total("bought", os)
  <2>1. Total("bought", ns) = Total("bought", os) + 0
    BY <1>2, <1>4 DEF Columns
  <2> QED
    BY <1>2, <1>4, <1>5, <2>1 DEF Columns
<1>7. AllReplays(K) => /\ b.reserved = Total("held", ns)
                       /\ \A j \in DOMAIN ns : Backed(ns[j])
                       /\ Total("pending", ns) <= b.net
  BY <1>2, <1>6 DEF LedgerOK
<1>8. AtCost(b) = AtCost(a)
  BY DEF AtCost
<1>9. LedgerOK(K, b, ns)
  BY <1>3, <1>6, <1>7, <1>8 DEF LedgerOK
<1> QED
  BY <1>9 DEF ns
-----------------------------------------------------------------------------
(* The folds of the model are folds of Stage.                                *)
LEMMA FillAllIsChain ==
    ASSUME NEW r, NEW candle, Len(orders) \in Nat
    PROVE  \E h : /\ IsChain(h, [fold |-> "fill", live |-> LiveOrders(r), candle |-> candle],
                             [Book EXCEPT !.room = MaxAllocatable(candle)],
                             [k \in 1..Len(orders) |-> k], Len(orders))
                  /\ FillAll(r, candle) = h[Len(orders)]
<1> DEFINE n == Len(orders)
           seq == [k \in 1..n |-> k]
           b == [Book EXCEPT !.room = MaxAllocatable(candle)]
           e == [fold |-> "fill", live |-> LiveOrders(r), candle |-> candle]
           Next1(c, k) == IF k \in LiveOrders(r) THEN FillOrder(c, k, candle) ELSE c
           Eq(g) == g = [s \in SUBSET DOMAIN seq |->
                           IF s = {} THEN b ELSE Next1(g[s \ {Max(s)}], seq[Max(s)])]
           it == CHOOSE g : Eq(g)
<1>1. FillAll(r, candle) = it[DOMAIN seq]
  BY DEF FillAll, FoldLeft, MapThenFoldSet
<1>2. DOMAIN seq = 1..n
  OBVIOUS
<1>3. \A c, k : Stage(e, c, k) = Next1(c, k)
  BY DEF Stage
<1> HIDE DEF e, b, seq, Next1
<1>4. PICK g : IsFold(g, e, b, seq, n)
  BY FoldExists
<1>5. Eq(g)
  BY <1>2, <1>3, <1>4 DEF IsFold
<1>6. Eq(it)
  <2> HIDE DEF Eq
  <2> QED
    BY <1>5, Zenon
<1> HIDE DEF it
<1>7. IsFold(it, e, b, seq, n)
  BY <1>2, <1>3, <1>6 DEF IsFold
<1>8. \E h : IsChain(h, e, b, seq, n) /\ h[n] = it[1..n]
  BY <1>7, FoldIsChain
<1> QED
  BY <1>1, <1>2, <1>8 DEF e, b, seq

LEMMA ExpireAllIsChain ==
    ASSUME NEW r, NEW b, Len(b.orders) \in Nat
    PROVE  \E h : /\ IsChain(h, [fold |-> "expire", live |-> LiveIn(b, r)], b,
                             [k \in 1..Len(b.orders) |-> k], Len(b.orders))
                  /\ ExpireAll(b, r) = h[Len(b.orders)]
<1> DEFINE n == Len(b.orders)
           seq == [k \in 1..n |-> k]
           e == [fold |-> "expire", live |-> LiveIn(b, r)]
           Next1(c, k) == IF k \in LiveIn(b, r) THEN EndOrder(c, k, "EXPIRED") ELSE c
           Eq(g) == g = [s \in SUBSET DOMAIN seq |->
                           IF s = {} THEN b ELSE Next1(g[s \ {Max(s)}], seq[Max(s)])]
           it == CHOOSE g : Eq(g)
<1>1. ExpireAll(b, r) = it[DOMAIN seq]
  BY DEF ExpireAll, FoldLeft, MapThenFoldSet
<1>2. DOMAIN seq = 1..n
  OBVIOUS
<1>3. \A c, k : Stage(e, c, k) = Next1(c, k)
  BY DEF Stage
<1> HIDE DEF e, seq, Next1
<1>4. PICK g : IsFold(g, e, b, seq, n)
  BY FoldExists
<1>5. Eq(g)
  BY <1>2, <1>3, <1>4 DEF IsFold
<1>6. Eq(it)
  <2> HIDE DEF Eq
  <2> QED
    BY <1>5, Zenon
<1> HIDE DEF it
<1>7. IsFold(it, e, b, seq, n)
  BY <1>2, <1>3, <1>6 DEF IsFold
<1>8. \E h : IsChain(h, e, b, seq, n) /\ h[n] = it[1..n]
  BY <1>7, FoldIsChain
<1> QED
  BY <1>1, <1>2, <1>8 DEF e, seq

LEMMA PlanActionsIsChain ==
    ASSUME NEW r, NEW b, NEW triggered, NEW candle
    PROVE  \E h : /\ IsChain(h, [fold |-> "plan", triggered |-> triggered, runtime |-> r,
                                 candle |-> candle],
                             b, Mappings, Len(Mappings))
                  /\ PlanActions(b, r, triggered, candle) = h[Len(Mappings)]
<1> DEFINE n == Len(Mappings)
           e == [fold |-> "plan", triggered |-> triggered, runtime |-> r, candle |-> candle]
           Next1(c, m) == IF m.id \in triggered THEN Plan(c, r, m, candle) ELSE c
           Eq(g) == g = [s \in SUBSET DOMAIN Mappings |->
                           IF s = {} THEN b ELSE Next1(g[s \ {Max(s)}], Mappings[Max(s)])]
           it == CHOOSE g : Eq(g)
<1>1. PlanActions(b, r, triggered, candle) = it[DOMAIN Mappings]
  BY DEF PlanActions, FoldLeft, MapThenFoldSet
<1>2. DOMAIN Mappings = 1..n /\ n \in Nat
  BY LedgerAssumption
<1>3. \A c, m : Stage(e, c, m) = Next1(c, m)
  BY DEF Stage
<1> HIDE DEF e, Next1
<1>4. PICK g : IsFold(g, e, b, Mappings, n)
  BY <1>2, FoldExists
<1>5. Eq(g)
  BY <1>2, <1>3, <1>4 DEF IsFold
<1>6. Eq(it)
  <2> HIDE DEF Eq
  <2> QED
    BY <1>5, Zenon
<1> HIDE DEF it
<1>7. IsFold(it, e, b, Mappings, n)
  BY <1>2, <1>3, <1>6 DEF IsFold
<1>8. \E h : IsChain(h, e, b, Mappings, n) /\ h[n] = it[1..n]
  BY <1>2, <1>7, FoldIsChain
<1> QED
  BY <1>1, <1>2, <1>8 DEF e

-----------------------------------------------------------------------------
(* The sums of the model are totals.                                         *)
LEMMA SumsAreTotals ==
    ASSUME NEW K, NEW os, OrdersOK(K, os)
    PROVE  /\ SumFunctionOnSet([k \in DOMAIN os |-> Remaining(os[k])],
                 {k \in {j \in DOMAIN os : IsLive(os[j])} : os[k].side = "SELL"})
                = Total("pending", os)
           /\ SumFunctionOnSet([k \in DOMAIN os |-> os[k].held], DOMAIN os) = Total("held", os)
           /\ SumFunctionOnSet([k \in DOMAIN os |-> os[k].filled],
                 {k \in DOMAIN os : os[k].side = "BUY"})
                = Total("bought", os)
<1> DEFINE D == DOMAIN os
           rest == [k \in D |-> Remaining(os[k])]
           fills == [k \in D |-> os[k].filled]
           sells == {k \in {j \in D : IsLive(os[j])} : os[k].side = "SELL"}
           buys == {k \in D : os[k].side = "BUY"}
<1>1. /\ IsFiniteSet(D) /\ sells \in SUBSET D /\ buys \in SUBSET D
      /\ \A k \in D : WellFormed(K, os[k])
  BY OrdersFinite DEF OrdersOK
<1>2. Terms(rest, D) /\ Restricts(Weights("pending", os), rest, sells, D)
  <2>1. ASSUME NEW k \in D
        PROVE  rest[k] \in Int
    BY <1>1, WeightType
  <2>2. ASSUME NEW k \in D
        PROVE  Weights("pending", os)[k] = IF k \in sells THEN rest[k] ELSE 0
    BY DEF Weights, Weight
  <2> QED
    BY <2>1, <2>2 DEF Terms, Restricts
<1>3. Terms(fills, D) /\ Restricts(Weights("bought", os), fills, buys, D)
  <2>1. ASSUME NEW k \in D
        PROVE  fills[k] \in Int
    BY <1>1 DEF WellFormed, Order
  <2>2. ASSUME NEW k \in D
        PROVE  Weights("bought", os)[k] = IF k \in buys THEN fills[k] ELSE 0
    BY DEF Weights, Weight
  <2> QED
    BY <2>1, <2>2 DEF Terms, Restricts
<1>4. [k \in D |-> os[k].held] = Weights("held", os)
  BY DEF Weights, Weight
<1> HIDE DEF D, rest, fills, sells, buys
<1>5. SumFunctionOnSet(rest, sells) = SumFunctionOnSet(Weights("pending", os), D)
  BY <1>1, <1>2, SumRestrict
<1>6. SumFunctionOnSet(fills, buys) = SumFunctionOnSet(Weights("bought", os), D)
  BY <1>1, <1>3, SumRestrict
<1> QED
  BY <1>4, <1>5, <1>6 DEF Total, D, rest, fills, sells, buys

-----------------------------------------------------------------------------
(* Books.  A statement that fails leaves a book that is not sound, and no    *)
(* later statement makes it sound again; a sound one fulfils the invariant.  *)
IsSequence(os) == \E S : os \in Seq(S)
IsBook(b) == /\ DOMAIN b = {"account", "orders", "room", "sound"}
             /\ b.sound \in BOOLEAN /\ IsSequence(b.orders)
BookOK(b) == LedgerOK(kind, b.account, b.orders)

LEMMA SequenceStays ==
    ASSUME NEW os, IsSequence(os), NEW k, NEW o
    PROVE  /\ IsSequence([os EXCEPT ![k] = o]) /\ IsSequence(Append(os, o))
           /\ Len(os) \in Nat /\ DOMAIN os = 1..Len(os)
<1>1. PICK S : os \in Seq(S)
  BY DEF IsSequence
<1> DEFINE T == S \cup {o}
<1>2. os \in Seq(T) /\ o \in T /\ Len(os) \in Nat /\ DOMAIN os = 1..Len(os)
  BY <1>1
<1> HIDE DEF T
<1> DEFINE ns == [os EXCEPT ![k] = o]
<1>3. ns \in Seq(T)
  <2>1. ns = [j \in 1..Len(os) |-> IF j = k THEN o ELSE os[j]]
    BY <1>2
  <2>2. \A j \in 1..Len(os) : os[j] \in T
    BY <1>2
  <2>3. ns \in [1..Len(os) -> T]
    BY <1>2, <2>1, <2>2
  <2> HIDE DEF ns
  <2> QED
    BY <1>2, <2>3
<1>4. Append(os, o) \in Seq(T)
  BY <1>2
<1> QED
  BY <1>2, <1>3, <1>4 DEF IsSequence

LEMMA FillPriceType ==
    ASSUME NEW o, o.limit \in Nat, o.side \in {"BUY", "SELL"}, NEW candle \in Candles
    PROVE  FillPrice(o, candle) \in Nat
<1>1. candle.open \in Nat /\ candle.high \in Nat /\ candle.low \in Nat
  BY LedgerAssumption
<1>2. Slippage(candle.open) \in Nat
  <2>1. candle.open * SlippageBasisPoints \in Nat
    BY <1>1, AccountingAssumption, ProductIsNat
  <2> QED
    BY <2>1, DivisionRoundsDown DEF Slippage
<1>3. candle.open + Slippage(candle.open) \in Nat
  BY <1>1, <1>2
<1>4. Larger(1, candle.open - Slippage(candle.open)) \in Nat
  BY <1>1, <1>2 DEF Larger
<1> QED
  BY <1>1, <1>3, <1>4 DEF FillPrice

LEMMA FillOrderKeeps ==
    ASSUME NEW b, IsBook(b), b.sound => BookOK(b) /\ b.room \in Nat,
           NEW k, b.sound => k \in DOMAIN b.orders /\ IsLive(b.orders[k]),
           NEW candle \in Candles
    PROVE  LET c == FillOrder(b, k, candle)
           IN  /\ IsBook(c)
               /\ c.sound => /\ b.sound /\ BookOK(c) /\ c.room \in Nat
                             /\ DOMAIN c.orders = DOMAIN b.orders
                             /\ \A j \in DOMAIN b.orders \ {k} : c.orders[j] = b.orders[j]
<1> DEFINE c == FillOrder(b, k, candle)
           o == b.orders[k]
           p == FillPrice(o, candle)
           q == FillQuantity(o, b.room)
           a == FilledAccount(b.account, o, q, p)
           os == [b.orders EXCEPT ![k] = FilledOrder(b.account, o, q, p)]
<1>1. CASE p = 0 \/ q <= 0
  <2>1. c = b
    BY <1>1 DEF FillOrder
  <2> QED
    BY <2>1
<1>2. CASE ~(p = 0 \/ q <= 0)
  <2>1. c = [account |-> a, orders |-> os, room |-> b.room - q, sound |-> b.sound /\ Sound(a)]
    BY <1>2 DEF FillOrder
  <2> DEFINE s == b.sound /\ Sound(a)
  <2>2. s \in BOOLEAN /\ IsSequence(os)
    BY SequenceStays DEF IsBook
  <2> HIDE DEF c, a, os, q, s
  <2>3. /\ c.account = a /\ c.orders = os /\ c.room = b.room - q
        /\ c.sound = s /\ IsBook(c)
    <3>1. c = [account |-> a, orders |-> os, room |-> b.room - q, sound |-> s]
      BY <2>1 DEF s
    <3> QED
      BY <2>2, <3>1 DEF IsBook
  <2>4. ASSUME c.sound
        PROVE  /\ b.sound /\ BookOK(c) /\ c.room \in Nat
               /\ DOMAIN c.orders = DOMAIN b.orders
               /\ \A j \in DOMAIN b.orders \ {k} : c.orders[j] = b.orders[j]
    <3>1. /\ b.sound /\ Sound(a) /\ b.room \in Nat
          /\ LedgerOK(kind, b.account, b.orders)
          /\ k \in DOMAIN b.orders /\ IsLive(o)
      BY <2>3, <2>4 DEF BookOK, s
    <3>2. /\ WellFormed(kind, o) /\ o \in Order /\ o.limit \in Nat /\ o.side \in {"BUY", "SELL"}
          /\ b.orders \in Seq(Order)
      BY <3>1 DEF LedgerOK, OrdersOK, WellFormed, Order
    <3>3. IsOpenOrder(o)
      BY <3>1, <3>2 DEF WellFormed, Order, IsOpenOrder, IsLive, Live
    <3>4. q \in Nat /\ q <= Remaining(o) /\ q <= b.room
      BY <3>1, <3>3, FillsFit DEF q
    <3>5. p \in Nat
      BY <3>2, FillPriceType
    <3> HIDE DEF c, o, p, q
    <3>6. q \in Nat \ {0}
      BY <1>2, <3>4
    <3>7. LedgerOK(kind, a, os)
      BY <3>1, <3>4, <3>5, <3>6, FillKeeps DEF o, a, os
    <3>8. DOMAIN os = DOMAIN b.orders /\ \A j \in DOMAIN b.orders \ {k} : os[j] = b.orders[j]
      BY <3>2 DEF os
    <3>9. b.room - q \in Nat
      BY <3>1, <3>4
    <3> QED
      BY <2>3, <3>1, <3>7, <3>8, <3>9 DEF BookOK
  <2> QED
    BY <2>3, <2>4 DEF c
<1> QED
  BY <1>1, <1>2

LEMMA EndOrderKeeps ==
    ASSUME NEW b, IsBook(b), b.sound => BookOK(b),
           NEW k, b.sound => k \in DOMAIN b.orders /\ IsLive(b.orders[k]),
           NEW how \in {"CANCELLED", "EXPIRED"}
    PROVE  LET c == EndOrder(b, k, how)
           IN  /\ IsBook(c)
               /\ c.sound => /\ b.sound /\ BookOK(c)
                             /\ DOMAIN c.orders = DOMAIN b.orders
                             /\ \A j \in DOMAIN b.orders \ {k} : c.orders[j] = b.orders[j]
<1> DEFINE c == EndOrder(b, k, how)
           o == b.orders[k]
           a == EndedAccount(b.account, o, how)
           os == [b.orders EXCEPT ![k] = EndedOrder(b.account, o, how)]
           s == b.sound /\ Sound(a)
<1>1. c = [b EXCEPT !.account = a, !.orders = os, !.sound = s]
  BY DEF EndOrder
<1>2. s \in BOOLEAN /\ IsSequence(os)
  BY SequenceStays DEF IsBook
<1> HIDE DEF c, o, a, os, s
<1>3. IsBook(c) /\ c.account = a /\ c.orders = os /\ c.sound = s
  BY <1>1, <1>2 DEF IsBook
<1>4. ASSUME c.sound
      PROVE  /\ b.sound /\ BookOK(c)
             /\ DOMAIN c.orders = DOMAIN b.orders
             /\ \A j \in DOMAIN b.orders \ {k} : c.orders[j] = b.orders[j]
  <2>1. /\ b.sound /\ Sound(a)
        /\ LedgerOK(kind, b.account, b.orders)
        /\ k \in DOMAIN b.orders /\ IsLive(o)
    BY <1>3, <1>4 DEF BookOK, s, o
  <2>2. b.orders \in Seq(Order)
    BY <2>1 DEF LedgerOK, OrdersOK
  <2>3. LedgerOK(kind, a, os)
    BY <2>1, EndKeeps DEF o, a, os
  <2>4. DOMAIN os = DOMAIN b.orders /\ \A j \in DOMAIN b.orders \ {k} : os[j] = b.orders[j]
    BY <2>2 DEF os
  <2> QED
    BY <1>3, <2>1, <2>3, <2>4 DEF BookOK
<1> QED
  BY <1>3, <1>4 DEF c

(* What a step knows of its runtime and its mapping.                         *)
Mapping == [id : MappingIds, effect : {"ENTRY", "EXIT"}, side : {"BUY", "SELL"},
            limit : Nat, quantity : Nat \ {0}]
CanPlace(r) == /\ r \in Runtimes /\ step[r] \in Nat
               /\ kind \in [Runtimes -> {"manual", "replay"}]

LEMMA NewOrderType ==
    ASSUME NEW r, CanPlace(r), NEW m \in Mapping, NEW q \in Nat,
           NEW state \in {"ACCEPTED", "RISK_REJECTED"}, state = "ACCEPTED" => q > 0,
           NEW held \in Nat
    PROVE  LET o == NewOrder(r, m, q, state, held)
           IN  /\ WellFormed(kind, o) /\ o.filled = 0 /\ o.held = held
               /\ o.side = m.side /\ o.limit = m.limit /\ Remaining(o) = q
               /\ IsLive(o) <=> state = "ACCEPTED"
<1> DEFINE o == NewOrder(r, m, q, state, held)
<1>1. /\ o.runtime = r /\ o.kind = kind[r] /\ o.mapping = m.id /\ o.effect = m.effect
      /\ o.side = m.side /\ o.limit = m.limit /\ o.quantity = q /\ o.filled = 0
      /\ o.status = state /\ o.held = held /\ o.placed = step[r] + 1
  BY DEF NewOrder
<1>2. o \in Order
  BY DEF NewOrder, Order, Mapping, CanPlace, Statuses
<1> HIDE DEF o
<1>3. Remaining(o) = q
  BY <1>1 DEF Remaining
<1>4. IsLive(o) <=> state = "ACCEPTED"
  BY <1>1 DEF IsLive, Live
<1>5. WellFormed(kind, o)
  BY <1>1, <1>2, <1>4 DEF WellFormed
<1> QED
  BY <1>1, <1>3, <1>4, <1>5 DEF o

LEMMA AcceptKeeps ==
    ASSUME NEW b, IsBook(b), b.sound => BookOK(b),
           NEW r, CanPlace(r), NEW m \in Mapping, NEW candle \in Candles,
           NEW q, b.sound => q \in Nat \ {0},
           b.sound /\ AllReplays(kind) /\ m.side = "SELL" =>
              Total("pending", b.orders) + q <= b.account.net
    PROVE  LET c == Accept(b, r, m, q, OrderPrice(m, candle))
           IN  IsBook(c) /\ (c.sound => b.sound /\ BookOK(c))
<1> DEFINE price == OrderPrice(m, candle)
           c == Accept(b, r, m, q, price)
           amount == IF m.side = "BUY" THEN Reserve(kind[r], q, price) ELSE 0
           a == [b.account EXCEPT !.reserved = b.account.reserved + amount]
           o == NewOrder(r, m, q, "ACCEPTED", amount)
           os == Append(b.orders, o)
           s == b.sound /\ Sound(a)
<1>1. c = [b EXCEPT !.account = a, !.orders = os, !.sound = s]
  BY DEF Accept
<1>2. s \in BOOLEAN /\ IsSequence(os)
  BY SequenceStays DEF IsBook
<1> HIDE DEF c, o, a, os, s
<1>3. IsBook(c) /\ c.account = a /\ c.orders = os /\ c.sound = s
  BY <1>1, <1>2 DEF IsBook
<1>4. ASSUME c.sound
      PROVE  b.sound /\ BookOK(c)
  <2>1. b.sound /\ LedgerOK(kind, b.account, b.orders) /\ q \in Nat \ {0}
    BY <1>3, <1>4 DEF BookOK, s
  <2>2. b.account \in Account
    BY <2>1 DEF LedgerOK
  <2>3. price \in Nat /\ (m.limit = 0 \/ price = m.limit) /\ m.limit \in Nat
        /\ m.side \in {"BUY", "SELL"}
    <3>1. candle.close \in Nat
      BY LedgerAssumption
    <3> QED
      BY <3>1 DEF OrderPrice, Mapping
  <2> HIDE DEF price
  <2>4. /\ q * price \in Nat
        /\ Reserve(kind[r], q, price) \in Nat
        /\ q * price <= Reserve(kind[r], q, price)
    <3>1. q * price \in Nat
      BY <2>1, <2>3, ProductIsNat
    <3>2. PercentageFee(q * price) \in Nat
      BY <3>1, FeeOfParts
    <3>3. (q * price * PolicyBasisPoints) \div 10000 \in Nat
      <4> DEFINE x == q * price * PolicyBasisPoints
      <4>1. x \in Nat
        BY <3>1, AccountingAssumption, ProductIsNat
      <4> HIDE DEF x
      <4>2. x \div 10000 \in Nat
        BY <4>1
      <4> QED
        BY <4>2 DEF x
    <3> QED
      BY <3>1, <3>2, <3>3, AccountingAssumption DEF Reserve, PolicyCost
  <2>5. amount \in Nat
    BY <2>4
  <2> HIDE DEF amount
  <2>6. /\ a \in Account /\ a.reserved = b.account.reserved + amount
        /\ a.net = b.account.net /\ a.avg = b.account.avg
        /\ a.total = b.account.total /\ a.pnl = b.account.pnl
    BY <2>2, <2>5 DEF a, Account
  <2>7. /\ WellFormed(kind, o) /\ o.filled = 0 /\ o.held = amount
        /\ o.side = m.side /\ o.limit = m.limit /\ Remaining(o) = q /\ IsLive(o)
    BY <2>1, <2>5, NewOrderType DEF o
  <2>8. Backed(o)
    <3>1. CASE m.side = "BUY"
      <4>1. amount = Reserve(kind[r], q, price)
        BY <3>1 DEF amount
      <4>2. q * m.limit <= amount
        <5>1. CASE m.limit = 0
          BY <2>1, <2>5, <5>1
        <5>2. CASE price = m.limit
          BY <2>4, <4>1, <5>2
        <5> QED
          BY <2>3, <5>1, <5>2
      <4> QED
        BY <2>7, <3>1, <4>2 DEF Backed
    <3>2. CASE m.side = "SELL"
      BY <2>7, <3>2 DEF Backed, amount
    <3> QED
      BY <2>3, <3>1, <3>2
  <2>9. AllReplays(kind) => Total("pending", b.orders) + Weight("pending", o) <= b.account.net
    <3>1. ASSUME AllReplays(kind)
          PROVE  Total("pending", b.orders) + Weight("pending", o) <= b.account.net
      <4>1. Weight("pending", o) = IF m.side = "SELL" THEN q ELSE 0
        BY <2>7 DEF Weight
      <4>2. Total("pending", b.orders) <= b.account.net /\ Total("pending", b.orders) \in Nat
        BY <2>1, <3>1, TotalType DEF LedgerOK
      <4> QED
        BY <2>1, <3>1, <4>1, <4>2
    <3> QED
      BY <3>1
  <2>10. LedgerOK(kind, a, os)
    BY <2>1, <2>6, <2>7, <2>8, <2>9, AppendKeeps DEF os
  <2> QED
    BY <1>3, <2>1, <2>10 DEF BookOK
<1> QED
  BY <1>3, <1>4 DEF c

LEMMA PendingIsTotal ==
    ASSUME NEW b, BookOK(b)
    PROVE  /\ PendingSells(b) = Total("pending", b.orders)
           /\ PendingSells(b) \in Nat /\ b.account.net \in Nat
<1>1. OrdersOK(kind, b.orders) /\ b.account.net \in Nat
  BY DEF BookOK, LedgerOK, Account
<1>2. PendingSells(b) = Total("pending", b.orders)
  BY <1>1, SumsAreTotals DEF PendingSells, SumRemaining, OpenIn
<1> QED
  BY <1>1, <1>2, TotalType

LEMMA PlanKeeps ==
    ASSUME NEW b, IsBook(b), b.sound => BookOK(b),
           NEW r, CanPlace(r), NEW m \in Mapping, NEW candle \in Candles
    PROVE  LET c == Plan(b, r, m, candle)
           IN  IsBook(c) /\ (c.sound => b.sound /\ BookOK(c))
<1> DEFINE c == Plan(b, r, m, candle)
           free == b.account.net - PendingSells(b)
           q == IF m.effect = "EXIT" THEN Smaller(m.quantity, free) ELSE m.quantity
           price == OrderPrice(m, candle)
<1>1. CASE c = b
  BY <1>1
<1>2. CASE c # b
  <2>1. /\ c = Accept(b, r, m, q, price)
        /\ m.effect = "EXIT" => ~(free <= 0)
        /\ m.side = "SELL" => q <= free
    BY <1>2 DEF Plan, RiskOk
  <2>2. m.quantity \in Nat \ {0}
    BY DEF Mapping
  <2> HIDE DEF c
  <2>3. ASSUME b.sound
        PROVE  /\ q \in Nat \ {0}
               /\ m.side = "SELL" => Total("pending", b.orders) + q <= b.account.net
    <3>1. /\ PendingSells(b) = Total("pending", b.orders)
          /\ PendingSells(b) \in Nat /\ b.account.net \in Nat
      BY <2>3, PendingIsTotal
    <3>2. q \in Nat \ {0}
      BY <2>1, <2>2, <3>1 DEF Smaller
    <3> HIDE DEF q
    <3> QED
      BY <2>1, <3>1, <3>2
  <2> HIDE DEF q
  <2> QED
    BY <2>1, <2>3, AcceptKeeps DEF c
<1> QED
  BY <1>1, <1>2

LEMMA ProcessActionTriggerKeeps ==
    ASSUME NEW b, IsBook(b), b.sound => BookOK(b),
           NEW r, CanPlace(r), kind[r] = "manual", NEW m \in Mapping, NEW candle \in Candles
    PROVE  LET c == ProcessActionTrigger(b, r, m, candle)
           IN  IsBook(c) /\ (c.sound => b.sound /\ BookOK(c))
<1> DEFINE c == ProcessActionTrigger(b, r, m, candle)
           q == IF m.effect = "EXIT" THEN Smaller(m.quantity, b.account.net) ELSE m.quantity
           none == m.effect = "EXIT" /\ b.account.net = 0
           fits == RiskOk(b, m, q, OrderPrice(m, candle), Cardinality(OpenIn(b)), b.account.net)
<1>0. ~AllReplays(kind) /\ m.quantity \in Nat \ {0}
  BY DEF AllReplays, CanPlace, Mapping
<1>1. CASE none
  <2>1. c = [b EXCEPT !.sound = FALSE]
    BY <1>1 DEF ProcessActionTrigger
  <2> HIDE DEF c
  <2>2. IsBook(c) /\ c.sound = FALSE
    BY <2>1 DEF IsBook
  <2> QED
    BY <2>2 DEF c
<1>2. CASE ~none /\ ~fits
  <2> DEFINE o == NewOrder(r, m, q, "RISK_REJECTED", 0)
             os == Append(b.orders, o)
  <2>1. c = [b EXCEPT !.orders = os]
    BY <1>2 DEF ProcessActionTrigger
  <2>2. IsSequence(os)
    BY SequenceStays DEF IsBook
  <2> HIDE DEF c, o, os
  <2>5. IsBook(c) /\ c.account = b.account /\ c.orders = os /\ c.sound = b.sound
    BY <2>1, <2>2 DEF IsBook
  <2>3. ASSUME b.sound
        PROVE  BookOK(c)
    <3>1. LedgerOK(kind, b.account, b.orders) /\ b.account \in Account
      BY <2>3 DEF BookOK, LedgerOK
    <3>2. q \in Nat
      BY <1>0, <3>1 DEF Account, Smaller
    <3> HIDE DEF q
    <3>3. WellFormed(kind, o) /\ o.filled = 0 /\ o.held = 0
      BY <3>2, NewOrderType DEF o
    <3>4. b.account.reserved = b.account.reserved + o.held
      BY <3>1, <3>3 DEF Account
    <3>5. LedgerOK(kind, b.account, os)
      BY <1>0, <3>1, <3>3, <3>4, AppendKeeps DEF os
    <3> QED
      BY <2>5, <3>5 DEF BookOK
  <2> QED
    BY <2>3, <2>5 DEF c
<1>3. CASE ~none /\ fits
  <2>1. c = Accept(b, r, m, q, OrderPrice(m, candle))
    BY <1>3 DEF ProcessActionTrigger
  <2>2. b.sound => q \in Nat \ {0}
    <3>1. ASSUME b.sound
          PROVE  b.account.net \in Nat
      BY <3>1 DEF BookOK, LedgerOK, Account
    <3> QED
      BY <1>0, <1>3, <3>1 DEF Smaller
  <2> HIDE DEF c, q
  <2> QED
    BY <1>0, <2>1, <2>2, AcceptKeeps DEF c
<1> QED
  BY <1>1, <1>2, <1>3

LEMMA BookIsBook ==
    ASSUME LedgerOK(kind, account, orders)
    PROVE  IsBook(Book) /\ BookOK(Book)
<1>1. IsSequence(orders)
  BY DEF LedgerOK, OrdersOK, IsSequence
<1>2. /\ DOMAIN Book = {"account", "orders", "room", "sound"}
      /\ Book.account = account /\ Book.orders = orders /\ Book.sound = TRUE
  BY DEF Book
<1> QED
  BY <1>1, <1>2 DEF IsBook, BookOK

LEMMA FillAllKeeps ==
    ASSUME LedgerOK(kind, account, orders), NEW r, NEW candle \in Candles
    PROVE  LET c == FillAll(r, candle)
           IN  IsBook(c) /\ (c.sound => BookOK(c))
<1> DEFINE n == Len(orders)
           b == [Book EXCEPT !.room = MaxAllocatable(candle)]
           e == [fold |-> "fill", live |-> LiveOrders(r), candle |-> candle]
           seq == [k \in 1..n |-> k]
<1>1. n \in Nat /\ DOMAIN orders = 1..n
  BY DEF LedgerOK, OrdersOK
<1>2. PICK h : IsChain(h, e, b, seq, n) /\ FillAll(r, candle) = h[n]
  BY <1>1, FillAllIsChain
<1> DEFINE Reached(k) ==
             /\ IsBook(h[k])
             /\ h[k].sound => /\ BookOK(h[k]) /\ h[k].room \in Nat
                              /\ DOMAIN h[k].orders = DOMAIN orders
                              /\ \A j \in DOMAIN orders : j > k => h[k].orders[j] = orders[j]
           A == {k \in Nat : k <= n => Reached(k)}
<1>3. 0 \in A
  <2>1. h[0] = b
    BY <1>2 DEF IsChain
  <2>2. MaxAllocatable(candle) \in Nat
    <3>1. candle.volume \in Nat
      BY LedgerAssumption
    <3> QED
      BY <3>1, DivisionRoundsDown DEF MaxAllocatable
  <2>3. /\ IsBook(b) /\ b.account = account /\ b.orders = orders
        /\ b.room = MaxAllocatable(candle)
    BY BookIsBook DEF IsBook, Book
  <2> HIDE DEF b
  <2> QED
    BY <2>1, <2>2, <2>3 DEF BookOK
<1>4. ASSUME NEW k \in Nat, k \in A
      PROVE  k + 1 \in A
  <2> SUFFICES ASSUME k + 1 <= n
               PROVE  Reached(k + 1)
    OBVIOUS
  <2>1. Reached(k) /\ k + 1 \in DOMAIN orders
    BY <1>1, <1>4
  <2>2. h[k + 1] = IF k + 1 \in LiveOrders(r) THEN FillOrder(h[k], k + 1, candle) ELSE h[k]
    <3>1. k + 1 \in 1..n /\ (k + 1) - 1 = k /\ seq[k + 1] = k + 1
      BY <1>1, <1>4
    <3>2. h[k + 1] = Stage(e, h[k], k + 1)
      BY <1>2, <3>1, Zenon DEF IsChain
    <3>3. Stage(e, h[k], k + 1)
            = IF k + 1 \in LiveOrders(r) THEN FillOrder(h[k], k + 1, candle) ELSE h[k]
      BY DEF Stage
    <3> QED
      BY <3>2, <3>3
  <2>3. CASE k + 1 \in LiveOrders(r)
    <3> DEFINE c == FillOrder(h[k], k + 1, candle)
    <3>1. h[k].sound => /\ BookOK(h[k]) /\ h[k].room \in Nat
                        /\ k + 1 \in DOMAIN h[k].orders /\ IsLive(h[k].orders[k + 1])
      BY <1>4, <2>1, <2>3 DEF LiveOrders
    <3>2. /\ IsBook(c)
          /\ c.sound => /\ h[k].sound /\ BookOK(c) /\ c.room \in Nat
                        /\ DOMAIN c.orders = DOMAIN h[k].orders
                        /\ \A j \in DOMAIN h[k].orders \ {k + 1} : c.orders[j] = h[k].orders[j]
      BY <2>1, <3>1, FillOrderKeeps
    <3>3. h[k + 1] = c
      BY <2>2, <2>3
    <3> HIDE DEF c
    <3>4. ASSUME c.sound
          PROVE  /\ BookOK(c) /\ c.room \in Nat
                 /\ DOMAIN c.orders = DOMAIN orders
                 /\ \A j \in DOMAIN orders : j > k + 1 => c.orders[j] = orders[j]
      <4>1. /\ h[k].sound /\ BookOK(c) /\ c.room \in Nat
            /\ DOMAIN c.orders = DOMAIN orders
            /\ DOMAIN h[k].orders = DOMAIN orders
            /\ \A j \in DOMAIN orders \ {k + 1} : c.orders[j] = h[k].orders[j]
            /\ \A j \in DOMAIN orders : j > k => h[k].orders[j] = orders[j]
        BY <2>1, <3>2, <3>4
      <4>2. ASSUME NEW j \in DOMAIN orders, j > k + 1
            PROVE  c.orders[j] = orders[j]
        <5>1. j > k /\ j # k + 1
          BY <1>1, <1>4, <4>2
        <5> QED
          BY <4>1, <5>1
      <4> QED
        BY <4>1, <4>2
    <3> QED
      BY <3>2, <3>3, <3>4
  <2>4. CASE k + 1 \notin LiveOrders(r)
    <3>1. h[k + 1] = h[k]
      BY <2>2, <2>4
    <3>2. \A j \in DOMAIN orders : j > k + 1 => j > k
      BY <1>1, <1>4
    <3> QED
      BY <2>1, <3>1, <3>2
  <2> QED
    BY <2>3, <2>4
<1>5. n \in A
  <2> HIDE DEF A
  <2> QED
    BY <1>1, <1>3, <1>4, SetInduction
<1> QED
  BY <1>1, <1>2, <1>5

LEMMA ExpireAllKeeps ==
    ASSUME NEW b, IsBook(b), b.sound => BookOK(b), NEW r
    PROVE  LET c == ExpireAll(b, r)
           IN  IsBook(c) /\ (c.sound => b.sound /\ BookOK(c))
<1> DEFINE os == b.orders
           n == Len(os)
           e == [fold |-> "expire", live |-> LiveIn(b, r)]
           seq == [k \in 1..n |-> k]
<1>1. n \in Nat /\ DOMAIN os = 1..n
  BY SequenceStays DEF IsBook
<1>2. PICK h : IsChain(h, e, b, seq, n) /\ ExpireAll(b, r) = h[n]
  BY <1>1, ExpireAllIsChain
<1> DEFINE Reached(k) ==
             /\ IsBook(h[k])
             /\ h[k].sound => /\ b.sound /\ BookOK(h[k])
                              /\ DOMAIN h[k].orders = DOMAIN os
                              /\ \A j \in DOMAIN os : j > k => h[k].orders[j] = os[j]
           A == {k \in Nat : k <= n => Reached(k)}
<1>3. 0 \in A
  <2>1. h[0] = b
    BY <1>2 DEF IsChain
  <2> QED
    BY <2>1
<1>4. ASSUME NEW k \in Nat, k \in A
      PROVE  k + 1 \in A
  <2> SUFFICES ASSUME k + 1 <= n
               PROVE  Reached(k + 1)
    OBVIOUS
  <2>1. Reached(k) /\ k + 1 \in DOMAIN os
    BY <1>1, <1>4
  <2>2. h[k + 1] = IF k + 1 \in LiveIn(b, r) THEN EndOrder(h[k], k + 1, "EXPIRED") ELSE h[k]
    <3>1. k + 1 \in 1..n /\ (k + 1) - 1 = k /\ seq[k + 1] = k + 1
      BY <1>1, <1>4
    <3>2. h[k + 1] = Stage(e, h[k], k + 1)
      BY <1>2, <3>1, Zenon DEF IsChain
    <3>3. Stage(e, h[k], k + 1)
            = IF k + 1 \in LiveIn(b, r) THEN EndOrder(h[k], k + 1, "EXPIRED") ELSE h[k]
      BY DEF Stage
    <3> QED
      BY <3>2, <3>3
  <2>3. CASE k + 1 \in LiveIn(b, r)
    <3> DEFINE c == EndOrder(h[k], k + 1, "EXPIRED")
    <3>1. h[k].sound => /\ BookOK(h[k])
                        /\ k + 1 \in DOMAIN h[k].orders /\ IsLive(h[k].orders[k + 1])
      BY <1>4, <2>1, <2>3 DEF LiveIn
    <3>2. /\ IsBook(c)
          /\ c.sound => /\ h[k].sound /\ BookOK(c)
                        /\ DOMAIN c.orders = DOMAIN h[k].orders
                        /\ \A j \in DOMAIN h[k].orders \ {k + 1} : c.orders[j] = h[k].orders[j]
      BY <2>1, <3>1, EndOrderKeeps
    <3>3. h[k + 1] = c
      BY <2>2, <2>3
    <3> HIDE DEF c
    <3>4. ASSUME c.sound
          PROVE  /\ b.sound /\ BookOK(c)
                 /\ DOMAIN c.orders = DOMAIN os
                 /\ \A j \in DOMAIN os : j > k + 1 => c.orders[j] = os[j]
      <4>1. /\ h[k].sound /\ b.sound /\ BookOK(c)
            /\ DOMAIN c.orders = DOMAIN os
            /\ DOMAIN h[k].orders = DOMAIN os
            /\ \A j \in DOMAIN os \ {k + 1} : c.orders[j] = h[k].orders[j]
            /\ \A j \in DOMAIN os : j > k => h[k].orders[j] = os[j]
        BY <2>1, <3>2, <3>4
      <4>2. ASSUME NEW j \in DOMAIN os, j > k + 1
            PROVE  c.orders[j] = os[j]
        <5>1. j > k /\ j # k + 1
          BY <1>1, <1>4, <4>2
        <5> QED
          BY <4>1, <5>1
      <4> QED
        BY <4>1, <4>2
    <3> QED
      BY <3>2, <3>3, <3>4
  <2>4. CASE k + 1 \notin LiveIn(b, r)
    <3>1. h[k + 1] = h[k]
      BY <2>2, <2>4
    <3>2. \A j \in DOMAIN os : j > k + 1 => j > k
      BY <1>1, <1>4
    <3> QED
      BY <2>1, <3>1, <3>2
  <2> QED
    BY <2>3, <2>4
<1>5. n \in A
  <2> HIDE DEF A
  <2> QED
    BY <1>1, <1>3, <1>4, SetInduction
<1> QED
  BY <1>1, <1>2, <1>5

LEMMA CheckOrderExpirationsKeeps ==
    ASSUME NEW b, IsBook(b), b.sound => BookOK(b), NEW r, NEW candle \in Candles
    PROVE  LET c == CheckOrderExpirations(b, r, candle)
           IN  IsBook(c) /\ (c.sound => b.sound /\ BookOK(c))
<1> DEFINE c == CheckOrderExpirations(b, r, candle)
           x == ExpireAll(b, r)
           once == \A j, k \in LiveIn(b, r) :
                     b.orders[j].side = "BUY" /\ b.orders[k].side = "BUY" => j = k
           s == x.sound /\ once
<1>1. CASE ~candle.closing
  BY <1>1 DEF CheckOrderExpirations
<1>2. CASE candle.closing
  <2>1. c = [x EXCEPT !.sound = s]
    BY <1>2 DEF CheckOrderExpirations
  <2>2. IsBook(x) /\ (x.sound => b.sound /\ BookOK(x))
    BY ExpireAllKeeps
  <2>3. s \in BOOLEAN /\ (s => x.sound)
    BY <2>2 DEF IsBook
  <2> HIDE DEF c, x, s
  <2>4. /\ IsBook(c) /\ c.account = x.account /\ c.orders = x.orders
        /\ c.sound => x.sound
    BY <2>1, <2>2, <2>3 DEF IsBook
  <2> QED
    BY <2>2, <2>4 DEF BookOK, c
<1> QED
  BY <1>1, <1>2

LEMMA MappingType ==
    /\ Len(Mappings) \in Nat \ {0} /\ DOMAIN Mappings = 1..Len(Mappings)
    /\ \A k \in 1..Len(Mappings) : Mappings[k] \in Mapping
<1>1. Mappings \in Seq(Mapping) /\ Mappings # << >>
  BY LedgerAssumption DEF Mapping, MappingIds
<1> QED
  BY <1>1

LEMMA PlanActionsKeeps ==
    ASSUME NEW b, IsBook(b), b.sound => BookOK(b),
           NEW r, CanPlace(r), NEW triggered, NEW candle \in Candles
    PROVE  LET c == PlanActions(b, r, triggered, candle)
           IN  IsBook(c) /\ (c.sound => BookOK(c))
<1> DEFINE n == Len(Mappings)
           e == [fold |-> "plan", triggered |-> triggered, runtime |-> r, candle |-> candle]
<1>1. n \in Nat /\ \A k \in 1..n : Mappings[k] \in Mapping
  BY MappingType
<1>2. PICK h : /\ IsChain(h, e, b, Mappings, n)
               /\ PlanActions(b, r, triggered, candle) = h[n]
  BY PlanActionsIsChain
<1> DEFINE Reached(k) == IsBook(h[k]) /\ (h[k].sound => BookOK(h[k]))
           A == {k \in Nat : k <= n => Reached(k)}
<1>3. 0 \in A
  <2>1. h[0] = b
    BY <1>2 DEF IsChain
  <2> QED
    BY <2>1
<1>4. ASSUME NEW k \in Nat, k \in A
      PROVE  k + 1 \in A
  <2> SUFFICES ASSUME k + 1 <= n
               PROVE  Reached(k + 1)
    OBVIOUS
  <2> DEFINE m == Mappings[k + 1]
  <2>1. Reached(k) /\ m \in Mapping
    BY <1>1, <1>4
  <2>2. h[k + 1] = IF m.id \in triggered THEN Plan(h[k], r, m, candle) ELSE h[k]
    <3>1. k + 1 \in 1..n /\ (k + 1) - 1 = k
      BY <1>1, <1>4
    <3>2. h[k + 1] = Stage(e, h[k], m)
      BY <1>2, <3>1, Zenon DEF IsChain
    <3>3. Stage(e, h[k], m) = IF m.id \in triggered THEN Plan(h[k], r, m, candle) ELSE h[k]
      BY DEF Stage
    <3> QED
      BY <3>2, <3>3
  <2> HIDE DEF m
  <2>3. LET c == Plan(h[k], r, m, candle)
        IN  IsBook(c) /\ (c.sound => h[k].sound /\ BookOK(c))
    BY <2>1, PlanKeeps
  <2> QED
    BY <2>1, <2>2, <2>3
<1>5. n \in A
  <2> HIDE DEF A
  <2> QED
    BY <1>1, <1>3, <1>4, SetInduction
<1> QED
  BY <1>1, <1>2, <1>5

-----------------------------------------------------------------------------
(* The inductive invariant.                                                  *)
Typed ==
    /\ kind \in Kinds
    /\ status \in [Runtimes -> {"READY", "RUNNING", "PAUSED", "HALTED", "STOPPED", "COMPLETED"}]
    /\ step \in [Runtimes -> 0..LastStep]
    /\ halted \in BOOLEAN
    /\ sweep \in [Requests -> {NoSweep} \cup SUBSET (1..MaxOrders)]
Ledger == LedgerOK(kind, account, orders) /\ Len(orders) <= MaxOrders
Frozen == halted => \A r \in Runtimes : status[r] # "RUNNING"
IInv == Typed /\ Ledger /\ Frozen

LEMMA RuntimesCanPlace ==
    ASSUME Typed, NEW r \in Runtimes
    PROVE  CanPlace(r)
<1>1. LastStep \in Nat /\ Kinds \subseteq [Runtimes -> {"manual", "replay"}]
  BY LedgerAssumption
<1> QED
  BY <1>1 DEF Typed, CanPlace

LEMMA CommitKeeps ==
    ASSUME NEW b, b.sound => BookOK(b), Commit(b), kind' = kind
    PROVE  Ledger'
<1>1. b.sound /\ account' = b.account /\ orders' = b.orders /\ Len(b.orders) <= MaxOrders
  BY DEF Commit
<1>2. LedgerOK(kind, b.account, b.orders)
  BY <1>1 DEF BookOK
<1>3. LedgerOK(kind', account', orders')
  BY <1>1, <1>2
<1> QED
  BY <1>1, <1>3 DEF Ledger

LEMMA InitKeeps ==
    ASSUME Init
    PROVE  IInv
<1>1. /\ Funds \in Nat /\ MaxOrders \in Nat /\ LastStep \in Nat
  BY LedgerAssumption
<1>2. Typed /\ Frozen
  <2>1. step \in [Runtimes -> 0..LastStep]
    BY <1>1 DEF Init
  <2>2. /\ status \in [Runtimes -> {"READY", "RUNNING", "PAUSED", "HALTED", "STOPPED", "COMPLETED"}]
        /\ kind \in Kinds /\ halted = FALSE
    BY DEF Init
  <2>3. sweep \in [Requests -> {NoSweep} \cup SUBSET (1..MaxOrders)]
    BY DEF Init
  <2> QED
    BY <2>1, <2>2, <2>3 DEF Typed, Frozen
<1>3. /\ account = [total |-> Funds, reserved |-> 0, net |-> 0, avg |-> 0, pnl |-> 0]
      /\ orders = << >>
  BY DEF Init
<1>4. account \in Account /\ AtCost(account) = Funds
  BY <1>1, <1>3 DEF Account, AtCost
<1>5. orders \in Seq(Order) /\ Len(orders) = 0 /\ DOMAIN orders = {}
  BY <1>3
<1>6. \A w \in Columns : Total(w, orders) = 0
  BY <1>5, SumEmpty DEF Total
<1>7. LedgerOK(kind, account, orders)
  <2>1. Total("held", orders) = 0 /\ Total("pending", orders) = 0 /\ Total("bought", orders) = 0
    BY <1>6 DEF Columns
  <2>2. account.reserved = 0 /\ account.net = 0
    BY <1>3
  <2> QED
    BY <1>1, <1>4, <1>5, <2>1, <2>2 DEF LedgerOK, OrdersOK
<1> QED
  BY <1>1, <1>2, <1>5, <1>7 DEF IInv, Ledger

LEMMA StepType ==
    ASSUME Typed, NEW r \in Runtimes, step[r] < LastStep, step' = [step EXCEPT ![r] = step[r] + 1]
    PROVE  step' \in [Runtimes -> 0..LastStep]
<1>1. LastStep \in Nat
  BY LedgerAssumption
<1> QED
  BY <1>1 DEF Typed

LEMMA StepManualKeeps ==
    ASSUME IInv, NEW r \in Runtimes, StepManual(r)
    PROVE  IInv'
<1>1. /\ kind[r] = "manual" /\ status[r] = "RUNNING" /\ step[r] < LastStep
      /\ step' = [step EXCEPT ![r] = step[r] + 1]
      /\ kind' = kind /\ status' = status /\ halted' = halted /\ sweep' = sweep
  BY DEF StepManual
<1>2. PICK candle \in Candles, triggered \in BOOLEAN :
         LET b == CheckOrderExpirations(FillAll(r, candle), r, candle)
         IN  Commit(IF triggered THEN ProcessActionTrigger(b, r, Mappings[1], candle) ELSE b)
  BY DEF StepManual
<1> DEFINE f == FillAll(r, candle)
           b == CheckOrderExpirations(f, r, candle)
           c == ProcessActionTrigger(b, r, Mappings[1], candle)
<1>3. IsBook(f) /\ (f.sound => BookOK(f))
  BY FillAllKeeps DEF IInv, Ledger
<1> HIDE DEF f
<1>4. IsBook(b) /\ (b.sound => BookOK(b))
  BY <1>3, CheckOrderExpirationsKeeps
<1> HIDE DEF b
<1>5. IsBook(c) /\ (c.sound => BookOK(c))
  <2>1. CanPlace(r) /\ Mappings[1] \in Mapping
    BY RuntimesCanPlace, MappingType DEF IInv
  <2> QED
    BY <1>1, <1>4, <2>1, ProcessActionTriggerKeeps
<1> HIDE DEF c
<1>6. Ledger'
  <2>1. Commit(c) \/ Commit(b)
    BY <1>2 DEF f, b, c
  <2> QED
    BY <1>1, <1>4, <1>5, <2>1, CommitKeeps
<1>7. step' \in [Runtimes -> 0..LastStep]
  BY <1>1, StepType DEF IInv
<1> QED
  BY <1>1, <1>6, <1>7 DEF IInv, Typed, Frozen

LEMMA StepReplayKeeps ==
    ASSUME IInv, NEW r \in Runtimes, StepReplay(r)
    PROVE  IInv'
<1>1. /\ status[r] = "RUNNING" /\ step[r] < LastStep
      /\ step' = [step EXCEPT ![r] = step[r] + 1]
      /\ status' = IF step[r] + 1 = LastStep THEN [status EXCEPT ![r] = "COMPLETED"] ELSE status
      /\ kind' = kind /\ halted' = halted /\ sweep' = sweep
  BY DEF StepReplay
<1>2. PICK candle \in Candles, triggered \in SUBSET {Mappings[i].id : i \in DOMAIN Mappings} :
         LET b == PlanActions(FillAll(r, candle), r, triggered, candle)
         IN  Commit(IF step[r] + 1 = LastStep THEN ExpireAll(b, r) ELSE b)
  BY DEF StepReplay
<1> DEFINE f == FillAll(r, candle)
           b == PlanActions(f, r, triggered, candle)
           c == ExpireAll(b, r)
<1>3. IsBook(f) /\ (f.sound => BookOK(f))
  BY FillAllKeeps DEF IInv, Ledger
<1> HIDE DEF f
<1>4. IsBook(b) /\ (b.sound => BookOK(b))
  <2>1. CanPlace(r)
    BY RuntimesCanPlace DEF IInv
  <2> QED
    BY <1>3, <2>1, PlanActionsKeeps
<1> HIDE DEF b
<1>5. IsBook(c) /\ (c.sound => BookOK(c))
  BY <1>4, ExpireAllKeeps
<1> HIDE DEF c
<1>6. Ledger'
  <2>1. Commit(c) \/ Commit(b)
    BY <1>2 DEF f, b, c
  <2> QED
    BY <1>1, <1>4, <1>5, <2>1, CommitKeeps
<1>7. step' \in [Runtimes -> 0..LastStep]
  BY <1>1, StepType DEF IInv
<1>8. /\ status' \in [Runtimes -> {"READY", "RUNNING", "PAUSED", "HALTED", "STOPPED", "COMPLETED"}]
      /\ \A x \in Runtimes : status'[x] = "RUNNING" => status[x] = "RUNNING"
  BY <1>1 DEF IInv, Typed
<1> QED
  BY <1>1, <1>6, <1>7, <1>8 DEF IInv, Typed, Frozen

(* A cancellation changes the status and what is held of its order only.     *)
LEMMA CancelKeeps ==
    ASSUME IInv, NEW k \in AllLive, CancelIn(k), kind' = kind
    PROVE  Ledger' /\ DOMAIN orders' = DOMAIN orders /\ Len(orders') = Len(orders)
           /\ \A j \in DOMAIN orders : orders'[j].filled = orders[j].filled
<1> DEFINE c == EndOrder(Book, k, "CANCELLED")
<1>1. IsBook(Book) /\ BookOK(Book) /\ Book.sound = TRUE /\ Book.orders = orders
  BY BookIsBook DEF IInv, Ledger, Book
<1>2. k \in DOMAIN orders /\ IsLive(orders[k])
  BY DEF AllLive
<1>3. IsBook(c) /\ (c.sound => BookOK(c))
  BY <1>1, <1>2, EndOrderKeeps
<1>4. Commit(c) /\ orders' = c.orders
  BY DEF CancelIn, Commit
<1>5. c.orders = [orders EXCEPT ![k] = EndedOrder(account, orders[k], "CANCELLED")]
  BY DEF EndOrder, Book
<1> HIDE DEF c
<1>6. Ledger'
  BY <1>3, <1>4, CommitKeeps
<1>7. orders \in Seq(Order)
  BY DEF IInv, Ledger, LedgerOK, OrdersOK
<1>8. EndedOrder(account, orders[k], "CANCELLED").filled = orders[k].filled
  <2>1. orders[k] \in Order
    BY <1>2, <1>7
  <2> QED
    BY <2>1 DEF EndedOrder, Order
<1>9. DOMAIN orders' = DOMAIN orders /\ Len(orders') = Len(orders)
      /\ \A j \in DOMAIN orders : orders'[j].filled = orders[j].filled
  BY <1>2, <1>4, <1>5, <1>7, <1>8
<1> QED
  BY <1>6, <1>9

LEMMA LiveWithinBound ==
    ASSUME IInv
    PROVE  AllLive \in SUBSET (1..MaxOrders)
<1>1. orders \in Seq(Order) /\ Len(orders) <= MaxOrders
  BY DEF IInv, Ledger, LedgerOK, OrdersOK
<1>2. MaxOrders \in Nat
  BY LedgerAssumption
<1>3. DOMAIN orders = 1..Len(orders) /\ Len(orders) \in Nat
  BY <1>1
<1> QED
  BY <1>1, <1>2, <1>3 DEF AllLive

LEMMA BeginSweepKeeps ==
    ASSUME IInv, NEW q \in Requests, NEW S \in SUBSET AllLive, BeginSweep(q, S), kind' = kind
    PROVE  Ledger' /\ sweep' \in [Requests -> {NoSweep} \cup SUBSET (1..MaxOrders)]
           /\ Len(orders') = Len(orders)
           /\ \A j \in DOMAIN orders : orders'[j].filled = orders[j].filled
<1>1. CASE S = {}
  BY <1>1 DEF BeginSweep, IInv, Ledger, Typed
<1>2. CASE S # {}
  <2>1. PICK k \in S : CancelIn(k) /\ sweep' = [sweep EXCEPT ![q] = S \ {k}]
    BY <1>2 DEF BeginSweep
  <2>2. /\ Ledger' /\ Len(orders') = Len(orders)
        /\ \A j \in DOMAIN orders : orders'[j].filled = orders[j].filled
    BY <2>1, CancelKeeps
  <2>3. S \ {k} \in SUBSET (1..MaxOrders)
    BY LiveWithinBound
  <2>4. sweep' \in [Requests -> {NoSweep} \cup SUBSET (1..MaxOrders)]
    BY <2>1, <2>3 DEF IInv, Typed
  <2> QED
    BY <2>2, <2>4
<1> QED
  BY <1>1, <1>2

LEMMA StopManualKeeps ==
    ASSUME IInv, NEW r \in Runtimes, StopManual(r)
    PROVE  IInv'
<1>1. /\ BeginSweep(r, LiveOrders(r)) /\ status' = [status EXCEPT ![r] = "STOPPED"]
      /\ kind' = kind /\ step' = step /\ halted' = halted
  BY DEF StopManual
<1>2. r \in Requests /\ LiveOrders(r) \in SUBSET AllLive
  BY DEF Requests, LiveOrders, AllLive
<1>3. Ledger' /\ sweep' \in [Requests -> {NoSweep} \cup SUBSET (1..MaxOrders)]
  BY <1>1, <1>2, BeginSweepKeeps
<1>4. /\ status' \in [Runtimes -> {"READY", "RUNNING", "PAUSED", "HALTED", "STOPPED", "COMPLETED"}]
      /\ \A x \in Runtimes : status'[x] = "RUNNING" => status[x] = "RUNNING"
  BY <1>1 DEF IInv, Typed
<1> QED
  BY <1>1, <1>3, <1>4 DEF IInv, Typed, Frozen

LEMMA EngageKillSwitchKeeps ==
    ASSUME IInv, EngageKillSwitch
    PROVE  IInv'
<1>1. /\ BeginSweep("kill switch", AllLive) /\ halted' = TRUE
      /\ status' = [r \in Runtimes |-> IF status[r] \in {"RUNNING", "PAUSED"}
                                       THEN "HALTED" ELSE status[r]]
      /\ kind' = kind /\ step' = step
  BY DEF EngageKillSwitch
<1>2. "kill switch" \in Requests
  BY DEF Requests
<1>3. Ledger' /\ sweep' \in [Requests -> {NoSweep} \cup SUBSET (1..MaxOrders)]
  BY <1>1, <1>2, BeginSweepKeeps
<1>4. /\ status' \in [Runtimes -> {"READY", "RUNNING", "PAUSED", "HALTED", "STOPPED", "COMPLETED"}]
      /\ \A x \in Runtimes : status'[x] # "RUNNING"
  BY <1>1 DEF IInv, Typed
<1> QED
  BY <1>1, <1>3, <1>4 DEF IInv, Typed, Frozen

LEMMA SweepKeeps ==
    ASSUME IInv, NEW q \in Requests, SweepNext(q) \/ SweepDone(q) \/ Crash(q)
    PROVE  IInv' /\ Len(orders') = Len(orders)
           /\ \A j \in DOMAIN orders : orders'[j].filled = orders[j].filled
<1>1. kind' = kind /\ status' = status /\ step' = step /\ halted' = halted
  BY DEF SweepNext, SweepDone, Crash
<1>2. CASE SweepNext(q)
  <2>1. PICK k \in sweep[q] :
           IF k \in AllLive
           THEN CancelIn(k) /\ sweep' = [sweep EXCEPT ![q] = @ \ {k}]
           ELSE sweep' = [sweep EXCEPT ![q] = NoSweep] /\ UNCHANGED <<account, orders>>
    BY <1>2 DEF SweepNext
  <2>2. sweep[q] \in SUBSET (1..MaxOrders)
    BY <1>2 DEF SweepNext, IInv, Typed
  <2>3. sweep' \in [Requests -> {NoSweep} \cup SUBSET (1..MaxOrders)]
    <3>1. sweep[q] \ {k} \in SUBSET (1..MaxOrders)
      BY <2>2
    <3> QED
      BY <2>1, <3>1 DEF IInv, Typed
  <2>4. /\ Ledger' /\ Len(orders') = Len(orders)
        /\ \A j \in DOMAIN orders : orders'[j].filled = orders[j].filled
    <3>1. CASE k \in AllLive
      BY <1>1, <2>1, <3>1, CancelKeeps
    <3>2. CASE k \notin AllLive
      BY <1>1, <2>1, <3>2 DEF IInv, Ledger
    <3> QED
      BY <3>1, <3>2
  <2> QED
    BY <1>1, <2>3, <2>4 DEF IInv, Typed, Frozen
<1>3. CASE SweepDone(q) \/ Crash(q)
  <2>1. account' = account /\ orders' = orders
    BY <1>3 DEF SweepDone, Crash
  <2>2. \E S \in {NoSweep, AllLive} : sweep' = [sweep EXCEPT ![q] = S]
    BY <1>3 DEF SweepDone, Crash
  <2>3. sweep' \in [Requests -> {NoSweep} \cup SUBSET (1..MaxOrders)]
    BY <2>2, LiveWithinBound DEF IInv, Typed
  <2> QED
    BY <1>1, <2>1, <2>3 DEF IInv, Ledger, Typed, Frozen
<1> QED
  BY <1>2, <1>3

LEMMA RequestKeeps ==
    ASSUME IInv, NEW r \in Runtimes,
           CompleteManual(r) \/ Start(r) \/ Pause(r) \/ Validate(r) \/ StopReplay(r)
    PROVE  IInv' /\ orders' = orders
<1>1. /\ kind' = kind /\ account' = account /\ orders' = orders /\ step' = step
      /\ halted' = halted /\ sweep' = sweep
  BY DEF CompleteManual, Start, Pause, Validate, StopReplay
<1>2. \E s \in {"READY", "RUNNING", "PAUSED", "STOPPED", "COMPLETED"} :
         status' = [status EXCEPT ![r] = s] /\ (s = "RUNNING" => ~halted)
  BY DEF CompleteManual, Start, Pause, Validate, StopReplay
<1>3. /\ status' \in [Runtimes -> {"READY", "RUNNING", "PAUSED", "HALTED", "STOPPED", "COMPLETED"}]
      /\ Frozen'
  BY <1>1, <1>2 DEF IInv, Typed, Frozen
<1> QED
  BY <1>1, <1>3 DEF IInv, Typed, Ledger

LEMMA OthersKeep ==
    ASSUME IInv, (\E k \in DOMAIN orders : CancelOrder(k)) \/ ResetKillSwitch
    PROVE  IInv' /\ Len(orders') = Len(orders)
           /\ \A j \in DOMAIN orders : orders'[j].filled = orders[j].filled
<1>1. CASE \E k \in DOMAIN orders : CancelOrder(k)
  <2>1. PICK k \in DOMAIN orders : CancelOrder(k)
    BY <1>1
  <2>2. /\ k \in AllLive /\ CancelIn(k)
        /\ kind' = kind /\ status' = status /\ step' = step /\ halted' = halted /\ sweep' = sweep
    BY <2>1 DEF CancelOrder
  <2>3. /\ Ledger' /\ Len(orders') = Len(orders)
        /\ \A j \in DOMAIN orders : orders'[j].filled = orders[j].filled
    BY <2>2, CancelKeeps
  <2> QED
    BY <2>2, <2>3 DEF IInv, Typed, Frozen
<1>2. CASE ResetKillSwitch
  BY <1>2 DEF ResetKillSwitch, IInv, Typed, Frozen, Ledger
<1> QED
  BY <1>1, <1>2

LEMMA NextKeeps ==
    ASSUME IInv, [Next]_vars
    PROVE  IInv'
<1>1. ASSUME NEW r \in Runtimes, StepManual(r)
      PROVE  IInv'
  BY <1>1, StepManualKeeps
<1>2. ASSUME NEW r \in Runtimes, StepReplay(r)
      PROVE  IInv'
  BY <1>2, StepReplayKeeps
<1>3. ASSUME NEW r \in Runtimes,
             CompleteManual(r) \/ Start(r) \/ Pause(r) \/ Validate(r) \/ StopReplay(r)
      PROVE  IInv'
  BY <1>3, RequestKeeps
<1>4. ASSUME NEW r \in Runtimes, StopManual(r)
      PROVE  IInv'
  BY <1>4, StopManualKeeps
<1>5. ASSUME (\E k \in DOMAIN orders : CancelOrder(k)) \/ ResetKillSwitch
      PROVE  IInv'
  BY <1>5, OthersKeep
<1>6. CASE EngageKillSwitch
  BY <1>6, EngageKillSwitchKeeps
<1>7. ASSUME NEW q \in Requests, SweepNext(q) \/ SweepDone(q) \/ Crash(q)
      PROVE  IInv'
  BY <1>7, SweepKeeps
<1>8. CASE UNCHANGED vars
  BY <1>8 DEF vars, IInv, Typed, Ledger, Frozen
<1> QED
  BY <1>1, <1>2, <1>3, <1>4, <1>5, <1>6, <1>7, <1>8 DEF Next

-----------------------------------------------------------------------------
(* The invariant holds in every reachable state, for any set of runtimes,    *)
(* any candles and mappings, any funds, fees, slippage and limits of the     *)
(* policy: whatever the runtimes, the operator and the kill switch do.       *)
THEOREM LedgerInvariance == Spec => []IInv
<1>1. Init => IInv
  BY InitKeeps
<1>2. IInv /\ [Next]_vars => IInv'
  BY NextKeeps
<1> QED
  BY <1>1, <1>2, PTL DEF Spec

(* Every variable has its type.  Cash, reservation, position and average     *)
(* price are natural numbers, and no order is filled beyond its quantity.    *)
THEOREM LedgerTypeCorrect == Spec => []TypeOK
<1>1. IInv => TypeOK
  <2> SUFFICES ASSUME IInv
               PROVE  TypeOK
    OBVIOUS
  <2>1. kind \in [Runtimes -> {"manual", "replay"}]
    BY LedgerAssumption DEF IInv, Typed
  <2>2. account \in [total : Nat, reserved : Nat, net : Nat, avg : Nat, pnl : Int]
    BY DEF IInv, Ledger, LedgerOK, Account
  <2>3. ASSUME NEW k \in DOMAIN orders
        PROVE  /\ orders[k].runtime \in Runtimes /\ orders[k].kind = kind[orders[k].runtime]
               /\ orders[k].side \in {"BUY", "SELL"}
               /\ orders[k].filled \in 0..orders[k].quantity
               /\ orders[k].status \in {"ACCEPTED", "PARTIALLY_FILLED", "FILLED", "CANCELLED",
                                        "EXPIRED", "RISK_REJECTED"}
    <3>1. WellFormed(kind, orders[k])
      BY DEF IInv, Ledger, LedgerOK, OrdersOK
    <3> QED
      BY <3>1 DEF WellFormed, Order, Statuses
  <2> QED
    BY <2>1, <2>2, <2>3 DEF IInv, Typed, TypeOK
<1> QED
  BY <1>1, LedgerInvariance, PTL

(* An account of replays has reserved, at any time, what its live BUY orders *)
(* hold, each of them enough for what it may still buy at its limit, and     *)
(* nothing else: however the fills divided the reservation, and in whatever  *)
(* order fills, expiry, cancellations and the kill switch came.              *)
THEOREM ReservationsBackOrders == Spec => []ReservedBacksLiveOrders
<1>1. IInv => ReservedBacksLiveOrders
  <2> SUFFICES ASSUME IInv, OnlyReplays
               PROVE  /\ account.reserved = SumHeld(DOMAIN orders)
                      /\ \A k \in DOMAIN orders :
                           IF k \in Buys \cap AllLive
                           THEN orders[k].held >= Remaining(orders[k]) * orders[k].limit
                           ELSE orders[k].held = 0
    BY DEF ReservedBacksLiveOrders
  <2>1. OrdersOK(kind, orders) /\ AllReplays(kind)
    BY DEF IInv, Ledger, LedgerOK, AllReplays, OnlyReplays
  <2>2. account.reserved = Total("held", orders) /\ \A k \in DOMAIN orders : Backed(orders[k])
    BY <2>1 DEF IInv, Ledger, LedgerOK
  <2>3. account.reserved = SumHeld(DOMAIN orders)
    BY <2>1, <2>2, SumsAreTotals DEF SumHeld
  <2>4. ASSUME NEW k \in DOMAIN orders
        PROVE  IF k \in Buys \cap AllLive
               THEN orders[k].held >= Remaining(orders[k]) * orders[k].limit
               ELSE orders[k].held = 0
    <3>1. /\ Backed(orders[k])
          /\ k \in Buys \cap AllLive <=> orders[k].side = "BUY" /\ IsLive(orders[k])
      BY <2>2 DEF Buys, AllLive
    <3>2. orders[k].held \in Int /\ Remaining(orders[k]) * orders[k].limit \in Int
      <4>1. WellFormed(kind, orders[k])
        BY <2>1 DEF OrdersOK
      <4>2. orders[k].held \in Int /\ orders[k].limit \in Nat /\ Remaining(orders[k]) \in Nat
        BY <4>1, WeightType DEF WellFormed, Order
      <4> QED
        BY <4>2, ProductIsNat
    <3> QED
      BY <3>1, <3>2 DEF Backed
  <2> QED
    BY <2>3, <2>4
<1> QED
  BY <1>1, LedgerInvariance, PTL

(* The open sells of all replays of an account together are covered by its   *)
(* position.                                                                 *)
THEOREM SellsStayCovered == Spec => []SellsAreCovered
<1>1. IInv => SellsAreCovered
  <2> SUFFICES ASSUME IInv, OnlyReplays
               PROVE  SumRemaining(Book, {k \in AllLive : orders[k].side = "SELL"}) <= account.net
    BY DEF SellsAreCovered
  <2>1. OrdersOK(kind, orders) /\ Total("pending", orders) <= account.net
    BY DEF IInv, Ledger, LedgerOK, AllReplays, OnlyReplays
  <2>2. SumRemaining(Book, {k \in AllLive : orders[k].side = "SELL"}) = Total("pending", orders)
    <3>1. Book.orders = orders
      BY DEF Book
    <3> QED
      BY <2>1, <3>1, SumsAreTotals DEF SumRemaining, AllLive
  <2> QED
    BY <2>1, <2>2
<1> QED
  BY <1>1, LedgerInvariance, PTL

(* Cash and position at cost never exceed the initial balance and the        *)
(* realized profit, and fall short of them by the rounding of the average    *)
(* price only: less than one unit for every unit of the position at each     *)
(* purchase.                                                                 *)
THEOREM DriftBounded == Spec => []DriftIsRounding
<1>1. IInv => DriftIsRounding
  <2> SUFFICES ASSUME IInv
               PROVE  DriftIsRounding
    OBVIOUS
  <2> DEFINE drift == Funds + account.pnl - account.total - account.net * account.avg
             bought == SumFunctionOnSet([k \in DOMAIN orders |-> orders[k].filled], Buys)
             x == Total("bought", orders)
  <2>1. /\ OrdersOK(kind, orders) /\ AtCost(account) <= Funds
        /\ Funds - AtCost(account) <= x * x
        /\ account.net \in Nat /\ account.avg \in Nat /\ account.total \in Nat
        /\ account.pnl \in Int
    BY DEF IInv, Ledger, LedgerOK, Account
  <2>2. bought = x /\ x \in Nat
    BY <2>1, SumsAreTotals, TotalType DEF Buys
  <2>3. account.net * account.avg \in Nat /\ x * x \in Nat /\ Funds \in Nat
    BY <2>1, <2>2, LedgerAssumption, ProductIsNat
  <2>4. drift = Funds - AtCost(account) /\ AtCost(account) \in Int
    BY <2>1, <2>3 DEF AtCost
  <2> HIDE DEF drift, bought, x
  <2>5. 0 <= drift /\ drift <= bought * bought
    BY <2>1, <2>2, <2>3, <2>4
  <2> QED
    BY <2>5 DEF DriftIsRounding, drift, bought
<1> QED
  BY <1>1, LedgerInvariance, PTL

(* While a kill switch is active no order is placed and none is filled: the  *)
(* steps of manual runtimes do not look at it, but none of them runs.        *)
THEOREM KillSwitchFreezes == Spec => KillSwitchFreezesAccount
<1> DEFINE Kept == /\ Len(orders') = Len(orders)
                   /\ \A k \in DOMAIN orders : orders'[k].filled = orders[k].filled
<1>1. ASSUME IInv, [Next]_vars, halted, halted'
      PROVE  Kept
  <2>1. \A r \in Runtimes : ~StepManual(r) /\ ~StepReplay(r)
    BY <1>1 DEF IInv, Frozen, StepManual, StepReplay
  <2>2. ASSUME NEW r \in Runtimes,
               CompleteManual(r) \/ Start(r) \/ Pause(r) \/ Validate(r) \/ StopReplay(r)
        PROVE  Kept
    BY <1>1, <2>2, RequestKeeps
  <2>3. ASSUME NEW r \in Runtimes, StopManual(r)
        PROVE  Kept
    <3>1. /\ BeginSweep(r, LiveOrders(r)) /\ kind' = kind
          /\ r \in Requests /\ LiveOrders(r) \in SUBSET AllLive
      BY <2>3 DEF StopManual, Requests, LiveOrders, AllLive
    <3> QED
      BY <1>1, <3>1, BeginSweepKeeps
  <2>4. ASSUME (\E k \in DOMAIN orders : CancelOrder(k)) \/ ResetKillSwitch
        PROVE  Kept
    BY <1>1, <2>4, OthersKeep
  <2>5. CASE EngageKillSwitch
    <3>1. /\ BeginSweep("kill switch", AllLive) /\ kind' = kind
          /\ "kill switch" \in Requests
      BY <2>5 DEF EngageKillSwitch, Requests
    <3> QED
      BY <1>1, <3>1, BeginSweepKeeps
  <2>6. ASSUME NEW q \in Requests, SweepNext(q) \/ SweepDone(q) \/ Crash(q)
        PROVE  Kept
    BY <1>1, <2>6, SweepKeeps
  <2>7. CASE UNCHANGED vars
    BY <2>7 DEF vars
  <2> QED
    BY <1>1, <2>1, <2>2, <2>3, <2>4, <2>5, <2>6, <2>7 DEF Next
<1>2. IInv /\ [Next]_vars => [halted /\ halted' => Kept]_vars
  BY <1>1
<1> QED
  BY <1>2, LedgerInvariance, PTL DEF Spec, KillSwitchFreezesAccount
=============================================================================
