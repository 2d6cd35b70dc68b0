--------------------------- MODULE PaperAccounting --------------------------
(***************************************************************************)
(* The arithmetic of paper execution: what a fill costs, when a candle     *)
(* fills an order and at what price (engine/paper/fill_model.py), what a   *)
(* fill does to a position (engine/paper/accounting.py), what an order     *)
(* reserves and what its fills, cancellation and expiry release            *)
(* (services/paper_service.py, engine/orchestration/worker.py).  Amounts   *)
(* are scaled integers and every division rounds down, as `//` does.       *)
(*                                                                         *)
(* An account is a record with its cash and its one position:              *)
(*   total, reserved   total_cash_units, reserved_cash_units               *)
(*   net, avg          net_quantity_units, average_entry_price_units       *)
(*   pnl               net_realized_pnl_units                              *)
(* An order is a record: kind ("replay" if its intent names an evaluation, *)
(* else "manual"), side, limit (0 for MARKET), quantity, filled, status,   *)
(* and held, the sum of the order's reserved_cash_delta_units in the       *)
(* account ledger.                                                         *)
(***************************************************************************)
EXTENDS Integers

CONSTANTS
    FeeBasisPoints,      \* fee_basis_points of the fill model
    FlatFee,             \* its flat_fee_units, charged with an order's first fill
    PolicyBasisPoints,   \* fee_basis_points of the runtimes' risk policy
    PolicyFlatFee,       \* its flat_fee_units
    SlippageBasisPoints, \* slippage_basis_points
    LotSize              \* lot_size_units of the instrument

ASSUME AccountingAssumption ==
    /\ FeeBasisPoints \in Nat
    /\ FlatFee \in Nat
    /\ PolicyBasisPoints \in Nat
    /\ PolicyFlatFee \in Nat
    /\ SlippageBasisPoints \in Nat
    /\ LotSize \in Nat \ {0}

Smaller(a, b) == IF a <= b THEN a ELSE b
Larger(a, b) == IF a >= b THEN a ELSE b

PercentageFee(notional) == (notional * FeeBasisPoints) \div 10000
Slippage(price) == (price * SlippageBasisPoints) \div 10000

Remaining(o) == o.quantity - o.filled

(* calculate_order_fills: the price at which a candle fills an order, 0 if *)
(* it does not.                                                            *)
FillPrice(o, candle) ==
    IF o.limit = 0
    THEN IF o.side = "BUY" THEN candle.open + Slippage(candle.open)
                           ELSE Larger(1, candle.open - Slippage(candle.open))
    ELSE IF o.side = "BUY"
         THEN CASE candle.open <= o.limit -> candle.open
                [] candle.open > o.limit /\ candle.low <= o.limit -> o.limit
                [] OTHER -> 0
         ELSE CASE candle.open >= o.limit -> candle.open
                [] candle.open < o.limit /\ candle.high >= o.limit -> o.limit
                [] OTHER -> 0

(* Mutant of FillQuantity: the quantity ordered instead of what is left. *)
AsIfUnfilled(o, room) == (Smaller(o.quantity, room) \div LotSize) * LotSize

(* ... and how much of it, from what the candle's volume has left. *)
FillQuantity(o, room) == (Smaller(Remaining(o), room) \div LotSize) * LotSize

FillFee(o, q, p) == PercentageFee(q * p) + (IF o.filled = 0 THEN FlatFee ELSE 0)

(* 10 % of the candle's volume is shared by the orders it fills. *)
MaxAllocatable(candle) == candle.volume \div 10

(* Mutant of Position: a sale's fee is not part of the profit. *)
ProfitBeforeFees(a, side, q, p, fee) ==
    IF side = "BUY"
    THEN [a EXCEPT !.net = a.net + q,
                   !.avg = (a.net * a.avg + q * p) \div (a.net + q),
                   !.pnl = a.pnl - fee]
    ELSE [a EXCEPT !.net = a.net - q,
                   !.avg = IF q = a.net THEN 0 ELSE a.avg,
                   !.pnl = a.pnl + q * (p - a.avg)]

(* apply_fill_to_position without short positions: no instrument of the    *)
(* catalog allows them, and selling more than the position raises.         *)
Position(a, side, q, p, fee) ==
    IF side = "BUY"
    THEN [a EXCEPT !.net = a.net + q,
                   !.avg = (a.net * a.avg + q * p) \div (a.net + q),
                   !.pnl = a.pnl - fee]
    ELSE [a EXCEPT !.net = a.net - q,
                   !.avg = IF q = a.net THEN 0 ELSE a.avg,
                   !.pnl = a.pnl + q * (p - a.avg) - fee]

(* The CHECK constraints of paper_accounts, and the refusal of a short     *)
(* position: a transaction that would leave the account otherwise fails.   *)
Sound(a) == a.net >= 0 /\ 0 <= a.reserved /\ a.reserved <= a.total

(* What the risk policy says that a BUY order costs. *)
PolicyCost(q, p) == q * p + (q * p * PolicyBasisPoints) \div 10000 + PolicyFlatFee

(* What an accepted BUY order reserves (at its limit, or at the close): a  *)
(* replay's what its policy says, a manual runtime's (whose code names the *)
(* figures of the fill model) what filling it as a whole costs.            *)
Reserve(k, q, p) ==
    IF k = "replay" THEN PolicyCost(q, p) ELSE q * p + PercentageFee(q * p) + FlatFee

(* _apply_fill: the part of the account's reservation that a fill releases. *)
(* A replay's order gives back its share of what its own ledger entries     *)
(* hold; a manual order gives back what the fill costs.                     *)
ReleasedByFill(a, o, q, p) ==
    CASE o.side = "SELL" -> 0
      [] o.side = "BUY" /\ o.kind = "replay" -> (o.held * q) \div Remaining(o)
      [] o.side = "BUY" /\ o.kind = "manual" ->
           Smaller(q * p + FillFee(o, q, p), a.reserved)

(* _apply_fill on the account, and on the order. *)
FilledAccount(a, o, q, p) ==
    LET fee == FillFee(o, q, p)
        cash == IF o.side = "BUY" THEN - (q * p + fee) ELSE q * p - fee
        b == Position(a, o.side, q, p, fee)
    IN  [b EXCEPT !.total = a.total + cash,
                  !.reserved = a.reserved - ReleasedByFill(a, o, q, p)]

FilledOrder(a, o, q, p) ==
    [o EXCEPT !.filled = o.filled + q,
              !.held = o.held - ReleasedByFill(a, o, q, p),
              !.status = IF o.filled + q >= o.quantity THEN "FILLED" ELSE "PARTIALLY_FILLED"]


(* The formula by which a manual order's cancellation or expiry releases,  *)
(* from the limit price, which a MARKET order does not have.               *)
FormulaRelease(o) ==
    LET rest == Remaining(o)
    IN  rest * o.limit + PercentageFee(rest * o.limit)
          + (IF rest = o.quantity THEN FlatFee ELSE 0)

(* Mutant of ReleasedByEnd: a replay's order is released by the formula, too. *)
ReleasedByFormula(a, o, status) ==
    IF o.side = "SELL" THEN 0 ELSE Smaller(FormulaRelease(o), a.reserved)

(* _cancel_order_internal, _check_order_expirations and the completion of  *)
(* a replay (_fenced_finalize_step): what the end of an order releases.    *)
(* Only the completion does not look at the account first.                 *)
ReleasedByEnd(a, o, status) ==
    CASE o.side = "SELL" -> 0
      [] o.side = "BUY" /\ o.kind = "manual" -> Smaller(FormulaRelease(o), a.reserved)
      [] o.side = "BUY" /\ o.kind = "replay" ->
           IF status = "EXPIRED" THEN o.held ELSE Smaller(o.held, a.reserved)

EndedAccount(a, o, status) ==
    [a EXCEPT !.reserved = Larger(0, a.reserved - ReleasedByEnd(a, o, status))]
EndedOrder(a, o, status) ==
    [o EXCEPT !.status = status, !.held = o.held - ReleasedByEnd(a, o, status)]
=============================================================================
