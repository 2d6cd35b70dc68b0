------------------------- MODULE MCHistoricalReplay -------------------------
(* Candles, conditions and strategies for the runs of HistoricalReplay.        *)
EXTENDS HistoricalReplay

\* The reference closes low or high; the first subject may have no candle, the
\* second one follows the reference.
TwoSubjects == <<"s1", "s2">>
SomeMoves == {m \in [{"ref", "s1", "s2"} -> {0, 1, 3}] : m["ref"] # 0 /\ m["s2"] = m["ref"]}

Average(n) == [kind |-> "average", period |-> n]
Number(v) == [kind |-> "number", value |-> v]
Condition(l, op, r) == [lhs |-> l, operator |-> op, rhs |-> r, tolerance |-> 1]

High == Condition(Average(1), "GREATER_THAN", Number(2))
Rises == Condition(Average(1), "CROSSES_ABOVE", Average(2))
Falls == Condition(Average(1), "CROSSES_BELOW", Number(2))
Middle == Condition(Average(2), "BETWEEN", [kind |-> "range", low |-> 2, high |-> 2])
Upside == Condition(Average(2), "BETWEEN", [kind |-> "range", low |-> 3, high |-> 2])
Touches == Condition(Average(2), "TOUCHES", Number(3))
Unheard == Condition(Average(1), "LESS_THAN", [kind |-> "unknown"])

Leaf(c) == [type |-> "CONDITION", children |-> {}, condition |-> c]
Group(type, children) == [type |-> type, children |-> children]

SomeRequests == {[from |-> 1, to |-> 4, step |-> 1], [from |-> 1, to |-> 4, step |-> 2],
                 [from |-> 2, to |-> 3, step |-> 1]}

Strategy(g, c) == [global |-> g, candidate |-> c]
SomeStrategies ==
    {Strategy(<<Leaf(High)>>, <<Leaf(Rises)>>),
     Strategy(NoTree, <<Group("OR", {2, 4}), Group("NOT", {3}), Leaf(Falls), Leaf(Middle)>>),
     Strategy(<<Group("AND", {2, 3}), Leaf(Touches), Leaf(Rises)>>, NoTree),
     Strategy(<<Leaf(High)>>, <<Group("NOT", {2}), Group("NOT", {3}), Group("NOT", {4}), Leaf(High)>>),
     Strategy(<<Group("AND", {2, 3}), Leaf(High), Leaf(Unheard)>>,
              <<Group("OR", {2, 3}), Leaf(High), Leaf(Upside)>>)}
=============================================================================
