--------------------------- MODULE RuleEvaluation ---------------------------
(* The rule engine (engine/evaluator.py): what a strategy's condition tree     *)
(* says about a series of closed candles at an instant.  Pure operators.       *)
(*                                                                             *)
(* A series is a sequence of [at, close] in the order of time.  An expression  *)
(* is the average of the last "period" closes: PRICE is the average of one.    *)
(* Averages are compared multiplied by Scale, a multiple of every period, so   *)
(* that they stay whole numbers.  The other indicators differ only in the      *)
(* number they compute.  A tree is a sequence of nodes in the order in which   *)
(* _evaluate_node walks them; node 1 is the root.                              *)
EXTENDS Integers, FiniteSetsExt, SequencesExt

CONSTANTS
    Window,       \* candles for which a condition that held still counts
    Memory,       \* candles after that for which it is remembered as expired
    MaxNodes,     \* nodes one evaluator walks before it refuses
    MaxDepth,     \* nesting it accepts
    Scale

ASSUME RuleAssumption ==
    /\ Window \in Nat \ {0}                     \* RiskConfiguration: ge=1
    /\ Memory \in Nat \ {0}                     \* 20 (evaluator.py:620)
    /\ {MaxNodes, MaxDepth, Scale} \subseteq Nat

Statuses == {"TRUE", "FALSE", "UNAVAILABLE", "INVALID"}
Rejected == "REJECTED"                          \* the call raised ValueError

-----------------------------------------------------------------------------
(* One condition *)

\* A changed copy, used to see that the properties notice: the whole series.
NotSliced(series, t) == series

\* How many candles an evaluation at instant t may look at: the search goes on
\* until a candle comes too late.
KnownBy(series, t) == Max({n \in 0..Len(series) : \A i \in 1..n : series[i].at <= t})

Visible(series, t) == SubSeq(series, 1, KnownBy(series, t))

Crossings == {"CROSSES_ABOVE", "CROSSES_BELOW"}

\* Whether an operand has a value after i candles.
Known(operand, i) ==
    CASE operand.kind = "number" -> TRUE
      [] operand.kind = "range" -> TRUE
      [] operand.kind = "average" -> i >= operand.period   \* else warming up
      [] OTHER -> FALSE                         \* an indicator nobody computes

Value(operand, series, i) ==
    IF operand.kind = "number" THEN operand.value * Scale
    ELSE LET window == SubSeq(series, i - operand.period + 1, i)
         IN FoldLeft(LAMBDA sum, candle : sum + candle.close, 0, window)
              * (Scale \div operand.period)

\* The comparison at candle i, with the candle before for a crossing.
Holds(condition, series, i) ==
    LET left(j) == Value(condition.lhs, series, j)
        right(j) == Value(condition.rhs, series, j)
        op == condition.operator
    IN \/ op = "GREATER_THAN" /\ left(i) > right(i)
       \/ op = "LESS_THAN" /\ left(i) < right(i)
       \/ op = "GREATER_THAN_OR_EQUAL" /\ left(i) >= right(i)
       \/ op = "LESS_THAN_OR_EQUAL" /\ left(i) <= right(i)
       \/ op \in {"EQUALS", "TOUCHES"}
            /\ left(i) - right(i) \in -(condition.tolerance * Scale)..(condition.tolerance * Scale)
       \/ op = "BETWEEN" /\ condition.rhs.low * Scale <= left(i)
                         /\ left(i) <= condition.rhs.high * Scale
       \/ op = "CROSSES_ABOVE" /\ left(i - 1) <= right(i - 1) /\ left(i) > right(i)
       \/ op = "CROSSES_BELOW" /\ left(i - 1) >= right(i - 1) /\ left(i) < right(i)

\* Both operands have their values, for a crossing the previous ones too.
Ready(condition, i) ==
    /\ Known(condition.lhs, i) /\ Known(condition.rhs, i)
    /\ condition.operator \in Crossings =>
         Known(condition.lhs, i - 1) /\ Known(condition.rhs, i - 1)

\* _evaluate_leaf_raw: the condition at candle i alone.
Raw(condition, series, i) ==
    IF ~Ready(condition, i) THEN "UNAVAILABLE"
    ELSE IF Holds(condition, series, i) THEN "TRUE" ELSE "FALSE"

\* Refused before anything is computed: an operand missing, a left indicator
\* nobody computes, a range upside down.
Malformed(condition) ==
    \/ condition.lhs.kind # "average"
    \/ condition.rhs.kind = "missing"
    \/ condition.rhs.kind = "range" /\ condition.rhs.low > condition.rhs.high

\* Refused once the values are there: only BETWEEN takes a range.
Incomparable(condition) ==
    (condition.rhs.kind = "range") # (condition.operator = "BETWEEN")

\* A changed copy: what expired is forgotten at once.
NoMemory == Window

\* How many candles back a trigger is still looked for.
Horizon == Window + Memory

\* The condition now: held within the window, expired, or not at all.
LeafStatus(condition, series) ==
    LET now == Len(series)
        ages == {age \in 0..Horizon :
                    age < now /\ Raw(condition, series, now - age) = "TRUE"}
    IN IF Malformed(condition) THEN "INVALID"
       ELSE IF ~Ready(condition, now) THEN "UNAVAILABLE"
       ELSE IF Incomparable(condition) THEN "INVALID"
       ELSE IF ages = {} THEN "FALSE"
       ELSE IF Min(ages) <= Window THEN "TRUE"
       ELSE "UNAVAILABLE"

-----------------------------------------------------------------------------
(* The tree *)

IsLeaf(node) == node.type = "CONDITION"

\* The children _evaluate_logical_group walks: none of a group it refuses.
Walked(node) ==
    IF \/ node.type \in {"AND", "OR"}
       \/ node.type = "NOT" /\ Cardinality(node.children) = 1
    THEN node.children ELSE {}

\* A group from the statuses of its children: no short circuit, INVALID wins.
Conjunction(statuses) ==
    IF "INVALID" \in statuses THEN "INVALID"
    ELSE IF "FALSE" \in statuses THEN "FALSE"
    ELSE IF "UNAVAILABLE" \in statuses THEN "UNAVAILABLE" ELSE "TRUE"

Negation(status) ==
    CASE status = "TRUE" -> "FALSE"
      [] status = "FALSE" -> "TRUE"
      [] OTHER -> status

\* A changed copy: an OR takes a condition it cannot know for one that fails.
UnknownIsFalse(statuses) ==
    IF "INVALID" \in statuses THEN "INVALID"
    ELSE IF "TRUE" \in statuses THEN "TRUE" ELSE "FALSE"

Disjunction(statuses) ==
    IF "INVALID" \in statuses THEN "INVALID"
    ELSE IF "TRUE" \in statuses THEN "TRUE"
    ELSE IF "UNAVAILABLE" \in statuses THEN "UNAVAILABLE" ELSE "FALSE"

GroupStatus(type, statuses) ==
    IF statuses = {} THEN "INVALID"             \* nothing to combine
    ELSE CASE type = "AND" -> Conjunction(statuses)
           [] type = "OR" -> Disjunction(statuses)
           [] type = "NOT" -> Negation(CHOOSE status \in statuses : TRUE)
           [] OTHER -> "INVALID"

\* The root's status when leaf n of the tree has the status leaf[n].
TreeStatus(tree, leaf) ==
    LET status[n \in DOMAIN tree] ==
            IF IsLeaf(tree[n]) THEN leaf[n]
            ELSE GroupStatus(tree[n].type, {status[m] : m \in Walked(tree[n])})
    IN status[1]

Leaves(tree) == {n \in DOMAIN tree : IsLeaf(tree[n])}

\* Trees that can be written down: a child comes after its parent, and an average
\* is of one candle at least (schemas.py:57).
WellFormed(tree) ==
    /\ tree \in Seq(Range(tree))
    /\ \A n \in DOMAIN tree : tree[n].children \subseteq (n + 1)..Len(tree)
    /\ \A n \in Leaves(tree) :
         \A operand \in {tree[n].condition.lhs, tree[n].condition.rhs} :
            operand.kind = "average" => operand.period \in Nat \ {0}

Evaluated(tree, series) ==
    TreeStatus(tree, [n \in Leaves(tree) |-> LeafStatus(tree[n].condition, series)])

\* How deep the walk is at node n: 0 when it never gets there.
DepthOf(tree) ==
    LET depth[n \in DOMAIN tree] ==
            IF n = 1 THEN 1
            ELSE LET parents == {m \in 1..(n - 1) : n \in Walked(tree[m])}
                 IN IF parents = {} THEN 0
                    ELSE LET d == depth[Min(parents)] IN IF d = 0 THEN 0 ELSE d + 1
    IN depth

\* The walk of a tree by an evaluator that has counted so many nodes before: it
\* stops at the first node too deep or beyond the limit, which it counts too.
Walk(tree, counted) ==
    LET depth == DepthOf(tree)
        reached == {n \in DOMAIN tree : depth[n] > 0}
        number(n) == counted + Cardinality({m \in reached : m <= n})
        refused == {n \in reached : depth[n] > MaxDepth \/ number(n) > MaxNodes}
    IN [refused |-> refused # {},
        counted |-> IF refused # {} THEN number(Min(refused)) ELSE number(Max(reached))]

-----------------------------------------------------------------------------
(* A strategy *)

\* A strategy may lack either tree; then that side has no status.
NoTree == <<>>

\* _determine_overall_status: the conjunction of the sides there are.
Overall(statuses) == IF statuses = {} THEN "INVALID" ELSE Conjunction(statuses)

\* evaluate_strategy_rules, which starts to count afresh.  Without a subject
\* series the candidate conditions are UNAVAILABLE and are not walked.
EvaluateStrategyRules(strategy, reference, subject, t) ==
    LET ref == Visible(reference, t)
        subj == Visible(subject, t)
        none == [refused |-> FALSE, counted |-> 0]
        first == IF strategy.global = NoTree THEN none ELSE Walk(strategy.global, 0)
        second == IF strategy.candidate = NoTree \/ subject = <<>> THEN none
                  ELSE Walk(strategy.candidate, first.counted)
        global == {Evaluated(tree, ref) : tree \in {strategy.global} \ {NoTree}}
        candidate == {IF subject = <<>> THEN "UNAVAILABLE" ELSE Evaluated(tree, subj) :
                         tree \in {strategy.candidate} \ {NoTree}}
    IN IF \/ ref = <<>> \/ (subject # <<>> /\ subj = <<>>)
          \/ first.refused \/ second.refused
       THEN Rejected ELSE Overall(global \cup candidate)
=============================================================================
