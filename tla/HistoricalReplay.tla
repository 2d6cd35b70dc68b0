-------------------------- MODULE HistoricalReplay --------------------------
(* Evaluating a strategy over time, twice: live, by a request at every close   *)
(* with the candles known then (routes/rules.py, an evaluator of its own), and *)
(* afterwards by one historical replay of the same candles                     *)
(* (engine/historical_replay_evaluator.py), which asks one multi-series        *)
(* evaluator (engine/multi_series_evaluator.py) at every sampled timestamp,    *)
(* for the reference once and then for every subject in turn.                  *)
EXTENDS RuleEvaluation

CONSTANTS
    Reference, Subjects,   \* the datasets: one name, and a sequence of names
    Moves,                 \* the closes one instant may bring: a set of functions
                           \* from the datasets to a price, 0 for no candle
    LastTime,              \* bound: the instants 1..LastTime
    Strategies,
    Requests               \* the replays that may be asked for: [from, to, step]

SubjectSet == {Subjects[i] : i \in DOMAIN Subjects}
Datasets == {Reference} \cup SubjectSet

ASSUME ReplayAssumption ==
    /\ \A r \in Requests : r.from \in Nat /\ r.to \in Nat /\ r.step \in Nat \ {0}
    /\ LastTime \in Nat
    /\ Subjects \in Seq(SubjectSet) \ {<<>>}     \* at least one, none twice
    /\ IsInjective(Subjects)                     \* (multi_series_evaluator.py:37)
    /\ Moves \subseteq [Datasets -> Nat]
    /\ \A strategy \in Strategies :
         \A tree \in {strategy.global, strategy.candidate} \ {NoTree} : WellFormed(tree)

VARIABLES
    series,     \* the closed candles of each dataset
    clock,
    strategy,
    live,       \* live[s]: the verdict on subject s at each instant so far
    request,    \* the replay asked for: from, to, step
    phase,      \* "live", "reference" or "subject" (what comes next), "done", "failed"
    pending,    \* the sampled timestamps not evaluated yet
    waiting,    \* the subjects of the current timestamp not evaluated yet
    counted,    \* nodes the replay's evaluator has walked
    global,     \* the statuses of the global conditions at the current timestamp
    points,     \* points[s]: [at, status] per timestamp
    totals,     \* aggregate_status_counts
    timelines   \* timelines[s], built at the end

vars == <<series, clock, strategy, live, request, phase, pending, waiting, counted,
          global, points, totals, timelines>>

NoRequest == [from |-> 0, to |-> 0, step |-> 1]
NoTimeline == [transitions |-> 0, runs |-> [v \in Statuses |-> 0], first |-> 0,
               unavailable |-> 0, invalid |-> 0]

Init ==
    /\ series = [d \in Datasets |-> <<>>]
    /\ clock = 0
    /\ strategy \in Strategies
    /\ live = [s \in SubjectSet |-> <<>>]
    /\ request = NoRequest
    /\ phase = "live"
    /\ pending = <<>> /\ waiting = <<>>
    /\ counted = 0
    /\ global = {}
    /\ points = [s \in SubjectSet |-> <<>>]
    /\ totals = [v \in Statuses |-> 0]
    /\ timelines = [s \in SubjectSet |-> NoTimeline]

-----------------------------------------------------------------------------
(* Live *)

\* Candles close; the strategy is evaluated over what is known (evaluate_rules).
Close(move) ==
    LET t == clock + 1
        next == [d \in Datasets |->
                    IF move[d] = 0 THEN series[d]
                    ELSE Append(series[d], [at |-> t, close |-> move[d]])]
    IN /\ phase = "live"
       /\ clock < LastTime
       /\ clock' = t
       /\ series' = next
       /\ live' = [s \in SubjectSet |->
                      Append(live[s], EvaluateStrategyRules(strategy, next[Reference],
                                                            next[s], t))]
       /\ UNCHANGED <<strategy, request, phase, pending, waiting, counted, global,
                      points, totals, timelines>>

-----------------------------------------------------------------------------
(* A historical replay *)

\* The closed reference candles of the range: those that are neither before nor
\* after it, in the order of time.
Bounded(reference, from, to) ==
    LET before == {i \in DOMAIN reference : reference[i].at < from}
        after == {i \in DOMAIN reference : reference[i].at > to}
    IN SubSeq(reference, Cardinality(before) + 1, Len(reference) - Cardinality(after))

\* A changed copy: the sample starts with the first candle a second time.
SampledTwice(reference, from, to, step) ==
    LET bounded == Bounded(reference, from, to)
    IN IF bounded = <<>> THEN <<>>
       ELSE <<bounded[1].at>> \o [i \in 1..Len(bounded) |-> bounded[i].at]

\* Every step-th of them, the first included.
Sampled(reference, from, to, step) ==
    LET bounded == Bounded(reference, from, to)
        size == (Len(bounded) + step - 1) \div step
    IN [i \in 1..size |-> bounded[(i - 1) * step + 1].at]

\* evaluate_replay up to its loop; an empty sample is refused.
Ask(r) ==
    LET sample == Sampled(series[Reference], r.from, r.to, r.step)
    IN /\ phase = "live" /\ clock = LastTime
       /\ r.from <= r.to
       /\ sample # <<>>
       /\ request' = r
       /\ pending' = sample
       /\ phase' = "reference"
       /\ UNCHANGED <<series, clock, strategy, live, waiting, counted, global, points,
                      totals, timelines>>

Now == Head(pending)

\* _evaluate_reference_once: an error fails the whole request.
EvaluateReference ==
    LET walk == IF strategy.global = NoTree THEN [refused |-> FALSE, counted |-> counted]
                ELSE Walk(strategy.global, counted)
        ref == Visible(series[Reference], Now)
    IN /\ phase = "reference"
       /\ counted' = walk.counted
       /\ IF walk.refused
            THEN phase' = "failed" /\ UNCHANGED <<waiting, global>>
            ELSE /\ phase' = "subject"
                 /\ waiting' = Subjects
                 /\ global' = {Evaluated(tree, ref) : tree \in {strategy.global} \ {NoTree}}
       /\ UNCHANGED <<series, clock, strategy, live, request, pending, points, totals,
                      timelines>>

\* The verdict on a subject, and the nodes counted when it is reached.  A subject
\* without candles yet, or whose tree is refused, is INVALID; the others go on.
SubjectVerdict(s) ==
    LET subj == Visible(series[s], Now)
        walk == IF strategy.candidate = NoTree \/ subj = <<>>
                THEN [refused |-> FALSE, counted |-> counted]
                ELSE Walk(strategy.candidate, counted)
        candidate == {Evaluated(tree, subj) : tree \in {strategy.candidate} \ {NoTree}}
    IN [counted |-> walk.counted,
        status |-> IF subj = <<>> \/ walk.refused THEN "INVALID"
                   ELSE Overall(global \cup candidate)]

EvaluateSubject ==
    LET s == Head(waiting)
        verdict == SubjectVerdict(s)
        more == Tail(waiting)
    IN /\ phase = "subject"
       /\ counted' = verdict.counted
       /\ points' = [points EXCEPT ![s] =
                        Append(@, [at |-> Now, status |-> verdict.status])]
       /\ totals' = [totals EXCEPT ![verdict.status] = @ + 1]
       /\ waiting' = more
       /\ IF more # <<>> THEN UNCHANGED <<phase, pending>>
          ELSE /\ pending' = Tail(pending)
               /\ phase' = IF Len(pending) > 1 THEN "reference" ELSE "summary"
       /\ UNCHANGED <<series, clock, strategy, live, request, global, timelines>>

NoStatus == "NONE"          \* before the first point

\* The loop over a subject's points: acc carries the counters, the status of the
\* previous point and the length of the run it belongs to.
Counted(acc, point) ==
    LET same == point.status = acc.previous
    IN [transitions |-> acc.transitions + (IF acc.previous # NoStatus /\ ~same THEN 1 ELSE 0),
        runs |-> IF same \/ acc.previous = NoStatus THEN acc.runs
                 ELSE [acc.runs EXCEPT ![acc.previous] = Max({@, acc.length})],
        length |-> IF same THEN acc.length + 1 ELSE 1,
        first |-> IF acc.first = 0 /\ point.status \in {"TRUE", "FALSE"} THEN point.at
                  ELSE acc.first,
        unavailable |-> acc.unavailable + (IF point.status = "UNAVAILABLE" THEN 1 ELSE 0),
        invalid |-> acc.invalid + (IF point.status = "INVALID" THEN 1 ELSE 0),
        previous |-> point.status]

Start == [transitions |-> 0, runs |-> [v \in Statuses |-> 0], length |-> 0,
          first |-> 0, unavailable |-> 0, invalid |-> 0, previous |-> NoStatus]

\* A changed copy: the last run is not entered.
LastRunLost(sequence) ==
    LET acc == FoldLeft(Counted, Start, sequence)
    IN [transitions |-> acc.transitions, runs |-> acc.runs, first |-> acc.first,
        unavailable |-> acc.unavailable, invalid |-> acc.invalid]

Timeline(sequence) ==
    LET acc == FoldLeft(Counted, Start, sequence)
    IN [transitions |-> acc.transitions,
        runs |-> [acc.runs EXCEPT ![acc.previous] = Max({@, acc.length})],  \* the last run
        first |-> acc.first, unavailable |-> acc.unavailable, invalid |-> acc.invalid]

Summarise ==
    /\ phase = "summary"
    /\ timelines' = [s \in SubjectSet |-> Timeline(points[s])]
    /\ phase' = "done"
    /\ UNCHANGED <<series, clock, strategy, live, request, pending, waiting, counted,
                   global, points, totals>>

Next ==
    \/ \E move \in Moves : Close(move)
    \/ \E r \in Requests : Ask(r)
    \/ EvaluateReference
    \/ EvaluateSubject
    \/ Summarise

Spec == Init /\ [][Next]_vars

-----------------------------------------------------------------------------
(* Properties *)

\* The shapes of the evaluations' variables: a verdict is one of the four
\* statuses (a live one may be refused), and after the range has been sampled the
\* points of a subject and the timestamps to come stay in the order of time.
TypeOK ==
    /\ clock \in 0..LastTime
    /\ strategy \in Strategies
    /\ phase \in {"live", "reference", "subject", "summary", "done", "failed"}
    /\ counted \in Nat
    /\ global \subseteq Statuses
    /\ \A s \in SubjectSet :
         /\ live[s] \in Seq(Statuses \cup {Rejected})
         /\ \A i \in DOMAIN points[s] : points[s][i].status \in Statuses
         /\ LET times == [i \in DOMAIN points[s] |-> points[s][i].at] \o
                         (IF phase = "subject" /\ ~Contains(waiting, s)
                          THEN Tail(pending) ELSE pending)
            IN \A i \in 1..(Len(times) - 1) : times[i] < times[i + 1]

\* A replay point is the verdict the same strategy had when its candle was the
\* last one known: neither the candles that came later nor the timestamps the
\* replay evaluated before it show (a refused evaluation is an INVALID point).
AsItWasLive(s, point) ==
    Visible(series[s], point.at) # <<>> =>
        LET then == live[s][point.at]
        IN point.status = IF then = Rejected THEN "INVALID" ELSE then

\* So it is as long as the one evaluator of the replay has not walked more nodes
\* than one evaluation may (evaluator.py:176 counts over the whole replay).
ReplayIsFaithful ==
    counted <= MaxNodes =>
        \A s \in SubjectSet : \A i \in DOMAIN points[s] : AsItWasLive(s, points[s][i])

\* Without that reservation: "exact equivalence between precomputed historical
\* replay and single timestamp MultiSeriesEvaluator calls"
\* (tests/test_historical_replay_engine.py:54).
ReplayMatchesSingle ==
    \A s \in SubjectSet : \A i \in DOMAIN points[s] : AsItWasLive(s, points[s][i])

Conditions ==
    UNION {{tree[n].condition : n \in Leaves(tree)} :
              tree \in {strategy.global, strategy.candidate}}

\* A condition's status when the first n candles of a dataset were known.
StatusAfter(condition, d, n) == LeafStatus(condition, SubSeq(series[d], 1, n))

\* A condition that held does not lapse to FALSE from one candle to the next: it
\* is UNAVAILABLE ("expired") in between, so that neither it nor its negation
\* turns a strategy around unseen; and what was FALSE expires only after holding.
TriggersExpireVisibly ==
    phase = "live" =>
        \A d \in Datasets, condition \in Conditions : Len(series[d]) > 1 =>
            LET after == StatusAfter(condition, d, Len(series[d]))
                before == StatusAfter(condition, d, Len(series[d]) - 1)
            IN /\ before = "TRUE" => after # "FALSE"
               /\ before = "FALSE" => after \in {"TRUE", "FALSE"}

\* A verdict reached while some conditions are UNAVAILABLE is one that no answer
\* to them would change (the propagation without short circuit, evaluator.py:256).
VerdictsAreFirm ==
    \A tree \in {strategy.global, strategy.candidate} \ {NoTree}, d \in Datasets :
        phase = "live" /\ series[d] # <<>> =>
            LET now == [n \in Leaves(tree) |-> LeafStatus(tree[n].condition, series[d])]
                open == {n \in Leaves(tree) : now[n] = "UNAVAILABLE"}
                verdict == TreeStatus(tree, now)
            IN verdict # "UNAVAILABLE" =>
                 \A answer \in [open -> {"TRUE", "FALSE"}] :
                     TreeStatus(tree, [n \in Leaves(tree) |->
                         IF n \in open THEN answer[n] ELSE now[n]]) = verdict

\* What a finished replay reports adds up to its points: the totals, and for each
\* subject the changes of status, the longest run of each status and the first
\* timestamp with an answer, as they are defined rather than as they are counted.
TimelinesAddUp ==
    LET status(s, i) == points[s][i].status
        with(s, v) == {i \in DOMAIN points[s] : status(s, i) = v}
        answered(s) == with(s, "TRUE") \cup with(s, "FALSE")
        runs(s, v) == {n \in 1..Len(points[s]) : \E i \in DOMAIN points[s] :
                          i + n - 1 <= Len(points[s]) /\ i..(i + n - 1) \subseteq with(s, v)}
    IN phase = "done" =>
        /\ \A v \in Statuses :
             totals[v] = SumFunctionOnSet([s \in SubjectSet |-> Cardinality(with(s, v))],
                                          SubjectSet)
        /\ \A s \in SubjectSet :
             /\ Len(points[s]) = Len(Sampled(series[Reference], request.from, request.to,
                                              request.step))
             /\ timelines[s].transitions = Cardinality(
                   {i \in 2..Len(points[s]) : status(s, i) # status(s, i - 1)})
             /\ \A v \in Statuses : timelines[s].runs[v] = Max({0} \cup runs(s, v))
             /\ timelines[s].first =
                   IF answered(s) = {} THEN 0 ELSE points[s][Min(answered(s))].at
             /\ timelines[s].unavailable = Cardinality(with(s, "UNAVAILABLE"))
             /\ timelines[s].invalid = Cardinality(with(s, "INVALID"))
=============================================================================
