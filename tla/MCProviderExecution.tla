------------------------ MODULE MCProviderExecution ------------------------
(* Model values for the runs of ProviderExecution. *)
EXTENDS ProviderExecution, TLC

CONSTANTS w1, w2, eval1

OneWorker == {w1}
TwoWorkers == {w1, w2}
OwnId == w1 :> eval1
SameId == w1 :> eval1 @@ w2 :> eval1

(* What the rule says of the candles. *)
EntryThenExit == {<<"TRUE", "FALSE", "FALSE">>, <<"TRUE", "UNAVAILABLE", "FALSE">>}
EntryThenExitLater == {<<"FALSE", "TRUE", "FALSE", "TRUE">>, <<"TRUE", "UNAVAILABLE", "FALSE", "TRUE">>}
AlwaysUnavailable == {<<"UNAVAILABLE", "UNAVAILABLE", "UNAVAILABLE">>}
NoCandle == {}
First == {1}
Fourth == {4}
Symmetric == Permutations(TwoWorkers)
=============================================================================
