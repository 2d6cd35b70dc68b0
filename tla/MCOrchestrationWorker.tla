----------------------- MODULE MCOrchestrationWorker -----------------------
(* Model values for the runs of OrchestrationWorker. *)
EXTENDS OrchestrationWorker, TLC

CONSTANTS w1, w2, eval1, eval2

OneWorker == {w1}
TwoWorkers == {w1, w2}
SameId == w1 :> eval1 @@ w2 :> eval1
OwnIds == w1 :> eval1 @@ w2 :> eval2
OwnId == w1 :> eval1

(* Two members of one account: the windows overlap and share closes. *)
Pair == 1..2
BothOpen == 1 :> 0 @@ 2 :> 0
PairClose == 1 :> 2 @@ 2 :> 2
PairTimeframe == 1 :> 2 @@ 2 :> 1

ResumeOnly == {"RESUME"}
GateOnly == {"GATE"}
OperatorInterventions == {"PAUSE", "RESUME", "STOP", "KILL_SWITCH"}
AllFailures == {"INGESTION", "SYNCHRONIZATION", "EVALUATION", "FINALIZATION"}
ChargedFailures == {"INGESTION", "EVALUATION", "FINALIZATION"}
=============================================================================
