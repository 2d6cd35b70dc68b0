SPECIFICATION FairSpec
CONSTANTS
  w1 = w1
  w2 = w2
  eval1 = eval1
  eval2 = eval2
  Nobody = Nobody
  Runtimes <- Pair
  Paper <- Pair
  OpenAt <- BothOpen
  CloseAt <- PairClose
  Timeframe <- PairTimeframe
  Workers <- TwoWorkers
  WorkerId <- OwnIds
  MaxRetries = 2
  Interventions <- GateOnly
  Failures <- ChargedFailures
  MaxMishaps = 1
PROPERTIES
  EveryReplayCompletes
  ClosedGateQuarantines
CHECK_DEADLOCK FALSE
