SPECIFICATION Spec
CONSTANTS
  w1 = w1
  w2 = w2
  eval1 = eval1
  eval2 = eval2
  Nobody = Nobody
  Runtimes <- Pair
  Paper <- Pair
  OpenAt <- BothOpen
  CloseAt <- PairClose
  Timeframe <- PairTimeframe
  Workers <- OneWorker
  WorkerId <- OwnId
  MaxRetries = 2
  Interventions <- ResumeOnly
  Failures <- AllFailures
  MaxMishaps = 0
PROPERTIES
  ResumeClearsQuarantine
CHECK_DEADLOCK FALSE
