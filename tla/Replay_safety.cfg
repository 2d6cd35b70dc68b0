SPECIFICATION Spec
CONSTANTS
  w1 = w1
  w2 = w2
  eval1 = eval1
  eval2 = eval2
  Nobody = Nobody
  Runtimes <- Pair
  Paper <- Pair
  OpenAt <- BothOpen
  CloseAt <- PairClose
  Timeframe <- PairTimeframe
  Workers <- TwoWorkers
  WorkerId <- SameId
  MaxRetries = 2
  Interventions <- OperatorInterventions
  Failures <- AllFailures
  MaxMishaps = 1
INVARIANTS
  TypeOK
  MembersKeepTheirPlace
  RunningHasWork
  NothingRunsUnderKillSwitch
PROPERTIES
  FollowsRuntimeTable
  RevokedClaimNeverCommits
  ImplementsLedger
CHECK_DEADLOCK FALSE
