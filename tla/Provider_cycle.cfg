SPECIFICATION Spec
CONSTANTS
  w1 = w1
  w2 = w2
  eval1 = eval1
  Nobody = Nobody
  Workers <- TwoWorkers
  WorkerId <- SameId
  LastCandle = 3
  Absent <- NoCandle
  OffSession <- NoCandle
  MaxStaleness = 1
  Rules <- EntryThenExit
  EntryTrigger = "ON_TRUE"
  ExitTrigger = "ON_FALSE"
  Horizon = 4
  MaxMishaps = 1
SYMMETRY Symmetric
INVARIANTS
  TypeOK
PROPERTIES
  ImplementsJournal
  RevokedClaimRecordsNothing
  ExitCancelsEveryOpenOrder
CHECK_DEADLOCK FALSE
