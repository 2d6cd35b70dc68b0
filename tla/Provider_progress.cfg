SPECIFICATION Spec
CONSTANTS
  w1 = w1
  w2 = w2
  eval1 = eval1
  Nobody = Nobody
  Workers <- OneWorker
  WorkerId <- OwnId
  LastCandle = 4
  Absent <- First
  OffSession <- Fourth
  MaxStaleness = 1
  Rules <- EntryThenExitLater
  EntryTrigger = "ON_TRUE"
  ExitTrigger = "ON_FALSE"
  Horizon = 5
  MaxMishaps = 1
PROPERTIES
  CatchesUp
CHECK_DEADLOCK FALSE
