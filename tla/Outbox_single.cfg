SPECIFICATION FairSpec
CONSTANTS
  o1 = o1
  o2 = o2
  w1 = w1
  w2 = w2
  Nobody = Nobody
  Orders <- OneOrder
  BuyOrders <- OneOrder
  Workers <- OneWorker
  BatchSize = 2
  MaxAttempts = 2
  MaxCancels = 2
  MaxAccepts = 1
  MaxCrashes = 1
  VaryingGates <- Gates
INVARIANTS
  TypeOK
  ReservationFollowsOrder
  RowTellsOutcome
  CancelPendingIsDriven
PROPERTIES
  FollowsLifecycle
  EveryRowSettles
  CancelRequestIsDecided
CHECK_DEADLOCK FALSE
