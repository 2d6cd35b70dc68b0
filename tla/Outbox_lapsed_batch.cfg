SPECIFICATION Spec
CONSTANTS
  o1 = o1
  o2 = o2
  w1 = w1
  w2 = w2
  Nobody = Nobody
  Orders <- TwoOrders
  BuyOrders <- TwoOrders
  Workers <- TwoWorkers
  BatchSize = 2
  MaxAttempts = 2
  MaxCancels = 0
  MaxAccepts = 2
  MaxCrashes = 0
  VaryingGates <- NoGates
INVARIANTS
  TransmittedAtMostOnce
CHECK_DEADLOCK FALSE
