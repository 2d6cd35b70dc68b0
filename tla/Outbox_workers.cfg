SPECIFICATION Spec
CONSTANTS
  o1 = o1
  o2 = o2
  w1 = w1
  w2 = w2
  Nobody = Nobody
  Orders <- OneOrder
  BuyOrders <- OneOrder
  Workers <- TwoWorkers
  BatchSize = 1
  MaxAttempts = 2
  MaxCancels = 2
  MaxAccepts = 2
  MaxCrashes = 1
  VaryingGates <- Gates
INVARIANTS
  MarkerPrecedesTransmission
  TransmittedAtMostOnce
  AcceptedIsAccounted
PROPERTIES
  OnlyLateAnswersLeaveTable
CHECK_DEADLOCK FALSE
