CONSTANTS
  w1 = w1
  Workers = {w1}
  MaxAttempts = 2
  Keyed = FALSE
  MaxDeliveries = 2
  Parent = FALSE
  DeadQueue = FALSE
  MaxCancels = 2
  MaxOpenCancels = 1
  MaxRetries = 0
  NoWorker = NoWorker
SPECIFICATION FairSpec
CHECK_DEADLOCK FALSE
INVARIANTS
  CancelHitsItsDelivery
PROPERTIES
  MarkLands
