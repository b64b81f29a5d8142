CONSTANTS
  w1 = w1
  Workers = {w1}
  MaxAttempts = 1
  Keyed = FALSE
  MaxDeliveries = 1
  Parent = FALSE
  DeadQueue = FALSE
  MaxCancels = 1
  MaxOpenCancels = 1
  MaxRetries = 0
  NoWorker = NoWorker
SPECIFICATION HeardSpec
CHECK_DEADLOCK FALSE
PROPERTIES
  AbortingIsHeard
