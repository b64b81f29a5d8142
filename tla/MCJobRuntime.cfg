CONSTANTS
  w1 = w1
  w2 = w2
  Workers = {w1, w2}
  MaxAttempts = 2
  Keyed = TRUE
  MaxDeliveries = 3
  Parent = TRUE
  DeadQueue = TRUE
  MaxCancels = 0
  MaxOpenCancels = 0
  MaxRetries = 1
  NoWorker = NoWorker
SPECIFICATION Spec
SYMMETRY WorkerSymmetry
CHECK_DEADLOCK FALSE
INVARIANTS
  TypeOK
  
  
  DeadIsFinal
