CONSTANTS
  p1 = p1
  p2 = p2
  p3 = p3
  reports = reports
  billing = billing
  digest = digest
  close = close
  trial = trial
  gone = gone
  theirs = theirs
  Processes = {p1, p2, p3}
  Queues = {reports, billing}
  QueuesOf <- Consumed
  Schedulers = {digest, close, trial, gone, theirs}
  Ours = {digest, close, trial, gone}
  QueueOf <- Placed
  Declared <- Handlers
SPECIFICATION StartSpec
CHECK_DEADLOCK FALSE
INVARIANTS
  StartedKeepsFiring
  DeletedStopsFiring
  ForeignSurvives
  StartIsAllOrNothing
