CONSTANTS
  j1 = j1
  j2 = j2
  j3 = j3
  j4 = j4
  NoJob = NoJob
  Policies <- EveryPolicy
  Jobs = {j1, j2, j3, j4}
  MaxEnqueues = 5
SPECIFICATION Spec
SYMMETRY JobSymmetry
CHECK_DEADLOCK FALSE
INVARIANTS
  NoUnexcusedOverlap
  EnqueueIsFollowedByRun
