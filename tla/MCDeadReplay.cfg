CONSTANTS
  d1 = d1
  d2 = d2
  o1 = o1
  o2 = o2
  Deliveries = {d1, d2}
  Originals = {d1}
  Operators = {o1, o2}
  LeaseTicks = 2
  Nobody = Nobody
SPECIFICATION ReplaySpec
CHECK_DEADLOCK FALSE
SYMMETRY OperatorSymmetry
INVARIANTS
  ReplayOutlivesOldResult
  DeadJobNotLost
PROPERTIES
  ReplayImplementsKey
