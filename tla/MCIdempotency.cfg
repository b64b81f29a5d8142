CONSTANTS
  d1 = d1
  d2 = d2
  Deliveries <- TwoDeliveries
  LeaseTicks <- ThreeIntervals
  Nobody = Nobody
SPECIFICATION FairSpec
CHECK_DEADLOCK FALSE
INVARIANTS
  TypeOK
  NoSecondBody
  LapseNeedsMissedRenewals
  AnsweredResultIsReal
  ReturnsOnce
PROPERTIES
  LeaseTakenOnlyByHolder
  SpentLeaseGoes
