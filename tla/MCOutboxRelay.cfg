CONSTANTS
  good = good
  ahead = ahead
  old = old
  new = new
  Rows = {good, ahead}
  Relays = {old, new}
  CanPrepare <- OldAndNew
  Limit = 2
  MaxClaims = 3
  MaxSweeps = 1
SPECIFICATION FairSpec
CHECK_DEADLOCK FALSE
INVARIANTS
  MarkedMeansStored
  SecondJobNeedsSweep
PROPERTIES
  GoodRowIsDelivered
