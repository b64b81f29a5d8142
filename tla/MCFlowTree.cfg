CONSTANTS
  mail = mail
  build = build
  fetch1 = fetch1
  fetch2 = fetch2
  report = report
  rows = rows
  Nodes <- FourNodes
  Root = mail
  Up <- UpToMail
  Below <- BelowOf
  SlotsOf <- Declared
  SlotOf <- Filled
  Attempts <- TwoForBuild
  MaxRetries = 2
  MaxStalls <- StallsAllowed
  MaxCancelling = 1
SPECIFICATION FairSpec
CHECK_DEADLOCK FALSE
INVARIANTS
  HandlerSeesFullSlots
  WaitingParentIsReleasable
  ShortMeansLost
  GreenMeansWhole
PROPERTIES
  FlowSettles
