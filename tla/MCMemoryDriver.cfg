CONSTANTS
  RowId = RowId
  Nobody = Nobody
  Jobs = {j1, j2}
  Keyed = {j1}
  MaxStarts = 2
  Deliveries <- AllRuns
SPECIFICATION DriverSpec
CHECK_DEADLOCK FALSE
INVARIANTS
  PendingIsWaiting
PROPERTIES
  MemoryImplementsKey
