CONSTANTS
  one = one
  two = two
  three = three
  flow = flow
  bare = bare
  stray = stray
  w1 = w1
  w2 = w2
  c1 = c1
  j1 = j1
  j2 = j2
  rows = rows
  First = one
  Down = Down
  Workers = {w1, w2}
  Clients = {c1}
  Builds = {one, two, three, flow, bare, stray}
  Definition <- Declared
  Slots = {rows}
  Jobs = {j1, j2}
  MaxDeploys = 2
SPECIFICATION Spec
SYMMETRY WorkersAndJobs
CHECK_DEADLOCK FALSE
INVARIANTS
  HandlerSeesItsVersion
  HandlerSeesItsSlots
  NothingIsAheadInOrder
  NothingIsLost
