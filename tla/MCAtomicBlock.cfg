CONSTANTS
  outer = outer
  inner = inner
  writer = writer
  a = a
  b = b
  c = c
  d = d
  NoBlock = NoBlock
  Blocks = {outer, inner, writer}
  Around <- Nesting
  Writing = {writer}
  Calls = {a, b, c, d}
  MadeIn <- Making
  Unwritable = {d}
SPECIFICATION Spec
CHECK_DEADLOCK FALSE
INVARIANTS
  HeldIsNotDropped
  NothingLeavesBeforeTheEnd
  FlushedIsPrefix
  RowsFollowTheBlock
