SPECIFICATION Spec
CONSTANTS
  Users = {main}
  Pools = {p1, p2}
  NoPool = nopool
  Ids = {0, 1}
  MaxDepth = 4
INVARIANTS CellIsInnermost ExclusiveWorker
