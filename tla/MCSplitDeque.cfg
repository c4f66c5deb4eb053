SPECIFICATION Spec
CONSTANTS
  Thieves = {p1, p2}
  Tasks = {a, b}
  NoTask = NoTask
  THIEF_NONE = THIEF_NONE
  THIEF_FINISHED = THIEF_FINISHED
  BufferSize = 4
  InPlace = FALSE
SYMMETRY Symmetry
INVARIANTS IndInv OwnerInvariants SlotExclusive SyncReturnsOwnTask FlagProtocol NoStealLost XorHitsOldSplit
PROPERTIES GrowShares ImplementsWorkDeque
