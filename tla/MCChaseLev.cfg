SPECIFICATION FairSpec
CONSTANTS
  Thieves = {p1, p2}
  Boxes = {b1, b2, b3}
  Slots = {s1, s2, s3}
  NoBox = nobox
  NoSlot = noslot
  THIEF_NONE = none
  THIEF_FINISHED = finished
  Capacity = 3
  WeakLoads = FALSE
INVARIANTS ChaseInv SyncFindsOwnTask BoxExclusive
PROPERTIES ImplementsWorkDeque StolenSyncReturns
