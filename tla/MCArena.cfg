SPECIFICATION Spec
CONSTANTS
  Sizes = {300, 768, 1000}
  Granule = 128
  MaxBuffers = 3
  MaxBoxes = 6
INVARIANTS NoOverlap ValuesIntact
PROPERTIES NoSlotLost
