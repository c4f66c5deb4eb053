SPECIFICATION Spec
CONSTANTS
  Sizes = {256, 384}
  Granule = 128
  MaxBuffers = 2
  MaxBoxes = 3
INVARIANTS NoOverlap
