SPECIFICATION LiveSpec
CONSTANTS
  Thieves = {p1, p2}
  Tasks = {a}
  NoTask = NoTask
  THIEF_NONE = THIEF_NONE
  THIEF_FINISHED = THIEF_FINISHED
  BufferSize = 3
  InPlace = TRUE
  MaxSpawns = 4
PROPERTIES EverySyncReturns
