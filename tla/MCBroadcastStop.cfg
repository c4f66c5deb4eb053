SPECIFICATION FairSpec
CONSTANTS
  Workers = {w0, w1, w2}
  Root = w0
  MaxCalls = 2
  PanickingTasks = {w0, w2}
  PanickingOps = {w0, w1}
PROPERTIES StopEnds
