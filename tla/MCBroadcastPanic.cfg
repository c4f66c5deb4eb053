SPECIFICATION Spec
CONSTANTS
  Workers = {w0, w1}
  Root = w0
  MaxCalls = 2
  PanickingTasks = {}
  PanickingOps = {w0}
INVARIANTS JobPublished
