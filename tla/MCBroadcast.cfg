SPECIFICATION FairSpec
CONSTANTS
  Workers = {w0, w1, w2, w3}
  Root = w0
  MaxCalls = 3
  PanickingOps = {w1}
  PanickingTasks = {w0, w2}
INVARIANTS BroadcastInv JobPublished NoJobRace RunsInLiveFrame ResultsComplete
PROPERTIES ImplementsCall BroadcastReturns StopEnds
