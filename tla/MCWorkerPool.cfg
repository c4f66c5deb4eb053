SPECIFICATION FairSpec
CONSTANTS
  w0 = w0
  w1 = w1
  w2 = w2
  main = main
  a = a
  b = b
  a1 = a1
  a2 = a2
  b1 = b1
  b2 = b2
  a11 = a11
  again = again
  leaf = leaf
  Workers = {w0, w1, w2}
  Root = w0
  NoWorker = none
  Tasks <- AllTasks
  Mains = {main, again}
  NoTask = notask
  Program <- Bodies
  Held <- HeldTokens
  Panicking = {b}
  BufferSize = 3
  LeapRandom = TRUE
INVARIANTS WholeInv SyncsOwnTask RunsOnce ParentsOutlive NothingLeftBehind RestsAfterRun NoCircle
PROPERTIES UsesWorkDeque ImplementsForkJoin RunReturns
