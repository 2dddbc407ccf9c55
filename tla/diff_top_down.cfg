SPECIFICATION FairSpec
CONSTANTS
  Worker = {w1, w2, w3}
  Inputs <- MCInputs
  Hash = {"h1", "h2", "h3"}
  Caller = {c1, c2, c3}
  MaxGetBatchSize = 3
  RateLimit = 2
  MaxPuts = 3
  DataLens = {0, 3, 6, 7, 11}
  PartSize = 3
  MaxFailures = 2
  Transformer = {t1, t2}
  Finds <- MCFinds
  ChanSize = 1
  CommitEvery = 2
  Window = 3
  Pattern = 3
  BoundaryLevels = 3
  MaxMatrix = 100
  Keys = {0, 1, 2, 3}
  Vals = {0, 1}
  Diffs <- MCDiffs
INVARIANT TopDownComplete
CHECK_DEADLOCK FALSE
