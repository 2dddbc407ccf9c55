SPECIFICATION Spec
CONSTANTS
  Hash = {1, 2, 3, 4, 5}
  Graphs <- MCGraphs
  MaxPulls = 2
  MaxBackpressure = 1
INVARIANT PullComplete
PROPERTY PullReturns
CHECK_DEADLOCK FALSE
