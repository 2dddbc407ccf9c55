SPECIFICATION FairSpec
CONSTANTS
  w = w
  r = r
  Thread = {w, r}
  None = None
  Hash = {1, 2}
  Refs <- MCRefs
  Ops <- MCOps
  ReadBufferSize = 1
  RateLimit = 1
  BatchSize = 2
  MaxCalls <- MCMaxCalls
  Asked = {1}
  MaxFaults = 1
INVARIANTS ReadsSeePuts ServerRefComplete
PROPERTIES FlushPersists CallsReturn
CHECK_DEADLOCK FALSE
