SPECIFICATION Spec
CONSTANTS
  Goroutine = {g1, g2}
  MaxValueCalls = 2
  dw = dw
  dr = dr
  NoRoot = 0
  WriteBufferSize = 1
  MaxPutCount = 2
  MaxDynamoCalls = 2
  MaxPartial = 1
  LHash = {h1, h2}
  Namespace = {n1, n2}
  NoHash = NoHash
  MaxLevelCalls = 3
  MaxCrashes = 1
  MaxGraphOps = 3
  FName = {"a", "b"}
  MaxDepth = 2
  MaxFSOps = 4
  MaxHandles = 1
  ca = ca
  cb = cb
  cc = cc
  v1 = v1
  v2 = v2
  Root = {EmptyHash, r1, r2}
  Specs = {s1}
  EmptyHash = EmptyHash
  Absent = Absent
  NoOne = NoOne
  Lag = 0
INVARIANTS
  CachesSound
  
  BuildIsTheGraph
  

  
CHECK_DEADLOCK FALSE
