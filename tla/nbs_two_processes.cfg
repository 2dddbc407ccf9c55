SPECIFICATION Spec
CONSTANTS
  Process = {p1, p2}
  c1 = c1
  Chunk = {c1, r1}
  Reach <- MCReach
  Size <- MCSize
  MtSize = 1
  ConcurrentCompactions = 2
  EmptyHash = EmptyHash
  None = None
SYMMETRY Symmetry
INVARIANTS RootReachable ViewComplete
PROPERTIES NoChunkLost DurableOnReturn
