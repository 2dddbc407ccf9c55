SPECIFICATION FairSpec
CONSTANTS
  Proc = p
  c1 = c1
  Chunk = {c1, r1}
  Reach <- MCReach
  Size <- MCSize
  MtSize = 1
  ConcurrentCompactions = 2
  MaxSources = 3
  EmptyHash = EmptyHash
  None = None
  Nil = Nil
PROPERTIES ReadsAreRight ImplementsStore CallsReturn
