SPECIFICATION FairSpec
CONSTANTS
  Client = {a, b}
  Dataset = {d1, d2}
  Value = {v}
  Tall = {}
  ChunkHeight <- MCChunkHeight
  None = None
  Ops = {"Commit", "SetHead", "FastForward", "Delete"}
  MaxParents = 0
  MaxCalls = 2
INVARIANT NothingLost
PROPERTIES OthersUntouched DeletesWhatItSaw CallsReturn
