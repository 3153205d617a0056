CONSTANTS
  p1 = p1  p2 = p2  h1 = h1  h2 = h2
  Paths = {p1, p2}
  Handles = {h1}
  Bytes = {0}
  MaxLength = 1
  MaxBlocks = 8
  MaxGen = 2
  BufferLimit = 0
  Faults = {"crash", "append", "commit", "format", "commitsave", "flushsave"}
  None = None
  EIO = EIO
SPECIFICATION Spec
INVARIANTS ExtentsLive BlocksPartitioned MountedHasCache
PROPERTIES FileMapSpec
CONSTRAINT TornBound
SYMMETRY Symmetry
