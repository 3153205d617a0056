CONSTANTS
  p1 = p1  p2 = p2  h1 = h1  h2 = h2
  Paths = {p1}
  Handles = {h1, h2}
  Bytes = {0}
  MaxLength = 3
  MaxBlocks = 7
  MaxGen = 3
  BufferLimit = 2
  Faults = {"crash", "append", "writesave", "commit", "commitsave"}
  None = None
  EIO = EIO
SPECIFICATION Spec
INVARIANTS TypeOK DataLayout LengthCovers
PROPERTIES BufferKept GenerationGrows
SYMMETRY Symmetry
