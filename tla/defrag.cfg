CONSTANTS
  p1 = p1  p2 = p2  h1 = h1
  Paths = {p1, p2}
  Handles = {h1}
  Bytes = {0, 1}
  MaxLength = 1
  MaxBlocks = 10
  MaxGen = 1
  BufferLimit = 0
  Faults = {"initsave"}
  Limits = {2}
  DefragFaults = {"defrag", "defragsave"}
  None = None
  EIO = EIO
SPECIFICATION DefragSpec
PROPERTIES DefragKeepsFiles DefragSparesPrefix DefragCompacts
CONSTRAINT AvailBound LiveCache
SYMMETRY Symmetry
