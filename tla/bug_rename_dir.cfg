CONSTANTS
  r = r  d1 = d1  d2 = d2  d3 = d3  a = a  b = b  flush = flush
  Dirs = {r, d1, d2}
  Root = r
  Names = {a, b, flush}
  FlushName = flush
  MaxUID = 2
  LaterSibling = TRUE
  None = None
SPECIFICATION Spec
PROPERTIES PathMapSpec
CHECK_DEADLOCK FALSE
SYMMETRY Symmetry
