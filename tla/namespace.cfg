CONSTANTS
  r = r  d1 = d1  d2 = d2  d3 = d3  a = a  b = b  flush = flush
  Dirs = {r, d1, d2, d3}
  Root = r
  Names = {a, b, flush}
  FlushName = flush
  MaxUID = 1
  LaterSibling = FALSE
  None = None
SPECIFICATION Spec
INVARIANTS TypeOK NamesResolve
PROPERTIES PathMapSpec
CHECK_DEADLOCK FALSE
SYMMETRY Symmetry
