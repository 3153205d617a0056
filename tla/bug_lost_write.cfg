CONSTANTS
  p1 = p1  p2 = p2  h1 = h1  h2 = h2  c1 = c1  c2 = c2  f1 = f1
  Paths = {p1}
  Handles = {h1}
  PathOf <- OneHandle
  Clients = {c1}
  Flushers = {f1}
  Shared = {}
  MaxByte = 2
  AppendFails = FALSE
  None = None
SPECIFICATION Spec
INVARIANTS NoLostWrite
CHECK_DEADLOCK FALSE
