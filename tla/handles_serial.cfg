CONSTANTS
  p1 = p1  p2 = p2  h1 = h1  h2 = h2  c1 = c1  c2 = c2  f1 = f1
  Paths = {p1, p2}
  Handles = {h1, h2}
  PathOf <- OwnFiles
  Clients = {c1, c2}
  Flushers = {}
  Shared = {}
  MaxByte = 2
  AppendFails = TRUE
  None = None
SPECIFICATION FairSpec
INVARIANTS TypeOK NoLostWrite ReadYourWrites DirtyRegistered
PROPERTIES RequestsEnd
CHECK_DEADLOCK FALSE
