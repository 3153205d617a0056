CONSTANTS
  c1 = c1  c2 = c2  r1 = r1  m1 = m1  m2 = m2
  Clients = {c1, c2}
  Requests = {r1}
  Mounts = {m1, m2}
  Given <- GivenBy
  MountInEject = FALSE
  None = None
  Partial = Partial
SPECIFICATION Spec
INVARIANTS TypeOK CacheWhole UpdatesKept TapeStaysOpen MountedIsOpen
PROPERTIES CommandsAnswered
CHECK_DEADLOCK FALSE
