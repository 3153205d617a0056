CONSTANTS
  f1 = f1  f2 = f2  i0 = i0  i1 = i1
  Contents = {f1, f2}
  Indexes = {i0, i1}
  Blank = i0
  MaxBlocks = 11
  Faults = {}
  DoubleMarkEnds = FALSE
  Uses = {}
  Unknown = Unknown
  None = None
SPECIFICATION Spec
PROPERTIES TwoPartitionsSpec
CHECK_DEADLOCK FALSE
SYMMETRY Symmetry
