CONSTANTS
  Bytes = {0, 1}
  Width = 3
  MaxData = 2
  MaxCells = 9
  Broken = Broken
SPECIFICATION Spec
INVARIANTS TypeOK
PROPERTIES RecordLogSpec
CHECK_DEADLOCK FALSE
