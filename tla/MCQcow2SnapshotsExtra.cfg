SPECIFICATION Spec
CONSTANTS
  MinHeader = 2
  HeaderWindow = 4
  Fixed = 3
  Align = 2
  StrSizes = 3
  MaxStr = 3
  MaxExtra = 2
  MaxSnapshots = 3
  SeekLimit = 32
  Files <- MoreExtra
CHECK_DEADLOCK FALSE
INVARIANT
  SnapshotsAreRecords
