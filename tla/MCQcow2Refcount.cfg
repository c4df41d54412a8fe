SPECIFICATION Spec
CONSTANTS
  CompressedBit = 64
  EntrySize = 1
  SectorSize = 1
  ReservedBit = 32
  AlignUnit = 4
  MinHeader = 2
  OrderEnd = 3
  HeaderWindow = 4
  MaxL1 = 4
  Files <- SmallFiles
  MaxScanned = 3
CHECK_DEADLOCK FALSE
INVARIANTS
  TypeOK
  ScanAgreesWithReader
  NoFalseOrphans
  CleanScanIsComplete
