SPECIFICATION Spec
CONSTANTS
  CompressedBit = 16
  EntrySize = 1
  SectorSize = 2
  Images <- SmallImages
  Starts <- AllStarts
  Moves <- AllMoves
  Lengths = {0, 1, 6}
  UsizeMod = 16
  OverflowChecks = FALSE
INVARIANTS
  TypeOK
  SeekLandsExactly
  ReadEndsOnlyAtEnd
PROPERTY
  FailureKeepsPlace
