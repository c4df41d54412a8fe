SPECIFICATION FairSpec
CONSTANTS
  CompressedBit = 16384
  EntrySize = 2
  SectorSize = 2
  Threads = {t1, t2}
  NoThread = NoThread
  Images <- AllImages
  Offsets <- CallOffsets
  Lengths = {0, 7}
INVARIANTS
  TypeOK
  ReadAtFaithful
  CursorsHeld
  ShortReadOnlyAtTruncation
  ErrorTellsOfDefect
PROPERTIES
  PanicNeverSpreads
  ReadsAreAtomic
  LockReleased
