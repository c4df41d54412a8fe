SPECIFICATION Spec
CONSTANTS
  CompressedBit = 16384
  EntrySize = 2
  SectorSize = 2
  Threads = {t1, t2}
  NoThread = NoThread
  Images <- ShortStreams
  Offsets <- CallOffsets
  Lengths = {7}
INVARIANT
  ShortInflateIsAnError
