SPECIFICATION FairSpec
CONSTANTS
  Files <- SmallFiles
  Inner <- InnerHeaders
  MinHeader = 4
  FeatureEnd = 5
  LengthEnd = 6
  ExtAlign = 2
  MaxExtensions = 2
  MaxName = 3
  StrictWindow = 6
  LenientWindow = 14
  MaxL1 = 2
  EntrySize = 1
  SeekLimit = 18
CHECK_DEADLOCK FALSE
INVARIANTS
  TypeOK
  OpenedIffReadable
  InspectExplainsOpen
  BackingIsNamed
PROPERTY
  OperationsEnd
