SPECIFICATION Spec
CONSTANTS
  MinHeader = 3
  FeatureEnd = 4
  LengthEnd = 5
  ExtAlign = 1
  MaxExtensions = 2
  MaxName = 3
  LenientWindow = 7
  MaxSnapshots = 3
  Files <- LegacyFiles
CHECK_DEADLOCK FALSE
INVARIANT
  LegacyIsReported
