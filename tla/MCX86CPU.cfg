SPECIFICATION Spec
CONSTANTS
  SegmentSize = 5
  Segments = 2
  Slots = 6
  Word = 3
  Byte = 2
  MaxFrames = 2
  MaxCs = 3
  Relatives <- MCRelatives
  MinIp <- MCMinIp
  MinCx <- MCMinCx
  Programs <- MCPrograms
INVARIANTS
  StackIntact
PROPERTIES
  SavedComesBack
  OwnPrefixes
  RepeatsAreCounted
CHECK_DEADLOCK FALSE
