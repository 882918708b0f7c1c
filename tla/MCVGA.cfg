SPECIFICATION Spec
CONSTANTS
  Presets <- MCPresets
  Offsets <- MCOffsets
  Values <- MCValues
  Settings <- MCSettings
  MaxSteps = 3
INVARIANTS
  CanvasCatchesUp
  BitsAreStored
  ModesMeasure
PROPERTIES
  IsLinearMemory
CHECK_DEADLOCK FALSE
