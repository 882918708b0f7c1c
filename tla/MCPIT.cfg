SPECIFICATION Spec
CONSTANTS
  Byte = 2
  Silence = silence
  Programs <- MCPrograms
INVARIANTS
  OneOscillator
PROPERTIES
  CountsAreWhole
CHECK_DEADLOCK FALSE
