SPECIFICATION Spec
CONSTANTS
  Modes <- MCModes
  Chars = {"A", "B"}
  Attrs = {"white", "blink"}
  MaxSteps = 4
PROPERTIES
  IsTerminal
  ScreenIsTrue
CHECK_DEADLOCK FALSE
