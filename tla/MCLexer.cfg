CONSTANTS
  Sources <- MCSources
  Configurations <- MCConfigurations
SPECIFICATION Spec
CHECK_DEADLOCK FALSE
INVARIANTS CharactersOnce WordsStayWhole LocationsPoint
