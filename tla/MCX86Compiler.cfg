SPECIFICATION Spec
CONSTANTS
  MaxNodes = 3
  Programs <- MCPrograms
  Origin = 2
  ShortMax = 3
  LongMax = 40
  MaxPasses = 5
  NIL = NIL
INVARIANTS
  LaidOut
  EmitsAFixpoint
  BinaryIsProgram
  GivesUpForCause
PROPERTIES
  AssemblyEnds
