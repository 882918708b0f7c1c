CONSTANTS
    Lines <- MCLines
    Machines <- MCMachines
SPECIFICATION Spec
INVARIANTS
  AnswerIsRight
  RunsAsWritten
  FlagsAreArithmetic
  SizesMoveOneWay
CHECK_DEADLOCK FALSE
