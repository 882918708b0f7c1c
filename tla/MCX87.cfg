SPECIFICATION Spec
CONSTANTS
  NRegs = 2
  Reals <- TwoReals
  Programs <- MCPrograms
INVARIANTS
  TypeOK
  TopsAgree
  TagsTruthful
PROPERTIES
  TaskSwitchKeepsStack
  ExceptionsAreTold
