SPECIFICATION Spec
CONSTANTS
    Reserved = {"ax", "mov"}
    Lower <- MCLower
    LocalLabels = {"%%l"}
    MaxNumber = 9
    MaxDepth = 4
    Programs <- MCPrograms
    Predefined <- MCPredefined
INVARIANTS
  ScopesNest
  OnlyUnbalancedIsDropped
  OneCallablePerArity
  RemovedEquIsBound
  RedefinitionIsReported
CHECK_DEADLOCK FALSE
