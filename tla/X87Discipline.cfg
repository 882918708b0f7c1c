SPECIFICATION DisciplinedSpec
CONSTANTS
  NRegs = 3
  Reals = {"zero", "inf"}
  Programs = {{"FSAVE", "FRSTOR"}}
INVARIANTS
  NoHolesNoFaults
PROPERTIES
  ImplementsStack
