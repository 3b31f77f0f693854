SPECIFICATION Spec
CONSTANTS
  Programs <- MCPrograms
  PStates <- MCPStates
  STACK_TOP = 512
  SP0_BASE = 7000
  GENERATIONS = 2
INVARIANTS
  TypeOK
  FaultsHalt
PROPERTIES
  ContextPreserved
  ProgramAdvances
CHECK_DEADLOCK FALSE
