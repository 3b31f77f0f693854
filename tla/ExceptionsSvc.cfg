SPECIFICATION Spec
CONSTANTS
  Programs <- ShellLoop
  PStates <- ShellPState
  STACK_TOP = 512
  SP0_BASE = 7000
  GENERATIONS = 2
PROPERTY
  SvcReturnsToNext
CHECK_DEADLOCK FALSE
