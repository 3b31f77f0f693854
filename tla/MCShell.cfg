CONSTANTS
  WORD = 256
  PMM_RAM_BASE = 64
  highest_ram = 104
  RAM_END = 100
  DEFAULT_LENGTH = 24
  Numbers <- MCNumbers
SPECIFICATION Spec
INVARIANTS TypeOK AccessesInRam DumpExact
PROPERTY DumpEnds
CHECK_DEADLOCK FALSE
