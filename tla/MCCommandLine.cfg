\* Seven characters make four words, or three of different lengths and a
\* space: more than argv holds, with something left for strtok.
CONSTANTS
  MAX_CMD_LEN = 8
  MAX_ARGS = 2
  FIFO_SIZE = 2
  Keys <- MCKeys
  EXIT <- MCExit
SPECIFICATION Spec
INVARIANTS TypeOK ArgvIsWordsShown
PROPERTY LineAnswered
CHECK_DEADLOCK FALSE
