CONSTANTS
  PRINTF_BUFFER_SIZE = 6
  MAX_INT_DIGITS = 4
  POINTER_DIGITS = 2
  WORD = 128
  INT_WORD = 16
  Formats <- MCFormats
  Chars <- MCChars
  Strings <- MCStrings
  Values <- MCValues
  TX_SIZE = 2
  EarlierOutput <- MCEarlierOutput
SPECIFICATION Spec
INVARIANTS TypeOK TerminatorInside TextCutAtEnd NumbersExact StaysInFormat SentInOrder
PROPERTY Returns
CHECK_DEADLOCK FALSE
