\* 17 = 1 * 10 + 7 = 1 * 16 + 1: with the digits of the alphabet two-digit
\* numerals are at cutoff and around cutlim in base 10 and 16.
CONSTANTS
  UINT64_MAX = 17
  MAX_LENGTH = 4
  Strings <- MCStrings
  Bases = {0, 1, 16, 17}
SPECIFICATION Spec
INVARIANTS TypeOK Saturates ParsesNumeral
PROPERTY Returns
CHECK_DEADLOCK FALSE
