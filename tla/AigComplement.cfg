SPECIFICATION MCComplementSpec
CONSTANTS
  MaxNodes = 6
  MaxPis = 2
  MaxPos = 1
  DeadBit = 16
  Polarity = {FALSE, TRUE}
  OldInputs = {}
INVARIANTS
  OutputsKept
CHECK_DEADLOCK FALSE
