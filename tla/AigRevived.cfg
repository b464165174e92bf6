SPECIFICATION MCRevivedSpec
CONSTANTS
  MaxNodes = 11
  MaxPis = 3
  MaxPos = 2
  DeadBit = 16
  Polarity = {FALSE, TRUE}
  OldInputs = {}
INVARIANTS
  OldIsGone
CHECK_DEADLOCK FALSE
