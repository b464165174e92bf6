SPECIFICATION MCFunctionSpec
CONSTANTS
  MaxNodes = 8
  MaxPis = 3
  MaxPos = 1
  DeadBit = 16
  Polarity = {FALSE}
  OldInputs = {1, 2}
INVARIANTS
  OutputsKept
  Acyclic
CHECK_DEADLOCK FALSE
