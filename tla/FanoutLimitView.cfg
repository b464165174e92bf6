SPECIFICATION Spec
CONSTANTS
  Limits = {1, 2}
  MaxNodes = 5
  MaxPis = 2
  MaxPos = 1
  Polarity = {FALSE, TRUE}
INVARIANTS
  OutputsKept
  NumGates
  LimitKeptIfSeparate
CHECK_DEADLOCK FALSE
