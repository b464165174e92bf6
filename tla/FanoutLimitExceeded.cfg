SPECIFICATION Spec
CONSTANTS
  Limits = {2}
  MaxNodes = 6
  MaxPis = 3
  MaxPos = 2
  Polarity = {FALSE}
INVARIANTS
  LimitKept
CHECK_DEADLOCK FALSE
