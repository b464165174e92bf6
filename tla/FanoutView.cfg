SPECIFICATION MCSpec
CONSTANTS
  MaxNodes = 6
  MaxPis = 2
  MaxPos = 1
  DeadBit = 16
  Polarity = {FALSE}
  OldInputs = {}
  MaxViews = 2
INVARIANTS
  NoDeadReference
  FanoutExact
  NoFanoutMissed
  NoStaleFanout
CHECK_DEADLOCK FALSE
