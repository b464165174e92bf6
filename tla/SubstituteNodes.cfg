SPECIFICATION MCSpec
CONSTANTS
  MaxNodes = 10
  MaxPis = 3
  MaxPos = 2
  DeadBit = 16
  Polarity = {FALSE, TRUE}
  OldInputs = {}
  MaxPairs = 2
  Wrap = 16
  MaxWork = 20
INVARIANTS
  SubTypeOK
  SOutputsKept
  SRefCountExact
  NoDeadReference
  PairsHold
  OldAlive
  LevelsExact
  EagerLevelsExact
  AssertionsHold
PROPERTIES
  STerminates
CHECK_DEADLOCK FALSE
