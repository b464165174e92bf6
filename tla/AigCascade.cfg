SPECIFICATION MCCascadeSpec
CONSTANTS
  MaxNodes = 8
  MaxPis = 3
  MaxPos = 1
  DeadBit = 16
  Polarity = {FALSE, TRUE}
  MffcLimit = 3
  OldInputs = {}
INVARIANTS
  NoDeadReference
  RefCountExact
  OldIsGone
  CascadeSound
  TopoSorted
  SizeExact
  ViewExact
PROPERTIES
  ReplacedStaysDead
  Terminates
CHECK_DEADLOCK FALSE
