SPECIFICATION MCMixedSpec
CONSTANTS
  MaxNodes = 7
  MaxPis = 2
  MaxPos = 1
  DeadBit = 8
  Polarity = {FALSE}
  OldInputs = {}
INVARIANTS
  TypeOK
  HashSound
  RefCountExact
  OnlyUnreferencedDies
  DeadFaninPending
  OldIsGone
  NoOverflow
CHECK_DEADLOCK FALSE
