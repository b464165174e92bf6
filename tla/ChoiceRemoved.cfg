SPECIFICATION AnySpec
CONSTANTS
  MaxNodes = 4
INVARIANTS
  ClassesListed
CHECK_DEADLOCK FALSE
