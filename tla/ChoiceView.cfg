SPECIFICATION Spec
CONSTANTS
  MaxNodes = 4
INVARIANTS
  ClassesListed
PROPERTIES
  ClassesKept
CHECK_DEADLOCK FALSE
