SPECIFICATION Spec
CONSTANTS
  Views = {v1, v2}
  MaxNodes = 5
  MaxPis = 3
INVARIANTS
  LevelsExact
  DepthExact
  RanksExact
SYMMETRY Symmetry
CHECK_DEADLOCK FALSE
