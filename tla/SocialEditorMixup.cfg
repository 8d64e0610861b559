SPECIFICATION Spec
CHECK_DEADLOCK FALSE
CONSTANTS
  Posts = {a, b}
  None = None
  MaxEdits = 3
  MaxLosses = 1
SYMMETRY Symmetry
INVARIANT ContentStaysWithItsPost
