CONSTANTS
  Calls = {c1, c2}
  Keys = {k1}
  Size = 2
  MaxRestarts = 0
  None = None
SPECIFICATION Spec
INVARIANT EndMeansWhole
CHECK_DEADLOCK FALSE
