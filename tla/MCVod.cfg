CONSTANTS
  Calls = {c1, c2}
  Keys = {k1}
  Size = 1
  MaxRestarts = 0
  None = None
  MaxSlots = 2
  Numbers <- SmallNumbers
  Sizes <- SmallSizes
SPECIFICATION VodSpec
SYMMETRY Symmetry
INVARIANTS ConnectionHasSlot OnlyJoinersKeepSlots RangesAreExact
PROPERTY ImplementsCache
CHECK_DEADLOCK FALSE
