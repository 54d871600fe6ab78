CONSTANTS
  Calls = {c1, c2}
  Keys = {k1}
  Size = 1
  MaxRestarts = 0
  None = None
  MaxSlots = 1
  Numbers <- SmallNumbers
  Sizes <- SmallSizes
SPECIFICATION VodSpec
INVARIANT NoSlotLeaks
CHECK_DEADLOCK FALSE
