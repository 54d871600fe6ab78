CONSTANTS
  Holders = {h1, h2, h3}
  Limit = 2
  Hz = 5
  Bps = 3
  Slice = 2
  MinWait = 1
  MaxRead = 3
  MaxTime = 10
SPECIFICATION MCSpec
INVARIANTS CountsAgree BurstWithinSecond SleepsAtMostTwice
PROPERTIES AcquireReturns ImplementsSlots
