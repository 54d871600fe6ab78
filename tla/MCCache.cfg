CONSTANTS
  Calls = {c1, c2}
  Keys = {k1}
  Size = 2
  MaxRestarts = 1
  None = None
SPECIFICATION FairSpec
INVARIANTS FillOwnsItsFile ValidatedIsWhole
INVARIANT HitInCacheIsWhole
PROPERTIES ImplementsCacheLife OpenOrFillReturns ReadersReachEnd
CHECK_DEADLOCK FALSE
