CONSTANTS
  Keys = {k1, k2, k3}
  MaxSize = 2
  MaxAge = 3
  TTL = 2
  MaxBytes = 3
  None = none
  short = short
  long = long
  Promoters = {promoter}
  Titled = {short, long}
  SizeOf <- Sizes
  DiskFails = TRUE
  NoInode = noInode
  Calls = {c1, c2}
  Servers = {s1, s2}
  Unset = unset
SPECIFICATION MCSpec
SYMMETRY Symmetry
INVARIANTS FitsOrOnlyFills LeastRecentlyUsedFirst PromotedIsWhole RefreshedMeansScanned
CHECK_DEADLOCK FALSE
