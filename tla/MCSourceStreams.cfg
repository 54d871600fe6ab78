CONSTANTS
  c1 = c1
  c2 = c2
  p1 = p1
  p2 = p2
  Clients = {c1, c2}
  Keys = {k1}
  ClientBuf = 1
  None = None
  Sources = {s1}
  SourceOf <- OneSource
  Limits = {1, 2}
  Plays = {p1, p2}
  Media = {m1}
  Provider = s1
SPECIFICATION MCSpec
INVARIANT ProviderSharedLimit
PROPERTY OnlyLostSlotsStarve
CHECK_DEADLOCK FALSE
