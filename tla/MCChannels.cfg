CONSTANTS
  Refreshers = {r1}
  Keys = {k1, k2, k3}
  Two = {r1, r2}
  TwoKeys = {k1, k2}
  Portals = 2
  BatchSize = 2
  MaxList = 3
  Jobs = {j1, j2}
  MaxRestarts = 1
  Ids = {1, 2, 3}
  Channels = {news, film}
  Plays = {p1}
  None = none
  Lines <- AllLines
  MaxLines = 4
  Nothing = nothing
SPECIFICATION MCSpec
INVARIANTS DoneMeansReplaced OneListAtATime PlaylistNeverCollides EntriesAreListed UrlMeansOneChannel
PROPERTIES OverlappingRefreshesEnd JobsAreHeardOf
CHECK_DEADLOCK FALSE
