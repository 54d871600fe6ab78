CONSTANTS
  Clients = {c1, c2}
  Keys = {k1}
  ClientBuf = 1
  None = None
SPECIFICATION FairSpec
INVARIANTS OneUpstreamPerKey SubscribersAreOpen
PROPERTIES LiveSessionsStay SubscribeReturns PumpNeverStalls EndIsCleanedUp
CHECK_DEADLOCK FALSE
