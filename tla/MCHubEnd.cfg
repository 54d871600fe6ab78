CONSTANTS
  Clients = {c1, c2}
  Keys = {k1}
  ClientBuf = 1
  None = None
SPECIFICATION EndSpec
PROPERTIES EverySubscriberReachesEOF
CHECK_DEADLOCK FALSE
