CONSTANTS
  Clients = {c1, c2}
  Keys = {k1, k2}
  ClientBuf = 1
  None = None
  Sources = {s1}
  SourceOf <- OneSource
  Limits = {0, 1}
SPECIFICATION LiveSpec
INVARIANT LeaseCoversConnection
PROPERTY ImplementsHub
CHECK_DEADLOCK FALSE
