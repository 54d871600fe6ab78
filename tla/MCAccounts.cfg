CONSTANTS
  Calls = {c1, c2}
  Programs = {smoothie, ingest}
  Server = smoothie
  Passwords = {default, p1}
  Default = default
  Tokens = {t1, t2}
  Lifetime = 1
  MaxTime = 3
  Flows = {f1, f2}
  PageTokens = {u1, u2}
  Forms = {{"password", "movie", "tv", "source", "device"}, {"movie", "device"}, {"movie", "blank"}}
  MaxFaults = 1
  None = none
  Empty = empty
SPECIFICATION MCSpec
INVARIANTS ChangedPasswordStays FinishedMeansConfigured
PROPERTIES ImplementsSessions RetryCompletes
CHECK_DEADLOCK FALSE
