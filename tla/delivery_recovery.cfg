SPECIFICATION FairSpec
CONSTANTS
  Processes = {p1}
  Captures = {c1, c2}
  Attempts = {i1, i2}
  Source = s1
  Key = k1
  Content = x1
  Null = Null
  Deletable = FALSE
  Operations = 3
  MaxEpoch = 12
  MaxOrphans = 1
  MaxFaults = 1
  RawAllowed = TRUE
  MaxRevoked = 1
INVARIANT SettledTruthfully
PROPERTY CapturesResolve
CHECK_DEADLOCK FALSE
