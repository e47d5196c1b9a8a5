SPECIFICATION Spec
CONSTANTS
  Processes = {p1, p2}
  Captures = {c1, c2}
  Attempts = {i1, i2}
  Source = s1
  Key = k1
  Content = x1
  Null = Null
  Deletable = TRUE
  Operations = 8
  MaxEpoch = 3
  MaxOrphans = 1
  MaxFaults = 2
  RawAllowed = FALSE
  MaxRevoked = 0
SYMMETRY DeliverySymmetry
INVARIANTS SettledTruthfully HeadAccounted
CHECK_DEADLOCK FALSE
