CONSTANTS
  Sessions = {s1}
  Origins = {o1}
  Ids = {i1, i2, i3}
  Captures = {c1}
  k1 = k1
  k2 = k2
  fa = fa
  fb = fb
  Keys <- MCKeys
  Fingerprints <- MCFingerprints
  Bodies <- Replaced
  LegacyRecords <- NoRecords
  Null = Null
  PartLimit = 1
  PartBytes = 1
  TargetBytes = 1
  UserPendingBytes = 2
  ReservationLimit = 3
  Lifetime = 2
  LeaseLifetime = 1
  ReclaimLimit = 1
  MaxRevision = 1
  MaxTime = 2
SPECIFICATION Spec
SYMMETRY IdSymmetry
CHECK_DEADLOCK FALSE
INVARIANT LinearHistory
PROPERTIES DeadStaysDead ReceiptStable ImplementsAttemptAuthority
