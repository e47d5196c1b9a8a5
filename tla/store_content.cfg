CONSTANTS
  Sessions = {s1}
  Origins = {o1}
  Ids = {i1, i2}
  Captures = {c1}
  k1 = k1
  k2 = k2
  fa = fa
  fb = fb
  Keys <- MCKeys
  Fingerprints <- MCFingerprints
  Bodies <- Adopting
  LegacyRecords <- LegacyHistory
  Null = Null
  PartLimit = 2
  PartBytes = 2
  TargetBytes = 3
  UserPendingBytes = 3
  ReservationLimit = 2
  Lifetime = 1
  LeaseLifetime = 1
  ReclaimLimit = 1
  MaxRevision = 3
  MaxTime = 0
SPECIFICATION Spec
SYMMETRY IdSymmetry
CHECK_DEADLOCK FALSE
INVARIANTS Accounting HeadComplete VersionAgreement
PROPERTIES NoLegacyRegression TombstoneFinal ImplementsAtomicPublication
