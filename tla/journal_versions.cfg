\* Source versions: three captures of one source, adopted or not, published, rejected
\* or abandoned in any order, with records whose content changes.
CONSTANTS
  Scopes = {s1}
  Captures = {c1, c2, c3}
  Attempts = {c1, c2, c3}
  IssuedFor <- OwnAttempt
  Policies <- Tracked
  Reasons = {}
  Receipts = {r1}
  UnitReceipts = {}
  EventKeys = {k1, k2}
  RawKeys = {}
  Observed = {a, b}
  Sizes <- OneByte
  MetadataSizes <- OneByte
  Floors <- FloorOne
  Null = Null
  UnitsPerTarget = 1
  TargetBytes = 1
  PendingBytes = 3
  RecordsPerTarget = 2
  MetadataEntries = 13
  PruneLimit = 1
  ReclaimLimit = 0
  MaxEpoch = 1
  MaxRevision = 3
SPECIFICATION Spec
INVARIANTS VersionIdentity ReappearsAsNew
CONSTRAINT VersionBounds
SYMMETRY VersionSymmetry
CHECK_DEADLOCK FALSE
