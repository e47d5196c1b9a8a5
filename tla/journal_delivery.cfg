\* Tracked and untracked captures of one source: units, a second publication or a Raw
\* observation that borrows the first one's Raw unit, receipts, cancellation, pruning
\* and reclaim.
CONSTANTS
  Scopes = {s1}
  Captures = {c1, c2}
  Attempts = {c1, c2}
  IssuedFor <- OwnAttempt
  Policies <- Combined
  Reasons = {z}
  Receipts = {r1}
  UnitReceipts = {r1}
  EventKeys = {k1}
  RawKeys = {q1}
  Observed = {a}
  Sizes <- OneByte
  MetadataSizes <- OneByte
  Floors <- FloorOne
  Null = Null
  UnitsPerTarget = 2
  TargetBytes = 2
  PendingBytes = 3
  RecordsPerTarget = 2
  MetadataEntries = 12
  PruneLimit = 1
  ReclaimLimit = 2
  MaxEpoch = 1
  MaxRevision = 1
SPECIFICATION Spec
INVARIANTS OwedContentRetained SettlementNeverConflicts ByteAccounting CompletionExact
CONSTRAINT DeliveryBounds
SYMMETRY CaptureSymmetry
CHECK_DEADLOCK FALSE
