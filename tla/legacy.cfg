CONSTANTS
    Collectors = {c1}
    Sessions = {1, 2}
    Policies = {1, 2}
    EventsPerPage = 1
    SegmentRecords = 2
    PagesPerCycle = 2
    QuantumPages = 1
    Attempts = 2
    InitialRecords = 2
    MaxChanges = 2
    MaxFaults = 1
    SettledSources = TRUE
SPECIFICATION FairSpec
CHECK_DEADLOCK FALSE
INVARIANTS ArchiveFaithful ProgressAcknowledged CursorCovered
PROPERTIES EverythingCollected
