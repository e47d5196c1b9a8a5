CONSTANTS
    Collectors = {c1}
    Sessions = {1}
    Policies = {1}
    EventsPerPage = 1
    SegmentRecords = 1
    PagesPerCycle = 2
    QuantumPages = 1
    Attempts = 2
    InitialRecords = 1
    MaxChanges = 1
    MaxFaults = 1
    SettledSources = FALSE
SPECIFICATION Spec
CHECK_DEADLOCK FALSE
INVARIANTS ReplayIsOneEffect
