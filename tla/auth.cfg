SPECIFICATION FairSpec
CONSTANTS
    Processes = {p1, p2}
    Users = {u1}
    Earlier = c0
    None = None
    MaxFaults = 1
    MaxCrashes = 1
    MaxDisabled = 1
INVARIANTS AuthorityApproved StoredNotRevoked NoSilentLeak
PROPERTIES NoSilentOverwrite CommandsEnd
CHECK_DEADLOCK FALSE
