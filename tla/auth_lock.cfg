SPECIFICATION Spec
CONSTANTS
    Processes = {p1, p2, p3}
    Users = {u1}
    Earlier = c0
    None = None
    MaxFaults = 0
    MaxCrashes = 1
    MaxDisabled = 0
PROPERTIES NoSilentOverwrite
SYMMETRY Symmetric
CHECK_DEADLOCK FALSE
