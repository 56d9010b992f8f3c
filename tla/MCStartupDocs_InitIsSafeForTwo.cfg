CONSTANTS
    Process = {p1, p2}
    Daemon = p1
    MaxFaults = 0
SPECIFICATION Spec
INVARIANT
    InitIsSafeForTwo
