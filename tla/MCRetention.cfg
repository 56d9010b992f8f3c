CONSTANTS
    Path = {p1, p2, p3}
    Run = {r1, r2}
    TTL = 2
    MaxBytes = 3
    Now = {3, 4}
    Ages = {1, 2, 3}
    Sizes = {1, 2}
    FirstFile <- MCFirstFile
    MaxFaults = 0
    MaxArrivals = 0
    MaxRemovals = 0
SYMMETRY Symmetry
SPECIFICATION Spec
INVARIANTS
    TypeOK
    OverlappingRunsDoNotOverdelete
CHECK_DEADLOCK FALSE
