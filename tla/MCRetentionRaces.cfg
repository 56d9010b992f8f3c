CONSTANTS
    Path = {p1, p2}
    Run = {r1, r2}
    TTL = 2
    MaxBytes = 3
    Now = {3, 4}
    Ages = {1, 3}
    Sizes = {2}
    FirstFile <- MCFirstFile
    MaxFaults = 1
    MaxArrivals = 1
    MaxRemovals = 1
SYMMETRY Symmetry
SPECIFICATION Spec
INVARIANTS
    DeletionsAreCredited
    RunConverges
CHECK_DEADLOCK FALSE
