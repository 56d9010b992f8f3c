CONSTANTS
    Process = {p1, p2, p3}
    Daemon = p1
    MaxFaults = 1
SPECIFICATION FairSpec
INVARIANTS
    TypeOK
    RunningHasSchema
    NoRaceLostTwice
PROPERTY
    ServiceComesBack
