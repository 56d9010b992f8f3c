CONSTANTS
    Media <- MCMedia
    Wav <- MCWav
    MaxAttempts = 3
    WorkerCount = 2
    MaxLeases = 4
    MaxFaults = 1
SPECIFICATION Spec
INVARIANTS
    TypeOK
    CacheIsSwept
    UndisturbedRunSucceeds
    TimelyOverlapKeepsText
PROPERTY
    ImplementsLifecycle
CHECK_DEADLOCK FALSE
