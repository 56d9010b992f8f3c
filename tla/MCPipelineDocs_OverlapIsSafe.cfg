CONSTANTS
    Media <- MCMedia
    Wav <- MCWav
    MaxAttempts = 2
    WorkerCount = 2
    MaxLeases = 3
    MaxFaults = 0
SPECIFICATION Spec
INVARIANT
    OverlapIsSafe
CHECK_DEADLOCK FALSE
