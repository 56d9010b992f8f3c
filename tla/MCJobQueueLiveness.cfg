CONSTANTS
    Job = {j1, j2}
    Worker = {w1, w2}
    NoJob = NoJob
    MaxAttempts = 2
    PipelineError <- MCPipelineError
    ErrorRateCounter = FALSE
    MaxClaims = 2
    MaxFaults = 1
SPECIFICATION FairSpec
PROPERTY
    EveryJobSettles
