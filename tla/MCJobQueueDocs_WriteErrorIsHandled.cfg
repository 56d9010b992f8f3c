CONSTANTS
    Job = {j1}
    Worker = {w1}
    NoJob = NoJob
    MaxAttempts = 1
    PipelineError <- MCPipelineError
    ErrorRateCounter = FALSE
    MaxClaims = 3
    MaxFaults = 0
SPECIFICATION Spec
PROPERTY
    WriteErrorIsHandled
