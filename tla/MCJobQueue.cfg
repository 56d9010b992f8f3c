CONSTANTS
    Job = {j1, j2}
    Worker = {w1, w2}
    NoJob = NoJob
    MaxAttempts = 2
    PipelineError <- MCPipelineError
    ErrorRateCounter = TRUE
    MaxClaims = 3
    MaxFaults = 1
SYMMETRY Symmetry
SPECIFICATION Spec
INVARIANTS
    TypeOK
    LeaseMatchesStatus
    RunsHaveDistinctLeases
    WithinBudget
    OnlyStaleRunsDamage
    FailedForACause
PROPERTIES
    LostLeaseStaysLost
    TerminalIsFinal
    RowsOnlyAdvance
    ImplementsLifecycle
