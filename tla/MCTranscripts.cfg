CONSTANTS
    Ack = {a1, a2}
    Get = {g1}
    MaxFaults = 2
    MaxInterventions = 1
    MaxStaleWrites = 1
SYMMETRY Symmetry
SPECIFICATION Spec
INVARIANTS
    TypeOK
    OneFirstAck
    TrashIsAcked
    MovedMeansRowFollows
    UndisturbedAckConverges
    TranscriptIsKept
    RowFindsFile
    ConfirmedIsServed
PROPERTIES
    AckedAtIsKept
    PathNeverGoesBack
    ImplementsLifecycle
