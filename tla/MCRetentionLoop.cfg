CONSTANTS
    TTL = 1
    MaxBytes = 2
    Now = {1, 2, 3}
    Length = 3
    Name <- MCName
    FileList <- MCFileList
SPECIFICATION Spec
INVARIANTS
    LoopsSelect
    SelectionIsOldestFirst
    KeptFits
    NoNeedlessDeletion
CHECK_DEADLOCK FALSE
