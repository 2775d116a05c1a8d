SPECIFICATION Spec
CONSTANTS
    PBlk = 1
    D = 1
    LastCommit = 2
    Rebroadcasts = 1
    MaxHead = 6
    MaxTx = 4
    Scenarios <- MCScenarios
INVARIANTS
    SentRecorded
    SendsBounded
    CopySound
CHECK_DEADLOCK FALSE
