SPECIFICATION FetchSpec
CONSTANTS
    Pairs <- MCPairs
    Size <- MCSize
    MaxPending = 3
    MaxBytes = 4
    Config <- MCConfig
    Served = {"r1"}
    MaxFaults = 4
INVARIANTS
    FilesSound
    NothingLost
PROPERTIES
    FetchedInTheEnd
