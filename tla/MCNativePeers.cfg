CONSTANTS
    Nodes <- MCNodes
    Links <- MCLinks
    None = None
    Blocks <- MCBlocks
    Genesis = "g"
    Parent <- MCParent
    Work <- MCWork
    HashRank <- MCHashRank
    MaxHistoryBlocks = 3
    RecentForkBlocks = 2
    RoundBlocks = 2
    BlockPage = 2
    MaxRequests = 5
    MaxFaults = 1

SPECIFICATION Spec

INVARIANTS
    RoundSound
PROPERTIES
    RanksGrow
    Settles
