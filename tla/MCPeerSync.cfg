SPECIFICATION FairSpec
CONSTANTS
    Nodes = {"a", "b"}
    PeersOf <- MCPeersOf
    Labels <- FewLabels
    Work <- MCWork
    Size <- MCWork
    HashRank <- MCHashRank
    PageBlocks = 2
    FrameBytes = 3
    BlockLimit = 4
    ByteLimit = 13
    ResponseLimit = 5
    HelloBytes = 1
    QueueCap = 1
    MaxHeight = 3
    MaxFaults = 1
INVARIANTS
    RoundsSound
PROPERTIES
    ForkChoice
    Converges
