CONSTANTS
    Accounts <- MCAccounts
    None = None
    Untouched = Untouched
    TotalSupply = 20
    InitialReward = 4
    HalvingEpoch = 3
    MinimumFee = 0
    RewardMaturity = 1
    AmountBits = 5
    MaxHeight = 4
    Blocks <- MCBlocks
    Genesis = "g"
    Parent <- MCParent
    RewardPk <- MCRewardPk
    Transfers <- MCTransfers
    Work <- MCWork
    HashRank <- MCHashRank
    Envelopes <- MCEnvelopes
    MaxPendingTransfers = 2
    MaxRecoveryTransfers = 4
    MaxHistoryBlocks = 3
    RecentForkBlocks = 2

SPECIFICATION Spec

INVARIANTS
    DurableBeforeVisible
    RestartSound
    MemorySound
PROPERTIES
    LogRankGrows
