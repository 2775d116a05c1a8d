SPECIFICATION Spec
CONSTANTS
    Leaves = {"l1", "l2"}
    Commits = {1, 2}
    Parts = {1}
    Ties = {1, 2}
    D = 2
    W = 3
    AnnounceGap = 1
    RevealGrace = 1
    PoolLead = 1
    StartSlack = 0
    CCommit = 2
    SlotLeavesMax = 2
    MaxEpoch = 1
    K = 1
    Rate = 2
    CostFixed = 1
    Cap = 1
    QReward = 1
    Maturity = 2
    Scenarios <- MCScenarios
INVARIANTS
    FoldSound
    RewardsSound
PROPERTIES
    DecidedOnce
    Quarantined
CHECK_DEADLOCK FALSE
