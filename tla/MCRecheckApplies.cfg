SPECIFICATION Spec
CONSTANTS
    Leaves = {"l1", "l2"}
    Commits = {1, 2}
    Parts = {1}
    Ties = {1}
    D = 2
    W = 3
    AnnounceGap = 1
    RevealGrace = 1
    PoolLead = 1
    StartSlack = 0
    CCommit = 2
    SlotLeavesMax = 2
    MaxEpoch = 1
    K = 1
    Rate = 1
    CostFixed = 1
    Cap = 2
    QReward = 1
    Maturity = 2
    Scenarios <- RecheckScenario
INVARIANTS
    JobsApply
CHECK_DEADLOCK FALSE
