SPECIFICATION LedgerSpec
CONSTANTS
  Accounts = {"a", "b"}
  None = None
  Untouched = Untouched
  TotalSupply = 13
  InitialReward = 5
  HalvingEpoch = 3
  MinimumFee = 0
  RewardMaturity = 2
  AmountBits = 4
  MaxHeight = 5
  MaxBlockTransfers = 2
  RecentUndoBlocks = 2
  Envelopes <- MCEnvelopes
INVARIANTS
    SupplySound
    LocksSound
    UndoSound
    HistorySound
PROPERTIES
    WindowFloor
