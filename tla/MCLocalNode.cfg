SPECIFICATION Spec
CONSTANTS
  Works <- MCWorks
  Pk <- MCPk
  Slot <- MCSlot
  Proof <- MCProof
  Score <- MCScore
  Tag <- MCTag
  Valid <- MCValid
  MinScore = 2
  BlockScore = 5
  KMax = 2
  MaxHeight = 2
  Difficulty <- MCDifficulty
  HashRank <- MCHashRank
  GlobalCap = 2
  PkCap = 2
  TombCap = 4
  PkQuota = 2
  Nonces = {1}
  NoNonce = NoNonce
  AllowAnonymous = FALSE
  ExpiresAt <- MCExpiresAt
  PeerChains <- MCPeerChains
INVARIANTS
  StoreSound
  SharesSound
  ChecksSound
PROPERTIES
  WritesAllowed
  ImplementsCredit
