SPECIFICATION Spec
CONSTANTS
    Signers = {"x", "y"}
    Nonces = {n1, n2}
    Operators = {"x"}
    SessionPks = {"s"}
    Bounties = {"b"}
    Family <- OneFamily
    Eligible = {"f"}
    PerBlock = 1
    Artifacts = {"good", "fine", "bad"}
    Good = {"good", "fine"}
    Slots = {1, 2}
    MaxBlocks = 1
    PeerBlocks <- MCPeerBlocks
    PeerChains <- MCPeerChains
INVARIANTS
    RequestsSound
    BountySound
PROPERTIES
    ClosedStaysClosed
SYMMETRY NonceSymmetry
CHECK_DEADLOCK FALSE
