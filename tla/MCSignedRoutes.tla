--------------------------- MODULE MCSignedRoutes ---------------------------
(* Bounties of one family.  A peer's block or chain promotes the share that
   the node may hold itself; the nonces bound how many requests there
   are and, being only compared, are interchangeable. *)
EXTENDS SignedRoutes

OneFamily == [b |-> "f"]
MCPeerBlocks == {{}, {<<"b", "good">>}}
NonceSymmetry == Permutations(Nonces)
MCPeerChains == {<<>>, <<{<<"b", "good">>}>>}
=============================================================================
