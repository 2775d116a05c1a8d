---------------------------- MODULE MCNativePeers ----------------------------
(***************************************************************************)
(* Two nodes that ask each other.  The tree has a branch of three blocks   *)
(* (a1, a2, a3) and one that leaves it at a1 (b2, b3) with the same work   *)
(* but the smaller hash, and a heavy block c1 on genesis, below the undo   *)
(* window of a node that has three blocks.                                 *)
(***************************************************************************)
EXTENDS NativePeers, TLC

MCNodes == {"n1", "n2"}
MCLinks == {<<"n1", "n2">>, <<"n2", "n1">>}

MCBlocks == {"a1", "a2", "a3", "b2", "b3", "c1"}

MCParent ==
    "a1" :> "g" @@ "a2" :> "a1" @@ "a3" :> "a2" @@ "b2" :> "a1" @@ "b3" :> "b2"
    @@ "c1" :> "g"

MCWork == [b \in MCBlocks |-> IF b = "c1" THEN 4 ELSE 1]

MCHashRank ==
    "g" :> 0 @@ "a1" :> 5 @@ "a2" :> 4 @@ "a3" :> 6 @@ "b2" :> 7 @@ "b3" :> 3
    @@ "c1" :> 2

=============================================================================
