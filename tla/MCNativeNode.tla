---------------------------- MODULE MCNativeNode ----------------------------
(***************************************************************************)
(* A tree of eight blocks: a branch that spends (a2, a3), a sibling that   *)
(* confirms the same transfer one block later (b2, b3), a sibling with a   *)
(* conflicting transfer (d2), and a short, heavy branch on which account   *)
(* "a" was never paid (c1, c2).  Queued transfers depend on each other by  *)
(* nonce and by the money one pays the other.                              *)
(***************************************************************************)
EXTENDS NativeNode, TLC

MCAccounts == {"a", "b"}

Transfer(from, to, amount, fee, nonce, valid_before) ==
    [authentic |-> TRUE, from |-> from, to |-> to, amount |-> amount, fee |-> fee,
     nonce |-> nonce, valid_before |-> valid_before]

t0 == Transfer("a", "b", 2, 1, 0, 9)
x0 == Transfer("a", "b", 1, 0, 0, 2)
t1 == Transfer("a", "b", 1, 0, 1, 9)
t2 == Transfer("a", "b", 1, 0, 2, 9)
u0 == Transfer("b", "a", 1, 1, 0, 9)
u1 == Transfer("b", "a", 1, 1, 1, 9)

MCEnvelopes == {t0, x0, t1, t2, u0, u1}

MCBlocks == {"a1", "a2", "a3", "b2", "b3", "c1", "c2", "d2"}

MCParent ==
    "a1" :> "g" @@ "a2" :> "a1" @@ "a3" :> "a2" @@ "b2" :> "a1" @@ "b3" :> "b2"
    @@ "c1" :> "g" @@ "c2" :> "c1" @@ "d2" :> "a1"

MCRewardPk ==
    "a1" :> "a" @@ "a2" :> "b" @@ "a3" :> "a" @@ "b2" :> "b" @@ "b3" :> "a"
    @@ "c1" :> "b" @@ "c2" :> "b" @@ "d2" :> "a"

MCTransfers ==
    "a1" :> <<>> @@ "a2" :> <<t0>> @@ "a3" :> <<t1, u0>> @@ "b2" :> <<>>
    @@ "b3" :> <<t0>> @@ "c1" :> <<>> @@ "c2" :> <<>> @@ "d2" :> <<x0>>

MCWork == [b \in MCBlocks |-> IF b = "c2" THEN 3 ELSE 1]

MCHashRank ==
    "g" :> 0 @@ "a1" :> 5 @@ "a2" :> 4 @@ "a3" :> 8 @@ "b2" :> 3 @@ "b3" :> 6
    @@ "c1" :> 7 @@ "c2" :> 2 @@ "d2" :> 1

=============================================================================
