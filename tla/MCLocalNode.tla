----------------------------- MODULE MCLocalNode -----------------------------
(* Two keys and four works: w1 and w2 of key a, w3 and w4 of key b; w2 and w3
   carry the same proof, w2 is no proposer, the checker refuses w4. *)
EXTENDS LocalNode

MCWorks == {"w1", "w2", "w3", "w4"}
MCPk == [w1 |-> "a", w2 |-> "a", w3 |-> "b", w4 |-> "b"]
MCSlot == [w1 |-> 1, w2 |-> 2, w3 |-> 1, w4 |-> 2]
MCProof == [w1 |-> "p", w2 |-> "q", w3 |-> "q", w4 |-> "r"]
MCScore == [w1 |-> 6, w2 |-> 3, w3 |-> 7, w4 |-> 5]
MCTag == [w1 |-> 0, w2 |-> 0, w3 |-> 0, w4 |-> 0]
MCValid == {"w1", "w2", "w3"}
MCExpiresAt == [a |-> 2, b |-> 1]
MCDifficulty(block) == 1

Code(block) ==
    LET bit(w, v) == IF w \in block THEN v ELSE 0
    IN bit("w1", 1) + bit("w2", 2) + bit("w3", 4) + bit("w4", 8)

MCHashRank(chain) == IF Len(chain) = 1 THEN Code(chain[1]) ELSE 16 * Code(chain[1]) + Code(chain[2])

(* Forks of equal work, one that pays a refused proof, one that wins, and one
   that pays a proof twice. *)
MCPeerChains ==
    {<<{"w1"}>>, <<{"w3"}, {"w1"}>>, <<{"w4"}, {"w1"}>>, <<{"w3"}, {"w1", "w2"}>>}
=============================================================================
