----------------------------- MODULE MCPeerSync -----------------------------
(* Two nodes.  Node a produces ordinary blocks, b also one of twice the work
   and twice the bytes, so that the shorter chain can be the heavier one. *)
EXTENDS PeerSync

MCPeersOf == [a |-> <<"b">>, b |-> <<"a">>]
MCWork(label) == IF label = 3 THEN 2 ELSE 1
MCHashRank(c) ==
    LET upTo[i \in 0..Len(c)] == IF i = 0 THEN 0 ELSE 4 * upTo[i - 1] + c[i]
    IN upTo[Len(c)]

FewLabels == [a |-> {1}, b |-> {3}]
=============================================================================
