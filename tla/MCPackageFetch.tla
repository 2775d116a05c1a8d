--------------------------- MODULE MCPackageFetch ---------------------------
(* Two packages, one of them twice as large and with two references; the
   reference x is also used for both, which the journal refuses.  Of the two
   requests of the configuration the first is for a package that no peer
   serves. *)
EXTENDS PackageFetch

MCPairs == {[root |-> "r1", ref |-> "x"], [root |-> "r1", ref |-> "y"], [root |-> "r2", ref |-> "x"]}
MCSize(root) == IF root = "r1" THEN 2 ELSE 1
MCConfig == <<[root |-> "r2", ref |-> "x"], [root |-> "r1", ref |-> "y"]>>
=============================================================================
