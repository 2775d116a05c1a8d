----------------------------- MODULE ProofCredit -----------------------------
(***************************************************************************)
(* What the durable chain of a node promises to the outside: it grows by   *)
(* one replayable block at a time or is replaced by a chain that wins the  *)
(* fork choice, it never falls back, whatever the process does, and with a *)
(* checker it pays only for proofs the checker accepts.                    *)
(***************************************************************************)
EXTENDS LocalChain

VARIABLES canon, checker

Sound(chain) == ReplayOk(chain) /\ (checker => WorksOf(chain) \subseteq Valid)

Init == canon = <<>> /\ checker \in BOOLEAN

Grow ==
    /\ Len(canon') = Len(canon) + 1
    /\ PrefixOf(canon, canon')
    /\ Sound(canon')

Replace ==
    /\ ChooseCandidate(canon, canon')
    /\ Sound(canon')

Next == (Grow \/ Replace) /\ UNCHANGED checker

Spec == Init /\ [][Next]_<<canon, checker>>

=============================================================================
