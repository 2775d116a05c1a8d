----------------------------- MODULE LocalChain -----------------------------
(***************************************************************************)
(* What a chain of the local node is, which works a block selects, which   *)
(* chains replay accepts and which of two chains is preferred.             *)
(*                                                                         *)
(* A work is one solved share: whose it is (Pk), the place it occupies in  *)
(* the pool (Slot stands for the pair n, j), the proof it carries (Proof,  *)
(* the hash of the package bytes), its score and its kernel tag.  A share  *)
(* is a work bound to the head it was solved for.  A block is the set of   *)
(* works it selects, and a head is the chain that ends in it: two          *)
(* different chains never have one hash.                                   *)
(***************************************************************************)
EXTENDS Integers, Sequences, FiniteSets

CONSTANTS
    Works,        \* the shares miners can solve
    Pk,           \* [Works -> keys]
    Slot,         \* [Works -> places in the pool]
    Proof,        \* [Works -> proofs]: the canonical hash of the package
    Score,        \* [Works -> Nat]: 2^256 / (share hash + 1)
    Tag,          \* [Works -> kernel tags]
    Valid,        \* the works whose proof the pinned checker accepts
    MinScore,     \* the floor below which a share is never selected
    BlockScore,   \* the score at which a share hash is below T_block
    KMax,         \* how many shares a block may select
    MaxHeight,    \* bound of the model: the longest chain considered
    Difficulty(_),\* the weight of a block
    HashRank(_)   \* the place of a chain's head among all hashes

ASSUME WorksAssumption ==
    /\ IsFiniteSet(Works) /\ Valid \subseteq Works
    /\ DOMAIN Pk = Works /\ DOMAIN Slot = Works /\ DOMAIN Proof = Works /\ DOMAIN Tag = Works
    /\ Score \in [Works -> Nat]

ASSUME LimitsAssumption ==
    /\ {MinScore, BlockScore, KMax, MaxHeight} \subseteq Nat
    /\ MinScore <= BlockScore

Pks == {Pk[w] : w \in Works}
Proofs == {Proof[w] : w \in Works}
Blocks == (SUBSET Works) \ {{}}

(* A weight is 2^256 divided by a positive target of 256 bits. *)
ASSUME DifficultyAssumption ==
    \A block \in Blocks : Difficulty(block) \in Nat \ {0}

(* The chains the environment can offer within the bound of the model. *)
Chains == UNION {[1..n -> Blocks] : n \in 0..MaxHeight}

ProofsOf(block) == {Proof[w] : w \in block}

(* Every proof a chain has paid for. *)
Credited(chain) == UNION {ProofsOf(chain[h]) : h \in DOMAIN chain}

WorksOf(chain) == UNION {chain[h] : h \in DOMAIN chain}

-----------------------------------------------------------------------------
(* Selection. *)

(* Preselection order: the higher score first, then the canonical order of
   the keys; scores of distinct works are distinct here. *)
Before(v, w) == Score[v] > Score[w]

(* The candidates above the floor whose proof is not paid for yet, the best
   of each proof, the first KMax of those, and of these the ones whose tag
   the builder accepts. *)
Selection(candidates, tag, chain) ==
    LET open == {w \in candidates : Score[w] >= MinScore /\ Proof[w] \notin Credited(chain)}
        distinct == {w \in open : ~ \E v \in open : Before(v, w) /\ Proof[v] = Proof[w]}
        first == {w \in distinct : Cardinality({v \in distinct : Before(v, w)}) < KMax}
    IN {w \in first : Tag[w] = tag}

(* A block needs a selected share below the block target. *)
HasProposer(block) == \E w \in block : Score[w] >= BlockScore

-----------------------------------------------------------------------------
(* Replay and fork choice. *)

(* Strict replay: every block has a proposer, selects at most KMax shares
   above the floor, and no proof is paid for twice, in a block or across. *)
ReplayOk(chain) ==
    /\ \A h \in DOMAIN chain :
          /\ HasProposer(chain[h])
          /\ Cardinality(chain[h]) <= KMax
          /\ \A w \in chain[h] : Score[w] >= MinScore
          /\ \A v, w \in chain[h] : Proof[v] = Proof[w] => v = w
    /\ \A g, h \in DOMAIN chain : g # h => ProofsOf(chain[g]) \cap ProofsOf(chain[h]) = {}

Weight(chain) ==
    LET upTo[h \in 0..Len(chain)] == IF h = 0 THEN 0 ELSE upTo[h - 1] + Difficulty(chain[h])
    IN upTo[Len(chain)]

(* The candidate displaces the current chain: more work, or the same work
   and the lower head hash; the same head never displaces itself. *)
ChooseCandidate(current, candidate) ==
    /\ candidate # <<>>
    /\ candidate # current
    /\ \/ current = <<>>
       \/ Weight(candidate) > Weight(current)
       \/ Weight(candidate) = Weight(current) /\ HashRank(candidate) < HashRank(current)

(* Whether a chain is another one cut off at some height. *)
PrefixOf(short, long) ==
    Len(short) <= Len(long) /\ short = SubSeq(long, 1, Len(short))

=============================================================================
