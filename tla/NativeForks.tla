----------------------------- MODULE NativeForks -----------------------------
(***************************************************************************)
(* Chains and fork choice of crates/boole-core/src/native_chain.rs, shared *)
(* by the modules of one node and of several.  A block is an element of    *)
(* Blocks with a fixed parent, weight and hash rank, so a chain is the     *)
(* sequence of its blocks and is known by its last one.  Header syntax,    *)
(* proof of work, timestamps and signatures are part of what it means to   *)
(* be in Blocks.                                                           *)
(***************************************************************************)
EXTENDS Integers, Sequences, FiniteSets, SequencesExt

CONSTANTS
    Blocks,            \* the blocks anyone may offer
    Genesis,           \* the parent of the first blocks
    Parent, Work,      \* the parent and the weight of each block
    HashRank,          \* the order of the block hashes, genesis included
    MaxHistoryBlocks,  \* MAX_NATIVE_HISTORY_BLOCKS: 100 000 in the code
    RecentForkBlocks   \* NATIVE_RECENT_FORK_BLOCKS: 256 in the code

\* A head: the hash of the last block stands for the chain below it.
Heads == Blocks \cup {Genesis}

ASSUME ForkAssumption ==
    /\ Genesis \notin Blocks
    /\ Parent \in [Blocks -> Heads]
    /\ Work \in [Blocks -> Nat \ {0}]
    /\ HashRank \in [Heads -> Nat]
    /\ \A b, c \in Heads : HashRank[b] = HashRank[c] => b = c
    /\ MaxHistoryBlocks \in Nat
    /\ RecentForkBlocks \in Nat

\* The only sequence of parents that ends in b.
ChainTo[b \in Heads] ==
    IF b = Genesis THEN <<>> ELSE Append(ChainTo[Parent[b]], b)

\* Parents lead to genesis, so that ChainTo is defined: the hash of a block covers
\* the hash of its parent.
ASSUME AncestryAssumption ==
    /\ ChainTo \in [Heads -> Seq(Blocks)]
    /\ ChainTo[Genesis] = <<>>
    /\ \A b \in Blocks : ChainTo[b] = Append(ChainTo[Parent[b]], b)

\* NativeChain::head_hash
HeadOf(c) == IF c = <<>> THEN Genesis ELSE Last(c)

CumulativeWork(c) == FoldLeft(LAMBDA sum, b : sum + Work[b], 0, c)

\* Mutated form: a candidate of equal work is adopted whatever its hash.
Outranks_OnTie(c, d) == CumulativeWork(c) >= CumulativeWork(d) /\ c # d

\* NativeChain::outranks
Outranks(c, d) ==
    \/ CumulativeWork(c) > CumulativeWork(d)
    \/ CumulativeWork(c) = CumulativeWork(d) /\ HashRank[HeadOf(c)] < HashRank[HeadOf(d)]

\* The order the properties ask of every adoption: work is never given up, and
\* equal work only for the smaller hash.
Preferred(c, d) ==
    LET gain == CumulativeWork(c) > CumulativeWork(d)
        tie  == CumulativeWork(c) = CumulativeWork(d)
    IN  gain \/ (tie /\ HashRank[HeadOf(c)] < HashRank[HeadOf(d)])

\* NativeChain::commit, once per block: the undo window holds at most
\* RecentForkBlocks records, and starts no earlier than it did.
Floor(previous, c) ==
    IF Len(c) - RecentForkBlocks > previous THEN Len(c) - RecentForkBlocks ELSE previous

\* A verified chain, with the earliest height fork_at can reach.
ChainOf(c, previous_floor) == [blocks |-> c, floor |-> Floor(previous_floor, c)]

NoChain == [blocks |-> <<>>, floor |-> 0]

\* common_prefix_len
CommonPrefixLen(c, d) == Len(LongestCommonPrefix({c, d}))

=============================================================================
