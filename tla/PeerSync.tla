------------------------------ MODULE PeerSync ------------------------------
(***************************************************************************)
(* The gossip of local nodes: a committed block is announced through a     *)
(* bounded queue per peer, and the sync thread of every node visits its    *)
(* peers in turn, reads a head in the Hello, and pulls blocks within the   *)
(* budget of one round, either to extend its own chain or to weigh a       *)
(* competing one.                                                          *)
(*                                                                         *)
(* A chain is the sequence of its blocks' labels and a block is the chain  *)
(* that ends in it, so that its hash names its ancestry.  Peers follow the *)
(* protocol but change their chains between two replies; every exchange    *)
(* may fail.  What a node does to store a block is in LocalNode.           *)
(***************************************************************************)
EXTENDS Integers, Sequences, SequencesExt, FiniteSetsExt

CONSTANTS
    Nodes,
    PeersOf,        \* [Nodes -> Seq(Nodes)]: the static peers, in their order
    Labels,         \* [Nodes -> the blocks the node can produce on a head]
    Work(_),        \* the difficulty of a block
    Size(_),        \* its encoded bytes
    HashRank(_),    \* the place of a head among all hashes
    PageBlocks,     \* GET_BLOCKS_RANGE_CAP
    FrameBytes,     \* MAX_FRAME_BYTES, without the frame's own overhead
    BlockLimit, ByteLimit, ResponseLimit,   \* the budget of a round
    HelloBytes,
    QueueCap,       \* EGRESS_QUEUE_CAPACITY
    MaxHeight,      \* bound of the model: the length of a chain
    MaxFaults       \* bound of the model: rounds that fail

(* The blocks of any node, and the chains of the model. *)
AllLabels == UNION {Labels[n] : n \in Nodes}
Chains == SeqOf(AllLabels, MaxHeight)

(* The sync thread runs in a node with peers only.  Every block has work, which
   fork choice adds up without a limit, and a hash, which breaks a tie. *)
ASSUME SyncAssumption ==
    /\ DOMAIN PeersOf = Nodes /\ DOMAIN Labels = Nodes
    /\ \A n \in Nodes : PeersOf[n] \in Seq(Nodes) /\ PeersOf[n] # <<>>
    /\ \A l \in AllLabels : Work(l) \in Nat \ {0} /\ Size(l) \in Nat
    /\ \A c \in Chains : HashRank(c) \in Nat
    /\ {PageBlocks, BlockLimit, ByteLimit, ResponseLimit} \subseteq Nat \ {0}
    /\ {FrameBytes, HelloBytes, QueueCap, MaxHeight, MaxFaults} \subseteq Nat
    /\ HelloBytes <= ByteLimit

VARIABLES
    chain,    \* [Nodes -> chain]
    queue,    \* [Nodes -> [peer -> Seq(block)]]: announcements to send
    round,    \* [Nodes -> the sync round under way, or Idle]
    turn,     \* [Nodes -> index into PeersOf]
    seen,     \* [Nodes -> [peer -> head or NoHead]]: bootstrap readiness
    faults

vars == <<chain, queue, round, turn, seen, faults>>

Idle == [mode |-> "idle"]
NoHead == <<0>>      \* 0 labels no block
Peers(n) == ToSet(PeersOf[n])

-----------------------------------------------------------------------------
(* Fork choice and pages. *)

Weight(c) ==
    LET upTo[i \in 0..Len(c)] == IF i = 0 THEN 0 ELSE upTo[i - 1] + Work(c[i])
    IN upTo[Len(c)]

(* More work, or the smaller hash at equal work. *)
Better(c, d) ==
    \/ Weight(c) > Weight(d)
    \/ Weight(c) = Weight(d) /\ HashRank(c) < HashRank(d)

BlocksFrom(c, from, count) ==
    [i \in 1..Min({count, Len(c) - from}) |-> SubSeq(c, 1, from + i)]

Bytes(blocks) ==
    LET upTo[i \in 0..Len(blocks)] == IF i = 0 THEN 0 ELSE upTo[i - 1] + Size(Last(blocks[i]))
    IN upTo[Len(blocks)]

(* The longest prefix of the range that fits a frame; a range above the head
   is empty. *)
Page(c, from, count) ==
    IF from >= Len(c) THEN <<>>
    ELSE LET range == BlocksFrom(c, from, count)
             fits == {k \in 0..Len(range) : Bytes(SubSeq(range, 1, k)) <= FrameBytes}
         IN SubSeq(range, 1, Max(fits))

-----------------------------------------------------------------------------
Init ==
    /\ chain = [n \in Nodes |-> <<>>]
    /\ queue = [n \in Nodes |-> [p \in Peers(n) |-> <<>>]]
    /\ round = [n \in Nodes |-> Idle]
    /\ turn = [n \in Nodes |-> 1]
    /\ seen = [n \in Nodes |-> [p \in Peers(n) |-> NoHead]]
    /\ faults = MaxFaults

TrySend(q, block) == IF Len(q) < QueueCap THEN Append(q, block) ELSE q

(* A local block is committed and announced to every peer whose queue has a
   place; a full queue sheds it. *)
Produce(n, label) ==
    /\ Len(chain[n]) < MaxHeight
    /\ LET block == Append(chain[n], label)
       IN /\ chain' = [chain EXCEPT ![n] = block]
          /\ queue' = [queue EXCEPT ![n] = [p \in Peers(n) |-> TrySend(@[p], block)]]
    /\ UNCHANGED <<round, turn, seen, faults>>

Extends(block, c) == block # <<>> /\ Front(block) = c

(* The receiver pulls an announced block that is next to its own head and
   ingests it; another is ignored.  Ingested blocks are not announced again. *)
Announce(n, p) ==
    /\ queue[n][p] # <<>>
    /\ chain' = [chain EXCEPT ![p] = IF Extends(Head(queue[n][p]), @) THEN Head(queue[n][p]) ELSE @]
    /\ queue' = [queue EXCEPT ![n][p] = Tail(@)]
    /\ UNCHANGED <<round, turn, seen, faults>>

(* The peer cannot be reached: the announcement is dropped. *)
LoseAnnounce(n, p) ==
    /\ queue[n][p] # <<>>
    /\ queue' = [queue EXCEPT ![n][p] = Tail(@)]
    /\ UNCHANGED <<chain, round, turn, seen, faults>>

-----------------------------------------------------------------------------
(* The sync round. *)

Partner(n) == PeersOf[n][turn[n]]

(* The observation a round leaves: only a head that is the node's own now. *)
Observed_Own(n, clean, head) == IF clean THEN chain'[n] ELSE NoHead
Observed(n, clean, head) == IF clean /\ head = chain'[n] THEN head ELSE NoHead

(* The round is over, cleanly or not; the loop turns to the next peer. *)
EndRound(n, clean, head) ==
    /\ seen' = [seen EXCEPT ![n][Partner(n)] = Observed(n, clean, head)]
    /\ round' = [round EXCEPT ![n] = Idle]
    /\ turn' = [turn EXCEPT ![n] = (@ % Len(PeersOf[n])) + 1]
    /\ UNCHANGED queue

(* The Hello is charged as one response; an observation it contradicts is
   dropped at once. *)
Dial(n) ==
    /\ round[n] = Idle
    /\ LET head == chain[Partner(n)]
       IN /\ round' = [round EXCEPT ![n] =
                [mode |-> "extend", head |-> head, probe |-> TRUE, batch |-> <<>>, got |-> <<>>,
                 blocks |-> 0, bytes |-> HelloBytes, responses |-> 1]]
          /\ seen' = [seen EXCEPT ![n][Partner(n)] = IF head = chain[n] THEN @ ELSE NoHead]
    /\ UNCHANGED <<chain, queue, turn, faults>>

(* No connection, a broken frame, the deadline, a checker that is away, lost
   write authority. *)
RoundFails(n) ==
    /\ faults > 0
    /\ faults' = faults - 1
    /\ UNCHANGED chain
    /\ EndRound(n, FALSE, NoHead)

RemainingBlocks_NoProbe(r) == BlockLimit - r.blocks - 1
RemainingBlocks(r) == BlockLimit - r.blocks

BeforeReceive(r) ==
    r.blocks < BlockLimit /\ r.bytes < ByteLimit /\ r.responses < ResponseLimit

Charged(r, page) ==
    [r EXCEPT !.blocks = @ + Len(page), !.bytes = @ + 1 + Bytes(page), !.responses = @ + 1]

(* A reply is used when the round can pay for all of it. *)
Affordable(r) == r.blocks <= BlockLimit /\ r.bytes <= ByteLimit /\ r.responses <= ResponseLimit

(* The connected peer answers GetBlocks from the chain it has now. *)
Reply(n, from, count) == Page(chain[Partner(n)], from, count)

CanPay(n, page) == BeforeReceive(round[n]) /\ Affordable(Charged(round[n], page))

GiveUp(n) == UNCHANGED chain /\ EndRound(n, FALSE, NoHead)

Leave(n, r) == round' = [round EXCEPT ![n] = r] /\ UNCHANGED <<chain, queue, turn, seen>>

Extending(n) == round[n].mode = "extend" /\ round[n].batch = <<>>

(* Both heads are equal. *)
InSync(n) ==
    /\ Extending(n)
    /\ chain[n] = round[n].head
    /\ UNCHANGED <<chain, faults>>
    /\ EndRound(n, TRUE, round[n].head)

(* A competing chain that does not fit what is left of the round is not
   downloaded. *)
Compete(n) ==
    IF Len(round[n].head) > RemainingBlocks(round[n])
    THEN GiveUp(n)
    ELSE Leave(n, [round[n] EXCEPT !.mode = "fork", !.batch = <<>>])

(* The peer is not higher: its chain may still have more work. *)
NotHigher(n) ==
    /\ Extending(n)
    /\ chain[n] # round[n].head
    /\ Len(chain[n]) >= Len(round[n].head)
    /\ Compete(n)
    /\ UNCHANGED faults

(* The peer is higher: ask for the next blocks, for one only the first time. *)
Pull(n) ==
    /\ Extending(n)
    /\ Len(chain[n]) < Len(round[n].head)
    /\ LET r == round[n]
           count == Min({Len(r.head) - Len(chain[n]), PageBlocks, RemainingBlocks(r)}
                           \cup (IF r.probe THEN {1} ELSE {}))
           page == Reply(n, Len(chain[n]), count)
       IN CASE ~ CanPay(n, page) -> GiveUp(n)
            [] CanPay(n, page) /\ page = <<>> -> UNCHANGED chain /\ EndRound(n, TRUE, r.head)
            [] OTHER -> Leave(n, [Charged(r, page) EXCEPT !.batch = page, !.probe = FALSE])
    /\ UNCHANGED faults

(* Every block goes through the ingest of an announced one; the first that
   does not extend the head turns the round to the competing chain. *)
Ingest(n) ==
    /\ round[n].mode = "extend" /\ round[n].batch # <<>>
    /\ LET block == Head(round[n].batch)
       IN IF Extends(block, chain[n])
          THEN /\ chain' = [chain EXCEPT ![n] = block]
               /\ round' = [round EXCEPT ![n].batch = Tail(@)]
               /\ UNCHANGED <<queue, turn, seen>>
          ELSE Compete(n)
    /\ UNCHANGED faults

PullFork(n) ==
    /\ round[n].mode = "fork"
    /\ Len(round[n].got) < Len(round[n].head)
    /\ LET r == round[n]
           count == Min({Len(r.head) - Len(r.got), PageBlocks, RemainingBlocks(r)})
           page == Reply(n, Len(r.got), count)
       IN CASE ~ CanPay(n, page) -> GiveUp(n)
            [] CanPay(n, page) /\ page = <<>> ->
                 UNCHANGED chain /\ EndRound(n, r.got = <<>>, r.head)
            [] OTHER -> Leave(n, [Charged(r, page) EXCEPT !.got = @ \o page])
    /\ UNCHANGED faults

LabelsOf(blocks) == [i \in DOMAIN blocks |-> Last(blocks[i])]

(* The candidate is complete, ends in the advertised head, and replays, which
   makes every block the parent of the next. *)
Linked(blocks, head) ==
    /\ Len(blocks) = Len(head)
    /\ Last(blocks) = head
    /\ \A i \in DOMAIN blocks : blocks[i] = SubSeq(head, 1, i)

Preferred_Higher(c, d) == Len(c) > Len(d)
Preferred(c, d) == Better(c, d)

(* The fork choice is made against the chain the node has by now. *)
Adopt(n) ==
    /\ round[n].mode = "fork"
    /\ Len(round[n].got) >= Len(round[n].head)
    /\ LET r == round[n] IN
       CASE r.head = <<>> -> UNCHANGED chain /\ EndRound(n, TRUE, r.head)
         [] r.head # <<>> /\ ~ Linked(r.got, r.head) -> GiveUp(n)
         [] OTHER ->
              /\ chain' = [chain EXCEPT ![n] =
                             IF Preferred(LabelsOf(r.got), @) THEN LabelsOf(r.got) ELSE @]
              /\ EndRound(n, TRUE, r.head)
    /\ UNCHANGED faults

SyncStep(n) ==
    Dial(n) \/ InSync(n) \/ NotHigher(n) \/ Pull(n) \/ Ingest(n) \/ PullFork(n) \/ Adopt(n)

Next ==
    \E n \in Nodes :
        \/ \E label \in Labels[n] : Produce(n, label)
        \/ \E p \in Peers(n) : Announce(n, p) \/ LoseAnnounce(n, p)
        \/ RoundFails(n)
        \/ SyncStep(n)

Spec == Init /\ [][Next]_vars

(* The sync thread polls for ever; announcements are owed nothing.  Some step
   of a round is possible in every state, so this is weak fairness. *)
FairSpec == Spec /\ \A n \in Nodes : []<><<SyncStep(n)>>_vars

-----------------------------------------------------------------------------
(* Properties. *)

IsChain(c) == \A i \in DOMAIN c : \E n \in Nodes : c[i] \in Labels[n]

(* The variables have the shapes the structures of the node give them. *)
TypeOK ==
    /\ \A n \in Nodes :
          /\ IsChain(chain[n]) /\ Len(chain[n]) <= MaxHeight
          /\ turn[n] \in DOMAIN PeersOf[n]
          /\ round[n] # Idle => Affordable(round[n])
          /\ \A p \in Peers(n) : Len(queue[n][p]) <= QueueCap
    /\ faults \in 0..MaxFaults

(* A node moves only to a block on top of its own head or to a head its sync
   partner advertised that wins the fork choice against the chain it has at
   that moment: a peer that reorganises between two replies cannot leave it
   with a mixture, nor a slow download with a chain that lost meanwhile. *)
ForkChoice ==
    [][\A n \in Nodes : chain'[n] # chain[n] =>
          \/ Extends(chain'[n], chain[n])
          \/ round[n] # Idle /\ chain'[n] = round[n].head /\ Better(chain'[n], chain[n])]_vars

(* What readiness has observed of a peer was the peer's head, and the peer
   has since only improved on it. *)
ObservationsTrue ==
    \A n \in Nodes : \A p \in Peers(n) :
        seen[n][p] # NoHead => chain[p] = seen[n][p] \/ Better(chain[p], seen[n][p])

Ready(n) == \A p \in Peers(n) : seen[n][p] = chain[n]

(* Once nothing is produced any more, all the nodes hold one chain and every
   node reports ready, whatever announcements and rounds were lost. *)
Converges == <>[](\A n \in Nodes : Ready(n) /\ \A p \in Peers(n) : chain[n] = chain[p])

(* Rounds are sound: queues and budgets hold, and readiness rests on true
   observations. *)
RoundsSound == TypeOK /\ ObservationsTrue

=============================================================================
