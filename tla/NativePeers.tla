----------------------------- MODULE NativePeers -----------------------------
(***************************************************************************)
(* The synchronisation rounds of crates/boole-node/src/native_peers.rs     *)
(* between the nodes of a fixed set of peers.  A link is one outgoing      *)
(* worker: a pair of the node that asks and the node that serves.  A round *)
(* is a conversation of one request and one response at a time; between    *)
(* any two of its steps either node may mine a block, take part in another *)
(* round, or restart.  The node lock is held for one step at a time, which *)
(* makes every step atomic; NativeNode shows what is inside a publication. *)
(*                                                                         *)
(* A head (height and hash) is the block it names.  The exchange of        *)
(* pending transfers at the end of a round is not part of this module.     *)
(***************************************************************************)
EXTENDS NativeForks

CONSTANTS
    Nodes,         \* the configured peers
    Links,         \* the outgoing workers: pairs of client and server
    None,          \* no message, no declined fork
    RoundBlocks,   \* MAX_NATIVE_PEER_ROUND_BLOCKS: 256 in the code
    BlockPage,     \* BLOCK_PAGE: 16 in the code
    MaxRequests,   \* MAX_REQUESTS: 64 in the code
    MaxFaults      \* bound: broken connections and restarts in a behaviour

ASSUME PeersAssumption ==
    /\ Links \subseteq Nodes \X Nodes
    /\ RoundBlocks \in Nat \ {0} /\ BlockPage \in Nat \ {0}
    /\ RoundBlocks <= RecentForkBlocks
    /\ MaxRequests \in Nat /\ MaxFaults \in Nat

VARIABLES
    chain,       \* of each node: the blocks and the floor of the undo window
    stage,       \* of each link: where synchronize is
    round,       \* of each link: the local variables of synchronize
    wire,        \* of each link: the message on the connection
    advertised,  \* of each link: the head serve_round advertised
    declined,    \* of each link: the last verified fork that lost
    faults       \* auxiliary: faults so far

vars == <<chain, stage, round, wire, advertised, declined, faults>>

StageNames == {"wait", "hello", "search", "download", "apply", "collected"}

HeightOf(h) == Len(ChainTo[h])
NodeHead(n) == HeadOf(chain[n].blocks)
Client(l) == l[1]
Server(l) == l[2]

\* No round: the locals are gone with the worker's stack.
NoRound ==
    [original |-> Genesis, earliest |-> 0, remote |-> Genesis, low |-> 0, high |-> 0,
     current |-> Genesis, next |-> 0, target |-> 0, page |-> <<>>, fork |-> <<>>,
     requests |-> 0]

Init ==
    /\ chain = [n \in Nodes |-> NoChain]
    /\ stage = [l \in Links |-> "wait"]
    /\ round = [l \in Links |-> NoRound]
    /\ wire = [l \in Links |-> None]
    /\ advertised = [l \in Links |-> Genesis]
    /\ declined = [l \in Links |-> None]
    /\ faults = 0

-----------------------------------------------------------------------------
(* Moving a round along.                                                   *)

\* The client goes on with locals r, and puts message m on the connection.
Continue(l, next, r, m) ==
    /\ stage' = [stage EXCEPT ![l] = next]
    /\ round' = [round EXCEPT ![l] = r]
    /\ wire' = [wire EXCEPT ![l] = m]

\* The round is over, well or not: Done is sent or the connection is dropped.
EndRound(l) ==
    /\ Continue(l, "wait", NoRound, None)
    /\ advertised' = [advertised EXCEPT ![l] = Genesis]

\* Round::request: the limit is checked before anything is sent.
Request(l, next, r, m) ==
    IF r.requests < MaxRequests
    THEN /\ Continue(l, next, [r EXCEPT !.requests = @ + 1], m)
         /\ UNCHANGED advertised
    ELSE EndRound(l)

\* "native local snapshot changed" otherwise.
LocalUnchanged(l, head) == NodeHead(Client(l)) = head

\* Mutated form: the server answers from whatever its chain is by then.
SnapshotCurrent_Unchecked(l) == TRUE

\* serve_round: snapshot == advertised && head(node.chain()) == snapshot.
SnapshotCurrent(l) ==
    wire[l].snapshot = advertised[l] /\ NodeHead(Server(l)) = advertised[l]

-----------------------------------------------------------------------------
(* The conversation.                                                       *)

\* synchronize up to its hello: the local snapshot is taken under the lock.
StartRound(l) ==
    /\ stage[l] = "wait"
    /\ Request(l, "hello",
               [NoRound EXCEPT !.original = NodeHead(Client(l)),
                               !.current = NodeHead(Client(l)),
                               !.earliest = chain[Client(l)].floor],
               [type |-> "hello"])
    /\ UNCHANGED <<chain, declined, faults>>

\* serve_round up to its loop: the greeting advertises one head.
ServeHello(l) ==
    /\ wire[l] # None /\ wire[l].type = "hello"
    /\ advertised' = [advertised EXCEPT ![l] = NodeHead(Server(l))]
    /\ wire' = [wire EXCEPT ![l] = [type |-> "head", head |-> NodeHead(Server(l))]]
    /\ UNCHANGED <<chain, stage, round, declined, faults>>

\* A pair of heads that already lost is not downloaded again.
Known(l, remote) ==
    declined[l] = [local |-> round[l].original, remote |-> remote]

\* synchronize after the hello: skip, agree, or search for the common height.
\* A skipped round reads the local head again and ends either way.
HelloAnswered(l) ==
    /\ stage[l] = "hello" /\ wire[l] # None /\ wire[l].type = "head"
    /\ LET remote == wire[l].head
           r      == round[l]
           top    == IF HeightOf(r.original) < HeightOf(remote)
                     THEN HeightOf(r.original) ELSE HeightOf(remote)
       IN  IF Known(l, remote)
           THEN EndRound(l) /\ UNCHANGED declined
           ELSE /\ declined' = [declined EXCEPT ![l] = None]
                /\ IF remote = r.original
                   THEN EndRound(l)
                   ELSE /\ Continue(l, "search", [r EXCEPT !.remote = remote, !.high = top], None)
                        /\ UNCHANGED advertised
    /\ UNCHANGED <<chain, faults>>

\* Mutated form: the midpoint rounds down.
Midpoint_RoundsDown(r) == r.low + (r.high - r.low) \div 2

\* The midpoint rounds up, so that low can reach it.
Midpoint(r) == r.low + (r.high - r.low + 1) \div 2

AskHash(l) ==
    /\ stage[l] = "search" /\ wire[l] = None /\ round[l].low < round[l].high
    /\ Request(l, "search", round[l],
               [type |-> "getHash", snapshot |-> round[l].remote, height |-> Midpoint(round[l])])
    /\ UNCHANGED <<chain, declined, faults>>

\* chain_hash
HashAt(n, height) == IF height = 0 THEN Genesis ELSE chain[n].blocks[height]

\* GetHash in serve_round; a refusal drops the connection.
ServeHash(l) ==
    /\ wire[l] # None /\ wire[l].type = "getHash"
    /\ IF SnapshotCurrent(l) /\ wire[l].height <= Len(chain[Server(l)].blocks)
       THEN /\ wire' = [wire EXCEPT ![l] = [type |-> "hash", height |-> wire[l].height,
                                            hash |-> HashAt(Server(l), wire[l].height)]]
            /\ UNCHANGED <<stage, round, advertised>>
       ELSE EndRound(l)
    /\ UNCHANGED <<chain, declined, faults>>

\* One turn of the binary search, against the chain the round began with.
HashAnswered(l) ==
    /\ stage[l] = "search" /\ wire[l] # None /\ wire[l].type = "hash"
    /\ LET r == round[l]
           h == wire[l].height
       IN  IF LocalUnchanged(l, r.original) /\ h <= Len(chain[Client(l)].blocks)
           THEN /\ Continue(l, "search",
                            IF HashAt(Client(l), h) = wire[l].hash
                            THEN [r EXCEPT !.low = h] ELSE [r EXCEPT !.high = h - 1],
                            None)
                /\ UNCHANGED advertised
           ELSE EndRound(l)
    /\ UNCHANGED <<chain, declined, faults>>

Extension(r) == r.low = HeightOf(r.original)

\* bounded_reorg_requires_recovery
TooDeep(r) ==
    /\ ~ Extension(r)
    /\ HeightOf(r.remote) - r.low > RoundBlocks \/ r.low < r.earliest

\* The common height is known: give up, or fix what this round downloads.
SearchDone(l) ==
    /\ stage[l] = "search" /\ wire[l] = None /\ round[l].low = round[l].high
    /\ LET r      == round[l]
           height == HeightOf(r.remote)
           target == IF height < r.low + RoundBlocks THEN height ELSE r.low + RoundBlocks
       IN  IF TooDeep(r)
           THEN EndRound(l)
           ELSE /\ Continue(l, "download", [r EXCEPT !.next = r.low + 1, !.target = target], None)
                /\ UNCHANGED advertised
    /\ UNCHANGED <<chain, declined, faults>>

AskBlocks(l) ==
    /\ stage[l] = "download" /\ wire[l] = None /\ round[l].next <= round[l].target
    /\ LET left == round[l].target - round[l].next + 1
       IN  Request(l, "download", round[l],
                   [type |-> "getBlocks", snapshot |-> round[l].remote, from |-> round[l].next,
                    limit |-> IF left < BlockPage THEN left ELSE BlockPage])
    /\ UNCHANGED <<chain, declined, faults>>

\* GetBlocks in serve_round: the byte limit may shorten a page to any length
\* but zero.
ServeBlocks(l) ==
    /\ wire[l] # None /\ wire[l].type = "getBlocks"
    /\ LET from == wire[l].from
           last == from + wire[l].limit - 1
           c    == chain[Server(l)].blocks
       IN  IF SnapshotCurrent(l) /\ from <= Len(c)
           THEN /\ \E to \in from .. (IF last < Len(c) THEN last ELSE Len(c)) :
                     wire' = [wire EXCEPT ![l] = [type |-> "blocks", from |-> from,
                                                  blocks |-> SubSeq(c, from, to)]]
                /\ UNCHANGED <<stage, round, advertised>>
           ELSE EndRound(l)
    /\ UNCHANGED <<chain, declined, faults>>

\* A page arrives: an extension applies it, a fork keeps it.
BlocksArrive(l) ==
    /\ stage[l] = "download" /\ wire[l] # None /\ wire[l].type = "blocks"
    /\ LET r == round[l]
           p == wire[l].blocks
       IN  IF Extension(r)
           THEN Continue(l, "apply", [r EXCEPT !.page = p], None)
           ELSE Continue(l, "download", [r EXCEPT !.fork = @ \o p, !.next = @ + Len(p)], None)
    /\ UNCHANGED <<chain, advertised, declined, faults>>

\* NativeNode::submit_block, its checks and what it does.
Accepts(n, b) == Parent[b] = NodeHead(n) /\ Len(chain[n].blocks) < MaxHistoryBlocks

SubmitBlock(n, b) ==
    /\ Accepts(n, b)
    /\ chain' = [chain EXCEPT ![n] = ChainOf(Append(@.blocks, b), @.floor)]

\* One block of an extension, applied durably before the next.
ApplyBlock(l) ==
    /\ stage[l] = "apply" /\ round[l].page # <<>>
    /\ LET r  == round[l]
           b  == Head(r.page)
           ok == LocalUnchanged(l, r.current) /\ Accepts(Client(l), b)
       IN  \/ /\ ok
              /\ SubmitBlock(Client(l), b)
              /\ Continue(l, "apply",
                          [r EXCEPT !.page = Tail(@), !.next = @ + 1, !.current = b], None)
              /\ UNCHANGED advertised
           \/ /\ ~ ok
              /\ EndRound(l)
              /\ UNCHANGED chain
    /\ UNCHANGED <<declined, faults>>

\* The page is applied.
PageDone(l) ==
    /\ stage[l] = "apply" /\ round[l].page = <<>>
    /\ Continue(l, "download", round[l], None)
    /\ UNCHANGED <<chain, advertised, declined, faults>>

\* The download is complete.  An extension, or a server that is behind, ends
\* here; a fork has its last block compared with the advertised head.
DownloadDone(l) ==
    /\ stage[l] = "download" /\ wire[l] = None /\ round[l].next > round[l].target
    /\ LET r == round[l]
       IN  IF ~ Extension(r) /\ r.fork # <<>> /\ Last(r.fork) = r.remote
           THEN Continue(l, "collected", r, None) /\ UNCHANGED advertised
           ELSE EndRound(l)
    /\ UNCHANGED <<chain, declined, faults>>

\* adopt_recent_suffix accepts the fork as a chain on the local prefix.
Adoptable(n, common, fork) ==
    /\ Len(fork) \in 1 .. RecentForkBlocks /\ common + Len(fork) <= MaxHistoryBlocks
    /\ chain[n].floor <= common /\ common <= Len(chain[n].blocks)
    /\ SubSeq(chain[n].blocks, 1, common) \o fork = ChainTo[Last(fork)]

\* The fork is adopted if it outranks the local chain; the memory of one that
\* lost spares the next rounds its download.
ApplyFork(l) ==
    /\ stage[l] = "collected"
    /\ LET r == round[l]
           n == Client(l)
           c == ChainTo[Last(r.fork)]
       IN  IF LocalUnchanged(l, r.original) /\ Adoptable(n, r.low, r.fork)
           THEN IF Outranks(c, chain[n].blocks)
                THEN /\ chain' = [chain EXCEPT ![n] = ChainOf(c, @.floor)]
                     /\ UNCHANGED declined
                ELSE /\ declined' = [declined EXCEPT
                                       ![l] = [local |-> r.original, remote |-> r.remote]]
                     /\ UNCHANGED chain
           ELSE UNCHANGED <<chain, declined>>
    /\ EndRound(l)
    /\ UNCHANGED faults

-----------------------------------------------------------------------------
(* What else happens to a node.                                            *)

\* A miner's block, through RPC.
Mine(n, b) ==
    /\ SubmitBlock(n, b)
    /\ UNCHANGED <<stage, round, wire, advertised, declined, faults>>

\* A connection breaks or a deadline passes, at any point of a round.
RoundFails(l) ==
    /\ faults < MaxFaults /\ faults' = faults + 1
    /\ stage[l] # "wait"
    /\ EndRound(l)
    /\ UNCHANGED <<chain, declined>>

\* A node restarts: its chain is replayed, its rounds and memories are gone.
Restart(n) ==
    /\ faults < MaxFaults /\ faults' = faults + 1
    /\ chain' = [chain EXCEPT ![n] = ChainOf(@.blocks, 0)]
    /\ LET cut == {l \in Links : n \in {Client(l), Server(l)}}
       IN  /\ stage' = [l \in Links |-> IF l \in cut THEN "wait" ELSE stage[l]]
           /\ round' = [l \in Links |-> IF l \in cut THEN NoRound ELSE round[l]]
           /\ wire' = [l \in Links |-> IF l \in cut THEN None ELSE wire[l]]
           /\ advertised' = [l \in Links |-> IF l \in cut THEN Genesis ELSE advertised[l]]
    /\ declined' = [l \in Links |-> IF Client(l) = n THEN None ELSE declined[l]]

RoundStep(l) ==
    \/ StartRound(l) \/ ServeHello(l) \/ HelloAnswered(l)
    \/ AskHash(l) \/ ServeHash(l) \/ HashAnswered(l) \/ SearchDone(l)
    \/ AskBlocks(l) \/ ServeBlocks(l) \/ BlocksArrive(l)
    \/ ApplyBlock(l) \/ PageDone(l) \/ DownloadDone(l) \/ ApplyFork(l)

Next ==
    \/ \E l \in Links : RoundStep(l) \/ RoundFails(l)
    \/ \E n \in Nodes, b \in Blocks : Mine(n, b)
    \/ \E n \in Nodes : Restart(n)

\* A worker retries after a bounded delay and every wait of a round has a
\* deadline; nothing is assumed of miners.
Fairness == \A l \in Links : WF_vars(RoundStep(l))

Spec == Init /\ [][Next]_vars /\ Fairness

-----------------------------------------------------------------------------
(* Properties.                                                             *)

RoundType ==
    [original : Heads, earliest : Nat, remote : Heads, low : Nat, high : Nat,
     current : Heads, next : Nat, target : Nat, page : Seq(Blocks), fork : Seq(Blocks),
     requests : 0 .. MaxRequests]

Messages ==
    {None, [type |-> "hello"]}
    \cup [type : {"head"}, head : Heads]
    \cup [type : {"getHash"}, snapshot : Heads, height : Nat]
    \cup [type : {"hash"}, height : Nat, hash : Heads]
    \cup [type : {"getBlocks"}, snapshot : Heads, from : Nat \ {0}, limit : 1 .. BlockPage]
    \cup [type : {"blocks"}, from : Nat \ {0}, blocks : Seq(Blocks) \ {<<>>}]

\* Every chain is the chain of its head, every round stays within its request
\* limit, and every message is one the other side can parse.
TypeOK ==
    /\ chain \in [Nodes -> [blocks : Seq(Blocks), floor : Nat]]
    /\ \A n \in Nodes : chain[n].blocks = ChainTo[NodeHead(n)]
    /\ stage \in [Links -> StageNames]
    /\ round \in [Links -> RoundType]
    /\ wire \in [Links -> Messages]
    /\ advertised \in [Links -> Heads]
    /\ declined \in [Links -> {None} \cup [local : Heads, remote : Heads]]
    /\ faults \in 0 .. MaxFaults

\* The height the binary search ends with is the height of the last block the
\* two advertised chains share, although either node may have mined or
\* reorganised between two answers.
CommonExact ==
    \A l \in Links : stage[l] \in {"download", "apply", "collected"} =>
        round[l].low = CommonPrefixLen(ChainTo[round[l].original], ChainTo[round[l].remote])

\* A fork put together from several pages is a piece of the one chain the
\* server advertised, never of two of its forks.
ForkPure ==
    \A l \in Links :
        LET r == round[l]
        IN  r.fork # <<>> => r.fork = SubSeq(ChainTo[r.remote], r.low + 1, r.next - 1)

\* A fork worth downloading can be adopted: when the local chain has not moved,
\* the undo window still reaches the common height.
ForkReachable ==
    \A l \in Links :
        stage[l] = "collected" /\ NodeHead(Client(l)) = round[l].original =>
            Adoptable(Client(l), round[l].low, round[l].fork)

\* The memory of declined forks spares work and never hides a better chain: a
\* remembered pair is one in which the local chain is preferred.
DeclinedSound ==
    \A l \in Links : declined[l] # None =>
        ~ Preferred(ChainTo[declined[l].remote], ChainTo[declined[l].local])

\* Whatever peers, miners and restarts do, a node only moves to a chain that is
\* preferred to the one it leaves.
RanksGrow ==
    [][\A n \in Nodes : chain'[n].blocks # chain[n].blocks =>
           Preferred(chain'[n].blocks, chain[n].blocks)]_vars

\* The disagreement bounded_reorg_requires_recovery reports: the fork begins
\* below the undo window or is longer than a round may carry.
NeedsRecovery(l) ==
    LET mine   == chain[Client(l)].blocks
        theirs == chain[Server(l)].blocks
        common == CommonPrefixLen(mine, theirs)
    IN  /\ common < Len(mine)
        /\ Len(theirs) - common > RoundBlocks \/ common < chain[Client(l)].floor

\* Synchronisation settles: once mining stops no node stays behind a peer it
\* asks, except where the documented recovery by an archive is needed.
Settles ==
    <>[](\A l \in Links :
            Preferred(chain[Server(l)].blocks, chain[Client(l)].blocks) => NeedsRecovery(l))

\* A round is sound although both chains move under it: the common height and
\* the fork are those of the advertised chains, a fork worth the download can
\* be adopted, and what was declined was no better.
RoundSound == TypeOK /\ CommonExact /\ ForkPure /\ ForkReachable /\ DeclinedSound

=============================================================================
