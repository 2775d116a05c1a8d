---------------------------- MODULE SignedRoutes ----------------------------
(***************************************************************************)
(* The signed routes of the local node: sessions are registered and        *)
(* revoked, bounties announced, changed and proved, and blocks promote     *)
(* accepted proofs out of the side pool.                                   *)
(*                                                                         *)
(* Every request carries a nonce of its signer.  A handler burns it first, *)
(* then appends its row to a ledger, and only then changes memory.  The    *)
(* proof route runs its verifier between a read-locked and a write-locked  *)
(* phase.  The bounty ledger interleaves the rows of the routes, which are *)
(* the only record of the registry, with rows derived from the blocks,     *)
(* which every boot and every reorganisation derives again.                *)
(***************************************************************************)
EXTENDS DurableSteps, FiniteSets, SequencesExt

CONSTANTS
    Signers,     \* keys
    Nonces,      \* what a signer can put into a request
    Operators,   \* --operator-signer-pks; empty leaves the routes open
    SessionPks,  \* session keys
    Bounties,    \* bounty ids
    Family,      \* [Bounties -> families]: the domain of a bounty
    Eligible,    \* families whose manifest allows promotion and settlement
    PerBlock,    \* caps.max_shares_per_block
    Artifacts,   \* proofs, by the hash of what the verifier judges
    Good,        \* the ones the verifier accepts
    Slots,       \* bound of the model: proof requests in flight
    MaxBlocks,   \* bound of the model: the length of a chain
    PeerBlocks,  \* bound of the model: the promotions a peer's block may hold
    PeerChains   \* bound of the model: the chains a peer may offer

Shares == Bounties \X Artifacts

ASSUME RoutesAssumption ==
    /\ Operators \subseteq Signers
    /\ Good \subseteq Artifacts
    /\ DOMAIN Family = Bounties
    /\ PerBlock \in Nat \ {0} /\ MaxBlocks \in Nat
    /\ PeerBlocks \subseteq SUBSET Shares

VARIABLES
    up,     \* the process runs
    node,   \* burned, sessions, board, seen, pool, chain, poison, authority
    disk,   \* burned, sessions, log (bounty ledger), blocks
    jobs    \* [Slots -> the proof request being verified, or NoJob]

vars == <<up, node, disk, jobs>>

Free == "free"
NoJob == [state |-> Free]
Statuses == {"open", "solved", "expired", "withdrawn"}
Terminal == {"solved", "expired", "withdrawn"}
NoSession == [owner |-> "none", revoked |-> TRUE]

-----------------------------------------------------------------------------
(* Blocks and their rows. *)

FamilyOf(share) == Family[share[1]]

(* Strict replay of the promotions: eligible families within their caps, and
   no share twice on a chain. *)
ReplayOk(chain) ==
    /\ \A h \in DOMAIN chain : \A s \in chain[h] :
          /\ FamilyOf(s) \in Eligible
          /\ Cardinality({t \in chain[h] : FamilyOf(t) = FamilyOf(s)}) <= PerBlock
    /\ \A g, h \in DOMAIN chain : g # h => chain[g] \cap chain[h] = {}

Promoted(chain) == UNION {chain[h] : h \in DOMAIN chain}

(* The first shares of every eligible family, in the order they came. *)
Selection(pool) ==
    LET ofFamily(f) == SelectSeq(pool, LAMBDA s : FamilyOf(s) = f)
    IN UNION {{ofFamily(f)[i] : i \in {k \in DOMAIN ofFamily(f) : k <= PerBlock}} : f \in Eligible}

(* A block's credit rows are a function of the same shares and are left out. *)
PromotedRow(share) == [kind |-> "share_promoted", share |-> share]
DerivedRows(block) == [i \in 1..Cardinality(block) |-> PromotedRow(SetToSeq(block)[i])]

IsRouteRow_NoStatus(row) == row.kind \in {"create", "proof"}
IsRouteRow(row) == row.kind # "share_promoted"
RouteRows(log) == SelectSeq(log, IsRouteRow)

(* The route rows in their order, then the rows of every block. *)
RebuiltRows(log, chain) ==
    RouteRows(log) \o FlattenSeq([h \in DOMAIN chain |-> DerivedRows(chain[h])])

-----------------------------------------------------------------------------
(* The registry is what the route rows replay to. *)

EmptyBoard == [ok |-> TRUE, board |-> [b \in Bounties |-> "none"], seen |-> {}]

SolvedBy(accepted, status) == IF accepted THEN "solved" ELSE status

(* A status row that no longer applies is skipped; a proof row on a closed
   bounty makes the boot fail, unless the proof was seen before. *)
ApplyRow(registry, row) ==
    CASE row.kind = "create" /\ registry.board[row.bounty] = "none" ->
            [registry EXCEPT !.board[row.bounty] = "open"]
      [] row.kind = "status_change" /\ registry.board[row.bounty] = "open" ->
            [registry EXCEPT !.board[row.bounty] = row.status]
      [] row.kind = "proof" /\ registry.board[row.share[1]] # "open"
            /\ \A e \in registry.seen : e.share # row.share ->
            [registry EXCEPT !.ok = FALSE]
      [] row.kind = "proof" /\ registry.board[row.share[1]] = "open"
            /\ \A e \in registry.seen : e.share # row.share ->
            [registry EXCEPT
                !.seen = @ \cup {[share |-> row.share, accepted |-> row.accepted]},
                !.board[row.share[1]] = SolvedBy(row.accepted, @)]
      [] OTHER -> registry

Replayed(log) == FoldLeft(ApplyRow, EmptyBoard, log)

(* Accepted proofs without a share_promoted row, in the order of the log. *)
RebuiltPool(log) ==
    LET gone == {log[i].share : i \in {k \in DOMAIN log : log[k].kind = "share_promoted"}}
        rows == SelectSeq(log, LAMBDA row :
                    row.kind = "proof" /\ row.accepted /\ row.share \notin gone)
    IN [i \in DOMAIN rows |-> rows[i].share]

-----------------------------------------------------------------------------
Booted(files) ==
    LET log == RebuiltRows(files.log, files.blocks)
        registry == Replayed(log)
    IN [burned |-> files.burned, sessions |-> files.sessions, board |-> registry.board,
        seen |-> registry.seen, pool |-> RebuiltPool(log), chain |-> files.blocks,
        poison |-> FALSE, authority |-> TRUE]

NoFiles ==
    [burned |-> {}, sessions |-> [k \in SessionPks |-> NoSession], log |-> <<>>, blocks |-> <<>>]

Halted == [Booted(NoFiles) EXCEPT !.authority = FALSE]

Init ==
    /\ up = TRUE
    /\ disk = NoFiles
    /\ node = Booted(NoFiles)
    /\ jobs = [s \in Slots |-> NoJob]

EndsWith(outcome, jobsLeft) ==
    /\ disk' = outcome.disk
    /\ node' = outcome.node
    /\ up' = (outcome.end # "crash")
    /\ jobs' = IF outcome.end = "crash" THEN [s \in Slots |-> NoJob] ELSE jobsLeft

MayWrite == up /\ node.authority
Append1(files, memory) == [disk |-> files, during |-> memory, rewrite |-> FALSE]

(* The nonce is burned, then, if the request is still possible, its ledger
   row is appended, and only then memory shows its effect.  effects holds at
   most one pair: the files with the row and the memory with the effect. *)
Burnt(state, id) == [state EXCEPT !.burned = @ \cup {id}]

Request_EffectFirst(id, effects) ==
    IF effects = {} THEN Outcomes(disk, <<Append1(Burnt(disk, id), node)>>, Burnt(node, id), Halted)
    ELSE UNION {Outcomes(disk,
                   <<Append1(e.disk, node), Append1(Burnt(e.disk, id), e.memory)>>,
                   Burnt(e.memory, id), Halted) : e \in effects}

Request(id, effects) ==
    LET burn == Append1(Burnt(disk, id), node)
    IN IF effects = {} THEN Outcomes(disk, <<burn>>, Burnt(node, id), Halted)
       ELSE UNION {Outcomes(disk, <<burn, Append1(Burnt(e.disk, id), Burnt(node, id))>>,
                            Burnt(e.memory, id), Halted) : e \in effects}

Fresh(signer, nonce) == <<signer, nonce>> \notin node.burned

(* An allowlist of operators restricts the board when it is not empty. *)
MayPublish(signer) == Operators = {} \/ signer \in Operators

Effect(files, memory) == {[disk |-> files, memory |-> memory]}
WithRow(row, memory) == Effect([disk EXCEPT !.log = Append(@, row)], memory)

-----------------------------------------------------------------------------
(* Sessions. *)

SetSession(k, session) ==
    Effect([disk EXCEPT !.sessions[k] = session], [node EXCEPT !.sessions[k] = session])

(* The signer names itself the owner; an active session is not replaced. *)
RegisterSession(signer, k, nonce) ==
    /\ MayWrite
    /\ Fresh(signer, nonce)
    /\ LET effects == IF node.sessions[k].revoked
                      THEN SetSession(k, [owner |-> signer, revoked |-> FALSE]) ELSE {}
       IN \E o \in Request(<<signer, nonce>>, effects) : EndsWith(o, jobs)

RevokeSession(signer, k, nonce) ==
    /\ MayWrite
    /\ Fresh(signer, nonce)
    /\ node.sessions[k].owner = signer
    /\ \E o \in Request(<<signer, nonce>>, SetSession(k, [owner |-> signer, revoked |-> TRUE])) :
          EndsWith(o, jobs)

-----------------------------------------------------------------------------
(* Bounties. *)

Announce(signer, b, nonce) ==
    /\ MayWrite
    /\ Fresh(signer, nonce)
    /\ MayPublish(signer)
    /\ LET row == [kind |-> "create", bounty |-> b, by |-> <<signer, nonce>>]
           effects == IF node.board[b] = "none"
                      THEN WithRow(row, [node EXCEPT !.board[b] = "open"]) ELSE {}
       IN \E o \in Request(<<signer, nonce>>, effects) : EndsWith(o, jobs)

ChangeStatus(signer, b, status, nonce) ==
    /\ MayWrite
    /\ Fresh(signer, nonce)
    /\ node.board[b] # "none"
    /\ MayPublish(signer)
    /\ LET row == [kind |-> "status_change", bounty |-> b, status |-> status, by |-> <<signer, nonce>>]
           effects == IF node.board[b] \notin Terminal
                      THEN WithRow(row, [node EXCEPT !.board[b] = status]) ELSE {}
       IN \E o \in Request(<<signer, nonce>>, effects) : EndsWith(o, jobs)

Seen(share) == \E e \in node.seen : e.share = share

(* Phase 1, under the read lock: a seen proof is answered at once. *)
ProveStart(slot, signer, share, nonce) ==
    /\ up
    /\ jobs[slot] = NoJob
    /\ node.board[share[1]] = "open"
    /\ ~ Seen(share)
    /\ Fresh(signer, nonce)
    /\ jobs' = [jobs EXCEPT ![slot] =
                  [state |-> "verify", signer |-> signer, share |-> share, nonce |-> nonce]]
    /\ UNCHANGED <<up, node, disk>>

(* What the write-locked phase may still record. *)
Recordable_Trusting(share) == TRUE
Recordable(share) == ~ Seen(share) /\ node.board[share[1]] = "open"

ProofEffects(share, accepted, request) ==
    IF ~ Recordable(share) THEN {}
    ELSE WithRow([kind |-> "proof", share |-> share, accepted |-> accepted, by |-> request],
                 [node EXCEPT
                    !.seen = @ \cup {[share |-> share, accepted |-> accepted]},
                    !.board[share[1]] = SolvedBy(accepted, @),
                    !.pool = IF accepted THEN Append(@, share) ELSE @])

(* Phase 3, after a verdict.  The nonce may have been burned meanwhile. *)
ProveDone(slot) ==
    LET j == jobs[slot]
        request == <<j.signer, j.nonce>>
    IN /\ up
       /\ j # NoJob
       /\ node.authority /\ Fresh(j.signer, j.nonce)
       /\ \E o \in Request(request, ProofEffects(j.share, j.share[2] \in Good, request)) :
             EndsWith(o, [jobs EXCEPT ![slot] = NoJob])

(* No verdict, a lost authority, a burned nonce, or a client that went away. *)
ProveDropped(slot) ==
    /\ up
    /\ jobs[slot] # NoJob
    /\ jobs' = [jobs EXCEPT ![slot] = NoJob]
    /\ UNCHANGED <<up, node, disk>>

-----------------------------------------------------------------------------
(* Blocks. *)

Poisoned(memory) == [memory EXCEPT !.poison = TRUE]

(* The block, then its rows one by one, each under a poison that only the end
   of the whole publication lifts. *)
BlockWrites(block, memory) ==
    LET stored == [disk EXCEPT !.blocks = Append(@, block)]
        rows == DerivedRows(block)
        applied == [memory EXCEPT !.chain = Append(@, block)]
    IN <<Append1(stored, Poisoned(memory))>>
       \o [i \in DOMAIN rows |->
             Append1([stored EXCEPT !.log = @ \o SubSeq(rows, 1, i)], Poisoned(applied))]

Drained(pool, block) == SelectSeq(pool, LAMBDA s : s \notin block)

(* A submission commits a block with the promotions selected from the pool; a
   block that fails the node's own replay is refused. *)
Produce ==
    LET block == Selection(node.pool)
        done == [node EXCEPT !.chain = Append(@, block), !.pool = Drained(@, block)]
    IN /\ MayWrite /\ ~ node.poison
       /\ Len(node.chain) < MaxBlocks
       /\ ReplayOk(Append(node.chain, block))
       /\ \E o \in Outcomes(disk, BlockWrites(block, node), done, Halted) : EndsWith(o, jobs)

(* A peer's block is appended in the same way; the pool is left as it is. *)
PeerBlock(block) ==
    /\ MayWrite /\ ~ node.poison
    /\ Len(node.chain) < MaxBlocks
    /\ ReplayOk(Append(node.chain, block))
    /\ \E o \in Outcomes(disk, BlockWrites(block, node),
                         [node EXCEPT !.chain = Append(@, block)], Halted) : EndsWith(o, jobs)

(* A reorganisation replaces the block store and the ledger and rebuilds the
   pool; that the chain wins is left to LocalNode. *)
Reorganise(chain) ==
    LET stored == [disk EXCEPT !.blocks = chain]
        log == RebuiltRows(disk.log, chain)
        applied == [node EXCEPT !.chain = chain]
        rewrite(files, memory) == [disk |-> files, during |-> Poisoned(memory), rewrite |-> TRUE]
    IN /\ MayWrite /\ ~ node.poison
       /\ chain # node.chain
       /\ ReplayOk(chain)
       /\ \E o \in Outcomes(disk,
                     <<rewrite(stored, node), rewrite([stored EXCEPT !.log = log], applied)>>,
                     [applied EXCEPT !.pool = RebuiltPool(log)], Halted) : EndsWith(o, jobs)

Crash ==
    /\ up
    /\ EndsWith([disk |-> disk, node |-> Halted, end |-> "crash"], jobs)

(* The stored chain and the rebuilt ledger replay. *)
Bootable == ReplayOk(disk.blocks) /\ Replayed(RebuiltRows(disk.log, disk.blocks)).ok

(* The ledger is rewritten before anything is read from it. *)
Boot ==
    /\ ~ up
    /\ Bootable
    /\ up' = TRUE
    /\ disk' = [disk EXCEPT !.log = RebuiltRows(@, disk.blocks)]
    /\ node' = Booted(disk)
    /\ UNCHANGED jobs

-----------------------------------------------------------------------------
Next ==
    \/ \E signer \in Signers, nonce \in Nonces :
          \/ \E k \in SessionPks : RegisterSession(signer, k, nonce) \/ RevokeSession(signer, k, nonce)
          \/ \E b \in Bounties :
                \/ Announce(signer, b, nonce)
                \/ \E status \in Statuses : ChangeStatus(signer, b, status, nonce)
          \/ \E slot \in Slots, share \in Shares : ProveStart(slot, signer, share, nonce)
    \/ \E slot \in Slots : ProveDone(slot) \/ ProveDropped(slot)
    \/ Produce
    \/ \E block \in PeerBlocks : PeerBlock(block)
    \/ \E chain \in PeerChains : Reorganise(chain)
    \/ Crash
    \/ Boot

Spec == Init /\ [][Next]_vars

-----------------------------------------------------------------------------
(* Properties. *)

Rows(kind) == {disk.log[i] : i \in {k \in DOMAIN disk.log : disk.log[k].kind = kind}}

(* The variables have the shapes the structures of the node give them. *)
TypeOK ==
    /\ up \in BOOLEAN
    /\ node.burned \cup disk.burned \subseteq Signers \X Nonces
    /\ node.board \in [Bounties -> Statuses \cup {"none"}]
    /\ \A e \in node.seen : e.share \in Shares /\ e.accepted \in BOOLEAN
    /\ ToSet(node.pool) \subseteq Shares
    /\ \A chain \in {node.chain, disk.blocks} :
          Len(chain) <= MaxBlocks /\ Promoted(chain) \subseteq Shares
    /\ {node.poison, node.authority} \subseteq BOOLEAN
    /\ DOMAIN jobs = Slots

(* What memory shows is exactly what the next boot will rebuild from the
   ledger, so that no answer given is undone by a restart. *)
RegistryDurable ==
    MayWrite =>
        LET registry == Replayed(disk.log)
        IN /\ node.board = registry.board /\ node.seen = registry.seen
           /\ node.sessions = disk.sessions /\ node.burned = disk.burned

(* Whatever failed in between, the node can boot from its files: no proof row
   follows the row that closed its bounty. *)
LedgerBoots == Bootable

(* A request takes effect at most once and never without its nonce durable:
   two answers of one signature cannot both have written a row. *)
NonceOnce ==
    \A i, j \in DOMAIN disk.log :
        IsRouteRow(disk.log[i]) =>
            /\ disk.log[i].by \in disk.burned
            /\ IsRouteRow(disk.log[j]) /\ disk.log[i].by = disk.log[j].by => i = j

(* Provers that verify at the same time cannot both solve a bounty, and no
   proof is recorded twice. *)
OneSolver ==
    /\ \A r1, r2 \in Rows("proof") :
          r1.accepted /\ r2.accepted /\ r1.share[1] = r2.share[1] => r1 = r2
    /\ \A i, j \in DOMAIN disk.log :
          /\ disk.log[i].kind = "proof" /\ disk.log[j].kind = "proof"
          /\ disk.log[i].share = disk.log[j].share
          => i = j

(* The rows of the ledger that stand for blocks are those of the chain. *)
ProjectionExact ==
    up /\ ~ node.poison => Rows("share_promoted") = {PromotedRow(s) : s \in Promoted(node.chain)}

(* Accepted proofs wait in the pool until a block promotes them: none is lost
   by a failure, a restart or a reorganisation, and none waits twice. *)
PoolComplete ==
    MayWrite /\ ~ node.poison =>
        LET accepted == {e.share : e \in {f \in node.seen : f.accepted}}
        IN /\ accepted \ Promoted(node.chain) \subseteq ToSet(node.pool)
           /\ ToSet(node.pool) \subseteq accepted
           /\ Len(node.pool) = Cardinality(ToSet(node.pool))

(* Requests are sound: the shapes hold, memory is durable, the ledger boots and
   a signature takes effect once. *)
RequestsSound == TypeOK /\ RegistryDurable /\ LedgerBoots /\ NonceOnce

(* Bounties are sound: one solver, the rows of the blocks exact, and no
   accepted proof lost on its way into a block. *)
BountySound == OneSolver /\ ProjectionExact /\ PoolComplete

(* A bounty that is solved, expired or withdrawn stays so. *)
ClosedStaysClosed ==
    [][\A b \in Bounties :
          Replayed(disk.log).board[b] \in Terminal =>
             Replayed(disk'.log).board[b] = Replayed(disk.log).board[b]]_vars

=============================================================================
