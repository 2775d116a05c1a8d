------------------------------ MODULE NativeNode ------------------------------
(***************************************************************************)
(* The durable node of crates/boole-node/src/native_node.rs: one canonical *)
(* block log and one queue of pending transfers on disk, the verified      *)
(* chain, the pending state and the confirmed index derived from them in   *)
(* memory, and the publications that change both.  A publication is taken  *)
(* one durable write at a time; each write can succeed, fail before or     *)
(* after it took effect, or be cut off by the end of the process.          *)
(*                                                                         *)
(* The ledger of a chain is a function of its blocks: NativeLedger shows   *)
(* that rolling back agrees with replaying.                                *)
(***************************************************************************)
EXTENDS NativeLedgerOps, NativeForks

CONSTANTS
    RewardPk, Transfers,   \* the content of each block
    MaxPendingTransfers,   \* MAX_NATIVE_PENDING_TRANSFERS: 512 in the code
    MaxRecoveryTransfers   \* MAX_NATIVE_RECOVERY_TRANSFERS: twice that

ASSUME NodeAssumption ==
    /\ RewardPk \in [Blocks -> Accounts]
    /\ Transfers \in [Blocks -> Seq(Envelopes)]
    /\ MaxPendingTransfers \in Nat
    /\ MaxRecoveryTransfers = 2 * MaxPendingTransfers
    /\ MaxHistoryBlocks <= MaxHeight

VARIABLES
    block_log,   \* native-blocks.ndjson: its complete lines
    pool_log,    \* native-mempool.ndjson: its complete lines
    torn,        \* the files that end in an incomplete line
    up,          \* a NativeNode is open
    chain,       \* NativeNode::chain: its blocks and the floor of its undo window
    pending,     \* NativeNode::pending: the queue and its reservation view
    confirmed,   \* NativeNode::confirmed, as pairs of transfer and height
    poisoned,    \* NativeNode::poisoned, or an indeterminate write is fenced
    step,        \* the durable write under way
    candidate,   \* the chain the publication under way ends with
    recovery,    \* the queue that covers both chains while it runs
    retained,    \* the pending state it ends with
    old, new     \* auxiliary: the promise before and after the publication

disk == <<block_log, pool_log, torn>>
memory == <<chain, pending, confirmed>>
work == <<candidate, recovery, retained>>
vars == <<disk, up, memory, poisoned, step, work, old, new>>

Files == {"blocks", "pool"}
Steps == {"none", "append transfer", "append block", "write recovery",
          "write blocks", "write pool"}

-----------------------------------------------------------------------------
(* Valid chains.                                                           *)

\* NativeChain::append, on the ledger.
NextLedger(l, b) == ApplyBlock(l, l.height + 1, RewardPk[b], Transfers[b])

\* The ledger a replay of c ends with.
LedgerOf(c) == FoldLeft(NextLedger, GenesisLedger, c)

\* NativeChain::prepare: the block extends the head and the ledger accepts it.
Extends(c, b) ==
    /\ Parent[b] = HeadOf(c)
    /\ ApplyBlock(LedgerOf(c), Len(c) + 1, RewardPk[b], Transfers[b]) # None

\* NativeChain::replay succeeds.
IsChain(c) == \A i \in 1 .. Len(c) : Extends(SubSeq(c, 1, i - 1), c[i])

-----------------------------------------------------------------------------
(* The confirmed index and the pending state.                              *)

\* The ids and heights of the transfers in the blocks of c above `from`.
IndexAbove(c, from) ==
    {p \in Envelopes \X (from + 1 .. Len(c)) : Contains(Transfers[c[p[2]]], p[1])}

\* confirmed_index
ConfirmedIndex(c) == IndexAbove(c, 0)

IsConfirmed(index, t) == \E p \in index : p[1] = t

\* publish_candidate: entries above the fork go, those of the new blocks come.
ReorgIndex(index, common, c) ==
    {p \in index : p[2] <= common} \cup IndexAbove(c, common)

\* One turn of retain_pending: a transfer that is confirmed, already kept, over
\* the limit or no longer accepted by the view is skipped.
Retain(index, acc, t) ==
    IF \/ IsConfirmed(index, t)
       \/ Contains(acc.transfers, t)
       \/ Len(acc.transfers) = MaxPendingTransfers
       \/ PushPending(acc.view, t) = None
    THEN acc
    ELSE [transfers |-> Append(acc.transfers, t), view |-> PushPending(acc.view, t)]

\* retain_pending: in order, on the view at the head of c.
RetainPending(c, index, candidates) ==
    FoldLeft(LAMBDA acc, t : Retain(index, acc, t),
             [transfers |-> <<>>, view |-> PendingView(LedgerOf(c))], candidates)

\* orphan_limit in publish_candidate
OrphanLimit(queue) == MaxRecoveryTransfers - Len(queue)

\* One turn of the loop over the abandoned blocks in publish_candidate.
Orphan(index, queue, acc, t) ==
    IF \/ Len(acc) = OrphanLimit(queue)
       \/ IsConfirmed(index, t)
       \/ Contains(queue, t) \/ Contains(acc, t)
    THEN acc
    ELSE Append(acc, t)

\* The transfers of the blocks bs, in their order.
TransfersOf(bs) == FoldLeft(LAMBDA acc, b : acc \o Transfers[b], <<>>, bs)

\* The transfers only the abandoned blocks confirmed, in their order.
Orphans(c, common, index, queue) ==
    FoldLeft(LAMBDA acc, t : Orphan(index, queue, acc, t), <<>>,
             TransfersOf(SubSeq(c, common + 1, Len(c))))

\* What a caller who was answered counts on.
Promise(c, queue) == [chain |-> c, pending |-> queue]

\* What open_inner derives from the two files.
Recovered ==
    Promise(block_log,
            RetainPending(block_log, ConfirmedIndex(block_log), pool_log).transfers)

-----------------------------------------------------------------------------
(* Opening.                                                                *)

NoPending == [transfers |-> <<>>, view |-> PendingView(GenesisLedger)]

\* Native state created on the first boot, before the node answers anyone.
Init ==
    /\ block_log = <<>> /\ pool_log = <<>> /\ torn = {}
    /\ up = TRUE /\ poisoned = FALSE /\ step = "none"
    /\ chain = NoChain /\ pending = NoPending /\ confirmed = {}
    /\ candidate = NoChain /\ recovery = <<>> /\ retained = NoPending
    /\ old = Promise(<<>>, <<>>) /\ new = Promise(<<>>, <<>>)

\* open_inner refuses nothing that is on disk.
Openable ==
    /\ IsChain(block_log) /\ Len(block_log) <= MaxHistoryBlocks
    /\ Len(pool_log) <= MaxRecoveryTransfers
    /\ \A i \in 1 .. Len(pool_log) : ValidatedFields(pool_log[i])

\* NativeNode::open: torn tails are cut, both logs replayed, and the queue is
\* rewritten when the replay dropped part of it.
Open ==
    /\ ~ up /\ Openable
    /\ LET index == ConfirmedIndex(block_log)
           kept  == RetainPending(block_log, index, pool_log)
       IN  /\ chain' = ChainOf(block_log, 0)
           /\ confirmed' = index
           /\ pending' = kept
           /\ pool_log' = kept.transfers
           /\ old' = Promise(block_log, kept.transfers)
           /\ new' = old'
    /\ torn' = {} /\ up' = TRUE
    /\ UNCHANGED <<block_log, poisoned, step, work>>

\* The process ends while it opens: after either repair or the rewrite.
OpenInterrupted ==
    /\ ~ up
    /\ \/ torn' = torn \ {"blocks"} /\ UNCHANGED pool_log
       \/ torn' = {} /\ UNCHANGED pool_log
       \/ Openable /\ torn' = {} /\ pool_log' = Recovered.pending
    /\ UNCHANGED <<block_log, up, memory, poisoned, step, work, old, new>>

-----------------------------------------------------------------------------
(* Publications.                                                           *)

\* ensure_ready, with no publication under way: NativeNode has one writer.
Idle == up /\ ~ poisoned /\ step = "none"

\* The end of a publication: the caller is answered.
Finish ==
    /\ step' = "none" /\ old' = new
    /\ UNCHANGED <<up, poisoned, work, new>>

\* submit_transfer up to its append.
SubmitTransfer(t) ==
    /\ Idle
    /\ ValidatedFields(t)
    /\ ~ IsConfirmed(confirmed, t) /\ ~ Contains(pending.transfers, t)
    /\ Len(pending.transfers) < MaxPendingTransfers
    /\ PushPending(pending.view, t) # None
    /\ retained' = [transfers |-> Append(pending.transfers, t),
                    view      |-> PushPending(pending.view, t)]
    /\ step' = "append transfer"
    /\ new' = Promise(chain.blocks, retained'.transfers)
    /\ UNCHANGED <<disk, up, memory, poisoned, candidate, recovery, old>>

\* Mutated form: the reservation is dropped instead of committed.
AppendTransfer_DropsReservation ==
    /\ up /\ step = "append transfer"
    /\ pool_log' = retained.transfers
    /\ pending' = [pending EXCEPT !.transfers = retained.transfers]
    /\ UNCHANGED <<block_log, torn, chain, confirmed>>
    /\ Finish

\* append_bounded succeeds; the reservation is committed.
AppendTransfer ==
    /\ up /\ step = "append transfer"
    /\ pool_log' = retained.transfers
    /\ pending' = retained
    /\ UNCHANGED <<block_log, torn, chain, confirmed>>
    /\ Finish

\* submit_block up to its append.
SubmitBlock(b) ==
    /\ Idle
    /\ ~ Contains(chain.blocks, b)
    /\ Len(chain.blocks) < MaxHistoryBlocks
    /\ Extends(chain.blocks, b)
    /\ LET next == Append(chain.blocks, b)
           index == confirmed \cup IndexAbove(next, Len(chain.blocks))
       IN  /\ candidate' = ChainOf(next, chain.floor)
           /\ retained' = RetainPending(next, index, pending.transfers)
           /\ new' = Promise(next, retained'.transfers)
    /\ step' = "append block"
    /\ UNCHANGED <<disk, up, memory, poisoned, recovery, old>>

\* append_bounded succeeds; the chain and the index follow, and the queue is
\* rewritten only when the block changed it.
AppendBlock ==
    /\ up /\ step = "append block"
    /\ block_log' = candidate.blocks
    /\ chain' = candidate
    /\ confirmed' = confirmed \cup IndexAbove(candidate.blocks, Len(chain.blocks))
    /\ UNCHANGED <<pool_log, torn>>
    /\ IF retained.transfers # pending.transfers
       THEN /\ step' = "write pool"
            /\ UNCHANGED <<up, pending, poisoned, work, old, new>>
       ELSE /\ pending' = retained
            /\ Finish

\* Mutated form: the block log is replaced before the recovery union is saved.
FirstReorgWrite_LogFirst(union, queue) == "write blocks"

\* publish_candidate saves the recovery union first, unless the file has it.
FirstReorgWrite(union, queue) ==
    IF union # queue THEN "write recovery" ELSE "write blocks"

\* publish_candidate up to its first write.
PublishCandidate(next) ==
    LET common == CommonPrefixLen(chain.blocks, next.blocks)
        index  == ReorgIndex(confirmed, common, next.blocks)
        union  == Orphans(chain.blocks, common, index, pending.transfers)
                      \o pending.transfers
    IN  /\ Outranks(next.blocks, chain.blocks)
        /\ candidate' = next
        /\ recovery' = union
        /\ retained' = RetainPending(next.blocks, index, union)
        /\ step' = FirstReorgWrite(union, pending.transfers)
        /\ new' = Promise(next.blocks, retained'.transfers)
        /\ UNCHANGED <<disk, up, memory, poisoned, old>>

\* adopt_chain: a recent fork reuses the undo window, an older one replays.
AdoptChain(tip) ==
    LET c == ChainTo[tip]
    IN  /\ Idle
        /\ IsChain(c) /\ Len(c) <= MaxHistoryBlocks
        /\ PublishCandidate(ChainOf(c, IF CommonPrefixLen(chain.blocks, c) >= chain.floor
                                       THEN chain.floor ELSE 0))

\* adopt_recent_suffix: the prefix is this node's own, within the undo window.
AdoptRecentSuffix(common_height, tip) ==
    LET c == ChainTo[tip]
    IN  /\ Idle
        /\ common_height < Len(c) /\ Len(c) - common_height <= RecentForkBlocks
        /\ chain.floor <= common_height
        /\ common_height <= CommonPrefixLen(chain.blocks, c)
        /\ IsChain(c) /\ Len(c) <= MaxHistoryBlocks
        /\ PublishCandidate(ChainOf(c, chain.floor))

\* adopt_replayed_chain: an archive was replayed from genesis.
AdoptReplayedChain(tip) ==
    LET c == ChainTo[tip]
    IN  /\ Idle
        /\ IsChain(c) /\ Len(c) <= MaxHistoryBlocks
        /\ PublishCandidate(ChainOf(c, 0))

WriteRecovery ==
    /\ up /\ step = "write recovery"
    /\ pool_log' = recovery
    /\ step' = "write blocks"
    /\ UNCHANGED <<block_log, torn, up, memory, poisoned, work, old, new>>

WriteBlocks ==
    /\ up /\ step = "write blocks"
    /\ block_log' = candidate.blocks
    /\ chain' = candidate
    /\ confirmed' = ReorgIndex(confirmed, CommonPrefixLen(chain.blocks, candidate.blocks),
                               candidate.blocks)
    /\ step' = "write pool"
    /\ UNCHANGED <<pool_log, torn, up, pending, poisoned, work, old, new>>

\* The last write of a reorganisation or of a block that changed the queue.
WritePool ==
    /\ up /\ step = "write pool"
    /\ pool_log' = retained.transfers
    /\ pending' = retained
    /\ UNCHANGED <<block_log, torn, chain, confirmed>>
    /\ Finish

-----------------------------------------------------------------------------
(* Failures.                                                               *)

\* What append_ndjson_transaction leaves when it does not succeed: the prefix
\* it restored, or a torn or a whole line when it could not.
AppendLeaves ==
    \/ UNCHANGED disk
    \/ /\ torn' = torn \cup {IF step = "append block" THEN "blocks" ELSE "pool"}
       /\ UNCHANGED <<block_log, pool_log>>
    \/ /\ step = "append block" /\ block_log' = candidate.blocks
       /\ UNCHANGED <<pool_log, torn>>
    \/ /\ step = "append transfer" /\ pool_log' = retained.transfers
       /\ UNCHANGED <<block_log, torn>>

\* What write_file_atomic leaves: the whole previous or the whole next file.
ReplaceLeaves ==
    \/ UNCHANGED disk
    \/ /\ step = "write blocks" /\ block_log' = candidate.blocks
       /\ UNCHANGED <<pool_log, torn>>
    \/ /\ step \in {"write recovery", "write pool"}
       /\ pool_log' = IF step = "write recovery" THEN recovery ELSE retained.transfers
       /\ UNCHANGED <<block_log, torn>>

WriteLeaves ==
    \/ step \in {"append transfer", "append block"} /\ AppendLeaves
    \/ step \in {"write recovery", "write blocks", "write pool"} /\ ReplaceLeaves

\* Mutated form: the node keeps serving after a failed write.
WriteFails_KeepsServing ==
    /\ up /\ WriteLeaves
    /\ step' = "none"
    /\ UNCHANGED <<up, memory, poisoned, work, old, new>>

\* A write reports an error: the caller gets it, and nothing more is written.
WriteFails ==
    /\ up /\ WriteLeaves
    /\ step' = "none" /\ poisoned' = TRUE
    /\ UNCHANGED <<up, memory, work, old, new>>

\* The process ends, at any moment; memory is gone.
Crash ==
    /\ up
    /\ IF step = "none" THEN UNCHANGED disk ELSE WriteLeaves
    /\ up' = FALSE /\ poisoned' = FALSE /\ step' = "none"
    /\ chain' = NoChain /\ pending' = NoPending /\ confirmed' = {}
    /\ candidate' = NoChain /\ recovery' = <<>> /\ retained' = NoPending
    /\ UNCHANGED <<old, new>>

Next ==
    \/ \E t \in Envelopes : SubmitTransfer(t)
    \/ \E b \in Blocks : SubmitBlock(b)
    \/ \E tip \in Blocks : AdoptChain(tip)
    \/ \E tip \in Blocks, h \in 0 .. MaxHistoryBlocks : AdoptRecentSuffix(h, tip)
    \/ \E tip \in Blocks : AdoptReplayedChain(tip)
    \/ AppendTransfer \/ AppendBlock
    \/ WriteRecovery \/ WriteBlocks \/ WritePool
    \/ WriteFails \/ Crash
    \/ Open \/ OpenInterrupted

Spec == Init /\ [][Next]_vars

-----------------------------------------------------------------------------
(* Properties.                                                             *)

ChainType == [blocks : Seq(Blocks), floor : Nat]
PendingType == [transfers : Seq(Envelopes), view : Ledger]
PromiseType == [chain : Seq(Blocks), pending : Seq(Envelopes)]

\* The state has its types, and the queue in memory and the undo window stay
\* within their limits.
TypeOK ==
    /\ block_log \in Seq(Blocks) /\ pool_log \in Seq(Envelopes) /\ torn \subseteq Files
    /\ up \in BOOLEAN /\ poisoned \in BOOLEAN /\ step \in Steps
    /\ chain \in ChainType /\ candidate \in ChainType
    /\ pending \in PendingType /\ retained \in PendingType
    /\ confirmed \subseteq Envelopes \X Nat
    /\ recovery \in Seq(Envelopes)
    /\ old \in PromiseType /\ new \in PromiseType
    /\ Len(pending.transfers) <= MaxPendingTransfers
    /\ chain.floor <= Len(chain.blocks)
    /\ Len(chain.blocks) - chain.floor <= RecentForkBlocks

\* "A successful append is durable before the new balance becomes visible":
\* a node that answers has exactly the files its memory was derived from.
DurableBeforeVisible ==
    Idle => /\ block_log = chain.blocks
            /\ pool_log = pending.transfers
            /\ torn = {}

\* Whenever the process may end, in the middle of any publication, recovery
\* included, a restart finds the promise before it or the promise after it:
\* the chain and the queue never come from different publications, and no
\* queued transfer is lost to a reorganisation that did not happen.
CrashAtomic == Recovered \in {old, new}

\* No sequence of publications, failures and crashes leaves files that the
\* next boot would refuse.
Recoverable == Openable

\* A template with the whole queue is valid whoever produces the next block:
\* no queue makes `template` fail and stop mining.
PendingMineable ==
    Idle => \A pk \in Accounts :
               ApplyBlock(LedgerOf(chain.blocks), Len(chain.blocks) + 1, pk,
                          pending.transfers) # None

\* The reservations in memory, extended one transfer at a time, are those a
\* restart derives from the same files.
ViewExact ==
    Idle => pending = RetainPending(chain.blocks, ConfirmedIndex(chain.blocks),
                                    pending.transfers)

\* The index maintained across blocks and reorganisations is the one a replay
\* of the chain builds.
ConfirmedExact ==
    up => confirmed = ConfirmedIndex(chain.blocks)

\* The canonical log is only ever extended by a block of more work or replaced
\* by a chain that outranks it, across failures and restarts too: a head that
\* was answered to a caller is never abandoned for a lesser one.
LogRankGrows ==
    [][block_log' # block_log =>
          \/ Preferred(block_log', block_log)
          \/ \E b \in Blocks : block_log' = Append(block_log, b)]_vars

\* A restart is sound wherever the process ended: the files open, and hold one
\* promise and never parts of two.
RestartSound == CrashAtomic /\ Recoverable

\* What memory keeps between operations is sound: its limits hold, the queue can
\* be mined, and its view and its index are those a restart derives.
MemorySound == TypeOK /\ PendingMineable /\ ViewExact /\ ConfirmedExact

=============================================================================
