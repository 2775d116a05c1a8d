# A verification project for Boole

Boole is a Rust workspace around one idea: a chain whose blocks are earned by
checkable work. These modules model its stateful core: the *native chain* (ledger,
durable node, service, peers), the older *local node* (shares, sessions, bounties,
blocks, gossip, proof packages), the *devnet* (the commit-reveal fold with verdicts,
and the client that posts to it), and the *closed-local replay service* that runs a
checker once per granted case. TLC checks the modules on small instances, TLAPS
proves the most important safety properties of the native chain, the local node (its
refinement, its gossip and its proof packages included), the posting client and the replay
service for every value of the constants.

    tlc -workers 2 -config MCLocalNode.cfg MCLocalNode
    tlapm NativeNode_proofs.tla

`PROJECT.json` gives for every definition the lines it models, for every property
a mutated definition that breaks it, and the hazards the properties are for.

## Inventory

### Native chain

| component | state | operations | what makes it correct |
|---|---|---|---|
| ledger, `boole-core/src/native_ledger.rs` | balances, nonces, issued amount, locked balances, pending rewards by unlock height | `apply_block`, `prepare_block`, `undo_block`, `pending_view`, `push` | money is only made by emission and capped; rewards mature; undo gives back the exact maps |
| chain, `boole-core/src/native_chain.rs` | blocks, ledger, cumulative work, a window of undo records | `append`, `replay`, `template`, `fork_at`, `outranks` | fork choice is a strict order; roll-back and replay agree |
| node, `boole-node/src/native_node.rs` | the chain, the queue with its reservations, the index of confirmed transfers, the poison flag; two files | `open`, `submit_transfer`, `submit_block`, `adopt_chain`, `adopt_recent_suffix`, `adopt_replayed_chain` | what is answered is on disk; a crash leaves the state before or after an operation |
| durable files, `boole-node/src/durability.rs` | log files, unsynced tails | append with roll-back, atomic replacement, stable prefix | an append or rewrite leaves the old or the new content, or a torn tail that a boot cuts |
| HTTP service, `boole-node/src/native_http.rs` | request slots, connections, blocking tasks | the routes, timeouts, drain, release of the node | work is bounded although callers leave; shutdown ends and nothing mutates after it |
| lifecycle, `boole-node/src/p2p_lifecycle.rs` | stop flag, socket registry, condition variable, mutation gate | `register`, `wait_or_stop`, `begin_mutation`, `request_stop`, `stop` | no socket and no wake-up is missed, the gate is a barrier |
| peers, `boole-node/src/native_peers.rs` | worker threads, one declined fork per peer, cooldowns, reconnect hints | `outbound_loop`, `accept_loop`, `serve_round`, `synchronize` | a round never mixes two snapshots; nodes settle on one chain |

HTTP handlers and peer workers call the node under one mutex, after passing the
mutation gate; a round talks to another node by one request and one response at a
time; a boot reads the two files and nothing else. What is hard here is what
happens *between* steps: between two writes of a reorganisation, between two
answers of a round, between a check of the stop flag and the sleep that follows.

### Local node

| component | state | operations | what makes it correct |
|---|---|---|---|
| submissions, `boole-node/src/local_node.rs`, `boole-core/src/admission.rs`, `share_pool.rs` | share pool, candidate list, tombstones, quota, the checker's permit | `submit_handler` and its three phases, a peer's share, cancellation | nothing unchecked is selected; a retry after an unavailable checker costs nothing; one checker at a time |
| blocks and replay, `local_node.rs`, `runtime.rs`, `block_builder.rs`, `replay.rs` | block store, reward ledger, bounty rows, dedup mirror, receipts, checkpoint | selection, publication file by file, ingest, reorganisation, boot | memory and files agree or the process is read-only; the chain only grows or wins the fork choice |
| sessions and bounties, `local_node.rs`, `boole-core/src/bounty*.rs` | nonces, session registry, bounty ledger, board, side pool | register, revoke, announce, status, the two-phase proof, promotion | a signature takes effect once; one solver; no accepted proof is lost |
| gossip, `p2p_ingress.rs`, `p2p_egress.rs` | queue per peer, sync round with its budget, observed heads | announce, poll, pull, fork choice, readiness | lost announcements are made up for by polling; readiness is true |
| proof packages, `package_store.rs`, `p2p_package_fetch.rs` | objects, FIFO of pending pairs, journal of fetch intents | stage, register, complete, acknowledge, open, repair; the fetch loop | a listed package has its object, a confirmed pair stays, what a peer serves arrives |

All lanes of the local node run in two locked phases around a checker that runs
with the state unlocked; a publication writes several files one after another.

### Devnet and replay service

| component | state | operations | what makes it correct |
|---|---|---|---|
| fold, `boole-derivation/src/m2.rs`, `m3/*.rs` | pools, rounds, problems, candidates, verdict queue and clock, rewards, quarantine | one L1 height: fork, ties, due verdicts, slot, expiry, items, winners, vesting | the earliest passing candidate wins, each reward is given and taken once, the fold never stops |
| posting client, `boole-devnet-mcp/src/client.rs`, `store.rs` | the record of a submission, in memory and on disk; posts per head | a tick: advance the stages, sign, record, send, record the answer, rebroadcast, recover | what is in flight is on disk; sends stay in their budget |
| replay service, `boole-node/src/native_shadow.rs`, `native_shadow_replay_service.rs` | journal, state store, attempts, execution gate, poison flag, requests and detached owners | submit, reserve, launch, terminal, redelivery, recovery at start | a case is launched once, an answer holds for ever, the permit comes back |

### Not modelled

Listed with the reason in `PROJECT.json`: archive and network identity of the native
chain, key files, state directory, transport, rate limiting, manifests, encodings,
release records, wallet, launcher and containment, Lean runner, gate supervisor,
devnet driver, archive, audit and tools, miner, command lines, emitter, EVM adapter,
test support. Most of these are operating-system state, byte formats, cryptography or
presentation; the gate supervisor, the devnet archive and driver and the state
directory have state worth modelling and are in the plan.

The mapped definitions stand for about a fourteenth of the workspace's lines. The larger
part of the rest is document validation, encodings, containment by system calls, command
lines and tests inside the source files, which have no state transitions to check.

## Modules

| module | models | composed of |
|---|---|---|
| `NativeLedgerOps` | the ledger as records and pure operators, integers of `AmountBits` bits | |
| `NativeLedger` | one chain preparing, refusing, dropping, committing and rolling back blocks | `NativeLedgerOps` |
| `NativeForks` | chains in a tree of blocks, work, fork choice, the floor of the undo window | |
| `NativeNode` | one node: memory, files, every durable write, failures, crashes, boots | `NativeLedgerOps`, `NativeForks` |
| `NativeService` | the threads of one process, the gate, the registry, the stop sequence | |
| `NativePeers` | rounds between nodes, with mining and restarts between any two steps | `NativeForks` |
| `LocalChain` | works, selection, replay and fork choice of the local node | |
| `SharePool` | share pool, candidate list, reservation, release, quota | `LocalChain` |
| `DurableSteps` | every way a handler that writes several files can end | |
| `LocalNode` | submissions, shares, blocks and chains around the unlocked checker; files; boot | `SharePool`, `DurableSteps` |
| `ProofCredit` | what the durable chain promises to the outside; `LocalNode` implements it | `LocalChain` |
| `SignedRoutes` | signed requests, sessions, bounties, promotion, ledger and side pool | `DurableSteps` |
| `PeerSync` | announcements and budgeted sync rounds between nodes | |
| `PackageStore` | the package store with failing writes, kills and power losses | |
| `PackageFetch` | the fetch thread over the store | `PackageStore` |
| `RevealFold` | pools, slot, rounds, commits and reveals of the devnet fold | |
| `VerdictFold` | one height of the fold with forks, verdicts, winners and rewards | `RevealFold` |
| `DevnetPosting` | the client that posts one submission, against the L1 chain | |
| `ShadowReplay` | the closed-local replay service, its journal and its restarts | |
| `*_proofs` | the theorems about a module (`NativeNode_proofs`: about the ledger too) | the module |
| `MC*` | the instance TLC checks | the module |

**NativeLedger.** `prepare_block` works on a clone of the ledger, with an undo record beside it, and
the caller commits the clone or drops it. The module takes it step by step (`BeginBlock`,
`UnlockOne`, `SettleTransfer`, `RefuseTransfer`, `SettleEmission`), so that a refusal
at any point is visible; `CommitBlock` pushes the undo record, `RollBack` is
`fork_at`. A map entry is a value or `None`, an undo entry is a value, `None` (was
absent) or `Untouched`. The checked arithmetic keeps its width (`AmountBits`; 128 in
the code). Signature, address and syntax checks of an envelope are the Boolean
`authentic`. `history` remembers the ledger of each height and is used by properties
only. The same steps as one function are `ApplyBlock` of `NativeLedgerOps`, which
the node uses; `ReplayAgrees` ties the two together.

**NativeForks.** A block has a fixed parent, work and hash rank; header syntax,
proof of work, difficulty and median time are what it means to be in `Blocks`.
`ChainTo` is a recursive function.

**NativeNode.** An operation checks everything in memory and then performs its
writes one by one: `SubmitTransfer; AppendTransfer`, `SubmitBlock; AppendBlock`
(and `WritePool` when the block confirmed queued transfers), or an adoption, then
`WriteRecovery`, `WriteBlocks`, `WritePool`. At each write `WriteFails` leaves the
old content, the new content or a torn tail and poisons the node; `Crash` leaves the
same at any time. `Open` is the whole boot, `OpenInterrupted` one that ends in the
middle. `old` and `new` are what the callers were promised before and after the
operation in progress.

**NativeService.** A request goes through `Arrive` (a slot, or 429), `BodyRead`,
the gate, the flag check, the node lock and the operation; its caller may time out
or leave at any moment, which does not release the slot. A worker loops through
connecting, registering its socket, blocking I/O, polling for the node lock inside
the gate, and a cancellable wait of two steps (predicate, sleep), between which a
notification would be lost. The main task performs graceful shutdown, sweep, drain,
the barrier of `stop`, the join and the release; the acceptor may fail and run
`request_stop` on its own. The standard library's `RwLock` is taken to hold back
readers while a writer waits, the stricter of the orders it may choose.

**NativePeers.** A link is an outgoing worker with its round: `StartRound`, hello,
the binary search for the common height (`AskHash`, `ServeHash`, `HashAnswered`),
the download by pages, and either blocks applied one at a time (`ApplyBlock`) or a
fork collected and adopted as a whole (`ApplyFork`). Each step is one lock of one of
the two nodes, so that a miner, another link or a restart can act between any two.

**LocalNode.** `SubmitReserve`, `PeerShare`, `PeerBlock` and `PeerChain` are the first locked
phase, `FinishSubmit` and its siblings the last; between them the job sits in `jobs` and
every other action may run. A client that hangs up (`CancelSubmit`) clears `attached` and
the checker goes on (`OrphanDone`), which is why the permit is not the client's. A handler that writes
files is one action whose outcome is an element of `DurableSteps!Outcomes`: all writes
durable, a prefix of them and the end of the process, or a prefix and an error, with
the memory the code has at that write. That is sound because the state lock is held
throughout: nobody sees a state in between except a boot. `checker` (a checker is
configured) is chosen at the start and stays. A session is a state per key with an
expiry height; its registration and its own nonces are in `SignedRoutes`.

**SignedRoutes.** Every handler burns its nonce, appends its row and only then changes
memory; `Request` is that order, with the outcomes of `DurableSteps`. A proof request
occupies a slot between its read-locked and its write-locked phase. The ledger is a
sequence of rows, and `Replayed` and `RebuiltPool` are the boot. The rows of blocks are
sets of promoted shares; amounts are left out.

**PeerSync.** A chain is the sequence of its blocks' labels and a block is the chain that
ends in it. A round charges blocks, bytes and responses against its budget; an exchange
may fail at any point (`RoundFails`, also the deferred outcomes). Storing a block is
`LocalNode`'s business and is one step here.

**PackageStore, PackageFetch.** An operation is computed write by write into a set of
outcomes; a name that was renamed and not yet synced may be lost with the power, a name
removed and not yet synced may come back. What a caller was told is remembered in `told`,
for properties only. Errors, kills, power losses and lost objects happen in any order.
Whoever opens the directories first syncs both (`Authority`, `open_store_authority`), so what
a killed process renamed and did not sync is certain once the next one has opened the
store; `Open`, `OpenFails` (which may end between the two syncs, or between them and the
removal of the last orphan) and `Restore` all begin with it. A directory sync that succeeds is taken to make the
names in that directory certain, and one that is reported as failed to make none of them so.
`job` says whether the fetch thread or other callers use the store.

**RevealFold, VerdictFold.** Each stage of a height is a step; an item the fold drops is
no step. `net` is the network of a behaviour: its forks, deadline, fuels and bounds. The
refusal of a height (`phase = "refused"`) is final, as it is for a node that cannot fold
a finalized block.

**DevnetPosting.** A step is what the client does between two points at which a write or a
call can fail or the process can end. The chain (mining, reverting, forgetting, replacing
a block) moves between any two. `calls` and `attempts` count sends for the properties.

**ShadowReplay.** A request future and its detached owner are two processes; `lock`
serialises the two-line `begin_execution_v3`; `journal` is the file
and `mem` what the process has made of it. The launcher is external: a session ends with a result, a refusal or ambiguity,
and a kill leaves its `leaf` running until recovery cleans it up.

## Runs

| run | instance | what it shows | states, time |
|---|---|---|---|
| `native_ledger` | two accounts, five envelopes, five blocks, maturity 2, halving every 3, cap 13, undo window 2 | accounting, locks and undo stay exact in every order of preparing, refusing, committing and rolling back | 2 s |
| `native_node` | eight blocks in four branches, six envelopes, queue of 2, window of 2 | durability, crash atomicity, the queue and the indexes, with a failure or crash at every write | 4 s |
| `native_service` | two requests for one slot, one worker | bounded work, the barrier, the sweep; operations end and shutdown completes | 20 s |
| `native_peers` | two nodes asking each other, six blocks, rounds of 2 blocks, one fault | rounds are consistent, ranks grow, and the nodes settle | 80 s |
| `local_node` | two keys, four works with a shared and a refused proof, chains of 2, quota 2, four chains of peers, with and without a checker | files, pool and checks stay sound, a failed process changes no canonical file, and the durable chain implements `ProofCredit` | 1.6 M, 110 s |
| `signed_routes` | two signers with two nonces, one operator, one session key, one bounty, three artifacts, two verifier slots | requests take effect once and durably, one solver, a closed bounty stays closed | 0.9 M, 95 s |
| `gossip` | two nodes, chains of 3 with a double-work block, pages of 2, queue of 1, one fault | fork choice, readiness, convergence | 0.8 M, 110 s |
| `packages` | three pairs over two roots, room for 3 pairs and 4 bytes, errors, kills, power losses and lost objects in one behaviour | the files stay sound, nothing confirmed is lost, fetches end | 2.0 M, 105 s |
| `fold` | two leaves, two commits, two ties; no fork, a kernel fix, a policy change and a quarantine | first verdicts always apply, winners and rewards are decided once, quarantine binds | 2.6 M, 90 s |
| `posting` | a whole submission with a cancel; two parts in one budget; one part with two failures and a replaced block | in flight is on disk, sends are bounded, no old list of sent parts is used | 2.0 M, 75 s |
| `shadow` | two requests, two checker cases and an empty one, two kills, one failed append | no line is out of order and one gap apart the journal recovers, a case flies once, the permit returns | 0.2 M, 30 s |
| `fold_recheck` | the kernel-fix network, 11 heights | a violation: see Findings | 2 s |

Most properties are conjunctions of named parts, each with its own comment in the
module; the parts and what they say:

| property | parts |
|---|---|
| `SupplySound` | `Conservation`, `SupplyCapped`, `ArithmeticSafe` |
| `LocksSound` | `LocksExact`, `LocksCovered`, `RewardsMature` |
| `UndoSound`, `HistorySound` | types, `UndoExact`, `PreparationReversible`; `ReplayAgrees`, `NoReplay` |
| `RestartSound`, `MemorySound` | `CrashAtomic`, `Recoverable`; types, `PendingMineable`, `ViewExact`, `ConfirmedExact` |
| `GateSound`, `StopSound` | types, `WorkBounded`; `QuietAfterStop`, `NoOpenSocketAfterSweep` |
| `RoundSound` | types, `CommonExact`, `ForkPure`, `ForkReachable`, `DeclinedSound` |
| `StoreSound`, `SharesSound` | `StoreAgrees`, `Recoverable`, `BurnFirst`; types, `PoolAgrees`, `ChargeExact` |
| `ChecksSound` | `OneChecker`, `PremisesHold`, `Eligible`, `CkptIsPrefix`, `CheckpointSound` |
| `WritesAllowed` | `ActiveSessionsOnly`, `FailedIsReadOnly` |
| `RequestsSound`, `BountySound` | types, `RegistryDurable`, `LedgerBoots`, `NonceOnce`; `OneSolver`, `ProjectionExact`, `PoolComplete` |
| `FilesSound`, `NothingLost` | types, `PendingHasObject`, `MemoryIsDisk`; `KeepsPromises`, `QueueIsJournal` |
| `FoldSound`, `RewardsSound` | types, `FirstVerdictsApply`, `NeverOverdue`, `BarrierClosed`, `PrunedClean`, `SlotAlive`; `CompensationAdmissible`, `RewardsExact`, `OneWinner`, `PendingExact` |
| `DecidedOnce`, `Quarantined` | `PosedOnce`, `VestedOnce`; `QuarantineHeld`, `QuarantineBinds` |
| `SendsBounded`, `CopySound` | `RetryBound`, `HeadBudget`; types, `CopyCurrent` |
| `JournalSound`, `FlightSound` | types, `MemoryIsJournal`, `WrittenReplays`, `RefusedClean`; `LaunchedOnce`, `AnswersHold`, `AbandonedIsPoisoned` |

### Bounds, and why they suffice

*Ledger:* five blocks pass a halving, the cap, two maturities and a full window, and the
4-bit amounts overflow. *Node:* the tree has equal work with either hash order, the same
transfer confirmed on two branches, a conflicting one, a branch where a queued transfer
has no funds, and a fork below the window; the queue limit 2 and the recovery limit 4 are
both reached. *Service:* one slot and two callers is the smallest case where a timed-out
operation competes with a new one; the safety half is proved for any number of workers.
*Peers:* the fork `b3` ties with `a3` in height and wins by hash, `c1` outweighs
everything and lies below the window of a node with three blocks, a download takes one
or two pages, and the request limit 5 is what the longest round needs. `MaxFaults` bounds
broken connections and restarts: liveness is about a network that stops failing.

*Local node:* two works share a proof under two keys, one work scores too low to propose,
one is refused by the checker; two heights allow an extension, a reorganisation of both
depths and a session that expires in between; the quota and the caps of 2 are reached.
Tombstones are not evicted (`TombCap` 4 holds every key), so `ChargeExact` is checked in
its exact form. *Signed routes:* two nonces per signer allow announce, close, proof and a
replay of each; of two good proofs only one may solve; a peer's block or chain promotes
the very share the node holds. Nonces are only compared, so they are symmetric. *Gossip:*
a queue of one sheds the second announcement; the double-work block makes the shorter
chain heavier; a whole fork of three and the probe before it just fit into the budget of
a round, which is what `Converges` needs. *Packages:* one root has two references, one
reference is used for two roots, the byte limit and the count limit are both reached.
*Fold:* verdict capacity 1 per height makes jobs wait behind each other, two ties decide
between commits of one height, the window of 3 heights passes within the run, maturity
passes before and after a recheck. *Posting:* a budget of one post per head makes stages
and rebroadcasts compete; a part is rebroadcast once. *Shadow:* two requests can be for
one case or for two; the second kill hits the recovery from the first.

In `fold` and `posting` the scenario is chosen in the initial state, so one
run covers networks or submissions that are never mixed in one behaviour.

### Fairness

The ledger, the node, the local node, the routes, the fold and the posting client have
none: their properties are safety. `NativeService` assumes that threads run (weak fairness
of each internal step), that the drain timeout fires and that a shut-down socket ends its
round; nothing is assumed of clients, silent peers or backoffs. `NativePeers` assumes weak
fairness of each link: a worker retries after a bounded delay and each wait of a round has
a deadline. `PeerSync` assumes that the sync thread of every node goes on for ever, which
its loop with a poll interval does; announcements carry no assumption. `PackageFetch`
assumes that the loop polls for ever and that a node which ended is started again.
`ShadowReplay` assumes that owner tasks and request futures are scheduled and that a
launcher session ends by its deadlines; nothing of clients or kills.

`Settles` has one exception on purpose. A fork that begins below the undo window or is
longer than a round is reported as `bounded_reorg_requires_recovery` and waits for an
operator with an archive; `c1` reaches that case in the run.

The deadlock check is off where the model really ends: the nonces of `SignedRoutes` are
used up, the heights of `VerdictFold` and the heads of `DevnetPosting` are bounded, the
requests of `ShadowReplay` are one-shot.

### Refinement

`ProofCredit` is what an observer of the durable chain may rely on: it grows by one
replayable block or is replaced by one that wins the fork choice, it never falls back
whatever the process does, and with a checker it holds only accepted proofs.
`ImplementsCredit` maps `canon` to the block store (`disk.blocks`), so crashes in the middle
of a publication and boots count. The mutant that trusts a checkpoint of any length breaks
it. TLC checks it on the instance of the run, `CreditIsImplemented` proves it for every
value of the constants.

## Findings

`fold_recheck` (`boole-derivation/src/m3/fold.rs:169`): `apply_due` refuses a recheck whose
candidate is superseded. A kernel fix queues the recheck of a passed candidate that waits
behind an earlier one; the earlier one passes and settles before the recheck is due, and
the due recheck then accepts no outcome, so the height cannot be folded.
`docs/devnet-verdicts-v1.3.md:65` says that queued jobs "still run and can produce
informational records after those transitions". `FoldSound` therefore makes its claim of
first verdicts only.

Further observations from modelling, each of which bounds what a property above says.
They are not kept as runs; the change that shows each one is given.

* `local_node.rs:6021`: the dedup ledger records the submitter's proof and not the other
  proofs of the block, and records it also when the block did not select it, against the
  comments at 6009-6010. The block builder still pays no proof twice. Seen by comparing
  `node.dedup` with `Credited(node.chain)` in `local_node`.
* `local_node.rs:6736`: the checkpoint takes the height of the whole chain after one block
  was checked; a chain stored by an earlier run without a checker is then called verified
  (`checkpoint.rs:4`). Seen by letting `checker` change at a boot.
* `local_node.rs:6625`: a peer's block leaves the shares it promotes in the side pool; the
  node's next own block then fails its own replay until a restart or a reorganisation.
  Seen with the invariant that the pool is disjoint from `Promoted(node.chain)`.
* `m2.rs:831`: with two kernel fixes, a problem can be queued to be posed again after it was
  posed again, under the same id. Seen with two fixes in `net.forks` and `PosedOnce`.
* `m3/fold.rs:209`: a second kernel fix while a recheck waits queues the candidate once more,
  and the first recheck clears the pending mark for both. The candidate may then settle before
  the second one; if the first rejects it, the second finds nothing it may decide and the fold
  stops. Seen with fixes at two adjacent heights and `PendingExact`.
* `client.rs:426`: a reverted live receipt marks a stage as reverted although its block can
  still be replaced. `SentRecorded` speaks of behaviours without a replaced block.
* `client.rs:1626`: at a restart a record is counted once for its head. A part that was
  rebroadcast at a head, is found reverted after a replaced block and signed anew at the same
  head is charged twice and counted once, so the next restart exceeds a budget of more than
  one. `HeadBudget` speaks of behaviours without a replaced block, or a budget of one. Seen
  with `PBlk` 2 and a replaced block.
* `native_shadow.rs:2207`, `3503`: a kill between the two lines of `begin_execution_v3` leaves
  a row that never flew and that every later start refuses. A failed append of the second line
  does the same. `WrittenReplays` says that this is the only gap: the row is the last line of
  the journal, and while appends succeed and no owner is between two lines there is none.
* `client.rs:1606`: the write of a cancellation may be reported as failed after its rename.
  The client then goes on uncancelled; the cancellation is carried out after a restart, or is
  overwritten by the next save. `CopyCurrent` claims that the two copies list the same
  transactions, and of the cancellation only that none is in memory alone.
* `local_node.rs:3773`, `3904`: the session routes ask for the write authority and not for the
  health of the canonical state, so a node that failed a publication still registers and
  revokes sessions. `FailedIsReadOnly` freezes the canonical files then, and the sessions too
  once the authority is lost.
* `native_shadow_replay_service.rs:1900`: an owner that read the poison flag in time takes the
  permit after the ambiguous outcome of another, so two cases can be in flight. `FlightSound`
  claims one launch per case and a poisoned service, not one flight.
* `native_shadow_replay_service.rs:1615`: the lookup for redelivery and the state check are two
  lock periods, so a repeated submission can be told `challenge_exhausted` once.

## Proofs

All theorems hold for every value of the constants that satisfies the named
assumptions (`LedgerAssumption`, `MarkerAssumption`, `ChainAssumption`, `EnvelopeAssumption`,
`ForkAssumption`, `AncestryAssumption`, `PeersAssumption`, the native node's `NodeAssumption`, `ServiceAssumption`, `GrantAssumption`, `WorksAssumption`,
`LimitsAssumption`, `DifficultyAssumption`, `CapsAssumption`, `PostingAssumption`,
`SyncAssumption`, `StoreAssumption`, `FetchAssumption` and the local
node's `NodeAssumption`). `DifficultyAssumption` says that the weight of a block is positive: a
difficulty is the quotient of the largest 256-bit number by a target that is at most that
number, or 1 when the target is zero. `LedgerAssumption` has finitely many accounts, because
a key is a string of fixed length; `MarkerAssumption` keeps the marks for an absent entry
apart from what they stand in for. `AncestryAssumption` says that following the parents of a
block ends at genesis: a hash covers the hash of the parent, so there is no other way round.
`PeersAssumption` has a round no longer than the undo window: `MAX_NATIVE_PEER_ROUND_BLOCKS` and
`NATIVE_RECENT_FORK_BLOCKS` are both 256, and with a longer round a fork could pass the depth
check and then be refused.

* **NativeNode_proofs, the ledger.** Every property of `native_ledger`: `Reversible` (`UndoSound`),
  `SupplyIsSound`, `LocksAreSound`, `HistoryIsSound` and `WindowNeverReopens` (`WindowFloor`),
  with `TypeCorrect`, `RollBackExact`, `PreparationUndone`, `SupplyCap`,
  `LockedRewardsCovered` and `TransfersOnce` on the way. None of these is inductive alone. The
  invariant `LedgerInv` adds: `SoundLedgers` (every ledger, staged and remembered, is
  within the cap and covers its locks), `Noted` (an undo record knows everything
  the staged ledger changed), `Heights`, and `WindowInverts` (each retained undo
  record leads from one remembered ledger to the one below). The heart is a family of
  lemmas that each step of a preparation, applied to a record that inverts what was
  done so far, inverts one step more; the first old value is the one that counts,
  absence included. Three more invariants rest on it. `NoncesUsed`: what a block carries lies
  between the nonces of the ledgers below and above it, and nonces only grow along the chain,
  so no transfer comes back. `Accounted`: at every step, also between the unlocks and the
  transfers of a block, the balances sum to the issued supply, the locks of an account are
  the sum of its pending rewards, and the reward of every block that is not yet due is
  pending (`Backed`). `Replayed`: the staged ledger is what the loops of `ApplyBlock` have computed
  so far, in whatever order the rewards are unlocked, and each ledger of the history is
  `ApplyBlock` of the one below; a roll-back keeps it because `LedgerInv` makes it exact.
  Sums and loops are folds of the library, whose operator argument the provers
  cannot instantiate. `Combine` names the operations instead, `Folds` is the equation that all
  the folds solve; that it has a solution, and that two solutions agree, follows from a smallest
  counterexample among the subsets (`SmallestSet`), and sums and replays are instances.
* **NativeNode_proofs, the node.** All four properties of `native_node`: `VisibleIsDurable`
  (`DurableBeforeVisible`), `LogNeverRegresses` (`LogRankGrows`), `RestartIsSound`
  (`RestartSound`) and `MemoryIsSound` (`MemorySound`). Three layers. *The ledger of a
  chain:* every block of a valid chain keeps the ledger audited, covered and on time
  (`ChainSound`, from the facts about one block that the machine of `NativeLedger` is proved
  with, which is why one module has both), and the index kept across a reorganisation is the one a replay builds
  (`ReorgExact`). *The queue:* keeping again what was kept changes nothing (`KeptAgain`);
  orphans in front of the queue are skipped while the chain that confirmed them stands, and
  the union fits its file (`UnionKept`), so the first write of a reorganisation is invisible
  to a restart; and whatever the view reserves, a block has at least as much, whoever is paid
  the fees, so the whole queue can be mined (`BacksTransfer`, `QueueMineable`). These are
  inductions over the sequence that is folded, done with the least counterexample and with
  the claim as a set (`SeqInduction`). *The writes:* `IInv` states their order: which file
  equals which part of memory in each step of a publication, and that a candidate is
  preferred to the chain. `NodeInv` adds what each step may rely on: until the last write
  memory is what a restart derives (`QueueExact`), and what is retained is what a restart
  would derive from the files as the write under way leaves them (`TransferOutcome`,
  `BlockOutcome`, `ReorgOutcome`, `PoolOutcome`). `LeavesSound` is the heart: whatever an
  unsuccessful write leaves, the next boot finds the old promise or the new one.
* **NativePeers_proofs.** `RoundsAreSound` (`RoundSound`) and `RanksOnlyGrow` (`RanksGrow`), the
  safety properties of `native_peers`, for any peers and links, any tree of blocks with
  positive weights, any page size and any limits. A block has one parent, so two chains that
  share a block share what is below it (`PrefixIsChain`): one comparison tells on which side the
  common height lies (`Compared`), and the pages a server takes from one chain join into a
  piece of it (`PagesJoin`). `IInv` has three parts that say why this survives moving chains.
  The bounds of the search enclose the common height of the two *advertised* chains
  (`Bisecting`); every answer on the connection is about the advertised chain (`MessageOk`),
  since the server compares its head before it answers; and the client's chain is the one the
  round began with, undo window included, or one preferred to it (`SnapshotKept`). Preference
  is a strict order (`PreferredOrder`, for which the fold that adds up the work is shown to
  grow by each block), so a client that finds its first head again has not moved, and the
  window still reaches what the depth check was made against (`CollectedAdoptable`). A restart
  is the one step that shortens a window without a better chain, and it cuts the rounds.
* **NativeService_proofs.** `TypeCorrect`, `StopIsFinal`, `SweepIsComplete`,
  `WorkIsBounded`, and `GateHolds` and `StopHolds`, the properties `GateSound` and
  `StopSound` of the run for any number of requests and workers. `IInv` adds to the type invariant that the flag is set before any
  sweep (`FlagFirst`) and that a caller without a request has no operation
  (`NotStarted`). The bound is proved for the slots (`SlotsHold`) and carried over
  to operations by a cardinality argument.

* **ShadowReplay_proofs.** `JournalIsSound` and `FlightIsSound`, the properties
  `JournalSound` and `FlightSound` of the run, for any cases, requests and crash points.
  `IInv` ties every request to the row of its case: which lines the journal holds, what the
  service remembers of them and which permit is taken at each step, so that a restart at any
  step rebuilds the same memory from the same lines. `Gap` is proved on top of it: whoever
  writes holds the lock, so a row that has not flown stays the last line.
* **LocalNode_proofs.** `StoreIsSound`, `ChecksAreSound`, `OnlyAllowedWrites`,
  `CreditIsImplemented` and `SharesAreSound`, the properties `StoreSound`, `ChecksSound`,
  `WritesAllowed`, `ImplementsCredit` and `SharesSound` of the run. The parts of `IInv` are `FilesSound` (each disk boots),
  `MemorySound`, `Agrees` (files and memory are equal while the process is healthy) and
  `JobsSound` (what a submission found before it gave up the lock). A handler writes several
  files and may end after each of them, so the facts of one write are proved once for
  `DurableSteps` (`OutcomesSound`) and carried to every way the handler can end. That no
  check is skipped (`NeverSkipped`) needs that a chain which wins the fork choice is no
  prefix of the node's own (`PrefixLoses`, `WinnerIsUnverified`). The weight of a
  chain is a recursive function; what is needed of it is proved by the least counterexample
  (`LeastNatural`), which the provers can use where an induction rule they cannot. The
  refinement follows from the same invariant: a publication that replaces blocks has won,
  one that extends them has been replayed, and every other step leaves the block store alone.
  `SharesSound` has an invariant of its own on top of that one, `TInv`, in which `Pools` is the
  part that matters: reservations are distinct, no work of the pool shares its key with
  another, and what an identity was charged covers its active and its reserved shares, exactly
  so when no reservation can be evicted. A share moves between the two lists without a new
  charge and leaves with one refund, so each operation on the pool is one of three facts about
  a cardinality (`ChargeOne`, `RefundOne`, `ChargeKept`); every handler is then a path of such
  operations and of the writes around them.

* **DevnetPosting_proofs.** `SentIsRecorded`, `SendsAreBounded` and `CopyIsSound`, the
  properties `SentRecorded`, `SendsBounded` and `CopySound` of the run, for every submission,
  budget, number of rebroadcasts, and any number of failures and ends of the process. `IInv`
  follows a tick step by step. `Sync` says where the two copies of the record agree; they
  differ only on the way into a recovery and in the stage that is under way (`Stepping`).
  `Flight` adds that a record about to be replaced names no transaction that may still take
  effect, without which a new signature could hide the old one; `Budget` that what was sent
  at a head is charged on disk to as many records, so that a count after a restart is no
  lower; `Fresh` that a stage found reverted was not rebroadcast at the same head, which is
  where a replaced block breaks the count. That a cancellation is never in memory only
  (`CancelOnDisk`) has a short induction of its own.

* **PeerSync_proofs.** `ForkChoiceHolds` and `RoundsAreSound`, the properties `ForkChoice`
  and `RoundsSound` of the run, for any set of nodes and graph of peers, any work, size and
  hash of a block, and any budget. Every step keeps a chain or makes it better (`Grows`):
  an extension has more work because every block has some (`WeightGrows`), an adopted chain
  has won. Fork choice is transitive (`BetterTransitive`), so a head that was a peer's once
  is held or improved on for ever, which is what a round's head (`HeadsTrue`) and an
  observation (`SeenTrue`) rest on. A complete download that is linked is the advertised
  chain itself (`LinkedIsHead`), so no mixture of two chains is ever weighed.

* **PackageFetch_proofs.** `FilesAreSound` and `NothingIsLost`, the properties `FilesSound`
  and `NothingLost` of the run, for any pairs, sizes, capacities and configuration. What a
  process sees of the disk says nothing about a power loss, so `IInv` speaks of every
  snapshot that may be read next: each FIFO lists only objects that are there beyond doubt
  or were lost from outside (`FifosKept`), and each FIFO together with each journal has all
  that callers were told (`PromisesKept`). The key is `Settled`: a store that is open and
  not poisoned has no doubtful snapshot, so an operation starts from one state of the files
  and leaves at most two. A kill ends that, and the two syncs of the next `open` restore it
  (`AuthorityIs`, `OpenStep`): kill, reopen and power loss are covered in any order, and
  without the syncs the same three steps lose a confirmed pair (the mutant of
  `NothingLost`). Between a kill and the next `open` the invariant speaks of each file that
  may be found, also for an `open` that fails half-way. Each operation is first reduced to its effect
  (`StageEffect`, `AckEffect`, `JournalEffect`) over all the ways it can fail; the sums of
  bytes and the merged journal are recursive functions, treated by the least counterexample.
  For the thread `IInv` adds that no pair is twice in its hands (`HandsDistinct`).

Only model-checked: all liveness (`StopCompletes`, `OperationsEnd`, `Settles`, `Converges`,
`FetchedInTheEnd`, `GateReleased`), because fairness is outside the prover; `SignedRoutes`, whose
ledgers are filtered and folded in almost every step; and the fold. `DecidedOnce` and
`RewardsSound` hold of networks with at most one kernel fix (the observations on `m2.rs:831` and
`m3/fold.rs:209`), so a theorem for every network would be false; one for a single fix, and
`FoldSound`, need an invariant of the whole verdict queue that is not written yet.

## Not modelled, and what follows from it

* Files changed by another process (`native state file changed outside this writer`),
  the stamps and fences that detect it, and the state-directory lock.
* Byte limits of logs, messages and rounds. A fork that fits the block limit of a
  round and not its byte limit is therefore outside `Settles`.
* The clock: drift limits and timestamps are part of being a block.
* The first creation of the two files, and a complete but unsynced line that
  survives a failed roll-back and is then lost with the power.
* Two encodings of one block under one hash.
* The outcome of a write that fails after its rename is chosen when it fails.
* The exchange of pending transfers at the end of a round, the cooldown of inbound
  rounds and the single early reconnect probe.
* The diagnostics route, which takes no lock and has slots of its own.
* Local node: timestamps, retargeting and reward amounts; the static bounty catalog and
  settlement amounts; the frame syntax of gossip. `SkipReverify` is unreachable as long as
  the checkpoint is a prefix of the chain. That the checker's permit comes back is the
  invariant `OneChecker` with the release on every path, not a liveness property.
* Packages: encoding, tuple verification, the descriptors that keep the directory.
* Fold: more than one slot (slots share nothing), the order of settlement across problems
  (arbitrary), quarantine lists that name absent jobs; fuel is fixed when a job is queued.
* Posting: `consumed_posts`, more than one submission at a time. A cancel whose write
  failed may be on disk all the same and is then carried out after a restart, as in the
  code.
* Replay service: the launcher itself, the legacy lifecycle rows of versions 1 and 2, the
  canary route and the macOS controller. Authorisation failures that the grant excludes are
  no steps; reserving a failed append and poisoning the journal is one step.

## Plan

1. *Pending exchange and reconnection.* `NativePeers` with queues, and a small module for
   `ConnectRecovery`: at most one early probe per outage.
2. *Gate supervisor; devnet archive journal and driver.* Worker processes with deadlines,
   retries and a cache; boot recovery of the archive, composed with `VerdictFold`.
3. *Durability fences, state directory, archive import.*
4. *Composition.* A specification of a single atomic node, with `NativeNode` shown to
   implement it, used by `NativePeers` for each of its nodes; `LocalNode` in the place of the
   one-step store of `PeerSync`.
5. *Proofs.* `RequestsSound` and `BountySound` of `SignedRoutes`, and `FoldSound` for networks
   with one kernel fix.
