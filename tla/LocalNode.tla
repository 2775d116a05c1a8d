------------------------------ MODULE LocalNode ------------------------------
(***************************************************************************)
(* The local node: submissions over HTTP, shares, blocks and chains from   *)
(* peers, the files they end in, and the boot that repairs those files.    *)
(*                                                                         *)
(* With a checker, the four lanes run in two phases.  The first, under the *)
(* state lock, admits the work and reserves it; then the checker runs with *)
(* the state unlocked; the second, locked again, reads every premise anew  *)
(* and publishes.  One permit is held from before the admission to the end *)
(* of the second phase.  Without a checker one locked phase does it all.   *)
(***************************************************************************)
EXTENDS SharePool, DurableSteps

CONSTANTS
    Nonces,         \* what a wallet can sign as its nonce
    NoNonce,        \* a submission without a session
    AllowAnonymous, \* --allow-anonymous-submit
    ExpiresAt,      \* [Pks -> Nat]: the height from which a session is refused
    PeerChains      \* bound of the model: the chains peers can offer

ASSUME NodeAssumption ==
    /\ NoNonce \notin Nonces
    /\ AllowAnonymous \in BOOLEAN
    /\ ExpiresAt \in [Pks -> Nat]
    /\ PeerChains \subseteq Chains

VARIABLES
    up,     \* the process runs
    node,   \* its memory: chain (block cache and head), shares, dedup, nonces,
            \*   sessions, ckpt, poison (CanonicalPublishPhase), authority
    disk,   \* the files, and made: which session request stored which chain
    jobs,   \* works, blocks and chains handed to the checker
    busy,   \* the permit of SemanticVerifier
    checker \* a checker is configured, in every run of the process

vars == <<up, node, disk, jobs, busy, checker>>

SessionStates == {"none", "active", "revoked"}
NonceKeys == Pks \X Nonces

(* The memory of a process that starts on these files: the chain of the
   block store, the dedup mirror of its credits, and a checkpoint only if it
   is a prefix of that chain.  No checkpoint is the empty prefix. *)
SurvivingCkpt(ckpt, chain) == IF PrefixOf(ckpt, chain) THEN ckpt ELSE <<>>

Booted(files) ==
    [chain |-> files.blocks, shares |-> EmptyShares,
     dedup |-> Credited(files.blocks), nonces |-> files.nonces, sessions |-> files.sessions,
     ckpt |-> SurvivingCkpt(files.ckpt, files.blocks),
     poison |-> "none", authority |-> TRUE]

NoFiles ==
    [blocks |-> <<>>, rewards |-> <<>>, rows |-> <<>>, dedup |-> {}, nonces |-> {},
     receipts |-> {}, ckpt |-> <<>>, sessions |-> [pk \in Pks |-> "none"], made |-> {}]

Halted == [Booted(NoFiles) EXCEPT !.authority = FALSE]

Init ==
    /\ up = TRUE
    /\ node = Booted(NoFiles)
    /\ disk = NoFiles
    /\ jobs = {}
    /\ busy = FALSE
    /\ checker \in BOOLEAN

-----------------------------------------------------------------------------
(* How a phase ends. *)

(* A locked phase ends with one of its outcomes; the jobs and the permit are
   gone with the process. *)
EndsWith(outcome, jobsLeft, busyLeft) ==
    /\ disk' = outcome.disk
    /\ node' = outcome.node
    /\ up' = (outcome.end # "crash")
    /\ jobs' = IF outcome.end = "crash" THEN {} ELSE jobsLeft
    /\ busy' = (outcome.end # "crash" /\ busyLeft)
    /\ UNCHANGED checker

(* A phase that changes memory only. *)
Leaves(shares, jobsLeft, busyLeft) ==
    /\ node' = [node EXCEPT !.shares = shares]
    /\ jobs' = jobsLeft
    /\ busy' = busyLeft
    /\ UNCHANGED <<up, disk, checker>>

Healthy == node.poison = "none"

Ready == up /\ node.authority /\ Healthy

(* The permit is asked for before anything is charged. *)
PermitFree == checker => ~busy

-----------------------------------------------------------------------------
(* Publishing. *)

Write_NeverPoisons(files, memory, phase, isRewrite) ==
    [disk |-> files, during |-> memory, rewrite |-> isRewrite]

Write(files, memory, phase, isRewrite) ==
    [disk |-> files, during |-> [memory EXCEPT !.poison = phase], rewrite |-> isRewrite]

(* Memory after a new head: the pool, the candidates and the charges of the
   old one are dropped. *)
OnHead(memory, chain) == [memory EXCEPT !.chain = chain, !.shares = EmptyShares]

(* The session of the submitter is known, not revoked, not expired, and its
   nonce is not burned. *)
SessionGate(pk, nonce) ==
    /\ node.sessions[pk] = "active"
    /\ Len(node.chain) < ExpiresAt[pk]
    /\ <<pk, nonce>> \notin node.nonces

SubmitGate(w, nonce) ==
    IF nonce = NoNonce THEN AllowAnonymous ELSE SessionGate(Pk[w], nonce)

(* What burn_submit_nonce does to files and to memory. *)
Burn(record, w, nonce) ==
    IF nonce = NoNonce THEN record ELSE [record EXCEPT !.nonces = @ \cup {<<Pk[w], nonce>>}]

BurnWrites(w, nonce, memory) ==
    IF nonce = NoNonce THEN <<>>
    ELSE <<Write(Burn(disk, w, nonce), memory, "none", FALSE)>>

(* The dedup slot taken by the producer of a block. *)
ProducerCredits(w, block) == {Proof[w]}

(* The block of a submission: stored, rewarded, applied, its proof recorded,
   its bounty rows appended, and a receipt if the submitter is paid by it. *)
ProduceWrites(w, nonce, start, memory, block) ==
    LET next == Append(memory.chain, block)
        stored == [start EXCEPT
                     !.blocks = next,
                     !.made = IF nonce = NoNonce THEN @ ELSE @ \cup {<<<<Pk[w], nonce>>, next>>}]
        rewarded == [stored EXCEPT !.rewards = next]
        credited == [rewarded EXCEPT !.dedup = @ \cup ProducerCredits(w, block)]
        projected == [credited EXCEPT !.rows = next]
        receipt == [projected EXCEPT !.receipts = @ \cup {<<Pk[w], nonce>>}]
        applied == OnHead(memory, next)
        recorded == [applied EXCEPT !.dedup = @ \cup ProducerCredits(w, block)]
    IN [writes |-> <<Write(stored, memory, "block_reward", FALSE),
                     Write(rewarded, memory, "block_reward", FALSE),
                     Write(credited, applied, "proof_dedup", FALSE),
                     Write(projected, recorded, "bounty_projection", FALSE)>>
                   \o (IF nonce # NoNonce /\ \E v \in block : Pk[v] = Pk[w]
                       THEN <<Write(receipt, recorded, "none", FALSE)>> ELSE <<>>),
        done |-> recorded]

(* submit_finalize on a pool in which w is a candidate: burn the nonce, and
   when the candidates hold a proposer, publish the block.  A nonce that is
   already burned is an error; so is, after the burn, a block from too far in
   the future or one that fails the node's own replay. *)

Finalize(w, nonce, shares) ==
    LET before == [node EXCEPT !.shares = shares]
        memory == Burn(before, w, nonce)
        burn == BurnWrites(w, nonce, before)
        burnt == Burn(disk, w, nonce)
        block == Selection(shares.candidates, Tag[w], node.chain)
        produce == ProduceWrites(w, nonce, burnt, memory, block)
    IN IF <<Pk[w], nonce>> \in node.nonces
       THEN {[disk |-> disk, node |-> before, end |-> "error"]}
       ELSE IF ~ HasProposer(block)
       THEN Outcomes(disk, burn, memory, Halted)
       ELSE {[disk |-> burnt, node |-> memory, end |-> "error"]}
            \cup (IF ReplayOk(Append(node.chain, block))
                  THEN Outcomes(disk, burn \o produce.writes, produce.done, Halted)
                  ELSE {})

-----------------------------------------------------------------------------
(* POST /submit. *)

Admitted(w) == Admit(node.shares, w)

(* MaxHeight is the bound of the model. *)
SubmitAllowed(w, nonce) ==
    /\ Ready
    /\ Len(node.chain) < MaxHeight
    /\ SubmitGate(w, nonce)
    /\ PermitFree
    /\ Admissible(node.shares, w)

(* The proof was credited: the share stays charged and is never selected. *)
SubmitDuplicate(w, nonce) ==
    /\ SubmitAllowed(w, nonce)
    /\ Proof[w] \in node.dedup
    /\ Leaves(Quarantine(Admitted(w), w), jobs, busy)

Job(lane, item, nonce) ==
    [lane |-> lane, item |-> item, nonce |-> nonce, anchor |-> node.chain, attached |-> TRUE]

ReserveAndCheck(lane, w, nonce) ==
    IF Takeable(Admitted(w), w)
    THEN Leaves(Take(Admitted(w), w), jobs \cup {Job(lane, w, nonce)}, TRUE)
    ELSE Leaves(Take(Admitted(w), w), jobs, busy)

SubmitReserve(w, nonce) ==
    /\ SubmitAllowed(w, nonce)
    /\ Proof[w] \notin node.dedup
    /\ checker
    /\ ReserveAndCheck("http", w, nonce)

SubmitUnchecked(w, nonce) ==
    /\ SubmitAllowed(w, nonce)
    /\ Proof[w] \notin node.dedup
    /\ ~ checker
    /\ \E o \in Finalize(w, nonce, Admitted(w)) : EndsWith(o, jobs, busy)

(* What the checker can say about the works it was given. *)
Verdicts(works) ==
    {IF works \subseteq Valid THEN "verified" ELSE "reject", "unavailable", "panic"}

(* The share was taken from this head and can go back into its pool. *)
CanRestore(j) == Restorable(node.shares, j.item, j.anchor = node.chain)

Fate_NoSecondGate(j, verdict) ==
    CASE ~ Ready \/ verdict = "reject" -> "keep"
      [] Ready /\ verdict \in {"unavailable", "panic"} -> "release"
      [] OTHER -> IF CanRestore(j) THEN "finalize" ELSE "release"

(* Phase 3: what becomes of the reservation. *)
Fate(j, verdict) ==
    CASE ~ node.authority -> "keep"
      [] node.authority /\ verdict = "panic" -> "release"
      [] node.authority /\ verdict # "panic" /\ ~ Healthy -> "keep"
      [] Ready /\ verdict = "reject" -> "keep"
      [] Ready /\ verdict = "unavailable" -> "release"
      [] Ready /\ verdict = "verified" ->
            IF \/ node.chain # j.anchor
               \/ Proof[j.item] \in node.dedup
               \/ ~ SubmitGate(j.item, j.nonce)
            THEN "keep"
            ELSE IF CanRestore(j) THEN "finalize" ELSE "release"

(* A failed finalize takes the share out of selection again. *)
WithoutShare(outcome, w) ==
    IF outcome.end = "error"
    THEN [outcome EXCEPT !.node.shares = Quarantine(@, w)]
    ELSE outcome

FinishSubmit(j, verdict) ==
    /\ up
    /\ j.lane = "http" /\ j.attached
    /\ verdict \in Verdicts({j.item})
    /\ CASE Fate(j, verdict) = "keep" -> Leaves(node.shares, jobs \ {j}, FALSE)
         [] Fate(j, verdict) = "release" ->
               Leaves(Release(node.shares, j.item, j.anchor = node.chain), jobs \ {j}, FALSE)
         [] Fate(j, verdict) = "finalize" ->
               \E o \in Finalize(j.item, j.nonce, Restore(node.shares, j.item)) :
                  EndsWith(WithoutShare(o, j.item), jobs \ {j}, FALSE)

CancelSubmit_FreesPermit(j) ==
    /\ up
    /\ j.lane = "http" /\ j.attached
    /\ jobs' = (jobs \ {j}) \cup {[j EXCEPT !.attached = FALSE]}
    /\ busy' = FALSE
    /\ UNCHANGED <<up, node, disk, checker>>

(* The client goes away or the route times out.  The checker cannot be
   stopped: it keeps the permit, and the reservation is never given back. *)
CancelSubmit(j) ==
    /\ up
    /\ j.lane = "http" /\ j.attached
    /\ jobs' = (jobs \ {j}) \cup {[j EXCEPT !.attached = FALSE]}
    /\ UNCHANGED <<up, node, disk, busy, checker>>

OrphanDone(j) ==
    /\ up
    /\ ~ j.attached
    /\ Leaves(node.shares, jobs \ {j}, FALSE)

-----------------------------------------------------------------------------
(* Shares, blocks and chains from peers. *)

(* No session, no nonce, no block: a peer's share only becomes a candidate. *)
PeerShare(w) ==
    /\ Ready
    /\ PermitFree
    /\ Admissible(node.shares, w)
    /\ CASE Proof[w] \in node.dedup -> Leaves(Quarantine(Admitted(w), w), jobs, busy)
         [] Proof[w] \notin node.dedup /\ checker -> ReserveAndCheck("share", w, NoNonce)
         [] OTHER -> Leaves(Admitted(w), jobs, busy)

FinishPeerShare(j, verdict) ==
    /\ up
    /\ j.lane = "share"
    /\ verdict \in Verdicts({j.item})
    /\ LET shares == node.shares
           released == Release(shares, j.item, j.anchor = node.chain)
       IN Leaves(CASE ~ node.authority \/ verdict = "reject" -> shares
                   [] node.authority /\ verdict \in {"unavailable", "panic"} -> released
                   [] OTHER ->
                        IF ~ Healthy THEN released
                        ELSE IF Proof[j.item] \in node.dedup THEN shares
                        ELSE IF CanRestore(j) THEN Restore(shares, j.item) ELSE released,
                 jobs \ {j}, FALSE)

(* The block extends the head by one and the extended chain replays. *)
AnnouncedOk(next) ==
    /\ Healthy
    /\ Len(next) = Len(node.chain) + 1
    /\ PrefixOf(node.chain, next)
    /\ ReplayOk(next)

(* Only the block a checkpoint ends with can rely on it; another block at its
   height discards it. *)
SkipDecision(next) ==
    CASE node.ckpt = <<>> \/ Len(next) # Len(node.ckpt) -> "run"
      [] node.ckpt # <<>> /\ next = node.ckpt -> "skip"
      [] OTHER -> "diverged"

(* commit_announced_block: block, reward, memory, bounty rows, one dedup entry
   per selected share, and the checkpoint if the checker accepted the block. *)
CommitBlock(next, reverified) ==
    LET diverged == SkipDecision(next) = "diverged"
        start == IF diverged THEN [disk EXCEPT !.ckpt = <<>>] ELSE disk
        memory == IF diverged THEN [node EXCEPT !.ckpt = <<>>] ELSE node
        stored == [start EXCEPT !.blocks = next]
        rewarded == [stored EXCEPT !.rewards = next]
        projected == [rewarded EXCEPT !.rows = next]
        selected == SetToSeq(Last(next))
        credits(record, n) == [record EXCEPT !.dedup = @ \cup {Proof[selected[i]] : i \in 1..n}]
        verified == [credits(projected, Len(selected)) EXCEPT !.ckpt = next]
        applied == OnHead(memory, next)
        recorded == credits(applied, Len(selected))
    IN Outcomes(start,
                <<Write(stored, memory, "block_reward", FALSE),
                  Write(rewarded, memory, "block_reward", FALSE),
                  Write(projected, applied, "bounty_projection", FALSE)>>
                \o [n \in DOMAIN selected |->
                      Write(credits(projected, n), credits(applied, n - 1), "proof_dedup", FALSE)]
                \o (IF reverified /\ SkipDecision(next) # "skip"
                    THEN <<Write(verified, recorded, "none", TRUE)>> ELSE <<>>),
                recorded, Halted)

PeerBlock(next) ==
    /\ up /\ node.authority
    /\ AnnouncedOk(next)
    /\ IF checker /\ SkipDecision(next) # "skip"
       THEN ~ busy /\ Leaves(node.shares, jobs \cup {Job("block", next, NoNonce)}, TRUE)
       ELSE \E o \in CommitBlock(next, FALSE) : EndsWith(o, jobs, busy)

FinishPeerBlock(j, verdict) ==
    /\ up
    /\ j.lane = "block"
    /\ verdict \in Verdicts(Last(j.item))
    /\ IF verdict = "verified" /\ AnnouncedOk(j.item) /\ node.authority
       THEN \E o \in CommitBlock(j.item, TRUE) : EndsWith(o, jobs \ {j}, FALSE)
       ELSE Leaves(node.shares, jobs \ {j}, FALSE)

(* The candidate replays and wins the choice against the current chain. *)
CandidateWins(chain) ==
    /\ Healthy
    /\ ReplayOk(chain)
    /\ ChooseCandidate(node.chain, chain)

Unverified_AnyPrefix(chain) == SubSeq(chain, Len(node.ckpt) + 1, Len(chain))

(* The blocks above the verified prefix, if the candidate has that prefix. *)
Unverified(chain) ==
    SubSeq(chain, Len(SurvivingCkpt(node.ckpt, chain)) + 1, Len(chain))

(* commit_candidate_chain: the files are replaced one after another; the
   checkpoint is dropped if the chain left its prefix. *)
CommitChain(chain) ==
    LET stored == [disk EXCEPT !.blocks = chain]
        rewarded == [stored EXCEPT !.rewards = chain]
        credited == [rewarded EXCEPT !.dedup = Credited(chain)]
        projected == [credited EXCEPT !.rows = chain]
        dropped == [projected EXCEPT !.ckpt = <<>>]
        applied == OnHead(node, chain)
        recorded == [applied EXCEPT !.dedup = Credited(chain)]
        done == [recorded EXCEPT !.ckpt = SurvivingCkpt(@, chain)]
    IN Outcomes(disk,
                <<Write(stored, node, "reorg_reward", TRUE),
                  Write(rewarded, node, "reorg_reward", TRUE),
                  Write(credited, applied, "proof_dedup", TRUE),
                  Write(projected, recorded, "bounty_projection", TRUE)>>
                \o (IF done.ckpt # node.ckpt THEN <<Write(dropped, done, "none", TRUE)>> ELSE <<>>),
                done, Halted)

PeerChain(chain) ==
    /\ up /\ node.authority
    /\ CandidateWins(chain)
    /\ IF checker /\ Unverified(chain) # <<>>
       THEN ~ busy /\ Leaves(node.shares,
                jobs \cup {[Job("chain", chain, NoNonce) EXCEPT !.anchor = Unverified(chain)]}, TRUE)
       ELSE \E o \in CommitChain(chain) : EndsWith(o, jobs, busy)

(* The anchor of such a job holds the blocks the checker was given. *)
FinishPeerChain(j, verdict) ==
    /\ up
    /\ j.lane = "chain"
    /\ verdict \in Verdicts(WorksOf(j.anchor))
    /\ IF verdict = "verified" /\ CandidateWins(j.item) /\ node.authority
       THEN \E o \in CommitChain(j.item) : EndsWith(o, jobs \ {j}, FALSE)
       ELSE Leaves(node.shares, jobs \ {j}, FALSE)

-----------------------------------------------------------------------------
(* Sessions, faults and the boot. *)

SessionEvent(pk, state) ==
    LET files == [disk EXCEPT !.sessions[pk] = state]
    IN Outcomes(disk, <<Write(files, node, node.poison, FALSE)>>,
                [node EXCEPT !.sessions[pk] = state], Halted)

Register(pk) ==
    /\ up /\ node.authority
    /\ node.sessions[pk] # "active"
    /\ \E o \in SessionEvent(pk, "active") : EndsWith(o, jobs, busy)

Revoke(pk) ==
    /\ up /\ node.authority
    /\ node.sessions[pk] # "none"
    /\ \E o \in SessionEvent(pk, "revoked") : EndsWith(o, jobs, busy)

(* A lock file is replaced, or a ledger outside this module is fenced. *)
LoseAuthority ==
    /\ up /\ node.authority
    /\ node' = [node EXCEPT !.authority = FALSE]
    /\ UNCHANGED <<up, disk, jobs, busy, checker>>

Crash ==
    /\ up
    /\ EndsWith([disk |-> disk, node |-> Halted, end |-> "crash"], {}, FALSE)

(* The block store is canonical; the rows, the rewards, the checkpoint and the
   dedup mirror are rebuilt from it in this order. *)
BootWrites ==
    LET projected == [disk EXCEPT !.rows = disk.blocks]
        rewarded == [projected EXCEPT !.rewards = disk.blocks]
        checked == [rewarded EXCEPT !.ckpt = SurvivingCkpt(@, disk.blocks)]
        credited == [checked EXCEPT !.dedup = Credited(disk.blocks)]
    IN <<Write(projected, Halted, "none", TRUE), Write(rewarded, Halted, "none", TRUE),
         Write(checked, Halted, "none", TRUE), Write(credited, Halted, "none", TRUE)>>

(* The stored chain replays. *)
Bootable == ReplayOk(disk.blocks)

Boot ==
    /\ ~ up
    /\ Bootable
    /\ \E o \in Completed(disk, BootWrites, Booted(disk)) : EndsWith(o, {}, FALSE)

(* The boot is interrupted or one of its writes fails. *)
BootFails ==
    /\ ~ up
    /\ Bootable
    /\ \E o \in Stopped(disk, BootWrites, Halted) : EndsWith(o, {}, FALSE)

-----------------------------------------------------------------------------
FinishJob(j) ==
    \/ \E v \in Verdicts({}) \cup {"reject"} :
          FinishSubmit(j, v) \/ FinishPeerShare(j, v) \/ FinishPeerBlock(j, v) \/ FinishPeerChain(j, v)
    \/ OrphanDone(j)

Next ==
    \/ \E w \in Works, nonce \in Nonces \cup {NoNonce} :
          SubmitDuplicate(w, nonce) \/ SubmitReserve(w, nonce) \/ SubmitUnchecked(w, nonce)
    \/ \E w \in Works : PeerShare(w)
    \/ \E chain \in PeerChains : PeerBlock(chain) \/ PeerChain(chain)
    \/ \E j \in jobs : FinishJob(j) \/ CancelSubmit(j)
    \/ \E pk \in Pks : Register(pk) \/ Revoke(pk)
    \/ LoseAuthority
    \/ Crash
    \/ Boot
    \/ BootFails

Spec == Init /\ [][Next]_vars

-----------------------------------------------------------------------------
(* Properties. *)

(* The variables have the shapes the structures of the node give them. *)
TypeOK ==
    /\ up \in BOOLEAN /\ busy \in BOOLEAN
    /\ \A chain \in {node.chain, node.ckpt, disk.blocks, disk.rewards, disk.rows, disk.ckpt} :
          Len(chain) <= MaxHeight /\ \A h \in DOMAIN chain : chain[h] \subseteq Works
    /\ node.dedup \subseteq Proofs /\ node.nonces \subseteq NonceKeys
    /\ node.sessions \in [Pks -> SessionStates]
    /\ node.poison \in {"none", "block_reward", "reorg_reward", "proof_dedup", "bounty_projection"}
    /\ {node.authority, checker} \subseteq BOOLEAN
    /\ node.shares.candidates \subseteq Works /\ node.shares.active \subseteq Keys
    /\ ToSet(node.shares.tombs) \subseteq Keys /\ Len(node.shares.tombs) <= TombCap
    /\ node.shares.used \in [Pks -> 0..PkQuota]
    /\ disk.dedup \subseteq Proofs
    /\ disk.nonces \cup disk.receipts \subseteq NonceKeys
    /\ disk.sessions \in [Pks -> SessionStates]
    /\ \A made \in disk.made : made[1] \in NonceKeys
    /\ \A j \in jobs : j.lane \in {"http", "share", "block", "chain"} /\ j.attached \in BOOLEAN

(* A process that reports no partial publication serves exactly what is
   stored: block store, reward ledger, bounty rows and dedup mirror describe
   one chain, and while it may write, so do the nonces and the sessions. *)
StoreAgrees ==
    /\ up /\ Healthy =>
          /\ disk.blocks = node.chain /\ disk.rewards = node.chain /\ disk.rows = node.chain
          /\ disk.dedup = node.dedup
    /\ up /\ node.authority => disk.nonces = node.nonces /\ disk.sessions = node.sessions

(* Whatever was interrupted, the stored chain replays, so that the next boot
   accepts it: no block is written that the node's own replay refuses. *)
Recoverable == Bootable

(* With a checker, no unchecked share can be selected by a block, not even
   while its check runs or after it was cut short. *)
Eligible == up /\ checker => node.shares.candidates \subseteq Valid

(* At most one checker runs, a checker whose client is gone included, and it
   runs under the permit. *)
OneChecker == Cardinality(jobs) <= 1 /\ (busy <=> jobs # {})

(* What the first phase established still holds when the second one starts:
   the head did not move, the reserved share is still known as reserved and
   was not admitted twice, the block still extends, the chain still wins. *)
PremisesHold ==
    \A j \in jobs :
        /\ j.lane \in {"http", "share"} =>
              /\ j.anchor = node.chain
              /\ Key(j.item) \in ToSet(node.shares.tombs)
              /\ Key(j.item) \notin node.shares.active
              /\ j.item \notin node.shares.candidates
        /\ j.lane = "block" => PrefixOf(node.chain, j.item) /\ Len(j.item) = Len(node.chain) + 1
        /\ j.lane = "chain" => ChooseCandidate(node.chain, j.item)

(* The pool and the candidate list, kept apart, hold the same shares, and no
   share is both active and reserved. *)
PoolAgrees ==
    /\ {Key(w) : w \in node.shares.candidates} = node.shares.active
    /\ Cardinality(node.shares.candidates) = Cardinality(node.shares.active)
    /\ node.shares.active \cap ToSet(node.shares.tombs) = {}

(* Every charge stands for a share that is active or reserved: a retry after
   an unavailable checker costs nothing, a refused share stays charged.  An
   evicted reservation keeps its charge. *)
ChargeExact ==
    \A pk \in Pks :
        LET held == Cardinality(ActiveOf(node.shares, pk))
                    + Cardinality({k \in ToSet(node.shares.tombs) : k[1] = pk})
        IN /\ node.shares.used[pk] >= held
           /\ TombCap >= Cardinality(Keys) => node.shares.used[pk] = held

(* A session request stores at most one block, and never one whose nonce could
   be used again after a crash; only such requests have receipts. *)
BurnFirst ==
    /\ \A made \in disk.made : made[1] \in disk.nonces
    /\ \A m1, m2 \in disk.made : m1[1] = m2[1] => m1 = m2
    /\ disk.receipts \subseteq {made[1] : made \in disk.made}

(* The checkpoint in memory is a prefix of the chain served, so that no check
   is skipped for a block it does not cover. *)
CkptIsPrefix == Healthy => PrefixOf(node.ckpt, node.chain)

(* What a checkpoint calls verified holds only proofs the checker accepts. *)
CheckpointSound == WorksOf(disk.ckpt) \cup WorksOf(node.ckpt) \subseteq Valid

(* The files and the memory of a node agree, boot again and burn a nonce
   before what it was signed for. *)
StoreSound == StoreAgrees /\ Recoverable /\ BurnFirst

(* The shares of a node are of their type, kept alike in pool and candidate
   list, and charged exactly. *)
SharesSound == TypeOK /\ PoolAgrees /\ ChargeExact

(* One checker at a time, its premises stable while the state is unlocked, and
   nothing selected or called verified that it did not accept. *)
ChecksSound == OneChecker /\ PremisesHold /\ Eligible /\ CkptIsPrefix /\ CheckpointSound

(* A nonce is burned, and with it a submission carried out, only for a session
   that is active at that very moment, also when it was revoked while the
   checker ran. *)
ActiveSessionsOnly ==
    [][\A k \in disk'.nonces \ disk.nonces : node.sessions[k[1]] = "active"]_vars

(* After a partial publication, or without the authority to write, the process
   changes none of the canonical files, and without the authority not the
   sessions either: only a boot does.  A failed publication alone leaves the
   sessions writable: their routes ask for the authority and not for the health
   of the canonical state (local_node.rs:3773, 3904). *)
FailedIsReadOnly ==
    [][/\ up /\ (~ Healthy \/ ~ node.authority) =>
            \A file \in {"blocks", "rewards", "rows", "dedup", "nonces", "receipts", "ckpt"} :
               disk'[file] = disk[file]
       /\ up /\ ~ node.authority => disk'.sessions = disk.sessions]_vars

(* What a process may write, as one property of its steps. *)
WritesAllowed == ActiveSessionsOnly /\ FailedIsReadOnly

(* The durable chain behaves as ProofCredit promises. *)
Credit == INSTANCE ProofCredit WITH canon <- disk.blocks, checker <- checker

ImplementsCredit == Credit!Spec

=============================================================================
