--------------------------- MODULE DevnetPosting ---------------------------
(***************************************************************************)
(* The devnet miner client posts one submission to the L1 inbox: a COMMIT, *)
(* an OPEN, its PARTs, or a CANCEL.  A tick reads the finalized fold and   *)
(* the head, advances the submission stage by stage, and rebroadcasts      *)
(* parts with what is left of the budget of the head.  Every transaction   *)
(* is recorded on disk before it is sent.  A step of the model is what the *)
(* client does between two points where a write or a call can fail or the  *)
(* process can end.                                                        *)
(*                                                                         *)
(* The chain is the environment: it mines, reverts, forgets and reorders   *)
(* what was sent, and it moves while a tick runs.  A store write replaces  *)
(* the record or not, and may report a failure either way.                 *)
(***************************************************************************)
EXTENDS Integers, Sequences, FiniteSets

CONSTANTS
    PBlk,               \* posts per observed head
    D,                  \* earliest reveal after the commit's height
    LastCommit,         \* last height that takes the commit
    Rebroadcasts,       \* rebroadcasts of one signed part
    MaxHead, MaxTx,     \* bounds of the model: heads, signed transactions
    Scenarios           \* submissions and bounds of the exploration, see setup

CommitStage == <<"commit", 0>>
OpenStage == <<"open", 0>>
CancelStage == <<"cancel", 0>>

ASSUME PostingAssumption ==
    /\ {PBlk, Rebroadcasts} \subseteq Nat \ {0}
    /\ {D, LastCommit, MaxHead, MaxTx} \subseteq Nat
    /\ \A s \in Scenarios :
          /\ s.parts \subseteq Nat /\ IsFiniteSet(s.parts) /\ s.parts # {}
          /\ s.heads <= MaxHead /\ s.txs <= MaxTx
          /\ {s.w, s.heads, s.txs, s.faults, s.reorgs} \subseteq Nat /\ s.cancel \in BOOLEAN
          /\ s.past \in Seq([stage : {CommitStage, OpenStage}, st : {"ok"}, at : 1 .. MaxHead])
          /\ Len(s.past) < s.heads /\ Len(s.past) <= s.txs
          /\ \A i \in DOMAIN s.past : s.past[i].at <= 1 + Len(s.past)

VARIABLES
    setup,              \* the scenario, which never changes: the parts of the
                        \* submission, w (latest reveal after the commit), the
                        \* past (what is final at the start), whether the user may
                        \* cancel, and the bounds heads, txs, faults and reorgs
    head, final,        \* the L1 chain
    txs,                \* signed transactions: [stage, st, at]
    disk, mem,          \* the submission's record: [cancel, sent]
    pc,                 \* where the tick is
    hd, fold,           \* head and fold height that the tick works with
    todo, queue,        \* stages to advance, parts to rebroadcast
    reply,              \* the result of the post that is to be recorded
    posted, budget,     \* posts counted for the head in budget
    isolated,           \* the record could not be read or written
    calls,              \* history: sends of each transaction
    attempts,           \* history: sends at each observed head
    faults, reorgs

chainVars == <<setup, head, final, reorgs>>
tickVars == <<hd, fold, budget>>
recordVars == <<disk, mem, isolated>>
history == <<calls, attempts>>
vars == <<chainVars, txs, recordVars, pc, tickVars, todo, queue, reply, posted, history, faults>>

Stages == {CommitStage, OpenStage, CancelStage} \cup {<<"part", i>> : i \in setup.parts}

Intent == [head |-> hd, tx |-> 0, failed |-> FALSE, ss |-> "intent", tries |-> 0, last |-> 0, stop |-> FALSE]

Acked(i) == [head |-> setup.past[i].at, tx |-> i, failed |-> FALSE, ss |-> "ack", tries |-> 0, last |-> 0, stop |-> FALSE]

PastSent == [s \in {setup.past[i].stage : i \in DOMAIN setup.past} |-> Acked(CHOOSE i \in DOMAIN setup.past : setup.past[i].stage = s)]

Init ==
    /\ setup \in Scenarios
    /\ head = 1 + Len(setup.past) /\ final = head
    /\ txs = setup.past
    /\ disk = [cancel |-> FALSE, sent |-> PastSent]
    /\ mem = disk
    /\ pc = "idle"
    /\ hd = 0 /\ fold = 0 /\ budget = 0
    /\ todo = <<>> /\ queue = <<>>
    /\ reply = "none"
    /\ posted = 0
    /\ isolated = FALSE
    /\ calls = [i \in 1 .. MaxTx |-> 0]
    /\ attempts = [h \in 1 .. MaxHead |-> 0]
    /\ faults = 0 /\ reorgs = 0

-----------------------------------------------------------------------------
(* The submission's candidate in the fold of the blocks up to f. *)

Landed(s, lo, hi) == {txs[i].at : i \in {j \in DOMAIN txs : txs[j].stage = s /\ txs[j].st = "ok" /\ lo =< txs[j].at /\ txs[j].at =< hi}}

First(heights) == IF heights = {} THEN 0 ELSE CHOOSE h \in heights : \A g \in heights : h =< g

Least(a, b) == IF a < b THEN a ELSE b

CommitHeight(f) == First(Landed(CommitStage, 1, Least(f, LastCommit)))
LastReveal(f) == CommitHeight(f) + setup.w
OpenHeight(f) == First(Landed(OpenStage, CommitHeight(f) + D, Least(f, LastReveal(f))))

Arrived(f) ==
    IF OpenHeight(f) = 0 THEN {}
    ELSE {i \in setup.parts : Landed(<<"part", i>>, OpenHeight(f), Least(f, LastReveal(f))) # {}}

CandidateStatus(f) ==
    IF CommitHeight(f) = 0 THEN "none"
    ELSE IF Landed(CancelStage, CommitHeight(f), Least(f, LastReveal(f))) # {} THEN "cancelled"
    ELSE IF Arrived(f) = setup.parts THEN "checking"
    ELSE IF f > LastReveal(f) THEN "expired"
    ELSE IF OpenHeight(f) # 0 THEN "open"
    ELSE "committed"

-----------------------------------------------------------------------------
(* The chain. *)

(* A block at height h with some of the transactions is: each takes effect,
   reverts, or stays in the pool. *)
Filled(is, h) ==
    {[i \in DOMAIN txs |-> IF i \in is THEN [txs[i] EXCEPT !.st = res[i], !.at = IF res[i] = "pool" THEN 0 ELSE h]
                          ELSE txs[i]]
        : res \in [is -> {"pool", "ok", "rev"}]}

Mine ==
    /\ head < setup.heads
    /\ head' = head + 1
    /\ txs' \in Filled({i \in DOMAIN txs : txs[i].st = "pool"}, head + 1)
    /\ UNCHANGED <<setup, final, reorgs, recordVars, pc, tickVars, todo, queue, reply, posted, history, faults>>

Finalize ==
    /\ final < head
    /\ final' = final + 1
    /\ UNCHANGED <<setup, head, reorgs, txs, recordVars, pc, tickVars, todo, queue, reply, posted, history, faults>>

(* Another block takes the place of the head.  What it leaves out is pending. *)
Reorg ==
    /\ final < head /\ reorgs < setup.reorgs
    /\ LET floating == {i \in DOMAIN txs : txs[i].st = "pool" \/ txs[i].at = head}
       IN  txs' \in Filled(floating, head)
    /\ reorgs' = reorgs + 1
    /\ UNCHANGED <<setup, head, final, recordVars, pc, tickVars, todo, queue, reply, posted, history, faults>>

(* The pool forgets a transaction; then another may use its nonce. *)
Forget(i) ==
    /\ i \in DOMAIN txs
    /\ \/ txs[i].st = "pool" /\ txs' = [txs EXCEPT ![i].st = "lost"]
       \/ txs[i].st = "lost" /\ txs' = [txs EXCEPT ![i].st = "gone"]
       \/ txs[i].st = "signed" /\ pc # "deliver" /\ txs' = [txs EXCEPT ![i].st = "gone"]
    /\ UNCHANGED <<chainVars, recordVars, pc, tickVars, todo, queue, reply, posted, history, faults>>

Environment == Mine \/ Finalize \/ Reorg \/ \E i \in 1 .. MaxTx : Forget(i)

-----------------------------------------------------------------------------
(* Records.  A write is complete, or fails before or after the rename. *)

Fault == faults < setup.faults /\ faults' = faults + 1

Save(sub) == disk' = sub /\ mem' = sub /\ UNCHANGED <<isolated, faults>>
SaveFails(sub) == disk' \in {disk, sub} /\ Fault /\ UNCHANGED <<mem, isolated>>

(* What the client makes of a record that it reads again. *)
Reread(sub) == [sub EXCEPT !.sent = [s \in DOMAIN sub.sent |->
                   IF sub.sent[s].ss = "intent" THEN [sub.sent[s] EXCEPT !.ss = "notsent"] ELSE sub.sent[s]]]

Restored(sub) == [sub EXCEPT !.sent = [s \in DOMAIN sub.sent |->
                     [Reread(sub).sent[s] EXCEPT !.ss = IF @ = "prepared" THEN "amb" ELSE @]]]

WithSent(sub, s, rec) == [sub EXCEPT !.sent = [t \in DOMAIN sub.sent \cup {s} |-> IF t = s THEN rec ELSE sub.sent[t]]]

-----------------------------------------------------------------------------
(* The start of a tick. *)

Charged(sub, h) == Cardinality({s \in DOMAIN sub.sent : sub.sent[s].head = h \/ sub.sent[s].last = h})

(* The stages of some parts in ascending order, as a set with one member. *)
InOrder(is) == {q \in [1 .. Cardinality(is) -> {<<"part", i>> : i \in is}] :
                   \A k, l \in DOMAIN q : k < l => q[k][2] < q[l][2]}

(* Where the submission goes on: a commit before its deadline, a cancel or an
   opening or the missing parts in the reveal window, otherwise nothing. *)
InReveal(f, h) == CommitHeight(f) + D =< h + 1 /\ h + 1 =< LastReveal(f)

Plans(f, h) ==
    CASE CandidateStatus(f) = "none" /\ ~ mem.cancel /\ h + 1 =< LastCommit -> {<<"look", <<CommitStage>>>>, <<"retry", <<>>>>}
      [] CandidateStatus(f) \in {"committed", "open"} /\ mem.cancel /\ h + 1 =< LastReveal(f) -> {<<"look", <<CancelStage>>>>}
      [] CandidateStatus(f) = "open" /\ ~ mem.cancel /\ InReveal(f, h) -> {<<"look", q>> : q \in InOrder(setup.parts \ Arrived(f))}
      [] CandidateStatus(f) = "committed" /\ ~ mem.cancel /\ InReveal(f, h) -> {<<"open", <<>>>>}
      [] OTHER -> {<<"retry", <<>>>>}

Goes(plan) == pc' = plan[1] /\ todo' = plan[2]

Counted(h) ==
    /\ budget' = h
    /\ posted' = IF budget = h THEN posted ELSE Charged(mem, h)

Tick ==
    /\ pc = "idle"
    /\ hd' = head /\ fold' = final
    /\ Counted(head)
    /\ queue' = <<>>
    /\ IF isolated THEN Goes(<<"resume", <<>>>>) ELSE \E plan \in Plans(final, head) : Goes(plan)
    /\ UNCHANGED <<chainVars, txs, recordVars, reply, history, faults>>

(* An isolated record is read and written again before anything else. *)
Resume ==
    /\ pc = "resume"
    /\ isolated' = FALSE
    /\ disk' = Reread(disk) /\ mem' = disk'
    /\ pc' = "resumed"
    /\ UNCHANGED <<chainVars, txs, tickVars, todo, queue, reply, posted, history, faults>>

ResumeFails ==
    /\ pc = "resume"
    /\ disk' \in {disk, Reread(disk)} /\ Fault
    /\ pc' = "retry"
    /\ UNCHANGED <<chainVars, txs, mem, isolated, tickVars, todo, queue, reply, posted, history>>

Resumed ==
    /\ pc = "resumed"
    /\ \E plan \in Plans(fold, hd) : Goes(plan)
    /\ UNCHANGED <<chainVars, txs, recordVars, tickVars, queue, reply, posted, history, faults>>

-----------------------------------------------------------------------------
(* The receipt of a stage's transaction: from the journal when it is final,
   from the live chain otherwise, unless finality has moved since the fold. *)

Receipt(s) ==
    LET rec == mem.sent[s]  tx == txs[rec.tx]
    IN  IF s \notin DOMAIN mem.sent THEN "none"
        ELSE IF rec.failed \/ rec.tx = 0 THEN "none"
        ELSE IF tx.st \in {"ok", "rev"} /\ tx.at =< fold THEN (IF tx.st = "ok" THEN "final" ELSE "rev")
        ELSE IF final # fold THEN "error"
        ELSE IF tx.st \in {"ok", "rev"} THEN (IF tx.st = "ok" THEN "live" ELSE "rev")
        ELSE "none"

Reverted(s) == [mem.sent[s] EXCEPT !.failed = TRUE]

(* The account's finalized nonce tells that a part can never be mined. *)
NonceConsumed(s) ==
    /\ s \in DOMAIN mem.sent /\ mem.sent[s].tx # 0
    /\ s[1] = "part" /\ ~ mem.sent[s].stop
    /\ txs[mem.sent[s].tx].st = "gone"

Stopped(s) == [mem.sent[s] EXCEPT !.stop = TRUE]

Recovers == pc' = "recover" /\ todo' = <<>>

Unmoved == UNCHANGED <<chainVars, txs, tickVars, reply, posted, history>>

(* A receipt is not available: finality has moved, or a call fails.  The nonce
   is observed all the same. *)
Unavailable(s) ==
    \/ Receipt(s) = "error" /\ UNCHANGED <<recordVars, faults>>
    \/ Receipt(s) = "error" /\ NonceConsumed(s) /\ Save(WithSent(mem, s, Stopped(s)))
    \/ Fault /\ UNCHANGED recordVars

ReceiptFails ==
    /\ pc \in {"open", "look"}
    /\ Unavailable(IF pc = "open" THEN OpenStage ELSE Head(todo))
    /\ Recovers /\ queue' = <<>>
    /\ Unmoved

(* Parts follow an opening that the live chain shows; otherwise the opening is
   sent, if enough of the window is left for the parts. *)
Reserve == ((Cardinality(setup.parts) + PBlk - 1) \div PBlk) + 2

AfterOpen(included) ==
    IF included THEN \E q \in InOrder(setup.parts) : Goes(<<"look", q>>)
    ELSE IF hd + 1 =< LastReveal(fold) - Reserve THEN Goes(<<"look", <<OpenStage>>>>)
    ELSE Goes(<<"retry", <<>>>>)

OpenCheck ==
    /\ pc = "open"
    /\ Receipt(OpenStage) \in {"none", "live", "final"}
    /\ AfterOpen(Receipt(OpenStage) = "live")
    /\ UNCHANGED <<recordVars, queue, faults>> /\ Unmoved

OpenReverted ==
    /\ pc = "open" /\ Receipt(OpenStage) = "rev"
    /\ LET sub == WithSent(mem, OpenStage, Reverted(OpenStage))
       IN  \/ Save(sub) /\ AfterOpen(FALSE) /\ UNCHANGED queue
           \/ SaveFails(sub) /\ Recovers /\ queue' = <<>>
    /\ Unmoved

-----------------------------------------------------------------------------
(* Sending one stage. *)

UnresolvedUnlessUnclear(s) == ~ mem.sent[s].failed /\ mem.sent[s].ss \notin {"notsent", "amb"}

Unresolved(s) == ~ mem.sent[s].failed /\ mem.sent[s].ss # "notsent"

MayPost == posted < PBlk

SameHead(s) == s \in DOMAIN mem.sent /\ mem.sent[s].head = hd

(* A stage that was sent waits: until its receipt is final, or, when it was
   not sent or reverted, until the second head after it. *)
Waits(s) ==
    /\ s \in DOMAIN mem.sent
    /\ \/ SameHead(s)
       \/ Receipt(s) = "live"
       \/ Receipt(s) = "none" /\ (Unresolved(s) \/ hd =< mem.sent[s].head + 1)

Advanced == IF MayPost /\ Tail(todo) # <<>> THEN Goes(<<"look", Tail(todo)>>) ELSE Goes(<<"retry", <<>>>>)

(* A part that is not known to be included is looked at again at the end. *)
Requeued(s) ==
    IF s[1] = "part" /\ ~ SameHead(s) /\ Receipt(s) \in {"none", "rev"} /\ Unresolved(s)
    THEN Append(queue, s) ELSE queue

LookSkips ==
    /\ pc = "look"
    /\ LET s == Head(todo)
       IN  /\ ~ MayPost \/ Waits(s)
           /\ queue' = IF MayPost THEN Requeued(s) ELSE queue
    /\ Advanced
    /\ UNCHANGED <<recordVars, faults>> /\ Unmoved

(* A revert is recorded; the stage is signed anew in a later tick. *)
LookReverted ==
    /\ pc = "look" /\ MayPost
    /\ LET s == Head(todo)
           sub == WithSent(mem, s, Reverted(s))
       IN  /\ ~ SameHead(s) /\ Receipt(s) = "rev"
           /\ \/ Save(sub) /\ Advanced /\ queue' = Requeued(s)
              \/ SaveFails(sub) /\ Recovers /\ queue' = <<>>
    /\ Unmoved

LookConsumed ==
    /\ pc = "look" /\ MayPost
    /\ LET s == Head(todo)
           sub == WithSent(mem, s, Stopped(s))
       IN  /\ ~ SameHead(s) /\ Receipt(s) = "none" /\ NonceConsumed(s)
           /\ \/ Save(sub) /\ Advanced /\ queue' = Requeued(s)
              \/ SaveFails(sub) /\ Recovers /\ queue' = <<>>
    /\ Unmoved

WriteIntent ==
    /\ pc = "look" /\ MayPost /\ Len(txs) < setup.txs
    /\ LET s == Head(todo)
           sub == WithSent(mem, s, Intent)
       IN  /\ ~ Waits(s) /\ Receipt(s) \in {"none", "final"}
           /\ \/ Save(sub) /\ pc' = "sign" /\ posted' = posted + 1 /\ UNCHANGED <<todo, queue>>
              \/ SaveFails(sub) /\ Recovers /\ queue' = <<>> /\ UNCHANGED posted
    /\ UNCHANGED <<chainVars, txs, tickVars, reply, history>>

Prepared == WithSent(mem, Head(todo), [mem.sent[Head(todo)] EXCEPT !.tx = Len(txs) + 1, !.ss = "prepared"])

Signed == Append(txs, [stage |-> Head(todo), st |-> "signed", at |-> 0])

(* The transaction is signed and recorded before it is sent. *)
Sign ==
    /\ pc = "sign"
    /\ txs' = Signed
    /\ \/ Save(Prepared) /\ pc' = "deliver" /\ UNCHANGED reply
       \/ SaveFails(Prepared) /\ pc' = "record" /\ reply' = "notsent"
    /\ UNCHANGED <<chainVars, tickVars, todo, queue, posted, history>>

SignFails ==
    /\ pc = "sign" /\ Fault
    /\ pc' = "record" /\ reply' = "notsent"
    /\ UNCHANGED <<chainVars, txs, recordVars, tickVars, todo, queue, posted, history>>

Called(i) ==
    /\ calls' = [calls EXCEPT ![i] = @ + 1]
    /\ attempts' = [attempts EXCEPT ![hd] = @ + 1]

Deliver ==
    /\ pc = "deliver"
    /\ LET i == mem.sent[Head(todo)].tx
       IN  /\ Called(i)
           /\ \/ txs' = [txs EXCEPT ![i].st = "pool"] /\ reply' \in {"ack", "amb"}
              \/ txs' = [txs EXCEPT ![i].st = "lost"] /\ reply' = "amb"
    /\ pc' = "record"
    /\ UNCHANGED <<chainVars, recordVars, tickVars, todo, queue, posted, faults>>

Record ==
    /\ pc = "record"
    /\ LET sub == WithSent(mem, Head(todo), [mem.sent[Head(todo)] EXCEPT !.ss = reply])
       IN  \/ Save(sub) /\ Advanced /\ UNCHANGED queue
           \/ SaveFails(sub) /\ Recovers /\ queue' = <<>>
    /\ reply' = "none"
    /\ UNCHANGED <<chainVars, txs, tickVars, posted, history>>

-----------------------------------------------------------------------------
(* Rebroadcast of parts, with the same bytes. *)

Retryable(s) ==
    /\ s \in DOMAIN mem.sent
    /\ mem.sent[s].tx # 0 /\ ~ mem.sent[s].stop /\ ~ mem.sent[s].failed
    /\ mem.sent[s].ss \in {"ack", "amb"}
    /\ mem.sent[s].tries < Rebroadcasts
    /\ hd >= (IF mem.sent[s].last # 0 THEN mem.sent[s].last ELSE mem.sent[s].head) + 2

TickEnds ==
    /\ pc = "retry" /\ (queue = <<>> \/ ~ MayPost)
    /\ pc' = "idle" /\ queue' = <<>>
    /\ UNCHANGED <<recordVars, todo, faults>> /\ Unmoved

Retrying == pc = "retry" /\ queue # <<>> /\ MayPost

RetrySkips ==
    /\ Retrying
    /\ \/ Receipt(Head(queue)) \in {"live", "final"}
       \/ Receipt(Head(queue)) = "none" /\ ~ Retryable(Head(queue))
    /\ queue' = Tail(queue)
    /\ UNCHANGED <<recordVars, pc, todo, faults>> /\ Unmoved

RetryMarks ==
    /\ Retrying
    /\ LET s == Head(queue)
       IN  \E rec \in (IF Receipt(s) = "rev" THEN {Reverted(s)} ELSE {})
                        \cup (IF Receipt(s) = "none" /\ NonceConsumed(s) THEN {Stopped(s)} ELSE {}) :
              \/ Save(WithSent(mem, s, rec)) /\ UNCHANGED <<pc, todo>>
              \/ SaveFails(WithSent(mem, s, rec)) /\ Recovers
    /\ queue' = Tail(queue)
    /\ Unmoved

RetryFails ==
    /\ Retrying
    /\ Unavailable(Head(queue))
    /\ Recovers /\ queue' = Tail(queue)
    /\ Unmoved

BurnInMemory ==
    /\ Retrying
    /\ LET s == Head(queue)
       IN  /\ Receipt(s) = "none" /\ Retryable(s)
           /\ mem' = WithSent(mem, s, [mem.sent[s] EXCEPT !.tries = @ + 1, !.last = hd])
    /\ pc' = "resend" /\ posted' = posted + 1
    /\ UNCHANGED <<chainVars, txs, disk, isolated, tickVars, todo, queue, reply, history, faults>>

(* The attempt is spent on disk before the call. *)
Burn ==
    /\ Retrying
    /\ LET s == Head(queue)
           sub == WithSent(mem, s, [mem.sent[s] EXCEPT !.tries = @ + 1, !.last = hd])
       IN  /\ Receipt(s) = "none" /\ Retryable(s)
           /\ \/ Save(sub) /\ pc' = "resend" /\ posted' = posted + 1 /\ UNCHANGED <<todo, queue>>
              \/ SaveFails(sub) /\ Recovers /\ queue' = Tail(queue) /\ UNCHANGED posted
    /\ UNCHANGED <<chainVars, txs, tickVars, reply, history>>

Resend ==
    /\ pc = "resend"
    /\ LET i == mem.sent[Head(queue)].tx
       IN  /\ Called(i)
           /\ txs' \in {txs} \cup (IF txs[i].st \in {"signed", "lost"} THEN {[txs EXCEPT ![i].st = "pool"]} ELSE {})
    /\ pc' = "retry" /\ queue' = Tail(queue)
    /\ UNCHANGED <<chainVars, recordVars, tickVars, todo, reply, posted, faults>>

-----------------------------------------------------------------------------
(* Recovery in the process, the end of the process, and its start. *)

Recover ==
    /\ pc = "recover"
    /\ Save(Reread(disk)) /\ pc' = "retry"
    /\ UNCHANGED <<todo, queue>> /\ Unmoved

RecoverFailsOpen ==
    /\ pc = "recover" /\ Fault
    /\ disk' \in {disk, Reread(disk)} /\ UNCHANGED <<mem, isolated>>
    /\ pc' = "retry" /\ queue' = <<>>
    /\ UNCHANGED todo /\ Unmoved

RecoverFails ==
    /\ pc = "recover" /\ Fault
    /\ disk' \in {disk, Reread(disk)} /\ isolated' = TRUE /\ UNCHANGED mem
    /\ pc' = "retry" /\ queue' = <<>>
    /\ UNCHANGED todo /\ Unmoved

Crash ==
    /\ pc # "down" /\ Fault
    /\ pc' = "down"
    /\ isolated' = FALSE /\ mem' = [cancel |-> FALSE, sent |-> <<>>]
    /\ todo' = <<>> /\ queue' = <<>> /\ reply' = "none" /\ posted' = 0
    /\ hd' = 0 /\ fold' = 0 /\ budget' = 0
    /\ UNCHANGED <<chainVars, txs, disk, history>>

Start ==
    /\ pc = "down"
    /\ Save(Restored(disk)) /\ pc' = "idle"
    /\ UNCHANGED <<todo, queue>> /\ Unmoved

StartFails ==
    /\ pc = "down"
    /\ SaveFails(Restored(disk)) /\ UNCHANGED pc
    /\ UNCHANGED <<todo, queue>> /\ Unmoved

(* The user cancels between two ticks. *)
Cancel ==
    /\ pc = "idle" /\ setup.cancel /\ ~ isolated /\ ~ mem.cancel
    /\ CandidateStatus(final) \in {"none", "committed", "open", "cancelled"}
    /\ LET sub == [mem EXCEPT !.cancel = TRUE]
       IN  Save(sub) \/ SaveFails(sub)
    /\ UNCHANGED <<pc, todo, queue>> /\ Unmoved

Client ==
    \/ Tick \/ Resume \/ ResumeFails \/ Resumed
    \/ ReceiptFails \/ OpenCheck \/ OpenReverted
    \/ LookSkips \/ LookReverted \/ LookConsumed \/ WriteIntent
    \/ Sign \/ SignFails \/ Deliver \/ Record
    \/ TickEnds \/ RetrySkips \/ RetryMarks \/ RetryFails \/ Burn \/ Resend
    \/ Recover \/ RecoverFails \/ Crash \/ Start \/ StartFails \/ Cancel

Next == Client \/ Environment

Spec == Init /\ [][Next]_vars

-----------------------------------------------------------------------------
(* Properties. *)

SentRecords == [head : 0 .. MaxHead, tx : 0 .. MaxTx, failed : BOOLEAN,
                ss : {"intent", "prepared", "ack", "amb", "notsent"},
                tries : 0 .. Rebroadcasts, last : 0 .. MaxHead, stop : BOOLEAN]

(* The variables keep their types: an intent carries no signed transaction
   (client.rs:2155), and retries stay within their number. *)
TypeOK ==
    /\ head \in 1 .. MaxHead /\ final \in 1 .. head
    /\ DOMAIN txs = 1 .. Len(txs) /\ Len(txs) =< MaxTx
    /\ \A i \in DOMAIN txs :
          txs[i] \in [stage : Stages, st : {"signed", "pool", "lost", "gone", "ok", "rev"}, at : 0 .. MaxHead]
    /\ \A sub \in {disk, mem} :
          /\ sub.cancel \in BOOLEAN /\ DOMAIN sub.sent \subseteq Stages
          /\ \A s \in DOMAIN sub.sent : sub.sent[s] \in SentRecords /\ (sub.sent[s].ss = "intent" => sub.sent[s].tx = 0)
    /\ pc \in {"idle", "resume", "resumed", "open", "look", "sign", "deliver", "record", "retry", "resend", "recover", "down"}
    /\ posted \in Nat /\ isolated \in BOOLEAN
    /\ faults \in 0 .. setup.faults /\ reorgs \in 0 .. setup.reorgs

(* A transaction that was handed to the network and may still take effect is
   the one that the record on disk names for its stage: no crash, failed write
   or lost reply makes the client forget it or sign another in its place
   (client.rs:1837-1905), as long as no block it has looked at is replaced. *)
InFlight(i) == txs[i].st \in {"pool", "lost"} \/ (txs[i].st = "ok" /\ txs[i].at > final)

SentRecorded ==
    reorgs = 0 => \A i \in DOMAIN txs : InFlight(i) =>
        txs[i].stage \in DOMAIN disk.sent /\ disk.sent[txs[i].stage].tx = i

(* One signed transaction is sent at most once and then rebroadcast at most
   Rebroadcasts times, however often the client crashes between the write and
   the call (client.rs:1953-1959). *)
RetryBound == \A i \in 1 .. MaxTx : calls[i] =< 1 + Rebroadcasts

(* At one observed head the client sends at most PBlk transactions, also when
   it restarts at that head and counts from its records
   (client.rs:1623-1631).  A record counts once: when a part that was
   rebroadcast at this head is signed anew at it, which takes a replaced
   block, a budget of more than one is exceeded by the next restart. *)
HeadBudget == reorgs = 0 \/ PBlk = 1 => \A h \in 1 .. MaxHead : attempts[h] =< PBlk

(* Between two ticks the client's copy of what it sent is what the disk holds,
   unless the record is isolated: after a write whose outcome was unknown it
   never goes on from an older list of sent parts (client.rs:1709-1718).  A
   cancellation is different: its write may fail after the rename
   (client.rs:1606-1607), and the client then goes on uncancelled; it is never
   cancelled in memory only. *)
CopyCurrent ==
    pc = "idle" /\ ~ isolated => mem.sent = disk.sent /\ (mem.cancel => disk.cancel)

(* What is sent stays bounded: per head, and per signed transaction. *)
SendsBounded == RetryBound /\ HeadBudget

(* The client's state is sound: types, limits and a current copy. *)
CopySound == TypeOK /\ CopyCurrent

=============================================================================
