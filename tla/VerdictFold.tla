----------------------------- MODULE VerdictFold -----------------------------
(***************************************************************************)
(* The fold of one L1 height with verdicts: a fork of the gate rules that  *)
(* activates, ties, due verdicts, the slot, expiry, inbox items, winners   *)
(* and vesting, in that order (State::step_with_verdicts).  Every stage    *)
(* is a step of its own here; the code works on a clone that it drops when *)
(* a stage refuses its input, after which no block can be folded any more: *)
(* the phase "refused".                                                    *)
(*                                                                         *)
(* A verdict comes from a gate that the fold does not see.  Its fuel is    *)
(* fixed when the job is queued, because it decides the height at which    *)
(* the verdict is due; its outcome is any that the gate may report.        *)
(***************************************************************************)
EXTENDS RevealFold

CONSTANTS
    K, Rate, CostFixed, Cap,    \* the verdict clock; Cap verdicts per height
    QReward, Maturity

ASSUME VerdictAssumption ==
    /\ {K, Rate, CostFixed, Cap, Maturity} \subseteq Nat \ {0}
    /\ QReward \in Nat
    /\ 2 * K =< Maturity
    /\ \A s \in Scenarios :
          /\ s.fuels \subseteq Nat      \* fuel a gate may report
          /\ DOMAIN s.forks \subseteq Nat \ {0}
          /\ \A h \in DOMAIN s.forks : s.forks[h] \in {"kernel-fix", "quarantine", "policy"}

VARIABLES
    queue,      \* jobs of the gate: [key, kind, avail, epoch, fuel]
    next,       \* how many of them were applied
    clock,      \* [fuel, due, count] of the last one applied
    todo,       \* candidates that the fork has still to queue again
    results,    \* the last verdict of a candidate: [reason, epoch]
    pending,    \* candidates with a recheck in the queue
    voids,      \* candidates in quarantine that must become void
    rewards     \* [key, vest, st, comp, retired]; an entry is also an admission

jobVars == <<queue, next, clock, todo, results, pending, voids>>
vars == <<revealVars, jobVars, rewards>>

VerdictInit ==
    /\ RevealInit
    /\ queue = <<>>
    /\ next = 0
    /\ clock = [fuel |-> 0, due |-> 0, count |-> 0]
    /\ todo = {}
    /\ results = [k \in {} |-> 0]
    /\ pending = {}
    /\ voids = {}
    /\ rewards = <<>>

-----------------------------------------------------------------------------
(* Activation of a fork. *)

EpochAt(h) == Cardinality({f \in DOMAIN net.forks : f =< h})

Max2(a, b) == IF a < b THEN b ELSE a

(* Everything that was accepted, passed, or rejected by a fault of the gate
   is checked again, unless its verdict is already from this epoch. *)
RecheckSet(h) ==
    {k \in DOMAIN cand :
        /\ \/ cand[k].st \in {"accepted", "passed"}
           \/ cand[k].st = "rejected" /\ results[k].reason = "fault"
        /\ results[k].epoch < EpochAt(h)}

(* First verdicts that can be put in quarantine. *)
Quarantinable ==
    {i \in next + 1 .. Len(queue) : queue[i].kind = "verdict" /\ cand[queue[i].key].st = "checking"}

ForkAt(h, kind) == h \in DOMAIN net.forks /\ net.forks[h] = kind

BeginHeight ==
    /\ phase = "sealed" /\ height < net.heights
    /\ height' = height + 1
    /\ logs' = [all |-> 0, commits |-> 0]
    /\ \E tie \in [FreshTies -> Ties] : cand' = WithTies(tie)
    /\ UNCHANGED <<net, slotVars, prob, next, clock, results, rewards>>

Begin ==
    /\ BeginHeight
    /\ ~ ForkAt(height + 1, "quarantine")
    /\ phase' = "verdicts"
    /\ todo' = IF ForkAt(height + 1, "kernel-fix") THEN RecheckSet(height + 1) ELSE {}
    /\ UNCHANGED <<queue, pending, voids>>

(* Named jobs keep their place and take the new epoch. *)
Quarantine(list) ==
    /\ ForkAt(height + 1, "quarantine")
    /\ BeginHeight
    /\ phase' = "verdicts"
    /\ queue' = [i \in DOMAIN queue |->
                    IF i \in DOMAIN list THEN [queue[i] EXCEPT !.epoch = EpochAt(height + 1)] ELSE queue[i]]
    /\ LET of(d) == {queue[i].key : i \in {j \in DOMAIN list : list[j] = d}}
       IN  voids' = (voids \ of("recheck")) \cup of("void")
    /\ UNCHANGED <<todo, pending>>

QuarantineMisses ==
    /\ phase = "sealed" /\ height < net.heights
    /\ ForkAt(height + 1, "quarantine") /\ Quarantinable = {}
    /\ phase' = "refused"
    /\ UNCHANGED <<net, height, logs, slotVars, prob, cand, jobVars, rewards>>

Enqueue(k, kind, epoch) ==
    \E fuel \in net.fuels :
        queue' = Append(queue, [key |-> k, kind |-> kind, avail |-> height, epoch |-> epoch, fuel |-> fuel])

(* Rechecks are queued in the order of the first verdicts. *)
EnqueueRecheck(k) ==
    /\ phase = "verdicts"
    /\ k \in todo /\ \A l \in todo : cand[k].q =< cand[l].q
    /\ Enqueue(k, "recheck", EpochAt(height))
    /\ todo' = todo \ {k}
    /\ pending' = pending \cup {k}
    /\ UNCHANGED <<revealVars, next, clock, results, voids, rewards>>

-----------------------------------------------------------------------------
(* Due verdicts. *)

Ceil(a, b) == (a + b - 1) \div b

(* The virtual worker behind the gate: when the next verdict is due. *)
Pushed(job) ==
    LET fuel == Max2(clock.fuel, job.avail * Rate) + CostFixed + job.fuel
        d == Max2(Max2(Ceil(fuel, Rate), job.avail + K), clock.due)
    IN  IF d # clock.due THEN [fuel |-> fuel, due |-> d, count |-> 1]
        ELSE IF clock.count >= Cap THEN [fuel |-> fuel, due |-> d + 1, count |-> 1]
        ELSE [fuel |-> fuel, due |-> d, count |-> clock.count + 1]

NextJob == queue[next + 1]
HasJob == next < Len(queue)
JobDue == HasJob /\ Pushed(NextJob).due =< height

JobEpoch(job) == IF job.epoch # 0 THEN job.epoch ELSE EpochAt(job.avail + K)

(* A void for the quarantine's reason is demanded of a condemned candidate and
   refused of no other: it ends the candidate and leaves its problem open. *)
Outcomes_Unbound(job) ==
    IF job.kind = "recheck" THEN {"accept", "fault", "reject"}
    ELSE {"accept", "fault", "reject", "void", "quarantined"}
Outcomes(job) ==
    IF job.key \in voids THEN {"quarantined"}
    ELSE IF job.kind = "recheck" THEN {"accept", "fault", "reject"}
    ELSE {"accept", "fault", "reject", "void", "quarantined"}

Faulted(k) == cand[k].st = "rejected" /\ results[k].reason = "fault"

(* What a job may find its candidate to be. *)
ValidTarget(job) ==
    IF job.kind = "verdict" THEN cand[job.key].st \in {"checking", "superseded", "void"}
    ELSE cand[job.key].st \in {"accepted", "passed"} \/ Faulted(job.key)

StatusAfter(job, o) ==
    LET old == cand[job.key].st
    IN  IF job.kind = "verdict" /\ old # "checking" THEN old
        ELSE IF o \in {"void", "quarantined"} THEN "void"
        ELSE IF o # "accept" THEN IF old = "accepted" THEN "stale" ELSE "rejected"
        ELSE IF job.kind = "verdict" THEN "passed"
        ELSE IF old # "rejected" THEN old
        ELSE IF prob[job.key[1]].winner # 0 THEN "accepted" ELSE "passed"

Reward(k, comp) ==
    [key |-> k, vest |-> height + Maturity, st |-> "locked", comp |-> comp, retired |-> FALSE]

Compensated(k) == \E i \in DOMAIN rewards : rewards[i].key = k /\ rewards[i].comp

Forfeited_Unretired(k) ==
    [i \in DOMAIN rewards |->
        IF rewards[i].key # k THEN rewards[i]
        ELSE [rewards[i] EXCEPT !.st = IF @ = "locked" THEN "cancelled" ELSE @]]
Forfeited(k) ==
    [i \in DOMAIN rewards |->
        IF rewards[i].key # k THEN rewards[i]
        ELSE [rewards[i] EXCEPT !.st = IF @ = "locked" THEN "cancelled" ELSE @, !.retired = TRUE]]

RewardsAfter(job, new) ==
    IF cand[job.key].st = "rejected" /\ new = "accepted" /\ ~ Compensated(job.key)
    THEN Append(rewards, Reward(job.key, TRUE))
    ELSE IF cand[job.key].st = "accepted" /\ new = "stale" THEN Forfeited(job.key)
    ELSE rewards

(* A problem is queued to be posed again once. *)
Requeued(p) == IF \E i \in DOMAIN repose : repose[i] = p THEN repose ELSE Append(repose, p)

(* A fault of the problem itself ends it, and every candidate under check. *)
Voids(job, o, new) ==
    cand[job.key].st = "checking" /\ new = "void" /\ o = "void" /\ ~ prob[job.key[1]].voided

Verdict(o) ==
    /\ phase = "verdicts" /\ todo = {}
    /\ HasJob /\ Pushed(NextJob).due = height
    /\ ValidTarget(NextJob) /\ o \in Outcomes(NextJob)
    /\ LET k == NextJob.key
           p == k[1]
           new == StatusAfter(NextJob, o)
           void == Voids(NextJob, o, new)
       IN  /\ cand' = [l \in DOMAIN cand |->
                          IF l = k THEN [cand[l] EXCEPT !.st = new]
                          ELSE IF void /\ l[1] = p /\ cand[l].st = "checking"
                          THEN [cand[l] EXCEPT !.st = "void"] ELSE cand[l]]
           /\ rewards' = RewardsAfter(NextJob, new)
           /\ repose' = IF cand[k].st = "accepted" /\ new = "stale" THEN Requeued(p) ELSE repose
           /\ IF void
              THEN /\ prob' = [prob EXCEPT ![p].voided = TRUE, ![p].closed = ClosedAt(p)]
                   /\ CloseWindow(p)
              ELSE UNCHANGED <<prob, rounds, active, scheduled>>
           /\ results' = [l \in DOMAIN results \cup {k} |->
                             IF l = k THEN [reason |-> o, epoch |-> JobEpoch(NextJob)] ELSE results[l]]
           /\ pending' = IF NextJob.kind = "recheck" THEN pending \ {k} ELSE pending
           /\ voids' = voids \ {k}
    /\ clock' = Pushed(NextJob)
    /\ next' = next + 1
    /\ UNCHANGED <<net, height, phase, logs, pool, unused, queue, todo>>

(* A verdict that is late, or whose candidate it cannot apply to, stops the
   fold for good. *)
VerdictRefused ==
    /\ phase = "verdicts" /\ todo = {} /\ JobDue
    /\ Pushed(NextJob).due < height \/ ~ ValidTarget(NextJob)
    /\ phase' = "refused"
    /\ UNCHANGED <<net, height, logs, slotVars, prob, cand, jobVars, rewards>>

(* The slot, expiry and pruning follow the last verdict that is due. *)
EndVerdicts ==
    /\ phase = "verdicts" /\ todo = {} /\ ~ JobDue
    /\ SlotEvents
    /\ phase' = "logs"
    /\ UNCHANGED <<net, height, logs, jobVars, rewards>>

-----------------------------------------------------------------------------
(* The last part of a reveal hands the candidate to the gate, unless its
   problem is over. *)

StatusOnCompletion(p) ==
    IF prob[p].voided THEN "void" ELSE IF prob[p].winner # 0 THEN "superseded" ELSE "checking"

Part(k, i) ==
    /\ k \in DOMAIN cand /\ cand[k].st = "open" /\ i \in Parts \ cand[k].parts
    /\ Logged(0)
    /\ LET all == cand[k].parts \cup {i} = Parts
           st == StatusOnCompletion(k[1])
       IN  /\ cand' = [cand EXCEPT ![k].parts = @ \cup {i},
                                   ![k].st = IF all THEN st ELSE @,
                                   ![k].q = IF all /\ st = "checking" THEN Len(queue) ELSE @]
           /\ IF all /\ st = "checking" THEN Enqueue(k, "verdict", 0) ELSE UNCHANGED queue
    /\ UNCHANGED <<slotVars, prob, next, clock, todo, results, pending, voids, rewards>>

Item ==
    \/ RevealItem /\ UNCHANGED <<jobVars, rewards>>
    \/ \E k \in Keys, i \in Parts : Part(k, i)

EndLogs ==
    /\ phase = "logs"
    /\ phase' = "settle"
    /\ UNCHANGED <<net, height, logs, slotVars, prob, cand, jobVars, rewards>>

-----------------------------------------------------------------------------
(* Winners and vesting. *)

Contenders(p) == {k \in CandidatesOf(p) : cand[k].st \in Barrier}

(* The earliest candidate that is not decided wins once it has passed. *)
Wins(k) ==
    /\ prob[k[1]].winner = 0 /\ ~ prob[k[1]].voided
    /\ k \in Contenders(k[1]) /\ \A l \in Contenders(k[1]) \ {k} : Before(k, l)
    /\ cand[k].st = "passed"
    /\ k \notin pending

Settle(k) ==
    /\ phase = "settle"
    /\ k \in DOMAIN cand /\ Wins(k)
    /\ cand' = [l \in DOMAIN cand |->
                   IF l = k THEN [cand[l] EXCEPT !.st = "accepted"]
                   ELSE IF l[1] = k[1] /\ cand[l].st \in {"checking", "passed"}
                   THEN [cand[l] EXCEPT !.st = "superseded"] ELSE cand[l]]
    /\ prob' = [prob EXCEPT ![k[1]].winner = k[2], ![k[1]].closed = ClosedAt(k[1])]
    /\ CloseWindow(k[1])
    /\ rewards' = Append(rewards, Reward(k, FALSE))
    /\ UNCHANGED <<net, height, phase, logs, pool, unused, repose, jobVars>>

Vesting == {i \in DOMAIN rewards : rewards[i].st = "locked" /\ rewards[i].vest =< height}

(* Entries are vested in order, as many as a block has room for. *)
Seal ==
    /\ phase = "settle"
    /\ ~ \E k \in DOMAIN cand : Wins(k)
    /\ rewards' = [i \in DOMAIN rewards |->
                      IF i \in Vesting /\ Cardinality({j \in Vesting : j < i}) < QReward
                      THEN [rewards[i] EXCEPT !.st = "vested"] ELSE rewards[i]]
    /\ phase' = "sealed"
    /\ UNCHANGED <<net, height, logs, slotVars, prob, cand, jobVars>>

-----------------------------------------------------------------------------

Next ==
    \/ Begin
    \/ \E js \in (SUBSET Quarantinable) \ {{}} : \E list \in [js -> {"recheck", "void"}] : Quarantine(list)
    \/ QuarantineMisses
    \/ \E k \in Keys : EnqueueRecheck(k)
    \/ \E o \in {"accept", "fault", "reject", "void", "quarantined"} : Verdict(o)
    \/ VerdictRefused
    \/ EndVerdicts
    \/ Item
    \/ EndLogs
    \/ \E k \in Keys : Settle(k)
    \/ Seal

Spec == VerdictInit /\ [][Next]_vars

-----------------------------------------------------------------------------
(* Properties. *)

Statuses == Judged \cup Revealing \cup Tombstones

(* TypeOK: the values of every variable; a candidate belongs to a posed
   problem, a winner is a candidate, and the clock counts within Cap. *)
TypeOK ==
    /\ height \in 0 .. net.heights
    /\ phase \in {"sealed", "verdicts", "logs", "settle", "refused"}
    /\ DOMAIN pool \subseteq Leaves /\ unused \subseteq DOMAIN pool
    /\ active \in 0 .. Len(rounds) /\ scheduled \in Nat
    /\ \A r \in DOMAIN rounds :
          /\ rounds[r].st \in {"drawn", "open", "closed", "withheld"}
          /\ rounds[r].prob \in DOMAIN prob \cup {NoProblem}
    /\ DOMAIN prob \subseteq Problems
    /\ \A p \in DOMAIN prob : prob[p].closed \in 0 .. height /\ prob[p].winner \in Commits \cup {0}
    /\ \A k \in DOMAIN cand : k[1] \in DOMAIN prob /\ k[2] \in Commits /\ cand[k].st \in Statuses
    /\ next \in 0 .. Len(queue) /\ clock.count \in 0 .. Cap
    /\ \A i \in DOMAIN queue : queue[i].key \in DOMAIN cand
    /\ \A i \in DOMAIN rewards :
          rewards[i].key \in DOMAIN cand /\ rewards[i].st \in {"locked", "vested", "cancelled"}

(* JobsApply: a queued job can always be applied when it is due.  The state
   of a candidate changes between the queueing of its job and its verdict:
   a sibling wins, the problem is voided, another recheck comes first. *)
JobsApply == phase = "verdicts" /\ todo = {} /\ JobDue => ValidTarget(NextJob)

(* FirstVerdictsApply: the same of first verdicts alone, whatever a sibling's
   win, a void or a quarantine did to the candidate meanwhile. *)
FirstVerdictsApply ==
    phase = "verdicts" /\ todo = {} /\ JobDue /\ NextJob.kind = "verdict" => ValidTarget(NextJob)

(* NeverOverdue: no job is ever behind the clock when a height is sealed. *)
NeverOverdue == phase = "sealed" /\ HasJob => Pushed(NextJob).due > height

(* BarrierClosed: once a problem has a winner, no candidate of it is under
   check or waits with a passed proof, and what is still unrevealed was
   committed later than the winner. *)
BarrierClosed ==
    \A k \in DOMAIN cand : prob[k[1]].winner # 0 =>
        /\ cand[k].st \notin {"checking", "passed"}
        /\ cand[k].st \in Revealing => Before(<<k[1], prob[k[1]].winner>>, k)

(* CompensationAdmissible: a compensation belongs to a candidate that is
   accepted or stale, and a cancelled one to a stale candidate of a problem
   with another winner. *)
CompensationAdmissible ==
    \A i \in DOMAIN rewards : rewards[i].comp =>
        /\ cand[rewards[i].key].st \in {"accepted", "stale"}
        /\ rewards[i].st = "cancelled" =>
              /\ cand[rewards[i].key].st = "stale"
              /\ prob[rewards[i].key[1]].winner \notin {0, rewards[i].key[2]}

(* RewardsExact: a candidate has one reward if it is accepted or stale and
   none otherwise; a stale one's admission is retired, and its reward is
   never paid later. *)
RewardsExact ==
    /\ \A i, j \in DOMAIN rewards : rewards[i].key = rewards[j].key => i = j
    /\ \A k \in DOMAIN cand :
          (\E i \in DOMAIN rewards : rewards[i].key = k) <=> cand[k].st \in {"accepted", "stale"}
    /\ \A i \in DOMAIN rewards :
          /\ rewards[i].retired <=> cand[rewards[i].key].st = "stale"
          /\ rewards[i].retired => rewards[i].st # "locked"

(* OneWinner: the winner of a problem is the only candidate that was
   rewarded without compensation. *)
OneWinner ==
    \A i \in DOMAIN rewards : ~ rewards[i].comp =>
        prob[rewards[i].key[1]].winner = rewards[i].key[2]

(* PrunedClean: when a problem's tombstones were deleted nothing of it can
   still be revealed and no tombstone is left. *)
PrunedClean ==
    phase # "verdicts" => \A k \in DOMAIN cand :
        prob[k[1]].closed # 0 /\ prob[k[1]].closed + W < height => cand[k].st \in Judged

(* SlotAlive: with a pool the slot is in a round or has a draw ahead, and
   the problem of an open round still takes commits or waits for its
   deadline. *)
SlotAlive ==
    /\ DOMAIN pool # {} => active # 0 \/ scheduled # 0
    /\ active # 0 => /\ scheduled = 0
                     /\ rounds[active].st \in {"drawn", "open"}
                     /\ rounds[active].st = "open" => prob[rounds[active].prob].closed = 0

(* PendingExact: a candidate waits for a recheck exactly while a job for
   one is in the queue. *)
PendingExact ==
    pending = {queue[i].key : i \in {j \in next + 1 .. Len(queue) : queue[j].kind = "recheck"}}

(* QuarantineHeld: a candidate that a quarantine condemned is never rewarded
   or passed by a gate that ran before: its job is still in the queue, and
   until it is applied the candidate is under check or out of the race. *)
QuarantineHeld ==
    \A k \in voids :
        /\ \E i \in next + 1 .. Len(queue) : queue[i].key = k /\ queue[i].kind = "verdict"
        /\ cand[k].st \in {"checking", "superseded", "void"}
        /\ ~ \E i \in DOMAIN rewards : rewards[i].key = k

(* QuarantineBinds: whatever the gate would say, the verdict of a condemned
   candidate leaves it void, unless a rival won before. *)
QuarantineBinds ==
    [][phase = "verdicts" => \A k \in voids \ voids' : cand'[k].st \in {"void", "superseded"}]_vars

(* PosedOnce: posing a problem again makes a new one; the window of a
   problem that was closed stays closed and its winner is kept. *)
PosedOnce ==
    [][\A p \in DOMAIN prob :
          /\ prob'[p].hv = prob[p].hv
          /\ prob[p].closed # 0 => prob'[p].closed = prob[p].closed
          /\ prob[p].winner # 0 => prob'[p].winner = prob[p].winner]_vars

(* VestedOnce: a reward is only ever paid or cancelled while it is locked,
   and only paid when it is mature. *)
VestedOnce ==
    [][\A i \in DOMAIN rewards :
          /\ rewards[i].st # "locked" => rewards'[i].st = rewards[i].st
          /\ rewards'[i].st = "vested" /\ rewards[i].st = "locked" => rewards[i].vest =< height]_vars

(* FoldSound: no first verdict stops the fold, no job falls behind the clock,
   a decided problem is closed to its candidates, and the slot goes on. *)
FoldSound ==
    TypeOK /\ FirstVerdictsApply /\ NeverOverdue /\ BarrierClosed /\ PrunedClean /\ SlotAlive

(* RewardsSound: one reward per accepted candidate, one uncompensated winner
   per problem, compensations as they are admissible, and rechecks known. *)
RewardsSound == CompensationAdmissible /\ RewardsExact /\ OneWinner /\ PendingExact

(* DecidedOnce: neither a problem nor a reward is decided twice. *)
DecidedOnce == PosedOnce /\ VestedOnce

(* Quarantined: a condemned candidate is held, and its verdict leaves it void. *)
Quarantined == []QuarantineHeld /\ QuarantineBinds

=============================================================================
