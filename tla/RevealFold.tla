----------------------------- MODULE RevealFold -----------------------------
(***************************************************************************)
(* The commit-reveal half of the devnet's fold over finalized L1 blocks:   *)
(* pools of committed problem leaves, the slot that draws from them, the   *)
(* rounds it opens, and the candidates that are committed to a problem     *)
(* before they are revealed part by part.  VerdictFold adds the verdicts,  *)
(* the winners and their rewards, and the order of a height's stages.      *)
(*                                                                         *)
(* One slot is modelled: slots share no pool, problem or re-pose queue.    *)
(* The hash that names a problem binds its leaf and its epoch and nothing  *)
(* that changes between two epochs, so an id is <<leaf, epoch>>.  Hashes   *)
(* that order candidates or draw a leaf are arbitrary.  An item that the   *)
(* fold drops leaves no state behind, so it is no step.  Zero stands for   *)
(* an absent height, round or commit.                                      *)
(***************************************************************************)
EXTENDS Integers, Sequences, FiniteSets

CONSTANTS
    Leaves, Commits, Parts,     \* problem leaves, commit hashes, parts of a reveal
    Ties,                       \* values of a tie-breaking hash
    D, W,                       \* earliest and latest reveal after the commit
    AnnounceGap, RevealGrace,
    PoolLead, StartSlack,       \* StartSlack bounds how late a pool starts
    CCommit,                    \* commits of one height
    SlotLeavesMax,
    MaxEpoch,                   \* bound of the model: times a problem is posed
    Scenarios                   \* networks and bounds of the exploration, see net

ASSUME RevealAssumption ==
    /\ Commits \subseteq Nat \ {0}
    /\ Ties \subseteq Nat \ {0} /\ Ties # {}
    /\ IsFiniteSet(Parts) /\ Parts # {}
    /\ {D, W, CCommit, SlotLeavesMax, StartSlack, MaxEpoch} \subseteq Nat
    /\ 2 =< D /\ D < W
    /\ {AnnounceGap, RevealGrace, PoolLead} \subseteq Nat \ {0}
    /\ \A s \in Scenarios :
          /\ s.leaves \subseteq Leaves /\ s.solve_deadline \in Nat \ {0}
          /\ {s.heights, s.logs} \subseteq Nat

VARIABLES
    net,        \* the scenario, which never changes: [forks, solve_deadline, fuels,
                \* and the bounds leaves, heights and logs (items of one height)]
    height,     \* the height that is folded, or was folded last
    phase,      \* the stage of the height
    logs,       \* [all, commits]: items of this height so far
    pool,       \* published leaves, each with the height its pool starts
    unused,     \* leaves that were not drawn
    rounds,     \* the slot's rounds: [st, hd, leaf, prob]
    active,     \* the round the slot is in
    scheduled,  \* when an idle slot draws
    prob,       \* problems: [hv, closed, winner, voided]
    repose,     \* problems to be posed again
    cand        \* candidates <<problem, commit>>: [st, hc, t, parts, q]

slotVars == <<pool, unused, rounds, active, scheduled, repose>>
revealVars == <<net, height, phase, logs, slotVars, prob, cand>>

Problems == Leaves \X (0 .. MaxEpoch)
Keys == Problems \X Commits
NoProblem == <<"none", 0>>

Tombstones == {"expired", "cancelled"}
Revealing == {"committed", "open"}
Barrier == Revealing \cup {"checking", "passed"}
Judged == {"checking", "passed", "accepted", "rejected", "void", "stale", "superseded"}

CandidatesOf(p) == {k \in DOMAIN cand : k[1] = p}

(* An expired or cancelled candidate keeps its status and nothing else. *)
Tombstone(st) == [st |-> st, hc |-> 0, t |-> 0, parts |-> {}, q |-> 0]

RevealInit ==
    /\ net \in Scenarios
    /\ height = 0
    /\ phase = "sealed"
    /\ logs = [all |-> 0, commits |-> 0]
    /\ pool = [l \in {} |-> 0]
    /\ unused = {}
    /\ rounds = <<>>
    /\ active = 0
    /\ scheduled = 0
    /\ prob = [p \in {} |-> 0]
    /\ repose = <<>>
    /\ cand = [k \in {} |-> 0]

-----------------------------------------------------------------------------
(* The order of candidates, by height, tie hash and commit hash. *)

Before(k, l) ==
    LET a == cand[k]  b == cand[l]
    IN  \/ a.hc < b.hc
        \/ a.hc = b.hc /\ a.t < b.t
        \/ a.hc = b.hc /\ a.t = b.t /\ k[2] < l[2]

(* The height after a commit fixes its tie hash. *)
FreshTies == {k \in DOMAIN cand : cand[k].hc = height /\ cand[k].t = 0 /\ cand[k].st \notin Tombstones}

WithTies(tie) ==
    [k \in DOMAIN cand |-> IF k \in FreshTies THEN [cand[k] EXCEPT !.t = tie[k]] ELSE cand[k]]

-----------------------------------------------------------------------------
(* The slot at the start of a height. *)

Withheld == active # 0 /\ rounds[active].st = "drawn" /\ rounds[active].hd + 1 + RevealGrace < height

Deadline(p) == prob[p].hv + net.solve_deadline

Expired_Solving ==
    active # 0 /\ rounds[active].st = "open" /\ Deadline(rounds[active].prob) < height

Ends == Withheld \/ Expired_Solving

Draws == active = 0 /\ scheduled # 0 /\ scheduled < height

(* The round ends unrevealed, or its problem takes no more commits. *)
SlotEnd ==
    /\ Ends
    /\ rounds' = [rounds EXCEPT ![active].st = IF Withheld THEN "withheld" ELSE "closed"]
    /\ prob' = IF Withheld THEN prob ELSE [prob EXCEPT ![rounds[active].prob].closed = height]
    /\ active' = 0
    /\ scheduled' = height + AnnounceGap
    /\ UNCHANGED <<pool, unused, repose>>

SlotWait ==
    /\ ~ Ends /\ ~ Draws
    /\ UNCHANGED <<slotVars, prob>>

OpenProblem == [hv |-> height, closed |-> 0, winner |-> 0, voided |-> FALSE]

Posed(p) == [q \in DOMAIN prob \cup {p} |-> IF q = p THEN OpenProblem ELSE prob[q]]

NewRound(st, leaf, p) ==
    /\ rounds' = Append(rounds, [st |-> st, hd |-> height - 1, leaf |-> leaf, prob |-> p])
    /\ active' = Len(rounds) + 1
    /\ scheduled' = 0

(* A problem in the queue is posed again, with the next epoch and no reveal. *)
SlotRepose_SameId ==
    /\ Draws /\ repose # <<>>
    /\ NewRound("open", Head(repose)[1], Head(repose))
    /\ prob' = Posed(Head(repose))
    /\ repose' = Tail(repose)
    /\ UNCHANGED <<pool, unused>>
SlotRepose ==
    /\ Draws /\ repose # <<>>
    /\ Head(repose)[2] < MaxEpoch
    /\ LET p == <<Head(repose)[1], Head(repose)[2] + 1>>
       IN  NewRound("open", p[1], p) /\ prob' = Posed(p)
    /\ repose' = Tail(repose)
    /\ UNCHANGED <<pool, unused>>

Eligible == {l \in unused : pool[l] =< scheduled}

SlotDraw ==
    /\ Draws /\ repose = <<>>
    /\ \E l \in Eligible : unused' = unused \ {l} /\ NewRound("drawn", l, NoProblem)
    /\ UNCHANGED <<pool, repose, prob>>

SlotIdle ==
    /\ Draws /\ repose = <<>> /\ Eligible = {}
    /\ scheduled' = height
    /\ UNCHANGED <<pool, unused, rounds, active, repose, prob>>

(* Candidates that were not revealed in time expire, and a problem's
   tombstones go when no candidate of it can still be revealed. *)
Expiring(k) == cand[k].st \in Revealing /\ cand[k].hc + W < height

Pruned(p) == prob[p].closed # 0 /\ prob[p].closed + W + 1 = height

ExpireAndPrune ==
    LET gone == {k \in DOMAIN cand : Pruned(k[1]) /\ (cand[k].st \in Tombstones \/ Expiring(k))}
    IN  cand' = [k \in DOMAIN cand \ gone |->
                    IF Expiring(k) THEN Tombstone("expired") ELSE cand[k]]

SlotEvents ==
    /\ SlotEnd \/ SlotWait \/ SlotRepose \/ SlotDraw \/ SlotIdle
    /\ ExpireAndPrune

-----------------------------------------------------------------------------
(* Inbox items, in log order. *)

Logged(commits) ==
    /\ phase = "logs"
    /\ logs.all < net.logs
    /\ logs' = [all |-> logs.all + 1, commits |-> logs.commits + commits]
    /\ UNCHANGED <<net, height, phase>>

TakesCommits(p) == height > prob[p].hv /\ prob[p].closed = 0 /\ height =< Deadline(p)

Commit(k) ==
    /\ k[1] \in DOMAIN prob /\ TakesCommits(k[1])
    /\ k \notin DOMAIN cand
    /\ logs.commits < CCommit
    /\ Logged(1)
    /\ cand' = [l \in DOMAIN cand \cup {k} |->
                   IF l = k THEN [st |-> "committed", hc |-> height, t |-> 0, parts |-> {}, q |-> 0]
                   ELSE cand[l]]
    /\ UNCHANGED <<slotVars, prob>>

InWindow(k) == cand[k].hc + D =< height /\ height =< cand[k].hc + W

Open(k) ==
    /\ k \in DOMAIN cand /\ cand[k].st = "committed"
    /\ InWindow(k)
    /\ Logged(0)
    /\ cand' = [cand EXCEPT ![k].st = "open"]
    /\ UNCHANGED <<slotVars, prob>>

Cancel(k) ==
    /\ k \in DOMAIN cand /\ cand[k].st \in Revealing
    /\ Logged(0)
    /\ cand' = [cand EXCEPT ![k] = Tombstone("cancelled")]
    /\ UNCHANGED <<slotVars, prob>>

(* A pool of new leaves; the first one wakes an idle slot. *)
Pool(ls, start) ==
    /\ ls # {} /\ ls \cap DOMAIN pool = {}
    /\ Cardinality(unused) + Cardinality(ls) =< SlotLeavesMax
    /\ start >= height + PoolLead
    /\ Logged(0)
    /\ pool' = [l \in DOMAIN pool \cup ls |-> IF l \in ls THEN start ELSE pool[l]]
    /\ unused' = unused \cup ls
    /\ scheduled' = IF active = 0 /\ scheduled = 0 THEN start ELSE scheduled
    /\ UNCHANGED <<rounds, active, repose, prob, cand>>

(* The drawn leaf's statement is shown, and its problem opens. *)
Reveal(r) ==
    /\ r \in DOMAIN rounds /\ rounds[r].st = "drawn"
    /\ Logged(0)
    /\ LET p == <<rounds[r].leaf, 0>>
       IN  /\ rounds' = [rounds EXCEPT ![r].st = "open", ![r].prob = p]
           /\ prob' = Posed(p)
    /\ UNCHANGED <<pool, unused, active, scheduled, repose, cand>>

RevealItem ==
    \/ \E k \in Keys : Commit(k) \/ Open(k) \/ Cancel(k)
    \/ \E ls \in SUBSET net.leaves, slack \in 0 .. StartSlack : Pool(ls, height + PoolLead + slack)
    \/ \E r \in DOMAIN rounds : Reveal(r)

-----------------------------------------------------------------------------
(* A problem whose window closes before its deadline frees the slot, if the
   first round that posed it is the one the slot is in. *)

Closes(p) == prob[p].closed = 0 /\ height =< Deadline(p)
ClosedAt(p) == IF Closes(p) THEN height ELSE prob[p].closed

RoundOf(p) == CHOOSE r \in DOMAIN rounds :
                 rounds[r].prob = p /\ \A s \in 1 .. r - 1 : rounds[s].prob # p

CloseWindow_KeepsSlot(p) ==
    IF Closes(p)
    THEN /\ rounds' = [rounds EXCEPT ![RoundOf(p)].st = "closed"]
         /\ UNCHANGED <<active, scheduled>>
    ELSE UNCHANGED <<rounds, active, scheduled>>

CloseWindow(p) ==
    IF Closes(p)
    THEN /\ rounds' = [rounds EXCEPT ![RoundOf(p)].st = "closed"]
         /\ active' = IF active = RoundOf(p) THEN 0 ELSE active
         /\ scheduled' = IF active = RoundOf(p) THEN height + AnnounceGap ELSE scheduled
    ELSE UNCHANGED <<rounds, active, scheduled>>

=============================================================================
