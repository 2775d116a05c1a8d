---------------------------- MODULE PackageFetch ----------------------------
(***************************************************************************)
(* The thread that fetches announced packages from peers into the node's   *)
(* store.  The journal of intents is written before the thread starts and  *)
(* is its queue after a restart; a request that is not served goes to the  *)
(* back of the queue.  A package is fetched and staged in one step and its *)
(* intent completed in the next, so that the process can stop in between.  *)
(* In place of the thread, any other caller may own the store.             *)
(***************************************************************************)
EXTENDS PackageStore

CONSTANTS
    Config,     \* Seq(Pairs): the requests of the configuration
    Served,     \* the roots that some peer serves
    MaxFaults   \* bound of the model: errors, misses and restarts

ASSUME FetchAssumption ==
    /\ Config \in Seq(Pairs) /\ IsInjective(Config)
    /\ Served \subseteq {p.root : p \in Pairs}
    /\ MaxFaults \in Nat

VARIABLES
    job,        \* Direct, Off, Opened, Ready, or the pair whose intent is to be completed
    queue,      \* Seq(Pairs)
    budget      \* faults left

vars == <<disk, unsynced, mem, told, job, queue, budget>>

Direct == [at |-> "direct"]     \* the store without the thread
Off == [at |-> "off"]
Opened == [at |-> "opened"]
Ready == [at |-> "ready"]
Completing(p) == [at |-> "complete", pair |-> p]

FetchInit ==
    /\ Init
    /\ job \in {Direct, Off}
    /\ queue = <<>> /\ budget = MaxFaults

(* An operation of the store fails only while faults are left. *)
Spend(all, o) ==
    /\ Cardinality(all) > 1 /\ ~ o.ok => budget > 0
    /\ budget' = IF Cardinality(all) > 1 /\ ~ o.ok THEN budget - 1 ELSE budget

OpenStore ==
    /\ job = Off
    /\ Open
    /\ job' = Opened
    /\ UNCHANGED <<queue, budget>>

(* The configuration is merged into the journal, which then is the queue; the
   node does not start without it. *)
Configure ==
    /\ job = Opened
    /\ \E o \in Registered(Now, Config) :
          /\ Spend(Registered(Now, Config), o)
          /\ Result(IF o.ok THEN o ELSE [o EXCEPT !.mem = Closed])
          /\ Tell("registered", ToSet(Config), o)
          /\ queue' = IF o.ok THEN o.mem.intents ELSE <<>>
          /\ job' = IF o.ok THEN Ready ELSE Off

Retried_First(rest, p) == <<p>> \o rest
Retried(rest, p) == Append(rest, p)

(* A package that is there since before the last restart. *)
Recover ==
    /\ job = Ready /\ queue # <<>>
    /\ LET p == Head(queue) IN
       /\ Healthy /\ p \in ToSet(mem.pending)
       /\ job' = Completing(p)
       /\ queue' = Tail(queue)
    /\ UNCHANGED <<disk, unsynced, mem, told, budget>>

(* A peer serves the package and it is staged, or the request waits. *)
Fetch ==
    /\ job = Ready /\ queue # <<>>
    /\ LET p == Head(queue) IN
       /\ Healthy /\ p \notin ToSet(mem.pending) /\ p.root \in Served
       /\ \E o \in Staged(Now, p) :
             /\ Spend(Staged(Now, p), o) /\ Result(o)
             /\ Tell("staged", {p}, o)
             /\ job' = IF o.ok THEN Completing(p) ELSE Ready
             /\ queue' = IF o.ok THEN Tail(queue) ELSE Retried(Tail(queue), p)

(* No peer serves it now, or the store refuses everything. *)
Postpone ==
    /\ job = Ready /\ queue # <<>>
    /\ LET p == Head(queue) IN
       /\ \/ ~ Healthy /\ UNCHANGED budget
          \/ Healthy /\ p \notin ToSet(mem.pending) /\ p.root \notin Served /\ UNCHANGED budget
          \/ Healthy /\ p \notin ToSet(mem.pending) /\ p.root \in Served
             /\ budget > 0 /\ budget' = budget - 1
       /\ queue' = Retried(Tail(queue), p)
    /\ UNCHANGED <<disk, unsynced, mem, told, job>>

Finish ==
    /\ job.at = "complete"
    /\ \E o \in Completed(Now, job.pair) :
          /\ Spend(Completed(Now, job.pair), o) /\ Result(o)
          /\ queue' = IF o.ok THEN queue ELSE Retried(queue, job.pair)
    /\ job' = Ready
    /\ UNCHANGED told

(* The process ends, in order or not, or the power is lost, also while it does
   not run or cannot open its store; the operator starts it again. *)
Restart ==
    /\ job # Direct /\ budget > 0
    /\ budget' = budget - 1
    /\ Kill \/ PowerLoss \/ OpenFails
    /\ job' = Off /\ queue' = <<>>

Loop == OpenStore \/ Configure \/ Recover \/ Fetch \/ Postpone \/ Finish

OtherCaller == job = Direct /\ Next /\ UNCHANGED <<job, queue, budget>>

FetchNext == Loop \/ Restart \/ OtherCaller

(* The thread polls its queue for ever, and a node that ended is started. *)
FetchSpec == FetchInit /\ [][FetchNext]_vars /\ WF_vars(Loop)

-----------------------------------------------------------------------------
(* Properties. *)

InHand == ToSet(queue) \cup (IF job.at = "complete" THEN {job.pair} ELSE {})

(* The queue is the journal: every open intent is in the thread's hands, once,
   and nothing else is, so that completing an intent never misses it. *)
QueueIsJournal ==
    job \notin {Direct, Off, Opened} /\ ~ mem.poisoned =>
        /\ InHand = ToSet(mem.intents)
        /\ Len(queue) + (IF job.at = "complete" THEN 1 ELSE 0) = Len(mem.intents)

Fetched(p) == p \in ToSet(disk.pending) /\ p \notin ToSet(disk.intents)

(* A package that some peer serves and that has a place is staged in the end
   and its intent completed, whatever requests stand before it in the queue,
   unless a write of unknown outcome has poisoned the store. *)
FetchedInTheEnd ==
    job = Off => \A p \in ToSet(Config) :
        p.root \in Served => <>[](Fetched(p) \/ mem.poisoned)

(* Nothing is lost between the store and the thread: confirmed pairs stay, and
   every open intent is in the thread's hands. *)
NothingLost == KeepsPromises /\ QueueIsJournal

=============================================================================
