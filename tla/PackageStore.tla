---------------------------- MODULE PackageStore ----------------------------
(***************************************************************************)
(* The node's store of proof packages: content-addressed objects, a FIFO   *)
(* of (root, reference) pairs and a journal of pairs still to be fetched.  *)
(* A snapshot is replaced by rename and then its directory is synced; an   *)
(* object is created and removed likewise.  An operation whose last sync   *)
(* fails poisons the store, which then refuses everything until reopened.  *)
(*                                                                         *)
(* disk is what a process sees.  A name that is not synced may be in an    *)
(* older state after a power loss: unsynced has the snapshots that may     *)
(* come back and the objects that may or may not be there.  The store has  *)
(* one owner, so an operation is one step; every point at which the        *)
(* process can stop inside it is a point at which it can also fail there,  *)
(* and Kill after that failure is the stop.                                *)
(***************************************************************************)
EXTENDS Integers, Sequences, SequencesExt, FiniteSetsExt

CONSTANTS
    Pairs,          \* the [root, ref] records that callers use
    Size(_),        \* the bytes of a package
    MaxPending, MaxBytes    \* capacity of the FIFO; MaxPending is also the journal's

ASSUME StoreAssumption ==
    /\ \A p \in Pairs : p = [root |-> p.root, ref |-> p.ref] /\ Size(p.root) \in Nat
    /\ {MaxPending, MaxBytes} \subseteq Nat

VARIABLES
    disk,       \* [objects, pending, intents]
    unsynced,   \* [objects, pending, intents]
    mem,        \* [pending, intents, poisoned] of the open store, or Closed
    told        \* what callers were told: [registered, staged, taken, lost]

storeVars == <<disk, unsynced, mem, told>>

Closed == [poisoned |-> FALSE]
Healthy == mem # Closed /\ ~ mem.poisoned

Init ==
    /\ disk = [objects |-> {}, pending |-> <<>>, intents |-> <<>>]
    /\ unsynced = [objects |-> {}, pending |-> {}, intents |-> {}]
    /\ mem = Closed
    /\ told = [registered |-> {}, staged |-> {}, taken |-> {}, lost |-> {}]

-----------------------------------------------------------------------------
(* Ways in which an operation can leave the store; ok is what the caller
   sees. *)

Now == [disk |-> disk, unsynced |-> unsynced, mem |-> mem, ok |-> TRUE]
Refused(s) == [s EXCEPT !.ok = FALSE]
Poisoned(s) == [s EXCEPT !.mem.poisoned = TRUE, !.ok = FALSE]

(* The memory follows the visible file, also when the sync then fails; the
   old snapshot may still come back. *)
Renamed(s, file, value) ==
    [s EXCEPT !.disk[file] = value, !.unsynced[file] = @ \cup {s.disk[file]}, !.mem[file] = value]

(* Both snapshots are in one directory. *)
RootSynced(s) == [s EXCEPT !.unsynced.pending = {}, !.unsynced.intents = {}]

Committed(s, file, value) ==
    {RootSynced(Renamed(s, file, value)), Poisoned(Renamed(s, file, value))}

Replaced(s, file, value) == Committed(s, file, value) \cup {Refused(s)}

ObjectSet(s, root, present) ==
    [s EXCEPT !.disk.objects = IF present THEN @ \cup {root} ELSE @ \ {root},
              !.unsynced.objects = @ \cup {root}]
ObjectsSynced(s) == [s EXCEPT !.unsynced.objects = {}]

(* An object that is there is used. *)
ObjectWritten(s, root) ==
    IF root \in s.disk.objects THEN {s}
    ELSE LET created == ObjectSet(s, root, TRUE)
         IN {ObjectsSynced(created), Refused(s), Poisoned(created)}

ObjectRemoved(s, root) ==
    LET removed == ObjectSet(s, root, FALSE)
    IN {ObjectsSynced(removed), Poisoned(s), Poisoned(removed)}

BytesOf(pending) ==
    LET upTo[i \in 0..Len(pending)] ==
            IF i = 0 THEN 0 ELSE upTo[i - 1] + Size(pending[i].root)
    IN upTo[Len(pending)]

Fits(pending, p) ==
    /\ Len(pending) < MaxPending
    /\ BytesOf(pending) + Size(p.root) <= MaxBytes

(* The object first, then the FIFO; an object written for a refused pair is
   taken back. *)
Staged_FifoFirst(s, p) ==
    UNION {IF o.ok THEN ObjectWritten(o, p.root) ELSE {o}
              : o \in Replaced(s, "pending", Append(s.mem.pending, p))}
Staged(s, p) ==
    LET pending == s.mem.pending
        listed(o) ==
            Committed(o, "pending", Append(pending, p))
              \cup (IF p.root \in s.disk.objects THEN {Refused(o)}
                    ELSE {Refused(u) : u \in ObjectRemoved(o, p.root)})
    IN IF p \in ToSet(pending) THEN {IF p.root \in s.disk.objects THEN s ELSE Refused(s)}
       ELSE IF ~ Fits(pending, p) THEN {Refused(s)}
       ELSE UNION {IF o.ok THEN listed(o) ELSE {o} : o \in ObjectWritten(s, p.root)}

(* A reference names one root for as long as its intent is open. *)
Conflict(pairs) == \E p, q \in pairs : p.ref = q.ref /\ p.root # q.root

(* Pairs that are there are not added again. *)
Merged(intents, request) ==
    LET upTo[i \in 0..Len(request)] ==
            IF i = 0 THEN intents
            ELSE IF request[i] \in ToSet(upTo[i - 1]) THEN upTo[i - 1]
            ELSE Append(upTo[i - 1], request[i])
    IN upTo[Len(request)]

Registered(s, request) ==
    LET intents == s.mem.intents
        next == Merged(intents, request)
    IN IF Conflict(ToSet(next)) \/ Len(next) > MaxPending THEN {Refused(s)}
       ELSE IF next = intents THEN {s}
       ELSE Replaced(s, "intents", next)

Completable(s, p) ==
    /\ p \in ToSet(s.mem.intents)
    /\ p \in ToSet(s.mem.pending)
    /\ p.root \in s.disk.objects

Completed(s, p) ==
    IF Completable(s, p) THEN Replaced(s, "intents", RemoveFirst(s.mem.intents, p)) ELSE {Refused(s)}

(* The FIFO first, then the object when no reference to it is left. *)
Acknowledged(s, p) ==
    LET left == RemoveFirst(s.mem.pending, p)
    IN IF ~ (p \in ToSet(s.mem.pending) /\ p.root \in s.disk.objects) THEN {Refused(s)}
       ELSE UNION {IF o.ok /\ \A q \in ToSet(left) : q.root # p.root
                   THEN ObjectRemoved(o, p.root) ELSE {o} : o \in Replaced(s, "pending", left)}

-----------------------------------------------------------------------------
(* Operations of the open store. *)

Result(o) == disk' = o.disk /\ mem' = o.mem /\ unsynced' = o.unsynced

Tell(field, pairs, o) == told' = [told EXCEPT ![field] = IF o.ok THEN @ \cup pairs ELSE @]

Stage(p) == Healthy /\ \E o \in Staged(Now, p) : Result(o) /\ Tell("staged", {p}, o)

Register(request) ==
    /\ Healthy
    /\ \E o \in Registered(Now, request) :
          Result(o) /\ Tell("registered", ToSet(request), o)

Complete(p) == Healthy /\ (\E o \in Completed(Now, p) : Result(o)) /\ UNCHANGED told

(* The caller is done with the pair, whatever the answer is. *)
Acknowledge(p) ==
    /\ Healthy
    /\ \E o \in Acknowledged(Now, p) : Result(o)
    /\ told' = [told EXCEPT !.taken = @ \cup {p}]

-----------------------------------------------------------------------------
(* Opening, repair and faults. *)

Listed(pending) == {p.root : p \in ToSet(pending)}
Loadable == Listed(disk.pending) \subseteq disk.objects

Orphans == disk.objects \ Listed(disk.pending)

(* Whoever opens the directories syncs both, whatever it then finds in them:
   what the last process left visible is certain from here on. *)
Authority_Unsynced(s) == s
Authority(s) == ObjectsSynced(RootSynced(s))

(* Objects that no pair lists are removed, and their directory synced again,
   before the store is used. *)
Open ==
    /\ mem = Closed
    /\ Loadable
    /\ mem' = [pending |-> disk.pending, intents |-> disk.intents, poisoned |-> FALSE]
    /\ disk' = [disk EXCEPT !.objects = @ \ Orphans]
    /\ unsynced' = Authority(Now).unsynced
    /\ UNCHANGED told

(* The store is not opened when an object is missing.  It also fails between
   the two syncs, and after them with some of the orphans removed. *)
OpenFails ==
    /\ mem = Closed
    /\ \/ /\ ~ Loadable
          /\ disk' = disk
          /\ unsynced' = Authority(Now).unsynced
       \/ /\ disk' = disk
          /\ unsynced' = RootSynced(Now).unsynced
       \/ /\ Loadable
          /\ \E gone \in SUBSET Orphans :
                /\ disk' = [disk EXCEPT !.objects = @ \ gone]
                /\ unsynced' = [Authority(Now).unsynced EXCEPT !.objects = gone]
    /\ UNCHANGED <<mem, told>>

(* Offline: an object that a pair lists is written again. *)
Restored(s, root) ==
    IF root \in Listed(s.disk.pending) THEN ObjectWritten(s, root) ELSE {Refused(s)}

Restore(root) ==
    /\ mem = Closed
    /\ \E o \in Restored(Authority(Now), root) :
          /\ disk' = o.disk
          /\ unsynced' = o.unsynced
          /\ told' = [told EXCEPT !.lost = IF o.ok THEN @ \ {root} ELSE @]
    /\ UNCHANGED mem

(* An object disappears from outside. *)
LoseObject(root) ==
    /\ root \in disk.objects
    /\ disk' = [disk EXCEPT !.objects = @ \ {root}]
    /\ unsynced' = [unsynced EXCEPT !.objects = @ \ {root}]
    /\ told' = [told EXCEPT !.lost = @ \cup {root}]
    /\ UNCHANGED mem

Kill ==
    /\ mem # Closed
    /\ mem' = Closed
    /\ UNCHANGED <<disk, unsynced, told>>

PowerLoss ==
    /\ mem' = Closed
    /\ \E objects \in SUBSET unsynced.objects,
          pending \in {disk.pending} \cup unsynced.pending,
          intents \in {disk.intents} \cup unsynced.intents :
          disk' = [objects |-> (disk.objects \ unsynced.objects) \cup objects,
                   pending |-> pending, intents |-> intents]
    /\ unsynced' = [objects |-> {}, pending |-> {}, intents |-> {}]
    /\ UNCHANGED told

Next ==
    \/ \E p \in Pairs : Stage(p) \/ Complete(p) \/ Acknowledge(p)
    \/ \E request \in {<<p>> : p \in Pairs} \cup (Pairs \X Pairs) : Register(request)
    \/ Open \/ OpenFails \/ Kill \/ PowerLoss
    \/ \E root \in {p.root : p \in Pairs} : Restore(root) \/ LoseObject(root)

Spec == Init /\ [][Next]_storeVars

-----------------------------------------------------------------------------
(* Properties. *)

IsFifo(pairs) == IsInjective(pairs) /\ Len(pairs) <= MaxPending /\ ToSet(pairs) \subseteq Pairs

(* The variables have the shapes the snapshots have; the bounds of the FIFO
   and of the journal and the uniqueness of their entries included. *)
TypeOK ==
    /\ IsFifo(disk.pending) /\ BytesOf(disk.pending) <= MaxBytes
    /\ IsFifo(disk.intents) /\ ~ Conflict(ToSet(disk.intents))
    /\ disk.objects \cup unsynced.objects \cup told.lost \subseteq {p.root : p \in Pairs}

(* A pair is never listed without its object, unless the object was lost from
   outside: whatever failed or stopped, the store opens again. *)
PendingHasObject == Listed(disk.pending) \subseteq disk.objects \cup told.lost

(* The open store answers from what a restart would read, also after a write
   whose outcome it does not know. *)
MemoryIsDisk ==
    mem # Closed => mem.pending = disk.pending /\ mem.intents = disk.intents

(* A pair the store confirmed stays: an intent until its package is staged, a
   staged package until the caller is done with it. *)
KeepsPromises ==
    /\ told.registered \subseteq ToSet(disk.intents) \cup ToSet(disk.pending) \cup told.taken
    /\ told.staged \subseteq ToSet(disk.pending) \cup told.taken

(* The files are sound: shapes and bounds hold, every listed pair has its
   object, and the open store answers from what a restart would read. *)
FilesSound == TypeOK /\ PendingHasObject /\ MemoryIsDisk

=============================================================================
