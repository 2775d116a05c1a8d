---------------------------- MODULE NativeService ----------------------------
(***************************************************************************)
(* How the threads of one native process share and give up the node:       *)
(* HTTP requests (crates/boole-node/src/native_http.rs), peer workers and  *)
(* the peer acceptor (native_peers.rs), and the shutdown boundary they all *)
(* pass (p2p_lifecycle.rs).  What an operation does to the node is the     *)
(* subject of NativeNode; here it is the time between taking the node lock *)
(* and releasing it.                                                       *)
(*                                                                         *)
(* The mutation gate is a RwLock whose waiting writer holds back readers.  *)
(***************************************************************************)
EXTENDS Integers, FiniteSets

CONSTANTS
    Requests,     \* HTTP requests that may be made
    Workers,      \* peer threads: outgoing loops and inbound rounds
    None,         \* nobody
    MaxRequests   \* MAX_NATIVE_REQUESTS: 8 in the code

Actors == Requests \cup Workers

ASSUME ServiceAssumption ==
    /\ Requests \cap Workers = {} /\ IsFiniteSet(Requests)
    /\ None \notin Actors
    /\ MaxRequests \in Nat

VARIABLES
    main,          \* where serve_inner is
    acceptor,      \* where the peer accept loop is
    stopped,       \* P2pLifecycle::stopped of the node
    http_stopped,  \* P2pLifecycle::stopped of the HTTP connections
    registry,      \* who holds P2pLifecycle::sockets
    sockets,       \* the registered sockets, by worker
    shut,          \* the sockets shut down by request_stop
    permits,       \* who holds the mutation gate for reading
    writer,        \* stop waits for the mutation gate
    holder,        \* who holds the node lock
    pc,            \* where each request's operation and each worker is
    caller         \* what became of each HTTP caller

gate == <<permits, writer>>
boundary == <<stopped, http_stopped, registry, sockets, shut>>
vars == <<main, acceptor, boundary, gate, holder, pc, caller>>

MainSteps == {"serving", "sweep", "notify", "draining", "closing", "guard",
              "barrier", "peers", "joining", "releasing", "released", "retained"}
AcceptorSteps == {"accepting", "sweep", "notify", "gone"}

\* The stages of an operation that has the gate.
InGate == {"checking", "permit", "polling", "acting"}
RequestSteps == {"new", "body", "spawned", "over"} \cup InGate
WorkerSteps == {"top", "connect", "io", "reading", "gate", "closing",
                "wait", "predicate", "asleep", "woken", "exit"} \cup InGate
CallerStates == {"absent", "connected", "waiting", "refused", "timeout", "lost", "answered"}

At(a, stage) == pc[a] = stage
Goto(a, stage) == pc' = [pc EXCEPT ![a] = stage]

Init ==
    /\ main = "serving" /\ acceptor = "accepting"
    /\ stopped = FALSE /\ http_stopped = FALSE
    /\ registry = None /\ sockets = {} /\ shut = {}
    /\ permits = {} /\ writer = FALSE /\ holder = None
    /\ pc = [a \in Actors |-> IF a \in Requests THEN "new" ELSE "top"]
    /\ caller = [r \in Requests |-> "absent"]

-----------------------------------------------------------------------------
(* HTTP requests.                                                          *)

\* Mutated form: the slot is given back with the answer to the caller.
LeaseHeld_UntilAnswered(r) == caller[r] = "waiting"

\* RequestLease: cloned into the middleware and into the blocking operation,
\* the slot is free when both are done.
LeaseHeld(r) ==
    caller[r] = "waiting" \/ pc[r] \in {"body", "spawned"} \cup InGate

Leases == {r \in Requests : LeaseHeld(r)}

\* BoundedHttpListener accepts and registers the connection.
Connect(r) ==
    /\ main = "serving" /\ caller[r] = "absent"
    /\ caller' = [caller EXCEPT ![r] = "connected"]
    /\ UNCHANGED <<main, acceptor, boundary, gate, holder, pc>>

\* boundary: one slot is taken before the body is read, or the caller is told
\* that there is none.
Arrive(r) ==
    /\ caller[r] = "connected" /\ ~ http_stopped
    /\ IF Cardinality(Leases) < MaxRequests
       THEN Goto(r, "body") /\ caller' = [caller EXCEPT ![r] = "waiting"]
       ELSE Goto(r, "over") /\ caller' = [caller EXCEPT ![r] = "refused"]
    /\ UNCHANGED <<main, acceptor, boundary, gate, holder>>

\* The body is complete: `operation` hands the work and the slot to a blocking
\* thread.  A body that does not parse is answered at once.
BodyRead(r) ==
    /\ At(r, "body") /\ caller[r] = "waiting"
    /\ \/ Goto(r, "spawned") /\ UNCHANGED caller
       \/ Goto(r, "over") /\ caller' = [caller EXCEPT ![r] = "answered"]
    /\ UNCHANGED <<main, acceptor, boundary, gate, holder>>

\* The future of the caller is dropped; a blocking operation it started is not.
CallerLeaves(r, outcome) ==
    /\ caller' = [caller EXCEPT ![r] = outcome]
    /\ pc' = [pc EXCEPT ![r] = IF @ \in {"new", "body"} THEN "over" ELSE @]
    /\ UNCHANGED <<main, acceptor, boundary, gate, holder>>

\* tokio::time::timeout of ten seconds around the handler.
RequestTimesOut(r) == caller[r] = "waiting" /\ CallerLeaves(r, "timeout")

\* The client goes away, or its socket is shut at the end of the drain.
Disconnect(r) == caller[r] \in {"connected", "waiting"} /\ CallerLeaves(r, "lost")

\* A connection without a request in flight ends with the graceful shutdown.
IdleConnectionEnds(r) ==
    main # "serving" /\ caller[r] = "connected" /\ CallerLeaves(r, "lost")

-----------------------------------------------------------------------------
(* Operations: begin_mutation, the node lock, the work.                    *)

\* mutation_gate.read()
AcquireGate(a) ==
    /\ pc[a] \in {"spawned", "gate"}
    /\ ~ writer
    /\ permits' = permits \cup {a}
    /\ Goto(a, "checking")
    /\ UNCHANGED <<main, acceptor, boundary, writer, holder, caller>>

\* Where an actor is after an operation, and what its caller is told.
Leave(a) ==
    /\ permits' = permits \ {a}
    /\ IF a \in Requests
       THEN /\ Goto(a, "over")
            /\ caller' = [caller EXCEPT ![a] = IF @ = "waiting" THEN "answered" ELSE @]
       ELSE \E next \in {"io", "closing"} : Goto(a, next) /\ UNCHANGED caller

\* begin_mutation reads the flag only once it holds the gate.
CheckStopped(a) ==
    /\ At(a, "checking")
    /\ IF stopped
       THEN Leave(a)
       ELSE Goto(a, "permit") /\ UNCHANGED <<permits, caller>>
    /\ UNCHANGED <<main, acceptor, boundary, writer, holder>>

\* A request blocks on the lock; a worker polls it and reads the flag again.
LockNode(a) ==
    /\ At(a, "permit") /\ holder = None
    /\ a \in Workers => ~ stopped
    /\ holder' = a
    /\ Goto(a, "acting")
    /\ UNCHANGED <<main, acceptor, boundary, gate, caller>>

\* Round::lock_node finds the node busy: it waits a few milliseconds on the
\* lifecycle's condition variable, and so takes the registry inside the gate.
PollLock(w) ==
    /\ w \in Workers /\ At(w, "permit") /\ holder # None /\ ~ stopped
    /\ registry = None /\ registry' = w
    /\ Goto(w, "polling")
    /\ UNCHANGED <<main, acceptor, stopped, http_stopped, sockets, shut, gate, holder, caller>>

PollElapses(w) ==
    /\ At(w, "polling") /\ registry = w
    /\ registry' = None
    /\ Goto(w, "permit")
    /\ UNCHANGED <<main, acceptor, stopped, http_stopped, sockets, shut, gate, holder, caller>>

\* Round::lock_node gives up: the node is stopping or the round expired.
LockRefused(w) ==
    /\ w \in Workers /\ At(w, "permit")
    /\ permits' = permits \ {w}
    /\ Goto(w, "closing")
    /\ UNCHANGED <<main, acceptor, boundary, writer, holder, caller>>

\* Mutated form: the lock is leaked.
FinishOperation_KeepsLock(a) ==
    /\ At(a, "acting") /\ holder = a
    /\ Leave(a)
    /\ UNCHANGED <<main, acceptor, boundary, writer, holder>>

\* The operation ends: lock, permit and slot are dropped together.
FinishOperation(a) ==
    /\ At(a, "acting") /\ holder = a
    /\ holder' = None
    /\ Leave(a)
    /\ UNCHANGED <<main, acceptor, boundary, writer>>

-----------------------------------------------------------------------------
(* Peer workers.                                                           *)

\* The loop condition, and a connect that always returns within its timeout.
Top(w) ==
    /\ w \in Workers /\ At(w, "top")
    /\ Goto(w, IF stopped THEN "exit" ELSE "connect")
    /\ UNCHANGED <<main, acceptor, boundary, gate, holder, caller>>

\* Mutated form: the registry is not told that the node is stopping.
Register_Unchecked(w) ==
    /\ w \in Workers /\ At(w, "connect") /\ registry = None
    /\ sockets' = sockets \cup {w} /\ Goto(w, "io")
    /\ UNCHANGED <<main, acceptor, stopped, http_stopped, registry, shut, gate, holder, caller>>

\* P2pLifecycle::register: flag and insertion under the registry lock.
Register(w) ==
    /\ w \in Workers /\ At(w, "connect") /\ registry = None
    /\ IF stopped
       THEN Goto(w, "wait") /\ UNCHANGED sockets
       ELSE sockets' = sockets \cup {w} /\ Goto(w, "io")
    /\ UNCHANGED <<main, acceptor, stopped, http_stopped, registry, shut, gate, holder, caller>>

\* The connect failed or timed out.
ConnectFails(w) ==
    /\ w \in Workers /\ At(w, "connect")
    /\ Goto(w, "wait")
    /\ UNCHANGED <<main, acceptor, boundary, gate, holder, caller>>

\* A message arrives; a block or a transfer asks for the gate, anything else
\* is answered from the node under its lock, without a permit.
Receive(w) ==
    /\ w \in Workers /\ At(w, "io") /\ w \notin shut
    /\ \/ Goto(w, "gate") /\ UNCHANGED holder
       \/ /\ holder = None /\ ~ stopped
          /\ holder' = w /\ Goto(w, "reading")
    /\ UNCHANGED <<main, acceptor, boundary, gate, caller>>

FinishReading(w) ==
    /\ At(w, "reading")
    /\ holder' = None
    /\ Goto(w, "io")
    /\ UNCHANGED <<main, acceptor, boundary, gate, caller>>

\* The round ends: done, expired, refused, or its socket was shut.
RoundEnds(w) ==
    /\ w \in Workers /\ At(w, "io")
    /\ Goto(w, "closing")
    /\ UNCHANGED <<main, acceptor, boundary, gate, holder, caller>>

\* SocketLease::drop
Unregister(w) ==
    /\ At(w, "closing") /\ registry = None
    /\ sockets' = sockets \ {w} /\ shut' = shut \ {w}
    /\ Goto(w, "wait")
    /\ UNCHANGED <<main, acceptor, stopped, http_stopped, registry, gate, holder, caller>>

\* wait_or_stop: the flag is read under the registry lock (and once before it,
\* to the same effect); the condition variable then releases the lock and
\* sleeps in one step.
BeginWait(w) ==
    /\ At(w, "wait")
    /\ \/ stopped /\ Goto(w, "exit") /\ UNCHANGED registry
       \/ ~ stopped /\ registry = None /\ registry' = w /\ Goto(w, "predicate")
    /\ UNCHANGED <<main, acceptor, stopped, http_stopped, sockets, shut, gate, holder, caller>>

Sleep(w) ==
    /\ At(w, "predicate") /\ registry = w
    /\ registry' = None
    /\ Goto(w, "asleep")
    /\ UNCHANGED <<main, acceptor, stopped, http_stopped, sockets, shut, gate, holder, caller>>

\* One slice of the backoff elapses.
WaitElapses(w) ==
    /\ At(w, "asleep")
    /\ Goto(w, "woken")
    /\ UNCHANGED <<main, acceptor, boundary, gate, holder, caller>>

\* Woken or timed out, the sleeper needs the registry lock again to look at the
\* flag; if the node goes on it waits for the next slice or starts a round.
Resume(w) ==
    /\ At(w, "woken") /\ registry = None
    /\ IF stopped THEN Goto(w, "exit") ELSE \E next \in {"wait", "top"} : Goto(w, next)
    /\ UNCHANGED <<main, acceptor, boundary, gate, holder, caller>>

-----------------------------------------------------------------------------
(* request_stop, in its three steps, by serve_inner or by the acceptor.    *)

\* Mutated form: the sockets are shut without the registry lock.
Sweepable_Unlocked == TRUE

Sweepable == registry = None

ShutSockets == shut' = shut \cup sockets

WakeAll == pc' = [a \in Actors |-> IF At(a, "asleep") THEN "woken" ELSE pc[a]]

\* The peer listener fails: the acceptor stops the node's network side.
AcceptFails ==
    /\ acceptor = "accepting" /\ ~ stopped
    /\ acceptor' = "sweep" /\ stopped' = TRUE
    /\ UNCHANGED <<main, http_stopped, registry, sockets, shut, gate, holder, pc, caller>>

AcceptorSweeps ==
    /\ acceptor = "sweep" /\ Sweepable
    /\ ShutSockets /\ acceptor' = "notify"
    /\ UNCHANGED <<main, stopped, http_stopped, registry, sockets, gate, holder, pc, caller>>

AcceptorNotifies ==
    /\ acceptor = "notify"
    /\ WakeAll /\ acceptor' = "gone"
    /\ UNCHANGED <<main, boundary, gate, holder, caller>>

\* The accept loop sees the flag; its waits are a few milliseconds.
AcceptorEnds ==
    /\ acceptor = "accepting" /\ stopped
    /\ acceptor' = "gone"
    /\ UNCHANGED <<main, boundary, gate, holder, pc, caller>>

-----------------------------------------------------------------------------
(* serve_inner.                                                            *)

\* The shutdown signal: no further connection, and request_stop.
Shutdown ==
    /\ main = "serving"
    /\ main' = "sweep" /\ stopped' = TRUE
    /\ UNCHANGED <<acceptor, http_stopped, registry, sockets, shut, gate, holder, pc, caller>>

MainSweeps ==
    /\ main = "sweep" /\ Sweepable
    /\ ShutSockets /\ main' = "notify"
    /\ UNCHANGED <<acceptor, stopped, http_stopped, registry, sockets, gate, holder, pc, caller>>

MainNotifies ==
    /\ main = "notify"
    /\ WakeAll /\ main' = "draining"
    /\ UNCHANGED <<acceptor, boundary, gate, holder, caller>>

NoCallers == \A r \in Requests : caller[r] \notin {"connected", "waiting"}

\* Every connection has ended.
Drained ==
    /\ main \in {"draining", "closing"} /\ NoCallers
    /\ main' = "guard"
    /\ UNCHANGED <<acceptor, boundary, gate, holder, pc, caller>>

\* HTTP_SHUTDOWN_DRAIN_TIMEOUT: the client sockets are shut.
DrainExpires ==
    /\ main = "draining" /\ ~ NoCallers
    /\ main' = "closing" /\ http_stopped' = TRUE
    /\ UNCHANGED <<acceptor, stopped, registry, sockets, shut, gate, holder, pc, caller>>

\* Dropping StopGuard: both request_stop again, then mutation_gate.write().
StopRequested ==
    /\ main = "guard" /\ Sweepable
    /\ http_stopped' = TRUE /\ ShutSockets /\ WakeAll
    /\ writer' = TRUE /\ main' = "barrier"
    /\ UNCHANGED <<acceptor, stopped, registry, sockets, permits, holder, caller>>

\* P2pLifecycle::stop returns.
CrossBarrier ==
    /\ main = "barrier" /\ permits = {}
    /\ writer' = FALSE /\ main' = "peers"
    /\ UNCHANGED <<acceptor, boundary, permits, holder, pc, caller>>

\* NativePeerService::stop passes the same boundary once more, then joins.
StopPeers ==
    /\ main = "peers" /\ Sweepable /\ permits = {}
    /\ ShutSockets /\ WakeAll
    /\ main' = "joining"
    /\ UNCHANGED <<acceptor, stopped, http_stopped, registry, sockets, gate, holder, caller>>

JoinWorkers ==
    /\ main = "joining" /\ acceptor = "gone" /\ \A w \in Workers : At(w, "exit")
    /\ main' = "releasing"
    /\ UNCHANGED <<acceptor, boundary, gate, holder, pc, caller>>

\* Who still has a reference to the node.
Referenced == \E r \in Requests : pc[r] \in {"body", "spawned"} \cup InGate

\* release_node_owner: the last reference is dropped, or a second has passed.
ReleaseOwner ==
    /\ main = "releasing"
    /\ main' = IF Referenced THEN "retained" ELSE "released"
    /\ UNCHANGED <<acceptor, boundary, gate, holder, pc, caller>>

\* The process has returned from serve; what is left in its pool goes on.
Ended == main \in {"released", "retained"} /\ UNCHANGED vars

OperationStep(a) ==
    AcquireGate(a) \/ CheckStopped(a) \/ LockNode(a) \/ FinishOperation(a)

WorkerStep(w) ==
    \/ Top(w) \/ Register(w) \/ FinishReading(w) \/ Unregister(w)
    \/ BeginWait(w) \/ Sleep(w) \/ Resume(w) \/ PollElapses(w)

StopStep ==
    \/ AcceptorSweeps \/ AcceptorNotifies \/ AcceptorEnds
    \/ MainSweeps \/ MainNotifies \/ Drained \/ DrainExpires
    \/ StopRequested \/ CrossBarrier \/ StopPeers \/ JoinWorkers \/ ReleaseOwner

Next ==
    \/ \E r \in Requests : Connect(r) \/ Arrive(r) \/ BodyRead(r)
                           \/ RequestTimesOut(r) \/ Disconnect(r) \/ IdleConnectionEnds(r)
    \/ \E a \in Actors : OperationStep(a)
    \/ \E w \in Workers : WorkerStep(w) \/ LockRefused(w) \/ PollLock(w) \/ ConnectFails(w)
                          \/ Receive(w) \/ RoundEnds(w) \/ WaitElapses(w)
    \/ AcceptFails \/ Shutdown \/ StopStep
    \/ Ended

\* Threads run: each step that waits for nothing but a lock or a flag is taken.
\* Nothing is assumed of clients, of remote peers, or of the backoff: the only
\* timeouts that must fire are those of the drain and of its closed sockets.
Fairness ==
    /\ \A a \in Actors : WF_vars(OperationStep(a))
    /\ \A w \in Workers : /\ WF_vars(WorkerStep(w))
                          /\ WF_vars(stopped /\ LockRefused(w))
                          /\ WF_vars(w \in shut /\ RoundEnds(w))
    /\ \A r \in Requests : WF_vars(http_stopped /\ Disconnect(r))
    /\ WF_vars(StopStep)

Spec == Init /\ [][Next]_vars /\ Fairness

-----------------------------------------------------------------------------
(* Properties.                                                             *)

\* The state has its types, and a lock has the holder its actors think it has.
TypeOK ==
    /\ main \in MainSteps /\ acceptor \in AcceptorSteps
    /\ stopped \in BOOLEAN /\ http_stopped \in BOOLEAN /\ writer \in BOOLEAN
    /\ registry \in Workers \cup {None}
    /\ sockets \subseteq Workers /\ shut \subseteq Workers
    /\ permits = {a \in Actors : pc[a] \in InGate}
    /\ holder \in Actors \cup {None}
    /\ \A a \in Actors : pc[a] \in {"acting", "reading"} => holder = a
    /\ \A r \in Requests : pc[r] \in RequestSteps
    /\ \A w \in Workers : pc[w] \in WorkerSteps
    /\ caller \in [Requests -> CallerStates]

\* "Once this returns every earlier network-owned mutation has finished and no
\* later one can begin": behind the barrier nothing is in, or can get past, the
\* check that admits it to the node.
QuietAfterStop ==
    main \in {"peers", "joining", "releasing", "released", "retained"} =>
        \A a \in Actors : pc[a] \notin {"permit", "polling", "acting"}

\* Timed-out and disconnected callers do not let more work in: the operations
\* that are queued or running never exceed the slots.
WorkBounded ==
    Cardinality({r \in Requests : pc[r] \in {"body", "spawned"} \cup InGate}) <= MaxRequests

\* Once request_stop has swept, no socket is left that could block a worker in
\* a read: registration and shutdown cannot miss each other.
NoOpenSocketAfterSweep ==
    main \notin {"serving", "sweep"} \/ acceptor = "notify" => sockets \subseteq shut

\* Shutdown comes to its end whatever clients and peers do, without waiting for
\* a backoff or a silent peer to time out: no wake-up is lost and no two of the
\* gate, the node lock and the registry wait for each other.
StopCompletes == main = "sweep" ~> main \in {"released", "retained"}

\* After the stop flag every operation that was handed to a thread ends, the
\* ones whose callers are gone too.
OperationsEnd ==
    \A r \in Requests :
        stopped /\ pc[r] \in {"spawned"} \cup InGate ~> pc[r] = "over"

\* The gate is sound: permits are held by exactly the actors inside, the node
\* has one user, and callers that are gone do not let more work in.
GateSound == TypeOK /\ WorkBounded

\* The stop is final: nothing mutates behind the barrier, and no socket is left
\* open behind the sweep.
StopSound == QuietAfterStop /\ NoOpenSocketAfterSweep

=============================================================================
