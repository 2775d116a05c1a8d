------------------------ MODULE NativeService_proofs ------------------------
(***************************************************************************)
(* The shutdown boundary, the request slots and the socket registry, for   *)
(* every number of requests, workers and slots.                            *)
(***************************************************************************)
EXTENDS NativeService, FiniteSetTheorems, TLAPS

\* Nobody stops a node that has not set the flag.
FlagFirst ==
    /\ main # "serving" => stopped
    /\ acceptor \in {"sweep", "notify"} => stopped

\* A request that has not arrived has no operation.
NotStarted == \A r \in Requests : caller[r] \in {"absent", "connected"} => pc[r] = "new"

\* A function of all actors, as EXCEPT needs it.
Stages == pc \in [Actors -> RequestSteps \cup WorkerSteps]

IInv == /\ TypeOK /\ Stages /\ NotStarted /\ FlagFirst
        /\ QuietAfterStop /\ NoOpenSocketAfterSweep

USE DEF At, Goto

-----------------------------------------------------------------------------

\* At the start nobody has done anything.
LEMMA InitIInv == Init => IInv
  BY ServiceAssumption
     DEF Init, IInv, TypeOK, Stages, NotStarted, FlagFirst, QuietAfterStop,
         NoOpenSocketAfterSweep, Actors, MainSteps, AcceptorSteps, RequestSteps,
         WorkerSteps, InGate, CallerStates

\* A step that moves one actor outside the gate, the node lock and the registry
\* keeps the invariant.
LEMMA MoveIInv ==
  ASSUME IInv, NEW a \in Actors, NEW stage \in RequestSteps \cup WorkerSteps,
         UNCHANGED <<main, acceptor, boundary, gate, holder>>,
         a \in Requests => stage \in RequestSteps,
         a \in Workers => stage \in WorkerSteps,
         pc[a] \notin InGate, stage \notin InGate \cup {"reading"},
         pc' = [pc EXCEPT ![a] = stage],
         caller' \in [Requests -> CallerStates],
         NotStarted'
  PROVE  IInv'
  <1>1. TypeOK'
    BY ServiceAssumption DEF IInv, TypeOK, Stages, boundary, gate, Actors, InGate
  <1>2. Stages'
    BY DEF IInv, Stages
  <1>3. FlagFirst' /\ NoOpenSocketAfterSweep'
    BY DEF IInv, FlagFirst, NoOpenSocketAfterSweep, boundary
  <1>4. QuietAfterStop'
    BY DEF IInv, Stages, QuietAfterStop, InGate
  <1> QED BY <1>1, <1>2, <1>3, <1>4 DEF IInv

\* The steps of an HTTP caller.
LEMMA CallerIInv ==
  ASSUME IInv, NEW r \in Requests,
         \/ Connect(r) \/ Arrive(r) \/ BodyRead(r)
         \/ RequestTimesOut(r) \/ Disconnect(r) \/ IdleConnectionEnds(r)
  PROVE  IInv'
  <1> USE DEF RequestSteps, CallerStates
  <1>0. /\ r \in Actors /\ r \notin Workers
        /\ pc \in [Actors -> RequestSteps \cup WorkerSteps]
        /\ caller \in [Requests -> CallerStates] /\ pc[r] \in RequestSteps
        /\ caller[r] \in {"absent", "connected"} => pc[r] = "new"
    BY ServiceAssumption DEF IInv, TypeOK, Stages, NotStarted, Actors
  <1>1. CASE Connect(r)
    <2>1. pc' = [pc EXCEPT ![r] = pc[r]] /\ pc[r] = "new"
      BY <1>0, <1>1 DEF Connect
    <2>2. NotStarted'
      BY <1>0, <1>1, <2>1 DEF Connect, IInv, NotStarted
    <2> QED BY <1>0, <1>1, <2>1, <2>2, MoveIInv DEF Connect, InGate
  <1>2. CASE Arrive(r)
    <2>1. PICK stage \in {"body", "over"} : pc' = [pc EXCEPT ![r] = stage]
      BY <1>2 DEF Arrive
    <2>2. NotStarted'
      BY <1>0, <1>2, <2>1 DEF Arrive, IInv, NotStarted
    <2>3. UNCHANGED <<main, acceptor, boundary, gate, holder>>
          /\ caller' \in [Requests -> CallerStates] /\ pc[r] = "new"
      BY <1>0, <1>2 DEF Arrive
    <2> QED BY <1>0, <2>1, <2>2, <2>3, MoveIInv DEF InGate
  <1>3. CASE BodyRead(r)
    <2>1. PICK stage \in {"spawned", "over"} : pc' = [pc EXCEPT ![r] = stage]
      BY <1>3 DEF BodyRead
    <2>2. NotStarted'
      BY <1>0, <1>3, <2>1 DEF BodyRead, IInv, NotStarted
    <2>3. UNCHANGED <<main, acceptor, boundary, gate, holder>>
          /\ caller' \in [Requests -> CallerStates] /\ pc[r] = "body"
      BY <1>0, <1>3 DEF BodyRead
    <2> QED BY <1>0, <2>1, <2>2, <2>3, MoveIInv DEF InGate
  <1>4. CASE RequestTimesOut(r) \/ Disconnect(r) \/ IdleConnectionEnds(r)
    <2>1. PICK outcome \in {"timeout", "lost"} : CallerLeaves(r, outcome)
      BY <1>4 DEF RequestTimesOut, Disconnect, IdleConnectionEnds
    <2>2. caller' \in [Requests -> CallerStates]
      BY <1>0, <2>1 DEF CallerLeaves
    <2>3. NotStarted'
      BY <1>0, <2>1 DEF CallerLeaves, IInv, NotStarted, Stages
    <2>4. CASE pc[r] \in {"new", "body"}
      BY <1>0, <2>1, <2>2, <2>3, <2>4, MoveIInv DEF CallerLeaves, InGate
    <2>5. CASE pc[r] \notin {"new", "body"}
      <3>1. pc' = pc
        BY <1>0, <2>1, <2>5 DEF CallerLeaves
      <3> QED
        BY <2>1, <2>2, <2>3, <3>1
           DEF CallerLeaves, IInv, TypeOK, Stages, FlagFirst, QuietAfterStop,
               NoOpenSocketAfterSweep, boundary, gate
    <2> QED BY <2>4, <2>5
  <1> QED BY <1>1, <1>2, <1>3, <1>4

\* What a stage says about an actor: the stages of requests and of workers meet
\* only in the gate.
LEMMA ActorFacts ==
  ASSUME IInv, NEW a \in Actors
  PROVE  /\ pc \in [Actors -> RequestSteps \cup WorkerSteps]
         /\ a \in Requests => pc[a] \in RequestSteps /\ a \notin Workers
         /\ a \in Workers => pc[a] \in WorkerSteps /\ a \notin Requests
         /\ a \in Requests \/ a \in Workers
         /\ a # None
  BY ServiceAssumption DEF IInv, TypeOK, Stages, Actors

\* Leaving the gate, with the flag read or the work done.
LEMMA LeaveIInv ==
  ASSUME IInv, NEW a \in Actors, pc[a] \in InGate, Leave(a),
         UNCHANGED <<main, acceptor, boundary, writer>>,
         holder' = IF pc[a] = "acting" THEN None ELSE holder
  PROVE  IInv'
  <1> USE DEF InGate, RequestSteps, WorkerSteps
  <1>1. PICK stage \in {"over", "io", "closing"} :
           /\ pc' = [pc EXCEPT ![a] = stage]
           /\ a \in Requests => stage = "over"
           /\ a \in Workers => stage \in {"io", "closing"}
    BY ActorFacts DEF Leave
  <1>2. permits' = permits \ {a} /\ caller' \in [Requests -> CallerStates]
    BY DEF Leave, IInv, TypeOK, CallerStates
  <1>3. \A r \in Requests : caller'[r] \in {"absent", "connected"} => caller'[r] = caller[r]
    BY DEF Leave, IInv, TypeOK
  <1>4. TypeOK'
    <2>1. permits' = {b \in Actors : pc'[b] \in InGate}
      BY <1>1, <1>2, ActorFacts DEF IInv, TypeOK
    <2>2. \A b \in Actors : pc'[b] \in {"acting", "reading"} => holder' = b
      BY <1>1, ActorFacts DEF IInv, TypeOK
    <2>3. (\A r \in Requests : pc'[r] \in RequestSteps) /\ (\A w \in Workers : pc'[w] \in WorkerSteps)
      BY <1>1, ActorFacts, ServiceAssumption DEF IInv, TypeOK, Actors
    <2> QED BY <1>2, <2>1, <2>2, <2>3 DEF IInv, TypeOK, boundary
  <1>5. Stages' /\ NotStarted'
    BY <1>1, <1>3, ActorFacts DEF IInv, Stages, NotStarted
  <1>6. FlagFirst' /\ NoOpenSocketAfterSweep' /\ QuietAfterStop'
    BY <1>1, ActorFacts DEF IInv, FlagFirst, NoOpenSocketAfterSweep, QuietAfterStop, boundary
  <1> QED BY <1>4, <1>5, <1>6 DEF IInv

\* The steps of an operation.
LEMMA OperationIInv ==
  ASSUME IInv, NEW a \in Actors, OperationStep(a)
  PROVE  IInv'
  <1> USE DEF InGate, RequestSteps, WorkerSteps
  <1>0. /\ pc \in [Actors -> RequestSteps \cup WorkerSteps]
        /\ a \in Requests => pc[a] \in RequestSteps /\ a \notin Workers
        /\ a \in Workers => pc[a] \in WorkerSteps /\ a \notin Requests
        /\ a \in Requests \/ a \in Workers
        /\ a # None
    BY ActorFacts
  <1>1. CASE AcquireGate(a)
    <2>1. TypeOK'
      BY <1>0, <1>1, ServiceAssumption DEF AcquireGate, IInv, TypeOK, boundary, Actors
    <2>2. Stages' /\ NotStarted' /\ FlagFirst' /\ NoOpenSocketAfterSweep' /\ QuietAfterStop'
      BY <1>0, <1>1 DEF AcquireGate, IInv, Stages, NotStarted, FlagFirst,
                        NoOpenSocketAfterSweep, QuietAfterStop, boundary
    <2> QED BY <2>1, <2>2 DEF IInv
  <1>2. CASE CheckStopped(a)
    <2>1. CASE stopped
      BY <1>2, <2>1, LeaveIInv DEF CheckStopped
    <2>2. CASE ~ stopped
      <3>1. pc' = [pc EXCEPT ![a] = "permit"] /\ pc[a] = "checking"
            /\ UNCHANGED <<main, acceptor, boundary, permits, writer, holder, caller>>
        BY <1>2, <2>2 DEF CheckStopped
      <3>2. TypeOK'
        BY <1>0, <3>1, ServiceAssumption DEF IInv, TypeOK, boundary, Actors
      <3>3. main \notin {"peers", "joining", "releasing", "released", "retained"}
        BY <2>2 DEF IInv, FlagFirst
      <3> QED
        BY <1>0, <3>1, <3>2, <3>3
           DEF IInv, Stages, NotStarted, FlagFirst, NoOpenSocketAfterSweep, QuietAfterStop,
               boundary
    <2> QED BY <2>1, <2>2
  <1>3. CASE LockNode(a)
    <2>1. pc' = [pc EXCEPT ![a] = "acting"] /\ pc[a] = "permit" /\ holder = None /\ holder' = a
          /\ UNCHANGED <<main, acceptor, boundary, permits, writer, caller>>
      BY <1>3 DEF LockNode, gate
    <2>2. TypeOK'
      <3>1. permits' = {b \in Actors : pc'[b] \in InGate}
        BY <1>0, <2>1 DEF IInv, TypeOK
      <3>2. \A b \in Actors : pc'[b] \in {"acting", "reading"} => holder' = b
        BY <1>0, <2>1, ServiceAssumption DEF IInv, TypeOK
      <3> QED
        BY <1>0, <2>1, <3>1, <3>2, ServiceAssumption DEF IInv, TypeOK, boundary, Actors
    <2> QED
      BY <1>0, <2>1, <2>2
         DEF IInv, Stages, NotStarted, FlagFirst, NoOpenSocketAfterSweep, QuietAfterStop, boundary
  <1>4. CASE FinishOperation(a)
    BY <1>4, LeaveIInv DEF FinishOperation
  <1> QED BY <1>1, <1>2, <1>3, <1>4 DEF OperationStep

\* The steps of a worker outside the gate that touch no lock.
LEMMA WorkerMoveIInv ==
  ASSUME IInv, NEW w \in Workers,
         Top(w) \/ ConnectFails(w) \/ RoundEnds(w) \/ WaitElapses(w) \/ Resume(w)
  PROVE  IInv'
  <1>0. w \in Actors /\ w \notin Requests
    BY ServiceAssumption DEF Actors
  <1>1. /\ UNCHANGED <<main, acceptor, boundary, gate, holder, caller>>
        /\ pc[w] \in {"top", "connect", "io", "asleep", "woken"}
        /\ \E stage \in {"exit", "connect", "wait", "closing", "top", "woken"} :
              pc' = [pc EXCEPT ![w] = stage]
    BY DEF Top, ConnectFails, RoundEnds, WaitElapses, Resume
  <1>2. NotStarted'
    BY <1>0, <1>1 DEF IInv, NotStarted, Stages
  <1>3. caller' \in [Requests -> CallerStates]
    BY <1>1 DEF IInv, TypeOK
  <1> QED
    BY <1>0, <1>1, <1>2, <1>3, MoveIInv DEF InGate, WorkerSteps

\* The steps of a worker that touch the registry, the node lock or the gate.
LEMMA WorkerLockIInv ==
  ASSUME IInv, NEW w \in Workers,
         \/ Register(w) \/ Receive(w) \/ FinishReading(w) \/ Unregister(w)
         \/ BeginWait(w) \/ Sleep(w) \/ LockRefused(w)
  PROVE  IInv'
  <1> USE DEF InGate, WorkerSteps
  <1>0. /\ w \in Actors /\ w \notin Requests /\ w # None
        /\ pc \in [Actors -> RequestSteps \cup WorkerSteps]
    BY ServiceAssumption DEF Actors, IInv, Stages
  <1>1. /\ UNCHANGED <<main, acceptor, stopped, http_stopped, writer, caller>>
        /\ \E stage \in {"wait", "io", "gate", "reading", "exit", "predicate", "asleep",
                           "closing"} : pc' = [pc EXCEPT ![w] = stage]
    BY DEF Register, Receive, FinishReading, Unregister, BeginWait, Sleep, LockRefused,
           boundary, gate
  <1>2. Stages' /\ NotStarted' /\ FlagFirst' /\ QuietAfterStop'
    BY <1>0, <1>1 DEF IInv, Stages, NotStarted, FlagFirst, QuietAfterStop
  <1>3. (\A r \in Requests : pc'[r] \in RequestSteps) /\ (\A v \in Workers : pc'[v] \in WorkerSteps)
    BY <1>0, <1>1 DEF IInv, TypeOK, Actors
  <1>4. permits' = {b \in Actors : pc'[b] \in InGate}
    BY <1>0 DEF IInv, TypeOK, Register, Receive, FinishReading, Unregister, BeginWait,
                Sleep, LockRefused, boundary, gate
  <1>5. holder' \in Actors \cup {None}
        /\ \A b \in Actors : pc'[b] \in {"acting", "reading"} => holder' = b
    <2>1. CASE Receive(w)
      BY <1>0, <2>1, ServiceAssumption DEF IInv, TypeOK, Receive
    <2>2. CASE FinishReading(w)
      BY <1>0, <2>2 DEF IInv, TypeOK, FinishReading
    <2>3. CASE ~ Receive(w) /\ ~ FinishReading(w)
      <3>1. holder' = holder /\ \E stage \in {"wait", "io", "exit", "predicate", "asleep",
                                               "closing"} : pc' = [pc EXCEPT ![w] = stage]
        BY <2>3 DEF Register, Unregister, BeginWait, Sleep, LockRefused, boundary, gate
      <3> QED BY <1>0, <3>1 DEF IInv, TypeOK
    <2> QED BY <2>1, <2>2, <2>3
  <1>6. /\ registry' \in Workers \cup {None}
        /\ sockets' \subseteq Workers /\ shut' \subseteq Workers
        /\ NoOpenSocketAfterSweep'
    BY DEF IInv, TypeOK, FlagFirst, NoOpenSocketAfterSweep, Register, Receive, FinishReading,
           Unregister, BeginWait, Sleep, LockRefused, boundary
  <1>7. TypeOK'
    BY <1>1, <1>3, <1>4, <1>5, <1>6 DEF IInv, TypeOK
  <1> QED BY <1>2, <1>6, <1>7 DEF IInv

\* Polling for the node lock stays inside the gate.
LEMMA PollIInv ==
  ASSUME IInv, NEW w \in Workers, PollLock(w) \/ PollElapses(w)
  PROVE  IInv'
  <1> USE DEF InGate, WorkerSteps
  <1>0. /\ w \in Actors /\ w \notin Requests
        /\ pc \in [Actors -> RequestSteps \cup WorkerSteps]
    BY ServiceAssumption DEF Actors, IInv, Stages
  <1>1. /\ UNCHANGED <<main, acceptor, stopped, http_stopped, sockets, shut, permits, writer,
                       holder, caller>>
        /\ registry' \in Workers \cup {None}
        /\ pc[w] \in {"permit", "polling"}
        /\ \E stage \in {"permit", "polling"} : pc' = [pc EXCEPT ![w] = stage]
    BY DEF PollLock, PollElapses, gate
  <1>2. Stages' /\ NotStarted' /\ FlagFirst' /\ QuietAfterStop' /\ NoOpenSocketAfterSweep'
    BY <1>0, <1>1 DEF IInv, Stages, NotStarted, FlagFirst, QuietAfterStop,
                      NoOpenSocketAfterSweep
  <1>3. TypeOK'
    BY <1>0, <1>1 DEF IInv, TypeOK, Actors
  <1> QED BY <1>2, <1>3 DEF IInv

\* The steps of request_stop, of the acceptor and of serve_inner: only sleepers
\* move, and behind the barrier nobody holds the gate.
LEMMA StopIInv ==
  ASSUME IInv, AcceptFails \/ Shutdown \/ StopStep
  PROVE  IInv'
  <1> USE DEF InGate, RequestSteps, WorkerSteps
  <1>0. pc \in [Actors -> RequestSteps \cup WorkerSteps]
    BY DEF IInv, Stages
  <1>1. /\ UNCHANGED <<registry, sockets, permits, holder, caller>>
        /\ shut' = shut \/ shut' = shut \cup sockets
        /\ pc' = pc \/ WakeAll
        /\ stopped' = stopped \/ stopped' = TRUE
        /\ http_stopped' = http_stopped \/ http_stopped' = TRUE
        /\ writer' = writer \/ writer' \in BOOLEAN
    BY DEF AcceptFails, Shutdown, StopStep, AcceptorSweeps, AcceptorNotifies, AcceptorEnds,
           MainSweeps, MainNotifies, Drained, DrainExpires, StopRequested, CrossBarrier,
           StopPeers, JoinWorkers, ReleaseOwner, ShutSockets, boundary, gate
  <1>2. main' \in MainSteps /\ acceptor' \in AcceptorSteps /\ FlagFirst'
    BY DEF IInv, TypeOK, FlagFirst, MainSteps, AcceptorSteps,
           AcceptFails, Shutdown, StopStep, AcceptorSweeps, AcceptorNotifies, AcceptorEnds,
           MainSweeps, MainNotifies, Drained, DrainExpires, StopRequested, CrossBarrier,
           StopPeers, JoinWorkers, ReleaseOwner, boundary
  <1>3. /\ pc' \in [Actors -> RequestSteps \cup WorkerSteps]
        /\ \A a \in Actors : \/ pc'[a] = pc[a]
                             \/ pc[a] = "asleep" /\ pc'[a] = "woken"
    <2>1. CASE pc' = pc
      BY <1>0, <2>1
    <2>2. CASE WakeAll
      BY <1>0, <2>2 DEF WakeAll
    <2> QED BY <1>1, <2>1, <2>2
  <1>4. /\ \A r \in Requests : pc'[r] \in RequestSteps
        /\ \A w \in Workers : pc'[w] \in WorkerSteps
        /\ permits' = {a \in Actors : pc'[a] \in InGate}
        /\ \A a \in Actors : pc'[a] \in {"acting", "reading"} => holder' = a
    BY <1>1, <1>3 DEF IInv, TypeOK, Actors
  <1>5. TypeOK' /\ Stages'
    BY <1>1, <1>2, <1>3, <1>4 DEF IInv, TypeOK, Stages
  <1>6. NotStarted'
    BY <1>1, <1>3 DEF IInv, NotStarted, Actors
  <1>7. NoOpenSocketAfterSweep'
    BY DEF IInv, NoOpenSocketAfterSweep,
           AcceptFails, Shutdown, StopStep, AcceptorSweeps, AcceptorNotifies, AcceptorEnds,
           MainSweeps, MainNotifies, Drained, DrainExpires, StopRequested, CrossBarrier,
           StopPeers, JoinWorkers, ReleaseOwner, ShutSockets, boundary
  <1>8. QuietAfterStop'
    <2>1. CASE CrossBarrier
      BY <1>3, <2>1 DEF CrossBarrier, IInv, TypeOK, QuietAfterStop
    <2>2. CASE ~ CrossBarrier
      <3>1. main' \in {"peers", "joining", "releasing", "released", "retained"} =>
                main \in {"peers", "joining", "releasing", "released", "retained"}
        BY <2>2 DEF AcceptFails, Shutdown, StopStep, AcceptorSweeps, AcceptorNotifies,
               AcceptorEnds, MainSweeps, MainNotifies, Drained, DrainExpires, StopRequested,
               StopPeers, JoinWorkers, ReleaseOwner
      <3> QED BY <1>3, <3>1 DEF IInv, QuietAfterStop
    <2> QED BY <2>1, <2>2
  <1> QED BY <1>2, <1>5, <1>6, <1>7, <1>8 DEF IInv

\* Steps that change nothing.
LEMMA StutterIInv == ASSUME IInv, UNCHANGED vars PROVE IInv'
  BY DEF IInv, TypeOK, Stages, NotStarted, FlagFirst, QuietAfterStop,
         NoOpenSocketAfterSweep, vars, boundary, gate

\* The inductive invariant holds of every behaviour.
THEOREM Invariance == Spec => []IInv
  <1>1. Init => IInv
    BY InitIInv
  <1>2. IInv /\ [Next]_vars => IInv'
    <2> SUFFICES ASSUME IInv, [Next]_vars PROVE IInv'
      OBVIOUS
    <2>1. ASSUME NEW r \in Requests,
                 \/ Connect(r) \/ Arrive(r) \/ BodyRead(r)
                 \/ RequestTimesOut(r) \/ Disconnect(r) \/ IdleConnectionEnds(r)
          PROVE  IInv'
      BY <2>1, CallerIInv
    <2>2. ASSUME NEW a \in Actors, OperationStep(a) PROVE IInv'
      BY <2>2, OperationIInv
    <2>3. ASSUME NEW w \in Workers,
                 \/ WorkerStep(w) \/ LockRefused(w) \/ PollLock(w) \/ ConnectFails(w)
                 \/ Receive(w) \/ RoundEnds(w) \/ WaitElapses(w)
          PROVE  IInv'
      <3>1. CASE Top(w) \/ ConnectFails(w) \/ RoundEnds(w) \/ WaitElapses(w) \/ Resume(w)
        BY <3>1, WorkerMoveIInv
      <3>2. CASE \/ Register(w) \/ Receive(w) \/ FinishReading(w) \/ Unregister(w)
                 \/ BeginWait(w) \/ Sleep(w) \/ LockRefused(w)
        BY <3>2, WorkerLockIInv
      <3>3. CASE PollLock(w) \/ PollElapses(w)
        BY <3>3, PollIInv
      <3> QED BY <2>3, <3>1, <3>2, <3>3 DEF WorkerStep
    <2>4. CASE AcceptFails \/ Shutdown \/ StopStep
      BY <2>4, StopIInv
    <2>5. CASE Ended \/ UNCHANGED vars
      BY <2>5, StutterIInv DEF Ended
    <2> QED BY <2>1, <2>2, <2>3, <2>4, <2>5 DEF Next
  <1> QED BY <1>1, <1>2, PTL DEF Spec

\* The locks, the gate and the stages of the threads agree, always.
THEOREM TypeCorrect == Spec => []TypeOK
  <1>1. IInv => TypeOK BY DEF IInv
  <1> QED BY <1>1, Invariance, PTL

\* P2pLifecycle::stop keeps its promise: once it has returned no operation is
\* on the node or will be admitted to it, for any number of requests and peers.
THEOREM StopIsFinal == Spec => []QuietAfterStop
  <1>1. IInv => QuietAfterStop BY DEF IInv
  <1> QED BY <1>1, Invariance, PTL

\* Registration and the sweep of request_stop never miss each other.
THEOREM SweepIsComplete == Spec => []NoOpenSocketAfterSweep
  <1>1. IInv => NoOpenSocketAfterSweep BY DEF IInv
  <1> QED BY <1>1, Invariance, PTL

-----------------------------------------------------------------------------
(* The slots: only an arrival takes one.                                   *)

SlotsBounded == Cardinality(Leases) <= MaxRequests

\* Every step but an arrival leaves the set of leases or makes it smaller.
LEMMA LeasesShrink ==
  ASSUME IInv, [Next]_vars, \A r \in Requests : ~ Arrive(r)
  PROVE  Leases' \subseteq Leases
  <1> USE DEF InGate
  <1>0. /\ pc \in [Actors -> RequestSteps \cup WorkerSteps]
        /\ caller \in [Requests -> CallerStates]
        /\ Requests \subseteq Actors /\ Requests \cap Workers = {}
    BY ServiceAssumption DEF IInv, TypeOK, Stages, Actors
  <1>1. ASSUME NEW r \in Requests,
               \/ Connect(r) \/ BodyRead(r)
               \/ RequestTimesOut(r) \/ Disconnect(r) \/ IdleConnectionEnds(r)
        PROVE  Leases' \subseteq Leases
    <2>1. CASE Connect(r)
      BY <1>0, <2>1 DEF Connect, Leases, LeaseHeld
    <2>2. CASE BodyRead(r)
      BY <1>0, <2>2 DEF BodyRead, Leases, LeaseHeld
    <2>3. CASE RequestTimesOut(r) \/ Disconnect(r) \/ IdleConnectionEnds(r)
      <3>1. PICK outcome \in {"timeout", "lost"} : CallerLeaves(r, outcome)
        BY <2>3 DEF RequestTimesOut, Disconnect, IdleConnectionEnds
      <3> QED BY <1>0, <3>1 DEF CallerLeaves, Leases, LeaseHeld
    <2> QED BY <1>1, <2>1, <2>2, <2>3
  <1>2. ASSUME NEW a \in Actors, OperationStep(a)
        PROVE  Leases' \subseteq Leases
    <2>1. CASE AcquireGate(a)
      BY <1>0, <2>1, ActorFacts DEF AcquireGate, Leases, LeaseHeld, WorkerSteps, RequestSteps
    <2>2. ASSUME pc[a] \in InGate, Leave(a) PROVE Leases' \subseteq Leases
      BY <1>0, <2>2, ActorFacts DEF Leave, Leases, LeaseHeld
    <2>3. CASE CheckStopped(a)
      <3>1. CASE stopped
        BY <2>2, <2>3, <3>1 DEF CheckStopped
      <3>2. CASE ~ stopped
        BY <1>0, <2>3, <3>2, ActorFacts DEF CheckStopped, Leases, LeaseHeld
      <3> QED BY <3>1, <3>2
    <2>4. CASE LockNode(a)
      BY <1>0, <2>4, ActorFacts DEF LockNode, Leases, LeaseHeld
    <2>5. CASE FinishOperation(a)
      BY <2>2, <2>5 DEF FinishOperation
    <2> QED BY <1>2, <2>1, <2>3, <2>4, <2>5 DEF OperationStep
  <1>3. ASSUME NEW w \in Workers,
               \/ WorkerStep(w) \/ LockRefused(w) \/ PollLock(w) \/ ConnectFails(w)
               \/ Receive(w) \/ RoundEnds(w) \/ WaitElapses(w)
        PROVE  Leases' \subseteq Leases
    <2>1. caller' = caller /\ \E stage \in WorkerSteps : pc' = [pc EXCEPT ![w] = stage]
      BY <1>3 DEF WorkerStep, Top, Register, FinishReading, Unregister, BeginWait, Sleep,
                  Resume, PollLock, PollElapses, LockRefused, ConnectFails, Receive, RoundEnds, WaitElapses, WorkerSteps
    <2> QED BY <1>0, <2>1 DEF Leases, LeaseHeld
  <1>4. CASE AcceptFails \/ Shutdown \/ StopStep
    <2>1. caller' = caller /\ (pc' = pc \/ WakeAll)
      BY <1>4 DEF AcceptFails, Shutdown, StopStep, AcceptorSweeps, AcceptorNotifies,
           AcceptorEnds, MainSweeps, MainNotifies, Drained, DrainExpires, StopRequested,
           CrossBarrier, StopPeers, JoinWorkers, ReleaseOwner
    <2>2. CASE pc' = pc
      BY <2>1, <2>2 DEF Leases, LeaseHeld
    <2>3. CASE WakeAll
      BY <1>0, <2>1, <2>3 DEF WakeAll, Leases, LeaseHeld
    <2> QED BY <2>1, <2>2, <2>3
  <1>5. CASE Ended \/ UNCHANGED vars
    BY <1>5 DEF Ended, vars, Leases, LeaseHeld
  <1> QED BY <1>1, <1>2, <1>3, <1>4, <1>5 DEF Next

\* A subset of the requests is finite, and no larger than a set that holds it.
LEMMA FewerLeases ==
  ASSUME NEW S \in SUBSET Requests, NEW T \in SUBSET S
  PROVE  /\ IsFiniteSet(T) /\ Cardinality(T) \in Nat /\ Cardinality(S) \in Nat
         /\ Cardinality(T) <= Cardinality(S)
  <1>1. IsFiniteSet(S)
    BY FS_Subset, ServiceAssumption
  <1>2. IsFiniteSet(T) /\ Cardinality(T) <= Cardinality(S)
    BY FS_Subset, <1>1
  <1> QED BY <1>1, <1>2, FS_CardinalityType

\* The slots are never overdrawn, however callers leave.
THEOREM SlotsHold == Spec => []SlotsBounded
  <1>1. Init => SlotsBounded
    <2> SUFFICES ASSUME Init PROVE SlotsBounded
      OBVIOUS
    <2>1. Leases = {}
      BY ServiceAssumption DEF Init, Leases, LeaseHeld, InGate, Actors
    <2>2. Cardinality({}) = 0
      BY FS_EmptySet
    <2> QED BY <2>1, <2>2, ServiceAssumption DEF SlotsBounded
  <1>2. IInv /\ SlotsBounded /\ [Next]_vars => SlotsBounded'
    <2> SUFFICES ASSUME IInv, SlotsBounded, [Next]_vars PROVE SlotsBounded'
      OBVIOUS
    <2>0. Leases \in SUBSET Requests /\ Leases' \in SUBSET Requests
      BY DEF Leases
    <2>1. CASE \A r \in Requests : ~ Arrive(r)
      <3>1. Leases' \in SUBSET Leases
        BY <2>1, LeasesShrink
      <3> QED BY <2>0, <3>1, FewerLeases, ServiceAssumption DEF SlotsBounded
    <2>2. ASSUME NEW r \in Requests, Arrive(r) PROVE SlotsBounded'
      <3>0. /\ pc \in [Actors -> RequestSteps \cup WorkerSteps] /\ r \in Actors
            /\ caller \in [Requests -> CallerStates] /\ Requests \subseteq Actors
        BY DEF IInv, TypeOK, Stages, Actors
      <3>1. CASE Cardinality(Leases) < MaxRequests
        <4>1. Leases' \in SUBSET (Leases \cup {r})
          BY <2>2, <3>0, <3>1 DEF Arrive, Leases, LeaseHeld
        <4>2. IsFiniteSet(Leases) /\ Cardinality(Leases) \in Nat
          BY <2>0, FewerLeases
        <4>3. Cardinality(Leases \cup {r}) <= Cardinality(Leases) + 1
              /\ Cardinality(Leases \cup {r}) \in Nat
          BY <4>2, FS_AddElement, FS_CardinalityType
        <4>4. Cardinality(Leases') <= Cardinality(Leases \cup {r}) /\ Cardinality(Leases') \in Nat
          BY <2>0, <4>1, FewerLeases
        <4> QED BY <3>1, <4>2, <4>3, <4>4, ServiceAssumption DEF SlotsBounded
      <3>2. CASE ~ (Cardinality(Leases) < MaxRequests)
        <4>1. Leases' \in SUBSET Leases
          BY <2>2, <3>0, <3>2 DEF Arrive, Leases, LeaseHeld, InGate
        <4> QED BY <2>0, <4>1, FewerLeases, ServiceAssumption DEF SlotsBounded
      <3> QED BY <3>1, <3>2
    <2> QED BY <2>1, <2>2
  <1> QED BY <1>1, <1>2, Invariance, PTL DEF Spec

\* Native HTTP never has more than MAX_NATIVE_REQUESTS operations queued or
\* running, with any number of clients that time out or hang up.
THEOREM WorkIsBounded == Spec => []WorkBounded
  <1>1. SlotsBounded => WorkBounded
    <2>1. {r \in Requests : pc[r] \in {"body", "spawned"} \cup InGate} \in SUBSET Leases
          /\ Leases \in SUBSET Requests
      BY DEF Leases, LeaseHeld
    <2> QED BY <2>1, FewerLeases, ServiceAssumption DEF SlotsBounded, WorkBounded
  <1> QED BY <1>1, SlotsHold, PTL

\* The gate of the HTTP service holds for any number of requests and workers.
THEOREM GateHolds == Spec => []GateSound
  <1>1. TypeOK /\ WorkBounded => GateSound
    BY DEF GateSound
  <1> QED BY <1>1, TypeCorrect, WorkIsBounded, PTL

\* request_stop and the barrier are final for any number of requests and workers.
THEOREM StopHolds == Spec => []StopSound
  <1>1. QuietAfterStop /\ NoOpenSocketAfterSweep => StopSound
    BY DEF StopSound
  <1> QED BY <1>1, StopIsFinal, SweepIsComplete, PTL

=============================================================================
