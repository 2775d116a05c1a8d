---------------------------- MODULE ShadowReplay ----------------------------
(***************************************************************************)
(* The closed-local replay service of native_shadow_replay_service.rs over *)
(* the journal and state store of native_shadow.rs.                        *)
(*                                                                         *)
(* A signed grant names a handful of cases.  A case fixes its challenge    *)
(* (the four-tuple), its operation id and its candidate answer, so one     *)
(* name stands for all three.  The answer of a checker case is judged by   *)
(* the contained checker behind the launcher; the answer of an empty case  *)
(* is refused before any checker.  An HTTP request looks its case up and   *)
(* hands the work to a detached owner task; the owner appends every step   *)
(* to one fsynced journal under one lock.  The process may be killed       *)
(* between any two appends, an append may fail, the launcher may answer    *)
(* nothing usable, and the client may give up while its owner goes on.     *)
(***************************************************************************)
EXTENDS Integers, Sequences, FiniteSets

CONSTANTS
  CheckerCases,  \* the grant's cases that run the checker
  EmptyCases,    \* the grant's cases whose answer is an empty response
  Requests,      \* the HTTP submissions of a behaviour, each sent once
  NoOne,         \* no request holds the gate or the lock; no case yet
  MaxTotal,      \* validate_new_record: attempts in all
  MaxCheckers,   \* validate_new_record: checker attempts
  MaxKills,      \* bound: kills of the process
  MaxFaults      \* bound: appends that fail

Cases == CheckerCases \cup EmptyCases
Verdicts == {"accepted", "rejected"}
Outcomes == Verdicts \cup {"retryable", "ambiguous"}

ASSUME GrantAssumption ==
  /\ CheckerCases \cap EmptyCases = {}
  /\ NoOne \notin Requests \cup Cases
  /\ {MaxTotal, MaxCheckers, MaxKills, MaxFaults} \subseteq Nat

VARIABLES
  journal,     \* the lines of the journal file that survive a kill
  phase,       \* the process: "up", "down", or its start "refused"
  mem,         \* ReplayJournalState: rows, evidence, operations, attempts
  broken,      \* NativeShadowJournalAuthority.poisoned
  poisoned,    \* ClosedLocalReplayService.poisoned
  gate,        \* the owner holding the execution permit
  lock,        \* the owner holding the journal mutex between two appends
  authorized,  \* the grant's authorized_cases, per process
  req,         \* the request future of every submission
  own,         \* the detached owner of every submission
  resp,        \* what the owner reports: a launcher outcome, then a response
  leaf,        \* the cases whose containment leaf may still be alive
  launches,    \* how often the launcher was asked to run each case
  kills, faults

store == <<journal, mem, broken, faults>>
vars == <<journal, phase, mem, broken, poisoned, gate, lock, authorized,
          req, own, resp, leaf, launches, kills, faults>>

-----------------------------------------------------------------------------
(* The journal and its replay.                                             *)

Line(ev, c, v) == [ev |-> ev, case |-> c, verdict |-> v]

(* Mutant: replay gives a rolled-back row a state of its own.              *)
RowAfterRetry == [bootstrap |-> "active", inflight |-> "inflight",
                  evidence |-> "inflight", rollback |-> "retryable",
                  terminal |-> "consumed"]

(* The row state each lifecycle line leaves; a reservation leaves no row.  *)
RowAfter == [bootstrap |-> "active", inflight |-> "inflight",
             evidence |-> "inflight", rollback |-> "active",
             terminal |-> "consumed"]

(* The positions among the first n lines of j that hold such a line for c. *)
At(j, n, c, evs) == {i \in 1..n : j[i].case = c /\ j[i].ev \in evs}

RowAt(j, n, c) ==
  LET mine == At(j, n, c, DOMAIN RowAfter)
  IN IF mine = {} THEN "none"
     ELSE RowAfter[j[CHOOSE i \in mine : \A k \in mine : k <= i].ev]

EvidenceAt(j, n, c) ==
  LET lines == At(j, n, c, {"evidence"})
  IN IF lines = {} THEN "none" ELSE j[CHOOSE i \in lines : TRUE].verdict

AttemptsAt(j, n) == {c \in Cases : At(j, n, c, {"attempt"}) # {}}

(* validate_new_record: one attempt per case and operation, within caps.   *)
Refused(attempts, c) ==
  \/ c \in attempts
  \/ Cardinality(attempts) >= MaxTotal
  \/ c \in CheckerCases /\ Cardinality(attempts \cap CheckerCases) >= MaxCheckers

(* What replay_native_shadow_journal demands of line i.                    *)
LineReplays(j, i) ==
  LET c == j[i].case
      row == RowAt(j, i - 1, c)
      evidence == EvidenceAt(j, i - 1, c)
  IN CASE j[i].ev = "attempt"   -> ~Refused(AttemptsAt(j, i - 1), c)
       [] j[i].ev = "bootstrap" -> row = "none"
       [] j[i].ev = "inflight"  -> /\ row = "active"
                                   /\ At(j, i - 1, c, {"inflight"}) = {}
       [] j[i].ev = "rollback"  -> row = "inflight" /\ evidence = "none"
       [] j[i].ev = "evidence"  -> row = "inflight" /\ evidence = "none"
       [] j[i].ev = "terminal"  -> row = "inflight" /\ evidence = j[i].verdict

Replayable(j) == \A i \in 1..Len(j) : LineReplays(j, i)

(* What recover_verified_closed_local_replay_state demands besides: every  *)
(* flight and every piece of evidence has a checker attempt, and every row *)
(* has been in flight.                                                     *)
Attempted(j) ==
  \A c \in Cases : At(j, Len(j), c, {"inflight", "evidence"}) # {}
                     => c \in AttemptsAt(j, Len(j)) \cap CheckerCases

HasFlown(j) ==
  \A c \in Cases : RowAt(j, Len(j), c) # "none"
                     => At(j, Len(j), c, {"inflight"}) # {}

Recovers(j) == Replayable(j) /\ Attempted(j) /\ HasFlown(j)

(* The store, the exhaustion ledger and the attempts ledger replay builds. *)
Replayed(j) ==
  [rows      |-> [c \in Cases |-> RowAt(j, Len(j), c)],
   evidence  |-> [c \in Cases |-> EvidenceAt(j, Len(j), c)],
   seen      |-> {c \in Cases : At(j, Len(j), c, {"inflight"}) # {}},
   exhausted |-> {c \in Cases : At(j, Len(j), c, {"terminal"}) # {}},
   attempts  |-> AttemptsAt(j, Len(j))]

Stuck(j) == {c \in Cases : RowAt(j, Len(j), c) = "inflight"}

-----------------------------------------------------------------------------
(* Appending under the lock.                                               *)

Durable(line) ==
  /\ ~broken
  /\ journal' = Append(journal, line)
  /\ UNCHANGED <<broken, faults>>

(* A failed append breaks the authority for good.  The confirmed prefix is *)
(* restored, or the line stays: the rollback failed, or only the check of  *)
(* the path after the write did.                                           *)
AppendFails(line) ==
  \/ broken /\ UNCHANGED <<journal, broken, faults>>
  \/ /\ ~broken /\ faults < MaxFaults
     /\ faults' = faults + 1
     /\ broken' = TRUE
     /\ journal' \in {journal, Append(journal, line)}

(* Mutant: an unknown outcome returns without dropping the permit.         *)
ReturnsHolding(r, response) ==
  /\ own' = [own EXCEPT ![r] = "done"]
  /\ resp' = [resp EXCEPT ![r] = response]
  /\ gate' = IF gate = r /\ response # "unknown" THEN NoOne ELSE gate
  /\ lock' = IF lock = r THEN NoOne ELSE lock

(* The owner task returns: its permit is dropped, then it sends.           *)
Returns(r, response) ==
  /\ own' = [own EXCEPT ![r] = "done"]
  /\ resp' = [resp EXCEPT ![r] = response]
  /\ gate' = IF gate = r THEN NoOne ELSE gate
  /\ lock' = IF lock = r THEN NoOne ELSE lock

Goes(r, pc) == own' = [own EXCEPT ![r] = pc]

(* Mutant: the poison guard is disarmed too early.                         *)
ReturnsDisarmed(r) == UNCHANGED poisoned /\ Returns(r, "unknown")

(* poison_unknown_response.                                                *)
ReturnsUnknown(r) == poisoned' = TRUE /\ Returns(r, "unknown")

Answers(r, a) == req' = [req EXCEPT ![r].pc = "answered", ![r].answer = a]

Case(r) == req[r].case

-----------------------------------------------------------------------------
(* The request future.                                                     *)

(* submit, up to the parsed body: x tells the grant's candidate for the    *)
(* challenge from any other one.                                           *)
Arrive(r, c, x) ==
  /\ phase = "up" /\ req[r].pc = "idle"
  /\ req' = [req EXCEPT ![r] = [pc |-> IF poisoned THEN "answered" ELSE "arrived",
                                case |-> c, exact |-> x,
                                answer |-> IF poisoned THEN "poisoned" ELSE "none"]]
  /\ UNCHANGED <<store, phase, poisoned, gate, lock, authorized, own, resp,
                 leaf, launches, kills>>

(* terminal_redelivery_response.                                           *)
Redeliver(r) ==
  /\ phase = "up" /\ req[r].pc = "arrived" /\ lock = NoOne
  /\ IF req[r].exact /\ mem.rows[Case(r)] = "consumed"
     THEN Answers(r, mem.evidence[Case(r)])
     ELSE req' = [req EXCEPT ![r].pc = "missed"]
  /\ UNCHANGED <<store, phase, poisoned, gate, lock, authorized, own, resp,
                 leaf, launches, kills>>

(* pre_intake_state_response, the match with the grant and the spawn of    *)
(* the owner.                                                              *)
StateCheck(r) ==
  /\ phase = "up" /\ req[r].pc = "missed" /\ lock = NoOne
  /\ LET c == Case(r)
         row == mem.rows[c]
         mismatch == (c \in mem.exhausted) # (row = "consumed")
     IN /\ poisoned' = (poisoned \/ mismatch)
        /\ IF ~mismatch /\ row \in {"none", "active"} /\ req[r].exact
           THEN /\ req' = [req EXCEPT ![r].pc = "waiting"]
                /\ Goes(r, "spawned")
           ELSE /\ Answers(r, IF mismatch THEN "poisoned"
                           ELSE IF row = "inflight" THEN "busy"
                           ELSE IF row = "consumed" THEN "exhausted" ELSE "stranger")
                /\ UNCHANGED own
  /\ UNCHANGED <<store, phase, gate, lock, authorized, resp, leaf, launches,
                 kills>>

Respond(r) ==
  /\ phase = "up" /\ req[r].pc = "waiting" /\ own[r] = "done"
  /\ Answers(r, resp[r])
  /\ UNCHANGED <<store, phase, poisoned, gate, lock, authorized, own, resp,
                 leaf, launches, kills>>

(* The total response deadline: the owner goes on without its request.     *)
Deadline(r) ==
  /\ phase = "up" /\ req[r].pc = "waiting"
  /\ poisoned' = TRUE
  /\ Answers(r, "unknown")
  /\ UNCHANGED <<store, phase, gate, lock, authorized, own, resp, leaf,
                 launches, kills>>

(* The client hangs up; only the receiver is dropped.                      *)
HangUp(r) ==
  /\ phase = "up" /\ req[r].pc = "waiting"
  /\ req' = [req EXCEPT ![r].pc = "gone"]
  /\ UNCHANGED <<store, phase, poisoned, gate, lock, authorized, own, resp,
                 leaf, launches, kills>>

-----------------------------------------------------------------------------
(* The detached owner: process_checker and process_pre_intake.             *)

CheckPoison(r) ==
  /\ phase = "up" /\ own[r] = "spawned"
  /\ IF poisoned THEN Returns(r, "poisoned")
     ELSE Goes(r, "checked") /\ UNCHANGED <<resp, gate, lock>>
  /\ UNCHANGED <<store, phase, poisoned, authorized, req, leaf, launches, kills>>

(* try_acquire: one permit for every checker case, no waiting.             *)
TryAcquire(r) ==
  /\ phase = "up" /\ own[r] = "checked" /\ Case(r) \in CheckerCases
  /\ IF gate # NoOne THEN Returns(r, "busy")
     ELSE Goes(r, "gated") /\ gate' = r /\ UNCHANGED <<resp, lock>>
  /\ UNCHANGED <<store, phase, poisoned, authorized, req, leaf, launches, kills>>

AtReserve(r) ==
  /\ phase = "up" /\ lock = NoOne
  /\ own[r] = IF Case(r) \in CheckerCases THEN "gated" ELSE "checked"

ReserveRefused(r) ==
  /\ AtReserve(r) /\ Refused(mem.attempts, Case(r))
  /\ Returns(r, "exhausted")
  /\ UNCHANGED <<store, phase, poisoned, authorized, req, leaf, launches, kills>>

Reserve(r) ==
  /\ AtReserve(r) /\ ~Refused(mem.attempts, Case(r))
  /\ LET line == Line("attempt", Case(r), "none")
     IN \/ /\ Durable(line)
           /\ mem' = [mem EXCEPT !.attempts = @ \cup {Case(r)}]
           /\ Goes(r, "reserved")
           /\ UNCHANGED <<poisoned, resp, gate, lock>>
        \/ AppendFails(line) /\ ReturnsUnknown(r) /\ UNCHANGED mem
  /\ UNCHANGED <<phase, authorized, req, leaf, launches, kills>>

(* authorize_pre_intake and the refusal of the empty answer.               *)
RefuseIntake(r) ==
  /\ phase = "up" /\ own[r] = "reserved" /\ Case(r) \in EmptyCases
  /\ authorized' = authorized \cup {Case(r)}
  /\ IF Case(r) \in authorized THEN ReturnsUnknown(r)
     ELSE Returns(r, "intake") /\ UNCHANGED poisoned
  /\ UNCHANGED <<store, phase, req, leaf, launches, kills>>

(* authorize_checker, then under the lock the resolution of the row, the   *)
(* admission view and the first line of begin_execution_v3.                *)
Bootstrap(r) ==
  /\ phase = "up" /\ own[r] = "reserved" /\ Case(r) \in CheckerCases
  /\ lock = NoOne
  /\ authorized' = authorized \cup {Case(r)}
  /\ LET c == Case(r)
         line == Line("bootstrap", c, "none")
         fresh == [mem EXCEPT !.rows[c] = "active"]
     IN IF \/ c \in authorized \/ c \in mem.exhausted \/ c \in mem.seen
           \/ mem.rows[c] \notin {"none", "active"}
        THEN ReturnsUnknown(r) /\ UNCHANGED store
        ELSE \/ /\ IF mem.rows[c] = "active"
                   THEN UNCHANGED <<journal, broken, faults>>
                   ELSE Durable(line)
                /\ mem' = fresh
                /\ Goes(r, "begun")
                /\ lock' = r
                /\ UNCHANGED <<poisoned, resp, gate>>
             \/ /\ mem.rows[c] = "none"
                /\ AppendFails(line) /\ ReturnsUnknown(r)
                /\ mem' = fresh
  /\ UNCHANGED <<phase, req, leaf, launches, kills>>

(* The second line of begin_execution_v3; the lock is released, and from   *)
(* here on the poison guard is armed.                                      *)
BeginFlight(r) ==
  /\ phase = "up" /\ own[r] = "begun" /\ lock = r
  /\ LET line == Line("inflight", Case(r), "none")
     IN \/ /\ Durable(line)
           /\ mem' = [mem EXCEPT !.rows[Case(r)] = "inflight",
                                 !.seen = @ \cup {Case(r)}]
           /\ Goes(r, "inflight")
           /\ lock' = NoOne
           /\ UNCHANGED <<poisoned, resp, gate>>
        \/ AppendFails(line) /\ ReturnsUnknown(r) /\ UNCHANGED mem
  /\ UNCHANGED <<phase, authorized, req, leaf, launches, kills>>

Launch(r) ==
  /\ phase = "up" /\ own[r] = "inflight"
  /\ Goes(r, "running")
  /\ leaf' = leaf \cup {Case(r)}
  /\ launches' = [launches EXCEPT ![Case(r)] = @ + 1]
  /\ UNCHANGED <<store, phase, poisoned, gate, lock, authorized, req, resp, kills>>

(* The launcher answers and classify_launcher_facts decides: anything but  *)
(* a validated session with its cleanup complete is ambiguous, and then    *)
(* the checker's leaf may have been left behind.                           *)
Report(r, outcome) ==
  /\ phase = "up" /\ own[r] = "running"
  /\ leaf' \in IF outcome = "ambiguous" THEN {leaf, leaf \ {Case(r)}}
               ELSE {leaf \ {Case(r)}}
  /\ IF outcome = "ambiguous" THEN ReturnsUnknown(r)
     ELSE /\ Goes(r, "reported")
          /\ resp' = [resp EXCEPT ![r] = outcome]
          /\ UNCHANGED <<poisoned, gate, lock>>
  /\ UNCHANGED <<store, phase, authorized, req, launches, kills>>

(* retryable_rollback_v3.                                                  *)
Rollback(r) ==
  /\ phase = "up" /\ own[r] = "reported" /\ resp[r] = "retryable" /\ lock = NoOne
  /\ LET line == Line("rollback", Case(r), "none")
     IN \/ /\ Durable(line)
           /\ mem' = [mem EXCEPT !.rows[Case(r)] = "active"]
           /\ Returns(r, "retryable")
           /\ UNCHANGED poisoned
        \/ AppendFails(line) /\ ReturnsUnknown(r) /\ UNCHANGED mem
  /\ UNCHANGED <<phase, authorized, req, leaf, launches, kills>>

(* persist_evidence; the lock is kept for the terminal line.               *)
PersistEvidence(r) ==
  /\ phase = "up" /\ own[r] = "reported" /\ resp[r] \in Verdicts /\ lock = NoOne
  /\ LET line == Line("evidence", Case(r), resp[r])
     IN \/ /\ Durable(line)
           /\ mem' = [mem EXCEPT !.evidence[Case(r)] = resp[r]]
           /\ Goes(r, "evidenced")
           /\ lock' = r
           /\ UNCHANGED <<poisoned, resp, gate>>
        \/ AppendFails(line) /\ ReturnsUnknown(r) /\ UNCHANGED mem
  /\ UNCHANGED <<phase, authorized, req, leaf, launches, kills>>

(* The row is consumed and record_terminal marks the challenge exhausted.  *)
Consumed(c) == [mem EXCEPT !.rows[c] = "consumed",
                           !.exhausted = @ \cup {c}]

(* complete_consumed, and the answer that carries the receipt.             *)
CompleteConsumed(r) ==
  /\ phase = "up" /\ own[r] = "evidenced" /\ lock = r
  /\ LET line == Line("terminal", Case(r), resp[r])
     IN \/ /\ Durable(line)
           /\ mem' = Consumed(Case(r))
           /\ Returns(r, resp[r])
           /\ UNCHANGED poisoned
        \/ AppendFails(line) /\ ReturnsUnknown(r) /\ UNCHANGED mem
  /\ UNCHANGED <<phase, authorized, req, leaf, launches, kills>>

-----------------------------------------------------------------------------
(* The process dies and is started again.                                  *)

Kill ==
  /\ phase = "up" /\ kills < MaxKills
  /\ kills' = kills + 1
  /\ phase' = "down"
  /\ own' = [r \in Requests |-> "none"]
  /\ resp' = [r \in Requests |-> "none"]
  /\ req' = [r \in Requests |->
               IF req[r].pc \in {"idle", "answered"} THEN req[r]
               ELSE [req[r] EXCEPT !.pc = "gone"]]
  /\ gate' = NoOne /\ lock' = NoOne
  /\ authorized' = {}
  /\ broken' = FALSE /\ poisoned' = FALSE
  /\ UNCHANGED <<journal, mem, leaf, launches, faults>>

(* serve_installed_closed_local_native_shadow_replay: recovery; then the   *)
(* launcher's qualification, which cleans every leaf; then the refusal of  *)
(* a journal with a row in flight.                                         *)
Start ==
  /\ phase = "down"
  /\ IF ~Recovers(journal) THEN phase' = "refused" /\ UNCHANGED <<mem, leaf>>
     ELSE /\ leaf' = {}
          /\ phase' = IF Stuck(journal) = {} THEN "up" ELSE "refused"
          /\ mem' = Replayed(journal)
  /\ UNCHANGED <<journal, broken, poisoned, gate, lock, authorized, req, own,
                 resp, launches, kills, faults>>

-----------------------------------------------------------------------------
Init ==
  /\ journal = <<>>
  /\ phase = "up"
  /\ mem = Replayed(<<>>)
  /\ broken = FALSE /\ poisoned = FALSE
  /\ gate = NoOne /\ lock = NoOne
  /\ authorized = {}
  /\ req = [r \in Requests |-> [pc |-> "idle", case |-> NoOne, exact |-> FALSE,
                               answer |-> "none"]]
  /\ own = [r \in Requests |-> "none"]
  /\ resp = [r \in Requests |-> "none"]
  /\ leaf = {}
  /\ launches = [c \in Cases |-> 0]
  /\ kills = 0 /\ faults = 0

OwnerStep(r) ==
  \/ CheckPoison(r) \/ TryAcquire(r)
  \/ ReserveRefused(r) \/ Reserve(r)
  \/ RefuseIntake(r)
  \/ Bootstrap(r) \/ BeginFlight(r) \/ Launch(r)
  \/ \E outcome \in Outcomes : Report(r, outcome)
  \/ Rollback(r) \/ PersistEvidence(r) \/ CompleteConsumed(r)

RequestStep(r) ==
  \/ Redeliver(r) \/ StateCheck(r) \/ Respond(r)

Next ==
  \/ \E r \in Requests :
       \/ \E c \in Cases, x \in BOOLEAN : Arrive(r, c, x)
       \/ RequestStep(r) \/ Deadline(r) \/ HangUp(r)
       \/ OwnerStep(r)
  \/ Kill \/ Start

Spec == Init /\ [][Next]_vars

(* Owner tasks and request futures are scheduled until they end, and the   *)
(* launcher session ends by its deadlines; nobody owes a kill, a submission*)
(* or a restart.                                                           *)
FairSpec ==
  Spec /\ \A r \in Requests : WF_vars(OwnerStep(r)) /\ WF_vars(RequestStep(r))
-----------------------------------------------------------------------------
(* Every variable holds what the code can store in it.                     *)
Answered == Verdicts \cup {"retryable", "unknown", "poisoned", "busy",
                           "exhausted", "intake", "stranger"}

TypeOK ==
  /\ journal \in Seq([ev : {"attempt"} \cup DOMAIN RowAfter, case : Cases,
                      verdict : Verdicts \cup {"none"}])
  /\ phase \in {"up", "down", "refused"}
  /\ mem \in [rows : [Cases -> {"none", "active", "inflight", "consumed"}],
              evidence : [Cases -> Verdicts \cup {"none"}],
              seen : SUBSET Cases, exhausted : SUBSET Cases,
              attempts : SUBSET Cases]
  /\ {broken, poisoned} \subseteq BOOLEAN
  /\ {gate, lock} \subseteq Requests \cup {NoOne}
  /\ authorized \subseteq Cases /\ leaf \subseteq Cases
  /\ req \in [Requests ->
        [pc : {"idle", "arrived", "missed", "waiting", "answered", "gone"},
         case : Cases \cup {NoOne}, exact : BOOLEAN, answer : Answered \cup {"none"}]]
  /\ own \in [Requests -> {"none", "spawned", "checked", "gated", "reserved",
                           "begun", "inflight", "running", "reported",
                           "evidenced", "done"}]
  /\ resp \in [Requests -> Answered \cup {"none"}]
  /\ launches \in [Cases -> Nat] /\ kills \in Nat /\ faults \in Nat

(* Over the whole life of the journal, through kills, restarts, retryable  *)
(* outcomes and repeated submissions, the launcher is asked to run a case  *)
(* at most once, and only when its attempt and its flight are on disk.     *)
LaunchedOnce ==
  \A c \in Cases :
    /\ launches[c] <= 1
    /\ launches[c] = 1 => /\ c \in AttemptsAt(journal, Len(journal))
                          /\ At(journal, Len(journal), c, {"inflight"}) # {}

(* A verdict a client was given is the verdict the journal holds for that  *)
(* case, now and after any restart: whoever asks is told the same one, by  *)
(* the owner that ran the checker or by a redelivery.  A client told the   *)
(* attempt was rolled back will never find the case decided.               *)
AnswersHold ==
  \A r \in Requests :
    LET row == RowAt(journal, Len(journal), Case(r))
        verdict == EvidenceAt(journal, Len(journal), Case(r))
    IN /\ req[r].answer \in Verdicts =>
            req[r].exact /\ row = "consumed" /\ verdict = req[r].answer
       /\ req[r].answer = "retryable" => row = "active" /\ verdict = "none"

(* A row in flight that no owner is working on has closed the service: the *)
(* poison guard leaves no path on which a flight is abandoned and the      *)
(* service still reports itself ready.                                     *)
AbandonedIsPoisoned ==
  \A c \in Cases :
    phase = "up" /\ mem.rows[c] = "inflight" =>
      \/ poisoned
      \/ \E r \in Requests : /\ Case(r) = c
                             /\ own[r] \in {"inflight", "running", "reported",
                                            "evidenced"}

(* While appends succeed and nobody is between two of them, a restart at   *)
(* this very point would rebuild exactly the state in memory.              *)
MemoryIsJournal ==
  phase = "up" /\ ~broken /\ lock = NoOne => mem = Replayed(journal)

(* Recovery never finds a line out of order or without its attempt,        *)
(* wherever the process was killed and whichever append failed.  What it   *)
(* may still refuse is a row that has not flown, and that is left behind   *)
(* in one place only: between the two lines of begin_execution_v3, with    *)
(* the first of them as the last line of the journal.  While appends       *)
(* succeed and nobody is between two of them, recovery accepts it all.     *)
WrittenReplays ==
  /\ Replayable(journal) /\ Attempted(journal)
  /\ \A c \in Cases :
       RowAt(journal, Len(journal), c) # "none"
       /\ At(journal, Len(journal), c, {"inflight"}) = {}
         => journal[Len(journal)] = Line("bootstrap", c, "none")
  /\ phase = "up" /\ ~broken /\ lock = NoOne => HasFlown(journal)

(* A start that is refused because a row is in flight has first had the    *)
(* launcher clean up every leaf the killed process left running.           *)
RefusedClean == phase = "refused" /\ Recovers(journal) => leaf = {}

(* The execution permit is always given back: whatever the launcher and    *)
(* the journal do and whether or not the client still waits.               *)
GateReleased == gate # NoOne ~> gate = NoOne

(* The journal is sound: types hold, memory is what a restart rebuilds from *)
(* it, recovery accepts it but for the one gap, and a refused start has     *)
(* cleaned up.                                                              *)
JournalSound == TypeOK /\ MemoryIsJournal /\ WrittenReplays /\ RefusedClean

(* Flights are sound: one launch per case, answers that hold for ever, and *)
(* no abandoned flight behind an open service.                             *)
FlightSound == LaunchedOnce /\ AnswersHold /\ AbandonedIsPoisoned
=============================================================================
