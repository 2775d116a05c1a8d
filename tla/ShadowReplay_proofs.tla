------------------------ MODULE ShadowReplay_proofs ------------------------
(***************************************************************************)
(* The journal and the flights of the replay service, for every grant,     *)
(* every number of submissions and every bound on kills and faults.        *)
(*                                                                         *)
(* The argument is about what a restart would rebuild, Disk.  A line that  *)
(* fits Disk keeps the journal replayable and changes Disk like a store    *)
(* that applies it (AppendSound).  Every owner writes a line that fits,    *)
(* because an owner past its reservation is the only one of its case, and  *)
(* Disk is where the owner's stage says it is (OwnerSound).   Whoever      *)
(* writes holds the lock, so a row that has not flown is the last thing    *)
(* in the journal (Gap).                                                   *)
(***************************************************************************)
EXTENDS ShadowReplay, WellFoundedInduction, TLAPS

Events == {"attempt"} \cup DOMAIN RowAfter
Lines == [ev : Events, case : Cases, verdict : Verdicts \cup {"none"}]

\* Evidence always carries a verdict.
GoodLines == {l \in Lines : l.ev = "evidence" => l.verdict \in Verdicts}

Disk == Replayed(journal)

\* What replay demands of a line l that follows lines replayed to d, and what
\* recovery demands besides.
Fits(d, l) ==
  /\ l.ev = "attempt" => ~Refused(d.attempts, l.case)
  /\ l.ev = "bootstrap" => d.rows[l.case] = "none" /\ l.case \in d.attempts \cap CheckerCases
  /\ l.ev = "inflight" => d.rows[l.case] = "active" /\ l.case \notin d.seen
  /\ l.ev \in {"rollback", "evidence"} => d.rows[l.case] = "inflight" /\ d.evidence[l.case] = "none"
  /\ l.ev = "terminal" => d.rows[l.case] = "inflight" /\ d.evidence[l.case] = l.verdict
                          /\ l.verdict # "none"

\* The store, the exhaustion ledger and the attempts ledger after line l.
Applied(d, l) ==
  [rows      |-> IF l.ev = "attempt" THEN d.rows
                 ELSE [d.rows EXCEPT ![l.case] = RowAfter[l.ev]],
   evidence  |-> IF l.ev = "evidence" THEN [d.evidence EXCEPT ![l.case] = l.verdict]
                 ELSE d.evidence,
   seen      |-> IF l.ev = "inflight" THEN d.seen \cup {l.case} ELSE d.seen,
   exhausted |-> IF l.ev = "terminal" THEN d.exhausted \cup {l.case} ELSE d.exhausted,
   attempts  |-> IF l.ev = "attempt" THEN d.attempts \cup {l.case} ELSE d.attempts]

\* How the parts of a replayed state belong together.
CaseSound(d, c) ==
  /\ d.rows[c] = "none" => c \notin d.seen
  /\ d.rows[c] # "none" => c \in d.attempts \cap CheckerCases
  /\ d.rows[c] \in {"none", "active"} => d.evidence[c] = "none"
  /\ d.rows[c] \in {"inflight", "consumed"} => c \in d.seen
  /\ d.rows[c] = "consumed" => d.evidence[c] \in Verdicts
  /\ c \in d.exhausted <=> d.rows[c] = "consumed"

DiskTypes ==
  [rows : [Cases -> {"none", "active", "inflight", "consumed"}],
   evidence : [Cases -> Verdicts \cup {"none"}],
   seen : SUBSET Cases, exhausted : SUBSET Cases, attempts : SUBSET Cases]

DiskSound ==
  /\ journal \in Seq(GoodLines)
  /\ Replayable(journal) /\ Attempted(journal)
  /\ Disk \in DiskTypes
  /\ \A c \in Cases : CaseSound(Disk, c)

\* The stages of an owner whose attempt is on disk.
Past == {"reserved", "begun", "inflight", "running", "reported", "evidenced"}

\* The stage of an owner says where its case is on disk, and its answer stays
\* true of the disk after it has returned.
OwnerSound(r) ==
  /\ req[r].pc \in {"idle", "arrived", "missed"} => own[r] = "none"
  /\ req[r].pc # "idle" => Case(r) \in Cases
  /\ own[r] # "none" => Case(r) \in Cases /\ req[r].exact /\ req[r].pc # "idle"
  /\ own[r] # "none" => phase = "up"
  /\ own[r] \in Past => Case(r) \in Disk.attempts
  /\ own[r] = "reserved" => Disk.rows[Case(r)] = "none" /\ mem.rows[Case(r)] = "none"
  /\ own[r] = "begun" => /\ lock = r /\ Disk.rows[Case(r)] = "active"
                         /\ Case(r) \notin Disk.seen
  /\ own[r] \in {"inflight", "running", "reported"} =>
        Disk.rows[Case(r)] = "inflight" /\ Disk.evidence[Case(r)] = "none"
  /\ own[r] = "inflight" => launches[Case(r)] = 0
  /\ own[r] = "evidenced" => /\ lock = r /\ Disk.rows[Case(r)] = "inflight"
                             /\ resp[r] \in Verdicts /\ Disk.evidence[Case(r)] = resp[r]
  /\ own[r] = "done" /\ resp[r] \in Verdicts =>
        Disk.rows[Case(r)] = "consumed" /\ Disk.evidence[Case(r)] = resp[r]
  /\ own[r] = "done" /\ resp[r] = "retryable" =>
        Disk.rows[Case(r)] = "active" /\ Case(r) \in Disk.seen

\* One owner past its reservation per case.
OneOwner == \A r, s \in Requests :
  own[r] \in Past /\ own[s] \in Past /\ Case(r) = Case(s) => r = s

\* Between two appends of one owner no other append can fail.
LockedWorks == lock # NoOne => ~broken

\* While appends succeed memory is the disk; after that it still delivers no
\* verdict that is not on disk.
MemSound ==
  phase = "up" =>
    /\ ~broken => mem = Disk
    /\ \A c \in Cases : mem.rows[c] = "consumed" =>
          Disk.rows[c] = "consumed" /\ Disk.evidence[c] = mem.evidence[c]

AnswerSound(r) ==
  /\ req[r].answer # "none" => req[r].pc # "idle"
  /\ req[r].answer \in Verdicts =>
        req[r].exact /\ Disk.rows[Case(r)] = "consumed" /\ Disk.evidence[Case(r)] = req[r].answer
  /\ req[r].answer = "retryable" => Disk.rows[Case(r)] = "active" /\ Case(r) \in Disk.seen

LaunchSound ==
  \A c \in Cases : launches[c] <= 1 /\ (c \notin Disk.seen => launches[c] = 0)

IInv ==
  /\ TypeOK /\ DiskSound
  /\ \A r \in Requests : OwnerSound(r)
  /\ OneOwner /\ LockedWorks /\ MemSound
  /\ \A r \in Requests : AnswerSound(r)
  /\ LaunchSound /\ AbandonedIsPoisoned /\ RefusedClean

-----------------------------------------------------------------------------
(* Journals.                                                               *)

\* A non-empty set of positions has a last one.
LEMMA LastPosition ==
  ASSUME NEW n \in Nat, NEW S \in SUBSET (1..n), S # {}
  PROVE  \E i \in S : \A k \in S : k <= i
  <1> DEFINE T == {n - i : i \in S}
  <1>1. T \subseteq Nat /\ T # {}
    <2>1. PICK i \in S : TRUE
      OBVIOUS
    <2>2. n - i \in T
      BY <2>1
    <2>3. \A k \in S : n - k \in Nat
      OBVIOUS
    <2> QED BY <2>2, <2>3
  <1>2. PICK x \in T : \A y \in T : ~ (<<y, x>> \in OpToRel(<, Nat))
    BY <1>1, NatLessThanWellFounded, WFMin
  <1>3. \A y \in T : x <= y
    <2> HIDE DEF T
    <2>1. \A y \in T : ~(y < x)
      BY <1>1, <1>2 DEF OpToRel
    <2> QED BY <1>1, <2>1
  <1>4. PICK i \in S : x = n - i
    OBVIOUS
  <1>5. \A k \in S : k <= i
    <2> TAKE k \in S
    <2>1. n - k \in T
      OBVIOUS
    <2>2. n - i <= n - k
      BY <1>3, <1>4, <2>1
    <2> HIDE DEF T
    <2> QED BY <2>2
  <1> QED BY <1>5

\* The positions of earlier lines do not change when a line is appended.
LEMMA AtPrefix ==
  ASSUME NEW j \in Seq(Lines), NEW l \in Lines, NEW c, NEW evs, NEW n \in 0..Len(j)
  PROVE  At(Append(j, l), n, c, evs) = At(j, n, c, evs)
  <1>1. \A i \in 1..n : Append(j, l)[i] = j[i]
    OBVIOUS
  <1> QED BY <1>1 DEF At

\* The positions after a line was appended.
LEMMA AtAppend ==
  ASSUME NEW j \in Seq(Lines), NEW l \in Lines, NEW c, NEW evs
  PROVE  /\ l.case = c /\ l.ev \in evs =>
               At(Append(j, l), Len(j) + 1, c, evs) = At(j, Len(j), c, evs) \cup {Len(j) + 1}
         /\ ~(l.case = c /\ l.ev \in evs) =>
               At(Append(j, l), Len(j) + 1, c, evs) = At(j, Len(j), c, evs)
  <1>1. \A i \in 1..Len(j) : Append(j, l)[i] = j[i]
    OBVIOUS
  <1>2. Append(j, l)[Len(j) + 1] = l
    OBVIOUS
  <1>3. 1..(Len(j) + 1) = 1..Len(j) \cup {Len(j) + 1}
    OBVIOUS
  <1> QED BY <1>1, <1>2, <1>3 DEF At

\* The row of a case after a prefix of the journal.
LEMMA RowPrefix ==
  ASSUME NEW j \in Seq(Lines), NEW l \in Lines, NEW c, NEW n \in 0..Len(j)
  PROVE  RowAt(Append(j, l), n, c) = RowAt(j, n, c)
  <1> DEFINE mine == At(j, n, c, DOMAIN RowAfter)
  <1>1. At(Append(j, l), n, c, DOMAIN RowAfter) = mine
    BY AtPrefix
  <1>2. CASE mine = {}
    BY <1>1, <1>2 DEF RowAt
  <1>3. CASE mine # {}
    <2> DEFINE last == CHOOSE i \in mine : \A k \in mine : k <= i
    <2>1. mine \in SUBSET (1..n)
      BY DEF At
    <2>2. \E i \in mine : \A k \in mine : k <= i
      <3> HIDE DEF mine
      <3>1. n \in Nat
        OBVIOUS
      <3> QED BY <1>3, <2>1, <3>1, LastPosition
    <2>3. RowAt(j, n, c) = RowAfter[j[last].ev]
      BY <1>3 DEF RowAt
    <2>4. RowAt(Append(j, l), n, c) = RowAfter[Append(j, l)[last].ev]
      BY <1>1, <1>3 DEF RowAt
    <2> HIDE DEF mine
    <2>5. last \in mine
      BY <2>2
    <2> HIDE DEF last
    <2>6. Append(j, l)[last] = j[last]
      BY <2>1, <2>5
    <2> QED BY <2>3, <2>4, <2>6
  <1> QED BY <1>2, <1>3

\* The row of a case after a line was appended.
LEMMA RowAppend ==
  ASSUME NEW j \in Seq(Lines), NEW l \in Lines, NEW c
  PROVE  RowAt(Append(j, l), Len(j) + 1, c) =
           IF l.case = c /\ l.ev \in DOMAIN RowAfter THEN RowAfter[l.ev]
           ELSE RowAt(j, Len(j), c)
  <1> DEFINE mine == At(Append(j, l), Len(j) + 1, c, DOMAIN RowAfter)
  <1>1. CASE l.case = c /\ l.ev \in DOMAIN RowAfter
    <2> DEFINE last == CHOOSE i \in mine : \A k \in mine : k <= i
    <2>1. mine = At(j, Len(j), c, DOMAIN RowAfter) \cup {Len(j) + 1}
      BY <1>1, AtAppend
    <2>2. \A k \in At(j, Len(j), c, DOMAIN RowAfter) : k \in 1..Len(j)
      BY DEF At
    <2>3. Len(j) + 1 \in mine /\ \A k \in mine : k <= Len(j) + 1 /\ k \in Nat
      BY <2>1, <2>2
    <2>4. RowAt(Append(j, l), Len(j) + 1, c) = RowAfter[Append(j, l)[last].ev]
      BY <2>3 DEF RowAt
    <2> HIDE DEF mine
    <2>5. last \in mine /\ \A k \in mine : k <= last
      BY <2>3
    <2> HIDE DEF last
    <2>6. last = Len(j) + 1
      BY <2>3, <2>5
    <2>7. Append(j, l)[Len(j) + 1] = l
      OBVIOUS
    <2> QED BY <1>1, <2>4, <2>6, <2>7
  <1>2. CASE ~(l.case = c /\ l.ev \in DOMAIN RowAfter)
    <2>1. mine = At(j, Len(j), c, DOMAIN RowAfter)
      BY <1>2, AtAppend
    <2>2. CASE mine = {}
      BY <1>2, <2>1, <2>2 DEF RowAt
    <2>3. CASE mine # {}
      <3> DEFINE last == CHOOSE i \in mine : \A k \in mine : k <= i
      <3>1. mine \in SUBSET (1..Len(j))
        BY <2>1 DEF At
      <3>2. \E i \in mine : \A k \in mine : k <= i
        <4> HIDE DEF mine
        <4>1. Len(j) \in Nat
          OBVIOUS
        <4> QED BY <2>3, <3>1, <4>1, LastPosition
      <3>3. RowAt(j, Len(j), c) = RowAfter[j[last].ev]
        BY <2>1, <2>3 DEF RowAt
      <3>4. RowAt(Append(j, l), Len(j) + 1, c) = RowAfter[Append(j, l)[last].ev]
        BY <2>3 DEF RowAt
      <3> HIDE DEF mine
      <3>5. last \in mine
        BY <3>2
      <3> HIDE DEF last
      <3>6. Append(j, l)[last] = j[last]
        BY <3>1, <3>5
      <3> QED BY <1>2, <3>3, <3>4, <3>6
    <2> QED BY <2>2, <2>3
  <1> QED BY <1>1, <1>2

\* The evidence of a case after a prefix of the journal.
LEMMA EvidencePrefix ==
  ASSUME NEW j \in Seq(Lines), NEW l \in Lines, NEW c, NEW n \in 0..Len(j)
  PROVE  EvidenceAt(Append(j, l), n, c) = EvidenceAt(j, n, c)
  <1> DEFINE lines == At(j, n, c, {"evidence"})
  <1>1. At(Append(j, l), n, c, {"evidence"}) = lines
    BY AtPrefix
  <1>2. lines \subseteq 1..n
    BY DEF At
  <1>3. \A i \in lines : Append(j, l)[i] = j[i]
    BY <1>2
  <1>4. CASE lines = {}
    BY <1>1, <1>4 DEF EvidenceAt
  <1>5. CASE lines # {}
    <2> DEFINE one == CHOOSE i \in lines : TRUE
    <2>1. EvidenceAt(j, n, c) = j[one].verdict
      BY <1>5 DEF EvidenceAt
    <2>2. EvidenceAt(Append(j, l), n, c) = Append(j, l)[one].verdict
      BY <1>1, <1>5 DEF EvidenceAt
    <2>3. one \in lines
      BY <1>5
    <2> HIDE DEF lines, one
    <2>4. Append(j, l)[one] = j[one]
      BY <1>3, <2>3
    <2> QED BY <2>1, <2>2, <2>4
  <1> QED BY <1>4, <1>5

\* A case has evidence exactly when it has a line of evidence.
LEMMA EvidenceLine ==
  ASSUME NEW j \in Seq(GoodLines), NEW c, NEW n \in 0..Len(j)
  PROVE  /\ EvidenceAt(j, n, c) = "none" <=> At(j, n, c, {"evidence"}) = {}
         /\ EvidenceAt(j, n, c) \in Verdicts \cup {"none"}
  <1> DEFINE lines == At(j, n, c, {"evidence"})
  <1>1. \A i \in lines : j[i].verdict \in Verdicts
    BY DEF At, GoodLines
  <1>2. lines # {} => (CHOOSE i \in lines : TRUE) \in lines
    OBVIOUS
  <1> QED BY <1>1, <1>2 DEF EvidenceAt, Verdicts

\* The evidence of a case after a line was appended that is not a second one.
LEMMA EvidenceAppend ==
  ASSUME NEW j \in Seq(GoodLines), NEW l \in GoodLines, NEW c,
         l.ev = "evidence" => EvidenceAt(j, Len(j), l.case) = "none"
  PROVE  EvidenceAt(Append(j, l), Len(j) + 1, c) =
           IF l.case = c /\ l.ev = "evidence" THEN l.verdict ELSE EvidenceAt(j, Len(j), c)
  <1> DEFINE lines == At(Append(j, l), Len(j) + 1, c, {"evidence"})
  <1>0. j \in Seq(Lines) /\ l \in Lines
    BY DEF GoodLines
  <1>1. CASE l.case = c /\ l.ev = "evidence"
    <2>0. At(j, Len(j), c, {"evidence"}) = {}
      BY <1>1, EvidenceLine
    <2>1. lines = {Len(j) + 1}
      BY <1>0, <1>1, <2>0, AtAppend
    <2>2. Append(j, l)[Len(j) + 1] = l
      OBVIOUS
    <2> QED BY <1>1, <2>1, <2>2 DEF EvidenceAt
  <1>2. CASE ~(l.case = c /\ l.ev = "evidence")
    <2>1. lines = At(j, Len(j), c, {"evidence"})
      BY <1>0, <1>2, AtAppend
    <2>2. lines \subseteq 1..Len(j)
      BY <2>1 DEF At
    <2>3. \A i \in lines : Append(j, l)[i] = j[i]
      BY <2>2
    <2>4. CASE lines = {}
      BY <1>2, <2>1, <2>4 DEF EvidenceAt
    <2>5. CASE lines # {}
      <3> DEFINE one == CHOOSE i \in lines : TRUE
      <3>1. EvidenceAt(j, Len(j), c) = j[one].verdict
        BY <2>1, <2>5 DEF EvidenceAt
      <3>2. EvidenceAt(Append(j, l), Len(j) + 1, c) = Append(j, l)[one].verdict
        BY <2>5 DEF EvidenceAt
      <3>3. one \in lines
        BY <2>5
      <3> HIDE DEF lines, one
      <3>4. Append(j, l)[one] = j[one]
        BY <2>3, <3>3
      <3> QED BY <1>2, <3>1, <3>2, <3>4
    <2> QED BY <2>4, <2>5
  <1> QED BY <1>1, <1>2

\* Replay treats the earlier lines as it did before the append, and the last one
\* by what it replayed so far.
LEMMA ReplayableAppend ==
  ASSUME NEW j \in Seq(GoodLines), NEW l \in GoodLines, Replayable(j), Fits(Replayed(j), l)
  PROVE  Replayable(Append(j, l))
  <1>0. j \in Seq(Lines) /\ l \in Lines /\ Len(j) \in Nat
    BY DEF GoodLines
  <1>1. ASSUME NEW i \in 1..Len(j) PROVE LineReplays(Append(j, l), i)
    <2>1. LineReplays(j, i)
      BY DEF Replayable
    <2>2. Append(j, l)[i] = j[i] /\ i - 1 \in 0..Len(j)
      OBVIOUS
    <2>3. \A c, evs : At(Append(j, l), i - 1, c, evs) = At(j, i - 1, c, evs)
      BY <1>0, <2>2, AtPrefix
    <2>4. \A c : /\ RowAt(Append(j, l), i - 1, c) = RowAt(j, i - 1, c)
                 /\ EvidenceAt(Append(j, l), i - 1, c) = EvidenceAt(j, i - 1, c)
      BY <1>0, <2>2, RowPrefix, EvidencePrefix
    <2>5. AttemptsAt(Append(j, l), i - 1) = AttemptsAt(j, i - 1)
      BY <2>3 DEF AttemptsAt
    <2> QED BY <2>1, <2>2, <2>3, <2>4, <2>5 DEF LineReplays
  <1>2. LineReplays(Append(j, l), Len(j) + 1)
    <2>1. Append(j, l)[Len(j) + 1] = l /\ (Len(j) + 1) - 1 = Len(j) /\ Len(j) \in 0..Len(j)
      BY <1>0
    <2>2. At(Append(j, l), Len(j), l.case, {"inflight"}) = At(j, Len(j), l.case, {"inflight"})
      BY <1>0, <2>1, AtPrefix
    <2>3. /\ RowAt(Append(j, l), Len(j), l.case) = RowAt(j, Len(j), l.case)
          /\ EvidenceAt(Append(j, l), Len(j), l.case) = EvidenceAt(j, Len(j), l.case)
      BY <1>0, <2>1, RowPrefix, EvidencePrefix
    <2>4. AttemptsAt(Append(j, l), Len(j)) = AttemptsAt(j, Len(j))
      BY <1>0, <2>1, AtPrefix DEF AttemptsAt
    <2>5. l.case \in Cases /\ l.ev \in Events
      BY <1>0 DEF Lines
    <2>6. /\ Replayed(j).rows[l.case] = RowAt(j, Len(j), l.case)
          /\ Replayed(j).evidence[l.case] = EvidenceAt(j, Len(j), l.case)
          /\ l.case \in Replayed(j).seen <=> At(j, Len(j), l.case, {"inflight"}) # {}
          /\ Replayed(j).attempts = AttemptsAt(j, Len(j))
      BY <2>5 DEF Replayed
    <2>7. LineReplays(Append(j, l), Len(j) + 1) <=>
            CASE l.ev = "attempt"   -> ~Refused(AttemptsAt(j, Len(j)), l.case)
              [] l.ev = "bootstrap" -> RowAt(j, Len(j), l.case) = "none"
              [] l.ev = "inflight"  -> /\ RowAt(j, Len(j), l.case) = "active"
                                       /\ At(j, Len(j), l.case, {"inflight"}) = {}
              [] l.ev = "rollback"  -> /\ RowAt(j, Len(j), l.case) = "inflight"
                                       /\ EvidenceAt(j, Len(j), l.case) = "none"
              [] l.ev = "evidence"  -> /\ RowAt(j, Len(j), l.case) = "inflight"
                                       /\ EvidenceAt(j, Len(j), l.case) = "none"
              [] l.ev = "terminal"  -> /\ RowAt(j, Len(j), l.case) = "inflight"
                                       /\ EvidenceAt(j, Len(j), l.case) = l.verdict
      BY <2>1, <2>2, <2>3, <2>4 DEF LineReplays
    <2> QED BY <2>5, <2>6, <2>7 DEF Fits, Events, RowAfter
  <1>3. Len(Append(j, l)) = Len(j) + 1
    OBVIOUS
  <1> QED BY <1>0, <1>1, <1>2, <1>3 DEF Replayable

\* What a restart rebuilds after an append is what a store that applies the line
\* becomes.
LEMMA ReplayedAppend ==
  ASSUME NEW j \in Seq(GoodLines), NEW l \in GoodLines, Fits(Replayed(j), l)
  PROVE  Replayed(Append(j, l)) = Applied(Replayed(j), l)
  <1>0. j \in Seq(Lines) /\ l \in Lines /\ Len(j) \in Nat /\ Len(Append(j, l)) = Len(j) + 1
    BY DEF GoodLines
  <1>1. l.case \in Cases /\ l.ev \in Events
    BY <1>0 DEF Lines
  <1> DEFINE d == Replayed(j)
             e == Replayed(Append(j, l))
             a == Applied(d, l)
  <1>2. e.rows = a.rows
    <2>1. \A c \in Cases : e.rows[c] = IF l.case = c /\ l.ev \in DOMAIN RowAfter
                                       THEN RowAfter[l.ev] ELSE d.rows[c]
      BY <1>0, RowAppend DEF Replayed
    <2>2. e.rows = [c \in Cases |-> e.rows[c]] /\ d.rows = [c \in Cases |-> d.rows[c]]
      BY DEF Replayed
    <2>3. l.ev # "attempt" <=> l.ev \in DOMAIN RowAfter
      BY <1>1 DEF Events, RowAfter
    <2>4. a.rows = IF l.ev = "attempt" THEN d.rows ELSE [d.rows EXCEPT ![l.case] = RowAfter[l.ev]]
      BY DEF Applied
    <2> HIDE DEF d, e, a
    <2> QED BY <1>1, <2>1, <2>2, <2>3, <2>4
  <1>3. e.evidence = a.evidence
    <2>0. l.ev = "evidence" => EvidenceAt(j, Len(j), l.case) = "none"
      BY <1>1 DEF Fits, Replayed
    <2>1. \A c \in Cases : e.evidence[c] = IF l.case = c /\ l.ev = "evidence"
                                           THEN l.verdict ELSE d.evidence[c]
      BY <1>0, <2>0, EvidenceAppend DEF Replayed
    <2>2. /\ e.evidence = [c \in Cases |-> e.evidence[c]]
          /\ d.evidence = [c \in Cases |-> d.evidence[c]]
      BY DEF Replayed
    <2>3. a.evidence = IF l.ev = "evidence" THEN [d.evidence EXCEPT ![l.case] = l.verdict]
                       ELSE d.evidence
      BY DEF Applied
    <2> HIDE DEF d, e, a
    <2> QED BY <1>1, <2>1, <2>2, <2>3
  <1>4. ASSUME NEW ev, NEW c \in Cases
        PROVE  At(Append(j, l), Len(j) + 1, c, {ev}) # {}
                 <=> At(j, Len(j), c, {ev}) # {} \/ (l.case = c /\ l.ev = ev)
    <2> DEFINE evs == {ev}
               old == At(j, Len(j), c, evs)
               new == At(Append(j, l), Len(j) + 1, c, evs)
    <2>1. l.ev \in evs <=> l.ev = ev
      OBVIOUS
    <2> HIDE DEF evs
    <2>2. ~(l.case = c /\ l.ev \in evs) => new = old
      BY <1>0, AtAppend
    <2>3. l.case = c /\ l.ev \in evs => Len(j) + 1 \in new
      BY <1>0 DEF At
    <2> HIDE DEF old, new
    <2>4. new # {} <=> old # {} \/ (l.case = c /\ l.ev \in evs)
      BY <2>2, <2>3
    <2> QED BY <2>1, <2>4 DEF evs, old, new
  <1>5. e.seen = a.seen
    <2>1. /\ e.seen = {c \in Cases : At(Append(j, l), Len(j) + 1, c, {"inflight"}) # {}}
          /\ d.seen = {c \in Cases : At(j, Len(j), c, {"inflight"}) # {}}
          /\ a.seen = IF l.ev = "inflight" THEN d.seen \cup {l.case} ELSE d.seen
      BY <1>0 DEF Replayed, Applied
    <2>2. \A c \in Cases : At(Append(j, l), Len(j) + 1, c, {"inflight"}) # {}
            <=> At(j, Len(j), c, {"inflight"}) # {} \/ (l.case = c /\ l.ev = "inflight")
      BY <1>4
    <2> HIDE DEF d, e, a
    <2>3. \A c \in Cases : c \in e.seen <=> c \in d.seen \/ (l.case = c /\ l.ev = "inflight")
      BY <2>1, <2>2
    <2>4. e.seen \subseteq Cases /\ d.seen \subseteq Cases
      BY <2>1
    <2> QED BY <1>1, <2>1, <2>3, <2>4
  <1>6. e.exhausted = a.exhausted
    <2>1. /\ e.exhausted = {c \in Cases : At(Append(j, l), Len(j) + 1, c, {"terminal"}) # {}}
          /\ d.exhausted = {c \in Cases : At(j, Len(j), c, {"terminal"}) # {}}
          /\ a.exhausted = IF l.ev = "terminal" THEN d.exhausted \cup {l.case} ELSE d.exhausted
      BY <1>0 DEF Replayed, Applied
    <2>2. \A c \in Cases : At(Append(j, l), Len(j) + 1, c, {"terminal"}) # {}
            <=> At(j, Len(j), c, {"terminal"}) # {} \/ (l.case = c /\ l.ev = "terminal")
      BY <1>4
    <2> HIDE DEF d, e, a
    <2>3. \A c \in Cases : c \in e.exhausted <=> c \in d.exhausted \/ (l.case = c /\ l.ev = "terminal")
      BY <2>1, <2>2
    <2>4. e.exhausted \subseteq Cases /\ d.exhausted \subseteq Cases
      BY <2>1
    <2> QED BY <1>1, <2>1, <2>3, <2>4
  <1>7. e.attempts = a.attempts
    <2>1. /\ e.attempts = {c \in Cases : At(Append(j, l), Len(j) + 1, c, {"attempt"}) # {}}
          /\ d.attempts = {c \in Cases : At(j, Len(j), c, {"attempt"}) # {}}
          /\ a.attempts = IF l.ev = "attempt" THEN d.attempts \cup {l.case} ELSE d.attempts
      BY <1>0 DEF Replayed, Applied, AttemptsAt
    <2>2. \A c \in Cases : At(Append(j, l), Len(j) + 1, c, {"attempt"}) # {}
            <=> At(j, Len(j), c, {"attempt"}) # {} \/ (l.case = c /\ l.ev = "attempt")
      BY <1>4
    <2> HIDE DEF d, e, a
    <2>3. \A c \in Cases : c \in e.attempts <=> c \in d.attempts \/ (l.case = c /\ l.ev = "attempt")
      BY <2>1, <2>2
    <2>4. e.attempts \subseteq Cases /\ d.attempts \subseteq Cases
      BY <2>1
    <2> QED BY <1>1, <2>1, <2>3, <2>4
  <1>8. /\ e = [rows |-> e.rows, evidence |-> e.evidence, seen |-> e.seen,
                exhausted |-> e.exhausted, attempts |-> e.attempts]
        /\ a = [rows |-> a.rows, evidence |-> a.evidence, seen |-> a.seen,
                exhausted |-> a.exhausted, attempts |-> a.attempts]
    BY DEF Replayed, Applied
  <1> HIDE DEF e, a
  <1> QED BY <1>2, <1>3, <1>5, <1>6, <1>7, <1>8 DEF e, a, d

\* A line that fits keeps the parts of the replayed state together.
LEMMA AppliedSound ==
  ASSUME NEW d \in DiskTypes, NEW l \in GoodLines, Fits(d, l),
         \A c \in Cases : CaseSound(d, c)
  PROVE  /\ Applied(d, l) \in DiskTypes
         /\ \A c \in Cases : CaseSound(Applied(d, l), c)
  <1>1. l.case \in Cases /\ l.ev \in Events /\ l.verdict \in Verdicts \cup {"none"}
    BY DEF GoodLines, Lines
  <1>2. l.ev = "evidence" => l.verdict \in Verdicts
    BY DEF GoodLines
  <1>3. Applied(d, l) \in DiskTypes
    BY <1>1 DEF Applied, DiskTypes, Events, RowAfter
  <1>4. \A c \in Cases : CaseSound(Applied(d, l), c)
    BY <1>1, <1>2 DEF Applied, DiskTypes, Events, RowAfter, CaseSound, Fits, Verdicts
  <1> QED BY <1>3, <1>4

\* A line that fits keeps the journal sound.
LEMMA AppendSound ==
  ASSUME DiskSound, NEW l \in GoodLines, Fits(Disk, l), journal' = Append(journal, l)
  PROVE  DiskSound' /\ Disk' = Applied(Disk, l)
  <1>1. Disk' = Applied(Disk, l)
    BY ReplayedAppend DEF Disk, DiskSound
  <1>2. journal' \in Seq(GoodLines)
    BY DEF DiskSound
  <1>3. Replayable(journal)'
    BY ReplayableAppend DEF Disk, DiskSound
  <1>4. Attempted(journal)'
    <2>0. journal \in Seq(Lines) /\ l \in Lines /\ Len(journal)' = Len(journal) + 1
      BY DEF DiskSound, GoodLines
    <2>1. ASSUME NEW c \in Cases, At(journal', Len(journal'), c, {"inflight", "evidence"}) # {}
          PROVE  c \in AttemptsAt(journal', Len(journal')) \cap CheckerCases
      <3>1. AttemptsAt(journal', Len(journal')) = Applied(Disk, l).attempts
        BY <1>1 DEF Disk, Replayed
      <3>2. Disk.attempts \subseteq Applied(Disk, l).attempts
        BY DEF Applied
      <3>3. CASE At(journal, Len(journal), c, {"inflight", "evidence"}) # {}
        BY <3>1, <3>2, <3>3 DEF DiskSound, Attempted, Disk, Replayed
      <3>4. CASE l.case = c /\ l.ev \in {"inflight", "evidence"}
        BY <3>1, <3>2, <3>4 DEF DiskSound, CaseSound, Fits
      <3> QED BY <2>0, <2>1, <3>3, <3>4, AtAppend
    <2> QED BY <2>1 DEF Attempted
  <1> QED BY <1>1, <1>2, <1>3, <1>4, AppliedSound DEF DiskSound

-----------------------------------------------------------------------------
(* Steps.                                                                  *)

USE DEF Case

\* A step of owner r writes nothing, or one line of its case that fits.
Writes(r) ==
  \/ journal' = journal
  \/ \E l \in GoodLines :
       /\ l.case = Case(r) /\ Fits(Disk, l)
       /\ own[r] \in Past \/ l.ev = "attempt"
       /\ journal' = Append(journal, l)

\* Nothing rests on more of the journal than what a restart rebuilds from it.
LEMMA SameDisk ==
  ASSUME DiskSound, journal' = journal
  PROVE  DiskSound' /\ Disk' = Disk
  BY DEF DiskSound, Disk, Replayable, Attempted, Replayed, LineReplays, CaseSound

\* What one owner writes keeps the journal sound.
LEMMA WritesSound ==
  ASSUME IInv, NEW r \in Requests, Writes(r)
  PROVE  DiskSound'
  BY SameDisk, AppendSound DEF IInv, Writes

\* What one owner writes leaves alone what another one knows of its case.
LEMMA OtherOwner ==
  ASSUME IInv, NEW r \in Requests, Writes(r), NEW s \in Requests, s # r,
         own'[s] = own[s], req'[s] = req[s], resp'[s] = resp[s],
         phase' = phase,
         own[s] = "inflight" => launches'[Case(s)] = launches[Case(s)],
         lock = s => lock' = s,
         own[s] = "reserved" => mem'.rows[Case(s)] = mem.rows[Case(s)]
  PROVE  OwnerSound(s)'
  <1>1. CASE journal' = journal
    BY <1>1, SameDisk DEF IInv, OwnerSound
  <1>2. ASSUME NEW l \in GoodLines, l.case = Case(r), Fits(Disk, l),
               own[r] \in Past \/ l.ev = "attempt", journal' = Append(journal, l)
        PROVE  OwnerSound(s)'
    <2>1. Disk' = Applied(Disk, l) /\ Disk \in DiskTypes /\ l.ev \in Events /\ l.case \in Cases
      BY <1>2, AppendSound DEF IInv, DiskSound, GoodLines, Lines
    <2>2. own[s] \in Past => l.ev = "attempt" \/ l.case # Case(s)
      BY <1>2 DEF IInv, OneOwner
    <2>3. OwnerSound(s)
      BY DEF IInv
    <2>4. Case(s) \in Cases => CaseSound(Disk, Case(s))
      BY DEF IInv, DiskSound
    <2> QED BY <1>2, <2>1, <2>2, <2>3, <2>4
            DEF OwnerSound, Applied, Fits, DiskTypes, Past, Events, RowAfter, CaseSound, Verdicts
  <1> QED BY <1>1, <1>2 DEF Writes

\* What one owner writes leaves every answer that was given true.
LEMMA AnswerKept ==
  ASSUME IInv, NEW r \in Requests, Writes(r), NEW s \in Requests,
         req'[s].answer = req[s].answer, req'[s].exact = req[s].exact,
         req'[s].case = req[s].case, req[s].pc # "idle" => req'[s].pc # "idle"
  PROVE  AnswerSound(s)'
  <1>1. CASE journal' = journal
    BY <1>1, SameDisk DEF IInv, AnswerSound
  <1>2. ASSUME NEW l \in GoodLines, l.case = Case(r), Fits(Disk, l),
               journal' = Append(journal, l)
        PROVE  AnswerSound(s)'
    <2>1. Disk' = Applied(Disk, l) /\ Disk \in DiskTypes /\ l.ev \in Events /\ l.case \in Cases
      BY <1>2, AppendSound DEF IInv, DiskSound, GoodLines, Lines
    <2>2. AnswerSound(s)
      BY DEF IInv
    <2>3. req[s].answer # "none" => Case(s) \in Cases
      BY <2>2 DEF IInv, AnswerSound, OwnerSound
    <2>4. Case(s) \in Cases => CaseSound(Disk, Case(s))
      BY DEF IInv, DiskSound
    <2> QED BY <1>2, <2>1, <2>2, <2>3, <2>4
            DEF AnswerSound, Applied, Fits, DiskTypes, Events, RowAfter, CaseSound, Verdicts
  <1> QED BY <1>1, <1>2 DEF Writes

\* What one owner writes leaves alone what is known of the launches.
LEMMA LaunchKept ==
  ASSUME IInv, NEW r \in Requests, Writes(r), launches' = launches
  PROVE  LaunchSound'
  <1>1. Disk.seen \subseteq Disk'.seen
    <2>1. CASE journal' = journal
      BY <2>1, SameDisk DEF IInv
    <2>2. ASSUME NEW l \in GoodLines, l.case = Case(r), Fits(Disk, l),
                 journal' = Append(journal, l)
          PROVE  Disk.seen \subseteq Disk'.seen
      <3>1. Disk' = Applied(Disk, l)
        BY <2>2, AppendSound DEF IInv
      <3> QED BY <3>1 DEF Applied
    <2> QED BY <2>1, <2>2 DEF Writes
  <1> QED BY <1>1 DEF IInv, LaunchSound

\* A step that moves owner r alone, and not into the stages past a reservation
\* from outside, leaves one owner per case.
LEMMA OneOwnerKept ==
  ASSUME IInv, NEW r \in Requests, NEW pc, own' = [own EXCEPT ![r] = pc],
         pc \in Past => own[r] \in Past,
         \A s \in Requests : own[s] # "none" => Case(s)' = Case(s)
  PROVE  OneOwner'
  <1>1. \A s \in Requests : own'[s] \in Past => own[s] \in Past
    BY DEF IInv, TypeOK
  <1>2. \A s \in Requests : own[s] \in Past => Case(s)' = Case(s)
    BY DEF Past
  <1> QED BY <1>1, <1>2 DEF IInv, OneOwner

\* The service starts with an empty journal.
LEMMA InitIInv == Init => IInv
  <1> SUFFICES ASSUME Init PROVE IInv
    OBVIOUS
  <1>1. journal = <<>> /\ Len(journal) = 0 /\ \A c, evs : At(journal, 0, c, evs) = {}
    BY DEF Init, At
  <1>2. /\ Disk.rows = [c \in Cases |-> "none"] /\ Disk.evidence = [c \in Cases |-> "none"]
        /\ Disk.seen = {} /\ Disk.exhausted = {} /\ Disk.attempts = {}
    BY <1>1 DEF Disk, Replayed, RowAt, EvidenceAt, AttemptsAt
  <1>3. Disk \in DiskTypes
    BY <1>2 DEF Disk, Replayed, DiskTypes
  <1>4. mem = Disk
    BY <1>1 DEF Init, Disk
  <1>5. DiskSound
    BY <1>1, <1>2, <1>3 DEF DiskSound, CaseSound, Replayable, Attempted, Verdicts
  <1>6. TypeOK
    <2>1. mem \in [rows : [Cases -> {"none", "active", "inflight", "consumed"}],
                   evidence : [Cases -> Verdicts \cup {"none"}],
                   seen : SUBSET Cases, exhausted : SUBSET Cases,
                   attempts : SUBSET Cases]
      BY <1>3, <1>4 DEF DiskTypes
    <2>2. journal \in Seq([ev : {"attempt"} \cup DOMAIN RowAfter, case : Cases,
                           verdict : Verdicts \cup {"none"}])
      BY <1>1
    <2> QED BY <2>1, <2>2 DEF Init, TypeOK, Answered
  <1>7. \A r \in Requests : OwnerSound(r) /\ AnswerSound(r)
    BY DEF Init, OwnerSound, AnswerSound, Past, Verdicts
  <1>8. OneOwner /\ LockedWorks /\ MemSound /\ LaunchSound /\ AbandonedIsPoisoned /\ RefusedClean
    BY <1>2, <1>4 DEF Init, OneOwner, LockedWorks, MemSound, LaunchSound, AbandonedIsPoisoned,
                      RefusedClean, Past
  <1> QED BY <1>5, <1>6, <1>7, <1>8 DEF IInv

\* The types of a step that leaves the store alone.
LEMMA StoreUnchanged ==
  ASSUME IInv, NEW r \in Requests, UNCHANGED store
  PROVE  Writes(r) /\ Disk' = Disk /\ DiskSound' /\ mem' = mem /\ journal' = journal
  BY SameDisk DEF IInv, store, Writes

\* A submission arrives.
LEMMA ArriveIInv ==
  ASSUME IInv, NEW r \in Requests, NEW c \in Cases, NEW x \in BOOLEAN, Arrive(r, c, x)
  PROVE  IInv'
  <1>1. Writes(r) /\ Disk' = Disk /\ DiskSound' /\ mem' = mem /\ journal' = journal
    BY StoreUnchanged DEF Arrive
  <1>2. own[r] = "none"
    BY DEF IInv, OwnerSound, Arrive
  <1>3. TypeOK'
    BY DEF IInv, TypeOK, Arrive, store, Answered
  <1>4. \A s \in Requests : OwnerSound(s)'
    <2>1. OwnerSound(r)'
      BY <1>2 DEF IInv, TypeOK, Arrive, OwnerSound, Past
    <2>2. ASSUME NEW s \in Requests, s # r PROVE OwnerSound(s)'
      BY <1>1, <2>2, OtherOwner DEF Arrive, IInv, TypeOK
    <2> QED BY <2>1, <2>2
  <1>5. \A s \in Requests : AnswerSound(s)'
    <2>1. AnswerSound(r)'
      BY DEF IInv, TypeOK, Arrive, AnswerSound, Verdicts
    <2>2. ASSUME NEW s \in Requests, s # r PROVE AnswerSound(s)'
      BY <1>1, <2>2, AnswerKept DEF Arrive, IInv, TypeOK
    <2> QED BY <2>1, <2>2
  <1>6. OneOwner'
    BY <1>2 DEF IInv, OneOwner, TypeOK, Arrive, Past
  <1>7. LockedWorks' /\ MemSound' /\ LaunchSound'
    BY <1>1 DEF IInv, LockedWorks, MemSound, LaunchSound, Arrive, store
  <1>8. AbandonedIsPoisoned'
    BY <1>1, <1>2 DEF IInv, TypeOK, AbandonedIsPoisoned, Arrive
  <1>9. RefusedClean'
    BY DEF IInv, RefusedClean, Arrive
  <1> QED BY <1>1, <1>3, <1>4, <1>5, <1>6, <1>7, <1>8, <1>9 DEF IInv

\* A request future moves on, and may spawn its owner or be answered.
LEMMA RequestIInv ==
  ASSUME IInv, NEW r \in Requests, phase = "up", req[r].pc # "idle",
         UNCHANGED <<store, phase, gate, lock, authorized, resp, leaf, launches, kills>>,
         NEW pc \in {"missed", "waiting", "answered", "gone"},
         NEW a \in Answered \cup {"none"},
         req' = [req EXCEPT ![r].pc = pc, ![r].answer = a],
         pc = "missed" => own[r] = "none",
         \/ own' = own
         \/ own[r] = "none" /\ own' = [own EXCEPT ![r] = "spawned"] /\ req[r].exact /\ pc = "waiting",
         poisoned' \in BOOLEAN, poisoned => poisoned',
         a \in Verdicts => req[r].exact /\ Disk.rows[Case(r)] = "consumed"
                           /\ Disk.evidence[Case(r)] = a,
         a = "retryable" => Disk.rows[Case(r)] = "active" /\ Case(r) \in Disk.seen
  PROVE  IInv'
  <1>1. Writes(r) /\ Disk' = Disk /\ DiskSound' /\ mem' = mem /\ journal' = journal
    BY StoreUnchanged
  <1>2. /\ req'[r].pc = pc /\ req'[r].answer = a
        /\ req'[r].case = req[r].case /\ req'[r].exact = req[r].exact
        /\ \A s \in Requests \ {r} : req'[s] = req[s] /\ own'[s] = own[s]
        /\ \A s \in Requests : req'[s].case = req[s].case
    BY DEF IInv, TypeOK
  <1>3. TypeOK'
    <2>1. req' \in [Requests ->
            [pc : {"idle", "arrived", "missed", "waiting", "answered", "gone"},
             case : Cases \cup {NoOne}, exact : BOOLEAN, answer : Answered \cup {"none"}]]
      <3> DEFINE R == [pc : {"idle", "arrived", "missed", "waiting", "answered", "gone"},
                       case : Cases \cup {NoOne}, exact : BOOLEAN, answer : Answered \cup {"none"}]
      <3>1. req \in [Requests -> R]
        BY DEF IInv, TypeOK
      <3> DEFINE q == [req[r] EXCEPT !.pc = pc, !.answer = a]
      <3>2. q \in R
        BY <3>1
      <3>3. req' = [req EXCEPT ![r] = q]
        BY <3>1
      <3> HIDE DEF R, q
      <3>4. req' \in [Requests -> R]
        BY <3>1, <3>2, <3>3
      <3> QED BY <3>4 DEF R
    <2>2. own' \in [Requests -> {"none", "spawned", "checked", "gated", "reserved",
                                 "begun", "inflight", "running", "reported",
                                 "evidenced", "done"}]
      <3> DEFINE O == {"none", "spawned", "checked", "gated", "reserved",
                       "begun", "inflight", "running", "reported", "evidenced", "done"}
      <3>1. own \in [Requests -> O]
        BY DEF IInv, TypeOK
      <3>2. "spawned" \in O
        OBVIOUS
      <3> HIDE DEF O
      <3>3. own' \in [Requests -> O]
        BY <3>1, <3>2
      <3> QED BY <3>3 DEF O
    <2> QED BY <2>1, <2>2 DEF IInv, TypeOK, store
  <1>4. \A s \in Requests : OwnerSound(s)'
    <2>1. OwnerSound(r)'
      BY <1>1, <1>2 DEF IInv, TypeOK, OwnerSound, Past, store
    <2>2. ASSUME NEW s \in Requests, s # r PROVE OwnerSound(s)'
      BY <1>1, <1>2, <2>2, OtherOwner
    <2> QED BY <2>1, <2>2
  <1>5. \A s \in Requests : AnswerSound(s)'
    <2>1. AnswerSound(r)'
      BY <1>1, <1>2 DEF AnswerSound
    <2>2. ASSUME NEW s \in Requests, s # r PROVE AnswerSound(s)'
      <3>1. req'[s] = req[s]
        BY <1>2, <2>2
      <3> QED BY <1>1, <3>1, AnswerKept
    <2> QED BY <2>1, <2>2
  <1>6. OneOwner'
    <2>1. \A s \in Requests : own'[s] \in Past => own[s] \in Past
      BY DEF IInv, TypeOK, Past
    <2> QED BY <1>2, <2>1 DEF IInv, OneOwner
  <1>7. LockedWorks' /\ MemSound' /\ LaunchSound'
    BY <1>1 DEF IInv, LockedWorks, MemSound, LaunchSound, store
  <1>8. AbandonedIsPoisoned'
    <2>1. \A s \in Requests : own[s] # "none" => own'[s] = own[s]
      BY DEF IInv, TypeOK
    <2>2. \A s \in Requests :
             own[s] \in {"inflight", "running", "reported", "evidenced"} => own'[s] = own[s]
      BY <2>1
    <2>3. ASSUME NEW c \in Cases, mem.rows[c] = "inflight", ~poisoned
          PROVE  \E s \in Requests : /\ req'[s].case = c
                                     /\ own'[s] \in {"inflight", "running", "reported", "evidenced"}
      <3>1. PICK s \in Requests :
                   /\ Case(s) = c
                   /\ own[s] \in {"inflight", "running", "reported", "evidenced"}
        BY <2>3 DEF IInv, AbandonedIsPoisoned
      <3>2. own'[s] = own[s] /\ req'[s].case = c
        BY <1>2, <2>2, <3>1
      <3> QED BY <3>1, <3>2
    <2> QED BY <1>1, <2>3 DEF AbandonedIsPoisoned
  <1>9. RefusedClean'
    BY DEF IInv, RefusedClean
  <1> QED BY <1>1, <1>3, <1>4, <1>5, <1>6, <1>7, <1>8, <1>9 DEF IInv

\* A request is answered from memory, checked against it, told what its owner
\* reported, or given up.
LEMMA RequestStepIInv ==
  ASSUME IInv, NEW r \in Requests, RequestStep(r) \/ Deadline(r) \/ HangUp(r)
  PROVE  IInv'
  <1>0. /\ OwnerSound(r) /\ AnswerSound(r)
        /\ req[r].answer \in Answered \cup {"none"} /\ resp[r] \in Answered \cup {"none"}
        /\ req[r] \in [pc : {"idle", "arrived", "missed", "waiting", "answered", "gone"},
                       case : Cases \cup {NoOne}, exact : BOOLEAN, answer : Answered \cup {"none"}]
        /\ poisoned \in BOOLEAN
    BY DEF IInv, TypeOK
  <1>00. ASSUME NEW pc PROVE [req EXCEPT ![r].pc = pc] = [req EXCEPT ![r].pc = pc, ![r].answer = @]
    BY <1>0 DEF IInv, TypeOK
  <1>1. CASE Redeliver(r)
    <2>1. CASE req[r].exact /\ mem.rows[Case(r)] = "consumed"
      <3>1. Case(r) \in Cases
        BY <1>0, <1>1 DEF Redeliver, OwnerSound
      <3>2. Disk.rows[Case(r)] = "consumed" /\ Disk.evidence[Case(r)] = mem.evidence[Case(r)]
        BY <1>1, <2>1, <3>1 DEF Redeliver, IInv, MemSound
      <3>3. mem.evidence[Case(r)] \in Verdicts
        BY <3>1, <3>2 DEF IInv, DiskSound, CaseSound
      <3> QED BY <1>1, <2>1, <3>2, <3>3, <1>0, RequestIInv DEF Redeliver, Answers, Verdicts, Answered
    <2>2. CASE ~(req[r].exact /\ mem.rows[Case(r)] = "consumed")
      <3>1. own[r] = "none"
        BY <1>0, <1>1 DEF Redeliver, OwnerSound
      <3>2. req' = [req EXCEPT ![r].pc = "missed", ![r].answer = req[r].answer]
        BY <1>00, <1>1, <2>2 DEF Redeliver
      <3> QED BY <1>1, <3>1, <3>2, <1>0, RequestIInv DEF Redeliver, AnswerSound
    <2> QED BY <2>1, <2>2
  <1>2. CASE StateCheck(r)
    <2>1. own[r] = "none" /\ Case(r) \in Cases
      BY <1>0, <1>2 DEF StateCheck, OwnerSound
    <2>2. CASE req' = [req EXCEPT ![r].pc = "waiting"] /\ Goes(r, "spawned") /\ req[r].exact
      <3>1. req' = [req EXCEPT ![r].pc = "waiting", ![r].answer = req[r].answer]
        BY <1>00, <2>2
      <3> QED BY <1>2, <2>1, <2>2, <3>1, <1>0, RequestIInv DEF StateCheck, AnswerSound, Goes
    <2>3. ASSUME NEW a \in {"poisoned", "busy", "exhausted", "stranger"}, Answers(r, a), own' = own
          PROVE  IInv'
      BY <1>2, <2>1, <2>3, <1>0, RequestIInv DEF StateCheck, AnswerSound, Answers, Verdicts, Answered
    <2> QED BY <1>2, <2>2, <2>3 DEF StateCheck
  <1>3. CASE Respond(r)
    BY <1>3, <1>0, RequestIInv DEF Respond, OwnerSound, Answers
  <1>4. CASE Deadline(r)
    BY <1>4, <1>0, RequestIInv DEF Deadline, Answers, Verdicts, Answered
  <1>5. CASE HangUp(r)
    <2>1. req' = [req EXCEPT ![r].pc = "gone", ![r].answer = req[r].answer]
      BY <1>00, <1>5 DEF HangUp
    <2> QED BY <1>5, <2>1, <1>0, RequestIInv DEF HangUp, AnswerSound
  <1> QED BY <1>1, <1>2, <1>3, <1>4, <1>5 DEF RequestStep

Stages == {"spawned", "checked", "gated", "reserved", "begun", "inflight", "running",
           "reported", "evidenced", "done"}

\* An owner's step keeps the invariant if it keeps the owner's own part of it and
\* what the process holds in common.
LEMMA OwnerIInv ==
  ASSUME IInv, NEW r \in Requests, phase = "up", Writes(r),
         UNCHANGED <<phase, req, kills>>,
         NEW pc \in Stages, own' = [own EXCEPT ![r] = pc],
         NEW a \in Answered \cup {"none"}, resp' = [resp EXCEPT ![r] = a],
         mem' \in DiskTypes, broken' \in BOOLEAN, poisoned' \in BOOLEAN, faults' \in Nat,
         gate' \in Requests \cup {NoOne}, lock' \in Requests \cup {NoOne},
         authorized' \subseteq Cases, leaf' \subseteq Cases, launches' \in [Cases -> Nat],
         \A s \in Requests \ {r} :
            /\ lock = s => lock' = s
            /\ own[s] = "reserved" => mem'.rows[Case(s)] = mem.rows[Case(s)]
            /\ own[s] = "inflight" => launches'[Case(s)] = launches[Case(s)],
         OwnerSound(r)', OneOwner', LockedWorks', MemSound', LaunchSound', AbandonedIsPoisoned'
  PROVE  IInv'
  <1>1. DiskSound'
    BY WritesSound
  <1>2. TypeOK'
    <2>1. journal' \in Seq([ev : {"attempt"} \cup DOMAIN RowAfter, case : Cases,
                            verdict : Verdicts \cup {"none"}])
      <3>1. journal' \in Seq(GoodLines)
        BY <1>1 DEF DiskSound
      <3>2. journal' \in Seq(Lines)
        BY <3>1 DEF GoodLines
      <3> QED BY <3>2 DEF Lines, Events
    <2>2. /\ own' \in [Requests -> {"none", "spawned", "checked", "gated", "reserved",
                                    "begun", "inflight", "running", "reported",
                                    "evidenced", "done"}]
          /\ resp' \in [Requests -> Answered \cup {"none"}]
      BY DEF IInv, TypeOK, Stages
    <2> QED BY <2>1, <2>2 DEF IInv, TypeOK, DiskTypes
  <1>3. ASSUME NEW s \in Requests PROVE OwnerSound(s)'
    <2>1. CASE s # r
      <3>1. own'[s] = own[s] /\ resp'[s] = resp[s] /\ req'[s] = req[s]
        BY <2>1 DEF IInv, TypeOK
      <3> QED BY <2>1, <3>1, OtherOwner
    <2> QED BY <2>1
  <1>4. ASSUME NEW s \in Requests PROVE AnswerSound(s)'
    BY AnswerKept
  <1>5. RefusedClean'
    BY DEF RefusedClean
  <1> QED BY <1>1, <1>2, <1>3, <1>4, <1>5 DEF IInv

\* The cases in memory's flight keep their owner when r moves within its flight or
\* did not fly.
LEMMA AbandonedKept ==
  ASSUME IInv, NEW r \in Requests, phase = "up", UNCHANGED <<phase, req>>,
         NEW pc, own' = [own EXCEPT ![r] = pc],
         \A c \in Cases : mem'.rows[c] = "inflight" => mem.rows[c] = "inflight",
         poisoned => poisoned',
         \/ poisoned'
         \/ mem'.rows[Case(r)] # "inflight"
         \/ own[r] \notin {"inflight", "running", "reported", "evidenced"}
         \/ pc \in {"inflight", "running", "reported", "evidenced"}
  PROVE  AbandonedIsPoisoned'
  <1> DEFINE Flying == {"inflight", "running", "reported", "evidenced"}
  <1>1. ASSUME NEW c \in Cases, mem'.rows[c] = "inflight", ~poisoned'
        PROVE  \E s \in Requests : req'[s].case = c /\ own'[s] \in Flying
    <2>1. PICK s \in Requests : Case(s) = c /\ own[s] \in Flying
      BY <1>1 DEF IInv, AbandonedIsPoisoned
    <2>2. req'[s].case = c /\ own'[s] \in Flying
      BY <1>1, <2>1 DEF IInv, TypeOK
    <2> QED BY <2>2
  <1> QED BY <1>1 DEF AbandonedIsPoisoned

\* An owner whose append fails returns "unknown" and poisons the service; the
\* line may have stayed on disk.
LEMMA FailIInv ==
  ASSUME IInv, NEW r \in Requests, phase = "up", own[r] # "none", lock \in {NoOne, r},
         NEW l \in GoodLines, l.case = Case(r), ~broken => Fits(Disk, l),
         own[r] \in Past \/ l.ev = "attempt",
         AppendFails(l), ReturnsUnknown(r),
         \/ mem' = mem
         \/ own[r] \in Past /\ mem' = [mem EXCEPT !.rows[Case(r)] = "active"],
         authorized' \subseteq Cases,
         UNCHANGED <<phase, req, leaf, launches, kills>>
  PROVE  IInv'
  <1>1. Writes(r)
    BY DEF AppendFails, Writes
  <1>2. /\ own' = [own EXCEPT ![r] = "done"] /\ resp' = [resp EXCEPT ![r] = "unknown"]
        /\ poisoned' = TRUE /\ lock' = NoOne /\ gate' \in {gate, NoOne}
        /\ own'[r] = "done" /\ resp'[r] = "unknown" /\ "unknown" \in Answered \cup {"none"}
    BY DEF ReturnsUnknown, Returns, IInv, TypeOK, Answered
  <1>3. /\ Case(r) \in Cases /\ mem \in DiskTypes
        /\ mem' \in DiskTypes
        /\ \A c \in Cases \ {Case(r)} : mem'.rows[c] = mem.rows[c]
        /\ \A c \in Cases : mem'.rows[c] = mem.rows[c] \/ mem'.rows[c] = "active"
        /\ mem'.evidence = mem.evidence
    <2>1. Case(r) \in Cases /\ mem \in DiskTypes
      BY DEF IInv, TypeOK, OwnerSound, DiskTypes
    <2>2. CASE mem' = mem
      BY <2>1, <2>2
    <2>3. CASE mem' = [mem EXCEPT !.rows[Case(r)] = "active"]
      BY <2>1, <2>3 DEF DiskTypes
    <2> QED BY <2>1, <2>2, <2>3
  <1>4. broken' = TRUE /\ faults' \in Nat
    BY DEF AppendFails, IInv, TypeOK
  <1>5. OwnerSound(r)'
    BY <1>2 DEF IInv, OwnerSound, Past, Verdicts
  <1>6. OneOwner'
    BY <1>2, OneOwnerKept DEF Past
  <1>7. LockedWorks'
    BY <1>2 DEF LockedWorks
  <1>8. MemSound'
    <2>1. ASSUME NEW c \in Cases, Disk.rows[c] = "consumed"
          PROVE  Disk'.rows[c] = "consumed" /\ Disk'.evidence[c] = Disk.evidence[c]
      <3>1. CASE journal' = journal
        BY <2>1, <3>1, SameDisk DEF IInv
      <3>2. CASE ~broken /\ journal' = Append(journal, l)
        <4>1. Disk' = Applied(Disk, l) /\ Disk \in DiskTypes /\ l.ev \in Events
          BY <3>2, AppendSound DEF IInv, DiskSound, GoodLines, Lines
        <4> QED BY <2>1, <3>2, <4>1 DEF Applied, Fits, DiskTypes, Events, RowAfter
      <3> QED BY <3>1, <3>2 DEF AppendFails
    <2> QED BY <1>3, <1>4, <2>1 DEF IInv, MemSound
  <1>9. LaunchSound'
    BY <1>1, LaunchKept
  <1>10. AbandonedIsPoisoned'
    BY <1>2 DEF AbandonedIsPoisoned
  <1>11. \A s \in Requests \ {r} : own[s] = "reserved" => mem'.rows[Case(s)] = mem.rows[Case(s)]
    BY <1>3 DEF IInv, OwnerSound, OneOwner, Past
  <1>12. gate' \in Requests \cup {NoOne} /\ leaf' \subseteq Cases /\ launches' \in [Cases -> Nat]
    BY <1>2 DEF IInv, TypeOK
  <1>13. "done" \in Stages
    BY DEF Stages
  <1>14. \A s \in Requests \ {r} : lock # s
    BY GrantAssumption
  <1> QED BY <1>1, <1>2, <1>3, <1>4, <1>5, <1>6, <1>7, <1>8, <1>9, <1>10, <1>11, <1>12,
             <1>13, <1>14, OwnerIInv

\* An owner that leaves the journal alone moves before its reservation, or returns,
\* or moves within its flight.
LEMMA QuietIInv ==
  ASSUME IInv, NEW r \in Requests, phase = "up", own[r] # "none",
         UNCHANGED <<store, phase, req, kills>>,
         NEW pc \in Stages, Goes(r, pc),
         NEW a \in Answered \cup {"none"}, resp' = [resp EXCEPT ![r] = a],
         poisoned' \in BOOLEAN, poisoned => poisoned',
         gate' \in Requests \cup {NoOne}, lock' = lock \/ (lock' = NoOne /\ lock = r),
         authorized' \subseteq Cases, leaf' \subseteq Cases, launches' = launches,
         \/ pc \in {"checked", "gated"}
         \/ pc = "done" /\ a \notin Verdicts \cup {"retryable"}
         \/ pc = "reported" /\ own[r] = "running",
         pc # "done" => lock' = lock,
         \/ poisoned'
         \/ own[r] \notin {"inflight", "running", "reported", "evidenced"}
         \/ pc = "reported"
  PROVE  IInv'
  <1>0. own' = [own EXCEPT ![r] = pc]
    BY DEF Goes
  <1>1. Writes(r) /\ Disk' = Disk /\ DiskSound' /\ mem' = mem /\ journal' = journal
    BY StoreUnchanged
  <1>2. own'[r] = pc /\ resp'[r] = a /\ mem \in DiskTypes
    BY <1>0 DEF IInv, TypeOK, DiskTypes
  <1>3. OwnerSound(r)'
    BY <1>1, <1>2 DEF IInv, OwnerSound, Past, Verdicts
  <1>4. OneOwner'
    BY <1>0, OneOwnerKept DEF Past
  <1>5. LockedWorks'
    BY DEF IInv, LockedWorks, store
  <1>6. MemSound'
    BY <1>1 DEF IInv, MemSound, store
  <1>7. LaunchSound'
    BY <1>1, LaunchKept
  <1>8. AbandonedIsPoisoned'
    BY <1>0, <1>1, AbandonedKept
  <1>9. broken' \in BOOLEAN /\ faults' \in Nat /\ launches' \in [Cases -> Nat]
        /\ lock' \in Requests \cup {NoOne}
    BY DEF IInv, TypeOK, store
  <1> QED BY <1>0, <1>1, <1>2, <1>3, <1>4, <1>5, <1>6, <1>7, <1>8, <1>9, OwnerIInv

\* Memory follows a line that is durable.
LEMMA DurableMem ==
  ASSUME IInv, phase = "up", UNCHANGED phase, NEW l \in GoodLines, Fits(Disk, l), Durable(l)
  PROVE  /\ mem = Disk /\ Disk' = Applied(Disk, l) /\ Disk \in DiskTypes
         /\ Applied(Disk, l) \in DiskTypes
         /\ ~broken /\ broken' = FALSE /\ faults' = faults /\ journal' = Append(journal, l)
         /\ mem' = Applied(Disk, l) => MemSound' /\ mem' \in DiskTypes
         /\ l.ev \in Events /\ l.case \in Cases
  <1>1. ~broken /\ broken' = FALSE /\ faults' = faults /\ journal' = Append(journal, l)
    BY DEF Durable, IInv, TypeOK
  <1>2. mem = Disk /\ Disk \in DiskTypes
    BY <1>1 DEF IInv, MemSound, DiskSound
  <1>3. Disk' = Applied(Disk, l) /\ Applied(Disk, l) \in DiskTypes
    BY <1>1, <1>2, AppendSound, AppliedSound DEF IInv, DiskSound
  <1>4. mem' = Applied(Disk, l) => MemSound' /\ mem' \in DiskTypes
    BY <1>3 DEF MemSound
  <1>5. l.ev \in Events /\ l.case \in Cases
    BY DEF GoodLines, Lines
  <1> QED BY <1>1, <1>2, <1>3, <1>4, <1>5

\* An owner appends a line and memory applies it; then it goes on or returns.
LEMMA DurableIInv ==
  ASSUME IInv, NEW r \in Requests, phase = "up", own[r] # "none", lock \in {NoOne, r},
         NEW l \in GoodLines, l.case = Case(r), Fits(Disk, l), Durable(l),
         own[r] \in Past \/ l.ev = "attempt",
         mem' = Applied(Disk, l),
         NEW pc \in Stages, own' = [own EXCEPT ![r] = pc],
         NEW a \in Answered \cup {"none"}, resp' = [resp EXCEPT ![r] = a],
         UNCHANGED <<phase, req, poisoned, leaf, launches, kills>>,
         authorized' \subseteq Cases,
         gate' \in Requests \cup {NoOne}, lock' \in {NoOne, r},
         OwnerSound(r)', OneOwner', AbandonedIsPoisoned'
  PROVE  IInv'
  <1>1. /\ mem = Disk /\ Disk' = Applied(Disk, l) /\ Disk \in DiskTypes /\ mem' \in DiskTypes
        /\ broken' = FALSE /\ faults' = faults /\ journal' = Append(journal, l) /\ MemSound'
        /\ l.ev \in Events /\ l.case \in Cases
    BY DurableMem
  <1>2. Writes(r)
    BY <1>1 DEF Writes
  <1>3. LockedWorks' /\ LaunchSound'
    BY <1>1, <1>2, LaunchKept DEF LockedWorks
  <1>4. \A s \in Requests \ {r} : own[s] = "reserved" => mem'.rows[Case(s)] = mem.rows[Case(s)]
    <2> SUFFICES ASSUME NEW s \in Requests \ {r}, own[s] = "reserved"
                 PROVE  mem'.rows[Case(s)] = mem.rows[Case(s)]
      OBVIOUS
    <2>1. l.ev = "attempt" \/ Case(s) # l.case
      BY DEF IInv, OneOwner, Past
    <2>2. Case(s) \in Cases
      BY DEF IInv, OwnerSound
    <2> QED BY <1>1, <2>1, <2>2 DEF Applied, DiskTypes
  <1>5. \A s \in Requests \ {r} : lock # s
    BY GrantAssumption
  <1>6. /\ faults' \in Nat /\ poisoned' \in BOOLEAN /\ leaf' \subseteq Cases
        /\ launches' \in [Cases -> Nat]
    BY <1>1 DEF IInv, TypeOK
  <1> QED BY <1>1, <1>2, <1>3, <1>4, <1>5, <1>6, OwnerIInv

\* An owner that returns something other than a verdict or a rollback, leaving
\* the store alone.
LEMMA ReturnIInv ==
  ASSUME IInv, NEW r \in Requests, phase = "up", own[r] # "none",
         UNCHANGED <<store, phase, req, launches, kills>>,
         NEW a \in Answered \ (Verdicts \cup {"retryable"}), Returns(r, a),
         poisoned' \in BOOLEAN, poisoned => poisoned',
         authorized' \subseteq Cases, leaf' \subseteq Cases,
         poisoned' \/ own[r] \notin {"inflight", "running", "reported", "evidenced"}
  PROVE  IInv'
  <1>1. /\ gate' \in Requests \cup {NoOne}
        /\ lock' = lock \/ (lock' = NoOne /\ lock = r)
    BY DEF Returns, IInv, TypeOK
  <1>2. "done" \in Stages
    BY DEF Stages
  <1> QED BY <1>1, <1>2, QuietIInv DEF Returns, Goes

\* The owner's steps before its reservation.
LEMMA BeforeIInv ==
  ASSUME IInv, NEW r \in Requests, CheckPoison(r) \/ TryAcquire(r) \/ ReserveRefused(r)
  PROVE  IInv'
  <1>1. /\ phase = "up" /\ UNCHANGED <<store, phase, req, launches, kills, poisoned, leaf, authorized>>
        /\ own[r] \in {"spawned", "checked", "gated"}
    BY DEF CheckPoison, TryAcquire, ReserveRefused, AtReserve
  <1>2. /\ poisoned' \in BOOLEAN /\ authorized' \subseteq Cases /\ leaf' \subseteq Cases
        /\ gate \in Requests \cup {NoOne} /\ resp[r] \in Answered \cup {"none"}
        /\ resp = [resp EXCEPT ![r] = resp[r]]
    BY <1>1 DEF IInv, TypeOK
  <1>3. ASSUME NEW a \in {"poisoned", "busy", "exhausted"}, Returns(r, a) PROVE IInv'
    BY <1>1, <1>2, <1>3, ReturnIInv DEF Answered, Verdicts
  <1>4. ASSUME NEW pc \in {"checked", "gated"}, Goes(r, pc), UNCHANGED <<resp, lock>>,
               gate' \in {gate, r}
        PROVE  IInv'
    <2>1. /\ pc \in Stages /\ pc # "done" /\ Goes(r, pc)
          /\ resp' = [resp EXCEPT ![r] = resp[r]] /\ lock' = lock
          /\ gate' \in Requests \cup {NoOne} /\ poisoned' = poisoned
      BY <1>1, <1>2, <1>4 DEF Goes, Stages
    <2>2. own[r] # "none" /\ own[r] \notin {"inflight", "running", "reported", "evidenced"}
      BY <1>1
    <2>3. PICK a \in Answered \cup {"none"} : resp' = [resp EXCEPT ![r] = a]
      BY <1>2, <2>1
    <2>4. /\ IInv /\ phase = "up" /\ UNCHANGED <<store, phase, req, kills>>
          /\ launches' = launches /\ authorized' \subseteq Cases /\ leaf' \subseteq Cases
      BY <1>1, <1>2
    <2>5. (poisoned => poisoned') /\ poisoned' \in BOOLEAN
      BY <1>1, <1>2
    <2> QED BY <1>4, <2>1, <2>2, <2>3, <2>4, <2>5, QuietIInv
  <1>5. CASE CheckPoison(r)
    BY <1>3, <1>4, <1>5 DEF CheckPoison
  <1>6. CASE TryAcquire(r)
    BY <1>3, <1>4, <1>6 DEF TryAcquire
  <1>7. CASE ReserveRefused(r)
    BY <1>3, <1>7 DEF ReserveRefused
  <1> QED BY <1>5, <1>6, <1>7

\* The reservation of an attempt.
LEMMA ReserveIInv ==
  ASSUME IInv, NEW r \in Requests, Reserve(r)
  PROVE  IInv'
  <1> DEFINE l == Line("attempt", Case(r), "none")
  <1>1. /\ phase = "up" /\ lock = NoOne /\ own[r] \in {"gated", "checked"}
        /\ UNCHANGED <<phase, authorized, req, leaf, launches, kills>>
        /\ ~Refused(mem.attempts, Case(r))
    BY DEF Reserve, AtReserve
  <1>2. Case(r) \in Cases /\ OwnerSound(r) /\ authorized' \subseteq Cases
        /\ resp[r] \in Answered \cup {"none"} /\ resp = [resp EXCEPT ![r] = resp[r]]
        /\ gate \in Requests \cup {NoOne}
    BY <1>1 DEF IInv, OwnerSound, TypeOK
  <1>3. l \in GoodLines /\ l.case = Case(r) /\ l.ev = "attempt"
    BY <1>2 DEF Line, GoodLines, Lines, Events
  <1>4. ~broken => Fits(Disk, l)
    BY <1>1, <1>3 DEF Fits, IInv, MemSound
  <1> HIDE DEF l
  <1>5. CASE Durable(l) /\ mem' = [mem EXCEPT !.attempts = @ \cup {Case(r)}]
             /\ Goes(r, "reserved") /\ UNCHANGED <<poisoned, resp, gate, lock>>
    <2>1. ~broken /\ Fits(Disk, l)
      BY <1>4, <1>5 DEF Durable
    <2>2. mem = Disk /\ Disk' = Applied(Disk, l) /\ Disk \in DiskTypes
      BY <1>1, <1>5, <2>1, <1>3, DurableMem
    <2>3. mem' = Applied(Disk, l)
      BY <1>3, <1>5, <2>2 DEF Applied, DiskTypes
    <2>4. Case(r) \notin Disk.attempts /\ Disk.rows[Case(r)] = "none"
      BY <1>1, <1>2, <2>2 DEF Refused, IInv, DiskSound, CaseSound
    <2>5. OwnerSound(r)'
      BY <1>1, <1>2, <1>3, <1>5, <2>2, <2>3, <2>4
         DEF OwnerSound, Goes, Past, Applied, IInv, TypeOK
    <2>6. OneOwner'
      <3>1. \A s \in Requests \ {r} : own'[s] = own[s] /\ (own[s] \in Past => Case(s) # Case(r))
        BY <1>5, <2>4 DEF Goes, IInv, TypeOK, OwnerSound
      <3> QED BY <1>1, <3>1 DEF IInv, OneOwner
    <2>7. AbandonedIsPoisoned'
      <3>1. \A c \in Cases : mem'.rows[c] = "inflight" => mem.rows[c] = "inflight"
        BY <1>3, <2>2, <2>3 DEF Applied
      <3> QED BY <1>1, <1>5, <3>1, AbandonedKept DEF Goes
    <2> QED BY <1>1, <1>2, <1>3, <1>5, <2>1, <2>3, <2>5, <2>6, <2>7, DurableIInv DEF Goes, Stages
  <1>6. CASE AppendFails(l) /\ ReturnsUnknown(r) /\ mem' = mem
    BY <1>1, <1>2, <1>3, <1>4, <1>6, FailIInv
  <1> QED BY <1>5, <1>6 DEF Reserve, l

\* The refusal of an empty answer.
LEMMA RefuseIntakeIInv ==
  ASSUME IInv, NEW r \in Requests, RefuseIntake(r)
  PROVE  IInv'
  <1>1. /\ phase = "up" /\ UNCHANGED <<store, phase, req, launches, kills, leaf>>
        /\ own[r] = "reserved" /\ authorized' \subseteq Cases /\ leaf' \subseteq Cases
    BY DEF RefuseIntake, IInv, TypeOK, OwnerSound
  <1>2. CASE ReturnsUnknown(r)
    BY <1>1, <1>2, ReturnIInv DEF ReturnsUnknown, Answered, Verdicts
  <1>3. CASE Returns(r, "intake") /\ UNCHANGED poisoned
    <2>1. poisoned' \in BOOLEAN /\ (poisoned => poisoned')
      BY <1>3 DEF IInv, TypeOK
    <2> QED BY <1>1, <1>3, <2>1, ReturnIInv DEF Answered, Verdicts
  <1> QED BY <1>2, <1>3 DEF RefuseIntake

\* The first line of begin_execution_v3.
LEMMA BootstrapIInv ==
  ASSUME IInv, NEW r \in Requests, Bootstrap(r)
  PROVE  IInv'
  <1> DEFINE l == Line("bootstrap", Case(r), "none")
  <1>1. /\ phase = "up" /\ lock = NoOne /\ own[r] = "reserved" /\ Case(r) \in CheckerCases
        /\ UNCHANGED <<phase, req, leaf, launches, kills>>
    BY DEF Bootstrap
  <1>2. /\ OwnerSound(r) /\ Case(r) \in Cases /\ authorized' \subseteq Cases
        /\ resp[r] \in Answered \cup {"none"} /\ resp = [resp EXCEPT ![r] = resp[r]]
        /\ gate \in Requests \cup {NoOne} /\ leaf' \subseteq Cases /\ own[r] \in Past
    BY <1>1 DEF IInv, TypeOK, OwnerSound, Bootstrap, Past
  <1>3. mem.rows[Case(r)] = "none" /\ Disk.rows[Case(r)] = "none" /\ Case(r) \in Disk.attempts
    BY <1>1, <1>2 DEF OwnerSound
  <1>4. l \in GoodLines /\ l.case = Case(r) /\ l.ev = "bootstrap"
    BY <1>2 DEF Line, GoodLines, Lines, Events, RowAfter
  <1>5. Fits(Disk, l)
    BY <1>1, <1>3, <1>4 DEF Fits
  <1> HIDE DEF l
  <1>6. CASE ReturnsUnknown(r) /\ UNCHANGED store
    BY <1>1, <1>2, <1>6, ReturnIInv DEF ReturnsUnknown, Answered, Verdicts
  <1>7. CASE Durable(l) /\ mem' = [mem EXCEPT !.rows[Case(r)] = "active"]
             /\ Goes(r, "begun") /\ lock' = r /\ UNCHANGED <<poisoned, resp, gate>>
    <2>1. mem = Disk /\ Disk' = Applied(Disk, l) /\ Disk \in DiskTypes
      BY <1>1, <1>5, <1>7, <1>4, DurableMem
    <2>2. mem' = Applied(Disk, l)
      BY <1>4, <1>7, <2>1 DEF Applied, DiskTypes, RowAfter
    <2>3. Case(r) \notin Disk.seen
      BY <1>2, <1>3 DEF IInv, DiskSound, CaseSound
    <2>4. OwnerSound(r)'
      BY <1>1, <1>2, <1>3, <1>4, <1>7, <2>1, <2>2, <2>3
         DEF OwnerSound, Goes, Past, Applied, IInv, TypeOK, DiskTypes, RowAfter
    <2>5. OneOwner'
      BY <1>1, <1>2, <1>7, OneOwnerKept DEF Goes
    <2>6. AbandonedIsPoisoned'
      <3>1. \A c \in Cases : mem'.rows[c] = "inflight" => mem.rows[c] = "inflight"
        BY <1>2, <1>7, <2>1 DEF DiskTypes
      <3> QED BY <1>1, <1>7, <3>1, AbandonedKept DEF Goes
    <2> QED BY <1>1, <1>2, <1>4, <1>5, <1>7, <2>2, <2>4, <2>5, <2>6, DurableIInv DEF Goes, Stages
  <1>8. CASE AppendFails(l) /\ ReturnsUnknown(r) /\ mem' = [mem EXCEPT !.rows[Case(r)] = "active"]
    BY <1>1, <1>2, <1>4, <1>5, <1>8, FailIInv
  <1> QED BY <1>3, <1>6, <1>7, <1>8 DEF Bootstrap, l

\* The second line of begin_execution_v3.
LEMMA BeginFlightIInv ==
  ASSUME IInv, NEW r \in Requests, BeginFlight(r)
  PROVE  IInv'
  <1> DEFINE l == Line("inflight", Case(r), "none")
  <1>1. /\ phase = "up" /\ lock = r /\ own[r] = "begun"
        /\ UNCHANGED <<phase, authorized, req, leaf, launches, kills>>
    BY DEF BeginFlight
  <1>2. /\ OwnerSound(r) /\ Case(r) \in Cases /\ authorized' \subseteq Cases
        /\ resp[r] \in Answered \cup {"none"} /\ resp = [resp EXCEPT ![r] = resp[r]]
        /\ gate \in Requests \cup {NoOne} /\ own[r] \in Past
    BY <1>1 DEF IInv, TypeOK, OwnerSound, Past
  <1>3. Disk.rows[Case(r)] = "active" /\ Case(r) \notin Disk.seen /\ Disk.evidence[Case(r)] = "none"
    BY <1>1, <1>2 DEF OwnerSound, IInv, DiskSound, CaseSound
  <1>4. l \in GoodLines /\ l.case = Case(r) /\ l.ev = "inflight"
    BY <1>2 DEF Line, GoodLines, Lines, Events, RowAfter
  <1>5. Fits(Disk, l)
    BY <1>3, <1>4 DEF Fits
  <1> HIDE DEF l
  <1>6. CASE Durable(l) /\ mem' = [mem EXCEPT !.rows[Case(r)] = "inflight",
                                              !.seen = @ \cup {Case(r)}]
             /\ Goes(r, "inflight") /\ lock' = NoOne /\ UNCHANGED <<poisoned, resp, gate>>
    <2>1. mem = Disk /\ Disk' = Applied(Disk, l) /\ Disk \in DiskTypes
      BY <1>1, <1>5, <1>6, <1>4, DurableMem
    <2>2. mem' = Applied(Disk, l)
      <3>1. RowAfter[l.ev] = "inflight"
        BY <1>4 DEF RowAfter
      <3>2. Applied(Disk, l) = [rows |-> [Disk.rows EXCEPT ![Case(r)] = "inflight"],
                                evidence |-> Disk.evidence, seen |-> Disk.seen \cup {Case(r)},
                                exhausted |-> Disk.exhausted, attempts |-> Disk.attempts]
        BY <1>4, <3>1 DEF Applied
      <3>3. mem' = [rows |-> [Disk.rows EXCEPT ![Case(r)] = "inflight"],
                    evidence |-> Disk.evidence, seen |-> Disk.seen \cup {Case(r)},
                    exhausted |-> Disk.exhausted, attempts |-> Disk.attempts]
        BY <1>6, <2>1 DEF DiskTypes
      <3> QED BY <3>2, <3>3
    <2>3. launches'[Case(r)] = 0
      BY <1>1, <1>2, <1>3 DEF IInv, LaunchSound
    <2>4. OwnerSound(r)'
      BY <1>1, <1>2, <1>3, <1>4, <1>6, <2>1, <2>3
         DEF OwnerSound, Goes, Past, Applied, IInv, TypeOK, DiskTypes, RowAfter
    <2>5. OneOwner'
      BY <1>1, <1>2, <1>6, OneOwnerKept DEF Goes
    <2>6. AbandonedIsPoisoned'
      <3>1. own'[r] = "inflight" /\ req'[r].case = Case(r)
            /\ \A s \in Requests \ {r} : own'[s] = own[s] /\ req'[s] = req[s]
        BY <1>1, <1>6 DEF Goes, IInv, TypeOK
      <3>2. \A c \in Cases \ {Case(r)} : mem'.rows[c] = mem.rows[c]
        BY <1>6, <2>1 DEF DiskTypes
      <3>3. ASSUME NEW c \in Cases, mem'.rows[c] = "inflight", ~poisoned'
            PROVE  \E s \in Requests : /\ req'[s].case = c
                                       /\ own'[s] \in {"inflight", "running", "reported", "evidenced"}
        <4>1. CASE c = Case(r)
          BY <3>1, <4>1
        <4>2. CASE c # Case(r)
          <5>1. PICK s \in Requests :
                       /\ Case(s) = c
                       /\ own[s] \in {"inflight", "running", "reported", "evidenced"}
            BY <1>1, <1>6, <3>2, <3>3, <4>2 DEF IInv, AbandonedIsPoisoned
          <5> QED BY <3>1, <4>2, <5>1
        <4> QED BY <4>1, <4>2
      <3> QED BY <3>3 DEF AbandonedIsPoisoned
    <2> QED BY <1>1, <1>2, <1>4, <1>5, <1>6, <2>2, <2>4, <2>5, <2>6, DurableIInv DEF Goes, Stages
  <1>7. CASE AppendFails(l) /\ ReturnsUnknown(r) /\ mem' = mem
    BY <1>1, <1>2, <1>4, <1>5, <1>7, FailIInv
  <1> QED BY <1>6, <1>7 DEF BeginFlight, l

\* The launcher is asked to run the case.
LEMMA LaunchIInv ==
  ASSUME IInv, NEW r \in Requests, Launch(r)
  PROVE  IInv'
  <1>1. /\ phase = "up" /\ own[r] = "inflight" /\ own' = [own EXCEPT ![r] = "running"]
        /\ UNCHANGED <<store, phase, poisoned, gate, lock, authorized, req, resp, kills>>
    BY DEF Launch, Goes
  <1>2. /\ Writes(r) /\ Disk' = Disk /\ mem' = mem /\ OwnerSound(r) /\ Case(r) \in Cases
        /\ resp[r] \in Answered \cup {"none"} /\ resp' = [resp EXCEPT ![r] = resp[r]]
        /\ mem \in DiskTypes /\ own'[r] = "running"
    BY <1>1, StoreUnchanged DEF IInv, OwnerSound, TypeOK, DiskTypes
  <1>3. /\ launches' \in [Cases -> Nat] /\ launches'[Case(r)] = 1
        /\ \A c \in Cases \ {Case(r)} : launches'[c] = launches[c]
    BY <1>1, <1>2 DEF Launch, IInv, TypeOK, OwnerSound
  <1>4. /\ mem' \in DiskTypes /\ broken' \in BOOLEAN /\ poisoned' \in BOOLEAN /\ faults' \in Nat
        /\ gate' \in Requests \cup {NoOne} /\ lock' \in Requests \cup {NoOne}
        /\ authorized' \subseteq Cases /\ leaf' \subseteq Cases
    BY <1>1, <1>2 DEF Launch, IInv, TypeOK, store
  <1>5. OwnerSound(r)'
    BY <1>1, <1>2 DEF OwnerSound, Past, IInv, TypeOK
  <1>6. OneOwner' /\ AbandonedIsPoisoned'
    BY <1>1, <1>2, OneOwnerKept, AbandonedKept DEF Past
  <1>7. LockedWorks' /\ MemSound'
    BY <1>1, <1>2 DEF IInv, LockedWorks, MemSound, store
  <1>8. LaunchSound'
    <2>1. Case(r) \in Disk.seen
      BY <1>1, <1>2 DEF OwnerSound, IInv, DiskSound, CaseSound
    <2> QED BY <1>2, <1>3, <2>1 DEF IInv, LaunchSound
  <1>9. \A s \in Requests \ {r} : own[s] = "inflight" => launches'[Case(s)] = launches[Case(s)]
    BY <1>1, <1>3 DEF IInv, OneOwner, OwnerSound, Past
  <1>10. "running" \in Stages
    BY DEF Stages
  <1> QED BY <1>1, <1>2, <1>3, <1>4, <1>5, <1>6, <1>7, <1>8, <1>9, <1>10, OwnerIInv

\* The launcher answers.
LEMMA ReportIInv ==
  ASSUME IInv, NEW r \in Requests, NEW outcome \in Outcomes, Report(r, outcome)
  PROVE  IInv'
  <1>1. /\ phase = "up" /\ own[r] = "running" /\ leaf' \subseteq Cases /\ authorized' \subseteq Cases
        /\ UNCHANGED <<store, phase, authorized, req, launches, kills>>
    BY DEF Report, IInv, TypeOK
  <1>2. CASE ReturnsUnknown(r)
    BY <1>1, <1>2, ReturnIInv DEF ReturnsUnknown, Answered, Verdicts
  <1>3. CASE outcome # "ambiguous" /\ Goes(r, "reported") /\ resp' = [resp EXCEPT ![r] = outcome]
             /\ UNCHANGED <<poisoned, gate, lock>>
    <2>1. outcome \in Answered \cup {"none"} /\ "reported" \in Stages
      BY <1>3 DEF Outcomes, Answered, Stages
    <2>2. /\ poisoned' \in BOOLEAN /\ (poisoned => poisoned') /\ gate' \in Requests \cup {NoOne}
          /\ lock' = lock
      BY <1>3 DEF IInv, TypeOK
    <2> QED BY <1>1, <1>3, <2>1, <2>2, QuietIInv
  <1> QED BY <1>2, <1>3 DEF Report

\* A retryable outcome is rolled back.
LEMMA RollbackIInv ==
  ASSUME IInv, NEW r \in Requests, Rollback(r)
  PROVE  IInv'
  <1> DEFINE l == Line("rollback", Case(r), "none")
  <1>1. /\ phase = "up" /\ lock = NoOne /\ own[r] = "reported"
        /\ UNCHANGED <<phase, authorized, req, leaf, launches, kills>>
    BY DEF Rollback
  <1>2. /\ OwnerSound(r) /\ Case(r) \in Cases /\ authorized' \subseteq Cases /\ own[r] \in Past
        /\ gate \in Requests \cup {NoOne}
    BY <1>1 DEF IInv, TypeOK, OwnerSound, Past
  <1>3. /\ Disk.rows[Case(r)] = "inflight" /\ Case(r) \in Disk.seen
        /\ Disk.evidence[Case(r)] = "none"
    BY <1>1, <1>2 DEF OwnerSound, IInv, DiskSound, CaseSound
  <1>4. l \in GoodLines /\ l.case = Case(r) /\ l.ev = "rollback"
    BY <1>2 DEF Line, GoodLines, Lines, Events, RowAfter
  <1>5. Fits(Disk, l)
    BY <1>3, <1>4 DEF Fits
  <1> HIDE DEF l
  <1>6. CASE Durable(l) /\ mem' = [mem EXCEPT !.rows[Case(r)] = "active"]
             /\ Returns(r, "retryable") /\ UNCHANGED poisoned
    <2>1. mem = Disk /\ Disk' = Applied(Disk, l) /\ Disk \in DiskTypes
      BY <1>1, <1>5, <1>6, <1>4, DurableMem
    <2>2. mem' = Applied(Disk, l)
      BY <1>4, <1>6, <2>1 DEF Applied, DiskTypes, RowAfter
    <2>3. /\ own' = [own EXCEPT ![r] = "done"] /\ resp' = [resp EXCEPT ![r] = "retryable"]
          /\ gate' \in Requests \cup {NoOne} /\ lock' = NoOne
          /\ own'[r] = "done" /\ resp'[r] = "retryable"
      BY <1>1, <1>2, <1>6 DEF Returns, IInv, TypeOK
    <2>4. OwnerSound(r)'
      BY <1>1, <1>2, <1>3, <1>4, <2>1, <2>3
         DEF OwnerSound, Past, Applied, DiskTypes, RowAfter, Verdicts
    <2>5. OneOwner'
      BY <1>1, <2>3, OneOwnerKept DEF Past
    <2>6. AbandonedIsPoisoned'
      <3>1. /\ \A c \in Cases : mem'.rows[c] = "inflight" => mem.rows[c] = "inflight"
            /\ mem'.rows[Case(r)] # "inflight"
        BY <1>2, <1>6, <2>1 DEF DiskTypes
      <3> QED BY <1>1, <1>6, <2>3, <3>1, AbandonedKept
    <2> QED BY <1>1, <1>2, <1>4, <1>5, <1>6, <2>2, <2>3, <2>4, <2>5, <2>6, DurableIInv
            DEF Stages, Answered
  <1>7. CASE AppendFails(l) /\ ReturnsUnknown(r) /\ mem' = mem
    BY <1>1, <1>2, <1>4, <1>5, <1>7, FailIInv
  <1> QED BY <1>6, <1>7 DEF Rollback, l

\* The evidence of a verdict is persisted.
LEMMA PersistEvidenceIInv ==
  ASSUME IInv, NEW r \in Requests, PersistEvidence(r)
  PROVE  IInv'
  <1> DEFINE l == Line("evidence", Case(r), resp[r])
  <1>1. /\ phase = "up" /\ lock = NoOne /\ own[r] = "reported" /\ resp[r] \in Verdicts
        /\ UNCHANGED <<phase, authorized, req, leaf, launches, kills>>
    BY DEF PersistEvidence
  <1>2. /\ OwnerSound(r) /\ Case(r) \in Cases /\ authorized' \subseteq Cases /\ own[r] \in Past
        /\ resp[r] \in Answered \cup {"none"} /\ resp = [resp EXCEPT ![r] = resp[r]]
        /\ gate \in Requests \cup {NoOne}
    BY <1>1 DEF IInv, TypeOK, OwnerSound, Past
  <1>3. Disk.rows[Case(r)] = "inflight" /\ Disk.evidence[Case(r)] = "none"
    BY <1>1, <1>2 DEF OwnerSound
  <1>4. l \in GoodLines /\ l.case = Case(r) /\ l.ev = "evidence" /\ l.verdict = resp[r]
    BY <1>1, <1>2 DEF Line, GoodLines, Lines, Events, RowAfter
  <1>5. Fits(Disk, l)
    BY <1>3, <1>4 DEF Fits
  <1> HIDE DEF l
  <1>6. CASE Durable(l) /\ mem' = [mem EXCEPT !.evidence[Case(r)] = resp[r]]
             /\ Goes(r, "evidenced") /\ lock' = r /\ UNCHANGED <<poisoned, resp, gate>>
    <2>1. mem = Disk /\ Disk' = Applied(Disk, l) /\ Disk \in DiskTypes
      BY <1>1, <1>5, <1>6, <1>4, DurableMem
    <2>2. mem' = Applied(Disk, l)
      <3>1. [Disk.rows EXCEPT ![Case(r)] = "inflight"] = Disk.rows
        BY <1>2, <1>3, <2>1 DEF DiskTypes
      <3>2. RowAfter[l.ev] = "inflight"
        BY <1>4 DEF RowAfter
      <3>3. Applied(Disk, l) = [rows |-> Disk.rows,
                                evidence |-> [Disk.evidence EXCEPT ![Case(r)] = resp[r]],
                                seen |-> Disk.seen, exhausted |-> Disk.exhausted,
                                attempts |-> Disk.attempts]
        BY <1>4, <3>1, <3>2 DEF Applied
      <3>4. mem' = [rows |-> Disk.rows,
                    evidence |-> [Disk.evidence EXCEPT ![Case(r)] = resp[r]],
                    seen |-> Disk.seen, exhausted |-> Disk.exhausted,
                    attempts |-> Disk.attempts]
        BY <1>6, <2>1 DEF DiskTypes
      <3> QED BY <3>3, <3>4
    <2>3. OwnerSound(r)'
      BY <1>1, <1>2, <1>3, <1>4, <1>6, <2>1
         DEF OwnerSound, Goes, Past, Applied, IInv, TypeOK, DiskTypes, RowAfter
    <2>4. OneOwner'
      BY <1>1, <1>2, <1>6, OneOwnerKept DEF Goes
    <2>5. AbandonedIsPoisoned'
      <3>1. \A c \in Cases : mem'.rows[c] = "inflight" => mem.rows[c] = "inflight"
        BY <1>6, <2>1 DEF DiskTypes
      <3> QED BY <1>1, <1>6, <3>1, AbandonedKept DEF Goes
    <2> QED BY <1>1, <1>2, <1>4, <1>5, <1>6, <2>2, <2>3, <2>4, <2>5, DurableIInv DEF Goes, Stages
  <1>7. CASE AppendFails(l) /\ ReturnsUnknown(r) /\ mem' = mem
    BY <1>1, <1>2, <1>4, <1>5, <1>7, FailIInv
  <1> QED BY <1>6, <1>7 DEF PersistEvidence, l

\* The row is consumed.
LEMMA CompleteIInv ==
  ASSUME IInv, NEW r \in Requests, CompleteConsumed(r)
  PROVE  IInv'
  <1> DEFINE l == Line("terminal", Case(r), resp[r])
  <1>1. /\ phase = "up" /\ lock = r /\ own[r] = "evidenced"
        /\ UNCHANGED <<phase, authorized, req, leaf, launches, kills>>
    BY DEF CompleteConsumed
  <1>2. /\ OwnerSound(r) /\ Case(r) \in Cases /\ authorized' \subseteq Cases /\ own[r] \in Past
        /\ resp[r] \in Verdicts /\ resp[r] \in Answered \cup {"none"}
        /\ gate \in Requests \cup {NoOne}
    BY <1>1 DEF IInv, TypeOK, OwnerSound, Past
  <1>3. Disk.rows[Case(r)] = "inflight" /\ Disk.evidence[Case(r)] = resp[r]
    BY <1>1, <1>2 DEF OwnerSound
  <1>4. l \in GoodLines /\ l.case = Case(r) /\ l.ev = "terminal" /\ l.verdict = resp[r]
    BY <1>2 DEF Line, GoodLines, Lines, Events, RowAfter
  <1>5. Fits(Disk, l)
    BY <1>2, <1>3, <1>4 DEF Fits, Verdicts
  <1> HIDE DEF l
  <1>6. CASE Durable(l) /\ mem' = Consumed(Case(r)) /\ Returns(r, resp[r]) /\ UNCHANGED poisoned
    <2>1. mem = Disk /\ Disk' = Applied(Disk, l) /\ Disk \in DiskTypes
      BY <1>1, <1>5, <1>6, <1>4, DurableMem
    <2>2. mem' = Applied(Disk, l)
      <3>1. RowAfter[l.ev] = "consumed"
        BY <1>4 DEF RowAfter
      <3>2. Applied(Disk, l) = [rows |-> [Disk.rows EXCEPT ![Case(r)] = "consumed"],
                                evidence |-> Disk.evidence, seen |-> Disk.seen,
                                exhausted |-> Disk.exhausted \cup {Case(r)},
                                attempts |-> Disk.attempts]
        BY <1>4, <3>1 DEF Applied
      <3>3. mem' = [rows |-> [Disk.rows EXCEPT ![Case(r)] = "consumed"],
                    evidence |-> Disk.evidence, seen |-> Disk.seen,
                    exhausted |-> Disk.exhausted \cup {Case(r)},
                    attempts |-> Disk.attempts]
        BY <1>6, <2>1 DEF DiskTypes, Consumed
      <3> QED BY <3>2, <3>3
    <2>3. /\ own' = [own EXCEPT ![r] = "done"] /\ resp' = [resp EXCEPT ![r] = resp[r]]
          /\ gate' \in Requests \cup {NoOne} /\ lock' = NoOne
          /\ own'[r] = "done" /\ resp'[r] = resp[r]
      BY <1>1, <1>2, <1>6 DEF Returns, IInv, TypeOK
    <2>4. OwnerSound(r)'
      BY <1>1, <1>2, <1>3, <1>4, <2>1, <2>3
         DEF OwnerSound, Past, Applied, DiskTypes, RowAfter, Verdicts
    <2>5. OneOwner'
      BY <1>1, <2>3, OneOwnerKept DEF Past
    <2>6. AbandonedIsPoisoned'
      <3>1. /\ \A c \in Cases : mem'.rows[c] = "inflight" => mem.rows[c] = "inflight"
            /\ mem'.rows[Case(r)] # "inflight"
        BY <1>2, <1>6, <2>1 DEF DiskTypes, Consumed
      <3> QED BY <1>1, <1>6, <2>3, <3>1, AbandonedKept
    <2>7. "done" \in Stages
      BY DEF Stages
    <2>8. PICK a \in Answered \cup {"none"} : resp' = [resp EXCEPT ![r] = a]
      BY <1>2, <2>3
    <2> QED BY <1>1, <1>2, <1>4, <1>5, <1>6, <2>2, <2>3, <2>4, <2>5, <2>6, <2>7, <2>8, DurableIInv
  <1>7. CASE AppendFails(l) /\ ReturnsUnknown(r) /\ mem' = mem
    BY <1>1, <1>2, <1>4, <1>5, <1>7, FailIInv
  <1> QED BY <1>6, <1>7 DEF CompleteConsumed, l

\* The process is killed.
LEMMA KillIInv ==
  ASSUME IInv, Kill
  PROVE  IInv'
  <1>1. DiskSound' /\ Disk' = Disk
    BY SameDisk DEF IInv, Kill
  <1>2. \A r \in Requests :
          /\ req'[r].case = req[r].case /\ req'[r].exact = req[r].exact
          /\ req'[r].answer = req[r].answer /\ (req'[r].pc = "idle" <=> req[r].pc = "idle")
          /\ own'[r] = "none" /\ resp'[r] = "none"
    BY DEF IInv, TypeOK, Kill
  <1>3. TypeOK'
    <2>1. req' \in [Requests ->
            [pc : {"idle", "arrived", "missed", "waiting", "answered", "gone"},
             case : Cases \cup {NoOne}, exact : BOOLEAN, answer : Answered \cup {"none"}]]
      <3> DEFINE R == [pc : {"idle", "arrived", "missed", "waiting", "answered", "gone"},
                       case : Cases \cup {NoOne}, exact : BOOLEAN, answer : Answered \cup {"none"}]
      <3>1. \A r \in Requests : req[r] \in R
        BY DEF IInv, TypeOK
      <3>2. \A q \in R : [q EXCEPT !.pc = "gone"] \in R
        OBVIOUS
      <3> HIDE DEF R
      <3>3. req' \in [Requests -> R]
        BY <3>1, <3>2 DEF Kill
      <3> QED BY <3>3 DEF R
    <2>2. /\ own' \in [Requests -> {"none", "spawned", "checked", "gated", "reserved",
                                    "begun", "inflight", "running", "reported",
                                    "evidenced", "done"}]
          /\ resp' \in [Requests -> Answered \cup {"none"}]
          /\ kills' \in Nat
      BY DEF IInv, TypeOK, Kill
    <2> QED BY <2>1, <2>2 DEF IInv, TypeOK, Kill
  <1>4. \A r \in Requests : OwnerSound(r)' /\ AnswerSound(r)'
    BY <1>1, <1>2 DEF IInv, OwnerSound, AnswerSound, Past
  <1>5. OneOwner' /\ LockedWorks' /\ MemSound' /\ AbandonedIsPoisoned' /\ RefusedClean'
    BY <1>2 DEF OneOwner, LockedWorks, MemSound, AbandonedIsPoisoned, RefusedClean, Past, Kill
  <1>6. LaunchSound'
    BY <1>1 DEF IInv, LaunchSound, Kill
  <1> QED BY <1>1, <1>3, <1>4, <1>5, <1>6 DEF IInv

\* The process is started again.
LEMMA StartIInv ==
  ASSUME IInv, Start
  PROVE  IInv'
  <1>1. DiskSound' /\ Disk' = Disk /\ journal' = journal
    BY SameDisk DEF IInv, Start
  <1>2. mem' = mem \/ mem' = Disk
    BY DEF Start, Disk
  <1>3. \A r \in Requests : own[r] = "none"
    BY DEF IInv, OwnerSound, Start
  <1>4. TypeOK'
    <2>1. mem' \in DiskTypes
      BY <1>2 DEF IInv, DiskSound, TypeOK, DiskTypes
    <2>2. phase' \in {"up", "refused"} /\ leaf' \subseteq Cases
      BY DEF Start, IInv, TypeOK
    <2> QED BY <2>1, <2>2 DEF IInv, TypeOK, Start, DiskTypes
  <1>5. \A r \in Requests : OwnerSound(r)' /\ AnswerSound(r)'
    BY <1>1, <1>3 DEF IInv, OwnerSound, AnswerSound, Past, Start
  <1>6. OneOwner' /\ LockedWorks' /\ LaunchSound'
    BY <1>1 DEF IInv, OneOwner, LockedWorks, LaunchSound, Start
  <1>7. phase' = "up" => mem' = Disk /\ Stuck(journal) = {}
    BY DEF Start, Disk
  <1>8. MemSound'
    BY <1>1, <1>7 DEF MemSound
  <1>9. AbandonedIsPoisoned'
    <2>1. phase' = "up" => \A c \in Cases : mem'.rows[c] # "inflight"
      BY <1>7 DEF Stuck, Disk, Replayed
    <2> QED BY <2>1 DEF AbandonedIsPoisoned
  <1>10. RefusedClean'
    BY <1>1 DEF RefusedClean, Start
  <1> QED BY <1>1, <1>4, <1>5, <1>6, <1>8, <1>9, <1>10 DEF IInv

-----------------------------------------------------------------------------
(* The gap between the two lines of begin_execution_v3.                    *)

Unflown(c) == Disk.rows[c] # "none" /\ c \notin Disk.seen

\* A row that has not flown ends the journal, and while appends succeed its
\* owner is about to write the next line.
Gap ==
  \A c \in Cases : Unflown(c) =>
    /\ journal[Len(journal)] = Line("bootstrap", c, "none")
    /\ phase = "up" => broken \/ \E s \in Requests : own[s] = "begun" /\ Case(s) = c

\* Nothing is written, and the owner between its two lines stays there unless
\* nothing is written any more.
LEMMA GapQuiet ==
  ASSUME IInv, Gap, journal' = journal, phase' = phase, broken => broken',
         broken' \/ \A s \in Requests : own[s] = "begun" => own'[s] = "begun" /\ Case(s)' = Case(s)
  PROVE  Gap'
  <1>1. Disk' = Disk
    BY SameDisk DEF IInv
  <1> QED BY <1>1 DEF Gap, Unflown, Line

\* Whoever writes a line finds every row flown but the one it is about to fly,
\* for the lock is its own.
LEMMA GapAppend ==
  ASSUME IInv, Gap, NEW r \in Requests, NEW l \in GoodLines, Fits(Disk, l), l.case = Case(r),
         journal' = Append(journal, l), phase = "up", ~broken,
         lock = NoOne \/ (lock = r /\ own[r] # "begun") \/ (own[r] = "begun" /\ l.ev = "inflight"),
         l.ev = "bootstrap" => /\ l = Line("bootstrap", Case(r), "none")
                               /\ broken' \/ (own'[r] = "begun" /\ Case(r)' = Case(r))
  PROVE  Gap'
  <1>1. Disk' = Applied(Disk, l) /\ Disk \in DiskTypes /\ l.ev \in Events /\ l.case \in Cases
    BY AppendSound DEF IInv, DiskSound, GoodLines, Lines
  <1>2. ASSUME NEW c \in Cases, Unflown(c)
        PROVE  c = l.case /\ l.ev = "inflight"
    <2>1. PICK s \in Requests : own[s] = "begun" /\ Case(s) = c
      BY <1>2 DEF Gap
    <2>2. lock = s
      BY <2>1 DEF IInv, OwnerSound
    <2>3. own[r] = "begun" => lock = r
      BY DEF IInv, OwnerSound
    <2> QED BY <2>1, <2>2, <2>3, GrantAssumption
  <1>3. ASSUME NEW c \in Cases, Unflown(c)'
        PROVE  c = l.case /\ l.ev = "bootstrap"
    <2>1. Applied(Disk, l).rows[c] # "none" /\ c \notin Applied(Disk, l).seen
      BY <1>1, <1>3 DEF Unflown
    <2>2. CaseSound(Disk, c)
      BY DEF IInv, DiskSound
    <2> QED BY <1>1, <1>2, <2>1, <2>2
            DEF Applied, Fits, DiskTypes, Events, RowAfter, CaseSound, Unflown
  <1>4. journal'[Len(journal')] = l
    BY DEF IInv, DiskSound
  <1> QED BY <1>3, <1>4 DEF Gap, Line

\* An append that fails, whether its line stays or not.
LEMMA GapFails ==
  ASSUME IInv, Gap, NEW r \in Requests, NEW l \in GoodLines, ~broken => Fits(Disk, l), l.case = Case(r),
         AppendFails(l), phase = "up", phase' = phase,
         lock = NoOne \/ (lock = r /\ own[r] # "begun") \/ (own[r] = "begun" /\ l.ev = "inflight"),
         l.ev = "bootstrap" => l = Line("bootstrap", Case(r), "none")
  PROVE  Gap'
  <1>1. broken'
    BY DEF AppendFails
  <1>2. CASE journal' = journal
    BY <1>1, <1>2, GapQuiet
  <1>3. CASE journal' = Append(journal, l) /\ ~broken
    BY <1>1, <1>3, GapAppend
  <1> QED BY <1>2, <1>3 DEF AppendFails

\* The lines each writing step of owner r may append.
LEMMA GapWrites ==
  ASSUME IInv, Gap, NEW r \in Requests, NEW l \in GoodLines, ~broken => Fits(Disk, l), l.case = Case(r),
         Durable(l) \/ AppendFails(l), phase = "up", phase' = phase, l.ev # "bootstrap",
         lock = NoOne \/ (lock = r /\ own[r] # "begun") \/ (own[r] = "begun" /\ l.ev = "inflight")
  PROVE  Gap'
  <1>1. CASE Durable(l)
    BY <1>1, GapAppend DEF Durable
  <1>2. CASE AppendFails(l)
    BY <1>2, GapFails
  <1> QED BY <1>1, <1>2

LEMMA GapOwner ==
  ASSUME IInv, Gap, NEW r \in Requests, OwnerStep(r)
  PROVE  Gap'
  <1>0. /\ phase = "up" /\ phase' = phase /\ OwnerSound(r) /\ own[r] # "none" /\ Case(r) \in Cases
        /\ req' = req
    BY DEF IInv, OwnerSound, OwnerStep, CheckPoison, TryAcquire, ReserveRefused, Reserve, AtReserve,
           RefuseIntake, Bootstrap, BeginFlight, Launch, Report, Rollback, PersistEvidence, CompleteConsumed
  <1>1. CASE \/ CheckPoison(r) \/ TryAcquire(r) \/ ReserveRefused(r) \/ RefuseIntake(r) \/ Launch(r)
             \/ \E outcome \in Outcomes : Report(r, outcome)
    <2>1. own[r] # "begun" /\ UNCHANGED store
      BY <1>1 DEF CheckPoison, TryAcquire, ReserveRefused, AtReserve, RefuseIntake, Launch, Report
    <2>2. \E pc : own' = [own EXCEPT ![r] = pc]
      BY <1>1 DEF CheckPoison, TryAcquire, ReserveRefused, RefuseIntake, Launch, Report, Returns,
                  ReturnsUnknown, Goes
    <2>3. \A s \in Requests : own[s] = "begun" => own'[s] = "begun"
      BY <2>1, <2>2 DEF IInv, TypeOK
    <2> QED BY <1>0, <2>1, <2>3, GapQuiet DEF store
  <1>2. CASE Reserve(r)
    <2> DEFINE l == Line("attempt", Case(r), "none")
    <2>1. l \in GoodLines /\ l.case = Case(r) /\ l.ev = "attempt"
      BY <1>0 DEF Line, GoodLines, Lines, Events
    <2>2. ~broken => Fits(Disk, l)
      BY <1>0, <1>2, <2>1 DEF Fits, Reserve, IInv, MemSound
    <2>3. lock = NoOne /\ (Durable(l) \/ AppendFails(l))
      BY <1>2 DEF Reserve, AtReserve
    <2> HIDE DEF l
    <2> QED BY <1>0, <2>1, <2>2, <2>3, GapWrites
  <1>3. CASE Bootstrap(r)
    <2> DEFINE l == Line("bootstrap", Case(r), "none")
    <2>1. l \in GoodLines /\ l.case = Case(r) /\ l.ev = "bootstrap"
      BY <1>0 DEF Line, GoodLines, Lines, Events, RowAfter
    <2>2. own[r] = "reserved" /\ lock = NoOne /\ Case(r) \in CheckerCases
      BY <1>3 DEF Bootstrap
    <2>3. Fits(Disk, l) /\ mem.rows[Case(r)] = "none"
      BY <1>0, <2>1, <2>2 DEF Fits, OwnerSound, Past
    <2>4. l = Line("bootstrap", Case(r), "none")
      OBVIOUS
    <2> HIDE DEF l
    <2>5. CASE ReturnsUnknown(r) /\ UNCHANGED store
      <3>1. \A s \in Requests : own[s] = "begun" => own'[s] = "begun"
        BY <2>2, <2>5 DEF ReturnsUnknown, Returns, IInv, TypeOK
      <3> QED BY <1>0, <2>5, <3>1, GapQuiet DEF store
    <2>6. CASE Durable(l) /\ Goes(r, "begun")
      <3>1. own'[r] = "begun" /\ Case(r)' = Case(r)
        BY <1>0, <2>6 DEF Goes, IInv, TypeOK
      <3>2. ~broken /\ journal' = Append(journal, l)
        BY <2>6 DEF Durable
      <3> QED BY <1>0, <2>1, <2>2, <2>3, <2>4, <3>1, <3>2, GapAppend
    <2>7. CASE AppendFails(l)
      BY <1>0, <2>1, <2>2, <2>3, <2>4, <2>7, GapFails
    <2> QED BY <1>3, <2>3, <2>5, <2>6, <2>7 DEF Bootstrap, l
  <1>4. CASE BeginFlight(r)
    <2> DEFINE l == Line("inflight", Case(r), "none")
    <2>1. l \in GoodLines /\ l.case = Case(r) /\ l.ev = "inflight"
      BY <1>0 DEF Line, GoodLines, Lines, Events, RowAfter
    <2>2. own[r] = "begun" /\ (Durable(l) \/ AppendFails(l))
      BY <1>4 DEF BeginFlight
    <2>3. Fits(Disk, l)
      BY <1>0, <2>1, <2>2 DEF Fits, OwnerSound
    <2> HIDE DEF l
    <2> QED BY <1>0, <2>1, <2>2, <2>3, GapWrites
  <1>5. CASE Rollback(r)
    <2> DEFINE l == Line("rollback", Case(r), "none")
    <2>1. l \in GoodLines /\ l.case = Case(r) /\ l.ev = "rollback"
      BY <1>0 DEF Line, GoodLines, Lines, Events, RowAfter
    <2>2. lock = NoOne /\ own[r] = "reported" /\ (Durable(l) \/ AppendFails(l))
      BY <1>5 DEF Rollback
    <2>3. Fits(Disk, l)
      BY <1>0, <2>1, <2>2 DEF Fits, OwnerSound
    <2> HIDE DEF l
    <2> QED BY <1>0, <2>1, <2>2, <2>3, GapWrites
  <1>6. CASE PersistEvidence(r)
    <2> DEFINE l == Line("evidence", Case(r), resp[r])
    <2>1. l \in GoodLines /\ l.case = Case(r) /\ l.ev = "evidence"
      BY <1>0, <1>6 DEF PersistEvidence, Line, GoodLines, Lines, Events, RowAfter
    <2>2. lock = NoOne /\ own[r] = "reported" /\ (Durable(l) \/ AppendFails(l))
      BY <1>6 DEF PersistEvidence
    <2>3. Fits(Disk, l)
      BY <1>0, <2>1, <2>2 DEF Fits, OwnerSound
    <2> HIDE DEF l
    <2> QED BY <1>0, <2>1, <2>2, <2>3, GapWrites
  <1>7. CASE CompleteConsumed(r)
    <2> DEFINE l == Line("terminal", Case(r), resp[r])
    <2>1. own[r] = "evidenced" /\ lock = r /\ (Durable(l) \/ AppendFails(l))
      BY <1>7 DEF CompleteConsumed
    <2>2. resp[r] \in Verdicts /\ Disk.rows[Case(r)] = "inflight" /\ Disk.evidence[Case(r)] = resp[r]
      BY <1>0, <2>1 DEF OwnerSound
    <2>3. l \in GoodLines /\ l.case = Case(r) /\ l.ev = "terminal" /\ l.verdict = resp[r]
      BY <1>0, <2>2 DEF Line, GoodLines, Lines, Events, RowAfter
    <2>4. Fits(Disk, l)
      BY <2>2, <2>3 DEF Fits, Verdicts
    <2> HIDE DEF l
    <2> QED BY <1>0, <2>1, <2>3, <2>4, GapWrites
  <1> QED BY <1>1, <1>2, <1>3, <1>4, <1>5, <1>6, <1>7 DEF OwnerStep

\* The gap is all there is that recovery may refuse.
LEMMA GapNext ==
  ASSUME IInv, Gap, [Next]_vars
  PROVE  Gap'
  <1>1. CASE \/ UNCHANGED vars
             \/ \E r \in Requests :
                  \/ \E c \in Cases, x \in BOOLEAN : Arrive(r, c, x)
                  \/ RequestStep(r) \/ Deadline(r) \/ HangUp(r)
    <2>1. UNCHANGED <<journal, broken, phase>>
      BY <1>1 DEF vars, store, Arrive, RequestStep, Redeliver, StateCheck, Respond, Deadline, HangUp
    <2>2. ASSUME NEW s \in Requests, own[s] = "begun"
          PROVE  own'[s] = "begun" /\ Case(s)' = Case(s)
      <3>1. req[s].pc \notin {"idle", "arrived", "missed"}
        BY <2>2 DEF IInv, OwnerSound
      <3>2. req \in [Requests -> [pc : {"idle", "arrived", "missed", "waiting", "answered", "gone"},
                case : Cases \cup {NoOne}, exact : BOOLEAN, answer : Answered \cup {"none"}]]
            /\ own \in [Requests -> {"none", "spawned", "checked", "gated", "reserved", "begun", "inflight",
                                     "running", "reported", "evidenced", "done"}]
        BY DEF IInv, TypeOK
      <3>3. CASE UNCHANGED vars
        BY <2>2, <3>3 DEF vars
      <3>4. ASSUME NEW r \in Requests, NEW c \in Cases, NEW x \in BOOLEAN, Arrive(r, c, x)
            PROVE  own'[s] = "begun" /\ Case(s)' = Case(s)
        <4>1. r # s /\ UNCHANGED own
          BY <3>1, <3>4 DEF Arrive
        <4>2. req'[s] = req[s]
          BY <3>2, <3>4, <4>1 DEF Arrive
        <4> QED BY <2>2, <4>1, <4>2
      <3>5. ASSUME NEW r \in Requests, Redeliver(r) \/ StateCheck(r)
            PROVE  own'[s] = "begun" /\ Case(s)' = Case(s)
        <4>1. r # s
          BY <3>1, <3>5 DEF Redeliver, StateCheck
        <4>2. req'[s] = req[s] /\ own'[s] = own[s]
          BY <3>2, <3>5, <4>1 DEF Redeliver, StateCheck, Answers, Goes
        <4> QED BY <2>2, <4>2
      <3>6. ASSUME NEW r \in Requests, Respond(r) \/ Deadline(r) \/ HangUp(r)
            PROVE  own'[s] = "begun" /\ Case(s)' = Case(s)
        <4>1. req'[s].case = req[s].case /\ own' = own
          BY <3>2, <3>6 DEF Respond, Deadline, HangUp, Answers
        <4> QED BY <2>2, <4>1
      <3> QED BY <1>1, <3>3, <3>4, <3>5, <3>6 DEF RequestStep
    <2> QED BY <2>1, <2>2, GapQuiet
  <1>2. CASE Kill
    <2>1. Disk' = Disk
      BY <1>2, SameDisk DEF IInv, Kill
    <2> QED BY <1>2, <2>1 DEF Kill, Gap, Unflown, Line
  <1>3. CASE Start
    <2>1. Disk' = Disk
      BY <1>3, SameDisk DEF IInv, Start
    <2>2. phase' = "up" => \A c \in Cases : ~Unflown(c)
      BY <1>3 DEF Start, Recovers, HasFlown, Unflown, Disk, Replayed
    <2> QED BY <1>3, <2>1, <2>2 DEF Start, Gap, Unflown, Line
  <1> QED BY <1>1, <1>2, <1>3, GapOwner DEF Next

LEMMA GapInit ==
  ASSUME Init
  PROVE  Gap
  <1>1. journal = <<>> /\ Len(journal) = 0 /\ \A c, evs : At(journal, 0, c, evs) = {}
    BY DEF Init, At
  <1> QED BY <1>1 DEF Gap, Unflown, Disk, Replayed, RowAt

-----------------------------------------------------------------------------
(* Theorems.                                                               *)

\* The invariant of the whole service: every journal that a kill can leave
\* behind is one the owners' stages explain.
THEOREM Invariance == Spec => []IInv
  <1>1. IInv /\ [Next]_vars => IInv'
    <2> SUFFICES ASSUME IInv, [Next]_vars PROVE IInv'
      OBVIOUS
    <2>1. ASSUME NEW r \in Requests, OwnerStep(r) PROVE IInv'
      BY <2>1, BeforeIInv, ReserveIInv, RefuseIntakeIInv, BootstrapIInv, BeginFlightIInv,
         LaunchIInv, ReportIInv, RollbackIInv, PersistEvidenceIInv, CompleteIInv DEF OwnerStep
    <2>2. CASE UNCHANGED vars
      <3>1. DiskSound' /\ Disk' = Disk
        BY <2>2, SameDisk DEF IInv, vars
      <3> QED BY <2>2, <3>1
              DEF vars, IInv, TypeOK, OwnerSound, OneOwner, LockedWorks, MemSound, AnswerSound,
                  LaunchSound, AbandonedIsPoisoned, RefusedClean
    <2> QED BY <2>1, <2>2, ArriveIInv, RequestStepIInv, KillIInv, StartIInv DEF Next
  <1> QED BY InitIInv, <1>1, PTL DEF Spec

\* The only row that recovery may refuse is the one whose first line of
\* begin_execution_v3 is the last line of the journal.
THEOREM GapInvariance == Spec => []Gap
  <1>1. IInv /\ Gap /\ [Next]_vars => Gap'
    BY GapNext
  <1> QED BY GapInit, <1>1, Invariance, PTL DEF Spec

\* JournalSound for every grant: killed at any point and with any append
\* failed, the service has written nothing that replay rejects and no row that
\* has not flown but in the gap of begin_execution_v3; memory is what a restart
\* rebuilds, and a refused start has cleaned up every leaf.
THEOREM JournalIsSound == Spec => []JournalSound
  <1>1. IInv /\ Gap => JournalSound
    <2> SUFFICES ASSUME IInv, Gap PROVE JournalSound
      OBVIOUS
    <2>1. \A c \in Cases :
            /\ Disk.rows[c] = RowAt(journal, Len(journal), c)
            /\ c \in Disk.seen <=> At(journal, Len(journal), c, {"inflight"}) # {}
      BY DEF Disk, Replayed
    <2>2. ASSUME NEW c \in Cases, Unflown(c), phase = "up", ~broken
          PROVE  lock # NoOne
      <3>1. PICK s \in Requests : own[s] = "begun"
        BY <2>2 DEF Gap
      <3> QED BY <3>1, GrantAssumption DEF IInv, OwnerSound
    <2>3. WrittenReplays
      BY <2>1, <2>2 DEF WrittenReplays, IInv, DiskSound, HasFlown, Gap, Unflown
    <2>4. MemoryIsJournal
      BY DEF IInv, MemSound, MemoryIsJournal, Disk
    <2> QED BY <2>3, <2>4 DEF IInv, JournalSound
  <1> QED BY Invariance, GapInvariance, <1>1, PTL

\* FlightSound for every grant: no case is launched twice over the life of the
\* journal, a verdict that was answered stays the verdict on disk, and a flight
\* that nobody works on has closed the service.
THEOREM FlightIsSound == Spec => []FlightSound
  <1>1. IInv => FlightSound
    <2> SUFFICES ASSUME IInv PROVE FlightSound
      OBVIOUS
    <2>1. \A c \in Cases :
            /\ Disk.rows[c] = RowAt(journal, Len(journal), c)
            /\ Disk.evidence[c] = EvidenceAt(journal, Len(journal), c)
            /\ c \in Disk.seen <=> At(journal, Len(journal), c, {"inflight"}) # {}
            /\ c \in Disk.attempts <=> c \in AttemptsAt(journal, Len(journal))
      BY DEF Disk, Replayed
    <2>2. LaunchedOnce
      BY <2>1 DEF IInv, DiskSound, CaseSound, LaunchSound, LaunchedOnce
    <2>3. AnswersHold
      <3>1. \A r \in Requests : req[r].answer # "none" => Case(r) \in Cases
        BY DEF IInv, AnswerSound, OwnerSound
      <3> QED BY <2>1, <3>1 DEF IInv, AnswersHold, AnswerSound, DiskSound, CaseSound, Verdicts
    <2> QED BY <2>2, <2>3 DEF IInv, FlightSound
  <1> QED BY Invariance, <1>1, PTL

=============================================================================
