----------------------- MODULE DevnetPosting_proofs -----------------------
(***************************************************************************)
(* Proofs about the client that posts one submission.  The three           *)
(* properties of the run are proved for every submission, budget, number   *)
(* of rebroadcasts, and any number of failures of writes and calls and of  *)
(* ends of the process.                                                    *)
(*                                                                         *)
(* The invariant says what the two copies of the record hold at each       *)
(* point of a tick.  The copies are the same wherever the client acts on   *)
(* its copy; they differ only on the way into a recovery, or in the stage  *)
(* that is under way.  A record that is about to be replaced names no      *)
(* transaction that may still take effect, and what was sent at the head   *)
(* is charged to as many records.                                          *)
(***************************************************************************)
EXTENDS DevnetPosting, FiniteSetTheorems, TLAPS

-----------------------------------------------------------------------------
(* The inductive invariant. *)

(* One record, for the transactions T, the calls C, the replaced blocks R and
   the head H. *)
RecOK(s, r, T, C, R, H) ==
    /\ r \in SentRecords
    /\ r.ss \in {"intent", "notsent"} => r.tx = 0
    /\ r.tx # 0 => r.tx \in DOMAIN T /\ T[r.tx].stage = s /\ C[r.tx] =< 1 + r.tries
    /\ r.last # 0 => r.head < r.last /\ r.last =< H /\ s[1] = "part" /\ r.tx # 0 /\ r.ss \in {"ack", "amb"}
    /\ r.last # 0 /\ R = 0 /\ T[r.tx].st \in {"ok", "rev"} => r.last < T[r.tx].at
    /\ r.failed => r.tx # 0 /\ (R = 0 => T[r.tx].st = "rev")

SentOK(sent, P, T, C, R, H) ==
    /\ sent = [s \in DOMAIN sent |-> sent[s]]
    /\ DOMAIN sent \subseteq P
    /\ \A s \in DOMAIN sent : RecOK(s, sent[s], T, C, R, H)

IsSub(sub) == \E c \in BOOLEAN : \E f : sub = [cancel |-> c, sent |-> f]

TxRecords == [stage : Stages, st : {"signed", "pool", "lost", "gone", "ok", "rev"}, at : 0 .. MaxHead]

ChainOK ==
    /\ setup \in Scenarios
    /\ head \in 1 .. setup.heads /\ final \in 1 .. head
    /\ txs \in Seq(TxRecords) /\ Len(txs) =< MaxTx
    /\ \A i \in DOMAIN txs : txs[i].at =< head /\ (txs[i].st = "signed" => txs[i].at = 0)
    /\ faults \in 0 .. setup.faults /\ reorgs \in 0 .. setup.reorgs
    /\ calls \in [1 .. MaxTx -> 0 .. 1 + Rebroadcasts]
    /\ \A i \in 1 .. MaxTx : i > Len(txs) => calls[i] = 0

RecordsOK ==
    /\ IsSub(disk) /\ SentOK(disk.sent, Stages, txs, calls, reorgs, head)
    /\ IsSub(mem) /\ SentOK(mem.sent, Stages, txs, calls, reorgs, head)

Places == {"idle", "resume", "resumed", "open", "look", "sign", "deliver", "record", "retry", "resend", "recover", "down"}

(* Where the tick is, and how the two copies compare there. *)
Sync ==
    /\ pc \in Places /\ isolated \in BOOLEAN /\ posted \in Nat
    /\ hd \in 0 .. head /\ fold \in 0 .. hd /\ fold =< final /\ budget = hd
    /\ hd = 0 => pc \in {"idle", "down"} /\ ~ isolated
    /\ pc \in {"resumed", "open", "look", "sign", "deliver", "record", "resend", "recover", "down"} => ~ isolated
    /\ pc = "retry" /\ queue # <<>> => ~ isolated
    /\ pc = "resume" => isolated /\ queue = <<>>
    /\ pc \notin {"recover", "down", "record"} /\ ~ isolated => mem.sent = disk.sent

(* Two copies that agree but for stage s, which is charged to head h. *)
Beside(a, b, s, h) ==
    /\ DOMAIN a = DOMAIN b
    /\ s \in DOMAIN a /\ a[s].head = h
    /\ \A t \in DOMAIN a \ {s} : a[t] = b[t]

Flying(t, F) == t.st \in {"pool", "lost"} \/ (t.st = "ok" /\ F < t.at)

(* No transaction of stage s may still take effect. *)
Grounded(s, T, F) == \A i \in DOMAIN T : T[i].stage = s => ~ Flying(T[i], F)

Distinct(q) == \A k, l \in DOMAIN q : k # l => q[k] # q[l]

Working == {"look", "sign", "deliver", "record"}

UnderWay(r) == r.head = hd /\ ~ r.failed /\ r.last = 0

(* What is under way. *)
Stepping ==
    /\ queue \in Seq(Stages) /\ \A k \in DOMAIN queue : queue[k][1] = "part"
    /\ pc \in Working => todo \in Seq(Stages) /\ todo # <<>> /\ Distinct(todo)
    /\ pc \in {"sign", "deliver", "record"} => Head(todo) \in DOMAIN mem.sent /\ UnderWay(mem.sent[Head(todo)])
    /\ pc = "sign" => mem.sent[Head(todo)].ss = "intent" /\ Len(txs) < MaxTx
    /\ pc = "deliver" =>
          /\ mem.sent[Head(todo)].tx # 0 /\ mem.sent[Head(todo)].ss = "prepared"
          /\ calls[mem.sent[Head(todo)].tx] = 0
          /\ txs[mem.sent[Head(todo)].tx].st = "signed"
    /\ pc = "record" =>
          /\ reply \in {"notsent", "ack", "amb"}
          /\ Beside(disk.sent, mem.sent, Head(todo), hd)
          /\ reply = "notsent" => mem.sent[Head(todo)].tx = 0
          /\ reply # "notsent" => mem.sent[Head(todo)].tx # 0 /\ disk.sent = mem.sent
    /\ pc = "resend" =>
          /\ queue # <<>> /\ Head(queue) \in DOMAIN mem.sent
          /\ mem.sent[Head(queue)].tx # 0
          /\ calls[mem.sent[Head(queue)].tx] =< mem.sent[Head(queue)].tries

(* What is recorded of the transactions that may still take effect. *)
Recorded(sent, T, F) ==
    \A i \in DOMAIN T : Flying(T[i], F) => T[i].stage \in DOMAIN sent /\ sent[T[i].stage].tx = i

Flight ==
    reorgs = 0 =>
        /\ Recorded(disk.sent, txs, final)
        /\ pc = "sign" \/ (pc = "record" /\ reply = "notsent") => Grounded(Head(todo), txs, final)

(* A stage that is looked at was not rebroadcast at this head and then found
   reverted. *)
Cleared(s, sent, h) == s \in DOMAIN sent /\ sent[s].failed => sent[s].last < h

Fresh ==
    reorgs = 0 =>
        /\ pc = "resume" => \A s \in DOMAIN disk.sent : Cleared(s, disk.sent, hd)
        /\ pc \in {"resumed", "open"} => \A s \in DOMAIN mem.sent : Cleared(s, mem.sent, hd)
        /\ pc \in Working => \A k \in DOMAIN todo : Cleared(todo[k], mem.sent, hd)

ChargedTo(sent, h) == {s \in DOMAIN sent : sent[s].head = h \/ sent[s].last = h}

Sending == {"sign", "deliver", "resend"}

(* What was sent at the head, what was counted and what is charged. *)
Budget ==
    /\ attempts \in [1 .. MaxHead -> Nat]
    /\ \A h \in 1 .. MaxHead : h > head => attempts[h] = 0
    /\ hd # 0 => \A h \in 1 .. MaxHead : h > hd => attempts[h] = 0
    /\ reorgs = 0 \/ PBlk = 1 =>
          /\ \A h \in 1 .. MaxHead : attempts[h] =< PBlk
          /\ hd # 0 => attempts[hd] =< posted
          /\ attempts[head] =< Cardinality(ChargedTo(disk.sent, head))
          /\ pc \in Sending =>
                /\ attempts[hd] < PBlk /\ attempts[hd] < posted
                /\ hd = head => attempts[hd] < Cardinality(ChargedTo(disk.sent, hd))

IInv == ChainOK /\ RecordsOK /\ Sync /\ Stepping /\ Flight /\ Fresh /\ Budget

-----------------------------------------------------------------------------
(* Records and their copies. *)

Put(sent, s, rec) == [t \in DOMAIN sent \cup {s} |-> IF t = s THEN rec ELSE sent[t]]

(* What a reader makes of one record, and what a start makes of it. *)
RereadRec(r) == IF r.ss = "intent" THEN [r EXCEPT !.ss = "notsent"] ELSE r
RestoredRec(r) == [RereadRec(r) EXCEPT !.ss = IF @ = "prepared" THEN "amb" ELSE @]

Each(sent) == [s \in DOMAIN sent |-> RereadRec(sent[s])]
EachStart(sent) == [s \in DOMAIN sent |-> RestoredRec(sent[s])]

(* Two records of one transaction, charged to the same heads. *)
Kin(r, q) == q.tx = r.tx /\ q.head = r.head /\ q.last = r.last /\ q.tries = r.tries

(* A wish and a function make a submission's record. *)
LEMMA SubIs ==
    ASSUME NEW c \in BOOLEAN, NEW f
    PROVE  IsSub([cancel |-> c, sent |-> f]) /\ [cancel |-> c, sent |-> f].sent = f
  BY DEF IsSub

(* A record with another entry for one stage is a record. *)
LEMMA WithSentIs ==
    ASSUME NEW sub, IsSub(sub), NEW s, NEW rec
    PROVE  IsSub(WithSent(sub, s, rec)) /\ WithSent(sub, s, rec).sent = Put(sub.sent, s, rec)
  <1>1. PICK c \in BOOLEAN : \E f : sub = [cancel |-> c, sent |-> f]
    BY DEF IsSub
  <1>2. PICK f : sub = [cancel |-> c, sent |-> f]
    BY <1>1
  <1>3. WithSent(sub, s, rec) = [cancel |-> c, sent |-> Put(f, s, rec)] /\ sub.sent = f
    BY <1>2 DEF WithSent, Put
  <1> QED
    BY <1>3, SubIs

(* So is one with the wish to cancel. *)
LEMMA CancelIs ==
    ASSUME NEW sub, IsSub(sub), NEW b \in BOOLEAN
    PROVE  IsSub([sub EXCEPT !.cancel = b]) /\ [sub EXCEPT !.cancel = b].sent = sub.sent
  <1>1. PICK c \in BOOLEAN : \E f : sub = [cancel |-> c, sent |-> f]
    BY DEF IsSub
  <1>2. PICK f : sub = [cancel |-> c, sent |-> f]
    BY <1>1
  <1>3. [sub EXCEPT !.cancel = b] = [cancel |-> b, sent |-> f] /\ sub.sent = f
    BY <1>2
  <1> QED
    BY <1>3 DEF IsSub

(* What is read again from the disk, in the process and at a start. *)
LEMMA RereadIs ==
    ASSUME NEW sub, IsSub(sub)
    PROVE  /\ IsSub(Reread(sub)) /\ Reread(sub).sent = Each(sub.sent)
           /\ IsSub(Restored(sub)) /\ Restored(sub).sent = EachStart(sub.sent)
  <1>1. PICK c \in BOOLEAN : \E f : sub = [cancel |-> c, sent |-> f]
    BY DEF IsSub
  <1>2. PICK f : sub = [cancel |-> c, sent |-> f]
    BY <1>1
  <1>3. Reread(sub) = [cancel |-> c, sent |-> Each(f)] /\ sub.sent = f
    BY <1>2 DEF Reread, Each, RereadRec
  <1> DEFINE g == [s \in DOMAIN sub.sent |-> [Reread(sub).sent[s] EXCEPT !.ss = IF @ = "prepared" THEN "amb" ELSE @]]
  <1>4. Restored(sub) = [sub EXCEPT !.sent = g]
    BY DEF Restored
  <1>5. g = EachStart(f)
    BY <1>3 DEF Each, EachStart, RestoredRec
  <1> HIDE DEF g
  <1>6. Restored(sub) = [cancel |-> c, sent |-> g]
    BY <1>2, <1>4
  <1> QED
    BY <1>3, <1>5, <1>6, SubIs

(* A record whose result changes and nothing else. *)
LEMMA NewState ==
    ASSUME NEW r \in SentRecords, NEW v \in {"intent", "prepared", "ack", "amb", "notsent"}
    PROVE  /\ [r EXCEPT !.ss = v] \in SentRecords /\ Kin(r, [r EXCEPT !.ss = v])
           /\ [r EXCEPT !.ss = v].ss = v /\ [r EXCEPT !.ss = v].failed = r.failed
  BY DEF SentRecords, Kin

LEMMA NewFailure ==
    ASSUME NEW r \in SentRecords, NEW b \in BOOLEAN
    PROVE  /\ [r EXCEPT !.failed = b] \in SentRecords /\ Kin(r, [r EXCEPT !.failed = b])
           /\ [r EXCEPT !.failed = b].ss = r.ss
  BY DEF SentRecords, Kin

LEMMA NewStop ==
    ASSUME NEW r \in SentRecords, NEW b \in BOOLEAN
    PROVE  /\ [r EXCEPT !.stop = b] \in SentRecords /\ Kin(r, [r EXCEPT !.stop = b])
           /\ [r EXCEPT !.stop = b].ss = r.ss /\ [r EXCEPT !.stop = b].failed = r.failed
  BY DEF SentRecords, Kin

(* Reading a record again keeps its transaction, its heads and its failure. *)
LEMMA RereadRecIs ==
    ASSUME NEW r \in SentRecords
    PROVE  /\ RereadRec(r) \in SentRecords /\ Kin(r, RereadRec(r)) /\ RereadRec(r).failed = r.failed
           /\ RereadRec(r).ss = IF r.ss = "intent" THEN "notsent" ELSE r.ss
           /\ RestoredRec(r) \in SentRecords /\ Kin(r, RestoredRec(r)) /\ RestoredRec(r).failed = r.failed
           /\ RestoredRec(r).ss = IF r.ss = "intent" THEN "notsent" ELSE IF r.ss = "prepared" THEN "amb" ELSE r.ss
  <1>1. /\ RereadRec(r) \in SentRecords /\ Kin(r, RereadRec(r)) /\ RereadRec(r).failed = r.failed
        /\ RereadRec(r).ss = IF r.ss = "intent" THEN "notsent" ELSE r.ss
    <2>1. CASE r.ss = "intent"
      <3> DEFINE v == "notsent"
      <3>1. v \in {"intent", "prepared", "ack", "amb", "notsent"} /\ RereadRec(r) = [r EXCEPT !.ss = v]
        BY <2>1 DEF RereadRec
      <3> HIDE DEF v
      <3>2. /\ [r EXCEPT !.ss = v] \in SentRecords /\ Kin(r, [r EXCEPT !.ss = v])
            /\ [r EXCEPT !.ss = v].ss = v /\ [r EXCEPT !.ss = v].failed = r.failed
        BY <3>1, NewState
      <3>3. RereadRec(r) \in SentRecords /\ Kin(r, RereadRec(r)) /\ RereadRec(r).failed = r.failed /\ RereadRec(r).ss = v
        BY <3>1, <3>2
      <3> QED
        BY <2>1, <3>3 DEF v
    <2>2. CASE r.ss # "intent"
      BY <2>2 DEF RereadRec, Kin
    <2> QED
      BY <2>1, <2>2
  <1> DEFINE q == RereadRec(r)
             v == IF q.ss = "prepared" THEN "amb" ELSE q.ss
  <1>2. RestoredRec(r) = [q EXCEPT !.ss = v]
    BY DEF RestoredRec
  <1>3. q \in SentRecords /\ v \in {"intent", "prepared", "ack", "amb", "notsent"}
    BY <1>1 DEF SentRecords
  <1>4. v = IF r.ss = "intent" THEN "notsent" ELSE IF r.ss = "prepared" THEN "amb" ELSE r.ss
    BY <1>1
  <1>5. q.failed = r.failed /\ Kin(r, q)
    BY <1>1
  <1> HIDE DEF q, v
  <1>6. /\ [q EXCEPT !.ss = v] \in SentRecords /\ Kin(q, [q EXCEPT !.ss = v])
        /\ [q EXCEPT !.ss = v].ss = v /\ [q EXCEPT !.ss = v].failed = q.failed
    BY <1>3, NewState
  <1>7. Kin(r, [q EXCEPT !.ss = v])
    BY <1>5, <1>6 DEF Kin
  <1> QED
    BY <1>1, <1>2, <1>4, <1>5, <1>6, <1>7

(* A record of the same transaction is as sound, if its result and its failure
   are what the transaction allows. *)
LEMMA KinOK ==
    ASSUME NEW s, NEW r, NEW q, NEW T, NEW C, NEW R, NEW H,
           RecOK(s, r, T, C, R, H),
           q \in SentRecords, Kin(r, q),
           q.ss \in {"intent", "notsent"} => q.tx = 0,
           q.last # 0 => q.ss \in {"ack", "amb"},
           q.failed => q.tx # 0 /\ (R = 0 => T[q.tx].st = "rev")
    PROVE  RecOK(s, q, T, C, R, H)
  BY DEF RecOK, Kin

LEMMA PutOK ==
    ASSUME NEW sent, NEW P, NEW T, NEW C, NEW R, NEW H, NEW s \in P, NEW rec,
           SentOK(sent, P, T, C, R, H), RecOK(s, rec, T, C, R, H)
    PROVE  SentOK(Put(sent, s, rec), P, T, C, R, H)
  <1>1. /\ DOMAIN Put(sent, s, rec) = DOMAIN sent \cup {s}
        /\ Put(sent, s, rec) = [t \in DOMAIN Put(sent, s, rec) |-> Put(sent, s, rec)[t]]
        /\ Put(sent, s, rec)[s] = rec
        /\ \A t \in DOMAIN sent : t # s => Put(sent, s, rec)[t] = sent[t]
    BY DEF Put
  <1>2. \A t \in DOMAIN sent : RecOK(t, sent[t], T, C, R, H)
    BY DEF SentOK
  <1>3. \A t \in DOMAIN sent \cup {s} : RecOK(t, Put(sent, s, rec)[t], T, C, R, H)
    BY <1>1, <1>2
  <1> QED
    BY <1>1, <1>3 DEF SentOK

(* Reading again keeps a record sound. *)
LEMMA EachOK ==
    ASSUME NEW sent, NEW P, NEW T, NEW C, NEW R, NEW H, SentOK(sent, P, T, C, R, H)
    PROVE  SentOK(Each(sent), P, T, C, R, H) /\ SentOK(EachStart(sent), P, T, C, R, H)
  <1>1. ASSUME NEW s \in DOMAIN sent
        PROVE  RecOK(s, RereadRec(sent[s]), T, C, R, H) /\ RecOK(s, RestoredRec(sent[s]), T, C, R, H)
    <2>1. RecOK(s, sent[s], T, C, R, H)
      BY DEF SentOK
    <2>2. sent[s] \in SentRecords
      BY <2>1 DEF RecOK
    <2> DEFINE r == sent[s]
               a == RereadRec(r)
               b == RestoredRec(r)
    <2>3. /\ a \in SentRecords /\ Kin(r, a) /\ a.failed = r.failed
          /\ a.ss = IF r.ss = "intent" THEN "notsent" ELSE r.ss
          /\ b \in SentRecords /\ Kin(r, b) /\ b.failed = r.failed
          /\ b.ss = IF r.ss = "intent" THEN "notsent" ELSE IF r.ss = "prepared" THEN "amb" ELSE r.ss
      BY <2>2, RereadRecIs
    <2> HIDE DEF r, a, b
    <2>4. RecOK(s, r, T, C, R, H)
      BY <2>1 DEF r
    <2>5. /\ a.ss \in {"intent", "notsent"} => a.tx = 0
          /\ a.last # 0 => a.ss \in {"ack", "amb"}
          /\ a.failed => a.tx # 0 /\ (R = 0 => T[a.tx].st = "rev")
      BY <2>3, <2>4 DEF RecOK, Kin
    <2>6. /\ b.ss \in {"intent", "notsent"} => b.tx = 0
          /\ b.last # 0 => b.ss \in {"ack", "amb"}
          /\ b.failed => b.tx # 0 /\ (R = 0 => T[b.tx].st = "rev")
      BY <2>3, <2>4 DEF RecOK, Kin
    <2>7. RecOK(s, a, T, C, R, H)
      BY <2>3, <2>4, <2>5, KinOK
    <2>8. RecOK(s, b, T, C, R, H)
      BY <2>3, <2>4, <2>6, KinOK
    <2> QED
      BY <2>7, <2>8 DEF a, b, r
  <1>2. /\ DOMAIN Each(sent) = DOMAIN sent /\ DOMAIN EachStart(sent) = DOMAIN sent
        /\ Each(sent) = [s \in DOMAIN Each(sent) |-> Each(sent)[s]]
        /\ EachStart(sent) = [s \in DOMAIN EachStart(sent) |-> EachStart(sent)[s]]
        /\ \A s \in DOMAIN sent : Each(sent)[s] = RereadRec(sent[s]) /\ EachStart(sent)[s] = RestoredRec(sent[s])
    BY DEF Each, EachStart
  <1>3. DOMAIN sent \subseteq P
    BY DEF SentOK
  <1>4. SentOK(Each(sent), P, T, C, R, H)
    BY <1>1, <1>2, <1>3 DEF SentOK
  <1>5. SentOK(EachStart(sent), P, T, C, R, H)
    BY <1>1, <1>2, <1>3 DEF SentOK
  <1> QED
    BY <1>4, <1>5

(* Every record of another copy of the same stages is kin. *)
KinSent(a, b) == DOMAIN b = DOMAIN a /\ \A s \in DOMAIN a : Kin(a[s], b[s])

LEMMA EachKin ==
    ASSUME NEW sent, NEW P, NEW T, NEW C, NEW R, NEW H, SentOK(sent, P, T, C, R, H)
    PROVE  KinSent(sent, Each(sent)) /\ KinSent(sent, EachStart(sent))
  <1>1. \A s \in DOMAIN sent : sent[s] \in SentRecords
    BY DEF SentOK, RecOK
  <1>2. \A s \in DOMAIN sent : Kin(sent[s], RereadRec(sent[s])) /\ Kin(sent[s], RestoredRec(sent[s]))
    BY <1>1, RereadRecIs
  <1> QED
    BY <1>2 DEF KinSent, Each, EachStart

LEMMA PutKin ==
    ASSUME NEW sent, NEW s \in DOMAIN sent, NEW rec, Kin(sent[s], rec)
    PROVE  KinSent(sent, Put(sent, s, rec))
  BY DEF KinSent, Put, Kin

(* Copies of kin are charged alike and record the same transactions. *)
LEMMA KinCharged ==
    ASSUME NEW a, NEW b, KinSent(a, b), NEW h
    PROVE  ChargedTo(b, h) = ChargedTo(a, h)
  BY DEF KinSent, Kin, ChargedTo

LEMMA KinRecorded ==
    ASSUME NEW a, NEW b, KinSent(a, b), NEW T, NEW F, Recorded(a, T, F)
    PROVE  Recorded(b, T, F)
  BY DEF KinSent, Kin, Recorded

(* What the chain and the client may do to the transactions. *)
TxStep(T, T2, R2, H) ==
    \A i \in DOMAIN T :
        /\ i \in DOMAIN T2 /\ T2[i].stage = T[i].stage
        /\ R2 = 0 => /\ T[i].st = "rev" => T2[i].st = "rev"
                     /\ T2[i].st \in {"ok", "rev"} =>
                           (T[i].st \in {"ok", "rev"} /\ T2[i].at = T[i].at) \/ H < T2[i].at

LEMMA RecCarries ==
    ASSUME NEW s, NEW r, NEW T, NEW T2, NEW C, NEW C2, NEW R \in Nat, NEW R2 \in Nat, NEW H \in Nat, NEW H2 \in Nat,
           RecOK(s, r, T, C, R, H), TxStep(T, T2, R2, H), R =< R2, H =< H2,
           \A i \in DOMAIN T2 : T2[i].at \in Nat,
           r.tx # 0 => C2[r.tx] =< 1 + r.tries
    PROVE  RecOK(s, r, T2, C2, R2, H2)
  <1>1. r \in SentRecords /\ r.last \in Nat /\ r.tx \in Nat /\ r.tries \in Nat
    BY PostingAssumption DEF RecOK, SentRecords
  <1>2. r.tx # 0 => r.tx \in DOMAIN T /\ T[r.tx].stage = s /\ r.tx \in DOMAIN T2 /\ T2[r.tx].stage = s
    BY DEF RecOK, TxStep
  <1>3. r.last # 0 => r.head < r.last /\ r.last =< H2 /\ s[1] = "part" /\ r.tx # 0 /\ r.ss \in {"ack", "amb"}
    BY <1>1 DEF RecOK
  <1>4. r.last # 0 /\ R2 = 0 /\ T2[r.tx].st \in {"ok", "rev"} => r.last < T2[r.tx].at
    <2> SUFFICES ASSUME r.last # 0, R2 = 0, T2[r.tx].st \in {"ok", "rev"}
                 PROVE  r.last < T2[r.tx].at
      OBVIOUS
    <2>1. R = 0 /\ r.last =< H /\ r.tx \in DOMAIN T
      BY <1>2 DEF RecOK
    <2>2. T2[r.tx].at \in Nat
      BY <1>2, <1>3
    <2>3. CASE H < T2[r.tx].at
      BY <2>1, <2>2, <2>3, <1>1
    <2>4. CASE T[r.tx].st \in {"ok", "rev"} /\ T2[r.tx].at = T[r.tx].at
      BY <2>1, <2>4 DEF RecOK
    <2> QED
      BY <2>1, <2>3, <2>4 DEF TxStep
  <1>5. r.failed => r.tx # 0 /\ (R2 = 0 => T2[r.tx].st = "rev")
    <2>1. R2 = 0 => R = 0
      OBVIOUS
    <2> QED
      BY <1>2, <2>1 DEF RecOK, TxStep
  <1> QED
    BY <1>1, <1>2, <1>3, <1>4, <1>5 DEF RecOK

LEMMA SentCarries ==
    ASSUME NEW sent, NEW P, NEW T, NEW T2, NEW C, NEW C2, NEW R \in Nat, NEW R2 \in Nat, NEW H \in Nat, NEW H2 \in Nat,
           SentOK(sent, P, T, C, R, H), TxStep(T, T2, R2, H), R =< R2, H =< H2,
           \A i \in DOMAIN T2 : T2[i].at \in Nat,
           \A s \in DOMAIN sent : sent[s].tx # 0 => C2[sent[s].tx] =< 1 + sent[s].tries
    PROVE  SentOK(sent, P, T2, C2, R2, H2)
  <1>1. ASSUME NEW s \in DOMAIN sent
        PROVE  RecOK(s, sent[s], T2, C2, R2, H2)
    <2>1. RecOK(s, sent[s], T, C, R, H)
      BY DEF SentOK
    <2> QED
      BY <2>1, RecCarries
  <1> QED
    BY <1>1 DEF SentOK

-----------------------------------------------------------------------------
(* Sequences of stages, and the plans of a tick. *)

LEMMA TailIs ==
    ASSUME NEW S, NEW q \in Seq(S), q # <<>>
    PROVE  /\ Head(q) \in S /\ Tail(q) \in Seq(S) /\ Head(q) = q[1] /\ 1 \in DOMAIN q
           /\ \A k \in DOMAIN Tail(q) : k + 1 \in DOMAIN q /\ k + 1 # 1 /\ Tail(q)[k] = q[k + 1]
  OBVIOUS

LEMMA TailDistinct ==
    ASSUME NEW S, NEW q \in Seq(S), q # <<>>, Distinct(q)
    PROVE  /\ Distinct(Tail(q))
           /\ \A k \in DOMAIN Tail(q) : Tail(q)[k] # Head(q)
  <1>1. \A k \in DOMAIN Tail(q) : k \in Nat
    BY TailIs
  <1>2. ASSUME NEW k \in DOMAIN Tail(q), NEW l \in DOMAIN Tail(q), k # l
        PROVE  Tail(q)[k] # Tail(q)[l]
    <2>1. k + 1 \in DOMAIN q /\ l + 1 \in DOMAIN q /\ Tail(q)[k] = q[k + 1] /\ Tail(q)[l] = q[l + 1]
      BY TailIs
    <2>2. k + 1 # l + 1
      BY <1>1, <1>2
    <2> QED
      BY <2>1, <2>2 DEF Distinct
  <1>3. ASSUME NEW k \in DOMAIN Tail(q)
        PROVE  Tail(q)[k] # Head(q)
    <2>1. k + 1 \in DOMAIN q /\ k + 1 # 1 /\ Tail(q)[k] = q[k + 1] /\ Head(q) = q[1] /\ 1 \in DOMAIN q
      BY TailIs
    <2> QED
      BY <2>1 DEF Distinct
  <1> QED
    BY <1>2, <1>3 DEF Distinct

(* What was true of the stages still to come stays true when the record of the
   first one changes. *)
LEMMA TailCleared ==
    ASSUME NEW S, NEW q \in Seq(S), q # <<>>, Distinct(q), NEW sent, NEW rec, NEW h,
           \A k \in DOMAIN q : Cleared(q[k], sent, h)
    PROVE  \A k \in DOMAIN Tail(q) : /\ Cleared(Tail(q)[k], sent, h)
                                     /\ Cleared(Tail(q)[k], Put(sent, Head(q), rec), h)
  <1> SUFFICES ASSUME NEW k \in DOMAIN Tail(q)
               PROVE  /\ Cleared(Tail(q)[k], sent, h)
                      /\ Cleared(Tail(q)[k], Put(sent, Head(q), rec), h)
    OBVIOUS
  <1>1. k + 1 \in DOMAIN q /\ Tail(q)[k] = q[k + 1]
    BY TailIs
  <1>2. Tail(q)[k] # Head(q)
    BY TailDistinct
  <1>3. Cleared(Tail(q)[k], sent, h)
    BY <1>1
  <1> QED
    BY <1>2, <1>3 DEF Cleared, Put

LEMMA SetupIs ==
    ASSUME setup \in Scenarios
    PROVE  /\ setup.parts \subseteq Nat /\ IsFiniteSet(setup.parts) /\ setup.parts # {}
           /\ setup.heads \in Nat /\ setup.txs \in Nat /\ setup.heads =< MaxHead /\ setup.txs =< MaxTx
           /\ setup.faults \in Nat /\ setup.reorgs \in Nat /\ setup.w \in Nat
           /\ MaxHead \in Nat /\ MaxTx \in Nat /\ PBlk \in Nat \ {0} /\ Rebroadcasts \in Nat \ {0}
  BY PostingAssumption

LEMMA StagesFinite ==
    ASSUME setup \in Scenarios
    PROVE  IsFiniteSet(Stages)
  <1>1. IsFiniteSet({<<"part", i>> : i \in setup.parts})
    <2>1. IsFiniteSet(setup.parts)
      BY SetupIs
    <2> DEFINE f == [i \in setup.parts |-> <<"part", i>>]
               S == {<<"part", i>> : i \in setup.parts}
    <2>2. f \in Surjection(setup.parts, S)
      BY DEF Surjection
    <2> QED
      BY <2>1, <2>2, FS_Surjection
  <1>2. IsFiniteSet({CommitStage, OpenStage, CancelStage})
    <2>1. IsFiniteSet({CommitStage}) /\ IsFiniteSet({OpenStage}) /\ IsFiniteSet({CancelStage})
      BY FS_Singleton
    <2>2. {CommitStage, OpenStage, CancelStage} = ({CommitStage} \cup {OpenStage}) \cup {CancelStage}
      OBVIOUS
    <2> DEFINE A == {CommitStage}
               B == {OpenStage}
               C == {CancelStage}
    <2>3. IsFiniteSet(A) /\ IsFiniteSet(B) /\ IsFiniteSet(C)
      BY <2>1
    <2> HIDE DEF A, B, C
    <2>4. IsFiniteSet(A \cup B)
      BY <2>3, FS_Union
    <2>5. IsFiniteSet((A \cup B) \cup C)
      BY <2>3, <2>4, FS_Union
    <2> QED
      BY <2>2, <2>5 DEF A, B, C
  <1> QED
    BY <1>1, <1>2, FS_Union DEF Stages

(* The parts in order are stages, no two of them the same. *)
LEMMA InOrderIs ==
    ASSUME setup \in Scenarios, NEW is \in SUBSET setup.parts, is # {}, NEW q \in InOrder(is)
    PROVE  q \in Seq(Stages) /\ q # <<>> /\ Distinct(q)
  <1>1. IsFiniteSet(is) /\ is \subseteq Nat
    BY SetupIs, FS_Subset
  <1>2. Cardinality(is) \in Nat /\ Cardinality(is) # 0
    BY <1>1, FS_CardinalityType, FS_EmptySet
  <1>3. /\ q \in [1 .. Cardinality(is) -> {<<"part", i>> : i \in is}]
        /\ \A k, l \in DOMAIN q : k < l => q[k][2] < q[l][2]
    BY DEF InOrder
  <1>4. \A k \in DOMAIN q : q[k] \in Stages /\ q[k][2] \in Nat
    BY <1>1, <1>3 DEF Stages
  <1>5. q \in Seq(Stages) /\ q # <<>>
    BY <1>2, <1>3, <1>4
  <1>6. ASSUME NEW k \in DOMAIN q, NEW l \in DOMAIN q, k # l, q[k] = q[l]
        PROVE  FALSE
    <2>1. k \in Nat /\ l \in Nat
      BY <1>2, <1>3
    <2>2. CASE k < l
      BY <1>3, <1>4, <1>6, <2>2
    <2>3. CASE l < k
      BY <1>3, <1>4, <1>6, <2>3
    <2> QED
      BY <1>6, <2>1, <2>2, <2>3
  <1> QED
    BY <1>5, <1>6 DEF Distinct

LEMMA OneStage ==
    ASSUME NEW s \in Stages
    PROVE  <<s>> \in Seq(Stages) /\ <<s>> # <<>> /\ Distinct(<<s>>)
  BY DEF Distinct

(* A plan looks at stages, asks for the opening, or goes on to the retries. *)
LEMMA PlansIs ==
    ASSUME setup \in Scenarios, NEW f, NEW h, NEW plan \in Plans(f, h)
    PROVE  /\ plan[1] \in {"look", "open", "retry"}
           /\ plan[1] = "look" => plan[2] \in Seq(Stages) /\ plan[2] # <<>> /\ Distinct(plan[2])
  <1>1. CommitStage \in Stages /\ CancelStage \in Stages
    BY DEF Stages
  <1>2. Arrived(f) \in SUBSET setup.parts
    BY DEF Arrived
  <1>3. CASE plan \in {<<"look", <<CommitStage>>>>, <<"retry", <<>>>>}
    <2>1. <<CommitStage>> \in Seq(Stages) /\ <<CommitStage>> # <<>> /\ Distinct(<<CommitStage>>)
      BY <1>1, OneStage
    <2> DEFINE q == <<CommitStage>>
    <2> HIDE DEF q
    <2>2. plan = <<"look", q>> \/ plan = <<"retry", <<>>>>
      BY <1>3 DEF q
    <2> QED
      BY <2>1, <2>2 DEF q
  <1>4. CASE plan \in {<<"look", <<CancelStage>>>>}
    <2>1. <<CancelStage>> \in Seq(Stages) /\ <<CancelStage>> # <<>> /\ Distinct(<<CancelStage>>)
      BY <1>1, OneStage
    <2> DEFINE q == <<CancelStage>>
    <2> HIDE DEF q
    <2>2. plan = <<"look", q>>
      BY <1>4 DEF q
    <2> QED
      BY <2>1, <2>2 DEF q
  <1>5. CASE CandidateStatus(f) = "open" /\ plan \in {<<"look", q>> : q \in InOrder(setup.parts \ Arrived(f))}
    <2>1. PICK q \in InOrder(setup.parts \ Arrived(f)) : plan = <<"look", q>>
      BY <1>5
    <2>2. Arrived(f) # setup.parts
      BY <1>5 DEF CandidateStatus
    <2>3. setup.parts \ Arrived(f) # {}
      BY <1>2, <2>2
    <2>4. q \in Seq(Stages) /\ q # <<>> /\ Distinct(q)
      BY <2>3, InOrderIs
    <2> QED
      BY <2>1, <2>4
  <1>6. CASE plan \in {<<"open", <<>>>>}
    BY <1>6
  <1>7. CASE plan \in {<<"retry", <<>>>>}
    BY <1>7
  <1> QED
    BY <1>3, <1>4, <1>5, <1>6, <1>7 DEF Plans

-----------------------------------------------------------------------------
(* The initial states. *)

LEMMA ChargedFinite ==
    ASSUME setup \in Scenarios, NEW sent, DOMAIN sent \subseteq Stages, NEW h
    PROVE  IsFiniteSet(ChargedTo(sent, h)) /\ Cardinality(ChargedTo(sent, h)) \in Nat
  <1>1. ChargedTo(sent, h) \subseteq Stages
    BY DEF ChargedTo
  <1> QED
    BY <1>1, StagesFinite, FS_Subset, FS_CardinalityType

LEMMA ChargedGrows ==
    ASSUME setup \in Scenarios, NEW a, NEW b, DOMAIN a \subseteq Stages, DOMAIN b \subseteq Stages, NEW h,
           ChargedTo(a, h) \subseteq ChargedTo(b, h)
    PROVE  /\ Cardinality(ChargedTo(a, h)) =< Cardinality(ChargedTo(b, h))
           /\ \A s \in ChargedTo(b, h) : s \notin ChargedTo(a, h) =>
                 Cardinality(ChargedTo(a, h)) < Cardinality(ChargedTo(b, h))
  <1>1. IsFiniteSet(ChargedTo(b, h)) /\ Cardinality(ChargedTo(b, h)) \in Nat
    BY ChargedFinite
  <1>2. Cardinality(ChargedTo(a, h)) \in Nat
    BY ChargedFinite
  <1>3. /\ Cardinality(ChargedTo(a, h)) =< Cardinality(ChargedTo(b, h))
        /\ Cardinality(ChargedTo(a, h)) = Cardinality(ChargedTo(b, h)) => ChargedTo(a, h) = ChargedTo(b, h)
    BY <1>1, FS_Subset
  <1> QED
    BY <1>1, <1>2, <1>3

LEMMA Initially == Init => IInv
  <1> SUFFICES ASSUME Init PROVE IInv
    OBVIOUS
  <1> DEFINE T == setup.past
  <1>1. setup \in Scenarios
    BY DEF Init
  <1>2. /\ T \in Seq([stage : {CommitStage, OpenStage}, st : {"ok"}, at : 1 .. MaxHead])
        /\ Len(T) < setup.heads /\ Len(T) =< setup.txs
        /\ \A i \in DOMAIN T : T[i].at =< 1 + Len(T)
    BY <1>1, PostingAssumption
  <1>3. /\ head = 1 + Len(T) /\ final = head /\ txs = T /\ pc = "idle" /\ reorgs = 0 /\ faults = 0
        /\ hd = 0 /\ fold = 0 /\ budget = 0 /\ posted = 0 /\ ~ isolated /\ queue = <<>>
        /\ disk = [cancel |-> FALSE, sent |-> PastSent] /\ mem = disk
        /\ calls = [i \in 1 .. MaxTx |-> 0] /\ attempts = [h \in 1 .. MaxHead |-> 0]
    BY DEF Init
  <1> HIDE DEF T
  <1>4. \A i \in DOMAIN T : /\ T[i].stage \in Stages /\ T[i].st = "ok" /\ T[i].at \in 1 .. MaxHead
                            /\ T[i].at =< 1 + Len(T) /\ i \in 1 .. Len(T)
                            /\ T[i] \in TxRecords
    <2> SUFFICES ASSUME NEW i \in DOMAIN T
                 PROVE  /\ T[i].stage \in Stages /\ T[i].st = "ok" /\ T[i].at \in 1 .. MaxHead
                        /\ T[i].at =< 1 + Len(T) /\ i \in 1 .. Len(T)
                        /\ T[i] \in TxRecords
      OBVIOUS
    <2> DEFINE S == [stage : {CommitStage, OpenStage}, st : {"ok"}, at : 1 .. MaxHead]
    <2> HIDE DEF S
    <2>3. T \in Seq(S)
      BY <1>2 DEF S
    <2>4. T[i] \in S /\ i \in 1 .. Len(T)
      BY <2>3
    <2>1. T[i] \in [stage : {CommitStage, OpenStage}, st : {"ok"}, at : 1 .. MaxHead] /\ i \in 1 .. Len(T)
      BY <2>4 DEF S
    <2>2. {CommitStage, OpenStage} \subseteq Stages
      BY DEF Stages
    <2>5. T[i].stage \in Stages /\ T[i].st = "ok" /\ T[i].at \in 1 .. MaxHead
      BY <2>1, <2>2
    <2>6. T[i].at \in 0 .. MaxHead
      BY <1>1, <2>5, SetupIs
    <2>7. T[i] \in TxRecords
      BY <2>1, <2>2, <2>6 DEF TxRecords
    <2> QED
      BY <1>2, <2>1, <2>5, <2>7
  <1>5. T \in Seq(TxRecords)
    BY <1>2, <1>4
  <1>6. ChainOK
    <2>1. head \in 1 .. setup.heads /\ final \in 1 .. head /\ Len(T) \in Nat
      BY <1>1, <1>2, <1>3, SetupIs
    <2>2. calls \in [1 .. MaxTx -> 0 .. 1 + Rebroadcasts] /\ \A i \in 1 .. MaxTx : i > Len(txs) => calls[i] = 0
      BY <1>1, <1>3, SetupIs
    <2>3. faults \in 0 .. setup.faults /\ reorgs \in 0 .. setup.reorgs /\ Len(txs) =< MaxTx
      BY <1>1, <1>2, <1>3, <2>1, SetupIs
    <2>4. \A i \in DOMAIN txs : txs[i].at =< head /\ (txs[i].st = "signed" => txs[i].at = 0)
      BY <1>3, <1>4
    <2> QED
      BY <1>1, <1>3, <1>5, <2>1, <2>2, <2>3, <2>4 DEF ChainOK
  <1>7. IsSub(disk) /\ disk.sent = PastSent /\ mem = disk
    BY <1>3, SubIs
  <1>8. SentOK(PastSent, Stages, txs, calls, reorgs, head)
    <2>1. DOMAIN PastSent = {T[i].stage : i \in DOMAIN T}
      BY DEF PastSent, T
    <2>2. ASSUME NEW s \in DOMAIN PastSent
          PROVE  s \in Stages /\ RecOK(s, PastSent[s], txs, calls, reorgs, head)
      <3> DEFINE i == CHOOSE j \in DOMAIN T : T[j].stage = s
      <3>1. i \in DOMAIN T /\ T[i].stage = s
        BY <2>1, <2>2
      <3>2. PastSent[s] = Acked(i)
        BY <2>2 DEF PastSent, T
      <3> HIDE DEF i
      <3> DEFINE a == Acked(i)
      <3>3. /\ a.head = T[i].at /\ a.tx = i /\ ~ a.failed /\ a.ss = "ack" /\ a.tries = 0 /\ a.last = 0
        BY DEF Acked, T
      <3>4. T[i].at \in 0 .. MaxHead /\ i \in 0 .. MaxTx
        <4>1. i \in 1 .. Len(T) /\ T[i].at \in 1 .. MaxHead
          BY <1>4, <3>1
        <4>2. MaxHead \in Nat /\ MaxTx \in Nat /\ setup.txs \in Nat /\ setup.txs =< MaxTx
          BY <1>1, SetupIs
        <4>3. Len(T) \in Nat /\ Len(T) =< setup.txs
          BY <1>2
        <4>4. Len(T) =< MaxTx
          BY <4>2, <4>3
        <4>5. T[i].at \in 0 .. MaxHead
          BY <4>1, <4>2
        <4>6. i \in 0 .. MaxTx
          BY <4>1, <4>2, <4>3, <4>4
        <4> QED
          BY <4>5, <4>6
      <3>5. a \in SentRecords
        <4>1. /\ {0} \subseteq 0 .. Rebroadcasts /\ {0} \subseteq 0 .. MaxHead
          BY <1>1, SetupIs
        <4> QED
          BY <3>4, <4>1 DEF Acked, SentRecords, T
      <3> HIDE DEF a
      <3>6. calls[i] = 0
        <4>1. i \in 1 .. Len(T)
          BY <1>4, <3>1
        <4>2. i \in 1 .. MaxTx
          BY <4>1, <1>1, <1>2, SetupIs
        <4> QED
          BY <1>3, <4>2
      <3>7. RecOK(s, a, txs, calls, reorgs, head)
        BY <3>1, <3>3, <3>5, <3>6, <1>3 DEF RecOK
      <3> QED
        BY <3>1, <3>2, <3>7, <1>4 DEF a
    <2>3. PastSent = [s \in DOMAIN PastSent |-> PastSent[s]]
      BY DEF PastSent
    <2> QED
      BY <2>2, <2>3 DEF SentOK
  <1>9. RecordsOK
    BY <1>7, <1>8 DEF RecordsOK
  <1>10. Sync
    <2>1. isolated \in BOOLEAN
      BY DEF Init
    <2>2. hd \in 0 .. head /\ fold \in 0 .. hd /\ fold =< final
      BY <1>3, <1>6 DEF ChainOK
    <2> QED
      BY <1>3, <1>7, <2>1, <2>2 DEF Sync, Places
  <1>11. Stepping
    BY <1>3 DEF Stepping, Working
  <1>12. Flight
    <2>1. ASSUME NEW i \in DOMAIN txs
          PROVE  ~ Flying(txs[i], final)
      <3>1. T[i].st = "ok" /\ T[i].at \in 1 .. MaxHead /\ T[i].at =< 1 + Len(T)
        BY <1>3, <1>4
      <3>2. Len(T) \in Nat
        BY <1>2
      <3> QED
        BY <1>3, <3>1, <3>2 DEF Flying
    <2> QED
      BY <1>3, <2>1 DEF Flight, Recorded
  <1>13. Fresh
    BY <1>3 DEF Fresh, Working
  <1>14. Budget
    <2>1. Cardinality(ChargedTo(disk.sent, head)) \in Nat
      BY <1>1, <1>7, <1>8, ChargedFinite DEF SentOK
    <2>2. head \in 1 .. MaxHead
      BY <1>1, <1>6, SetupIs DEF ChainOK
    <2>3. attempts \in [1 .. MaxHead -> Nat] /\ \A h \in 1 .. MaxHead : attempts[h] = 0
      BY <1>3
    <2>4. PBlk \in Nat
      BY <1>1, SetupIs
    <2> QED
      BY <1>3, <2>1, <2>2, <2>3, <2>4 DEF Budget, Sending
  <1> QED
    BY <1>6, <1>9, <1>10, <1>11, <1>12, <1>13, <1>14 DEF IInv

-----------------------------------------------------------------------------
(* The chain moves. *)

(* What any step of the chain is to the client. *)
ChainMoves ==
    /\ UNCHANGED <<setup, recordVars, pc, tickVars, todo, queue, reply, posted, history, faults>>
    /\ head' \in Nat /\ head =< head' /\ head' =< setup.heads
    /\ final' \in Nat /\ final =< final' /\ final' =< head'
    /\ reorgs' \in Nat /\ reorgs =< reorgs' /\ reorgs' =< setup.reorgs
    /\ txs' \in Seq(TxRecords) /\ Len(txs') = Len(txs)
    /\ \A i \in DOMAIN txs' : txs'[i].at =< head' /\ (txs'[i].st = "signed" => txs'[i].at = 0)
    /\ TxStep(txs, txs', reorgs', head)
    /\ reorgs' = 0 => \A i \in DOMAIN txs : Flying(txs'[i], final') => Flying(txs[i], final)
    /\ pc = "deliver" => \A i \in DOMAIN txs : txs[i].st = "signed" => txs'[i].st = "signed"

LEMMA ChainKeeps ==
    ASSUME IInv, ChainMoves
    PROVE  IInv'
  <1>1. /\ setup' = setup /\ disk' = disk /\ mem' = mem /\ isolated' = isolated /\ pc' = pc
        /\ hd' = hd /\ fold' = fold /\ budget' = budget /\ todo' = todo /\ queue' = queue /\ reply' = reply
        /\ posted' = posted /\ calls' = calls /\ attempts' = attempts /\ faults' = faults
    BY DEF ChainMoves, recordVars, tickVars, history
  <1>2. /\ head \in Nat /\ head' \in Nat /\ head =< head' /\ final \in Nat /\ final =< head /\ final' \in Nat
        /\ reorgs \in Nat /\ reorgs' \in Nat /\ reorgs =< reorgs' /\ setup \in Scenarios
        /\ txs \in Seq(TxRecords) /\ txs' \in Seq(TxRecords) /\ Len(txs') = Len(txs) /\ final =< final'
        /\ DOMAIN txs' = DOMAIN txs
    BY SetupIs DEF IInv, ChainOK, ChainMoves
  <1>3. Stages' = Stages /\ TxRecords' = TxRecords
    BY <1>1 DEF Stages, TxRecords
  <1>4. ChainOK'
    <2>1. head' \in 1 .. setup.heads /\ final' \in 1 .. head' /\ reorgs' \in 0 .. setup.reorgs
      BY <1>2, SetupIs DEF IInv, ChainOK, ChainMoves
    <2>2. \A i \in DOMAIN txs' : txs'[i].at =< head' /\ (txs'[i].st = "signed" => txs'[i].at = 0)
      BY DEF ChainMoves
    <2> QED
      BY <1>1, <1>2, <1>3, <2>1, <2>2 DEF IInv, ChainOK
  <1>5. RecordsOK'
    <2>1. \A i \in DOMAIN txs' : txs'[i].at \in Nat
      <3> SUFFICES ASSUME NEW i \in DOMAIN txs' PROVE txs'[i].at \in Nat
        OBVIOUS
      <3>1. txs'[i] \in TxRecords
        BY <1>2
      <3> QED
        BY <1>2, <3>1, SetupIs DEF TxRecords
    <2>2. TxStep(txs, txs', reorgs', head)
      BY DEF ChainMoves
    <2>3. SentOK(disk.sent, Stages, txs', calls, reorgs', head')
      <3>1. SentOK(disk.sent, Stages, txs, calls, reorgs, head)
        BY DEF IInv, RecordsOK
      <3>2. \A s \in DOMAIN disk.sent : disk.sent[s].tx # 0 => calls[disk.sent[s].tx] =< 1 + disk.sent[s].tries
        BY <3>1 DEF SentOK, RecOK
      <3> QED
        BY <1>2, <2>1, <2>2, <3>1, <3>2, SentCarries
    <2>4. SentOK(mem.sent, Stages, txs', calls, reorgs', head')
      <3>1. SentOK(mem.sent, Stages, txs, calls, reorgs, head)
        BY DEF IInv, RecordsOK
      <3>2. \A s \in DOMAIN mem.sent : mem.sent[s].tx # 0 => calls[mem.sent[s].tx] =< 1 + mem.sent[s].tries
        BY <3>1 DEF SentOK, RecOK
      <3> QED
        BY <1>2, <2>1, <2>2, <3>1, <3>2, SentCarries
    <2> QED
      BY <1>1, <1>3, <2>3, <2>4 DEF IInv, RecordsOK
  <1>6. Sync'
    <2>1. hd \in 0 .. head' /\ fold =< final'
      BY <1>2 DEF IInv, Sync
    <2> QED
      BY <1>1, <2>1 DEF IInv, Sync
  <1>7. Stepping'
    <2>1. pc = "deliver" => txs'[mem.sent[Head(todo)].tx].st = "signed"
      <3> SUFFICES ASSUME pc = "deliver" PROVE txs'[mem.sent[Head(todo)].tx].st = "signed"
        OBVIOUS
      <3> DEFINE s == Head(todo)
                 i == mem.sent[s].tx
      <3>1. s \in DOMAIN mem.sent /\ i # 0 /\ txs[i].st = "signed"
        BY DEF IInv, Stepping
      <3>2. RecOK(s, mem.sent[s], txs, calls, reorgs, head)
        BY <3>1 DEF IInv, RecordsOK, SentOK
      <3>3. i \in DOMAIN txs
        BY <3>1, <3>2 DEF RecOK
      <3> QED
        BY <3>1, <3>3 DEF ChainMoves
    <2> QED
      BY <1>1, <1>2, <1>3, <2>1 DEF IInv, Stepping, UnderWay
  <1>8. Flight'
    <2> SUFFICES ASSUME reorgs' = 0
                 PROVE  /\ Recorded(disk.sent, txs', final')
                        /\ pc = "sign" \/ (pc = "record" /\ reply = "notsent") => Grounded(Head(todo), txs', final')
      BY <1>1 DEF Flight
    <2>1. /\ Recorded(disk.sent, txs, final)
          /\ pc = "sign" \/ (pc = "record" /\ reply = "notsent") => Grounded(Head(todo), txs, final)
      BY <1>2 DEF IInv, Flight
    <2>2. \A i \in DOMAIN txs : txs'[i].stage = txs[i].stage /\ (Flying(txs'[i], final') => Flying(txs[i], final))
      BY DEF ChainMoves, TxStep
    <2> QED
      BY <1>2, <2>1, <2>2 DEF Recorded, Grounded
  <1>9. Fresh'
    BY <1>1, <1>2 DEF IInv, Fresh
  <1>10. Budget'
    <2>1. head \in 1 .. MaxHead /\ head' \in 1 .. MaxHead /\ hd \in Nat /\ hd =< head /\ PBlk \in Nat
      <3>1. MaxHead \in Nat /\ setup.heads \in Nat /\ setup.heads =< MaxHead /\ PBlk \in Nat
        BY <1>2, SetupIs
      <3>2. 1 =< head /\ head' =< setup.heads
        BY <1>2 DEF IInv, ChainOK, ChainMoves
      <3>3. hd \in Nat /\ hd =< head
        BY <1>2 DEF IInv, Sync
      <3>4. head \in 1 .. MaxHead /\ head' \in 1 .. MaxHead
        BY <1>2, <3>1, <3>2
      <3> QED
        BY <3>1, <3>3, <3>4
    <2>2. CASE head' = head
      BY <1>1, <1>2, <2>2 DEF IInv, Budget
    <2>3. CASE head' # head
      <3>1. attempts[head'] = 0 /\ hd # head' /\ \A h \in 1 .. MaxHead : h > head' => h > head
        BY <1>2, <2>1, <2>3 DEF IInv, Budget
      <3>2. Cardinality(ChargedTo(disk.sent, head')) \in Nat
        BY <1>2, ChargedFinite DEF IInv, RecordsOK, SentOK
      <3> QED
        BY <1>1, <1>2, <2>1, <3>1, <3>2 DEF IInv, Budget
    <2> QED
      BY <2>2, <2>3
  <1> QED
    BY <1>4, <1>5, <1>6, <1>7, <1>8, <1>9, <1>10 DEF IInv

(* A block with some of the pending transactions. *)
LEMMA FilledIs ==
    ASSUME ChainOK, NEW is \in SUBSET DOMAIN txs, NEW h \in 1 .. MaxHead, NEW T \in Filled(is, h)
    PROVE  /\ T \in Seq(TxRecords) /\ Len(T) = Len(txs) /\ DOMAIN T = DOMAIN txs
           /\ \A i \in DOMAIN txs :
                 /\ T[i].stage = txs[i].stage
                 /\ i \notin is => T[i] = txs[i]
                 /\ i \in is => \/ T[i].st = "pool" /\ T[i].at = 0
                                \/ T[i].st \in {"ok", "rev"} /\ T[i].at = h
  <1>1. PICK res \in [is -> {"pool", "ok", "rev"}] :
           T = [i \in DOMAIN txs |-> IF i \in is THEN [txs[i] EXCEPT !.st = res[i], !.at = IF res[i] = "pool" THEN 0 ELSE h]
                                     ELSE txs[i]]
    BY DEF Filled
  <1>2. txs \in Seq(TxRecords) /\ MaxHead \in Nat
    BY SetupIs DEF ChainOK
  <1>3. \A i \in DOMAIN txs : txs[i] \in TxRecords
    BY <1>2
  <1>4. ASSUME NEW i \in DOMAIN txs
        PROVE  /\ T[i] \in TxRecords /\ T[i].stage = txs[i].stage
               /\ i \notin is => T[i] = txs[i]
               /\ i \in is => \/ T[i].st = "pool" /\ T[i].at = 0
                              \/ T[i].st \in {"ok", "rev"} /\ T[i].at = h
    <2>1. CASE i \notin is
      BY <1>1, <1>3, <2>1
    <2>2. CASE i \in is
      <3>1. res[i] \in {"pool", "ok", "rev"}
        BY <1>1, <2>2
      <3> DEFINE v == IF res[i] = "pool" THEN 0 ELSE h
                 st == res[i]
      <3>7. T[i] = [txs[i] EXCEPT !.st = res[i], !.at = IF res[i] = "pool" THEN 0 ELSE h]
        BY <1>1, <2>2
      <3>8. v \in 0 .. MaxHead /\ st \in {"pool", "ok", "rev"}
        BY <3>1, <1>2
      <3>2. T[i] = [txs[i] EXCEPT !.st = st, !.at = v] /\ v \in 0 .. MaxHead /\ st \in {"pool", "ok", "rev"}
        BY <3>7, <3>8
      <3>3. st = "pool" => v = 0
        OBVIOUS
      <3>4. st # "pool" => v = h
        OBVIOUS
      <3> HIDE DEF v, st
      <3>5. txs[i] \in TxRecords
        BY <1>3
      <3>6. T[i] \in TxRecords /\ T[i].stage = txs[i].stage /\ T[i].st = st /\ T[i].at = v
        BY <3>2, <3>5 DEF TxRecords
      <3> QED
        BY <2>2, <3>2, <3>3, <3>4, <3>6
    <2> QED
      BY <2>1, <2>2
  <1>8. DOMAIN T = DOMAIN txs
    BY <1>1
  <1>5. DOMAIN T = DOMAIN txs /\ DOMAIN txs = 1 .. Len(txs) /\ Len(txs) \in Nat
    BY <1>2, <1>8
  <1>6. T \in [1 .. Len(txs) -> TxRecords]
    BY <1>1, <1>4, <1>5
  <1>7. T \in Seq(TxRecords) /\ Len(T) = Len(txs)
    BY <1>5, <1>6
  <1> QED
    BY <1>4, <1>5, <1>7

LEMMA MineKeeps ==
    ASSUME IInv, Mine
    PROVE  IInv'
  <1> DEFINE is == {i \in DOMAIN txs : txs[i].st = "pool"}
             h == head + 1
  <1>1. ChainOK /\ head < setup.heads /\ setup \in Scenarios
    BY DEF IInv, ChainOK, Mine
  <1>2. head \in Nat /\ h \in 1 .. MaxHead /\ h =< setup.heads /\ final \in Nat /\ final =< head
    <2>1. head \in 1 .. setup.heads /\ final \in 1 .. head /\ setup.heads \in Nat /\ setup.heads =< MaxHead /\ MaxHead \in Nat
      BY <1>1, SetupIs DEF ChainOK
    <2> QED
      BY <1>1, <2>1
  <1>3. txs' \in Filled(is, h) /\ is \in SUBSET DOMAIN txs
    BY DEF Mine
  <1>4. /\ head' = h /\ final' = final /\ reorgs' = reorgs
        /\ UNCHANGED <<setup, recordVars, pc, tickVars, todo, queue, reply, posted, history, faults>>
    BY DEF Mine
  <1> HIDE DEF is, h
  <1>5. /\ txs' \in Seq(TxRecords) /\ Len(txs') = Len(txs) /\ DOMAIN txs' = DOMAIN txs
        /\ \A i \in DOMAIN txs :
              /\ txs'[i].stage = txs[i].stage
              /\ i \notin is => txs'[i] = txs[i]
              /\ i \in is => \/ txs'[i].st = "pool" /\ txs'[i].at = 0
                             \/ txs'[i].st \in {"ok", "rev"} /\ txs'[i].at = h
    BY <1>1, <1>2, <1>3, FilledIs
  <1>6. \A i \in DOMAIN txs : i \in is <=> txs[i].st = "pool"
    BY DEF is
  <1>7. head < h /\ h \in Nat
    BY <1>2 DEF h
  <1>8. \A i \in DOMAIN txs : txs[i].at \in Nat /\ txs[i].at =< head /\ (txs[i].st = "signed" => txs[i].at = 0)
    <2> SUFFICES ASSUME NEW i \in DOMAIN txs
                 PROVE  txs[i].at \in Nat /\ txs[i].at =< head /\ (txs[i].st = "signed" => txs[i].at = 0)
      OBVIOUS
    <2>1. txs[i] \in TxRecords
      BY <1>1 DEF ChainOK
    <2> QED
      BY <1>1, <2>1, SetupIs DEF ChainOK, TxRecords
  <1>9. \A i \in DOMAIN txs' : txs'[i].at =< head' /\ (txs'[i].st = "signed" => txs'[i].at = 0)
    BY <1>2, <1>4, <1>5, <1>7, <1>8
  <1>10. TxStep(txs, txs', reorgs', head)
    BY <1>5, <1>6, <1>7 DEF TxStep
  <1>11. \A i \in DOMAIN txs : Flying(txs'[i], final') => Flying(txs[i], final)
    BY <1>4, <1>5, <1>6 DEF Flying
  <1>12. pc = "deliver" => \A i \in DOMAIN txs : txs[i].st = "signed" => txs'[i].st = "signed"
    BY <1>5, <1>6
  <1>13. reorgs \in Nat /\ reorgs =< setup.reorgs
    BY <1>1, SetupIs DEF ChainOK
  <1>14. ChainMoves
    BY <1>2, <1>4, <1>5, <1>7, <1>9, <1>10, <1>11, <1>12, <1>13 DEF ChainMoves
  <1> QED
    BY <1>14, ChainKeeps

LEMMA FinalizeKeeps ==
    ASSUME IInv, Finalize
    PROVE  IInv'
  <1>1. ChainOK /\ setup \in Scenarios
    BY DEF IInv, ChainOK
  <1>2. /\ head' = head /\ final' = final + 1 /\ final < head /\ reorgs' = reorgs /\ txs' = txs
        /\ UNCHANGED <<setup, recordVars, pc, tickVars, todo, queue, reply, posted, history, faults>>
    BY DEF Finalize
  <1>3. /\ head \in Nat /\ head =< setup.heads /\ final \in Nat /\ reorgs \in Nat /\ reorgs =< setup.reorgs
        /\ txs \in Seq(TxRecords)
    BY <1>1, SetupIs DEF ChainOK
  <1>4. \A i \in DOMAIN txs : txs[i].at \in Nat
    <2> SUFFICES ASSUME NEW i \in DOMAIN txs PROVE txs[i].at \in Nat
      OBVIOUS
    <2>1. txs[i] \in TxRecords
      BY <1>3
    <2> QED
      BY <1>1, <2>1, SetupIs DEF TxRecords
  <1>5. \A i \in DOMAIN txs : Flying(txs[i], final') => Flying(txs[i], final)
    BY <1>2, <1>3, <1>4 DEF Flying
  <1>6. TxStep(txs, txs', reorgs', head)
    BY <1>2 DEF TxStep
  <1>7. \A i \in DOMAIN txs : txs[i].at =< head /\ (txs[i].st = "signed" => txs[i].at = 0)
    BY <1>1 DEF ChainOK
  <1>8. ChainMoves
    BY <1>2, <1>3, <1>5, <1>6, <1>7 DEF ChainMoves
  <1> QED
    BY <1>8, ChainKeeps

LEMMA ReorgKeeps ==
    ASSUME IInv, Reorg
    PROVE  IInv'
  <1> DEFINE is == {i \in DOMAIN txs : txs[i].st = "pool" \/ txs[i].at = head}
  <1>1. ChainOK /\ setup \in Scenarios
    BY DEF IInv, ChainOK
  <1>2. head \in 1 .. MaxHead /\ head \in Nat /\ head =< setup.heads /\ final \in Nat /\ final =< head /\ reorgs \in Nat
    BY <1>1, SetupIs DEF ChainOK
  <1>3. txs' \in Filled(is, head) /\ is \in SUBSET DOMAIN txs
    BY DEF Reorg
  <1>4. /\ head' = head /\ final' = final /\ reorgs' = reorgs + 1 /\ reorgs < setup.reorgs
        /\ UNCHANGED <<setup, recordVars, pc, tickVars, todo, queue, reply, posted, history, faults>>
    BY DEF Reorg
  <1>5. \A i \in DOMAIN txs : i \in is => txs[i].st = "pool" \/ txs[i].at = head
    OBVIOUS
  <1> HIDE DEF is
  <1>6. /\ txs' \in Seq(TxRecords) /\ Len(txs') = Len(txs) /\ DOMAIN txs' = DOMAIN txs
        /\ \A i \in DOMAIN txs :
              /\ txs'[i].stage = txs[i].stage
              /\ i \notin is => txs'[i] = txs[i]
              /\ i \in is => \/ txs'[i].st = "pool" /\ txs'[i].at = 0
                             \/ txs'[i].st \in {"ok", "rev"} /\ txs'[i].at = head
    BY <1>1, <1>2, <1>3, FilledIs
  <1>7. \A i \in DOMAIN txs : txs[i].at =< head /\ (txs[i].st = "signed" => txs[i].at = 0)
    BY <1>1 DEF ChainOK
  <1>8. \A i \in DOMAIN txs' : txs'[i].at =< head' /\ (txs'[i].st = "signed" => txs'[i].at = 0)
    BY <1>2, <1>4, <1>6, <1>7
  <1>9. reorgs' # 0 /\ reorgs' \in Nat /\ reorgs =< reorgs' /\ reorgs' =< setup.reorgs
    BY <1>1, <1>2, <1>4, SetupIs
  <1>10. TxStep(txs, txs', reorgs', head)
    BY <1>6, <1>9 DEF TxStep
  <1>11. \A i \in DOMAIN txs : txs[i].st = "signed" => txs'[i].st = "signed"
    BY <1>2, <1>5, <1>6, <1>7
  <1>12. ChainMoves
    BY <1>2, <1>4, <1>6, <1>8, <1>9, <1>10, <1>11 DEF ChainMoves
  <1> QED
    BY <1>12, ChainKeeps

(* One transaction changes its state and nothing else. *)
LEMMA NewSt ==
    ASSUME NEW T \in Seq(TxRecords), NEW i \in DOMAIN T, NEW v \in {"signed", "pool", "lost", "gone", "ok", "rev"},
           NEW U, U = [T EXCEPT ![i].st = v]
    PROVE  /\ U \in Seq(TxRecords)
           /\ Len(U) = Len(T) /\ DOMAIN U = DOMAIN T
           /\ U[i].st = v /\ U[i].at = T[i].at /\ U[i].stage = T[i].stage
           /\ \A j \in DOMAIN T : j # i => U[j] = T[j]
  <1> DEFINE t == [T[i] EXCEPT !.st = v]
  <1>1. T[i] \in TxRecords
    OBVIOUS
  <1>2. t \in TxRecords /\ t.st = v /\ t.at = T[i].at /\ t.stage = T[i].stage
    BY <1>1 DEF TxRecords
  <1>3. U = [T EXCEPT ![i] = t]
    OBVIOUS
  <1> HIDE DEF t
  <1>4. U \in Seq(TxRecords) /\ Len(U) = Len(T) /\ DOMAIN U = DOMAIN T /\ U[i] = t /\ \A j \in DOMAIN T : j # i => U[j] = T[j]
    BY <1>2, <1>3
  <1> QED
    BY <1>2, <1>4

LEMMA ForgetKeeps ==
    ASSUME IInv, NEW i, Forget(i)
    PROVE  IInv'
  <1>1. ChainOK /\ setup \in Scenarios /\ i \in DOMAIN txs
    BY DEF IInv, ChainOK, Forget
  <1>2. /\ head \in Nat /\ head =< setup.heads /\ final \in Nat /\ reorgs \in Nat /\ reorgs =< setup.reorgs
        /\ txs \in Seq(TxRecords) /\ final =< head
    BY <1>1, SetupIs DEF ChainOK
  <1>3. \E v \in {"lost", "gone"} : /\ txs' = [txs EXCEPT ![i].st = v]
                                    /\ v = "lost" => txs[i].st = "pool"
                                    /\ v = "gone" => txs[i].st = "lost" \/ (txs[i].st = "signed" /\ pc # "deliver")
    BY DEF Forget
  <1>4. PICK v \in {"lost", "gone"} : /\ txs' = [txs EXCEPT ![i].st = v]
                                      /\ v = "lost" => txs[i].st = "pool"
                                      /\ v = "gone" => txs[i].st = "lost" \/ (txs[i].st = "signed" /\ pc # "deliver")
    BY <1>3
  <1>5. /\ head' = head /\ final' = final /\ reorgs' = reorgs
        /\ UNCHANGED <<setup, recordVars, pc, tickVars, todo, queue, reply, posted, history, faults>>
    BY DEF Forget, chainVars
  <1>6. /\ txs' \in Seq(TxRecords) /\ Len(txs') = Len(txs) /\ DOMAIN txs' = DOMAIN txs
        /\ txs'[i].st = v /\ txs'[i].at = txs[i].at /\ txs'[i].stage = txs[i].stage
        /\ \A j \in DOMAIN txs : j # i => txs'[j] = txs[j]
    BY <1>1, <1>2, <1>4, NewSt
  <1>7. \A j \in DOMAIN txs : txs[j].at =< head /\ (txs[j].st = "signed" => txs[j].at = 0)
    BY <1>1 DEF ChainOK
  <1>8. \A j \in DOMAIN txs' : txs'[j].at =< head' /\ (txs'[j].st = "signed" => txs'[j].at = 0)
    BY <1>4, <1>5, <1>6, <1>7
  <1>9. TxStep(txs, txs', reorgs', head)
    BY <1>4, <1>6 DEF TxStep
  <1>10. \A j \in DOMAIN txs : Flying(txs'[j], final') => Flying(txs[j], final)
    BY <1>4, <1>5, <1>6 DEF Flying
  <1>11. pc = "deliver" => \A j \in DOMAIN txs : txs[j].st = "signed" => txs'[j].st = "signed"
    BY <1>4, <1>6
  <1>12. ChainMoves
    BY <1>2, <1>5, <1>6, <1>8, <1>9, <1>10, <1>11 DEF ChainMoves
  <1> QED
    BY <1>12, ChainKeeps

-----------------------------------------------------------------------------
(* Steps of the client that send nothing. *)

Sound(sent) == SentOK(sent, Stages, txs, calls, reorgs, head)

Quiet ==
    /\ UNCHANGED <<chainVars, txs, tickVars, history>>
    /\ faults' \in 0 .. setup.faults /\ posted' = posted

(* Both copies stay sound, and the disk names the same transactions. *)
RecordsMove ==
    /\ IsSub(disk') /\ Sound(disk'.sent) /\ IsSub(mem') /\ Sound(mem'.sent)
    /\ KinSent(disk.sent, disk'.sent)

QueueOK(q) == q \in Seq(Stages) /\ \A k \in DOMAIN q : q[k][1] = "part"

AllCleared(sent, h) == \A s \in DOMAIN sent : Cleared(s, sent, h)

TodoOK(q, sent, h, R) ==
    /\ q \in Seq(Stages) /\ q # <<>> /\ Distinct(q)
    /\ R = 0 => \A k \in DOMAIN q : Cleared(q[k], sent, h)

(* Where such a step may lead. *)
Rests ==
    /\ pc' \in {"idle", "retry", "recover", "resumed", "open", "look"} /\ isolated' \in BOOLEAN
    /\ QueueOK(queue')
    /\ hd = 0 => pc' = "idle" /\ ~ isolated'
    /\ isolated' => pc' \in {"idle", "retry"} /\ queue' = <<>>
    /\ ~ isolated' /\ pc' # "recover" => mem'.sent = disk'.sent
    /\ pc' \in {"resumed", "open"} /\ reorgs = 0 => AllCleared(mem'.sent, hd)
    /\ pc' = "look" => TodoOK(todo', mem'.sent, hd, reorgs)

LEMMA QuietIs ==
    ASSUME Quiet
    PROVE  /\ setup' = setup /\ head' = head /\ final' = final /\ reorgs' = reorgs /\ txs' = txs
           /\ hd' = hd /\ fold' = fold /\ budget' = budget /\ calls' = calls /\ attempts' = attempts
           /\ posted' = posted /\ Stages' = Stages /\ TxRecords' = TxRecords
  BY DEF Quiet, chainVars, tickVars, history, Stages, TxRecords

LEMMA QuietKeeps ==
    ASSUME IInv, Quiet, RecordsMove, pc' \notin Sending, pc' # "record"
    PROVE  ChainOK' /\ RecordsOK' /\ Flight' /\ Budget'
  <1>1. /\ setup' = setup /\ head' = head /\ final' = final /\ reorgs' = reorgs /\ txs' = txs
        /\ hd' = hd /\ fold' = fold /\ budget' = budget /\ calls' = calls /\ attempts' = attempts
        /\ posted' = posted /\ Stages' = Stages /\ TxRecords' = TxRecords
    BY QuietIs
  <1>2. ChainOK'
    <2>1. faults' \in 0 .. setup.faults
      BY DEF Quiet
    <2> QED
      BY <1>1, <2>1 DEF IInv, ChainOK
  <1>3. RecordsOK'
    BY <1>1 DEF RecordsMove, RecordsOK, Sound
  <1>4. Flight'
    <2> SUFFICES ASSUME reorgs = 0 PROVE Recorded(disk'.sent, txs, final)
      BY <1>1 DEF Flight, Sending
    <2>1. Recorded(disk.sent, txs, final)
      BY DEF IInv, Flight
    <2>2. KinSent(disk.sent, disk'.sent)
      BY DEF RecordsMove
    <2> QED
      BY <2>1, <2>2, KinRecorded
  <1>5. Budget'
    <2>1. KinSent(disk.sent, disk'.sent)
      BY DEF RecordsMove
    <2>2. ChargedTo(disk'.sent, head) = ChargedTo(disk.sent, head)
      BY <2>1, KinCharged
    <2> QED
      BY <1>1, <2>2 DEF IInv, Budget
  <1> QED
    BY <1>2, <1>3, <1>4, <1>5

LEMMA ToRest ==
    ASSUME IInv, Quiet, RecordsMove, Rests
    PROVE  IInv'
  <1>1. /\ setup' = setup /\ head' = head /\ final' = final /\ reorgs' = reorgs /\ txs' = txs
        /\ hd' = hd /\ fold' = fold /\ budget' = budget /\ calls' = calls /\ attempts' = attempts
        /\ posted' = posted /\ Stages' = Stages /\ TxRecords' = TxRecords
    BY QuietIs
  <1>2. pc' \notin Sending /\ pc' # "record"
    BY DEF Rests, Sending
  <1>3. ChainOK' /\ RecordsOK' /\ Flight' /\ Budget'
    BY <1>2, QuietKeeps
  <1>4. Sync'
    BY <1>1 DEF IInv, Sync, Rests, Places
  <1>5. Stepping'
    BY <1>1 DEF Stepping, Rests, QueueOK, TodoOK, Working
  <1>6. Fresh'
    <2>1. pc' # "resume"
      BY DEF Rests
    <2>2. pc' \in Working => pc' = "look"
      BY DEF Rests, Working
    <2> QED
      BY <1>1, <2>1, <2>2 DEF Fresh, Rests, AllCleared, TodoOK
  <1> QED
    BY <1>3, <1>4, <1>5, <1>6 DEF IInv

(* The invariant, as far as one step needs it. *)
LEMMA IInvIs ==
    ASSUME IInv
    PROVE  /\ setup \in Scenarios /\ IsSub(disk) /\ Sound(disk.sent) /\ IsSub(mem) /\ Sound(mem.sent)
           /\ QueueOK(queue) /\ isolated \in BOOLEAN /\ faults \in 0 .. setup.faults
           /\ hd \in Nat /\ head \in Nat /\ final \in Nat /\ fold \in Nat /\ fold =< hd /\ hd =< head /\ fold =< final
           /\ DOMAIN mem.sent \subseteq Stages /\ DOMAIN disk.sent \subseteq Stages
           /\ \A s \in DOMAIN mem.sent : RecOK(s, mem.sent[s], txs, calls, reorgs, head)
  BY DEF IInv, ChainOK, RecordsOK, Sync, Stepping, QueueOK, Sound, SentOK

(* Copies that do not move. *)
LEMMA StillMove ==
    ASSUME IInv, UNCHANGED <<disk, mem>>
    PROVE  RecordsMove
  <1>1. KinSent(disk.sent, disk.sent)
    BY DEF KinSent, Kin
  <1> QED
    BY <1>1, IInvIs DEF RecordsMove

(* A write of a record for the same transaction. *)
LEMMA SaveIs ==
    ASSUME IInv, mem.sent = disk.sent, NEW s \in DOMAIN mem.sent, NEW rec,
           RecOK(s, rec, txs, calls, reorgs, head), Kin(mem.sent[s], rec), Save(WithSent(mem, s, rec))
    PROVE  /\ RecordsMove /\ isolated' = isolated /\ faults' = faults
           /\ mem'.sent = Put(mem.sent, s, rec) /\ disk'.sent = mem'.sent
  <1> DEFINE sub == WithSent(mem, s, rec)
  <1>1. IsSub(sub) /\ sub.sent = Put(mem.sent, s, rec)
    BY IInvIs, WithSentIs
  <1>2. disk' = sub /\ mem' = sub /\ isolated' = isolated /\ faults' = faults
    BY DEF Save
  <1> HIDE DEF sub
  <1>3. Sound(Put(mem.sent, s, rec))
    <2>1. s \in Stages /\ SentOK(mem.sent, Stages, txs, calls, reorgs, head)
      BY IInvIs DEF Sound
    <2> QED
      BY <2>1, PutOK DEF Sound
  <1>4. KinSent(disk.sent, Put(mem.sent, s, rec))
    BY PutKin
  <1> QED
    BY <1>1, <1>2, <1>3, <1>4 DEF RecordsMove

LEMMA SaveFailsIs ==
    ASSUME IInv, mem.sent = disk.sent, NEW s \in DOMAIN mem.sent, NEW rec,
           RecOK(s, rec, txs, calls, reorgs, head), Kin(mem.sent[s], rec), SaveFails(WithSent(mem, s, rec))
    PROVE  RecordsMove /\ isolated' = isolated /\ faults' \in 0 .. setup.faults /\ mem' = mem
  <1> DEFINE sub == WithSent(mem, s, rec)
  <1>1. IsSub(sub) /\ sub.sent = Put(mem.sent, s, rec)
    BY IInvIs, WithSentIs
  <1>2. disk' \in {disk, sub} /\ mem' = mem /\ isolated' = isolated /\ faults < setup.faults /\ faults' = faults + 1
    BY DEF SaveFails, Fault
  <1> HIDE DEF sub
  <1>3. Sound(Put(mem.sent, s, rec))
    <2>1. s \in Stages /\ SentOK(mem.sent, Stages, txs, calls, reorgs, head)
      BY IInvIs DEF Sound
    <2> QED
      BY <2>1, PutOK DEF Sound
  <1>4. KinSent(disk.sent, Put(mem.sent, s, rec))
    BY PutKin
  <1>5. faults' \in 0 .. setup.faults
    BY <1>2, IInvIs, SetupIs
  <1>6. CASE disk' = disk
    BY <1>2, <1>5, <1>6, StillMove
  <1>7. CASE disk' = sub
    BY <1>1, <1>2, <1>3, <1>4, <1>5, <1>7, IInvIs DEF RecordsMove
  <1> QED
    BY <1>2, <1>6, <1>7

(* What a receipt tells of a stage's record and its transaction. *)
LEMMA ReceiptIs ==
    ASSUME NEW s
    PROVE  /\ Receipt(s) = "rev" => /\ s \in DOMAIN mem.sent /\ ~ mem.sent[s].failed /\ mem.sent[s].tx # 0
                                    /\ txs[mem.sent[s].tx].st = "rev"
           /\ Receipt(s) = "final" => /\ s \in DOMAIN mem.sent /\ mem.sent[s].tx # 0
                                      /\ txs[mem.sent[s].tx].st = "ok" /\ txs[mem.sent[s].tx].at =< fold
           /\ Receipt(s) = "none" /\ s \in DOMAIN mem.sent /\ ~ mem.sent[s].failed /\ mem.sent[s].tx # 0 =>
                 txs[mem.sent[s].tx].st \notin {"ok", "rev"}
           /\ Receipt(s) \in {"none", "final", "rev", "error", "live"}
  BY DEF Receipt

LEMMA RevertedIs ==
    ASSUME IInv, NEW s, Receipt(s) = "rev"
    PROVE  /\ s \in DOMAIN mem.sent /\ RecOK(s, Reverted(s), txs, calls, reorgs, head)
           /\ Kin(mem.sent[s], Reverted(s))
  <1>1. /\ s \in DOMAIN mem.sent /\ ~ mem.sent[s].failed /\ mem.sent[s].tx # 0
        /\ txs[mem.sent[s].tx].st = "rev"
    BY ReceiptIs
  <1> DEFINE r == mem.sent[s]
             b == TRUE
             q == [r EXCEPT !.failed = b]
  <1>2. RecOK(s, r, txs, calls, reorgs, head)
    BY <1>1, IInvIs
  <1>3. q = Reverted(s) /\ b \in BOOLEAN
    BY DEF Reverted
  <1>4. r.tx # 0 /\ txs[r.tx].st = "rev"
    BY <1>1
  <1> HIDE DEF r, b
  <1>5. q \in SentRecords /\ Kin(r, q) /\ q.ss = r.ss
    <2>1. r \in SentRecords
      BY <1>2 DEF RecOK
    <2> QED
      BY <2>1, <1>3, NewFailure
  <1> HIDE DEF q
  <1>6. /\ q.ss \in {"intent", "notsent"} => q.tx = 0
        /\ q.last # 0 => q.ss \in {"ack", "amb"}
        /\ q.failed => q.tx # 0 /\ (reorgs = 0 => txs[q.tx].st = "rev")
    BY <1>2, <1>4, <1>5 DEF RecOK, Kin
  <1>7. RecOK(s, q, txs, calls, reorgs, head)
    BY <1>2, <1>5, <1>6, KinOK
  <1> QED
    BY <1>1, <1>3, <1>5, <1>7 DEF r

LEMMA StoppedIs ==
    ASSUME IInv, NEW s \in DOMAIN mem.sent
    PROVE  /\ RecOK(s, Stopped(s), txs, calls, reorgs, head)
           /\ Kin(mem.sent[s], Stopped(s)) /\ Stopped(s).failed = mem.sent[s].failed
  <1> DEFINE r == mem.sent[s]
             b == TRUE
             q == [r EXCEPT !.stop = b]
  <1>2. RecOK(s, r, txs, calls, reorgs, head)
    BY IInvIs
  <1>3. q = Stopped(s) /\ b \in BOOLEAN
    BY DEF Stopped
  <1> HIDE DEF r, b
  <1>5. q \in SentRecords /\ Kin(r, q) /\ q.ss = r.ss /\ q.failed = r.failed
    <2>1. r \in SentRecords
      BY <1>2 DEF RecOK
    <2> QED
      BY <2>1, <1>3, NewStop
  <1> HIDE DEF q
  <1>6. /\ q.ss \in {"intent", "notsent"} => q.tx = 0
        /\ q.last # 0 => q.ss \in {"ack", "amb"}
        /\ q.failed => q.tx # 0 /\ (reorgs = 0 => txs[q.tx].st = "rev")
    BY <1>2, <1>5 DEF RecOK, Kin
  <1>7. RecOK(s, q, txs, calls, reorgs, head)
    BY <1>2, <1>5, <1>6, KinOK
  <1> QED
    BY <1>3, <1>5, <1>7 DEF r

(* What is read again is sound and names the same transactions. *)
LEMMA RereadMove ==
    ASSUME IInv
    PROVE  /\ IsSub(Reread(disk)) /\ Sound(Reread(disk).sent) /\ KinSent(disk.sent, Reread(disk).sent)
           /\ IsSub(Restored(disk)) /\ Sound(Restored(disk).sent) /\ KinSent(disk.sent, Restored(disk).sent)
           /\ Reread(disk).sent = Each(disk.sent)
  <1>1. IsSub(disk) /\ SentOK(disk.sent, Stages, txs, calls, reorgs, head)
    BY DEF IInv, RecordsOK
  <1>2. /\ IsSub(Reread(disk)) /\ Reread(disk).sent = Each(disk.sent)
        /\ IsSub(Restored(disk)) /\ Restored(disk).sent = EachStart(disk.sent)
    BY <1>1, RereadIs
  <1>3. SentOK(Each(disk.sent), Stages, txs, calls, reorgs, head) /\ SentOK(EachStart(disk.sent), Stages, txs, calls, reorgs, head)
    BY <1>1, EachOK
  <1>4. KinSent(disk.sent, Each(disk.sent)) /\ KinSent(disk.sent, EachStart(disk.sent))
    BY <1>1, EachKin
  <1> QED
    BY <1>2, <1>3, <1>4 DEF Sound

LEMMA EachCleared ==
    ASSUME NEW sent, NEW P, NEW T, NEW C, NEW R, NEW H, SentOK(sent, P, T, C, R, H), NEW h, AllCleared(sent, h)
    PROVE  AllCleared(Each(sent), h)
  <1> SUFFICES ASSUME NEW s \in DOMAIN Each(sent), Each(sent)[s].failed
               PROVE  Each(sent)[s].last < h
    BY DEF AllCleared, Cleared
  <1>1. s \in DOMAIN sent /\ Each(sent)[s] = RereadRec(sent[s])
    BY DEF Each
  <1>2. sent[s] \in SentRecords
    BY <1>1 DEF SentOK, RecOK
  <1>3. RereadRec(sent[s]).failed = sent[s].failed /\ RereadRec(sent[s]).last = sent[s].last
    BY <1>2, RereadRecIs DEF Kin
  <1> QED
    BY <1>1, <1>3 DEF AllCleared, Cleared

(* At a new tick no stage was rebroadcast at the head and found reverted: the
   transaction was not included then. *)
LEMMA HeadCleared ==
    ASSUME IInv, reorgs = 0, NEW sent, Sound(sent)
    PROVE  AllCleared(sent, head)
  <1> SUFFICES ASSUME NEW s \in DOMAIN sent, sent[s].failed
               PROVE  sent[s].last < head
    BY DEF AllCleared, Cleared
  <1> DEFINE r == sent[s]
  <1>1. RecOK(s, r, txs, calls, reorgs, head)
    BY DEF Sound, SentOK
  <1>2. head \in Nat /\ head # 0 /\ MaxHead \in Nat
    BY SetupIs DEF IInv, ChainOK
  <1>3. r.tx # 0 /\ txs[r.tx].st = "rev" /\ r.tx \in DOMAIN txs /\ r.last \in Nat
    BY <1>1, <1>2 DEF RecOK, SentRecords
  <1>4. txs[r.tx].at =< head
    BY <1>3 DEF IInv, ChainOK
  <1>5. txs[r.tx].at \in Nat
    <2>1. txs[r.tx] \in TxRecords
      BY <1>3 DEF IInv, ChainOK
    <2> QED
      BY <1>2, <2>1 DEF TxRecords
  <1>6. CASE r.last = 0
    BY <1>2, <1>6
  <1>7. CASE r.last # 0
    <2>1. r.last < txs[r.tx].at
      BY <1>1, <1>3, <1>7 DEF RecOK
    <2> QED
      BY <1>2, <1>3, <1>4, <1>5, <2>1
  <1> QED
    BY <1>6, <1>7

LEMMA EmptyQueue == QueueOK(<<>>)
  BY DEF QueueOK

LEMMA TailQueue ==
    ASSUME NEW q, QueueOK(q), q # <<>>
    PROVE  QueueOK(Tail(q)) /\ Head(q) \in Stages /\ Head(q)[1] = "part"
  <1>1. q \in Seq(Stages) /\ \A k \in DOMAIN q : q[k][1] = "part"
    BY DEF QueueOK
  <1>2. /\ Head(q) \in Stages /\ Tail(q) \in Seq(Stages) /\ Head(q) = q[1] /\ 1 \in DOMAIN q
        /\ \A k \in DOMAIN Tail(q) : k + 1 \in DOMAIN q /\ Tail(q)[k] = q[k + 1]
    BY <1>1, TailIs
  <1> QED
    BY <1>1, <1>2 DEF QueueOK

LEMMA RequeuedIs ==
    ASSUME QueueOK(queue), NEW s \in Stages
    PROVE  QueueOK(Requeued(s))
  <1>1. CASE Requeued(s) = queue
    BY <1>1
  <1>2. CASE Requeued(s) = Append(queue, s) /\ s[1] = "part"
    <2>1. queue \in Seq(Stages) /\ \A k \in DOMAIN queue : queue[k][1] = "part"
      BY DEF QueueOK
    <2> DEFINE q == Append(queue, s)
    <2>2. q \in Seq(Stages) /\ \A k \in DOMAIN q : (k \in DOMAIN queue /\ q[k] = queue[k]) \/ q[k] = s
      BY <2>1
    <2> HIDE DEF q
    <2>3. QueueOK(q)
      BY <1>2, <2>1, <2>2 DEF QueueOK
    <2> QED
      BY <1>2, <2>3 DEF q
  <1> QED
    BY <1>1, <1>2 DEF Requeued

LEMMA PlanGoes ==
    ASSUME setup \in Scenarios, NEW f, NEW h, NEW plan \in Plans(f, h), Goes(plan),
           NEW sent, NEW g, NEW R, R = 0 => AllCleared(sent, g)
    PROVE  pc' \in {"look", "open", "retry"} /\ (pc' = "look" => TodoOK(todo', sent, g, R))
  <1>1. /\ plan[1] \in {"look", "open", "retry"}
        /\ plan[1] = "look" => plan[2] \in Seq(Stages) /\ plan[2] # <<>> /\ Distinct(plan[2])
    BY PlansIs
  <1>2. pc' = plan[1] /\ todo' = plan[2]
    BY DEF Goes
  <1> QED
    BY <1>1, <1>2 DEF TodoOK, AllCleared, Cleared

LEMMA OpenGoes ==
    ASSUME setup \in Scenarios, NEW b \in BOOLEAN, AfterOpen(b), NEW sent, NEW g, NEW R, R = 0 => AllCleared(sent, g)
    PROVE  pc' \in {"look", "retry"} /\ (pc' = "look" => TodoOK(todo', sent, g, R))
  <1>1. ASSUME NEW q, q \in Seq(Stages), q # <<>>, Distinct(q), Goes(<<"look", q>>)
        PROVE  pc' = "look" /\ TodoOK(todo', sent, g, R)
    <2>1. pc' = "look" /\ todo' = q
      BY <1>1 DEF Goes
    <2> QED
      BY <1>1, <2>1 DEF TodoOK, AllCleared, Cleared
  <1>2. CASE \E q \in InOrder(setup.parts) : Goes(<<"look", q>>)
    <2>1. PICK q \in InOrder(setup.parts) : Goes(<<"look", q>>)
      BY <1>2
    <2>2. q \in Seq(Stages) /\ q # <<>> /\ Distinct(q)
      <3>1. setup.parts # {} /\ setup.parts \in SUBSET setup.parts
        BY SetupIs
      <3> QED
        BY <3>1, InOrderIs
    <2> QED
      BY <1>1, <2>1, <2>2
  <1>3. CASE Goes(<<"look", <<OpenStage>>>>)
    <2>1. OpenStage \in Stages
      BY DEF Stages
    <2>2. <<OpenStage>> \in Seq(Stages) /\ <<OpenStage>> # <<>> /\ Distinct(<<OpenStage>>)
      BY <2>1, OneStage
    <2> DEFINE q == <<OpenStage>>
    <2>3. q \in Seq(Stages) /\ q # <<>> /\ Distinct(q) /\ Goes(<<"look", q>>)
      BY <1>3, <2>2
    <2> HIDE DEF q
    <2> QED
      BY <1>1, <2>3
  <1>4. CASE Goes(<<"retry", <<>>>>)
    BY <1>4 DEF Goes
  <1> QED
    BY <1>2, <1>3, <1>4 DEF AfterOpen

LEMMA AdvancedGoes ==
    ASSUME IInv, pc \in Working, Advanced, NEW sent,
           sent = mem.sent \/ \E rec : sent = Put(mem.sent, Head(todo), rec)
    PROVE  pc' \in {"look", "retry"} /\ (pc' = "look" => TodoOK(todo', sent, hd, reorgs))
  <1>1. todo \in Seq(Stages) /\ todo # <<>> /\ Distinct(todo)
    BY DEF IInv, Stepping
  <1>2. reorgs = 0 => \A k \in DOMAIN todo : Cleared(todo[k], mem.sent, hd)
    BY DEF IInv, Fresh
  <1>3. CASE Tail(todo) # <<>> /\ Goes(<<"look", Tail(todo)>>)
    <2>1. pc' = "look" /\ todo' = Tail(todo)
      BY <1>3 DEF Goes
    <2>2. Tail(todo) \in Seq(Stages) /\ Distinct(Tail(todo))
      BY <1>1, TailIs, TailDistinct
    <2>3. reorgs = 0 => \A k \in DOMAIN Tail(todo) : Cleared(Tail(todo)[k], sent, hd)
      <3> SUFFICES ASSUME reorgs = 0 PROVE \A k \in DOMAIN Tail(todo) : Cleared(Tail(todo)[k], sent, hd)
        OBVIOUS
      <3>1. \A k \in DOMAIN todo : Cleared(todo[k], mem.sent, hd)
        BY <1>2
      <3>2. CASE sent = mem.sent
        BY <1>1, <3>1, <3>2, TailCleared
      <3>3. CASE \E rec : sent = Put(mem.sent, Head(todo), rec)
        <4>1. PICK rec : sent = Put(mem.sent, Head(todo), rec)
          BY <3>3
        <4> QED
          BY <1>1, <3>1, <4>1, TailCleared
      <3> QED
        BY <3>2, <3>3
    <2> QED
      BY <1>3, <2>1, <2>2, <2>3 DEF TodoOK
  <1>4. CASE Goes(<<"retry", <<>>>>)
    BY <1>4 DEF Goes
  <1> QED
    BY <1>3, <1>4 DEF Advanced

-----------------------------------------------------------------------------
(* The start of a tick. *)

LEMMA TickKeeps ==
    ASSUME IInv, Tick
    PROVE  IInv'
  <1>1. /\ pc = "idle" /\ hd' = head /\ fold' = final /\ budget' = head /\ queue' = <<>>
        /\ posted' = IF budget = head THEN posted ELSE Charged(mem, head)
        /\ setup' = setup /\ head' = head /\ final' = final /\ reorgs' = reorgs /\ txs' = txs
        /\ disk' = disk /\ mem' = mem /\ isolated' = isolated /\ reply' = reply
        /\ calls' = calls /\ attempts' = attempts /\ faults' = faults
    BY DEF Tick, Counted, chainVars, recordVars, history
  <1>2. /\ isolated => pc' = "resume"
        /\ ~ isolated => \E plan \in Plans(final, head) : Goes(plan)
    BY DEF Tick, Goes
  <1>3. Stages' = Stages /\ TxRecords' = TxRecords
    BY <1>1 DEF Stages, TxRecords
  <1>4. /\ setup \in Scenarios /\ Sound(disk.sent) /\ Sound(mem.sent) /\ isolated \in BOOLEAN
        /\ head \in Nat /\ hd \in Nat /\ hd =< head /\ final \in Nat /\ head # 0 /\ final =< head
    BY IInvIs DEF IInv, ChainOK
  <1>5. reorgs = 0 => AllCleared(disk.sent, head) /\ AllCleared(mem.sent, head)
    BY <1>4, HeadCleared
  <1>6. ~ isolated => /\ pc' \in {"look", "open", "retry"}
                      /\ pc' = "look" => TodoOK(todo', mem.sent, head, reorgs)
    <2> SUFFICES ASSUME ~ isolated
                 PROVE  pc' \in {"look", "open", "retry"} /\ (pc' = "look" => TodoOK(todo', mem.sent, head, reorgs))
      OBVIOUS
    <2>1. PICK plan \in Plans(final, head) : Goes(plan)
      BY <1>2
    <2> QED
      BY <1>4, <1>5, <2>1, PlanGoes
  <1>7. ~ isolated => mem.sent = disk.sent
    BY <1>1 DEF IInv, Sync
  <1>8. ChainOK'
    BY <1>1, <1>3 DEF IInv, ChainOK
  <1>9. RecordsOK'
    BY <1>1, <1>3 DEF IInv, RecordsOK
  <1>10. Charged(mem, head) \in Nat /\ Charged(mem, head) = Cardinality(ChargedTo(mem.sent, head))
    <2>1. Charged(mem, head) = Cardinality(ChargedTo(mem.sent, head))
      BY DEF Charged, ChargedTo
    <2> QED
      BY <1>4, <2>1, ChargedFinite DEF Sound, SentOK
  <1>11. Sync'
    <2>1. posted' \in Nat
      BY <1>1, <1>10 DEF IInv, Sync
    <2>2. CASE isolated
      BY <1>1, <1>2, <1>4, <2>1, <2>2 DEF Sync, Places
    <2>3. CASE ~ isolated
      BY <1>1, <1>4, <1>6, <1>7, <2>1, <2>3 DEF Sync, Places
    <2> QED
      BY <2>2, <2>3
  <1>12. pc' \in {"resume", "look", "open", "retry"}
    BY <1>2, <1>4, <1>6
  <1>13. Stepping'
    <2>1. pc' = "look" => ~ isolated
      BY <1>2
    <2> QED
      BY <1>1, <1>3, <1>6, <1>12, <2>1 DEF Stepping, Working, TodoOK
  <1>14. Flight'
    BY <1>1, <1>12 DEF IInv, Flight
  <1>15. Fresh'
    <2>1. pc' = "look" => ~ isolated
      BY <1>2
    <2> QED
      <3> SUFFICES ASSUME reorgs = 0
                   PROVE  /\ pc' = "resume" => AllCleared(disk.sent, head)
                          /\ pc' = "open" => AllCleared(mem.sent, head)
                          /\ pc' = "look" => \A k \in DOMAIN todo' : Cleared(todo'[k], mem.sent, head)
        BY <1>1, <1>12 DEF Fresh, Working, AllCleared
      <3>1. pc' = "look" => TodoOK(todo', mem.sent, head, reorgs)
        BY <1>6, <2>1
      <3> QED
        BY <1>5, <3>1 DEF TodoOK
  <1>16. Budget'
    <2>1. attempts \in [1 .. MaxHead -> Nat] /\ head \in 1 .. MaxHead
      BY <1>4, SetupIs DEF IInv, Budget, ChainOK
    <2>2. reorgs = 0 \/ PBlk = 1 => attempts[head] =< posted'
      <3> SUFFICES ASSUME reorgs = 0 \/ PBlk = 1 PROVE attempts[head] =< posted'
        OBVIOUS
      <3>1. CASE budget = head
        BY <1>1, <1>4, <3>1 DEF IInv, Budget, Sync
      <3>2. CASE budget # head /\ hd # 0
        <4>1. attempts[head] = 0
          BY <1>4, <2>1, <3>2 DEF IInv, Budget, Sync
        <4> QED
          BY <1>1, <1>10, <3>2, <4>1
      <3>3. CASE budget # head /\ hd = 0
        <4>1. ~ isolated
          BY <3>3 DEF IInv, Sync
        <4> QED
          BY <1>1, <1>7, <1>10, <3>3, <4>1 DEF IInv, Budget
      <3> QED
        BY <3>1, <3>2, <3>3
    <2>3. pc' \notin Sending
      BY <1>12 DEF Sending
    <2> QED
      BY <1>1, <2>1, <2>2, <2>3 DEF IInv, Budget
  <1> QED
    BY <1>8, <1>9, <1>11, <1>13, <1>14, <1>15, <1>16 DEF IInv

LEMMA ResumeKeeps ==
    ASSUME IInv, Resume
    PROVE  IInv'
  <1>1. /\ pc = "resume" /\ ~ isolated' /\ isolated' \in BOOLEAN /\ disk' = Reread(disk) /\ mem' = disk'
        /\ pc' = "resumed" /\ queue' = queue
        /\ UNCHANGED <<chainVars, txs, tickVars, history>> /\ faults' = faults /\ posted' = posted
    BY DEF Resume
  <1>2. Quiet
    BY <1>1, IInvIs DEF Quiet
  <1>3. RecordsMove
    BY <1>1, RereadMove DEF RecordsMove
  <1>4. reorgs = 0 => AllCleared(mem'.sent, hd)
    <2> SUFFICES ASSUME reorgs = 0 PROVE AllCleared(Each(disk.sent), hd)
      BY <1>1, RereadMove
    <2>1. AllCleared(disk.sent, hd)
      BY <1>1 DEF IInv, Fresh, AllCleared
    <2>2. SentOK(disk.sent, Stages, txs, calls, reorgs, head)
      BY DEF IInv, RecordsOK
    <2> QED
      BY <2>1, <2>2, EachCleared
  <1>5. hd # 0
    BY <1>1 DEF IInv, Sync
  <1>6. Rests
    BY <1>1, <1>4, <1>5, IInvIs DEF Rests
  <1> QED
    BY <1>2, <1>3, <1>6, ToRest

LEMMA ResumeFailsKeeps ==
    ASSUME IInv, ResumeFails
    PROVE  IInv'
  <1>1. /\ pc = "resume" /\ isolated' = isolated /\ disk' \in {disk, Reread(disk)} /\ mem' = mem
        /\ pc' = "retry" /\ queue' = queue /\ faults < setup.faults /\ faults' = faults + 1
        /\ UNCHANGED <<chainVars, txs, tickVars, history>> /\ posted' = posted
    BY DEF ResumeFails, Fault
  <1>2. Quiet
    <2>1. faults' \in 0 .. setup.faults
      BY <1>1, IInvIs, SetupIs
    <2> QED
      BY <1>1, <2>1 DEF Quiet
  <1>3. RecordsMove
    <2>1. CASE disk' = disk
      BY <1>1, <2>1, StillMove
    <2>2. CASE disk' = Reread(disk)
      BY <1>1, <2>2, RereadMove, IInvIs DEF RecordsMove
    <2> QED
      BY <1>1, <2>1, <2>2
  <1>4. hd # 0 /\ isolated /\ queue = <<>>
    BY <1>1 DEF IInv, Sync
  <1>5. Rests
    BY <1>1, <1>4, IInvIs DEF Rests
  <1> QED
    BY <1>2, <1>3, <1>5, ToRest

LEMMA ResumedKeeps ==
    ASSUME IInv, Resumed
    PROVE  IInv'
  <1>1. /\ pc = "resumed" /\ disk' = disk /\ mem' = mem /\ isolated' = isolated
        /\ queue' = queue /\ faults' = faults
        /\ UNCHANGED <<chainVars, txs, tickVars, history>> /\ posted' = posted
    BY DEF Resumed, recordVars
  <1>2. PICK plan \in Plans(fold, hd) : Goes(plan)
    BY DEF Resumed
  <1>3. Quiet
    BY <1>1, IInvIs DEF Quiet
  <1>4. RecordsMove
    BY <1>1, StillMove
  <1>5. hd # 0 /\ ~ isolated /\ mem.sent = disk.sent
    BY <1>1 DEF IInv, Sync
  <1>6. reorgs = 0 => AllCleared(mem.sent, hd)
    BY <1>1 DEF IInv, Fresh, AllCleared
  <1>7. pc' \in {"look", "open", "retry"} /\ (pc' = "look" => TodoOK(todo', mem.sent, hd, reorgs))
    BY <1>2, <1>6, PlanGoes, IInvIs
  <1>8. Rests
    BY <1>1, <1>5, <1>6, <1>7, IInvIs DEF Rests
  <1> QED
    BY <1>3, <1>4, <1>8, ToRest

-----------------------------------------------------------------------------
(* Receipts. *)

LEMMA UnavailableIs ==
    ASSUME IInv, mem.sent = disk.sent, NEW s, Unavailable(s)
    PROVE  RecordsMove /\ isolated' = isolated /\ faults' \in 0 .. setup.faults
  <1>1. faults \in 0 .. setup.faults /\ setup.faults \in Nat
    BY IInvIs, SetupIs
  <1>2. CASE UNCHANGED <<recordVars, faults>>
    BY <1>1, <1>2, StillMove DEF recordVars
  <1>3. CASE NonceConsumed(s) /\ Save(WithSent(mem, s, Stopped(s)))
    <2>1. s \in DOMAIN mem.sent
      BY <1>3 DEF NonceConsumed
    <2>2. RecOK(s, Stopped(s), txs, calls, reorgs, head) /\ Kin(mem.sent[s], Stopped(s))
      BY <2>1, StoppedIs
    <2> QED
      BY <1>1, <1>3, <2>1, <2>2, SaveIs
  <1>4. CASE Fault /\ UNCHANGED recordVars
    BY <1>1, <1>4, StillMove DEF recordVars, Fault
  <1> QED
    BY <1>2, <1>3, <1>4 DEF Unavailable

LEMMA ReceiptFailsKeeps ==
    ASSUME IInv, ReceiptFails
    PROVE  IInv'
  <1>1. /\ pc \in {"open", "look"} /\ pc' = "recover" /\ queue' = <<>>
        /\ UNCHANGED <<chainVars, txs, tickVars, history>> /\ posted' = posted
    BY DEF ReceiptFails, Recovers, Unmoved
  <1>2. hd # 0 /\ ~ isolated /\ mem.sent = disk.sent
    BY <1>1 DEF IInv, Sync
  <1>3. RecordsMove /\ isolated' = isolated /\ faults' \in 0 .. setup.faults
    BY <1>2, UnavailableIs DEF ReceiptFails
  <1>4. Quiet
    BY <1>1, <1>3 DEF Quiet
  <1>5. Rests
    BY <1>1, <1>2, <1>3, EmptyQueue, IInvIs DEF Rests
  <1> QED
    BY <1>3, <1>4, <1>5, ToRest

LEMMA OpenCheckKeeps ==
    ASSUME IInv, OpenCheck
    PROVE  IInv'
  <1>1. /\ pc = "open" /\ disk' = disk /\ mem' = mem /\ isolated' = isolated /\ queue' = queue /\ faults' = faults
        /\ UNCHANGED <<chainVars, txs, tickVars, history>> /\ posted' = posted
        /\ AfterOpen(Receipt(OpenStage) = "live")
    BY DEF OpenCheck, Unmoved, recordVars
  <1>2. hd # 0 /\ ~ isolated /\ mem.sent = disk.sent
    BY <1>1 DEF IInv, Sync
  <1>3. reorgs = 0 => AllCleared(mem.sent, hd)
    BY <1>1 DEF IInv, Fresh, AllCleared
  <1>4. pc' \in {"look", "retry"} /\ (pc' = "look" => TodoOK(todo', mem.sent, hd, reorgs))
    BY <1>1, <1>3, OpenGoes, IInvIs
  <1>5. Quiet /\ RecordsMove
    BY <1>1, StillMove, IInvIs DEF Quiet
  <1>6. Rests
    BY <1>1, <1>2, <1>4, IInvIs DEF Rests
  <1> QED
    BY <1>5, <1>6, ToRest

LEMMA OpenRevertedKeeps ==
    ASSUME IInv, OpenReverted
    PROVE  IInv'
  <1> DEFINE rec == Reverted(OpenStage)
             sub == WithSent(mem, OpenStage, rec)
  <1>1. /\ pc = "open" /\ Receipt(OpenStage) = "rev"
        /\ UNCHANGED <<chainVars, txs, tickVars, history>> /\ posted' = posted
        /\ \/ Save(sub) /\ AfterOpen(FALSE) /\ queue' = queue
           \/ SaveFails(sub) /\ pc' = "recover" /\ queue' = <<>>
    BY DEF OpenReverted, Unmoved, Recovers
  <1>2. hd # 0 /\ ~ isolated /\ mem.sent = disk.sent /\ hd \in Nat
    BY <1>1, IInvIs DEF IInv, Sync
  <1>3. /\ OpenStage \in DOMAIN mem.sent /\ RecOK(OpenStage, rec, txs, calls, reorgs, head)
        /\ Kin(mem.sent[OpenStage], rec)
    BY <1>1, RevertedIs
  <1> HIDE DEF rec
  <1>4. CASE Save(sub) /\ AfterOpen(FALSE) /\ queue' = queue
    <2>1. /\ RecordsMove /\ isolated' = isolated /\ faults' = faults
          /\ mem'.sent = Put(mem.sent, OpenStage, rec) /\ disk'.sent = mem'.sent
      BY <1>2, <1>3, <1>4, SaveIs
    <2>2. reorgs = 0 => AllCleared(mem'.sent, hd)
      <3>1. reorgs = 0 => AllCleared(mem.sent, hd)
        BY <1>1 DEF IInv, Fresh, AllCleared
      <3>2. rec.last = 0
        <4>1. OpenStage[1] # "part"
          BY DEF OpenStage
        <4> QED
          BY <1>3, <4>1 DEF RecOK
      <3> QED
        BY <1>2, <2>1, <3>1, <3>2 DEF AllCleared, Cleared, Put
    <2>3. pc' \in {"look", "retry"} /\ (pc' = "look" => TodoOK(todo', mem'.sent, hd, reorgs))
      BY <1>4, <2>2, OpenGoes, IInvIs
    <2>4. Quiet
      BY <1>1, <2>1, IInvIs DEF Quiet
    <2>5. Rests
      BY <1>2, <1>4, <2>1, <2>3, IInvIs DEF Rests
    <2> QED
      BY <2>1, <2>4, <2>5, ToRest
  <1>5. CASE SaveFails(sub) /\ pc' = "recover" /\ queue' = <<>>
    <2>1. RecordsMove /\ isolated' = isolated /\ faults' \in 0 .. setup.faults /\ mem' = mem
      BY <1>2, <1>3, <1>5, SaveFailsIs
    <2>2. Quiet
      BY <1>1, <2>1 DEF Quiet
    <2>3. Rests
      BY <1>2, <1>5, <2>1, EmptyQueue, IInvIs DEF Rests
    <2> QED
      BY <2>1, <2>2, <2>3, ToRest
  <1> QED
    BY <1>1, <1>4, <1>5

-----------------------------------------------------------------------------
(* Looking at one stage. *)

(* What the client finds when it looks at a stage. *)
LEMMA Looking ==
    ASSUME IInv, pc = "look"
    PROVE  /\ hd # 0 /\ ~ isolated /\ isolated \in BOOLEAN /\ mem.sent = disk.sent /\ pc \in Working
           /\ todo \in Seq(Stages) /\ todo # <<>> /\ Head(todo) \in Stages
           /\ QueueOK(queue) /\ QueueOK(Requeued(Head(todo)))
  <1>1. /\ hd # 0 /\ ~ isolated /\ isolated \in BOOLEAN /\ mem.sent = disk.sent
        /\ todo \in Seq(Stages) /\ todo # <<>> /\ pc \in Working
    BY DEF IInv, Sync, Stepping, Working
  <1>2. Head(todo) \in Stages
    BY <1>1
  <1> QED
    BY <1>1, <1>2, RequeuedIs, IInvIs

LEMMA LookSkipsKeeps ==
    ASSUME IInv, LookSkips
    PROVE  IInv'
  <1>1. /\ pc = "look" /\ disk' = disk /\ mem' = mem /\ isolated' = isolated /\ faults' = faults
        /\ UNCHANGED <<chainVars, txs, tickVars, history>> /\ posted' = posted /\ Advanced
        /\ queue' \in {queue, Requeued(Head(todo))}
    BY DEF LookSkips, Unmoved, recordVars
  <1>2. /\ hd # 0 /\ ~ isolated /\ isolated \in BOOLEAN /\ mem.sent = disk.sent /\ pc \in Working
        /\ QueueOK(queue) /\ QueueOK(Requeued(Head(todo)))
    BY <1>1, Looking
  <1>3. pc' \in {"look", "retry"} /\ (pc' = "look" => TodoOK(todo', mem.sent, hd, reorgs))
    BY <1>1, <1>2, AdvancedGoes
  <1>4. Quiet /\ RecordsMove
    BY <1>1, StillMove, IInvIs DEF Quiet
  <1>5. Rests
    BY <1>1, <1>2, <1>3 DEF Rests
  <1> QED
    BY <1>4, <1>5, ToRest

(* A record of the stage that is looked at is written anew. *)
LEMMA LookWrites ==
    ASSUME IInv, pc = "look", Unmoved, NEW rec, Head(todo) \in DOMAIN mem.sent,
           RecOK(Head(todo), rec, txs, calls, reorgs, head), Kin(mem.sent[Head(todo)], rec),
           \/ Save(WithSent(mem, Head(todo), rec)) /\ Advanced /\ queue' = Requeued(Head(todo))
           \/ SaveFails(WithSent(mem, Head(todo), rec)) /\ Recovers /\ queue' = <<>>
    PROVE  IInv'
  <1> DEFINE s == Head(todo)
             sub == WithSent(mem, s, rec)
  <1>1. UNCHANGED <<chainVars, txs, tickVars, history>> /\ posted' = posted
    BY DEF Unmoved
  <1>2. /\ hd # 0 /\ ~ isolated /\ isolated \in BOOLEAN /\ mem.sent = disk.sent /\ pc \in Working
        /\ QueueOK(queue) /\ QueueOK(Requeued(s))
    BY Looking
  <1>3. CASE Save(sub) /\ Advanced /\ queue' = Requeued(s)
    <2>1. /\ RecordsMove /\ isolated' = isolated /\ faults' = faults
          /\ mem'.sent = Put(mem.sent, s, rec) /\ disk'.sent = mem'.sent
      BY <1>2, <1>3, SaveIs
    <2>2. pc' \in {"look", "retry"} /\ (pc' = "look" => TodoOK(todo', mem'.sent, hd, reorgs))
      BY <1>2, <1>3, <2>1, AdvancedGoes
    <2>3. Quiet
      BY <1>1, <2>1, IInvIs DEF Quiet
    <2>4. Rests
      BY <1>2, <1>3, <2>1, <2>2 DEF Rests
    <2> QED
      BY <2>1, <2>3, <2>4, ToRest
  <1>4. CASE SaveFails(sub) /\ Recovers /\ queue' = <<>>
    <2>1. RecordsMove /\ isolated' = isolated /\ faults' \in 0 .. setup.faults /\ mem' = mem
      BY <1>2, <1>4, SaveFailsIs
    <2>2. Quiet
      BY <1>1, <2>1 DEF Quiet
    <2>3. Rests
      BY <1>2, <1>4, <2>1, EmptyQueue DEF Rests, Recovers
    <2> QED
      BY <2>1, <2>2, <2>3, ToRest
  <1> QED
    BY <1>3, <1>4

LEMMA LookRevertedKeeps ==
    ASSUME IInv, LookReverted
    PROVE  IInv'
  <1> DEFINE s == Head(todo)
  <1>1. /\ pc = "look" /\ Unmoved /\ Receipt(s) = "rev"
        /\ \/ Save(WithSent(mem, s, Reverted(s))) /\ Advanced /\ queue' = Requeued(s)
           \/ SaveFails(WithSent(mem, s, Reverted(s))) /\ Recovers /\ queue' = <<>>
    BY DEF LookReverted
  <1>2. s \in DOMAIN mem.sent /\ RecOK(s, Reverted(s), txs, calls, reorgs, head) /\ Kin(mem.sent[s], Reverted(s))
    BY <1>1, RevertedIs
  <1> QED
    BY <1>1, <1>2, LookWrites

LEMMA LookConsumedKeeps ==
    ASSUME IInv, LookConsumed
    PROVE  IInv'
  <1> DEFINE s == Head(todo)
  <1>1. /\ pc = "look" /\ Unmoved /\ s \in DOMAIN mem.sent
        /\ \/ Save(WithSent(mem, s, Stopped(s))) /\ Advanced /\ queue' = Requeued(s)
           \/ SaveFails(WithSent(mem, s, Stopped(s))) /\ Recovers /\ queue' = <<>>
    BY DEF LookConsumed, NonceConsumed
  <1>2. RecOK(s, Stopped(s), txs, calls, reorgs, head) /\ Kin(mem.sent[s], Stopped(s))
    BY <1>1, StoppedIs
  <1> QED
    BY <1>1, <1>2, LookWrites

-----------------------------------------------------------------------------
(* Sending one stage: the intent. *)

(* A stage that does not wait has nothing in flight, and was neither sent nor
   rebroadcast at this head. *)
LEMMA Unposted ==
    ASSUME IInv, pc = "look", NEW s, s = Head(todo), ~ Waits(s), Receipt(s) \in {"none", "final"}
    PROVE  /\ reorgs = 0 => Grounded(s, txs, final)
           /\ s \in DOMAIN mem.sent => mem.sent[s].head # hd
           /\ reorgs = 0 /\ s \in DOMAIN mem.sent => mem.sent[s].last # hd
  <1>1. /\ hd # 0 /\ mem.sent = disk.sent /\ todo \in Seq(Stages) /\ todo # <<>> /\ s \in Stages
    BY Looking
  <1>2. /\ hd \in Nat /\ final \in Nat /\ fold \in Nat /\ fold =< hd /\ fold =< final /\ setup \in Scenarios
        /\ \A t \in DOMAIN mem.sent : RecOK(t, mem.sent[t], txs, calls, reorgs, head)
    BY IInvIs
  <1>3. ASSUME s \in DOMAIN mem.sent
        PROVE  mem.sent[s].head # hd /\ (Receipt(s) = "none" => mem.sent[s].failed \/ mem.sent[s].ss = "notsent")
    BY <1>3 DEF Waits, SameHead, Unresolved
  <1>4. \A i \in DOMAIN txs : i # 0 /\ txs[i].at \in Nat
    <2> SUFFICES ASSUME NEW i \in DOMAIN txs PROVE i # 0 /\ txs[i].at \in Nat
      OBVIOUS
    <2>1. txs \in Seq(TxRecords)
      BY DEF IInv, ChainOK
    <2>2. txs[i] \in TxRecords /\ i # 0
      BY <2>1
    <2> QED
      BY <1>2, <2>2, SetupIs DEF TxRecords
  <1>5. ASSUME reorgs = 0, NEW i \in DOMAIN txs, txs[i].stage = s, Flying(txs[i], final)
        PROVE  FALSE
    <2>1. s \in DOMAIN mem.sent /\ mem.sent[s].tx = i
      BY <1>1, <1>5 DEF IInv, Flight, Recorded
    <2>2. RecOK(s, mem.sent[s], txs, calls, reorgs, head)
      BY <1>2, <2>1
    <2>3. CASE Receipt(s) = "final"
      <3>1. txs[i].st = "ok" /\ txs[i].at =< fold
        BY <2>1, <2>3, ReceiptIs
      <3> QED
        BY <1>2, <1>4, <1>5, <3>1 DEF Flying
    <2>4. CASE Receipt(s) = "none"
      <3>1. mem.sent[s].failed \/ mem.sent[s].ss = "notsent"
        BY <1>3, <2>1, <2>4
      <3>2. CASE mem.sent[s].ss = "notsent"
        BY <1>4, <2>1, <2>2, <3>2 DEF RecOK
      <3>3. CASE mem.sent[s].failed
        <4>1. txs[i].st = "rev"
          BY <1>5, <2>1, <2>2, <3>3 DEF RecOK
        <4> QED
          BY <1>5, <4>1 DEF Flying
      <3> QED
        BY <3>1, <3>2, <3>3
    <2> QED
      BY <2>3, <2>4
  <1>6. ASSUME reorgs = 0, s \in DOMAIN mem.sent, mem.sent[s].last = hd
        PROVE  FALSE
    <2>1. RecOK(s, mem.sent[s], txs, calls, reorgs, head)
      BY <1>2, <1>6
    <2>2. /\ mem.sent[s].tx # 0 /\ mem.sent[s].ss \in {"ack", "amb"} /\ mem.sent[s].tx \in DOMAIN txs
      BY <1>1, <1>6, <2>1 DEF RecOK
    <2>3. CASE Receipt(s) = "final"
      <3>1. txs[mem.sent[s].tx].st = "ok" /\ txs[mem.sent[s].tx].at =< fold
        BY <2>3, ReceiptIs
      <3>2. hd < txs[mem.sent[s].tx].at
        BY <1>1, <1>6, <2>1, <3>1 DEF RecOK
      <3> QED
        BY <1>2, <1>4, <2>2, <3>1, <3>2
    <2>4. CASE Receipt(s) = "none"
      <3>1. mem.sent[s].failed
        BY <1>3, <1>6, <2>2, <2>4
      <3>2. todo[1] = s /\ 1 \in DOMAIN todo
        BY <1>1
      <3>3. Cleared(s, mem.sent, hd)
        BY <1>6, <3>2 DEF IInv, Fresh, Working
      <3> QED
        BY <1>2, <1>6, <3>1, <3>3 DEF Cleared
    <2> QED
      BY <2>3, <2>4
  <1> QED
    BY <1>3, <1>5, <1>6 DEF Grounded

(* The intent's record. *)
LEMMA IntentIs ==
    ASSUME IInv, NEW s
    PROVE  /\ Intent.head = hd /\ Intent.tx = 0 /\ ~ Intent.failed /\ Intent.ss = "intent" /\ Intent.last = 0
           /\ RecOK(s, Intent, txs, calls, reorgs, head)
  <1>1. /\ Intent.head = hd /\ Intent.tx = 0 /\ ~ Intent.failed /\ Intent.ss = "intent" /\ Intent.last = 0
    BY DEF Intent
  <1>2. Intent \in SentRecords
    <2>1. hd \in 0 .. MaxHead /\ 0 \in 0 .. MaxHead /\ 0 \in 0 .. MaxTx /\ 0 \in 0 .. Rebroadcasts
      <3>1. /\ hd \in Nat /\ head \in Nat /\ hd =< head /\ MaxHead \in Nat /\ MaxTx \in Nat /\ Rebroadcasts \in Nat
            /\ setup.heads \in Nat /\ setup.heads =< MaxHead
        BY IInvIs, SetupIs
      <3>2. head =< setup.heads
        BY <3>1 DEF IInv, ChainOK
      <3> QED
        BY <3>1, <3>2
    <2> QED
      BY <2>1 DEF Intent, SentRecords
  <1> QED
    BY <1>1, <1>2 DEF RecOK

(* Charging one more stage to the head. *)
LEMMA ChargeOne ==
    ASSUME IInv, mem.sent = disk.sent, hd # 0, NEW s \in Stages, NEW rec, rec.head = hd \/ rec.last = hd,
           posted < PBlk,
           reorgs = 0 /\ s \in DOMAIN mem.sent => mem.sent[s].head # hd /\ mem.sent[s].last # hd,
           reorgs = 0 \/ PBlk = 1
    PROVE  /\ attempts[head] =< Cardinality(ChargedTo(Put(mem.sent, s, rec), head))
           /\ attempts[hd] < PBlk /\ attempts[hd] =< posted /\ attempts[hd] \in Nat /\ posted \in Nat
           /\ hd = head => attempts[hd] < Cardinality(ChargedTo(Put(mem.sent, s, rec), hd))
  <1> DEFINE new == Put(mem.sent, s, rec)
             A == ChargedTo(mem.sent, hd)
             B == ChargedTo(new, hd)
  <1>1. /\ attempts \in [1 .. MaxHead -> Nat] /\ hd \in 1 .. MaxHead /\ head \in 1 .. MaxHead /\ hd =< head
        /\ posted \in Nat /\ PBlk \in Nat \ {0} /\ setup \in Scenarios
    <2>1. /\ setup \in Scenarios /\ hd \in Nat /\ head \in Nat /\ hd =< head
          /\ setup.heads \in Nat /\ MaxHead \in Nat /\ setup.heads =< MaxHead /\ PBlk \in Nat \ {0}
      BY IInvIs, SetupIs
    <2>2. head =< setup.heads
      BY <2>1 DEF IInv, ChainOK
    <2>3. attempts \in [1 .. MaxHead -> Nat] /\ posted \in Nat
      BY DEF IInv, Budget, Sync
    <2> QED
      BY <2>1, <2>2, <2>3
  <1>2. DOMAIN new = DOMAIN mem.sent \cup {s} /\ new[s] = rec /\ \A t \in DOMAIN mem.sent : t # s => new[t] = mem.sent[t]
    BY DEF Put
  <1>3. DOMAIN new \subseteq Stages /\ DOMAIN mem.sent \subseteq Stages
    BY <1>2, IInvIs
  <1>4. attempts[hd] =< posted /\ attempts[hd] \in Nat
    BY <1>1 DEF IInv, Budget
  <1>5. attempts[hd] < PBlk
    BY <1>1, <1>4
  <1> HIDE DEF new
  <1>6. A \subseteq B /\ s \in B
    BY <1>2 DEF ChargedTo
  <1>7. Cardinality(A) \in Nat /\ IsFiniteSet(B) /\ Cardinality(B) \in Nat /\ Cardinality(A) =< Cardinality(B)
    BY <1>1, <1>3, <1>6, ChargedFinite, ChargedGrows
  <1>8. hd = head => attempts[hd] < Cardinality(B)
    <2> SUFFICES ASSUME hd = head PROVE attempts[hd] < Cardinality(B)
      OBVIOUS
    <2>1. attempts[hd] =< Cardinality(A)
      BY DEF IInv, Budget
    <2>2. CASE s \notin A
      <3>1. Cardinality(A) < Cardinality(B)
        BY <1>1, <1>3, <1>6, <2>2, ChargedGrows
      <3> QED
        BY <1>4, <1>7, <2>1, <3>1
    <2>3. CASE s \in A
      <3>1. reorgs # 0
        BY <2>3 DEF ChargedTo
      <3>2. attempts[hd] = 0
        BY <1>1, <1>4, <3>1
      <3>3. Cardinality(B) # 0
        BY <1>6, <1>7, FS_EmptySet
      <3> QED
        BY <1>7, <3>2, <3>3
    <2> QED
      BY <2>2, <2>3
  <1>9. attempts[head] =< Cardinality(ChargedTo(new, head))
    <2>1. CASE hd = head
      BY <1>4, <1>7, <1>8, <2>1
    <2>2. CASE hd # head
      <3>1. attempts[head] = 0
        BY <1>1, <2>2 DEF IInv, Budget
      <3>2. Cardinality(ChargedTo(new, head)) \in Nat
        BY <1>1, <1>3, ChargedFinite
      <3> QED
        BY <3>1, <3>2
    <2> QED
      BY <2>1, <2>2
  <1> QED
    BY <1>1, <1>4, <1>5, <1>8, <1>9 DEF new

LEMMA WriteIntentKeeps ==
    ASSUME IInv, WriteIntent
    PROVE  IInv'
  <1> DEFINE s == Head(todo)
             sub == WithSent(mem, s, Intent)
             new == Put(mem.sent, s, Intent)
  <1>1. /\ pc = "look" /\ posted < PBlk /\ Len(txs) < setup.txs /\ ~ Waits(s) /\ Receipt(s) \in {"none", "final"}
        /\ UNCHANGED <<chainVars, txs, tickVars, history>> /\ reply' = reply
        /\ \/ Save(sub) /\ pc' = "sign" /\ posted' = posted + 1 /\ todo' = todo /\ queue' = queue
           \/ SaveFails(sub) /\ pc' = "recover" /\ queue' = <<>> /\ posted' = posted
    BY DEF WriteIntent, MayPost, Recovers
  <1>2. /\ hd # 0 /\ ~ isolated /\ isolated \in BOOLEAN /\ mem.sent = disk.sent
        /\ todo \in Seq(Stages) /\ todo # <<>> /\ s \in Stages /\ QueueOK(queue)
    BY <1>1, Looking
  <1>3. /\ reorgs = 0 => Grounded(s, txs, final)
        /\ s \in DOMAIN mem.sent => mem.sent[s].head # hd
        /\ reorgs = 0 /\ s \in DOMAIN mem.sent => mem.sent[s].last # hd
    BY <1>1, Unposted
  <1>4. /\ Intent.head = hd /\ Intent.tx = 0 /\ ~ Intent.failed /\ Intent.ss = "intent" /\ Intent.last = 0
        /\ RecOK(s, Intent, txs, calls, reorgs, head)
    BY IntentIs
  <1>5. IsSub(sub) /\ sub.sent = new
    BY WithSentIs, IInvIs
  <1>6. Sound(new)
    <2>1. SentOK(mem.sent, Stages, txs, calls, reorgs, head)
      BY IInvIs DEF Sound
    <2> QED
      BY <1>2, <1>4, <2>1, PutOK DEF Sound
  <1>7. reorgs = 0 \/ PBlk = 1 =>
           /\ attempts[head] =< Cardinality(ChargedTo(new, head))
           /\ attempts[hd] < PBlk /\ attempts[hd] =< posted /\ attempts[hd] \in Nat /\ posted \in Nat
           /\ hd = head => attempts[hd] < Cardinality(ChargedTo(new, hd))
    <2> DEFINE rec == Intent
    <2>1. rec.head = hd \/ rec.last = hd
      BY <1>4
    <2>2. reorgs = 0 /\ s \in DOMAIN mem.sent => mem.sent[s].head # hd /\ mem.sent[s].last # hd
      BY <1>3
    <2> HIDE DEF rec
    <2>3. reorgs = 0 \/ PBlk = 1 =>
           /\ attempts[head] =< Cardinality(ChargedTo(Put(mem.sent, s, rec), head))
           /\ attempts[hd] < PBlk /\ attempts[hd] =< posted /\ attempts[hd] \in Nat /\ posted \in Nat
           /\ hd = head => attempts[hd] < Cardinality(ChargedTo(Put(mem.sent, s, rec), hd))
      BY <1>1, <1>2, <2>1, <2>2, ChargeOne
    <2> QED
      BY <2>3 DEF rec
  <1>8. reorgs = 0 => Recorded(new, txs, final)
    <2> SUFFICES ASSUME reorgs = 0, NEW i \in DOMAIN txs, Flying(txs[i], final)
                 PROVE  txs[i].stage \in DOMAIN new /\ new[txs[i].stage].tx = i
      BY DEF Recorded
    <2>1. txs[i].stage # s
      BY <1>3 DEF Grounded
    <2>2. txs[i].stage \in DOMAIN mem.sent /\ mem.sent[txs[i].stage].tx = i
      BY <1>2 DEF IInv, Flight, Recorded
    <2> QED
      BY <2>1, <2>2 DEF Put
  <1>9. /\ setup' = setup /\ head' = head /\ final' = final /\ reorgs' = reorgs /\ txs' = txs
        /\ hd' = hd /\ fold' = fold /\ budget' = budget /\ calls' = calls /\ attempts' = attempts
        /\ Stages' = Stages /\ TxRecords' = TxRecords
    BY <1>1 DEF chainVars, tickVars, history, Stages, TxRecords
  <1>10. new[s] = Intent /\ s \in DOMAIN new /\ \A t \in DOMAIN mem.sent : t # s => new[t] = mem.sent[t]
    BY DEF Put
  <1>11. DOMAIN new = DOMAIN mem.sent \cup {s}
    BY DEF Put
  <1> HIDE DEF new
  <1>12. /\ disk' = sub \/ disk' = disk
         /\ mem' = sub \/ mem' = mem
         /\ isolated' = isolated /\ faults' \in 0 .. setup.faults
    <2>1. faults \in 0 .. setup.faults /\ setup.faults \in Nat
      BY IInvIs, SetupIs
    <2> QED
      BY <1>1, <2>1 DEF Save, SaveFails, Fault
  <1>13. ChainOK'
    BY <1>9, <1>12 DEF IInv, ChainOK
  <1>14. RecordsOK'
    <2>1. IsSub(disk') /\ Sound(disk'.sent)
      BY <1>5, <1>6, <1>12, IInvIs
    <2>2. IsSub(mem') /\ Sound(mem'.sent)
      BY <1>5, <1>6, <1>12, IInvIs
    <2> QED
      BY <1>9, <2>1, <2>2 DEF RecordsOK, Sound
  <1>15. CASE Save(sub) /\ pc' = "sign" /\ posted' = posted + 1 /\ todo' = todo /\ queue' = queue
    <2>1. disk' = sub /\ mem' = sub /\ disk'.sent = new /\ mem'.sent = new
      BY <1>5, <1>15 DEF Save
    <2> HIDE DEF sub
    <2>2. Sync'
      <3>1. posted' \in Nat
        BY <1>15 DEF IInv, Sync
      <3> QED
        BY <1>2, <1>9, <1>12, <1>15, <2>1, <3>1 DEF IInv, Sync, Places
    <2>3. Stepping'
      <3>1. todo \in Seq(Stages) /\ todo # <<>> /\ Distinct(todo)
        BY <1>1 DEF IInv, Stepping, Working
      <3>2. Len(txs) < MaxTx
        <4>1. Len(txs) \in Nat /\ setup.txs \in Nat /\ setup.txs =< MaxTx /\ MaxTx \in Nat
          BY IInvIs, SetupIs DEF IInv, ChainOK
        <4> QED
          BY <1>1, <4>1
      <3>3. Head(todo) \in DOMAIN new /\ new[Head(todo)].head = hd /\ ~ new[Head(todo)].failed /\ new[Head(todo)].last = 0
            /\ new[Head(todo)].ss = "intent"
        BY <1>4, <1>10
      <3> QED
        BY <1>2, <1>9, <1>15, <2>1, <3>1, <3>2, <3>3 DEF Stepping, QueueOK, UnderWay, Working
    <2>4. Flight'
      BY <1>3, <1>8, <1>9, <1>15, <2>1 DEF Flight
    <2>5. Fresh'
      <3> SUFFICES ASSUME reorgs = 0, NEW k \in DOMAIN todo PROVE Cleared(todo[k], new, hd)
        BY <1>9, <1>15, <2>1 DEF Fresh
      <3>1. Cleared(todo[k], mem.sent, hd)
        BY <1>1 DEF IInv, Fresh, Working
      <3> QED
        BY <1>4, <1>10, <1>11, <3>1 DEF Cleared
    <2>6. Budget'
      BY <1>7, <1>9, <1>15, <2>1 DEF IInv, Budget, Sync
    <2> QED
      BY <1>13, <1>14, <2>2, <2>3, <2>4, <2>5, <2>6 DEF IInv
  <1>16. CASE SaveFails(sub) /\ pc' = "recover" /\ queue' = <<>> /\ posted' = posted
    <2>1. mem' = mem /\ (disk'.sent = disk.sent \/ disk'.sent = new)
      BY <1>5, <1>12, <1>16 DEF SaveFails
    <2>2. Sync'
      BY <1>2, <1>9, <1>12, <1>16 DEF IInv, Sync, Places
    <2>3. Stepping'
      BY <1>9, <1>16, EmptyQueue DEF Stepping, QueueOK, Working
    <2>4. Flight'
      BY <1>8, <1>9, <1>16, <2>1 DEF IInv, Flight
    <2>5. Fresh'
      BY <1>16 DEF Fresh, Working
    <2>6. Budget'
      BY <1>7, <1>9, <1>16, <2>1 DEF IInv, Budget, Sending
    <2> QED
      BY <1>13, <1>14, <2>2, <2>3, <2>4, <2>5, <2>6 DEF IInv
  <1> QED
    BY <1>1, <1>15, <1>16

-----------------------------------------------------------------------------
(* Retries that send nothing, recovery and cancellation. *)

(* A call or a write that fails counts. *)
LEMMA FaultIs ==
    ASSUME IInv, Fault
    PROVE  faults' \in 0 .. setup.faults
  <1>1. faults \in 0 .. setup.faults /\ setup.faults \in Nat
    BY IInvIs, SetupIs
  <1> QED
    BY <1>1 DEF Fault

LEMMA TickEndsKeeps ==
    ASSUME IInv, TickEnds
    PROVE  IInv'
  <1>1. /\ pc = "retry" /\ pc' = "idle" /\ queue' = <<>> /\ disk' = disk /\ mem' = mem /\ isolated' = isolated
        /\ UNCHANGED <<chainVars, txs, tickVars, history>> /\ posted' = posted /\ faults' = faults
    BY DEF TickEnds, Unmoved, recordVars
  <1>2. hd # 0 /\ (~ isolated => mem.sent = disk.sent)
    BY <1>1 DEF IInv, Sync
  <1>3. Quiet /\ RecordsMove
    BY <1>1, StillMove, IInvIs DEF Quiet
  <1>4. Rests
    BY <1>1, <1>2, EmptyQueue, IInvIs DEF Rests
  <1> QED
    BY <1>3, <1>4, ToRest

(* What the client finds when it looks at a part again. *)
LEMMA AtRetry ==
    ASSUME IInv, Retrying
    PROVE  /\ pc = "retry" /\ queue # <<>> /\ posted < PBlk
           /\ hd # 0 /\ ~ isolated /\ isolated \in BOOLEAN /\ mem.sent = disk.sent
           /\ QueueOK(queue) /\ QueueOK(Tail(queue)) /\ Head(queue) \in Stages /\ Head(queue)[1] = "part"
  <1>1. pc = "retry" /\ queue # <<>> /\ posted < PBlk
    BY DEF Retrying, MayPost
  <1>2. hd # 0 /\ ~ isolated /\ isolated \in BOOLEAN /\ mem.sent = disk.sent
    BY <1>1 DEF IInv, Sync
  <1> QED
    BY <1>1, <1>2, TailQueue, IInvIs

LEMMA RetrySkipsKeeps ==
    ASSUME IInv, RetrySkips
    PROVE  IInv'
  <1>1. /\ Retrying /\ pc' = pc /\ queue' = Tail(queue) /\ disk' = disk /\ mem' = mem /\ isolated' = isolated
        /\ UNCHANGED <<chainVars, txs, tickVars, history>> /\ posted' = posted /\ faults' = faults
    BY DEF RetrySkips, Unmoved, recordVars
  <1>2. /\ pc = "retry" /\ hd # 0 /\ ~ isolated /\ isolated \in BOOLEAN /\ mem.sent = disk.sent
        /\ QueueOK(Tail(queue))
    BY <1>1, AtRetry
  <1>3. Quiet /\ RecordsMove
    BY <1>1, StillMove, IInvIs DEF Quiet
  <1>4. Rests
    BY <1>1, <1>2 DEF Rests
  <1> QED
    BY <1>3, <1>4, ToRest

LEMMA RetryMarksKeeps ==
    ASSUME IInv, RetryMarks
    PROVE  IInv'
  <1> DEFINE s == Head(queue)
  <1>1. /\ Retrying /\ queue' = Tail(queue)
        /\ UNCHANGED <<chainVars, txs, tickVars, history>> /\ posted' = posted
    BY DEF RetryMarks, Unmoved
  <1>2. \E rec : /\ \/ Receipt(s) = "rev" /\ rec = Reverted(s)
                    \/ NonceConsumed(s) /\ rec = Stopped(s)
                 /\ \/ Save(WithSent(mem, s, rec)) /\ pc' = pc
                    \/ SaveFails(WithSent(mem, s, rec)) /\ pc' = "recover"
    BY DEF RetryMarks, Recovers
  <1>3. PICK rec : /\ \/ Receipt(s) = "rev" /\ rec = Reverted(s)
                      \/ NonceConsumed(s) /\ rec = Stopped(s)
                   /\ \/ Save(WithSent(mem, s, rec)) /\ pc' = pc
                      \/ SaveFails(WithSent(mem, s, rec)) /\ pc' = "recover"
    BY <1>2
  <1>4. /\ pc = "retry" /\ hd # 0 /\ ~ isolated /\ isolated \in BOOLEAN /\ mem.sent = disk.sent
        /\ QueueOK(Tail(queue))
    BY <1>1, AtRetry
  <1>5. s \in DOMAIN mem.sent /\ RecOK(s, rec, txs, calls, reorgs, head) /\ Kin(mem.sent[s], rec)
    <2>1. CASE Receipt(s) = "rev" /\ rec = Reverted(s)
      BY <2>1, RevertedIs
    <2>2. CASE NonceConsumed(s) /\ rec = Stopped(s)
      <3>1. s \in DOMAIN mem.sent
        BY <2>2 DEF NonceConsumed
      <3> QED
        BY <2>2, <3>1, StoppedIs
    <2> QED
      BY <1>3, <2>1, <2>2
  <1>6. CASE Save(WithSent(mem, s, rec)) /\ pc' = pc
    <2>1. /\ RecordsMove /\ isolated' = isolated /\ faults' = faults
          /\ disk'.sent = mem'.sent
      BY <1>4, <1>5, <1>6, SaveIs
    <2>2. Quiet
      BY <1>1, <2>1, IInvIs DEF Quiet
    <2>3. Rests
      BY <1>1, <1>4, <1>6, <2>1 DEF Rests
    <2> QED
      BY <2>1, <2>2, <2>3, ToRest
  <1>7. CASE SaveFails(WithSent(mem, s, rec)) /\ pc' = "recover"
    <2>1. RecordsMove /\ isolated' = isolated /\ faults' \in 0 .. setup.faults
      BY <1>4, <1>5, <1>7, SaveFailsIs
    <2>2. Quiet
      BY <1>1, <2>1 DEF Quiet
    <2>3. Rests
      BY <1>1, <1>4, <1>7, <2>1 DEF Rests
    <2> QED
      BY <2>1, <2>2, <2>3, ToRest
  <1> QED
    BY <1>3, <1>6, <1>7

LEMMA RetryFailsKeeps ==
    ASSUME IInv, RetryFails
    PROVE  IInv'
  <1>1. /\ Retrying /\ queue' = Tail(queue) /\ pc' = "recover" /\ Unavailable(Head(queue))
        /\ UNCHANGED <<chainVars, txs, tickVars, history>> /\ posted' = posted
    BY DEF RetryFails, Recovers, Unmoved
  <1>2. /\ hd # 0 /\ ~ isolated /\ isolated \in BOOLEAN /\ mem.sent = disk.sent
        /\ QueueOK(Tail(queue))
    BY <1>1, AtRetry
  <1>3. RecordsMove /\ isolated' = isolated /\ faults' \in 0 .. setup.faults
    BY <1>1, <1>2, UnavailableIs
  <1>4. Quiet
    BY <1>1, <1>3 DEF Quiet
  <1>5. Rests
    BY <1>1, <1>2, <1>3 DEF Rests
  <1> QED
    BY <1>3, <1>4, <1>5, ToRest

LEMMA RecoverKeeps ==
    ASSUME IInv, Recover
    PROVE  IInv'
  <1>1. /\ pc = "recover" /\ pc' = "retry" /\ disk' = Reread(disk) /\ mem' = disk' /\ queue' = queue
        /\ isolated' = isolated /\ faults' = faults
        /\ UNCHANGED <<chainVars, txs, tickVars, history>> /\ posted' = posted
    BY DEF Recover, Save, Unmoved
  <1>2. hd # 0 /\ ~ isolated
    BY <1>1 DEF IInv, Sync
  <1>3. Quiet /\ RecordsMove
    BY <1>1, RereadMove, IInvIs DEF Quiet, RecordsMove
  <1>4. Rests
    BY <1>1, <1>2, IInvIs DEF Rests
  <1> QED
    BY <1>3, <1>4, ToRest

LEMMA RecoverFailsKeeps ==
    ASSUME IInv, RecoverFails
    PROVE  IInv'
  <1>1. /\ pc = "recover" /\ pc' = "retry" /\ disk' \in {disk, Reread(disk)} /\ mem' = mem /\ queue' = <<>>
        /\ isolated' /\ isolated' \in BOOLEAN /\ Fault
        /\ UNCHANGED <<chainVars, txs, tickVars, history>> /\ posted' = posted
    BY DEF RecoverFails, Unmoved
  <1>2. hd # 0
    BY <1>1 DEF IInv, Sync
  <1>3. Quiet
    BY <1>1, FaultIs DEF Quiet
  <1>4. RecordsMove
    <2>1. CASE disk' = disk
      BY <1>1, <2>1, StillMove
    <2>2. CASE disk' = Reread(disk)
      BY <1>1, <2>2, RereadMove, IInvIs DEF RecordsMove
    <2> QED
      BY <1>1, <2>1, <2>2
  <1>5. Rests
    BY <1>1, <1>2, EmptyQueue DEF Rests
  <1> QED
    BY <1>3, <1>4, <1>5, ToRest

LEMMA StartKeeps ==
    ASSUME IInv, Start
    PROVE  IInv'
  <1>1. /\ pc = "down" /\ pc' = "idle" /\ disk' = Restored(disk) /\ mem' = disk' /\ queue' = queue
        /\ isolated' = isolated /\ faults' = faults
        /\ UNCHANGED <<chainVars, txs, tickVars, history>> /\ posted' = posted
    BY DEF Start, Save, Unmoved
  <1>2. ~ isolated
    BY <1>1 DEF IInv, Sync
  <1>3. Quiet /\ RecordsMove
    BY <1>1, RereadMove, IInvIs DEF Quiet, RecordsMove
  <1>4. Rests
    BY <1>1, <1>2, IInvIs DEF Rests
  <1> QED
    BY <1>3, <1>4, ToRest

(* A start whose write fails leaves the process down. *)
LEMMA StartFailsKeeps ==
    ASSUME IInv, StartFails
    PROVE  IInv'
  <1>1. /\ pc = "down" /\ pc' = pc /\ disk' \in {disk, Restored(disk)} /\ mem' = mem /\ queue' = queue
        /\ isolated' = isolated /\ Fault /\ todo' = todo
        /\ UNCHANGED <<chainVars, txs, tickVars, history>> /\ posted' = posted
    BY DEF StartFails, SaveFails, Unmoved
  <1>2. Quiet
    BY <1>1, FaultIs DEF Quiet
  <1>3. RecordsMove
    <2>1. CASE disk' = disk
      BY <1>1, <2>1, StillMove
    <2>2. CASE disk' = Restored(disk)
      BY <1>1, <2>2, RereadMove, IInvIs DEF RecordsMove
    <2> QED
      BY <1>1, <2>1, <2>2
  <1>4. ChainOK' /\ RecordsOK' /\ Flight' /\ Budget'
    BY <1>1, <1>2, <1>3, QuietKeeps DEF Sending
  <1>5. /\ head' = head /\ final' = final /\ hd' = hd /\ fold' = fold /\ budget' = budget /\ posted' = posted
        /\ Stages' = Stages
    BY <1>2, QuietIs
  <1>6. Sync'
    BY <1>1, <1>5 DEF IInv, Sync, Places
  <1>7. Stepping'
    BY <1>1, <1>5 DEF IInv, Stepping, Working
  <1>8. Fresh'
    BY <1>1 DEF Fresh, Working
  <1> QED
    BY <1>4, <1>6, <1>7, <1>8 DEF IInv

(* The end of the process: what it kept in memory is gone. *)
LEMMA CrashKeeps ==
    ASSUME IInv, Crash
    PROVE  IInv'
  <1> DEFINE b == FALSE
             e == <<>>
  <1>1. /\ pc' = "down" /\ ~ isolated' /\ isolated' \in BOOLEAN /\ mem' = [cancel |-> b, sent |-> e]
        /\ queue' = <<>> /\ posted' = 0 /\ hd' = 0 /\ fold' = 0 /\ budget' = 0 /\ Fault
        /\ UNCHANGED <<chainVars, txs, disk, history>>
    BY DEF Crash
  <1>2. /\ setup' = setup /\ head' = head /\ final' = final /\ reorgs' = reorgs /\ txs' = txs /\ disk' = disk
        /\ calls' = calls /\ attempts' = attempts /\ Stages' = Stages /\ TxRecords' = TxRecords
    BY <1>1 DEF chainVars, history, Stages, TxRecords
  <1>3. ChainOK'
    <2>1. faults' \in 0 .. setup.faults
      BY <1>1, FaultIs
    <2> QED
      BY <1>2, <2>1 DEF IInv, ChainOK
  <1>4. Sound(e)
    <2>1. e = [s \in DOMAIN e |-> e[s]] /\ DOMAIN e = {}
      OBVIOUS
    <2> HIDE DEF e
    <2> QED
      BY <2>1 DEF Sound, SentOK
  <1>5. b \in BOOLEAN
    OBVIOUS
  <1> HIDE DEF b, e
  <1>6. IsSub(mem') /\ mem'.sent = e
    BY <1>1, <1>5, SubIs
  <1>7. RecordsOK'
    BY <1>2, <1>4, <1>6 DEF IInv, RecordsOK, Sound
  <1>8. Sync'
    BY <1>1, <1>2, IInvIs DEF IInv, Sync, Places
  <1>9. Stepping'
    BY <1>1, <1>2, EmptyQueue DEF Stepping, Working, QueueOK
  <1>10. Flight'
    BY <1>1, <1>2 DEF IInv, Flight
  <1>11. Fresh'
    BY <1>1 DEF Fresh, Working
  <1>12. Budget'
    BY <1>1, <1>2 DEF IInv, Budget, Sending
  <1> QED
    BY <1>3, <1>7, <1>8, <1>9, <1>10, <1>11, <1>12 DEF IInv

LEMMA CancelKeeps ==
    ASSUME IInv, Cancel
    PROVE  IInv'
  <1> DEFINE b == TRUE
             sub == [mem EXCEPT !.cancel = b]
  <1>1. /\ pc = "idle" /\ ~ isolated /\ pc' = pc /\ todo' = todo /\ queue' = queue
        /\ UNCHANGED <<chainVars, txs, tickVars, history>> /\ posted' = posted
        /\ Save(sub) \/ SaveFails(sub)
    BY DEF Cancel, Unmoved
  <1>2. b \in BOOLEAN
    OBVIOUS
  <1> HIDE DEF b
  <1>3. IsSub(sub) /\ sub.sent = mem.sent
    BY <1>2, CancelIs, IInvIs
  <1> HIDE DEF sub
  <1>4. mem.sent = disk.sent
    BY <1>1 DEF IInv, Sync
  <1>5. disk' \in {disk, sub} /\ mem' \in {mem, sub} /\ isolated' = isolated /\ faults' \in 0 .. setup.faults
    BY <1>1, FaultIs, IInvIs DEF Save, SaveFails
  <1>6. disk'.sent = disk.sent /\ mem'.sent = mem.sent /\ IsSub(disk') /\ IsSub(mem')
    BY <1>3, <1>4, <1>5, IInvIs
  <1>7. Quiet
    BY <1>1, <1>5 DEF Quiet
  <1>8. RecordsMove
    <2>1. KinSent(disk.sent, disk.sent)
      BY DEF KinSent, Kin
    <2> QED
      BY <1>6, <2>1, IInvIs DEF RecordsMove
  <1>9. Rests
    BY <1>1, <1>4, <1>5, <1>6, IInvIs DEF Rests
  <1> QED
    BY <1>7, <1>8, <1>9, ToRest

-----------------------------------------------------------------------------
(* Sending one stage: the signature, the call and its record. *)

(* A signed transaction more. *)
SignedMore(T, U, s, n) ==
    /\ U \in Seq(TxRecords) /\ Len(U) = n
    /\ n \in DOMAIN U /\ n \notin DOMAIN T
    /\ \A i \in DOMAIN U : i \in DOMAIN T \/ i = n
    /\ U[n].stage = s /\ U[n].st = "signed" /\ U[n].at = 0
    /\ \A i \in DOMAIN T : i \in DOMAIN U /\ U[i] = T[i]

LEMMA NewTx ==
    ASSUME NEW T \in Seq(TxRecords), NEW s \in Stages, MaxHead \in Nat
    PROVE  SignedMore(T, Append(T, [stage |-> s, st |-> "signed", at |-> 0]), s, Len(T) + 1)
  <1> DEFINE t == [stage |-> s, st |-> "signed", at |-> 0]
             U == Append(T, t)
  <1>1. t \in TxRecords /\ t.stage = s /\ t.st = "signed" /\ t.at = 0
    BY DEF TxRecords
  <1> HIDE DEF t
  <1>2. /\ U \in Seq(TxRecords) /\ Len(U) = Len(T) + 1 /\ Len(T) \in Nat
        /\ DOMAIN U = 1 .. Len(T) + 1 /\ DOMAIN T = 1 .. Len(T) /\ U[Len(T) + 1] = t
        /\ \A i \in 1 .. Len(T) : U[i] = T[i]
    BY <1>1
  <1> HIDE DEF U
  <1>3. SignedMore(T, U, s, Len(T) + 1)
    BY <1>1, <1>2 DEF SignedMore
  <1> QED
    BY <1>3 DEF U, t

(* What the client finds when it sends a stage. *)
LEMMA AtSend ==
    ASSUME IInv, pc \in {"sign", "deliver", "record"}
    PROVE  /\ hd # 0 /\ ~ isolated /\ isolated \in BOOLEAN /\ pc \in Working
           /\ todo \in Seq(Stages) /\ todo # <<>> /\ Distinct(todo) /\ Head(todo) \in Stages
           /\ QueueOK(queue) /\ Head(todo) \in DOMAIN mem.sent
           /\ UnderWay(mem.sent[Head(todo)])
           /\ RecOK(Head(todo), mem.sent[Head(todo)], txs, calls, reorgs, head)
           /\ pc # "record" => mem.sent = disk.sent
  <1>1. /\ hd # 0 /\ ~ isolated /\ isolated \in BOOLEAN /\ pc \in Working /\ (pc # "record" => mem.sent = disk.sent)
    BY DEF IInv, Sync, Working
  <1>2. /\ todo \in Seq(Stages) /\ todo # <<>> /\ Distinct(todo)
        /\ Head(todo) \in DOMAIN mem.sent /\ UnderWay(mem.sent[Head(todo)])
    BY <1>1 DEF IInv, Stepping
  <1>3. Head(todo) \in Stages
    BY <1>2
  <1> QED
    BY <1>1, <1>2, <1>3, IInvIs

(* Another record with the same heads is charged alike. *)
LEMMA PutCharged ==
    ASSUME NEW sent, NEW s \in DOMAIN sent, NEW rec, rec.head = sent[s].head, rec.last = sent[s].last, NEW h
    PROVE  ChargedTo(Put(sent, s, rec), h) = ChargedTo(sent, h)
  BY DEF ChargedTo, Put

LEMMA SignKeeps ==
    ASSUME IInv, Sign
    PROVE  IInv'
  <1> DEFINE s == Head(todo)
             n == Len(txs) + 1
             r == mem.sent[s]
             rec == [r EXCEPT !.tx = n, !.ss = "prepared"]
             new == Put(mem.sent, s, rec)
             sub == WithSent(mem, s, rec)
  <1>1. /\ pc = "sign" /\ txs' = Append(txs, [stage |-> s, st |-> "signed", at |-> 0])
        /\ \/ Save(sub) /\ pc' = "deliver"
           \/ SaveFails(sub) /\ pc' = "record" /\ reply' = "notsent"
        /\ UNCHANGED <<chainVars, tickVars, todo, queue, posted, history>>
    BY DEF Sign, Prepared, Signed
  <1>2. /\ setup' = setup /\ head' = head /\ final' = final /\ reorgs' = reorgs /\ todo' = todo /\ queue' = queue
        /\ hd' = hd /\ fold' = fold /\ budget' = budget /\ calls' = calls /\ attempts' = attempts
        /\ Stages' = Stages /\ TxRecords' = TxRecords /\ posted' = posted
    BY <1>1 DEF chainVars, tickVars, history, Stages, TxRecords
  <1>3. /\ hd # 0 /\ ~ isolated /\ isolated \in BOOLEAN /\ pc \in Working
        /\ todo \in Seq(Stages) /\ todo # <<>> /\ Distinct(todo) /\ s \in Stages
        /\ QueueOK(queue) /\ s \in DOMAIN mem.sent /\ UnderWay(r)
        /\ RecOK(s, r, txs, calls, reorgs, head)
        /\ mem.sent = disk.sent
    BY <1>1, AtSend
  <1>4. r.ss = "intent" /\ r.tx = 0 /\ Len(txs) < MaxTx /\ r \in SentRecords
    BY <1>1, <1>3 DEF IInv, Stepping, RecOK
  <1>5. MaxTx \in Nat /\ MaxHead \in Nat /\ setup \in Scenarios /\ txs \in Seq(TxRecords) /\ Rebroadcasts \in Nat
    BY IInvIs, SetupIs DEF IInv, ChainOK
  <1>6. n \in 1 .. MaxTx
    BY <1>4, <1>5
  <1> HIDE DEF r, n, rec
  <1>7. /\ rec \in SentRecords /\ rec.tx = n /\ rec.ss = "prepared"
        /\ rec.head = r.head /\ rec.last = r.last /\ rec.failed = r.failed /\ rec.tries = r.tries
    <2> DEFINE a == [r EXCEPT !.tx = n]
               v == "prepared"
    <2>1. rec = [a EXCEPT !.ss = v] /\ v \in {"intent", "prepared", "ack", "amb", "notsent"}
      BY DEF rec
    <2> HIDE DEF v
    <2>2. n \in 0 .. MaxTx
      BY <1>5, <1>6
    <2>3. /\ a \in SentRecords /\ a.tx = n
          /\ a.head = r.head /\ a.last = r.last /\ a.failed = r.failed /\ a.tries = r.tries
      BY <1>4, <2>2 DEF SentRecords
    <2> HIDE DEF a
    <2>4. /\ [a EXCEPT !.ss = v] \in SentRecords /\ Kin(a, [a EXCEPT !.ss = v])
          /\ [a EXCEPT !.ss = v].ss = v /\ [a EXCEPT !.ss = v].failed = a.failed
      BY <2>1, <2>3, NewState
    <2>5. rec \in SentRecords /\ Kin(a, rec) /\ rec.ss = v /\ rec.failed = a.failed
      BY <2>1, <2>4
    <2> QED
      BY <2>3, <2>5 DEF v, Kin
  <1>8. /\ txs' \in Seq(TxRecords) /\ Len(txs') = n /\ n \in DOMAIN txs' /\ n \notin DOMAIN txs
        /\ \A i \in DOMAIN txs' : i \in DOMAIN txs \/ i = n
        /\ txs'[n].stage = s /\ txs'[n].st = "signed" /\ txs'[n].at = 0
        /\ \A i \in DOMAIN txs : i \in DOMAIN txs' /\ txs'[i] = txs[i]
    <2>1. SignedMore(txs, Append(txs, [stage |-> s, st |-> "signed", at |-> 0]), s, Len(txs) + 1)
      BY <1>3, <1>5, NewTx
    <2>2. SignedMore(txs, txs', s, n)
      BY <1>1, <2>1 DEF n
    <2> QED
      BY <2>2 DEF SignedMore
  <1>9. calls[n] = 0 /\ n > Len(txs) /\ n \in Nat
    <2>1. n > Len(txs) /\ n \in Nat
      BY <1>5 DEF n
    <2> QED
      BY <1>6, <2>1 DEF IInv, ChainOK
  <1>10. IsSub(sub) /\ sub.sent = new
    BY WithSentIs, IInvIs
  <1>11. /\ disk' = sub \/ disk' = disk
         /\ mem' = sub \/ mem' = mem
         /\ isolated' = isolated /\ faults' \in 0 .. setup.faults
    BY <1>1, FaultIs, IInvIs DEF Save, SaveFails
  <1> HIDE DEF sub
  <1>12. ChainOK'
    <2>1. \A i \in DOMAIN txs' : txs'[i].at =< head /\ (txs'[i].st = "signed" => txs'[i].at = 0)
      <3>1. \A i \in DOMAIN txs : txs[i].at =< head /\ (txs[i].st = "signed" => txs[i].at = 0)
        BY DEF IInv, ChainOK
      <3>2. head \in Nat
        BY IInvIs
      <3> QED
        BY <1>8, <3>1, <3>2
    <2>2. \A i \in 1 .. MaxTx : i > n => calls[i] = 0
      <3>1. \A i \in 1 .. MaxTx : i > Len(txs) => calls[i] = 0
        BY DEF IInv, ChainOK
      <3>2. Len(txs) \in Nat
        BY <1>5
      <3> QED
        BY <1>9, <3>1, <3>2
    <2>3. Len(txs') =< MaxTx
      BY <1>5, <1>6, <1>8
    <2> QED
      BY <1>2, <1>8, <1>11, <2>1, <2>2, <2>3 DEF IInv, ChainOK
  <1>13. SentOK(mem.sent, Stages, txs', calls, reorgs, head)
    <2>1. TxStep(txs, txs', reorgs, head)
      BY <1>8 DEF TxStep
    <2>2. \A i \in DOMAIN txs' : txs'[i].at \in Nat
      <3> SUFFICES ASSUME NEW i \in DOMAIN txs' PROVE txs'[i].at \in Nat
        OBVIOUS
      <3>1. txs'[i] \in TxRecords
        BY <1>8
      <3> QED
        BY <1>5, <3>1 DEF TxRecords
    <2>3. reorgs \in Nat /\ head \in Nat
      BY IInvIs, SetupIs DEF IInv, ChainOK
    <2>4. \A t \in DOMAIN mem.sent : mem.sent[t].tx # 0 => calls[mem.sent[t].tx] =< 1 + mem.sent[t].tries
      BY IInvIs DEF RecOK
    <2>5. SentOK(mem.sent, Stages, txs, calls, reorgs, head) /\ reorgs =< reorgs /\ head =< head
      BY <2>3, IInvIs DEF Sound
    <2> QED
      BY <2>1, <2>2, <2>3, <2>4, <2>5, SentCarries
  <1>14. SentOK(new, Stages, txs', calls, reorgs, head)
    <2>1. RecOK(s, rec, txs', calls, reorgs, head)
      <3>1. rec.tries \in Nat /\ ~ rec.failed /\ rec.last = 0
        BY <1>3, <1>5, <1>7 DEF UnderWay, SentRecords
      <3>2. calls[n] =< 1 + rec.tries
        BY <1>9, <3>1
      <3> QED
        BY <1>7, <1>8, <3>1, <3>2 DEF RecOK
    <2> QED
      BY <1>3, <1>13, <2>1, PutOK
  <1>15. RecordsOK'
    <2>1. IsSub(disk') /\ SentOK(disk'.sent, Stages, txs', calls, reorgs, head)
      BY <1>3, <1>10, <1>11, <1>13, <1>14, IInvIs
    <2>2. IsSub(mem') /\ SentOK(mem'.sent, Stages, txs', calls, reorgs, head)
      BY <1>10, <1>11, <1>13, <1>14, IInvIs
    <2> QED
      BY <1>2, <2>1, <2>2 DEF RecordsOK
  <1>16. new[s] = rec /\ DOMAIN new = DOMAIN mem.sent /\ \A t \in DOMAIN mem.sent : t # s => new[t] = mem.sent[t]
    BY <1>3 DEF Put
  <1>17. ChargedTo(new, head) = ChargedTo(disk.sent, head) /\ ChargedTo(new, hd) = ChargedTo(disk.sent, hd)
    BY <1>3, <1>7, PutCharged DEF r
  <1> HIDE DEF new
  <1>18. reorgs = 0 => /\ Recorded(disk.sent, txs', final) /\ Recorded(new, txs', final)
                       /\ Grounded(s, txs', final)
    <2> SUFFICES ASSUME reorgs = 0
                 PROVE  /\ Recorded(disk.sent, txs', final) /\ Recorded(new, txs', final)
                        /\ Grounded(s, txs', final)
      OBVIOUS
    <2>1. Recorded(disk.sent, txs, final) /\ Grounded(s, txs, final)
      BY <1>1 DEF IInv, Flight
    <2>2. ~ Flying(txs'[n], final)
      BY <1>8 DEF Flying
    <2>3. Grounded(s, txs', final)
      BY <1>8, <2>1, <2>2 DEF Grounded
    <2>4. Recorded(disk.sent, txs', final)
      BY <1>8, <2>1, <2>2 DEF Recorded
    <2>5. Recorded(new, txs', final)
      BY <1>3, <1>16, <2>3, <2>4 DEF Recorded, Grounded
    <2> QED
      BY <2>3, <2>4, <2>5
  <1>19. CASE Save(sub) /\ pc' = "deliver"
    <2>1. disk'.sent = new /\ mem'.sent = new
      BY <1>10, <1>19 DEF Save
    <2>2. Sync'
      BY <1>2, <1>3, <1>11, <1>19, <2>1 DEF IInv, Sync, Places
    <2>3. Stepping'
      <3>1. UnderWay(rec)
        BY <1>3, <1>7 DEF UnderWay
      <3> QED
        BY <1>2, <1>3, <1>7, <1>8, <1>9, <1>16, <1>19, <2>1, <3>1 DEF Stepping, QueueOK, UnderWay, Working
    <2>4. Flight'
      BY <1>2, <1>18, <1>19, <2>1 DEF Flight
    <2>5. Fresh'
      <3> SUFFICES ASSUME reorgs = 0, NEW k \in DOMAIN todo PROVE Cleared(todo[k], new, hd)
        BY <1>2, <1>19, <2>1 DEF Fresh
      <3>1. Cleared(todo[k], mem.sent, hd)
        BY <1>3 DEF IInv, Fresh
      <3>2. ~ rec.failed
        BY <1>3, <1>7 DEF UnderWay
      <3> QED
        BY <1>16, <3>1, <3>2 DEF Cleared
    <2>6. Budget'
      BY <1>1, <1>2, <1>17, <1>19, <2>1 DEF IInv, Budget, Sending
    <2> QED
      BY <1>12, <1>15, <2>2, <2>3, <2>4, <2>5, <2>6 DEF IInv
  <1>20. CASE SaveFails(sub) /\ pc' = "record" /\ reply' = "notsent"
    <2>1. mem' = mem /\ (disk'.sent = new \/ disk'.sent = disk.sent)
      BY <1>10, <1>20 DEF SaveFails
    <2>2. Sync'
      BY <1>2, <1>3, <1>11, <1>20 DEF IInv, Sync, Places
    <2>3. Beside(disk'.sent, mem.sent, s, hd)
      BY <1>3, <1>7, <1>16, <2>1 DEF Beside, UnderWay, r
    <2>4. Stepping'
      BY <1>2, <1>3, <1>4, <1>20, <2>1, <2>3 DEF Stepping, QueueOK, UnderWay, Working, r
    <2>5. Flight'
      BY <1>2, <1>18, <1>20, <2>1 DEF Flight
    <2>6. Fresh'
      BY <1>2, <1>3, <1>20, <2>1 DEF IInv, Fresh, Working
    <2>7. Budget'
      BY <1>1, <1>2, <1>17, <1>20, <2>1 DEF IInv, Budget, Sending
    <2> QED
      BY <1>12, <1>15, <2>2, <2>4, <2>5, <2>6, <2>7 DEF IInv
  <1> QED
    BY <1>1, <1>19, <1>20

LEMMA SignFailsKeeps ==
    ASSUME IInv, SignFails
    PROVE  IInv'
  <1> DEFINE s == Head(todo)
             r == mem.sent[s]
  <1>1. /\ pc = "sign" /\ pc' = "record" /\ reply' = "notsent" /\ Fault
        /\ UNCHANGED <<chainVars, txs, recordVars, tickVars, todo, queue, posted, history>>
    BY DEF SignFails
  <1>2. /\ setup' = setup /\ head' = head /\ final' = final /\ reorgs' = reorgs /\ todo' = todo /\ queue' = queue
        /\ hd' = hd /\ fold' = fold /\ budget' = budget /\ calls' = calls /\ attempts' = attempts
        /\ Stages' = Stages /\ TxRecords' = TxRecords /\ posted' = posted /\ txs' = txs
        /\ disk' = disk /\ mem' = mem /\ isolated' = isolated
    BY <1>1 DEF chainVars, tickVars, history, Stages, TxRecords, recordVars
  <1>3. /\ hd # 0 /\ ~ isolated /\ isolated \in BOOLEAN /\ pc \in Working
        /\ todo \in Seq(Stages) /\ todo # <<>> /\ Distinct(todo)
        /\ QueueOK(queue) /\ s \in DOMAIN mem.sent /\ UnderWay(r)
        /\ RecOK(s, r, txs, calls, reorgs, head)
        /\ mem.sent = disk.sent
    BY <1>1, AtSend
  <1>4. r.ss = "intent" /\ r.tx = 0
    BY <1>1, <1>3 DEF IInv, Stepping, RecOK
  <1>5. ChainOK'
    <2>1. faults' \in 0 .. setup.faults
      BY <1>1, FaultIs
    <2> QED
      BY <1>2, <2>1 DEF IInv, ChainOK
  <1>6. RecordsOK'
    BY <1>2 DEF IInv, RecordsOK
  <1>7. Sync'
    BY <1>1, <1>2, <1>3 DEF IInv, Sync, Places
  <1>8. Stepping'
    <2>1. Beside(disk.sent, mem.sent, s, hd)
      BY <1>3 DEF Beside, UnderWay
    <2> QED
      BY <1>1, <1>2, <1>3, <1>4, <2>1 DEF Stepping, QueueOK, UnderWay, Working
  <1>9. Flight'
    BY <1>1, <1>2 DEF IInv, Flight
  <1>10. Fresh'
    BY <1>1, <1>2, <1>3 DEF IInv, Fresh, Working
  <1>11. Budget'
    BY <1>1, <1>2 DEF IInv, Budget, Sending
  <1> QED
    BY <1>5, <1>6, <1>7, <1>8, <1>9, <1>10, <1>11 DEF IInv

(* What a call does to the transactions: nothing, or one more waits for a block
   or is lost. *)
PoolMove(T, U, i) ==
    \/ U = T
    \/ T[i].st \notin {"ok", "rev"} /\ \E v \in {"pool", "lost"} : U = [T EXCEPT ![i].st = v]

Pooled(T, U, i) ==
    /\ U \in Seq(TxRecords) /\ Len(U) = Len(T) /\ DOMAIN U = DOMAIN T
    /\ \A j \in DOMAIN T : U[j].at = T[j].at /\ U[j].stage = T[j].stage
    /\ \A j \in DOMAIN T : j # i => U[j] = T[j]
    /\ U[i] = T[i] \/ (U[i].st \in {"pool", "lost"} /\ T[i].st \notin {"ok", "rev"})

(* One call: the transaction that a record names is handed to the network. *)
Sends(i) ==
    /\ Called(i) /\ PoolMove(txs, txs', i)
    /\ UNCHANGED <<chainVars, recordVars, tickVars, posted, faults>>

LEMMA PoolStep ==
    ASSUME NEW T \in Seq(TxRecords), NEW i \in DOMAIN T, NEW U, PoolMove(T, U, i)
    PROVE  Pooled(T, U, i)
  <1>1. CASE U = T
    BY <1>1 DEF Pooled
  <1>2. CASE T[i].st \notin {"ok", "rev"} /\ \E v \in {"pool", "lost"} : U = [T EXCEPT ![i].st = v]
    <2>1. PICK v \in {"pool", "lost"} : U = [T EXCEPT ![i].st = v]
      BY <1>2
    <2>2. /\ U \in Seq(TxRecords) /\ Len(U) = Len(T) /\ DOMAIN U = DOMAIN T
          /\ U[i].st = v /\ U[i].at = T[i].at /\ U[i].stage = T[i].stage
          /\ \A j \in DOMAIN T : j # i => U[j] = T[j]
      <3> DEFINE t == [T[i] EXCEPT !.st = v]
      <3>1. T[i] \in TxRecords /\ v \in {"signed", "pool", "lost", "gone", "ok", "rev"}
        OBVIOUS
      <3>2. t \in TxRecords /\ t.st = v /\ t.at = T[i].at /\ t.stage = T[i].stage
        BY <3>1 DEF TxRecords
      <3>3. U = [T EXCEPT ![i] = t]
        BY <2>1
      <3> HIDE DEF t
      <3>4. /\ U \in Seq(TxRecords) /\ Len(U) = Len(T) /\ DOMAIN U = DOMAIN T /\ U[i] = t
            /\ \A j \in DOMAIN T : j # i => U[j] = T[j]
        BY <3>2, <3>3
      <3> QED
        BY <3>2, <3>4
    <2> QED
      BY <1>2, <2>2 DEF Pooled
  <1> QED
    BY <1>1, <1>2 DEF PoolMove

LEMMA SendsIs ==
    ASSUME IInv, NEW s \in DOMAIN mem.sent, NEW i, i = mem.sent[s].tx, i # 0, mem.sent = disk.sent,
           calls[i] =< mem.sent[s].tries, Sends(i)
    PROVE  /\ ChainOK' /\ RecordsOK' /\ (reorgs = 0 => Recorded(disk'.sent, txs', final'))
           /\ i \in 1 .. MaxTx
  <1> DEFINE r == mem.sent[s]
  <1>1. /\ setup' = setup /\ head' = head /\ final' = final /\ reorgs' = reorgs
        /\ disk' = disk /\ mem' = mem /\ faults' = faults
        /\ Stages' = Stages /\ TxRecords' = TxRecords
        /\ calls' = [calls EXCEPT ![i] = @ + 1]
    BY DEF Sends, Called, chainVars, recordVars, Stages, TxRecords
  <1>2. RecOK(s, r, txs, calls, reorgs, head)
    BY IInvIs
  <1>3. /\ setup \in Scenarios /\ head \in Nat /\ reorgs \in Nat /\ final \in Nat /\ txs \in Seq(TxRecords) /\ MaxHead \in Nat
        /\ Rebroadcasts \in Nat /\ MaxTx \in Nat /\ Len(txs) =< MaxTx
        /\ calls \in [1 .. MaxTx -> 0 .. 1 + Rebroadcasts]
    BY IInvIs, SetupIs DEF IInv, ChainOK
  <1>4. i \in DOMAIN txs /\ txs[i].stage = s /\ r.tries \in 0 .. Rebroadcasts
    BY <1>2 DEF RecOK, SentRecords
  <1>5. i \in 1 .. MaxTx /\ i =< Len(txs)
    <2>1. i \in 1 .. Len(txs) /\ Len(txs) \in Nat
      BY <1>3, <1>4
    <2> QED
      BY <1>3, <2>1
  <1>6. /\ txs' \in Seq(TxRecords) /\ Len(txs') = Len(txs) /\ DOMAIN txs' = DOMAIN txs
        /\ \A j \in DOMAIN txs : txs'[j].at = txs[j].at /\ txs'[j].stage = txs[j].stage
        /\ \A j \in DOMAIN txs : j # i => txs'[j] = txs[j]
        /\ txs'[i] = txs[i] \/ (txs'[i].st \in {"pool", "lost"} /\ txs[i].st \notin {"ok", "rev"})
    <2>1. PoolMove(txs, txs', i)
      BY DEF Sends
    <2>2. Pooled(txs, txs', i)
      BY <1>3, <1>4, <2>1, PoolStep
    <2> QED
      BY <2>2 DEF Pooled
  <1>7. /\ calls' \in [1 .. MaxTx -> 0 .. 1 + Rebroadcasts]
        /\ calls'[i] = calls[i] + 1 /\ calls'[i] =< 1 + r.tries
        /\ \A j \in 1 .. MaxTx : j # i => calls'[j] = calls[j]
    <2>1. calls[i] \in Nat
      BY <1>3, <1>5
    <2>2. calls[i] + 1 \in 0 .. 1 + Rebroadcasts /\ calls[i] + 1 =< 1 + r.tries
      <3> DEFINE a == calls[i]
                 b == r.tries
      <3>1. a \in Nat /\ b \in 0 .. Rebroadcasts /\ a =< b
        BY <1>4, <2>1
      <3> HIDE DEF a, b
      <3>2. a + 1 \in 0 .. 1 + Rebroadcasts /\ a + 1 =< 1 + b
        BY <1>3, <3>1
      <3> QED
        BY <3>2 DEF a, b
    <2> QED
      BY <1>1, <1>3, <1>5, <2>2
  <1> HIDE DEF r
  <1>8. ChainOK'
    <2>1. \A j \in DOMAIN txs' : txs'[j].at =< head /\ (txs'[j].st = "signed" => txs'[j].at = 0)
      <3>1. \A j \in DOMAIN txs : txs[j].at =< head /\ (txs[j].st = "signed" => txs[j].at = 0)
        BY DEF IInv, ChainOK
      <3> QED
        BY <1>6, <3>1
    <2>2. \A j \in 1 .. MaxTx : j > Len(txs') => calls'[j] = 0
      <3> SUFFICES ASSUME NEW j \in 1 .. MaxTx, j > Len(txs) PROVE calls'[j] = 0
        BY <1>6
      <3>1. j # i
        BY <1>3, <1>5
      <3>2. calls[j] = 0
        BY DEF IInv, ChainOK
      <3> QED
        BY <1>7, <3>1, <3>2
    <2> QED
      BY <1>1, <1>3, <1>6, <1>7, <2>1, <2>2 DEF IInv, ChainOK
  <1>9. SentOK(mem.sent, Stages, txs', calls', reorgs, head)
    <2>1. TxStep(txs, txs', reorgs, head)
      BY <1>6 DEF TxStep
    <2>2. \A j \in DOMAIN txs' : txs'[j].at \in Nat
      <3> SUFFICES ASSUME NEW j \in DOMAIN txs' PROVE txs'[j].at \in Nat
        OBVIOUS
      <3>1. txs'[j] \in TxRecords
        BY <1>6
      <3> QED
        BY <1>3, <3>1 DEF TxRecords
    <2>3. ASSUME NEW t \in DOMAIN mem.sent, mem.sent[t].tx # 0
          PROVE  calls'[mem.sent[t].tx] =< 1 + mem.sent[t].tries
      <3>1. RecOK(t, mem.sent[t], txs, calls, reorgs, head)
        BY IInvIs
      <3>2. /\ mem.sent[t].tx \in DOMAIN txs /\ txs[mem.sent[t].tx].stage = t
            /\ calls[mem.sent[t].tx] =< 1 + mem.sent[t].tries
        BY <2>3, <3>1 DEF RecOK
      <3>3. CASE mem.sent[t].tx = i
        <4>1. t = s
          BY <1>4, <3>2, <3>3
        <4> QED
          BY <1>7, <3>3, <4>1 DEF r
      <3>4. CASE mem.sent[t].tx # i
        <4>1. mem.sent[t].tx \in 1 .. MaxTx
          <5>1. mem.sent[t].tx \in 1 .. Len(txs) /\ Len(txs) \in Nat
            BY <1>3, <3>2
          <5> QED
            BY <1>3, <5>1
        <4> QED
          BY <1>7, <3>2, <3>4, <4>1
      <3> QED
        BY <3>3, <3>4
    <2>4. SentOK(mem.sent, Stages, txs, calls, reorgs, head) /\ reorgs =< reorgs /\ head =< head
      BY <1>3, IInvIs DEF Sound
    <2> QED
      BY <1>3, <2>1, <2>2, <2>3, <2>4, SentCarries
  <1>10. RecordsOK'
    BY <1>1, <1>9, IInvIs DEF RecordsOK
  <1>11. ASSUME reorgs = 0 PROVE Recorded(disk.sent, txs', final)
    <2>1. Recorded(disk.sent, txs, final)
      BY <1>11 DEF IInv, Flight
    <2>2. disk.sent[s].tx = i /\ s \in DOMAIN disk.sent
      OBVIOUS
    <2> QED
      BY <1>4, <1>6, <2>1, <2>2 DEF Recorded, Flying
  <1> QED
    BY <1>1, <1>5, <1>8, <1>10, <1>11

(* The call is within the budget, and charged. *)
LEMMA SendsBudget ==
    ASSUME IInv, pc \in Sending, hd # 0, NEW i, Sends(i), pc' \notin Sending
    PROVE  Budget'
  <1>1. /\ head' = head /\ reorgs' = reorgs /\ disk' = disk /\ hd' = hd /\ posted' = posted
        /\ attempts' = [attempts EXCEPT ![hd] = @ + 1]
    BY DEF Sends, Called, chainVars, recordVars, tickVars
  <1>2. /\ setup \in Scenarios /\ hd \in Nat /\ head \in Nat /\ hd =< head
        /\ setup.heads \in Nat /\ MaxHead \in Nat /\ setup.heads =< MaxHead /\ PBlk \in Nat \ {0}
    BY IInvIs, SetupIs
  <1>3. head =< setup.heads
    BY DEF IInv, ChainOK
  <1>4. hd \in 1 .. MaxHead /\ head \in 1 .. MaxHead
    BY <1>2, <1>3
  <1>5. attempts \in [1 .. MaxHead -> Nat] /\ posted \in Nat
    BY DEF IInv, Budget, Sync
  <1>6. /\ attempts' \in [1 .. MaxHead -> Nat] /\ attempts'[hd] = attempts[hd] + 1 /\ attempts[hd] \in Nat
        /\ \A h \in 1 .. MaxHead : h # hd => attempts'[h] = attempts[h]
    BY <1>1, <1>4, <1>5
  <1>7. /\ \A h \in 1 .. MaxHead : h > head => attempts'[h] = 0
        /\ \A h \in 1 .. MaxHead : h > hd => attempts'[h] = 0
    <2>1. /\ \A h \in 1 .. MaxHead : h > head => attempts[h] = 0
          /\ \A h \in 1 .. MaxHead : h > hd => attempts[h] = 0
      BY DEF IInv, Budget
    <2> QED
      BY <1>2, <1>6, <2>1
  <1>8. ASSUME reorgs = 0 \/ PBlk = 1
        PROVE  /\ \A h \in 1 .. MaxHead : attempts'[h] =< PBlk
               /\ attempts'[hd] =< posted
               /\ attempts'[head] =< Cardinality(ChargedTo(disk.sent, head))
    <2>1. /\ \A h \in 1 .. MaxHead : attempts[h] =< PBlk
          /\ attempts[hd] < PBlk /\ attempts[hd] < posted
          /\ hd = head => attempts[hd] < Cardinality(ChargedTo(disk.sent, hd))
          /\ attempts[head] =< Cardinality(ChargedTo(disk.sent, head))
      BY <1>8 DEF IInv, Budget
    <2>2. Cardinality(ChargedTo(disk.sent, head)) \in Nat
      BY <1>2, ChargedFinite, IInvIs
    <2>3. ASSUME NEW h \in 1 .. MaxHead PROVE attempts'[h] =< PBlk
      <3>1. CASE h = hd
        BY <1>2, <1>6, <2>1, <3>1
      <3>2. CASE h # hd
        BY <1>6, <2>1, <3>2
      <3> QED
        BY <3>1, <3>2
    <2>4. attempts'[hd] =< posted
      BY <1>5, <1>6, <2>1
    <2>5. attempts'[head] =< Cardinality(ChargedTo(disk.sent, head))
      BY <1>4, <1>6, <2>1, <2>2
    <2> QED
      BY <2>3, <2>4, <2>5
  <1> QED
    BY <1>1, <1>6, <1>7, <1>8 DEF Budget

LEMMA DeliverKeeps ==
    ASSUME IInv, Deliver
    PROVE  IInv'
  <1> DEFINE s == Head(todo)
             i == mem.sent[s].tx
  <1>1. /\ pc = "deliver" /\ pc' = "record" /\ reply' \in {"ack", "amb"} /\ Called(i)
        /\ \E v \in {"pool", "lost"} : txs' = [txs EXCEPT ![i].st = v]
        /\ UNCHANGED <<chainVars, recordVars, tickVars, todo, queue, posted, faults>>
    BY DEF Deliver
  <1>2. /\ hd # 0 /\ ~ isolated /\ isolated \in BOOLEAN /\ pc \in Working
        /\ todo \in Seq(Stages) /\ todo # <<>> /\ Distinct(todo)
        /\ QueueOK(queue) /\ s \in DOMAIN mem.sent /\ UnderWay(mem.sent[s])
        /\ RecOK(s, mem.sent[s], txs, calls, reorgs, head)
        /\ mem.sent = disk.sent
    BY <1>1, AtSend
  <1>3. i # 0 /\ calls[i] = 0 /\ txs[i].st = "signed" /\ mem.sent[s].tries \in Nat
    <2>1. i # 0 /\ calls[i] = 0 /\ txs[i].st = "signed"
      BY <1>1 DEF IInv, Stepping
    <2>2. Rebroadcasts \in Nat
      BY IInvIs, SetupIs
    <2> QED
      BY <1>2, <2>1, <2>2 DEF RecOK, SentRecords
  <1>4. Sends(i)
    BY <1>1, <1>3 DEF Sends, PoolMove
  <1>5. /\ setup' = setup /\ head' = head /\ final' = final /\ reorgs' = reorgs /\ todo' = todo /\ queue' = queue
        /\ hd' = hd /\ fold' = fold /\ budget' = budget /\ posted' = posted
        /\ disk' = disk /\ mem' = mem /\ isolated' = isolated /\ Stages' = Stages
    BY <1>1 DEF chainVars, tickVars, recordVars, Stages
  <1> HIDE DEF i
  <1>6. ChainOK' /\ RecordsOK' /\ (reorgs = 0 => Recorded(disk'.sent, txs', final'))
    <2>1. i = mem.sent[s].tx /\ calls[i] =< mem.sent[s].tries
      BY <1>3 DEF i
    <2> QED
      BY <1>2, <1>3, <1>4, <2>1, SendsIs
  <1>7. Sync'
    BY <1>1, <1>2, <1>5 DEF IInv, Sync, Places
  <1>8. Stepping'
    <2>1. Beside(disk.sent, mem.sent, s, hd)
      BY <1>2 DEF Beside, UnderWay
    <2> QED
      BY <1>1, <1>2, <1>3, <1>5, <2>1 DEF Stepping, QueueOK, UnderWay, Working, i
  <1>9. Flight'
    BY <1>1, <1>5, <1>6 DEF Flight
  <1>10. Fresh'
    BY <1>1, <1>2, <1>5 DEF IInv, Fresh, Working
  <1>11. Budget'
    BY <1>1, <1>2, <1>4, SendsBudget DEF Sending
  <1> QED
    BY <1>6, <1>7, <1>8, <1>9, <1>10, <1>11 DEF IInv

(* A step that sends nothing, with the disk's record as it is then. *)
LEMMA QuietRecord ==
    ASSUME IInv, Quiet, Rests, IsSub(disk'), Sound(disk'.sent), IsSub(mem'), Sound(mem'.sent),
           reorgs = 0 => Recorded(disk'.sent, txs, final),
           reorgs = 0 \/ PBlk = 1 => attempts[head] =< Cardinality(ChargedTo(disk'.sent, head))
    PROVE  IInv'
  <1>1. /\ setup' = setup /\ head' = head /\ final' = final /\ reorgs' = reorgs /\ txs' = txs
        /\ hd' = hd /\ fold' = fold /\ budget' = budget /\ calls' = calls /\ attempts' = attempts
        /\ posted' = posted /\ Stages' = Stages /\ TxRecords' = TxRecords
    BY QuietIs
  <1>2. pc' \notin Sending /\ pc' # "record" /\ pc' # "resume" /\ (pc' \in Working => pc' = "look")
    BY DEF Rests, Sending, Working
  <1>3. ChainOK'
    <2>1. faults' \in 0 .. setup.faults
      BY DEF Quiet
    <2> QED
      BY <1>1, <2>1 DEF IInv, ChainOK
  <1>4. RecordsOK'
    BY <1>1 DEF RecordsOK, Sound
  <1>5. Flight'
    BY <1>1, <1>2 DEF Flight, Sending
  <1>6. Budget'
    BY <1>1, <1>2 DEF IInv, Budget
  <1>7. Sync'
    BY <1>1 DEF IInv, Sync, Rests, Places
  <1>8. Stepping'
    BY <1>1 DEF Stepping, Rests, QueueOK, TodoOK, Working
  <1>9. Fresh'
    BY <1>1, <1>2 DEF Fresh, Rests, AllCleared, TodoOK
  <1> QED
    BY <1>3, <1>4, <1>5, <1>6, <1>7, <1>8, <1>9 DEF IInv

LEMMA RecordKeeps ==
    ASSUME IInv, Record
    PROVE  IInv'
  <1> DEFINE s == Head(todo)
             r == mem.sent[s]
             rec == [r EXCEPT !.ss = reply]
             new == Put(mem.sent, s, rec)
             sub == WithSent(mem, s, rec)
  <1>1. /\ pc = "record" /\ UNCHANGED <<chainVars, txs, tickVars, history>> /\ posted' = posted
        /\ \/ Save(sub) /\ Advanced /\ queue' = queue
           \/ SaveFails(sub) /\ pc' = "recover" /\ queue' = <<>>
    BY DEF Record, Recovers
  <1>2. /\ hd # 0 /\ ~ isolated /\ isolated \in BOOLEAN /\ pc \in Working /\ s \in Stages
        /\ QueueOK(queue) /\ s \in DOMAIN mem.sent /\ UnderWay(r)
        /\ RecOK(s, r, txs, calls, reorgs, head)
    BY <1>1, AtSend
  <1>3. /\ reply \in {"notsent", "ack", "amb"}
        /\ Beside(disk.sent, mem.sent, s, hd)
        /\ reply = "notsent" => r.tx = 0
        /\ reply # "notsent" => disk.sent = mem.sent
    BY <1>1 DEF IInv, Stepping
  <1> HIDE DEF r
  <1>4. rec \in SentRecords /\ Kin(r, rec) /\ rec.ss = reply /\ rec.failed = r.failed
    <2>1. r \in SentRecords /\ reply \in {"intent", "prepared", "ack", "amb", "notsent"}
      BY <1>2, <1>3 DEF RecOK
    <2> QED
      BY <2>1, NewState
  <1>5. IsSub(sub) /\ sub.sent = new
    BY WithSentIs, IInvIs
  <1> HIDE DEF rec
  <1>6. RecOK(s, rec, txs, calls, reorgs, head)
    <2>1. /\ rec.ss \in {"intent", "notsent"} => rec.tx = 0
          /\ rec.last # 0 => rec.ss \in {"ack", "amb"}
          /\ rec.failed => rec.tx # 0 /\ (reorgs = 0 => txs[rec.tx].st = "rev")
      BY <1>2, <1>3, <1>4 DEF Kin, UnderWay
    <2> QED
      BY <1>2, <1>4, <2>1, KinOK
  <1>7. Sound(new)
    <2>1. SentOK(mem.sent, Stages, txs, calls, reorgs, head)
      BY IInvIs DEF Sound
    <2> QED
      BY <1>2, <1>6, <2>1, PutOK DEF Sound
  <1>8. new[s] = rec /\ DOMAIN new = DOMAIN mem.sent /\ \A t \in DOMAIN mem.sent : t # s => new[t] = mem.sent[t]
    BY <1>2 DEF Put
  <1>9. reorgs = 0 => Recorded(new, txs, final)
    <2> SUFFICES ASSUME reorgs = 0 PROVE Recorded(new, txs, final)
      OBVIOUS
    <2>1. Recorded(disk.sent, txs, final)
      BY DEF IInv, Flight
    <2>2. CASE reply # "notsent"
      <3>1. KinSent(disk.sent, new)
        BY <1>2, <1>3, <1>4, <2>2, PutKin DEF r
      <3> QED
        BY <2>1, <3>1, KinRecorded
    <2>3. CASE reply = "notsent"
      <3>1. Grounded(s, txs, final)
        BY <1>1, <2>3 DEF IInv, Flight
      <3> HIDE DEF new
      <3> QED
        BY <1>3, <1>8, <2>1, <3>1 DEF Recorded, Grounded, Beside
    <2> QED
      BY <2>2, <2>3
  <1> HIDE DEF new
  <1>10. reorgs = 0 \/ PBlk = 1 => attempts[head] =< Cardinality(ChargedTo(new, head))
    <2> SUFFICES ASSUME reorgs = 0 \/ PBlk = 1 PROVE attempts[head] =< Cardinality(ChargedTo(new, head))
      OBVIOUS
    <2>1. attempts[head] =< Cardinality(ChargedTo(disk.sent, head))
      BY DEF IInv, Budget
    <2>2. CASE hd = head
      <3>1. rec.head = hd
        BY <1>2, <1>4 DEF Kin, UnderWay
      <3>2. ChargedTo(new, head) = ChargedTo(disk.sent, head)
        BY <1>3, <1>8, <2>2, <3>1 DEF ChargedTo, Beside
      <3> QED
        BY <2>1, <3>2
    <2>3. CASE hd # head
      <3>1. /\ setup \in Scenarios /\ hd \in Nat /\ head \in Nat /\ hd =< head
            /\ setup.heads \in Nat /\ MaxHead \in Nat /\ setup.heads =< MaxHead
        BY IInvIs, SetupIs
      <3>2. head =< setup.heads
        BY DEF IInv, ChainOK
      <3>3. head \in 1 .. MaxHead /\ head > hd
        BY <1>2, <2>3, <3>1, <3>2
      <3>4. attempts[head] = 0
        BY <1>2, <3>3 DEF IInv, Budget
      <3>5. Cardinality(ChargedTo(new, head)) \in Nat
        BY <1>7, <3>1, ChargedFinite DEF Sound, SentOK
      <3> QED
        BY <3>4, <3>5
    <2> QED
      BY <2>2, <2>3
  <1>11. CASE Save(sub) /\ Advanced /\ queue' = queue
    <2>1. disk' = sub /\ mem' = sub /\ isolated' = isolated /\ faults' = faults
      BY <1>11 DEF Save
    <2>2. pc' \in {"look", "retry"} /\ (pc' = "look" => TodoOK(todo', new, hd, reorgs))
      BY <1>2, <1>11, AdvancedGoes DEF new
    <2> HIDE DEF sub
    <2>3. Quiet
      BY <1>1, <2>1, IInvIs DEF Quiet
    <2>4. Rests
      BY <1>2, <1>5, <1>11, <2>1, <2>2 DEF Rests
    <2> QED
      BY <1>5, <1>7, <1>9, <1>10, <2>1, <2>3, <2>4, QuietRecord
  <1>12. CASE SaveFails(sub) /\ pc' = "recover" /\ queue' = <<>>
    <2>1. disk' \in {disk, sub} /\ mem' = mem /\ isolated' = isolated /\ Fault
      BY <1>12 DEF SaveFails
    <2> HIDE DEF sub
    <2>2. Quiet
      BY <1>1, <2>1, FaultIs DEF Quiet
    <2>3. Rests
      BY <1>2, <1>12, <2>1, EmptyQueue DEF Rests
    <2>4. /\ reorgs = 0 => Recorded(disk.sent, txs, final)
          /\ reorgs = 0 \/ PBlk = 1 => attempts[head] =< Cardinality(ChargedTo(disk.sent, head))
      BY DEF IInv, Flight, Budget
    <2>5. CASE disk' = disk
      BY <2>1, <2>2, <2>3, <2>4, <2>5, QuietRecord, IInvIs
    <2>6. CASE disk' = sub
      BY <1>5, <1>7, <1>9, <1>10, <2>1, <2>2, <2>3, <2>6, QuietRecord, IInvIs
    <2> QED
      BY <2>1, <2>5, <2>6
  <1> QED
    BY <1>1, <1>11, <1>12

-----------------------------------------------------------------------------
(* Rebroadcasts. *)

(* What the charge of an attempt makes of a part's record. *)
LEMMA BurntIs ==
    ASSUME IInv, Retrying, NEW s, s = Head(queue), Receipt(s) = "none", Retryable(s),
           NEW r, r = mem.sent[s], NEW rec, rec = [r EXCEPT !.tries = @ + 1, !.last = hd]
    PROVE  /\ s \in DOMAIN mem.sent /\ RecOK(s, r, txs, calls, reorgs, head)
           /\ RecOK(s, rec, txs, calls, reorgs, head)
           /\ rec.last = hd /\ rec.tx = r.tx /\ r.tx # 0 /\ r.head # hd /\ r.last # hd
           /\ calls[rec.tx] =< rec.tries
  <1>1. /\ s \in DOMAIN mem.sent /\ r.tx # 0 /\ ~ r.failed /\ r.ss \in {"ack", "amb"} /\ r.tries < Rebroadcasts
        /\ hd >= (IF r.last # 0 THEN r.last ELSE r.head) + 2
    BY DEF Retryable
  <1>2. RecOK(s, r, txs, calls, reorgs, head)
    BY <1>1, IInvIs
  <1>3. hd # 0 /\ s[1] = "part"
    BY AtRetry
  <1>4. txs[r.tx].st \notin {"ok", "rev"}
    BY <1>1, ReceiptIs
  <1>5. /\ hd \in Nat /\ head \in Nat /\ hd =< head /\ setup \in Scenarios /\ setup.heads \in Nat
        /\ MaxHead \in Nat /\ MaxTx \in Nat /\ setup.heads =< MaxHead /\ Rebroadcasts \in Nat
    BY IInvIs, SetupIs
  <1>6. head =< setup.heads
    BY DEF IInv, ChainOK
  <1>7. hd \in 0 .. MaxHead
    BY <1>5, <1>6
  <1> DEFINE k == r.tries + 1
             a == [r EXCEPT !.tries = k]
  <1>8. r \in SentRecords
    BY <1>2 DEF RecOK
  <1>9. r.tries \in Nat /\ r.head \in Nat /\ r.last \in Nat /\ k \in 0 .. Rebroadcasts
    BY <1>1, <1>5, <1>8 DEF SentRecords
  <1>10. rec = [a EXCEPT !.last = hd]
    OBVIOUS
  <1> HIDE DEF k
  <1>11. /\ a \in SentRecords /\ a.tries = k /\ a.tx = r.tx /\ a.head = r.head /\ a.failed = r.failed /\ a.ss = r.ss
    BY <1>8, <1>9 DEF SentRecords
  <1> HIDE DEF a
  <1>12. /\ rec \in SentRecords /\ rec.tries = k /\ rec.tx = r.tx /\ rec.head = r.head /\ rec.failed = r.failed
         /\ rec.ss = r.ss /\ rec.last = hd
    BY <1>7, <1>10, <1>11 DEF SentRecords
  <1>13. r.head < hd /\ r.last # hd /\ r.head # hd
    <2>1. CASE r.last # 0
      <3>1. r.head < r.last /\ hd >= r.last + 2
        BY <1>1, <1>2, <2>1 DEF RecOK
      <3> QED
        BY <1>5, <1>9, <3>1
    <2>2. CASE r.last = 0
      <3>1. hd >= r.head + 2
        BY <1>1, <2>2
      <3> QED
        BY <1>3, <1>5, <1>9, <2>2, <3>1
    <2> QED
      BY <2>1, <2>2
  <1>14. /\ r.tx \in DOMAIN txs /\ txs[r.tx].stage = s /\ calls[r.tx] =< 1 + r.tries
    BY <1>1, <1>2 DEF RecOK
  <1>15. calls[r.tx] \in Nat
    <2>1. txs \in Seq(TxRecords) /\ Len(txs) =< MaxTx /\ calls \in [1 .. MaxTx -> 0 .. 1 + Rebroadcasts]
      BY DEF IInv, ChainOK
    <2>2. r.tx \in 1 .. Len(txs) /\ Len(txs) \in Nat
      BY <1>14, <2>1
    <2>3. r.tx \in 1 .. MaxTx
      BY <1>5, <2>1, <2>2
    <2> QED
      BY <1>5, <2>1, <2>3
  <1>16. calls[r.tx] =< k /\ calls[r.tx] =< 1 + k
    BY <1>9, <1>14, <1>15 DEF k
  <1>17. RecOK(s, rec, txs, calls, reorgs, head)
    BY <1>1, <1>3, <1>4, <1>5, <1>12, <1>13, <1>14, <1>16 DEF RecOK
  <1> QED
    BY <1>1, <1>2, <1>12, <1>13, <1>16, <1>17

LEMMA BurnKeeps ==
    ASSUME IInv, Burn
    PROVE  IInv'
  <1> DEFINE s == Head(queue)
             r == mem.sent[s]
             rec == [r EXCEPT !.tries = @ + 1, !.last = hd]
             new == Put(mem.sent, s, rec)
             sub == WithSent(mem, s, rec)
  <1>1. /\ Retrying /\ Receipt(s) = "none" /\ Retryable(s)
        /\ UNCHANGED <<chainVars, txs, tickVars, history>>
        /\ \/ Save(sub) /\ pc' = "resend" /\ posted' = posted + 1 /\ todo' = todo /\ queue' = queue
           \/ SaveFails(sub) /\ pc' = "recover" /\ queue' = Tail(queue) /\ posted' = posted
    BY DEF Burn, Recovers
  <1>2. /\ pc = "retry" /\ queue # <<>> /\ posted < PBlk
        /\ hd # 0 /\ ~ isolated /\ isolated \in BOOLEAN /\ mem.sent = disk.sent
        /\ QueueOK(queue) /\ QueueOK(Tail(queue)) /\ s \in Stages
    BY <1>1, AtRetry
  <1>3. /\ s \in DOMAIN mem.sent
        /\ RecOK(s, rec, txs, calls, reorgs, head)
        /\ rec.last = hd /\ rec.tx = r.tx /\ r.tx # 0 /\ r.head # hd /\ r.last # hd
        /\ calls[rec.tx] =< rec.tries
    BY <1>1, BurntIs
  <1>4. IsSub(sub) /\ sub.sent = new
    BY WithSentIs, IInvIs
  <1> HIDE DEF rec
  <1>5. Sound(new)
    <2>1. SentOK(mem.sent, Stages, txs, calls, reorgs, head)
      BY IInvIs DEF Sound
    <2> QED
      BY <1>2, <1>3, <2>1, PutOK DEF Sound
  <1>6. reorgs = 0 \/ PBlk = 1 =>
           /\ attempts[head] =< Cardinality(ChargedTo(new, head))
           /\ attempts[hd] < PBlk /\ attempts[hd] =< posted /\ attempts[hd] \in Nat /\ posted \in Nat
           /\ hd = head => attempts[hd] < Cardinality(ChargedTo(new, hd))
    BY <1>2, <1>3, ChargeOne
  <1>7. new[s] = rec /\ DOMAIN new = DOMAIN mem.sent /\ \A t \in DOMAIN mem.sent : t # s => new[t] = mem.sent[t]
    BY <1>3 DEF Put
  <1> HIDE DEF new
  <1>8. reorgs = 0 => Recorded(new, txs, final)
    <2> SUFFICES ASSUME reorgs = 0 PROVE Recorded(new, txs, final)
      OBVIOUS
    <2>1. Recorded(mem.sent, txs, final)
      BY <1>2 DEF IInv, Flight
    <2> QED
      BY <1>3, <1>7, <2>1 DEF Recorded
  <1>9. CASE Save(sub) /\ pc' = "resend" /\ posted' = posted + 1 /\ todo' = todo /\ queue' = queue
    <2>1. disk' = sub /\ mem' = sub /\ isolated' = isolated /\ faults' = faults
      BY <1>9 DEF Save
    <2> HIDE DEF sub
    <2>2. disk'.sent = new /\ mem'.sent = new
      BY <1>4, <2>1
    <2>3. /\ setup' = setup /\ head' = head /\ final' = final /\ reorgs' = reorgs /\ txs' = txs
          /\ hd' = hd /\ fold' = fold /\ budget' = budget /\ calls' = calls /\ attempts' = attempts
          /\ Stages' = Stages /\ TxRecords' = TxRecords
      BY <1>1 DEF chainVars, tickVars, history, Stages, TxRecords
    <2>4. ChainOK'
      BY <2>1, <2>3 DEF IInv, ChainOK
    <2>5. RecordsOK'
      BY <1>4, <1>5, <2>1, <2>3 DEF RecordsOK, Sound
    <2>6. Sync'
      <3>1. posted' \in Nat
        BY <1>9 DEF IInv, Sync
      <3> QED
        BY <1>2, <1>9, <2>1, <2>2, <2>3, <3>1 DEF IInv, Sync, Places
    <2>7. Stepping'
      BY <1>2, <1>3, <1>7, <1>9, <2>2, <2>3 DEF Stepping, QueueOK, Working
    <2>8. Flight'
      BY <1>8, <1>9, <2>2, <2>3 DEF Flight
    <2>9. Fresh'
      BY <1>9 DEF Fresh, Working
    <2>10. Budget'
      BY <1>6, <1>9, <2>2, <2>3 DEF IInv, Budget, Sync
    <2> QED
      BY <2>4, <2>5, <2>6, <2>7, <2>8, <2>9, <2>10 DEF IInv
  <1>10. CASE SaveFails(sub) /\ pc' = "recover" /\ queue' = Tail(queue) /\ posted' = posted
    <2>1. disk' \in {disk, sub} /\ mem' = mem /\ isolated' = isolated /\ Fault
      BY <1>10 DEF SaveFails
    <2> HIDE DEF sub
    <2>2. Quiet
      BY <1>1, <1>10, <2>1, FaultIs DEF Quiet
    <2>3. Rests
      BY <1>2, <1>10, <2>1 DEF Rests
    <2>4. /\ reorgs = 0 => Recorded(disk.sent, txs, final)
          /\ reorgs = 0 \/ PBlk = 1 => attempts[head] =< Cardinality(ChargedTo(disk.sent, head))
      BY DEF IInv, Flight, Budget
    <2>5. CASE disk' = disk
      BY <2>1, <2>2, <2>3, <2>4, <2>5, QuietRecord, IInvIs
    <2>6. CASE disk' = sub
      BY <1>4, <1>5, <1>6, <1>8, <2>1, <2>2, <2>3, <2>6, QuietRecord, IInvIs
    <2> QED
      BY <2>1, <2>5, <2>6
  <1> QED
    BY <1>1, <1>9, <1>10

LEMMA ResendKeeps ==
    ASSUME IInv, Resend
    PROVE  IInv'
  <1> DEFINE s == Head(queue)
             i == mem.sent[s].tx
  <1>1. /\ pc = "resend" /\ pc' = "retry" /\ queue' = Tail(queue) /\ Called(i)
        /\ txs' = txs \/ (txs[i].st \in {"signed", "lost"} /\ txs' = [txs EXCEPT ![i].st = "pool"])
        /\ UNCHANGED <<chainVars, recordVars, tickVars, todo, reply, posted, faults>>
    BY DEF Resend
  <1>2. hd # 0 /\ ~ isolated /\ isolated \in BOOLEAN /\ mem.sent = disk.sent
    BY <1>1 DEF IInv, Sync
  <1>3. queue # <<>> /\ s \in DOMAIN mem.sent /\ i # 0 /\ calls[i] =< mem.sent[s].tries
    BY <1>1 DEF IInv, Stepping
  <1>4. Sends(i)
    BY <1>1 DEF Sends, PoolMove
  <1>5. /\ setup' = setup /\ head' = head /\ final' = final /\ reorgs' = reorgs /\ todo' = todo
        /\ hd' = hd /\ fold' = fold /\ budget' = budget /\ posted' = posted
        /\ disk' = disk /\ mem' = mem /\ isolated' = isolated /\ Stages' = Stages
    BY <1>1 DEF chainVars, tickVars, recordVars, Stages
  <1>6. QueueOK(Tail(queue))
    BY <1>3, TailQueue, IInvIs
  <1> HIDE DEF i
  <1>7. ChainOK' /\ RecordsOK' /\ (reorgs = 0 => Recorded(disk'.sent, txs', final'))
    <2>1. i = mem.sent[s].tx
      BY DEF i
    <2> QED
      BY <1>2, <1>3, <1>4, <2>1, SendsIs
  <1>8. Sync'
    BY <1>1, <1>2, <1>5 DEF IInv, Sync, Places
  <1>9. Stepping'
    BY <1>1, <1>5, <1>6 DEF Stepping, QueueOK, Working
  <1>10. Flight'
    BY <1>1, <1>5, <1>7 DEF Flight
  <1>11. Fresh'
    BY <1>1 DEF Fresh, Working
  <1>12. Budget'
    BY <1>1, <1>2, <1>4, SendsBudget DEF Sending
  <1> QED
    BY <1>7, <1>8, <1>9, <1>10, <1>11, <1>12 DEF IInv

-----------------------------------------------------------------------------
(* The theorems. *)

LEMMA StutterKeeps ==
    ASSUME IInv, UNCHANGED vars
    PROVE  IInv'
  <1>1. /\ setup' = setup /\ head' = head /\ final' = final /\ reorgs' = reorgs /\ txs' = txs
        /\ disk' = disk /\ mem' = mem /\ isolated' = isolated /\ pc' = pc
        /\ hd' = hd /\ fold' = fold /\ budget' = budget /\ todo' = todo /\ queue' = queue /\ reply' = reply
        /\ posted' = posted /\ calls' = calls /\ attempts' = attempts /\ faults' = faults
    BY DEF vars, chainVars, recordVars, tickVars, history
  <1>2. Stages' = Stages /\ TxRecords' = TxRecords
    BY <1>1 DEF Stages, TxRecords
  <1>3. ChainOK' /\ RecordsOK' /\ Sync'
    BY <1>1, <1>2 DEF IInv, ChainOK, RecordsOK, Sync
  <1>4. Stepping' /\ Flight' /\ Fresh' /\ Budget'
    BY <1>1, <1>2 DEF IInv, Stepping, UnderWay, Flight, Fresh, Budget
  <1> QED
    BY <1>3, <1>4 DEF IInv

LEMMA ClientKeeps ==
    ASSUME IInv, Client
    PROVE  IInv'
  <1>1. CASE Tick \/ Resume \/ ResumeFails \/ Resumed
    BY <1>1, TickKeeps, ResumeKeeps, ResumeFailsKeeps, ResumedKeeps
  <1>2. CASE ReceiptFails \/ OpenCheck \/ OpenReverted
    BY <1>2, ReceiptFailsKeeps, OpenCheckKeeps, OpenRevertedKeeps
  <1>3. CASE LookSkips \/ LookReverted \/ LookConsumed \/ WriteIntent
    BY <1>3, LookSkipsKeeps, LookRevertedKeeps, LookConsumedKeeps, WriteIntentKeeps
  <1>4. CASE Sign \/ SignFails \/ Deliver \/ Record
    BY <1>4, SignKeeps, SignFailsKeeps, DeliverKeeps, RecordKeeps
  <1>5. CASE TickEnds \/ RetrySkips \/ RetryMarks \/ RetryFails \/ Burn \/ Resend
    BY <1>5, TickEndsKeeps, RetrySkipsKeeps, RetryMarksKeeps, RetryFailsKeeps, BurnKeeps, ResendKeeps
  <1>6. CASE Recover \/ RecoverFails \/ Crash \/ Start \/ StartFails \/ Cancel
    BY <1>6, RecoverKeeps, RecoverFailsKeeps, CrashKeeps, StartKeeps, StartFailsKeeps, CancelKeeps
  <1> QED
    BY <1>1, <1>2, <1>3, <1>4, <1>5, <1>6 DEF Client

(* The invariant holds in every state of every behaviour. *)
THEOREM Invariance == Spec => []IInv
  <1>1. Init => IInv
    BY Initially
  <1>2. IInv /\ [Next]_vars => IInv'
    <2> SUFFICES ASSUME IInv, [Next]_vars
                 PROVE  IInv'
      OBVIOUS
    <2>1. CASE Client
      BY <2>1, ClientKeeps
    <2>2. CASE Environment
      BY <2>2, MineKeeps, FinalizeKeeps, ReorgKeeps, ForgetKeeps DEF Environment
    <2>3. CASE UNCHANGED vars
      BY <2>3, StutterKeeps
    <2> QED
      BY <2>1, <2>2, <2>3 DEF Next
  <1> QED
    BY <1>1, <1>2, PTL DEF Spec

(* Whatever fails and whenever the process ends, a transaction that was handed
   to the network and may still take effect is the one that the disk names for
   its stage, unless a block was replaced (client.rs:1837-1905). *)
THEOREM SentIsRecorded == Spec => []SentRecorded
  <1>1. IInv => SentRecorded
    <2> SUFFICES ASSUME IInv, reorgs = 0, NEW i \in DOMAIN txs, InFlight(i)
                 PROVE  txs[i].stage \in DOMAIN disk.sent /\ disk.sent[txs[i].stage].tx = i
      BY DEF SentRecorded
    <2>1. txs[i].at \in Nat /\ final \in Nat
      <3>1. setup \in Scenarios /\ txs[i] \in TxRecords /\ final \in Nat
        BY IInvIs DEF IInv, ChainOK
      <3> QED
        BY <3>1, SetupIs DEF TxRecords
    <2>2. Flying(txs[i], final)
      BY <2>1 DEF InFlight, Flying
    <2> QED
      BY <2>2 DEF IInv, Flight, Recorded
  <1> QED
    BY <1>1, Invariance, PTL

(* One signed transaction is handed to the network at most once and then as
   often as it may be rebroadcast, and one head sees at most the budget of
   calls, for every budget and however often the process ends at that head
   (client.rs:1953-1959, 1623-1631). *)
THEOREM SendsAreBounded == Spec => []SendsBounded
  <1>1. IInv => SendsBounded
    <2> SUFFICES ASSUME IInv PROVE SendsBounded
      OBVIOUS
    <2>1. Rebroadcasts \in Nat /\ calls \in [1 .. MaxTx -> 0 .. 1 + Rebroadcasts]
      BY IInvIs, SetupIs DEF IInv, ChainOK
    <2>2. RetryBound
      BY <2>1 DEF RetryBound
    <2>3. HeadBudget
      BY DEF IInv, Budget, HeadBudget
    <2> QED
      BY <2>2, <2>3 DEF SendsBounded
  <1> QED
    BY <1>1, Invariance, PTL

(* A cancellation that the client acts on is on disk. *)
CancelOnDisk == mem.cancel => disk.cancel

(* Rereading a record, or another entry for one stage, keeps its cancellation. *)
LEMMA CancelKept ==
    ASSUME NEW sub, IsSub(sub)
    PROVE  /\ Reread(sub).cancel = sub.cancel /\ Restored(sub).cancel = sub.cancel
           /\ \A s, rec : WithSent(sub, s, rec).cancel = sub.cancel
           /\ [sub EXCEPT !.cancel = TRUE].cancel
  <1>1. PICK c \in BOOLEAN : \E f : sub = [cancel |-> c, sent |-> f]
    BY DEF IsSub
  <1>2. PICK f : sub = [cancel |-> c, sent |-> f]
    BY <1>1
  <1>3. Reread(sub).cancel = sub.cancel /\ Restored(sub).cancel = sub.cancel
    BY <1>2 DEF Reread, Restored
  <1>4. \A s, rec : WithSent(sub, s, rec).cancel = sub.cancel
    BY <1>2 DEF WithSent
  <1>5. [sub EXCEPT !.cancel = TRUE].cancel
    BY <1>2
  <1> QED
    BY <1>3, <1>4, <1>5

(* A step writes both copies, or leaves memory alone and the cancellation on
   disk at least as it was in one of them. *)
CancelMoves ==
    \/ mem' = disk' \/ ~ mem'.cancel
    \/ mem' = mem /\ (disk'.cancel = disk.cancel \/ disk'.cancel = mem.cancel \/ disk'.cancel)

LEMMA SaveMoves ==
    ASSUME NEW sub, sub.cancel = mem.cancel \/ sub.cancel = disk.cancel \/ sub.cancel,
           Save(sub) \/ SaveFails(sub)
    PROVE  CancelMoves
  BY DEF Save, SaveFails, CancelMoves

LEMMA ClientCancel ==
    ASSUME IInv, Client
    PROVE  CancelMoves
  <1>1. IsSub(mem) /\ IsSub(disk)
    BY IInvIs
  <1>2. /\ \A s, rec : WithSent(mem, s, rec).cancel = mem.cancel
        /\ Reread(disk).cancel = disk.cancel /\ Restored(disk).cancel = disk.cancel
        /\ [mem EXCEPT !.cancel = TRUE].cancel
    BY <1>1, CancelKept
  <1>3. CASE Tick \/ Resumed \/ LookSkips \/ SignFails \/ Deliver \/ TickEnds \/ RetrySkips \/ Resend \/ OpenCheck
    BY <1>3 DEF Tick, Resumed, LookSkips, SignFails, Deliver, TickEnds, RetrySkips, Resend, OpenCheck, recordVars,
                CancelMoves
  <1>4. CASE Resume \/ ResumeFails \/ RecoverFails
    BY <1>2, <1>4 DEF Resume, ResumeFails, RecoverFails, CancelMoves
  <1>5. CASE Recover \/ Start \/ StartFails
    BY <1>2, <1>5, SaveMoves DEF Recover, Start, StartFails
  <1>6. CASE Crash
    BY <1>6 DEF Crash, CancelMoves
  <1>7. CASE Cancel
    BY <1>2, <1>7, SaveMoves DEF Cancel
  <1>8. CASE ReceiptFails \/ RetryFails
    <2>1. PICK s : Unavailable(s)
      BY <1>8 DEF ReceiptFails, RetryFails
    <2>2. CASE UNCHANGED recordVars
      BY <2>2 DEF recordVars, CancelMoves
    <2>3. CASE Save(WithSent(mem, s, Stopped(s)))
      BY <1>2, <2>3, SaveMoves
    <2> QED
      BY <2>1, <2>2, <2>3 DEF Unavailable, recordVars
  <1>9. CASE OpenReverted \/ LookReverted \/ LookConsumed \/ WriteIntent \/ Sign \/ Record \/ RetryMarks \/ Burn
    <2>1. PICK s, rec : Save(WithSent(mem, s, rec)) \/ SaveFails(WithSent(mem, s, rec))
      BY <1>9 DEF OpenReverted, LookReverted, LookConsumed, WriteIntent, Sign, Prepared, Record, RetryMarks, Burn
    <2> QED
      BY <1>2, <2>1, SaveMoves
  <1> QED
    BY <1>3, <1>4, <1>5, <1>6, <1>7, <1>8, <1>9 DEF Client

LEMMA CancelNext ==
    ASSUME IInv, CancelOnDisk, [Next]_vars
    PROVE  CancelOnDisk'
  <1>1. CASE Client
    BY <1>1, ClientCancel DEF CancelMoves, CancelOnDisk
  <1>2. CASE UNCHANGED recordVars
    BY <1>2 DEF recordVars, CancelOnDisk
  <1>3. CASE Environment
    <2>1. UNCHANGED recordVars
      BY <1>3 DEF Environment, Mine, Finalize, Reorg, Forget
    <2> QED
      BY <1>2, <2>1
  <1> QED
    BY <1>1, <1>2, <1>3 DEF Next, vars, recordVars

(* The client is never cancelled in memory only: a crash cannot take a
   cancellation back that it has acted on (client.rs:1596-1608). *)
THEOREM CancelIsOnDisk == Spec => []CancelOnDisk
  <1>1. Init => CancelOnDisk
    BY DEF Init, CancelOnDisk
  <1>2. IInv /\ CancelOnDisk /\ [Next]_vars => CancelOnDisk'
    BY CancelNext
  <1> QED
    BY <1>1, <1>2, Invariance, PTL DEF Spec

(* Types are kept, and between two ticks the client's copy of what it sent is
   what the disk holds, unless the record is isolated (client.rs:1709-1718);
   a cancellation in memory is on disk. *)
THEOREM CopyIsSound == Spec => []CopySound
  <1>1. IInv /\ CancelOnDisk => CopySound
    <2> SUFFICES ASSUME IInv, CancelOnDisk PROVE CopySound
      OBVIOUS
    <2>1. /\ setup \in Scenarios /\ setup.heads \in Nat /\ MaxHead \in Nat /\ MaxTx \in Nat /\ setup.heads =< MaxHead
          /\ Rebroadcasts \in Nat
      BY IInvIs, SetupIs
    <2>2. head \in 1 .. MaxHead /\ final \in 1 .. head
      BY <2>1 DEF IInv, ChainOK
    <2>3. /\ txs \in Seq(TxRecords) /\ Len(txs) =< MaxTx /\ faults \in 0 .. setup.faults /\ reorgs \in 0 .. setup.reorgs
      BY DEF IInv, ChainOK
    <2>4. /\ DOMAIN txs = 1 .. Len(txs)
          /\ \A i \in DOMAIN txs : txs[i] \in TxRecords
      BY <2>3
    <2>5. ASSUME NEW sub, IsSub(sub), Sound(sub.sent)
          PROVE  /\ sub.cancel \in BOOLEAN /\ DOMAIN sub.sent \subseteq Stages
                 /\ \A s \in DOMAIN sub.sent : sub.sent[s] \in SentRecords /\ (sub.sent[s].ss = "intent" => sub.sent[s].tx = 0)
      <3>1. sub.cancel \in BOOLEAN
        BY <2>5 DEF IsSub
      <3> QED
        BY <2>5, <3>1 DEF Sound, SentOK, RecOK
    <2>6. \A sub \in {disk, mem} : IsSub(sub) /\ Sound(sub.sent)
      BY IInvIs
    <2>7. pc \in Places /\ posted \in Nat /\ isolated \in BOOLEAN /\ CopyCurrent
      BY DEF IInv, Sync, CopyCurrent, CancelOnDisk
    <2>8. TypeOK
      BY <2>2, <2>3, <2>4, <2>5, <2>6, <2>7 DEF TypeOK, TxRecords, Places
    <2> QED
      BY <2>7, <2>8 DEF CopySound
  <1> QED
    BY <1>1, Invariance, CancelIsOnDisk, PTL

=============================================================================
