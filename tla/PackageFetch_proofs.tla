------------------------- MODULE PackageFetch_proofs -------------------------
(***************************************************************************)
(* Proofs about the store of proof packages and the thread that fetches    *)
(* them, for every set of pairs, every size of a package, every capacity,  *)
(* and any sequence of operations, failures, ends of the process and       *)
(* power losses.                                                           *)
(*                                                                         *)
(* What the disk shows is not all there is: the invariant speaks of every  *)
(* snapshot that may come back and of the objects that are there for       *)
(* certain.  A healthy store has no doubtful snapshot, so each operation   *)
(* starts from one state of the files and leaves at most two.              *)
(***************************************************************************)
EXTENDS PackageFetch, SequenceTheorems, WellFoundedInduction, NaturalsInduction, TLAPS

-----------------------------------------------------------------------------
(* The inductive invariant. *)

Roots == {p.root : p \in Pairs}

Files == [objects : SUBSET Roots, pending : Seq(Pairs), intents : Seq(Pairs)]
Doubts == [objects : SUBSET Roots, pending : SUBSET Seq(Pairs), intents : SUBSET Seq(Pairs)]
Memories == [pending : Seq(Pairs), intents : Seq(Pairs), poisoned : BOOLEAN]
Answers == [registered : SUBSET Pairs, staged : SUBSET Pairs, taken : SUBSET Pairs,
            lost : SUBSET Roots]
States == [disk : Files, unsynced : Doubts, mem : Memories, ok : BOOLEAN]

NoDoubt == [objects |-> {}, pending |-> {}, intents |-> {}]

SoundFifo(q) == IsFifo(q) /\ BytesOf(q) <= MaxBytes
SoundJournal(j) == IsFifo(j) /\ ~ Conflict(ToSet(j))

(* Every FIFO that may be read next lists objects that are there for certain,
   or lost, and has what was staged. *)
FifosKept(d, u, t) ==
    \A q \in {d.pending} \cup u.pending :
        /\ SoundFifo(q)
        /\ Listed(q) \subseteq (d.objects \ u.objects) \cup t.lost
        /\ t.staged \subseteq ToSet(q) \cup t.taken

JournalsKept(d, u) == \A j \in {d.intents} \cup u.intents : SoundJournal(j)

(* Whichever FIFO comes back with whichever journal. *)
PromisesKept(d, u, t) ==
    \A q \in {d.pending} \cup u.pending : \A j \in {d.intents} \cup u.intents :
        t.registered \subseteq ToSet(j) \cup ToSet(q) \cup t.taken

(* A store in use has no doubtful snapshot; a closed one may be left with one. *)
Settled(d, u, m, t) ==
    m # Closed /\ ~ m.poisoned =>
        u.pending = {} /\ u.intents = {} /\ d.objects \cap u.objects \subseteq t.lost

Follows(d, m) == m # Closed => m.pending = d.pending /\ m.intents = d.intents

Kept(d, u, m, t) ==
    FifosKept(d, u, t) /\ JournalsKept(d, u) /\ PromisesKept(d, u, t)
    /\ Settled(d, u, m, t) /\ Follows(d, m)

StoreShapes ==
    /\ disk \in Files /\ unsynced \in Doubts /\ told \in Answers
    /\ mem \in {Closed} \cup Memories

StoreInv == StoreShapes /\ Kept(disk, unsynced, mem, told)

Jobs == {Direct, Off, Opened, Ready} \cup {Completing(p) : p \in Pairs}

JobShapes ==
    /\ job \in Jobs /\ queue \in Seq(Pairs)
    /\ job \notin {Direct, Off} => mem # Closed
    /\ job.at \in {"opened", "complete"} => ~ mem.poisoned

(* No pair is twice in the thread's hands. *)
HandsDistinct ==
    job \notin {Direct, Off, Opened} =>
        /\ IsInjective(queue)
        /\ job.at = "complete" => job.pair \notin ToSet(queue)

IInv == StoreInv /\ JobShapes /\ HandsDistinct /\ QueueIsJournal

-----------------------------------------------------------------------------
(* Sequences. *)

(* Every non-empty set of naturals has a least element. *)
LEMMA LeastNatural ==
  ASSUME NEW T \in SUBSET Nat, T # {}
  PROVE  \E n \in T : \A m \in T : n <= m
  <1>1. PICK x \in T : \A y \in T : ~ (<<y, x>> \in OpToRel(<, Nat))
    BY NatLessThanWellFounded, WFMin
  <1>2. \A y \in T : ~(y < x)
    BY <1>1 DEF OpToRel
  <1> QED BY <1>2

(* A pair at the end. *)
LEMMA AppendIs ==
  ASSUME NEW S, NEW s \in Seq(S), NEW e \in S
  PROVE  /\ Append(s, e) \in Seq(S) /\ Len(Append(s, e)) = Len(s) + 1
         /\ ToSet(Append(s, e)) = ToSet(s) \cup {e}
         /\ e \notin ToSet(s) /\ IsInjective(s) => IsInjective(Append(s, e))
  <1> DEFINE a == Append(s, e)
  <1>1. /\ Len(s) \in Nat /\ DOMAIN s = 1..Len(s)
        /\ a \in Seq(S) /\ Len(a) = Len(s) + 1 /\ DOMAIN a = 1..(Len(s) + 1)
        /\ \A i \in 1..Len(s) : a[i] = s[i]
        /\ a[Len(s) + 1] = e
    OBVIOUS
  <1> HIDE DEF a
  <1>2. ToSet(a) = ToSet(s) \cup {e}
    <2>1. \A x \in ToSet(a) : x \in ToSet(s) \cup {e}
      BY <1>1 DEF ToSet
    <2>2. \A x \in ToSet(s) \cup {e} : x \in ToSet(a)
      BY <1>1 DEF ToSet
    <2> QED BY <2>1, <2>2
  <1>3. ASSUME e \notin ToSet(s), IsInjective(s) PROVE IsInjective(a)
    <2>1. \A i \in 1..Len(s) : s[i] # e
      BY <1>1, <1>3 DEF ToSet
    <2>2. \A i, j \in 1..Len(s) : s[i] = s[j] => i = j
      BY <1>1, <1>3 DEF IsInjective
    <2>3. ASSUME NEW i \in 1..(Len(s) + 1), NEW j \in 1..(Len(s) + 1), a[i] = a[j] PROVE i = j
      BY <1>1, <2>1, <2>2, <2>3
    <2> QED BY <1>1, <2>3 DEF IsInjective
  <1> QED BY <1>1, <1>2, <1>3 DEF a

(* The first pair taken. *)
LEMMA TailIs ==
  ASSUME NEW S, NEW s \in Seq(S), s # <<>>
  PROVE  /\ Head(s) \in S /\ Tail(s) \in Seq(S) /\ Len(s) = Len(Tail(s)) + 1
         /\ ToSet(s) = ToSet(Tail(s)) \cup {Head(s)}
         /\ IsInjective(s) => IsInjective(Tail(s)) /\ Head(s) \notin ToSet(Tail(s))
  <1> DEFINE t == Tail(s)
             h == Head(s)
  <1>1. /\ Len(s) \in Nat /\ Len(s) >= 1 /\ DOMAIN s = 1..Len(s)
        /\ h \in S /\ h = s[1]
        /\ t \in Seq(S) /\ Len(t) = Len(s) - 1 /\ DOMAIN t = 1..(Len(s) - 1)
        /\ \A i \in 1..(Len(s) - 1) : t[i] = s[i + 1]
    OBVIOUS
  <1> HIDE DEF t, h
  <1>2. ToSet(s) = ToSet(t) \cup {h}
    <2>1. ASSUME NEW i \in 1..Len(s) PROVE s[i] \in ToSet(t) \cup {h}
      <3>1. CASE i = 1
        BY <1>1, <3>1
      <3>2. CASE i # 1
        <4>1. i - 1 \in 1..(Len(s) - 1) /\ t[i - 1] = s[i]
          BY <1>1, <3>2
        <4> QED BY <1>1, <4>1 DEF ToSet
      <3> QED BY <3>1, <3>2
    <2>2. \A i \in 1..(Len(s) - 1) : t[i] \in ToSet(s)
      BY <1>1 DEF ToSet
    <2>3. h \in ToSet(s)
      BY <1>1 DEF ToSet
    <2>4. \A x \in ToSet(s) : x \in ToSet(t) \cup {h}
      BY <1>1, <2>1 DEF ToSet
    <2>5. \A x \in ToSet(t) : x \in ToSet(s)
      BY <1>1, <2>2 DEF ToSet
    <2> QED BY <2>3, <2>4, <2>5
  <1>3. ASSUME IsInjective(s) PROVE IsInjective(t) /\ h \notin ToSet(t)
    <2>1. \A i, j \in 1..Len(s) : s[i] = s[j] => i = j
      BY <1>1, <1>3 DEF IsInjective
    <2>2. ASSUME NEW i \in 1..(Len(s) - 1), NEW j \in 1..(Len(s) - 1), t[i] = t[j] PROVE i = j
      <3>1. i + 1 \in 1..Len(s) /\ j + 1 \in 1..Len(s) /\ s[i + 1] = s[j + 1]
        BY <1>1, <2>2
      <3>2. i + 1 = j + 1
        BY <2>1, <3>1
      <3> QED BY <3>2
    <2>3. ASSUME NEW i \in 1..(Len(s) - 1), t[i] = h PROVE FALSE
      <3>1. i + 1 \in 1..Len(s) /\ 1 \in 1..Len(s) /\ s[i + 1] = s[1]
        BY <1>1, <2>3
      <3>2. i + 1 = 1
        BY <2>1, <3>1
      <3> QED BY <3>2
    <2>4. IsInjective(t)
      BY <1>1, <2>2 DEF IsInjective
    <2>5. h \notin ToSet(t)
      BY <1>1, <2>3 DEF ToSet
    <2> QED BY <2>4, <2>5
  <1>4. Len(s) = Len(t) + 1
    BY <1>1
  <1> QED BY <1>1, <1>2, <1>3, <1>4 DEF t, h

(* A pair removed: the ones behind it move up. *)
LEMMA RemovedAt ==
  ASSUME NEW S, NEW s \in Seq(S), NEW e \in ToSet(s)
  PROVE  LET r == RemoveFirst(s, e)
         IN \E k \in 1..Len(s) :
               /\ s[k] = e
               /\ r \in Seq(S) /\ Len(r) = Len(s) - 1
               /\ \A i \in 1..(Len(s) - 1) : r[i] = IF i < k THEN s[i] ELSE s[i + 1]
  <1> DEFINE I == {i \in 1..Len(s) : s[i] = e}
             m == Min(I)
  <1>0. Len(s) \in Nat /\ DOMAIN s = 1..Len(s)
    OBVIOUS
  <1>1. I \subseteq Nat /\ I # {}
    BY <1>0 DEF ToSet
  <1>2. m \in I
    <2>1. \E x \in I : \A y \in I : x <= y
      BY <1>1, LeastNatural
    <2> QED BY <2>1 DEF Min
  <1>3. RemoveFirst(s, e) = SubSeq(s, 1, m - 1) \o SubSeq(s, m + 1, Len(s))
    BY <1>1 DEF RemoveFirst, SelectInSeq, RemoveAt
  <1>4. m \in 1..Len(s) /\ s[m] = e
    BY <1>2
  <1> HIDE DEF m, I
  <1> DEFINE a == SubSeq(s, 1, m - 1)
             b == SubSeq(s, m + 1, Len(s))
  <1>a. a \in Seq(S) /\ Len(a) = m - 1 /\ \A i \in 1..(m - 1) : a[i] = s[i]
    BY <1>0, <1>4
  <1>b. b \in Seq(S) /\ Len(b) = Len(s) - m
    <2>1. m + 1 \in Int /\ Len(s) \in Int /\ \A i \in (m + 1)..Len(s) : s[i] \in S
      BY <1>0, <1>4
    <2>2. b \in Seq(S) /\ Len(b) = IF m + 1 <= Len(s) THEN Len(s) - (m + 1) + 1 ELSE 0
      BY <2>1, SubSeqProperties
    <2> HIDE DEF a, b
    <2>3. m \in Nat /\ m <= Len(s)
      BY <1>0, <1>4
    <2>4. CASE m + 1 <= Len(s)
      BY <1>0, <2>2, <2>3, <2>4
    <2>5. CASE ~ (m + 1 <= Len(s))
      <3>1. Len(b) = 0
        BY <2>2, <2>5
      <3>a. \A x, y \in Nat : x <= y /\ ~ (x + 1 <= y) => y - x = 0
        OBVIOUS
      <3>2. Len(s) - m = 0
        BY <1>0, <2>3, <2>5, <3>a
      <3> QED BY <2>2, <3>1, <3>2
    <2> QED BY <2>4, <2>5
  <1>c. ASSUME NEW i \in 1..(Len(s) - m) PROVE b[i] = s[m + i]
    <2>1. m + 1 \in Nat /\ Len(s) \in Nat /\ m + 1 + i - 1 = m + i /\ i \in 1..(Len(s) + 1 - (m + 1))
      BY <1>0, <1>4
    <2>2. b[i] = s[m + 1 + i - 1]
      BY <1>0, <1>4, <2>1
    <2> QED BY <2>1, <2>2
  <1>5. /\ a \in Seq(S) /\ Len(a) = m - 1 /\ \A i \in 1..(m - 1) : a[i] = s[i]
        /\ b \in Seq(S) /\ Len(b) = Len(s) - m /\ \A i \in 1..(Len(s) - m) : b[i] = s[m + i]
    BY <1>a, <1>b, <1>c
  <1> HIDE DEF a, b
  <1>6. a \o b \in Seq(S) /\ Len(a \o b) = Len(s) - 1
    <2>1. a \o b \in Seq(S) /\ Len(a \o b) = Len(a) + Len(b)
      BY <1>5, ConcatProperties
    <2> QED BY <1>0, <1>4, <1>5, <2>1
  <1>7. ASSUME NEW i \in 1..(Len(s) - 1) PROVE (a \o b)[i] = IF i < m THEN s[i] ELSE s[i + 1]
    <2> HIDE DEF a, b
    <2>1. CASE i < m
      <3>1. i \in 1..Len(a) /\ (a \o b)[i] = a[i]
        BY <1>4, <1>5, <2>1
      <3> QED BY <1>4, <1>5, <2>1, <3>1
    <2>2. CASE ~ i < m
      <3>1. i - (m - 1) \in 1..(Len(s) - m) /\ m + (i - (m - 1)) = i + 1
        BY <1>0, <1>4, <2>2
      <3>2. (a \o b)[i] = b[i - (m - 1)]
        BY <1>0, <1>4, <1>5, <2>2, <3>1
      <3>3. b[i - (m - 1)] = s[i + 1]
        BY <1>5, <3>1
      <3> QED BY <2>2, <3>2, <3>3
    <2> QED BY <2>1, <2>2
  <1> QED BY <1>3, <1>4, <1>6, <1>7 DEF a, b

LEMMA RemovedIs ==
  ASSUME NEW S, NEW s \in Seq(S), NEW e \in ToSet(s), IsInjective(s)
  PROVE  LET r == RemoveFirst(s, e)
         IN /\ r \in Seq(S) /\ Len(s) = Len(r) + 1 /\ IsInjective(r)
            /\ ToSet(r) = ToSet(s) \ {e}
  <1> DEFINE r == RemoveFirst(s, e)
  <1>1. PICK k \in 1..Len(s) :
               /\ s[k] = e
               /\ r \in Seq(S) /\ Len(r) = Len(s) - 1
               /\ \A i \in 1..(Len(s) - 1) : r[i] = IF i < k THEN s[i] ELSE s[i + 1]
    BY RemovedAt
  <1> HIDE DEF r
  <1>2. Len(s) \in Nat /\ DOMAIN s = 1..Len(s) /\ DOMAIN r = 1..(Len(s) - 1)
    BY <1>1
  <1>3. \A i, j \in 1..Len(s) : s[i] = s[j] => i = j
    BY <1>2 DEF IsInjective
  <1>4. ASSUME NEW i \in 1..(Len(s) - 1), NEW j \in 1..(Len(s) - 1), r[i] = r[j] PROVE i = j
    <2>1. i \in 1..Len(s) /\ i + 1 \in 1..Len(s) /\ j \in 1..Len(s) /\ j + 1 \in 1..Len(s)
      BY <1>2
    <2> QED BY <1>1, <1>3, <1>4, <2>1
  <1>5. IsInjective(r)
    BY <1>2, <1>4 DEF IsInjective
  <1>6. ASSUME NEW i \in 1..(Len(s) - 1) PROVE r[i] \in ToSet(s) \ {e}
    <2>1. i \in 1..Len(s) /\ i + 1 \in 1..Len(s)
      BY <1>2
    <2>2. r[i] # e
      BY <1>1, <1>3, <2>1
    <2> QED BY <1>1, <1>2, <2>1, <2>2 DEF ToSet
  <1>7. ASSUME NEW i \in 1..Len(s), s[i] # e PROVE \E j \in 1..(Len(s) - 1) : r[j] = s[i]
    <2>1. CASE i < k
      <3>1. i \in 1..(Len(s) - 1) /\ r[i] = s[i]
        BY <1>1, <1>2, <2>1
      <3> QED BY <3>1
    <2>2. CASE ~ i < k
      <3>1. i # k /\ i - 1 \in 1..(Len(s) - 1) /\ ~ (i - 1 < k)
        BY <1>1, <1>2, <1>7, <2>2
      <3>2. r[i - 1] = s[i]
        BY <1>1, <3>1
      <3> QED BY <3>1, <3>2
    <2> QED BY <2>1, <2>2
  <1>8. ToSet(r) = ToSet(s) \ {e}
    <2>1. \A x \in ToSet(r) : x \in ToSet(s) \ {e}
      BY <1>2, <1>6 DEF ToSet
    <2>2. \A x \in ToSet(s) \ {e} : x \in ToSet(r)
      BY <1>2, <1>7 DEF ToSet
    <2> QED BY <2>1, <2>2
  <1>9. Len(s) = Len(r) + 1
    BY <1>1, <1>2
  <1> QED BY <1>1, <1>5, <1>8, <1>9 DEF r

-----------------------------------------------------------------------------
(* Bytes of a FIFO. *)

Sums(q, n, f) == f = [i \in 0..n |-> IF i = 0 THEN 0 ELSE f[i - 1] + Size(q[i].root)]

(* A sum exists: the least length without one would have a predecessor with
   one, which the next package extends. *)
LEMMA SumsExist ==
  ASSUME NEW q, NEW k \in Nat
  PROVE  \E f : Sums(q, k, f)
  <1> DEFINE E(n) == \E f : Sums(q, n, f)
             T == {n \in Nat : ~E(n)}
             w(i) == Size(q[i].root)
  <1>1. E(0)
    <2> HIDE DEF w
    <2>1. [h \in 0..0 |-> 0] = [h \in 0..0 |-> IF h = 0 THEN 0 ELSE [j \in 0..0 |-> 0][h - 1] + w(h)]
      OBVIOUS
    <2> QED BY <2>1 DEF Sums, w
  <1>2. ASSUME NEW n \in Nat, E(n) PROVE E(n + 1)
    <2>1. PICK f : f = [h \in 0..n |-> IF h = 0 THEN 0 ELSE f[h - 1] + w(h)]
      BY <1>2 DEF Sums
    <2> HIDE DEF w
    <2> DEFINE g == [h \in 0..(n + 1) |-> IF h = n + 1 THEN f[n] + w(n + 1) ELSE f[h]]
    <2>2. ASSUME NEW h \in 0..(n + 1) PROVE g[h] = IF h = 0 THEN 0 ELSE g[h - 1] + w(h)
      <3>1. CASE h = n + 1
        BY <3>1
      <3>2. CASE h # n + 1
        <4>1. h \in 0..n /\ g[h] = f[h] /\ (h # 0 => g[h - 1] = f[h - 1])
          BY <3>2
        <4> QED BY <2>1, <4>1
      <3> QED BY <3>1, <3>2
    <2>3. g = [h \in 0..(n + 1) |-> IF h = 0 THEN 0 ELSE g[h - 1] + w(h)]
      BY <2>2
    <2> QED BY <2>3 DEF Sums, w
  <1>3. T = {}
    <2> SUFFICES ASSUME T # {} PROVE FALSE
      OBVIOUS
    <2>1. PICK n \in T : \A m \in T : n <= m
      BY LeastNatural
    <2> HIDE DEF E
    <2>2. n # 0
      BY <1>1, <2>1
    <2>3. n - 1 \in Nat /\ E(n - 1)
      BY <2>1, <2>2
    <2> QED BY <1>2, <2>1, <2>3
  <1> QED BY <1>3

(* The sum package by package. *)
LEMMA BytesRun ==
  ASSUME NEW q \in Seq(Pairs)
  PROVE  \E f : /\ BytesOf(q) = f[Len(q)] /\ f[0] = 0
                /\ \A i \in 1..Len(q) : f[i] = f[i - 1] + Size(q[i].root)
                /\ \A i \in 0..Len(q) : f[i] \in Nat
  <1> DEFINE u == CHOOSE f : Sums(q, Len(q), f)
  <1>0. Len(q) \in Nat /\ \A i \in 1..Len(q) : q[i] \in Pairs
    OBVIOUS
  <1>1. Sums(q, Len(q), u)
    BY <1>0, SumsExist
  <1>2. BytesOf(q) = u[Len(q)]
    BY DEF BytesOf, Sums
  <1> HIDE DEF u
  <1>3. u[0] = 0 /\ \A i \in 1..Len(q) : u[i] = u[i - 1] + Size(q[i].root)
    <2>1. \A i \in 0..Len(q) : u[i] = IF i = 0 THEN 0 ELSE u[i - 1] + Size(q[i].root)
      BY <1>1 DEF Sums
    <2> QED BY <1>0, <2>1
  <1>4. \A i \in 1..Len(q) : Size(q[i].root) \in Nat
    BY <1>0, StoreAssumption
  <1> DEFINE Bad == {i \in 0..Len(q) : u[i] \notin Nat}
  <1>5. Bad = {}
    <2> SUFFICES ASSUME Bad # {} PROVE FALSE
      OBVIOUS
    <2>1. PICK k \in Bad : \A l \in Bad : k <= l
      <3>1. Bad \in SUBSET Nat
        OBVIOUS
      <3> HIDE DEF Bad
      <3> QED BY <3>1, LeastNatural
    <2>2. k \in 1..Len(q)
      BY <1>3, <2>1
    <2>3. k - 1 \in 0..Len(q) /\ k - 1 \notin Bad
      BY <2>1, <2>2
    <2>4. u[k - 1] \in Nat
      BY <2>3
    <2>5. u[k] = u[k - 1] + Size(q[k].root) /\ Size(q[k].root) \in Nat
      BY <1>3, <1>4, <2>2
    <2>6. u[k] \in Nat
      BY <2>4, <2>5
    <2> QED BY <2>1, <2>6
  <1>6. \A i \in 0..Len(q) : u[i] \in Nat
    BY <1>5
  <1> QED BY <1>2, <1>3, <1>6

(* A package more has its bytes more. *)
LEMMA BytesAppended ==
  ASSUME NEW q \in Seq(Pairs), NEW p \in Pairs
  PROVE  BytesOf(Append(q, p)) = BytesOf(q) + Size(p.root)
  <1> DEFINE a == Append(q, p)
  <1>0. /\ Len(q) \in Nat /\ a \in Seq(Pairs) /\ Len(a) = Len(q) + 1
        /\ \A i \in 1..Len(q) : a[i] = q[i]
        /\ a[Len(q) + 1] = p
    OBVIOUS
  <1> HIDE DEF a
  <1>1. PICK f : /\ BytesOf(q) = f[Len(q)] /\ f[0] = 0
                 /\ \A i \in 1..Len(q) : f[i] = f[i - 1] + Size(q[i].root)
                 /\ \A i \in 0..Len(q) : f[i] \in Nat
    BY BytesRun
  <1>2. PICK g : /\ BytesOf(a) = g[Len(a)] /\ g[0] = 0
                 /\ \A i \in 1..Len(a) : g[i] = g[i - 1] + Size(a[i].root)
                 /\ \A i \in 0..Len(a) : g[i] \in Nat
    BY <1>0, BytesRun
  <1> DEFINE Bad == {i \in 0..Len(q) : f[i] # g[i]}
  <1>3. Bad = {}
    <2> SUFFICES ASSUME Bad # {} PROVE FALSE
      OBVIOUS
    <2>1. PICK k \in Bad : \A l \in Bad : k <= l
      <3>1. Bad \in SUBSET Nat
        OBVIOUS
      <3> HIDE DEF Bad
      <3> QED BY <3>1, LeastNatural
    <2>2. k \in 1..Len(q)
      BY <1>1, <1>2, <2>1
    <2>3. k - 1 \in 0..Len(q) /\ k - 1 \notin Bad
      BY <2>1, <2>2
    <2>4. f[k - 1] = g[k - 1]
      BY <2>3
    <2>5. k \in 1..Len(a) /\ a[k] = q[k]
      BY <1>0, <2>2
    <2>6. f[k] = f[k - 1] + Size(q[k].root) /\ g[k] = g[k - 1] + Size(q[k].root)
      BY <1>1, <1>2, <2>2, <2>5
    <2> QED BY <2>1, <2>4, <2>6
  <1>4. f[Len(q)] = g[Len(q)]
    <2>1. Len(q) \in 0..Len(q)
      BY <1>0
    <2> QED BY <1>3, <2>1
  <1>5. g[Len(q) + 1] = g[Len(q)] + Size(p.root)
    <2>1. Len(q) + 1 \in 1..Len(a) /\ (Len(q) + 1) - 1 = Len(q)
      BY <1>0
    <2> QED BY <1>0, <1>2, <2>1
  <1> QED BY <1>0, <1>1, <1>2, <1>4, <1>5 DEF a

(* A package less takes no bytes more. *)
LEMMA BytesRemoved ==
  ASSUME NEW q \in Seq(Pairs), NEW p \in ToSet(q)
  PROVE  BytesOf(RemoveFirst(q, p)) <= BytesOf(q)
  <1> DEFINE r == RemoveFirst(q, p)
  <1>1. PICK k \in 1..Len(q) :
               /\ q[k] = p
               /\ r \in Seq(Pairs) /\ Len(r) = Len(q) - 1
               /\ \A i \in 1..(Len(q) - 1) : r[i] = IF i < k THEN q[i] ELSE q[i + 1]
    BY RemovedAt
  <1> HIDE DEF r
  <1>0. Len(q) \in Nat /\ Len(r) \in Nat
    BY <1>1
  <1>2. PICK f : /\ BytesOf(q) = f[Len(q)] /\ f[0] = 0
                 /\ \A i \in 1..Len(q) : f[i] = f[i - 1] + Size(q[i].root)
                 /\ \A i \in 0..Len(q) : f[i] \in Nat
    BY BytesRun
  <1>3. PICK g : /\ BytesOf(r) = g[Len(r)] /\ g[0] = 0
                 /\ \A i \in 1..Len(r) : g[i] = g[i - 1] + Size(r[i].root)
                 /\ \A i \in 0..Len(r) : g[i] \in Nat
    BY <1>1, BytesRun
  <1>4. \A i \in 1..Len(q) : Size(q[i].root) \in Nat
    BY StoreAssumption
  <1> DEFINE Less(i) == g[i] <= (IF i < k THEN f[i] ELSE f[i + 1])
             Bad == {i \in 0..Len(r) : ~ Less(i)}
  <1>5. Bad = {}
    <2> SUFFICES ASSUME Bad # {} PROVE FALSE
      OBVIOUS
    <2>1. PICK n \in Bad : \A l \in Bad : n <= l
      <3>1. Bad \in SUBSET Nat
        OBVIOUS
      <3> HIDE DEF Bad
      <3> QED BY <3>1, LeastNatural
    <2>a. Less(0)
      <3>1. 0 < k
        OBVIOUS
      <3> QED BY <1>2, <1>3, <3>1
    <2>2. n \in 1..Len(r)
      BY <2>a, <2>1
    <2>3. n - 1 \in 0..Len(r) /\ n - 1 \notin Bad
      BY <2>1, <2>2
    <2>4. Less(n - 1)
      BY <2>3
    <2>5. n \in 1..Len(q) /\ n + 1 \in 1..Len(q) /\ n \in 0..Len(q) /\ n - 1 \in 0..Len(q) /\ n + 1 \in 0..Len(q)
      BY <1>0, <1>1, <2>2
    <2>6. f[n] = f[n - 1] + Size(q[n].root) /\ f[n + 1] = f[n] + Size(q[n + 1].root)
      <3>1. f[n + 1] = f[(n + 1) - 1] + Size(q[n + 1].root) /\ (n + 1) - 1 = n
        BY <1>2, <2>5
      <3> QED BY <1>2, <2>5, <3>1
    <2>7. /\ f[n - 1] \in Nat /\ f[n] \in Nat /\ f[n + 1] \in Nat /\ g[n - 1] \in Nat /\ g[n] \in Nat
          /\ Size(q[n].root) \in Nat /\ Size(q[n + 1].root) \in Nat
      BY <1>2, <1>3, <1>4, <2>2, <2>3, <2>5
    <2>8. g[n] = g[n - 1] + Size(r[n].root)
      BY <1>3, <2>2
    <2>b. \A a, b, x \in Nat : a <= b => a + x <= b + x /\ a <= b + x
      OBVIOUS
    <2>9. Less(n)
      <3>1. CASE n < k
        <4>1. n - 1 < k /\ r[n] = q[n]
          BY <1>1, <2>2, <3>1
        <4>2. g[n - 1] <= f[n - 1]
          BY <2>4, <4>1
        <4>3. g[n] = g[n - 1] + Size(q[n].root)
          BY <2>8, <4>1
        <4>4. g[n - 1] + Size(q[n].root) <= f[n - 1] + Size(q[n].root)
          BY <2>7, <2>b, <4>2
        <4>5. g[n] <= f[n]
          BY <2>6, <4>3, <4>4
        <4> QED BY <3>1, <4>5
      <3>2. CASE ~ n < k
        <4>1. r[n] = q[n + 1]
          BY <1>1, <2>2, <3>2
        <4>2. g[n - 1] <= f[n]
          <5>1. CASE n - 1 < k
            <6>1. g[n - 1] <= f[n - 1]
              BY <2>4, <5>1
            <6>2. g[n - 1] <= f[n - 1] + Size(q[n].root)
              BY <2>7, <2>b, <6>1
            <6> QED BY <2>6, <6>2
          <5>2. CASE ~ (n - 1 < k)
            <6>1. (n - 1) + 1 = n
              BY <2>2
            <6> QED BY <2>4, <5>2, <6>1
          <5> QED BY <5>1, <5>2
        <4>3. g[n] = g[n - 1] + Size(q[n + 1].root)
          BY <2>8, <4>1
        <4>4. g[n - 1] + Size(q[n + 1].root) <= f[n] + Size(q[n + 1].root)
          BY <2>7, <2>b, <4>2
        <4>5. g[n] <= f[n + 1]
          BY <2>6, <4>3, <4>4
        <4> QED BY <3>2, <4>5
      <3> QED BY <3>1, <3>2
    <2> QED BY <2>1, <2>9
  <1>6. Less(Len(r))
    <2>1. Len(r) \in 0..Len(r)
      BY <1>0
    <2> QED BY <1>5, <2>1
  <1>7. g[Len(r)] <= f[Len(q)]
    <2>1. CASE Len(r) < k
      <3>1. Len(q) \in 1..Len(q) /\ Len(q) - 1 = Len(r) /\ Len(r) \in 0..Len(q) /\ Len(q) \in 0..Len(q)
        BY <1>0, <1>1
      <3>2. f[Len(q)] = f[Len(r)] + Size(q[Len(q)].root)
        BY <1>2, <3>1
      <3>3. g[Len(r)] <= f[Len(r)]
        BY <1>6, <2>1
      <3>4. Size(q[Len(q)].root) \in Nat /\ f[Len(r)] \in Nat /\ f[Len(q)] \in Nat /\ g[Len(r)] \in Nat
        BY <1>0, <1>2, <1>3, <1>4, <3>1
      <3> QED BY <3>2, <3>3, <3>4
    <2>2. CASE ~ (Len(r) < k)
      <3>1. Len(r) + 1 = Len(q)
        BY <1>0, <1>1
      <3> QED BY <1>6, <2>2, <3>1
    <2> QED BY <2>1, <2>2
  <1> QED BY <1>2, <1>3, <1>7 DEF r

-----------------------------------------------------------------------------
(* The merged journal. *)

Merges(j, r, n, f) ==
    f = [i \in 0..n |-> IF i = 0 THEN j
                        ELSE IF r[i] \in ToSet(f[i - 1]) THEN f[i - 1]
                        ELSE Append(f[i - 1], r[i])]

LEMMA MergesExist ==
  ASSUME NEW j, NEW r, NEW k \in Nat
  PROVE  \E f : Merges(j, r, k, f)
  <1> DEFINE E(n) == \E f : Merges(j, r, n, f)
             T == {n \in Nat : ~E(n)}
             w(s, i) == IF r[i] \in ToSet(s) THEN s ELSE Append(s, r[i])
  <1>1. E(0)
    <2> HIDE DEF w
    <2>1. [h \in 0..0 |-> j] = [h \in 0..0 |-> IF h = 0 THEN j ELSE w([l \in 0..0 |-> j][h - 1], h)]
      OBVIOUS
    <2> QED BY <2>1 DEF Merges, w
  <1>2. ASSUME NEW n \in Nat, E(n) PROVE E(n + 1)
    <2>1. PICK f : f = [h \in 0..n |-> IF h = 0 THEN j ELSE w(f[h - 1], h)]
      BY <1>2 DEF Merges
    <2> HIDE DEF w
    <2> DEFINE g == [h \in 0..(n + 1) |-> IF h = n + 1 THEN w(f[n], n + 1) ELSE f[h]]
    <2>2. ASSUME NEW h \in 0..(n + 1) PROVE g[h] = IF h = 0 THEN j ELSE w(g[h - 1], h)
      <3>1. CASE h = n + 1
        <4>1. h - 1 = n /\ h - 1 \in 0..(n + 1) /\ h # 0 /\ h - 1 # n + 1
          BY <3>1
        <4>2. g[h - 1] = f[n]
          BY <4>1
        <4> QED BY <3>1, <4>1, <4>2
      <3>2. CASE h # n + 1
        <4>1. h \in 0..n /\ g[h] = f[h] /\ (h # 0 => g[h - 1] = f[h - 1])
          BY <3>2
        <4>2. f[h] = IF h = 0 THEN j ELSE w(f[h - 1], h)
          BY <2>1, <4>1
        <4> QED BY <4>1, <4>2
      <3> QED BY <3>1, <3>2
    <2>3. g = [h \in 0..(n + 1) |-> IF h = 0 THEN j ELSE w(g[h - 1], h)]
      BY <2>2
    <2> QED BY <2>3 DEF Merges, w
  <1>3. T = {}
    <2> SUFFICES ASSUME T # {} PROVE FALSE
      OBVIOUS
    <2>1. PICK n \in T : \A m \in T : n <= m
      BY LeastNatural
    <2> HIDE DEF E
    <2>2. n # 0
      BY <1>1, <2>1
    <2>3. n - 1 \in Nat /\ E(n - 1)
      BY <2>1, <2>2
    <2> QED BY <1>2, <2>1, <2>3
  <1> QED BY <1>3

(* A merged journal has the pairs of both, each once. *)
LEMMA MergedIs ==
  ASSUME NEW j \in Seq(Pairs), IsInjective(j), NEW r \in Seq(Pairs)
  PROVE  /\ Merged(j, r) \in Seq(Pairs) /\ IsInjective(Merged(j, r))
         /\ ToSet(Merged(j, r)) = ToSet(j) \cup ToSet(r)
  <1> DEFINE u == CHOOSE f : Merges(j, r, Len(r), f)
             At(i) == {r[h] : h \in 1..i}
             Good(i) == u[i] \in Seq(Pairs) /\ IsInjective(u[i]) /\ ToSet(u[i]) = ToSet(j) \cup At(i)
  <1>0. Len(r) \in Nat /\ DOMAIN r = 1..Len(r) /\ \A i \in 1..Len(r) : r[i] \in Pairs
    OBVIOUS
  <1>1. Merges(j, r, Len(r), u)
    BY <1>0, MergesExist
  <1>2. Merged(j, r) = u[Len(r)]
    BY DEF Merged, Merges
  <1> HIDE DEF u
  <1>3. /\ u[0] = j
        /\ \A i \in 1..Len(r) : u[i] = IF r[i] \in ToSet(u[i - 1]) THEN u[i - 1]
                                       ELSE Append(u[i - 1], r[i])
    <2>1. \A i \in 0..Len(r) : u[i] = IF i = 0 THEN j
                                      ELSE IF r[i] \in ToSet(u[i - 1]) THEN u[i - 1]
                                      ELSE Append(u[i - 1], r[i])
      BY <1>1 DEF Merges
    <2> QED BY <1>0, <2>1
  <1>4. Good(0)
    <2>1. At(0) = {}
      OBVIOUS
    <2> QED BY <1>3, <2>1
  <1>5. ASSUME NEW i \in 1..Len(r), Good(i - 1) PROVE Good(i)
    <2>1. At(i) = At(i - 1) \cup {r[i]}
      <3>1. \A h \in 1..i : h = i \/ h \in 1..(i - 1)
        BY <1>0
      <3>2. i \in 1..i /\ \A h \in 1..(i - 1) : h \in 1..i
        BY <1>0
      <3> QED BY <3>1, <3>2
    <2> HIDE DEF At
    <2>2. CASE r[i] \in ToSet(u[i - 1])
      BY <1>3, <1>5, <2>1, <2>2
    <2>3. CASE r[i] \notin ToSet(u[i - 1])
      <3> DEFINE s == u[i - 1]
      <3>1. u[i] = Append(s, r[i])
        BY <1>3, <2>3
      <3>2. s \in Seq(Pairs) /\ IsInjective(s) /\ ToSet(s) = ToSet(j) \cup At(i - 1) /\ r[i] \notin ToSet(s)
        BY <1>5, <2>3
      <3> HIDE DEF s
      <3>3. r[i] \in Pairs
        BY <1>0
      <3>4. /\ Append(s, r[i]) \in Seq(Pairs) /\ ToSet(Append(s, r[i])) = ToSet(s) \cup {r[i]}
            /\ IsInjective(Append(s, r[i]))
        BY <3>2, <3>3, AppendIs
      <3> QED BY <2>1, <3>1, <3>2, <3>4
    <2> QED BY <2>2, <2>3
  <1> DEFINE Bad == {i \in 0..Len(r) : ~ Good(i)}
  <1>6. Bad = {}
    <2> SUFFICES ASSUME Bad # {} PROVE FALSE
      OBVIOUS
    <2> HIDE DEF Good
    <2>1. PICK k \in Bad : \A l \in Bad : k <= l
      <3>1. Bad \in SUBSET Nat
        OBVIOUS
      <3> HIDE DEF Bad
      <3> QED BY <3>1, LeastNatural
    <2>2. k \in 1..Len(r)
      BY <1>4, <2>1
    <2>3. k - 1 \in 0..Len(r) /\ k - 1 \notin Bad
      BY <2>1, <2>2
    <2>4. Good(k - 1)
      BY <2>3
    <2> QED BY <1>5, <2>1, <2>2, <2>4
  <1>7. Good(Len(r))
    <2>1. Len(r) \in 0..Len(r)
      BY <1>0
    <2> HIDE DEF Good
    <2> QED BY <1>6, <2>1
  <1>8. At(Len(r)) = ToSet(r)
    BY <1>0 DEF ToSet
  <1> QED BY <1>2, <1>7, <1>8

-----------------------------------------------------------------------------
(* What one write leaves. *)

LEMMA StateFields ==
  ASSUME NEW s \in States
  PROVE  /\ s.disk \in Files /\ s.unsynced \in Doubts /\ s.mem \in Memories /\ s.ok \in BOOLEAN
         /\ s.disk.objects \subseteq Roots /\ s.disk.pending \in Seq(Pairs) /\ s.disk.intents \in Seq(Pairs)
         /\ s.unsynced.objects \subseteq Roots /\ s.unsynced.pending \subseteq Seq(Pairs)
         /\ s.unsynced.intents \subseteq Seq(Pairs)
         /\ s.mem.pending \in Seq(Pairs) /\ s.mem.intents \in Seq(Pairs) /\ s.mem.poisoned \in BOOLEAN
  <1>1. s.disk \in Files /\ s.unsynced \in Doubts /\ s.mem \in Memories /\ s.ok \in BOOLEAN
    BY DEF States
  <1> QED BY <1>1 DEF Files, Doubts, Memories

LEMMA RefusedIs ==
  ASSUME NEW s \in States
  PROVE  /\ Refused(s) \in States /\ ~ Refused(s).ok
         /\ Refused(s).disk = s.disk /\ Refused(s).unsynced = s.unsynced /\ Refused(s).mem = s.mem
  BY DEF Refused, States

LEMMA PoisonedIs ==
  ASSUME NEW s \in States
  PROVE  /\ Poisoned(s) \in States /\ ~ Poisoned(s).ok
         /\ Poisoned(s).disk = s.disk /\ Poisoned(s).unsynced = s.unsynced
         /\ Poisoned(s).mem.poisoned
         /\ Poisoned(s).mem.pending = s.mem.pending /\ Poisoned(s).mem.intents = s.mem.intents
  BY DEF Poisoned, States, Memories

LEMMA RenamedFifo ==
  ASSUME NEW s \in States, NEW v \in Seq(Pairs)
  PROVE  LET o == Renamed(s, "pending", v)
         IN /\ o \in States /\ o.ok = s.ok
            /\ o.disk.objects = s.disk.objects /\ o.disk.pending = v /\ o.disk.intents = s.disk.intents
            /\ o.unsynced.objects = s.unsynced.objects
            /\ o.unsynced.pending = s.unsynced.pending \cup {s.disk.pending}
            /\ o.unsynced.intents = s.unsynced.intents
            /\ o.mem.pending = v /\ o.mem.intents = s.mem.intents /\ o.mem.poisoned = s.mem.poisoned
  BY DEF Renamed, States, Files, Doubts, Memories

LEMMA RenamedJournal ==
  ASSUME NEW s \in States, NEW v \in Seq(Pairs)
  PROVE  LET o == Renamed(s, "intents", v)
         IN /\ o \in States /\ o.ok = s.ok
            /\ o.disk.objects = s.disk.objects /\ o.disk.pending = s.disk.pending /\ o.disk.intents = v
            /\ o.unsynced.objects = s.unsynced.objects
            /\ o.unsynced.pending = s.unsynced.pending
            /\ o.unsynced.intents = s.unsynced.intents \cup {s.disk.intents}
            /\ o.mem.pending = s.mem.pending /\ o.mem.intents = v /\ o.mem.poisoned = s.mem.poisoned
  BY DEF Renamed, States, Files, Doubts, Memories

LEMMA RootSyncedIs ==
  ASSUME NEW s \in States
  PROVE  LET o == RootSynced(s)
         IN /\ o \in States /\ o.ok = s.ok /\ o.disk = s.disk /\ o.mem = s.mem
            /\ o.unsynced.objects = s.unsynced.objects
            /\ o.unsynced.pending = {} /\ o.unsynced.intents = {}
  BY DEF RootSynced, States, Doubts

LEMMA ObjectsSyncedIs ==
  ASSUME NEW s \in States
  PROVE  LET o == ObjectsSynced(s)
         IN /\ o \in States /\ o.ok = s.ok /\ o.disk = s.disk /\ o.mem = s.mem
            /\ o.unsynced.objects = {}
            /\ o.unsynced.pending = s.unsynced.pending /\ o.unsynced.intents = s.unsynced.intents
  BY DEF ObjectsSynced, States, Doubts

LEMMA ObjectSetIs ==
  ASSUME NEW s \in States, NEW root \in Roots, NEW present \in BOOLEAN
  PROVE  LET o == ObjectSet(s, root, present)
         IN /\ o \in States /\ o.ok = s.ok /\ o.mem = s.mem
            /\ o.disk.objects = IF present THEN s.disk.objects \cup {root} ELSE s.disk.objects \ {root}
            /\ o.disk.pending = s.disk.pending /\ o.disk.intents = s.disk.intents
            /\ o.unsynced.objects = s.unsynced.objects \cup {root}
            /\ o.unsynced.pending = s.unsynced.pending /\ o.unsynced.intents = s.unsynced.intents
  BY DEF ObjectSet, States, Files, Doubts

-----------------------------------------------------------------------------
(* What an operation leaves.  It starts from a healthy store, whose snapshots
   are beyond doubt and in memory. *)

Clear(s) ==
    /\ s \in States /\ s.ok /\ ~ s.mem.poisoned
    /\ s.unsynced.pending = {} /\ s.unsynced.intents = {}
    /\ s.mem.pending = s.disk.pending /\ s.mem.intents = s.disk.intents

SameObjects(s, o) == o.disk.objects = s.disk.objects /\ o.unsynced.objects = s.unsynced.objects
SameFifo(s, o) ==
    o.disk.pending = s.disk.pending /\ o.mem.pending = s.disk.pending /\ o.unsynced.pending = {}
SameJournal(s, o) ==
    o.disk.intents = s.disk.intents /\ o.mem.intents = s.disk.intents /\ o.unsynced.intents = {}

(* A snapshot replaced by v: all went well, or the sync failed. *)
FifoReplaced(s, o, v) ==
    /\ o \in States /\ SameObjects(s, o) /\ SameJournal(s, o)
    /\ o.disk.pending = v /\ o.mem.pending = v
    /\ \/ o.ok /\ ~ o.mem.poisoned /\ o.unsynced.pending = {}
       \/ ~ o.ok /\ o.mem.poisoned /\ o.unsynced.pending = {s.disk.pending}

JournalReplaced(s, o, v) ==
    /\ o \in States /\ SameObjects(s, o) /\ SameFifo(s, o)
    /\ o.disk.intents = v /\ o.mem.intents = v
    /\ \/ o.ok /\ ~ o.mem.poisoned /\ o.unsynced.intents = {}
       \/ ~ o.ok /\ o.mem.poisoned /\ o.unsynced.intents = {s.disk.intents}

(* Nothing happened. *)
Untouched(s, o) ==
    o \in States /\ SameObjects(s, o) /\ SameFifo(s, o) /\ SameJournal(s, o) /\ ~ o.mem.poisoned

LEMMA ClearIsUntouched ==
  ASSUME NEW s, Clear(s)
  PROVE  Untouched(s, s) /\ Untouched(s, Refused(s)) /\ ~ Refused(s).ok
  <1>1. s \in States
    BY DEF Clear
  <1> QED BY <1>1, RefusedIs DEF Clear, Untouched, SameObjects, SameFifo, SameJournal

LEMMA CommittedFifo ==
  ASSUME NEW s, Clear(s), NEW v \in Seq(Pairs), NEW o \in Committed(s, "pending", v)
  PROVE  FifoReplaced(s, o, v)
  <1> DEFINE n == Renamed(s, "pending", v)
  <1>0. s \in States
    BY DEF Clear
  <1>1. o = RootSynced(n) \/ o = Poisoned(n)
    BY DEF Committed
  <1>2. /\ n \in States /\ n.ok = s.ok
        /\ n.disk.objects = s.disk.objects /\ n.disk.pending = v /\ n.disk.intents = s.disk.intents
        /\ n.unsynced.objects = s.unsynced.objects
        /\ n.unsynced.pending = s.unsynced.pending \cup {s.disk.pending}
        /\ n.unsynced.intents = s.unsynced.intents
        /\ n.mem.pending = v /\ n.mem.intents = s.mem.intents /\ n.mem.poisoned = s.mem.poisoned
    BY <1>0, RenamedFifo
  <1> HIDE DEF n
  <1>3. CASE o = RootSynced(n)
    <2>1. /\ o \in States /\ o.ok = n.ok /\ o.disk = n.disk /\ o.mem = n.mem
          /\ o.unsynced.objects = n.unsynced.objects
          /\ o.unsynced.pending = {} /\ o.unsynced.intents = {}
      BY <1>2, <1>3, RootSyncedIs
    <2> QED BY <1>2, <2>1 DEF Clear, FifoReplaced, SameObjects, SameJournal
  <1>4. CASE o = Poisoned(n)
    <2>1. /\ o \in States /\ ~ o.ok /\ o.disk = n.disk /\ o.unsynced = n.unsynced
          /\ o.mem.poisoned /\ o.mem.pending = n.mem.pending /\ o.mem.intents = n.mem.intents
      BY <1>2, <1>4, PoisonedIs
    <2> QED BY <1>2, <2>1 DEF Clear, FifoReplaced, SameObjects, SameJournal
  <1> QED BY <1>1, <1>3, <1>4

LEMMA ReplacedFifo ==
  ASSUME NEW s, Clear(s), NEW v \in Seq(Pairs), NEW o \in Replaced(s, "pending", v)
  PROVE  FifoReplaced(s, o, v) \/ (Untouched(s, o) /\ ~ o.ok)
  <1>1. o \in Committed(s, "pending", v) \/ o = Refused(s)
    BY DEF Replaced
  <1> QED BY <1>1, CommittedFifo, ClearIsUntouched

LEMMA ReplacedJournal ==
  ASSUME NEW s, Clear(s), NEW v \in Seq(Pairs), NEW o \in Replaced(s, "intents", v)
  PROVE  JournalReplaced(s, o, v) \/ (Untouched(s, o) /\ ~ o.ok)
  <1> DEFINE n == Renamed(s, "intents", v)
  <1>0. s \in States
    BY DEF Clear
  <1>1. o = RootSynced(n) \/ o = Poisoned(n) \/ o = Refused(s)
    BY DEF Committed, Replaced
  <1>2. /\ n \in States /\ n.ok = s.ok
        /\ n.disk.objects = s.disk.objects /\ n.disk.pending = s.disk.pending /\ n.disk.intents = v
        /\ n.unsynced.objects = s.unsynced.objects
        /\ n.unsynced.pending = s.unsynced.pending
        /\ n.unsynced.intents = s.unsynced.intents \cup {s.disk.intents}
        /\ n.mem.pending = s.mem.pending /\ n.mem.intents = v /\ n.mem.poisoned = s.mem.poisoned
    BY <1>0, RenamedJournal
  <1> HIDE DEF n
  <1>3. CASE o = RootSynced(n)
    <2>1. /\ o \in States /\ o.ok = n.ok /\ o.disk = n.disk /\ o.mem = n.mem
          /\ o.unsynced.objects = n.unsynced.objects
          /\ o.unsynced.pending = {} /\ o.unsynced.intents = {}
      BY <1>2, <1>3, RootSyncedIs
    <2> QED BY <1>2, <2>1 DEF Clear, JournalReplaced, SameObjects, SameFifo
  <1>4. CASE o = Poisoned(n)
    <2>1. /\ o \in States /\ ~ o.ok /\ o.disk = n.disk /\ o.unsynced = n.unsynced
          /\ o.mem.poisoned /\ o.mem.pending = n.mem.pending /\ o.mem.intents = n.mem.intents
      BY <1>2, <1>4, PoisonedIs
    <2> QED BY <1>2, <2>1 DEF Clear, JournalReplaced, SameObjects, SameFifo
  <1> QED BY <1>1, <1>3, <1>4, ClearIsUntouched

(* The object of a root created: it is beyond doubt, or the store is
   poisoned. *)
Created(s, o, root) ==
    /\ o \in States /\ SameFifo(s, o) /\ SameJournal(s, o)
    /\ o.disk.objects = s.disk.objects \cup {root}
    /\ \/ o.ok /\ ~ o.mem.poisoned /\ o.unsynced.objects = {}
       \/ ~ o.ok /\ o.mem.poisoned /\ o.unsynced.objects = s.unsynced.objects \cup {root}

LEMMA WrittenIs ==
  ASSUME NEW s, Clear(s), NEW root \in Roots, NEW o \in ObjectWritten(s, root)
  PROVE  \/ root \in s.disk.objects /\ o = s
         \/ root \notin s.disk.objects /\ Created(s, o, root)
         \/ root \notin s.disk.objects /\ Untouched(s, o) /\ ~ o.ok
  <1> DEFINE n == ObjectSet(s, root, TRUE)
  <1>0. s \in States
    BY DEF Clear
  <1>1. CASE root \in s.disk.objects
    BY <1>1 DEF ObjectWritten
  <1>2. CASE root \notin s.disk.objects
    <2>1. o = ObjectsSynced(n) \/ o = Refused(s) \/ o = Poisoned(n)
      BY <1>2 DEF ObjectWritten
    <2>2. /\ n \in States /\ n.ok = s.ok /\ n.mem = s.mem
          /\ n.disk.objects = s.disk.objects \cup {root}
          /\ n.disk.pending = s.disk.pending /\ n.disk.intents = s.disk.intents
          /\ n.unsynced.objects = s.unsynced.objects \cup {root}
          /\ n.unsynced.pending = s.unsynced.pending /\ n.unsynced.intents = s.unsynced.intents
      BY <1>0, ObjectSetIs
    <2> HIDE DEF n
    <2>3. CASE o = ObjectsSynced(n)
      <3>1. /\ o \in States /\ o.ok = n.ok /\ o.disk = n.disk /\ o.mem = n.mem
            /\ o.unsynced.objects = {}
            /\ o.unsynced.pending = n.unsynced.pending /\ o.unsynced.intents = n.unsynced.intents
        BY <2>2, <2>3, ObjectsSyncedIs
      <3> QED BY <1>2, <2>2, <3>1 DEF Clear, Created, SameFifo, SameJournal
    <2>4. CASE o = Poisoned(n)
      <3>1. /\ o \in States /\ ~ o.ok /\ o.disk = n.disk /\ o.unsynced = n.unsynced
            /\ o.mem.poisoned /\ o.mem.pending = n.mem.pending /\ o.mem.intents = n.mem.intents
        BY <2>2, <2>4, PoisonedIs
      <3> QED BY <1>2, <2>2, <3>1 DEF Clear, Created, SameFifo, SameJournal
    <2> QED BY <1>2, <2>1, <2>3, <2>4, ClearIsUntouched
  <1> QED BY <1>1, <1>2

(* The object of a root removed. *)
Gone(s, o, root) ==
    /\ o \in States /\ SameFifo(s, o) /\ SameJournal(s, o)
    /\ \/ /\ ~ o.mem.poisoned
          /\ o.disk.objects = s.disk.objects \ {root} /\ o.unsynced.objects = {}
       \/ /\ ~ o.ok /\ o.mem.poisoned
          /\ SameObjects(s, o)
       \/ /\ ~ o.ok /\ o.mem.poisoned
          /\ o.disk.objects = s.disk.objects \ {root}
          /\ o.unsynced.objects = s.unsynced.objects \cup {root}

LEMMA RemovedObject ==
  ASSUME NEW s, Clear(s), NEW root \in Roots, NEW o \in ObjectRemoved(s, root)
  PROVE  Gone(s, o, root)
  <1> DEFINE n == ObjectSet(s, root, FALSE)
  <1>0. s \in States
    BY DEF Clear
  <1>1. o = ObjectsSynced(n) \/ o = Poisoned(s) \/ o = Poisoned(n)
    BY DEF ObjectRemoved
  <1>2. /\ n \in States /\ n.ok = s.ok /\ n.mem = s.mem
        /\ n.disk.objects = s.disk.objects \ {root}
        /\ n.disk.pending = s.disk.pending /\ n.disk.intents = s.disk.intents
        /\ n.unsynced.objects = s.unsynced.objects \cup {root}
        /\ n.unsynced.pending = s.unsynced.pending /\ n.unsynced.intents = s.unsynced.intents
    BY <1>0, ObjectSetIs
  <1> HIDE DEF n
  <1>3. CASE o = ObjectsSynced(n)
    <2>1. /\ o \in States /\ o.ok = n.ok /\ o.disk = n.disk /\ o.mem = n.mem
          /\ o.unsynced.objects = {}
          /\ o.unsynced.pending = n.unsynced.pending /\ o.unsynced.intents = n.unsynced.intents
      BY <1>2, <1>3, ObjectsSyncedIs
    <2> QED BY <1>2, <2>1 DEF Clear, Gone, SameFifo, SameJournal
  <1>4. CASE o = Poisoned(n)
    <2>1. /\ o \in States /\ ~ o.ok /\ o.disk = n.disk /\ o.unsynced = n.unsynced
          /\ o.mem.poisoned /\ o.mem.pending = n.mem.pending /\ o.mem.intents = n.mem.intents
      BY <1>2, <1>4, PoisonedIs
    <2> QED BY <1>2, <2>1 DEF Clear, Gone, SameFifo, SameJournal
  <1>5. CASE o = Poisoned(s)
    <2>1. /\ o \in States /\ ~ o.ok /\ o.disk = s.disk /\ o.unsynced = s.unsynced
          /\ o.mem.poisoned /\ o.mem.pending = s.mem.pending /\ o.mem.intents = s.mem.intents
      BY <1>0, <1>5, PoisonedIs
    <2> QED BY <2>1 DEF Clear, Gone, SameFifo, SameJournal, SameObjects
  <1> QED BY <1>1, <1>3, <1>4, <1>5

-----------------------------------------------------------------------------
(* Staging. *)

StageEffect(s, p, o) ==
    /\ o \in States /\ SameJournal(s, o)
    /\ o.mem.pending = o.disk.pending
    /\ \/ SameFifo(s, o)
       \/ /\ p \notin ToSet(s.disk.pending) /\ Fits(s.disk.pending, p)
          /\ o.disk.pending = Append(s.disk.pending, p)
          /\ o.unsynced.pending \subseteq {s.disk.pending}
          /\ p.root \in o.disk.objects
          /\ p.root \notin o.unsynced.objects \/ p.root \in s.disk.objects
    /\ o.disk.objects \cup {p.root} = s.disk.objects \cup {p.root}
    /\ o.unsynced.objects \subseteq s.unsynced.objects \cup {p.root}
    /\ p.root \in s.disk.objects => SameObjects(s, o)
    /\ ~ o.mem.poisoned => o.unsynced.pending = {} /\ (SameObjects(s, o) \/ o.unsynced.objects = {})
    /\ o.ok => ~ o.mem.poisoned /\ p \in ToSet(o.disk.pending)

LEMMA RootOfPair ==
  ASSUME NEW p \in Pairs
  PROVE  p.root \in Roots
  BY DEF Roots

(* After a write that succeeded the store is as ready as before. *)
LEMMA CreatedClear ==
  ASSUME NEW s, Clear(s), NEW root, NEW o, Created(s, o, root), o.ok
  PROVE  Clear(o)
  BY DEF Clear, Created, SameFifo, SameJournal

LEMMA StageUntouched ==
  ASSUME NEW s, Clear(s), NEW p \in Pairs, NEW o, Untouched(s, o),
         o.ok => p \in ToSet(s.disk.pending)
  PROVE  StageEffect(s, p, o)
  BY DEF Untouched, StageEffect, SameObjects, SameFifo, SameJournal

(* The FIFO written over an object that is there, or was written before. *)
LEMMA StageListed ==
  ASSUME NEW s, Clear(s), NEW p \in Pairs, p \notin ToSet(s.disk.pending), Fits(s.disk.pending, p),
         NEW w, Clear(w), SameFifo(s, w), SameJournal(s, w),
         \/ p.root \in s.disk.objects /\ SameObjects(s, w)
         \/ /\ p.root \notin s.disk.objects
            /\ w.disk.objects = s.disk.objects \cup {p.root} /\ w.unsynced.objects = {},
         NEW o, FifoReplaced(w, o, Append(s.disk.pending, p))
  PROVE  StageEffect(s, p, o)
  <1>1. /\ o \in States /\ SameObjects(w, o) /\ SameJournal(w, o)
        /\ o.disk.pending = Append(s.disk.pending, p) /\ o.mem.pending = o.disk.pending
        /\ \/ o.ok /\ ~ o.mem.poisoned /\ o.unsynced.pending = {}
           \/ ~ o.ok /\ o.mem.poisoned /\ o.unsynced.pending = {w.disk.pending}
    BY DEF FifoReplaced
  <1>2. o.unsynced.pending \subseteq {s.disk.pending} /\ (~ o.mem.poisoned => o.unsynced.pending = {})
        /\ (o.ok => ~ o.mem.poisoned)
    BY <1>1 DEF SameFifo
  <1>3. SameJournal(s, o)
    BY <1>1 DEF SameJournal
  <1>4. p \in ToSet(o.disk.pending)
    <2>1. s.disk.pending \in Seq(Pairs)
      BY StateFields DEF Clear
    <2> QED BY <1>1, <2>1, AppendIs
  <1>5. CASE p.root \in s.disk.objects /\ SameObjects(s, w)
    <2>1. SameObjects(s, o) /\ p.root \in o.disk.objects
      BY <1>1, <1>5 DEF SameObjects
    <2>2. /\ o.disk.objects \cup {p.root} = s.disk.objects \cup {p.root}
          /\ o.unsynced.objects \subseteq s.unsynced.objects \cup {p.root}
      BY <2>1 DEF SameObjects
    <2> QED BY <1>1, <1>2, <1>3, <1>4, <1>5, <2>1, <2>2 DEF StageEffect
  <1>6. CASE /\ p.root \notin s.disk.objects
             /\ w.disk.objects = s.disk.objects \cup {p.root} /\ w.unsynced.objects = {}
    <2>1. o.disk.objects = s.disk.objects \cup {p.root} /\ o.unsynced.objects = {}
      BY <1>1, <1>6 DEF SameObjects
    <2> QED BY <1>1, <1>2, <1>3, <1>4, <1>6, <2>1 DEF StageEffect
  <1> QED BY <1>5, <1>6

LEMMA StagedEffect ==
  ASSUME NEW s, Clear(s), NEW p \in Pairs, NEW o \in Staged(s, p)
  PROVE  StageEffect(s, p, o)
  <1> DEFINE pending == s.mem.pending
  <1>0. s \in States /\ p.root \in Roots /\ pending = s.disk.pending /\ pending \in Seq(Pairs)
    BY RootOfPair, StateFields DEF Clear
  <1>1. CASE p \in ToSet(pending)
    <2>1. o = s \/ o = Refused(s)
      BY <1>1 DEF Staged
    <2> QED BY <1>0, <1>1, <2>1, ClearIsUntouched, StageUntouched
  <1>2. CASE p \notin ToSet(pending) /\ ~ Fits(pending, p)
    <2>1. o = Refused(s)
      BY <1>2 DEF Staged
    <2> QED BY <2>1, ClearIsUntouched, StageUntouched
  <1>3. CASE p \notin ToSet(pending) /\ Fits(pending, p)
    <2>1. PICK w \in ObjectWritten(s, p.root) :
             \/ ~ w.ok /\ o = w
             \/ /\ w.ok
                /\ \/ o \in Committed(w, "pending", Append(pending, p))
                   \/ p.root \in s.disk.objects /\ o = Refused(w)
                   \/ p.root \notin s.disk.objects /\ \E u \in ObjectRemoved(w, p.root) : o = Refused(u)
      BY <1>3 DEF Staged
    <2>2. Append(pending, p) \in Seq(Pairs)
      BY <1>0
    <2>3. \/ p.root \in s.disk.objects /\ w = s
          \/ p.root \notin s.disk.objects /\ Created(s, w, p.root)
          \/ p.root \notin s.disk.objects /\ Untouched(s, w) /\ ~ w.ok
      BY <1>0, WrittenIs
    <2>a. p \notin ToSet(s.disk.pending) /\ Fits(s.disk.pending, p)
      BY <1>0, <1>3
    <2> HIDE DEF pending
    <2>4. CASE p.root \in s.disk.objects /\ w = s
      <3>1. w.ok
        BY <2>4 DEF Clear
      <3>2. CASE o \in Committed(w, "pending", Append(pending, p))
        <4>1. FifoReplaced(w, o, Append(s.disk.pending, p))
          BY <1>0, <2>2, <2>4, <3>2, CommittedFifo
        <4>2. SameFifo(s, w) /\ SameJournal(s, w) /\ SameObjects(s, w)
          BY <2>4, ClearIsUntouched DEF Untouched
        <4> QED BY <2>a, <2>4, <4>1, <4>2, StageListed
      <3>3. CASE o = Refused(w)
        BY <2>4, <3>3, ClearIsUntouched, StageUntouched
      <3> QED BY <2>1, <2>4, <3>1, <3>2, <3>3
    <2>5. CASE p.root \notin s.disk.objects /\ Created(s, w, p.root)
      <3>1. CASE ~ w.ok
        <4>1. o = w
          BY <2>1, <3>1
        <4>2. /\ o \in States /\ SameFifo(s, o) /\ SameJournal(s, o) /\ o.mem.poisoned /\ ~ o.ok
              /\ o.disk.objects = s.disk.objects \cup {p.root}
              /\ o.unsynced.objects = s.unsynced.objects \cup {p.root}
          BY <2>5, <3>1, <4>1 DEF Created
        <4> QED BY <2>5, <4>2 DEF StageEffect, SameFifo
      <3>2. CASE w.ok
        <4>0. /\ Clear(w) /\ SameFifo(s, w) /\ SameJournal(s, w)
              /\ w.disk.objects = s.disk.objects \cup {p.root} /\ w.unsynced.objects = {}
          BY <2>5, <3>2, CreatedClear DEF Created
        <4>1. CASE o \in Committed(w, "pending", Append(pending, p))
          <5>1. FifoReplaced(w, o, Append(s.disk.pending, p))
            BY <1>0, <2>2, <4>0, <4>1, CommittedFifo
          <5> QED BY <2>a, <2>5, <4>0, <5>1, StageListed
        <4>2. ASSUME NEW u \in ObjectRemoved(w, p.root), o = Refused(u) PROVE StageEffect(s, p, o)
          <5>1. Gone(w, u, p.root)
            BY <1>0, <4>0, RemovedObject
          <5>2. u \in States /\ SameFifo(s, u) /\ SameJournal(s, u)
            BY <4>0, <5>1 DEF Gone, SameFifo, SameJournal
          <5>3. /\ o \in States /\ ~ o.ok
                /\ o.disk = u.disk /\ o.unsynced = u.unsynced /\ o.mem = u.mem
            BY <4>2, <5>2, RefusedIs
          <5>4. SameFifo(s, o) /\ SameJournal(s, o)
            BY <5>2, <5>3 DEF SameFifo, SameJournal
          <5>5. \/ /\ ~ o.mem.poisoned
                   /\ o.disk.objects = w.disk.objects \ {p.root} /\ o.unsynced.objects = {}
                \/ o.mem.poisoned /\ o.disk.objects = w.disk.objects /\ o.unsynced.objects = {}
                \/ /\ o.mem.poisoned
                   /\ o.disk.objects = w.disk.objects \ {p.root} /\ o.unsynced.objects = {p.root}
            BY <4>0, <5>1, <5>3 DEF Gone, SameObjects
          <5>6. /\ o.disk.objects \cup {p.root} = s.disk.objects \cup {p.root}
                /\ o.unsynced.objects \subseteq s.unsynced.objects \cup {p.root}
                /\ ~ o.mem.poisoned => o.unsynced.objects = {}
            BY <4>0, <5>5
          <5>7. o.mem.pending = o.disk.pending /\ (~ o.mem.poisoned => o.unsynced.pending = {})
            BY <5>4 DEF SameFifo
          <5> QED BY <2>5, <5>3, <5>4, <5>6, <5>7 DEF StageEffect
        <4> QED BY <2>1, <2>5, <3>2, <4>1, <4>2
      <3> QED BY <3>1, <3>2
    <2>6. CASE p.root \notin s.disk.objects /\ Untouched(s, w) /\ ~ w.ok
      <3>1. o = w
        BY <2>1, <2>6
      <3> QED BY <2>6, <3>1, StageUntouched
    <2> QED BY <2>3, <2>4, <2>5, <2>6
  <1> QED BY <1>1, <1>2, <1>3

-----------------------------------------------------------------------------
(* The journal and the acknowledgement. *)

JournalEffect(s, v, o) ==
    /\ o \in States /\ SameObjects(s, o) /\ SameFifo(s, o)
    /\ o.mem.intents = o.disk.intents
    /\ \/ SameJournal(s, o)
       \/ o.disk.intents = v /\ o.unsynced.intents \subseteq {s.disk.intents}
    /\ ~ o.mem.poisoned => o.unsynced.intents = {}
    /\ ~ o.mem.poisoned /\ ~ o.ok => SameJournal(s, o)
    /\ o.ok => ~ o.mem.poisoned /\ o.disk.intents = v

LEMMA JournalWritten ==
  ASSUME NEW s, Clear(s), NEW v \in Seq(Pairs), NEW o \in Replaced(s, "intents", v)
  PROVE  JournalEffect(s, v, o)
  <1>1. CASE JournalReplaced(s, o, v)
    BY <1>1 DEF JournalReplaced, JournalEffect
  <1>2. CASE Untouched(s, o) /\ ~ o.ok
    BY <1>2 DEF Untouched, JournalEffect, SameJournal
  <1> QED BY <1>1, <1>2, ReplacedJournal

LEMMA JournalRefused ==
  ASSUME NEW s, Clear(s), NEW v
  PROVE  JournalEffect(s, v, Refused(s)) /\ JournalEffect(s, s.disk.intents, s)
  <1>1. Untouched(s, s) /\ Untouched(s, Refused(s)) /\ ~ Refused(s).ok
    BY ClearIsUntouched
  <1>2. JournalEffect(s, v, Refused(s))
    BY <1>1 DEF Untouched, JournalEffect, SameJournal
  <1>3. JournalEffect(s, s.disk.intents, s)
    BY <1>1 DEF Untouched, JournalEffect, SameJournal
  <1> QED BY <1>2, <1>3

(* A request is registered as a whole or refused. *)
LEMMA RegisteredEffect ==
  ASSUME NEW s, Clear(s), IsInjective(s.disk.intents), NEW request \in Seq(Pairs),
         NEW o \in Registered(s, request)
  PROVE  \/ JournalEffect(s, s.disk.intents, o) /\ ~ o.ok
         \/ /\ JournalEffect(s, Merged(s.disk.intents, request), o)
            /\ ~ Conflict(ToSet(Merged(s.disk.intents, request)))
            /\ Len(Merged(s.disk.intents, request)) <= MaxPending
  <1> DEFINE intents == s.disk.intents
             next == Merged(intents, request)
  <1>0. s.mem.intents = intents /\ intents \in Seq(Pairs)
    BY StateFields DEF Clear
  <1>1. next \in Seq(Pairs) /\ Len(next) \in Nat /\ MaxPending \in Nat
    <2>1. next \in Seq(Pairs)
      BY <1>0, MergedIs
    <2> QED BY <2>1, StoreAssumption
  <1>2. \/ (Conflict(ToSet(next)) \/ Len(next) > MaxPending) /\ o = Refused(s)
        \/ /\ ~ Conflict(ToSet(next)) /\ ~ (Len(next) > MaxPending)
           /\ \/ next = intents /\ o = s
              \/ o \in Replaced(s, "intents", next)
    <2> HIDE DEF intents
    <2>1. s.mem.intents = intents /\ next = Merged(s.mem.intents, request)
      BY <1>0
    <2> QED BY <2>1 DEF Registered
  <1> HIDE DEF next
  <1>3. CASE o = Refused(s)
    <2>1. ~ o.ok
      BY <1>3, ClearIsUntouched
    <2> QED BY <1>3, <2>1, JournalRefused
  <1>4. ~ (Len(next) > MaxPending) => Len(next) <= MaxPending
    BY <1>1
  <1>5. CASE next = intents /\ o = s
    <2>1. JournalEffect(s, next, o)
      BY <1>5, JournalRefused
    <2>2. CASE ~ Conflict(ToSet(next)) /\ ~ (Len(next) > MaxPending)
      BY <1>4, <2>1, <2>2 DEF next
    <2>3. CASE o = Refused(s)
      BY <1>3, <2>3
    <2> QED BY <1>2, <2>2, <2>3
  <1>6. CASE o \in Replaced(s, "intents", next) /\ ~ Conflict(ToSet(next)) /\ ~ (Len(next) > MaxPending)
    <2>1. JournalEffect(s, next, o)
      BY <1>1, <1>6, JournalWritten
    <2> QED BY <1>4, <1>6, <2>1 DEF next
  <1> QED BY <1>2, <1>3, <1>5, <1>6

(* An intent is completed only when its package is staged. *)
LEMMA CompletedEffect ==
  ASSUME NEW s, Clear(s), IsInjective(s.disk.intents), NEW p \in Pairs, NEW o \in Completed(s, p)
  PROVE  \/ JournalEffect(s, s.disk.intents, o) /\ ~ o.ok
         \/ /\ JournalEffect(s, RemoveFirst(s.disk.intents, p), o)
            /\ p \in ToSet(s.disk.intents) /\ p \in ToSet(s.disk.pending)
  <1>0. s.mem.intents = s.disk.intents /\ s.mem.pending = s.disk.pending /\ s.disk.intents \in Seq(Pairs)
    BY StateFields DEF Clear
  <1>1. CASE Completable(s, p)
    <2>1. p \in ToSet(s.disk.intents) /\ p \in ToSet(s.disk.pending)
      BY <1>0, <1>1 DEF Completable
    <2>2. RemoveFirst(s.disk.intents, p) \in Seq(Pairs)
      BY <1>0, <2>1, RemovedIs
    <2>3. o \in Replaced(s, "intents", RemoveFirst(s.disk.intents, p))
      BY <1>0, <1>1 DEF Completed
    <2> QED BY <2>1, <2>2, <2>3, JournalWritten
  <1>2. CASE ~ Completable(s, p)
    <2>1. o = Refused(s)
      BY <1>2 DEF Completed
    <2>2. ~ o.ok
      BY <2>1, ClearIsUntouched
    <2> QED BY <2>1, <2>2, JournalRefused
  <1> QED BY <1>1, <1>2

AckEffect(s, p, o) ==
    /\ o \in States /\ SameJournal(s, o)
    /\ o.mem.pending = o.disk.pending
    /\ \/ SameFifo(s, o) /\ SameObjects(s, o)
       \/ /\ p \in ToSet(s.disk.pending) /\ o.disk.pending = RemoveFirst(s.disk.pending, p)
          /\ o.unsynced.pending \subseteq {s.disk.pending} /\ SameObjects(s, o)
       \/ /\ p \in ToSet(s.disk.pending) /\ o.disk.pending = RemoveFirst(s.disk.pending, p)
          /\ o.unsynced.pending = {}
          /\ p.root \notin Listed(o.disk.pending)
          /\ o.disk.objects \subseteq s.disk.objects
          /\ o.disk.objects \cup {p.root} = s.disk.objects \cup {p.root}
          /\ o.unsynced.objects \subseteq s.unsynced.objects \cup {p.root}
    /\ ~ o.mem.poisoned => o.unsynced.pending = {} /\ (SameObjects(s, o) \/ o.unsynced.objects = {})

LEMMA AcknowledgedEffect ==
  ASSUME NEW s, Clear(s), IsInjective(s.disk.pending), NEW p \in Pairs, NEW o \in Acknowledged(s, p)
  PROVE  AckEffect(s, p, o)
  <1> DEFINE left == RemoveFirst(s.disk.pending, p)
  <1>0. s.mem.pending = s.disk.pending /\ s.disk.pending \in Seq(Pairs) /\ p.root \in Roots
    BY RootOfPair, StateFields DEF Clear
  <1>a. ASSUME NEW n, Untouched(s, n) PROVE AckEffect(s, p, n)
    BY <1>a DEF Untouched, AckEffect, SameFifo
  <1>1. CASE ~ (p \in ToSet(s.disk.pending) /\ p.root \in s.disk.objects)
    <2>1. o = Refused(s)
      BY <1>0, <1>1 DEF Acknowledged
    <2> QED BY <1>a, <2>1, ClearIsUntouched
  <1>2. CASE p \in ToSet(s.disk.pending) /\ p.root \in s.disk.objects
    <2>1. PICK w \in Replaced(s, "pending", left) :
             \/ /\ w.ok /\ \A q \in ToSet(left) : q.root # p.root
                /\ o \in ObjectRemoved(w, p.root)
             \/ o = w
      BY <1>0, <1>2 DEF Acknowledged
    <2>2. left \in Seq(Pairs)
      BY <1>0, <1>2, RemovedIs
    <2> HIDE DEF left
    <2>3. FifoReplaced(s, w, left) \/ (Untouched(s, w) /\ ~ w.ok)
      BY <2>2, ReplacedFifo
    <2>4. CASE Untouched(s, w) /\ ~ w.ok
      BY <1>a, <2>1, <2>4
    <2>5. CASE FifoReplaced(s, w, left) /\ o = w
      <3>1. /\ o \in States /\ SameObjects(s, o) /\ SameJournal(s, o)
            /\ o.disk.pending = left /\ o.mem.pending = left
            /\ \/ o.ok /\ ~ o.mem.poisoned /\ o.unsynced.pending = {}
               \/ ~ o.ok /\ o.mem.poisoned /\ o.unsynced.pending = {s.disk.pending}
        BY <2>5 DEF FifoReplaced
      <3> QED BY <1>2, <3>1 DEF AckEffect, left
    <2>6. CASE /\ FifoReplaced(s, w, left) /\ w.ok
               /\ \A q \in ToSet(left) : q.root # p.root
               /\ o \in ObjectRemoved(w, p.root)
      <3>1. /\ w \in States /\ SameObjects(s, w) /\ SameJournal(s, w)
            /\ w.disk.pending = left /\ w.mem.pending = left
            /\ ~ w.mem.poisoned /\ w.unsynced.pending = {}
        BY <2>6 DEF FifoReplaced
      <3>2. Clear(w)
        BY <2>6, <3>1 DEF Clear, SameJournal
      <3>3. Gone(w, o, p.root)
        BY <1>0, <2>6, <3>2, RemovedObject
      <3>4. o \in States /\ o.disk.pending = left /\ o.mem.pending = left /\ o.unsynced.pending = {}
        BY <3>1, <3>3 DEF Gone, SameFifo
      <3>5. SameJournal(s, o)
        BY <3>1, <3>3 DEF Gone, SameJournal
      <3>6. p.root \notin Listed(left)
        BY <2>6 DEF Listed
      <3>7. /\ o.disk.objects \subseteq s.disk.objects
            /\ o.disk.objects \cup {p.root} = s.disk.objects \cup {p.root}
            /\ o.unsynced.objects \subseteq s.unsynced.objects \cup {p.root}
            /\ ~ o.mem.poisoned => o.unsynced.objects = {}
        BY <3>1, <3>3 DEF Gone, SameObjects
      <3> QED BY <1>2, <3>4, <3>5, <3>6, <3>7 DEF AckEffect, left
    <2> QED BY <2>1, <2>3, <2>4, <2>5, <2>6
  <1> QED BY <1>1, <1>2

-----------------------------------------------------------------------------
(* What an operation leaves is kept. *)

StateKept(s, t) == Kept(s.disk, s.unsynced, s.mem, t)

LEMMA AnswersIs ==
  ASSUME NEW t \in Answers
  PROVE  t.registered \subseteq Pairs /\ t.staged \subseteq Pairs /\ t.taken \subseteq Pairs /\ t.lost \subseteq Roots
  BY DEF Answers

LEMMA MemoryOpen ==
  ASSUME NEW m \in Memories
  PROVE  m # Closed
  <1>1. DOMAIN m = {"pending", "intents", "poisoned"}
    BY DEF Memories
  <1>2. DOMAIN Closed = {"poisoned"}
    BY DEF Closed
  <1> QED BY <1>1, <1>2

(* The one FIFO and the one journal of a ready store. *)
LEMMA ClearKept ==
  ASSUME NEW s, Clear(s), NEW t \in Answers, StateKept(s, t)
  PROVE  LET q == s.disk.pending
             j == s.disk.intents
         IN /\ q \in Seq(Pairs) /\ SoundFifo(q) /\ IsInjective(q)
            /\ Listed(q) \subseteq (s.disk.objects \ s.unsynced.objects) \cup t.lost
            /\ t.staged \subseteq ToSet(q) \cup t.taken
            /\ j \in Seq(Pairs) /\ SoundJournal(j) /\ IsInjective(j)
            /\ t.registered \subseteq ToSet(j) \cup ToSet(q) \cup t.taken
            /\ s.disk.objects \cap s.unsynced.objects \subseteq t.lost
  <1>1. s.disk.pending \in Seq(Pairs) /\ s.disk.intents \in Seq(Pairs)
    BY StateFields DEF Clear
  <1>2. FifosKept(s.disk, s.unsynced, t) /\ JournalsKept(s.disk, s.unsynced)
        /\ PromisesKept(s.disk, s.unsynced, t) /\ Settled(s.disk, s.unsynced, s.mem, t)
    BY DEF StateKept, Kept
  <1>3. /\ SoundFifo(s.disk.pending)
        /\ Listed(s.disk.pending) \subseteq (s.disk.objects \ s.unsynced.objects) \cup t.lost
        /\ t.staged \subseteq ToSet(s.disk.pending) \cup t.taken
    BY <1>2 DEF FifosKept
  <1>4. SoundJournal(s.disk.intents)
    BY <1>2 DEF JournalsKept
  <1>5. t.registered \subseteq ToSet(s.disk.intents) \cup ToSet(s.disk.pending) \cup t.taken
    BY <1>2 DEF PromisesKept
  <1>6. s.disk.objects \cap s.unsynced.objects \subseteq t.lost
    BY <1>2, StateFields, MemoryOpen DEF Settled, Clear
  <1>7. IsInjective(s.disk.pending) /\ IsInjective(s.disk.intents)
    BY <1>3, <1>4 DEF SoundFifo, SoundJournal, IsFifo
  <1> QED BY <1>1, <1>3, <1>4, <1>5, <1>6, <1>7

(* Kept for an outcome, from what may be read next. *)
LEMMA OutcomeKept ==
  ASSUME NEW o \in States, NEW t,
         o.mem.pending = o.disk.pending, o.mem.intents = o.disk.intents,
         \A q \in {o.disk.pending} \cup o.unsynced.pending :
            /\ SoundFifo(q)
            /\ Listed(q) \subseteq (o.disk.objects \ o.unsynced.objects) \cup t.lost
            /\ t.staged \subseteq ToSet(q) \cup t.taken,
         \A j \in {o.disk.intents} \cup o.unsynced.intents : SoundJournal(j),
         \A q \in {o.disk.pending} \cup o.unsynced.pending : \A j \in {o.disk.intents} \cup o.unsynced.intents :
            t.registered \subseteq ToSet(j) \cup ToSet(q) \cup t.taken,
         ~ o.mem.poisoned => /\ o.unsynced.pending = {} /\ o.unsynced.intents = {}
                             /\ o.disk.objects \cap o.unsynced.objects \subseteq t.lost
  PROVE  StateKept(o, t)
  <1>1. FifosKept(o.disk, o.unsynced, t)
    BY DEF FifosKept
  <1>2. JournalsKept(o.disk, o.unsynced)
    BY DEF JournalsKept
  <1>3. PromisesKept(o.disk, o.unsynced, t)
    BY DEF PromisesKept
  <1>4. Settled(o.disk, o.unsynced, o.mem, t)
    BY DEF Settled
  <1>5. Follows(o.disk, o.mem)
    BY DEF Follows
  <1> QED BY <1>1, <1>2, <1>3, <1>4, <1>5 DEF StateKept, Kept

LEMMA FifoAppended ==
  ASSUME NEW q \in Seq(Pairs), SoundFifo(q), NEW p \in Pairs, p \notin ToSet(q), Fits(q, p)
  PROVE  /\ SoundFifo(Append(q, p)) /\ ToSet(Append(q, p)) = ToSet(q) \cup {p}
         /\ Listed(Append(q, p)) = Listed(q) \cup {p.root}
  <1> DEFINE a == Append(q, p)
  <1>0. MaxPending \in Nat /\ MaxBytes \in Nat /\ Len(q) \in Nat
    BY StoreAssumption
  <1>1. IsInjective(q) /\ ToSet(q) \subseteq Pairs /\ Len(q) < MaxPending /\ BytesOf(q) + Size(p.root) <= MaxBytes
    BY DEF SoundFifo, IsFifo, Fits
  <1>2. a \in Seq(Pairs) /\ Len(a) = Len(q) + 1 /\ ToSet(a) = ToSet(q) \cup {p} /\ IsInjective(a)
    BY <1>1, AppendIs
  <1>3. BytesOf(a) = BytesOf(q) + Size(p.root)
    BY BytesAppended
  <1> HIDE DEF a
  <1>4. Len(a) <= MaxPending
    BY <1>0, <1>1, <1>2
  <1>5. SoundFifo(a)
    BY <1>1, <1>2, <1>3, <1>4 DEF SoundFifo, IsFifo
  <1>6. Listed(a) = Listed(q) \cup {p.root}
    BY <1>2 DEF Listed
  <1> QED BY <1>2, <1>5, <1>6 DEF a

LEMMA StageKept ==
  ASSUME NEW s, Clear(s), NEW t \in Answers, StateKept(s, t), NEW p \in Pairs,
         NEW o, StageEffect(s, p, o), NEW v \in Answers,
         v.registered = t.registered, v.taken = t.taken, v.lost = t.lost,
         v.staged = IF o.ok THEN t.staged \cup {p} ELSE t.staged
  PROVE  StateKept(o, v)
  <1> DEFINE q == s.disk.pending
             j == s.disk.intents
             a == Append(q, p)
  <1>1. /\ q \in Seq(Pairs) /\ SoundFifo(q) /\ IsInjective(q)
        /\ Listed(q) \subseteq (s.disk.objects \ s.unsynced.objects) \cup t.lost
        /\ t.staged \subseteq ToSet(q) \cup t.taken
        /\ j \in Seq(Pairs) /\ SoundJournal(j) /\ IsInjective(j)
        /\ t.registered \subseteq ToSet(j) \cup ToSet(q) \cup t.taken
        /\ s.disk.objects \cap s.unsynced.objects \subseteq t.lost
    BY ClearKept
  <1>2. /\ o \in States /\ o.disk.intents = j /\ o.mem.intents = j /\ o.unsynced.intents = {}
        /\ o.mem.pending = o.disk.pending
    BY DEF StageEffect, SameJournal
  <1>3. /\ o.disk.objects \cup {p.root} = s.disk.objects \cup {p.root}
        /\ o.unsynced.objects \subseteq s.unsynced.objects \cup {p.root}
        /\ p.root \in s.disk.objects =>
              o.disk.objects = s.disk.objects /\ o.unsynced.objects = s.unsynced.objects
    BY DEF StageEffect, SameObjects
  <1>4. Listed(q) \subseteq (o.disk.objects \ o.unsynced.objects) \cup t.lost
    BY <1>1, <1>3
  <1>5. ~ o.mem.poisoned =>
           o.unsynced.pending = {} /\ o.disk.objects \cap o.unsynced.objects \subseteq t.lost
    BY <1>1 DEF StageEffect, SameObjects
  <1>6. o.ok => ~ o.mem.poisoned /\ p \in ToSet(o.disk.pending)
    BY DEF StageEffect
  <1>7. CASE SameFifo(s, o)
    <2>1. o.disk.pending = q /\ o.unsynced.pending = {}
      BY <1>7 DEF SameFifo
    <2>2. v.staged \subseteq ToSet(q) \cup t.taken
      BY <1>1, <1>6, <2>1
    <2> HIDE DEF q, j
    <2> QED BY <1>1, <1>2, <1>4, <1>5, <2>1, <2>2, OutcomeKept
  <1>8. CASE /\ p \notin ToSet(q) /\ Fits(q, p)
             /\ o.disk.pending = a
             /\ o.unsynced.pending \subseteq {q}
             /\ p.root \in o.disk.objects
             /\ p.root \notin o.unsynced.objects \/ p.root \in s.disk.objects
    <2>1. SoundFifo(a) /\ ToSet(a) = ToSet(q) \cup {p} /\ Listed(a) = Listed(q) \cup {p.root}
      BY <1>1, <1>8, FifoAppended
    <2>2. p.root \in (o.disk.objects \ o.unsynced.objects) \cup t.lost
      BY <1>1, <1>3, <1>8
    <2>3. Listed(a) \subseteq (o.disk.objects \ o.unsynced.objects) \cup t.lost
      BY <1>4, <2>1, <2>2
    <2>4. v.staged \subseteq ToSet(a) \cup t.taken /\ t.registered \subseteq ToSet(j) \cup ToSet(a) \cup t.taken
      BY <1>1, <2>1
    <2>5. o.unsynced.pending # {} => v.staged = t.staged
      BY <1>5, <1>6
    <2> HIDE DEF q, j, a
    <2>6. ASSUME NEW x \in {o.disk.pending} \cup o.unsynced.pending
          PROVE  /\ SoundFifo(x)
                 /\ Listed(x) \subseteq (o.disk.objects \ o.unsynced.objects) \cup v.lost
                 /\ v.staged \subseteq ToSet(x) \cup v.taken
                 /\ v.registered \subseteq ToSet(j) \cup ToSet(x) \cup v.taken
      <3>1. CASE x = a
        BY <2>1, <2>3, <2>4, <3>1
      <3>2. CASE x = q /\ o.unsynced.pending # {}
        BY <1>1, <1>4, <2>5, <3>2
      <3> QED BY <1>8, <3>1, <3>2
    <2> QED BY <1>1, <1>2, <1>5, <2>6, OutcomeKept
  <1> QED BY <1>7, <1>8 DEF StageEffect

LEMMA FifoRemoved ==
  ASSUME NEW q \in Seq(Pairs), SoundFifo(q), NEW p \in Pairs, p \in ToSet(q)
  PROVE  LET r == RemoveFirst(q, p)
         IN SoundFifo(r) /\ ToSet(r) = ToSet(q) \ {p} /\ Listed(r) \subseteq Listed(q)
  <1> DEFINE r == RemoveFirst(q, p)
  <1>0. MaxPending \in Nat /\ MaxBytes \in Nat /\ Len(q) \in Nat
    BY StoreAssumption
  <1>1. IsInjective(q) /\ ToSet(q) \subseteq Pairs /\ Len(q) <= MaxPending /\ BytesOf(q) <= MaxBytes
    BY DEF SoundFifo, IsFifo
  <1>2. r \in Seq(Pairs) /\ Len(q) = Len(r) + 1 /\ IsInjective(r) /\ ToSet(r) = ToSet(q) \ {p}
    BY <1>1, RemovedIs
  <1>3. BytesOf(r) <= BytesOf(q)
    BY BytesRemoved
  <1> HIDE DEF r
  <1>4. BytesOf(q) \in Nat /\ BytesOf(r) \in Nat
    <2>1. \A x \in Seq(Pairs) : BytesOf(x) \in Nat
      <3> TAKE x \in Seq(Pairs)
      <3>1. PICK f : BytesOf(x) = f[Len(x)] /\ \A i \in 0..Len(x) : f[i] \in Nat
        BY BytesRun
      <3>2. Len(x) \in 0..Len(x)
        OBVIOUS
      <3> QED BY <3>1, <3>2
    <2> QED BY <1>2, <2>1
  <1>5. BytesOf(r) <= MaxBytes
    BY <1>0, <1>1, <1>3, <1>4
  <1>6. Len(r) \in Nat /\ Len(r) <= MaxPending
    BY <1>0, <1>1, <1>2
  <1>7. SoundFifo(r)
    BY <1>1, <1>2, <1>5, <1>6 DEF SoundFifo, IsFifo
  <1>8. Listed(r) \subseteq Listed(q)
    BY <1>2 DEF Listed
  <1> QED BY <1>2, <1>7, <1>8 DEF r

LEMMA AckKept ==
  ASSUME NEW s, Clear(s), NEW t \in Answers, StateKept(s, t), NEW p \in Pairs,
         NEW o, AckEffect(s, p, o), NEW v \in Answers,
         v.registered = t.registered, v.staged = t.staged, v.lost = t.lost,
         v.taken = t.taken \cup {p}
  PROVE  StateKept(o, v)
  <1> DEFINE q == s.disk.pending
             j == s.disk.intents
             r == RemoveFirst(q, p)
  <1>1. /\ q \in Seq(Pairs) /\ SoundFifo(q) /\ IsInjective(q)
        /\ Listed(q) \subseteq (s.disk.objects \ s.unsynced.objects) \cup t.lost
        /\ t.staged \subseteq ToSet(q) \cup t.taken
        /\ j \in Seq(Pairs) /\ SoundJournal(j) /\ IsInjective(j)
        /\ t.registered \subseteq ToSet(j) \cup ToSet(q) \cup t.taken
        /\ s.disk.objects \cap s.unsynced.objects \subseteq t.lost
    BY ClearKept
  <1>2. /\ o \in States /\ o.disk.intents = j /\ o.mem.intents = j /\ o.unsynced.intents = {}
        /\ o.mem.pending = o.disk.pending
    BY DEF AckEffect, SameJournal
  <1>3. ~ o.mem.poisoned =>
           o.unsynced.pending = {} /\ o.disk.objects \cap o.unsynced.objects \subseteq t.lost
    BY <1>1 DEF AckEffect, SameObjects
  <1>4. p \in ToSet(q) => SoundFifo(r) /\ ToSet(r) = ToSet(q) \ {p} /\ Listed(r) \subseteq Listed(q)
    BY <1>1, FifoRemoved
  <1>5. \/ /\ o.disk.pending = q /\ o.unsynced.pending = {}
           /\ o.disk.objects = s.disk.objects /\ o.unsynced.objects = s.unsynced.objects
        \/ /\ p \in ToSet(q) /\ o.disk.pending = r
           /\ o.unsynced.pending \subseteq {q}
           /\ o.disk.objects = s.disk.objects /\ o.unsynced.objects = s.unsynced.objects
        \/ /\ p \in ToSet(q) /\ o.disk.pending = r /\ o.unsynced.pending = {}
           /\ p.root \notin Listed(r)
           /\ o.disk.objects \cup {p.root} = s.disk.objects \cup {p.root}
           /\ o.unsynced.objects \subseteq s.unsynced.objects \cup {p.root}
    BY DEF AckEffect, SameFifo, SameObjects
  <1> HIDE DEF q, j, r
  <1>6. ASSUME NEW x \in {o.disk.pending} \cup o.unsynced.pending
        PROVE  /\ SoundFifo(x)
               /\ Listed(x) \subseteq (o.disk.objects \ o.unsynced.objects) \cup v.lost
               /\ v.staged \subseteq ToSet(x) \cup v.taken
               /\ v.registered \subseteq ToSet(j) \cup ToSet(x) \cup v.taken
    <2>1. x = q \/ (x = r /\ p \in ToSet(q))
      BY <1>5
    <2>2. SoundFifo(x) /\ ToSet(q) \subseteq ToSet(x) \cup {p} /\ Listed(x) \subseteq Listed(q)
      BY <1>1, <1>4, <2>1
    <2>3. Listed(x) \subseteq (o.disk.objects \ o.unsynced.objects) \cup t.lost
      <3>1. CASE o.disk.objects = s.disk.objects /\ o.unsynced.objects = s.unsynced.objects
        BY <1>1, <2>2, <3>1
      <3>2. CASE /\ o.disk.pending = r /\ o.unsynced.pending = {} /\ p.root \notin Listed(r)
                 /\ o.disk.objects \cup {p.root} = s.disk.objects \cup {p.root}
                 /\ o.unsynced.objects \subseteq s.unsynced.objects \cup {p.root}
        <4>1. x = r
          BY <3>2
        <4> QED BY <1>1, <2>2, <3>2, <4>1
      <3> QED BY <1>5, <3>1, <3>2
    <2> QED BY <1>1, <2>2, <2>3
  <1> QED BY <1>1, <1>2, <1>3, <1>6, OutcomeKept

(* A journal that has every registered pair which is not staged. *)
LEMMA JournalKept ==
  ASSUME NEW s, Clear(s), NEW t \in Answers, StateKept(s, t),
         NEW n, SoundJournal(n),
         NEW o, JournalEffect(s, n, o), NEW v \in Answers,
         v.staged = t.staged, v.taken = t.taken, v.lost = t.lost,
         v.registered \subseteq ToSet(o.disk.intents) \cup ToSet(s.disk.pending) \cup t.taken,
         o.ok \/ v.registered \subseteq t.registered
  PROVE  StateKept(o, v)
  <1> DEFINE q == s.disk.pending
             j == s.disk.intents
  <1>1. /\ q \in Seq(Pairs) /\ SoundFifo(q) /\ IsInjective(q)
        /\ Listed(q) \subseteq (s.disk.objects \ s.unsynced.objects) \cup t.lost
        /\ t.staged \subseteq ToSet(q) \cup t.taken
        /\ j \in Seq(Pairs) /\ SoundJournal(j) /\ IsInjective(j)
        /\ t.registered \subseteq ToSet(j) \cup ToSet(q) \cup t.taken
        /\ s.disk.objects \cap s.unsynced.objects \subseteq t.lost
    BY ClearKept
  <1>2. /\ o \in States /\ o.disk.pending = q /\ o.mem.pending = q /\ o.unsynced.pending = {}
        /\ o.mem.intents = o.disk.intents
        /\ o.disk.objects = s.disk.objects /\ o.unsynced.objects = s.unsynced.objects
        /\ ~ o.mem.poisoned => o.unsynced.intents = {}
        /\ o.ok => ~ o.mem.poisoned
    BY DEF JournalEffect, SameFifo, SameObjects
  <1>3. \/ o.disk.intents = j /\ o.unsynced.intents = {}
        \/ o.disk.intents = n /\ o.unsynced.intents \subseteq {j}
    BY DEF JournalEffect, SameJournal
  <1> HIDE DEF q, j
  <1>4. ASSUME NEW x \in {o.disk.intents} \cup o.unsynced.intents
        PROVE  SoundJournal(x) /\ v.registered \subseteq ToSet(x) \cup ToSet(q) \cup t.taken
    <2>1. CASE x = o.disk.intents
      BY <1>1, <1>3, <2>1 DEF q
    <2>2. CASE x = j /\ o.unsynced.intents # {}
      <3>1. ~ o.ok
        BY <1>2, <2>2
      <3> QED BY <1>1, <2>2, <3>1
    <2> QED BY <1>3, <2>1, <2>2
  <1> QED BY <1>1, <1>2, <1>4, OutcomeKept

LEMMA RegisteredKept ==
  ASSUME NEW s, Clear(s), NEW t \in Answers, StateKept(s, t), NEW request \in Seq(Pairs),
         NEW o \in Registered(s, request), NEW v \in Answers,
         v.staged = t.staged, v.taken = t.taken, v.lost = t.lost,
         v.registered = IF o.ok THEN t.registered \cup ToSet(request) ELSE t.registered
  PROVE  StateKept(o, v)
  <1> DEFINE q == s.disk.pending
             j == s.disk.intents
             n == Merged(j, request)
  <1>1. /\ j \in Seq(Pairs) /\ SoundJournal(j) /\ IsInjective(j)
        /\ t.registered \subseteq ToSet(j) \cup ToSet(q) \cup t.taken
    BY ClearKept
  <1>2. \/ JournalEffect(s, j, o) /\ ~ o.ok
        \/ JournalEffect(s, n, o) /\ ~ Conflict(ToSet(n)) /\ Len(n) <= MaxPending
    BY <1>1, RegisteredEffect
  <1>3. n \in Seq(Pairs) /\ IsInjective(n) /\ ToSet(n) = ToSet(j) \cup ToSet(request)
    BY <1>1, MergedIs
  <1> HIDE DEF n
  <1>4. CASE JournalEffect(s, j, o) /\ ~ o.ok
    <2>1. o.disk.intents = j
      BY <1>4 DEF JournalEffect, SameJournal
    <2>2. v.registered \subseteq ToSet(o.disk.intents) \cup ToSet(q) \cup t.taken
      BY <1>1, <1>4, <2>1
    <2>3. v.registered \subseteq t.registered
      BY <1>4
    <2> HIDE DEF j
    <2> QED BY <1>1, <1>4, <2>2, <2>3, JournalKept
  <1>5. CASE JournalEffect(s, n, o) /\ ~ Conflict(ToSet(n)) /\ Len(n) <= MaxPending
    <2>1. SoundJournal(n)
      <3>1. ToSet(n) \subseteq Pairs
        BY <1>3 DEF ToSet
      <3> QED BY <1>3, <1>5, <3>1 DEF SoundJournal, IsFifo
    <2>2. (o.disk.intents = j \/ o.disk.intents = n) /\ (o.ok => o.disk.intents = n)
      BY <1>5 DEF JournalEffect, SameJournal
    <2>3. v.registered \subseteq ToSet(o.disk.intents) \cup ToSet(q) \cup t.taken
      BY <1>1, <1>3, <2>2
    <2>4. o.ok \/ v.registered \subseteq t.registered
      OBVIOUS
    <2> QED BY <1>5, <2>1, <2>3, <2>4, JournalKept
  <1> QED BY <1>2, <1>4, <1>5

LEMMA JournalRemoved ==
  ASSUME NEW j \in Seq(Pairs), SoundJournal(j), NEW p \in Pairs, p \in ToSet(j)
  PROVE  LET r == RemoveFirst(j, p)
         IN /\ SoundJournal(r) /\ r \in Seq(Pairs) /\ Len(j) = Len(r) + 1 /\ IsInjective(r)
            /\ ToSet(r) = ToSet(j) \ {p}
  <1> DEFINE r == RemoveFirst(j, p)
  <1>0. MaxPending \in Nat /\ Len(j) \in Nat
    BY StoreAssumption
  <1>1. IsInjective(j) /\ ToSet(j) \subseteq Pairs /\ Len(j) <= MaxPending /\ ~ Conflict(ToSet(j))
    BY DEF SoundJournal, IsFifo
  <1>2. r \in Seq(Pairs) /\ Len(j) = Len(r) + 1 /\ IsInjective(r) /\ ToSet(r) = ToSet(j) \ {p}
    BY <1>1, RemovedIs
  <1> HIDE DEF r
  <1>3. Len(r) \in Nat /\ Len(r) <= MaxPending
    BY <1>0, <1>1, <1>2
  <1>4. ~ Conflict(ToSet(r))
    BY <1>1, <1>2 DEF Conflict
  <1> QED BY <1>1, <1>2, <1>3, <1>4 DEF SoundJournal, IsFifo, r

LEMMA CompletedKept ==
  ASSUME NEW s, Clear(s), NEW t \in Answers, StateKept(s, t), NEW p \in Pairs,
         NEW o \in Completed(s, p)
  PROVE  StateKept(o, t)
  <1> DEFINE q == s.disk.pending
             j == s.disk.intents
             n == RemoveFirst(j, p)
  <1>1. /\ j \in Seq(Pairs) /\ SoundJournal(j) /\ IsInjective(j)
        /\ t.registered \subseteq ToSet(j) \cup ToSet(q) \cup t.taken
    BY ClearKept
  <1>2. \/ JournalEffect(s, j, o) /\ ~ o.ok
        \/ JournalEffect(s, n, o) /\ p \in ToSet(j) /\ p \in ToSet(q)
    BY <1>1, CompletedEffect
  <1>3. CASE JournalEffect(s, j, o) /\ ~ o.ok
    <2>1. o.disk.intents = j
      BY <1>3 DEF JournalEffect, SameJournal
    <2>2. t.registered \subseteq ToSet(o.disk.intents) \cup ToSet(q) \cup t.taken
      BY <1>1, <2>1
    <2> HIDE DEF j
    <2> QED BY <1>1, <1>3, <2>2, JournalKept
  <1>4. CASE JournalEffect(s, n, o) /\ p \in ToSet(j) /\ p \in ToSet(q)
    <2>1. SoundJournal(n) /\ ToSet(n) = ToSet(j) \ {p}
      BY <1>1, <1>4, JournalRemoved
    <2> HIDE DEF n
    <2>2. o.disk.intents = j \/ o.disk.intents = n
      BY <1>4 DEF JournalEffect, SameJournal
    <2>3. t.registered \subseteq ToSet(o.disk.intents) \cup ToSet(q) \cup t.taken
      BY <1>1, <1>4, <2>1, <2>2
    <2> QED BY <1>4, <2>1, <2>3, JournalKept
  <1> QED BY <1>2, <1>3, <1>4

-----------------------------------------------------------------------------
(* The steps of the store. *)

LEMMA NowIs ==
  ASSUME StoreInv, Healthy
  PROVE  Clear(Now) /\ StateKept(Now, told)
  <1>0. /\ disk \in Files /\ unsynced \in Doubts /\ mem \in Memories
        /\ Kept(disk, unsynced, mem, told) /\ ~ mem.poisoned /\ mem # Closed
    BY DEF StoreInv, StoreShapes, Healthy
  <1>1. Now \in States /\ Now.disk = disk /\ Now.unsynced = unsynced /\ Now.mem = mem /\ Now.ok
    BY <1>0 DEF Now, States
  <1>2. unsynced.pending = {} /\ unsynced.intents = {} /\ mem.pending = disk.pending /\ mem.intents = disk.intents
    BY <1>0 DEF Kept, Settled, Follows
  <1> QED BY <1>0, <1>1, <1>2 DEF Clear, StateKept

(* Fewer doubts do no harm. *)
LEMMA KeptForCertain ==
  ASSUME NEW d, NEW u, NEW m, NEW t, Kept(d, u, m, t)
  PROVE  Kept(d, NoDoubt, m, t) /\ Kept(d, NoDoubt, Closed, t)
  <1>1. FifosKept(d, u, t) /\ JournalsKept(d, u) /\ PromisesKept(d, u, t) /\ Follows(d, m)
    BY DEF Kept
  <1>2. NoDoubt.objects = {} /\ NoDoubt.pending = {} /\ NoDoubt.intents = {}
    BY DEF NoDoubt
  <1> HIDE DEF NoDoubt
  <1>3. FifosKept(d, NoDoubt, t)
    <2>1. /\ SoundFifo(d.pending)
          /\ Listed(d.pending) \subseteq (d.objects \ u.objects) \cup t.lost
          /\ t.staged \subseteq ToSet(d.pending) \cup t.taken
      BY <1>1 DEF FifosKept
    <2> QED BY <1>2, <2>1 DEF FifosKept
  <1>4. JournalsKept(d, NoDoubt)
    BY <1>1, <1>2 DEF JournalsKept
  <1>5. PromisesKept(d, NoDoubt, t)
    BY <1>1, <1>2 DEF PromisesKept
  <1>6. Settled(d, NoDoubt, m, t) /\ Settled(d, NoDoubt, Closed, t)
    BY <1>2 DEF Settled
  <1>7. Follows(d, Closed)
    BY DEF Follows
  <1> QED BY <1>1, <1>3, <1>4, <1>5, <1>6, <1>7 DEF Kept

LEMMA DoubtsType == NoDoubt \in Doubts
  BY DEF NoDoubt, Doubts

(* A step to a disk and doubts that keep everything. *)
LEMMA StepKept ==
  ASSUME told' \in Answers, mem' \in {Closed} \cup Memories, disk' \in Files,
         unsynced' \in Doubts, Kept(disk', unsynced', mem', told')
  PROVE  StoreInv'
  BY DEF StoreInv, StoreShapes

(* A process that ends leaves the doubts it had. *)
LEMMA EndKept ==
  ASSUME NEW d, NEW u, NEW m, NEW t, Kept(d, u, m, t)
  PROVE  Kept(d, u, Closed, t)
  BY DEF Kept, Settled, Follows

LEMMA ResultKept ==
  ASSUME told' \in Answers, NEW o \in States, StateKept(o, told'), Result(o)
  PROVE  StoreInv'
  <1>1. disk' = o.disk /\ mem' = o.mem /\ unsynced' = o.unsynced
    BY DEF Result
  <1>2. o.disk \in Files /\ o.unsynced \in Doubts /\ o.mem \in Memories
    BY StateFields
  <1>3. Kept(disk', unsynced', mem', told')
    BY <1>1 DEF StateKept
  <1> QED BY <1>1, <1>2, <1>3, StepKept

LEMMA ToldIs ==
  ASSUME StoreInv
  PROVE  /\ told \in Answers
         /\ \A S \in SUBSET Pairs :
               /\ [told EXCEPT !.staged = S] \in Answers
               /\ [told EXCEPT !.registered = S] \in Answers
               /\ [told EXCEPT !.taken = S] \in Answers
         /\ \A S \in SUBSET Roots : [told EXCEPT !.lost = S] \in Answers
  BY DEF StoreInv, StoreShapes, Answers

LEMMA StageStep ==
  ASSUME StoreInv, Healthy, NEW p \in Pairs, NEW o \in Staged(Now, p), Result(o), Tell("staged", {p}, o)
  PROVE  StoreInv' /\ StageEffect(Now, p, o)
  <1>1. Clear(Now) /\ StateKept(Now, told)
    BY NowIs
  <1>2. StageEffect(Now, p, o)
    BY <1>1, StagedEffect
  <1>3. told' = [told EXCEPT !.staged = IF o.ok THEN told.staged \cup {p} ELSE told.staged]
    BY DEF Tell
  <1>4. told \in Answers /\ told.staged \subseteq Pairs
    BY ToldIs, AnswersIs
  <1>5. told' \in Answers
    <2>1. (IF o.ok THEN told.staged \cup {p} ELSE told.staged) \in SUBSET Pairs
      BY <1>4
    <2> QED BY <1>3, <2>1, ToldIs
  <1>6. /\ told'.registered = told.registered /\ told'.taken = told.taken /\ told'.lost = told.lost
        /\ told'.staged = IF o.ok THEN told.staged \cup {p} ELSE told.staged
    BY <1>3, <1>4 DEF Answers
  <1>7. StateKept(o, told')
    BY <1>1, <1>2, <1>4, <1>5, <1>6, StageKept
  <1>8. o \in States
    BY <1>2 DEF StageEffect
  <1> QED BY <1>2, <1>5, <1>7, <1>8, ResultKept

LEMMA TakenStep ==
  ASSUME StoreInv, Healthy, NEW p \in Pairs, NEW o \in Acknowledged(Now, p), Result(o),
         told' = [told EXCEPT !.taken = @ \cup {p}]
  PROVE  StoreInv'
  <1>1. Clear(Now) /\ StateKept(Now, told)
    BY NowIs
  <1>4. told \in Answers /\ told.taken \subseteq Pairs
    BY ToldIs, AnswersIs
  <1>2. AckEffect(Now, p, o)
    <2>1. IsInjective(Now.disk.pending)
      BY <1>1, <1>4, ClearKept
    <2> QED BY <1>1, <2>1, AcknowledgedEffect
  <1>5. told' \in Answers
    <2>1. (told.taken \cup {p}) \in SUBSET Pairs
      BY <1>4
    <2> QED BY <2>1, ToldIs
  <1>6. /\ told'.registered = told.registered /\ told'.staged = told.staged /\ told'.lost = told.lost
        /\ told'.taken = told.taken \cup {p}
    BY <1>4 DEF Answers
  <1>7. StateKept(o, told')
    BY <1>1, <1>2, <1>4, <1>5, <1>6, AckKept
  <1>8. o \in States
    BY <1>2 DEF AckEffect
  <1> QED BY <1>5, <1>7, <1>8, ResultKept

(* What a registration answers, also when the node then gives up. *)
LEMMA RegistrationKept ==
  ASSUME StoreInv, Healthy, NEW request \in Seq(Pairs), NEW o \in Registered(Now, request),
         Tell("registered", ToSet(request), o)
  PROVE  o \in States /\ told' \in Answers /\ StateKept(o, told')
  <1>1. Clear(Now) /\ StateKept(Now, told)
    BY NowIs
  <1>4. told \in Answers /\ told.registered \subseteq Pairs
    BY ToldIs, AnswersIs
  <1>3. told' = [told EXCEPT !.registered =
                    IF o.ok THEN told.registered \cup ToSet(request) ELSE told.registered]
    BY DEF Tell
  <1>5. told' \in Answers
    <2>1. ToSet(request) \subseteq Pairs
      BY DEF ToSet
    <2>2. (IF o.ok THEN told.registered \cup ToSet(request) ELSE told.registered) \in SUBSET Pairs
      BY <1>4, <2>1
    <2> QED BY <1>3, <2>2, ToldIs
  <1>6. /\ told'.staged = told.staged /\ told'.taken = told.taken /\ told'.lost = told.lost
        /\ told'.registered = IF o.ok THEN told.registered \cup ToSet(request) ELSE told.registered
    BY <1>3, <1>4 DEF Answers
  <1>7. StateKept(o, told')
    BY <1>1, <1>4, <1>5, <1>6, RegisteredKept
  <1>8. o \in States
    <2>1. IsInjective(Now.disk.intents)
      BY <1>1, <1>4, ClearKept
    <2> QED BY <1>1, <2>1, RegisteredEffect DEF JournalEffect
  <1> QED BY <1>5, <1>7, <1>8

LEMMA CompletionStep ==
  ASSUME StoreInv, Healthy, NEW p \in Pairs, NEW o \in Completed(Now, p), Result(o), told' = told
  PROVE  StoreInv'
  <1>1. Clear(Now) /\ StateKept(Now, told)
    BY NowIs
  <1>2. told \in Answers
    BY ToldIs
  <1>3. StateKept(o, told')
    BY <1>1, <1>2, CompletedKept
  <1>4. o \in States
    <2>1. IsInjective(Now.disk.intents)
      BY <1>1, <1>2, ClearKept
    <2> QED BY <1>1, <2>1, CompletedEffect DEF JournalEffect
  <1> QED BY <1>2, <1>3, <1>4, ResultKept

(* The files a process finds. *)
LEMMA FilesFound ==
  ASSUME StoreInv
  PROVE  /\ disk \in Files /\ unsynced \in Doubts /\ told \in Answers
         /\ SoundFifo(disk.pending) /\ SoundJournal(disk.intents)
         /\ Listed(disk.pending) \subseteq (disk.objects \ unsynced.objects) \cup told.lost
         /\ told.staged \subseteq ToSet(disk.pending) \cup told.taken
         /\ told.registered \subseteq ToSet(disk.intents) \cup ToSet(disk.pending) \cup told.taken
  <1>1. /\ disk \in Files /\ unsynced \in Doubts /\ told \in Answers
        /\ FifosKept(disk, unsynced, told) /\ JournalsKept(disk, unsynced)
        /\ PromisesKept(disk, unsynced, told)
    BY DEF StoreInv, StoreShapes, Kept
  <1>2. /\ SoundFifo(disk.pending)
        /\ Listed(disk.pending) \subseteq (disk.objects \ unsynced.objects) \cup told.lost
        /\ told.staged \subseteq ToSet(disk.pending) \cup told.taken
    BY <1>1 DEF FifosKept
  <1>3. SoundJournal(disk.intents)
    BY <1>1 DEF JournalsKept
  <1>4. told.registered \subseteq ToSet(disk.intents) \cup ToSet(disk.pending) \cup told.taken
    BY <1>1 DEF PromisesKept
  <1> QED BY <1>1, <1>2, <1>3, <1>4

LEMMA NoDoubtIs == NoDoubt.objects = {} /\ NoDoubt.pending = {} /\ NoDoubt.intents = {}
  BY DEF NoDoubt

(* What the syncs at open leave in doubt: nothing, or after the first of them
   only objects. *)
LEMMA AuthorityIs ==
  ASSUME StoreInv
  PROVE  /\ Authority(Now).disk = disk /\ Authority(Now).unsynced = NoDoubt
         /\ Authority(Now).ok /\ DOMAIN Authority(Now) = {"disk", "unsynced", "mem", "ok"}
         /\ RootSynced(Now).unsynced \in Doubts
         /\ RootSynced(Now).unsynced.objects = unsynced.objects
         /\ RootSynced(Now).unsynced.pending = {} /\ RootSynced(Now).unsynced.intents = {}
  <1>1. unsynced \in Doubts
    BY FilesFound
  <1> DEFINE b == TRUE
             r == RootSynced(Now)
             a == Authority(Now)
  <1>2. Now = [disk |-> disk, unsynced |-> unsynced, mem |-> mem, ok |-> b]
    BY DEF Now
  <1>3. b
    OBVIOUS
  <1> HIDE DEF b
  <1>4. /\ DOMAIN Now = {"disk", "unsynced", "mem", "ok"}
        /\ Now.disk = disk /\ Now.unsynced = unsynced /\ Now.ok
    BY <1>2, <1>3
  <1>5. /\ DOMAIN r = {"disk", "unsynced", "mem", "ok"} /\ r.disk = disk /\ r.ok
        /\ r.unsynced = [[unsynced EXCEPT !.pending = {}] EXCEPT !.intents = {}]
    BY <1>1, <1>4 DEF RootSynced, Doubts
  <1>6. /\ r.unsynced \in Doubts /\ r.unsynced.objects = unsynced.objects
        /\ r.unsynced.pending = {} /\ r.unsynced.intents = {}
    BY <1>1, <1>5 DEF Doubts
  <1>7. a = [r EXCEPT !.unsynced.objects = {}]
    BY DEF Authority, ObjectsSynced
  <1> HIDE DEF r, a
  <1>8. /\ DOMAIN a = {"disk", "unsynced", "mem", "ok"} /\ a.disk = disk /\ a.ok
        /\ a.unsynced = [r.unsynced EXCEPT !.objects = {}]
    BY <1>5, <1>7
  <1>9. a.unsynced = NoDoubt
    BY <1>6, <1>8 DEF Doubts, NoDoubt
  <1> QED BY <1>6, <1>8, <1>9 DEF r, a

(* Kept for snapshots that are beyond doubt. *)
LEMMA CertainKept ==
  ASSUME NEW d, NEW u, NEW m, NEW t,
         u.pending = {}, u.intents = {}, m # Closed => d.objects \cap u.objects \subseteq t.lost,
         SoundFifo(d.pending), SoundJournal(d.intents),
         Listed(d.pending) \subseteq (d.objects \ u.objects) \cup t.lost,
         t.staged \subseteq ToSet(d.pending) \cup t.taken,
         t.registered \subseteq ToSet(d.intents) \cup ToSet(d.pending) \cup t.taken,
         m # Closed => m.pending = d.pending /\ m.intents = d.intents
  PROVE  Kept(d, u, m, t)
  <1>1. FifosKept(d, u, t)
    BY DEF FifosKept
  <1>2. JournalsKept(d, u)
    BY DEF JournalsKept
  <1>3. PromisesKept(d, u, t)
    BY DEF PromisesKept
  <1>4. Settled(d, u, m, t)
    BY DEF Settled
  <1>5. Follows(d, m)
    BY DEF Follows
  <1> QED BY <1>1, <1>2, <1>3, <1>4, <1>5 DEF Kept

LEMMA OpenStep ==
  ASSUME StoreInv, Open
  PROVE  StoreInv' /\ mem' \in Memories /\ ~ mem'.poisoned
  <1> DEFINE d == [disk EXCEPT !.objects = disk.objects \ Orphans]
  <1>0. mem = Closed /\ disk' = d /\ unsynced' = NoDoubt /\ told' = told
        /\ mem' = [pending |-> disk.pending, intents |-> disk.intents, poisoned |-> FALSE]
    BY AuthorityIs DEF Open
  <1>1. /\ disk \in Files /\ unsynced \in Doubts /\ told \in Answers
        /\ SoundFifo(disk.pending) /\ SoundJournal(disk.intents)
        /\ Listed(disk.pending) \subseteq (disk.objects \ unsynced.objects) \cup told.lost
        /\ told.staged \subseteq ToSet(disk.pending) \cup told.taken
        /\ told.registered \subseteq ToSet(disk.intents) \cup ToSet(disk.pending) \cup told.taken
    BY FilesFound
  <1>2. /\ d \in Files /\ d.objects = disk.objects \ Orphans
        /\ d.pending = disk.pending /\ d.intents = disk.intents
    BY <1>1 DEF Files
  <1>3. /\ mem' \in Memories /\ ~ mem'.poisoned
        /\ mem'.pending = disk.pending /\ mem'.intents = disk.intents
    BY <1>0, <1>1 DEF Memories, Files
  <1> HIDE DEF d
  <1>4. Listed(d.pending) \subseteq (d.objects \ NoDoubt.objects) \cup told.lost
    BY <1>1, <1>2, NoDoubtIs DEF Orphans
  <1>5. Kept(d, NoDoubt, mem', told)
    BY <1>1, <1>2, <1>3, <1>4, NoDoubtIs, CertainKept
  <1>6. StoreInv'
    BY <1>0, <1>1, <1>2, <1>3, <1>5, DoubtsType, StepKept
  <1> QED BY <1>3, <1>6

LEMMA OpenFailsStep ==
  ASSUME StoreInv, OpenFails
  PROVE  StoreInv'
  <1>1. mem = Closed /\ mem' = mem /\ told' = told
    BY DEF OpenFails
  <1>2. /\ disk \in Files /\ unsynced \in Doubts /\ told \in Answers
        /\ SoundFifo(disk.pending) /\ SoundJournal(disk.intents)
        /\ Listed(disk.pending) \subseteq (disk.objects \ unsynced.objects) \cup told.lost
        /\ told.staged \subseteq ToSet(disk.pending) \cup told.taken
        /\ told.registered \subseteq ToSet(disk.intents) \cup ToSet(disk.pending) \cup told.taken
    BY FilesFound
  <1>3. CASE disk' = disk /\ unsynced' = Authority(Now).unsynced
    <2>1. disk' = disk /\ unsynced' = NoDoubt
      BY <1>3, AuthorityIs
    <2>2. Kept(disk, NoDoubt, Closed, told)
      BY KeptForCertain DEF StoreInv
    <2> QED BY <1>1, <1>2, <2>1, <2>2, DoubtsType, StepKept
  <1>4. CASE disk' = disk /\ unsynced' = RootSynced(Now).unsynced
    <2> DEFINE u == RootSynced(Now).unsynced
    <2>1. u \in Doubts /\ u.objects = unsynced.objects /\ u.pending = {} /\ u.intents = {}
      BY AuthorityIs
    <2> HIDE DEF u
    <2>2. Kept(disk, u, Closed, told)
      BY <1>2, <2>1, CertainKept
    <2>3. unsynced' = u
      BY <1>4 DEF u
    <2> QED BY <1>1, <1>2, <1>4, <2>1, <2>2, <2>3, StepKept
  <1>5. ASSUME NEW gone \in SUBSET Orphans,
               disk' = [disk EXCEPT !.objects = disk.objects \ gone],
               unsynced' = [NoDoubt EXCEPT !.objects = gone]
        PROVE  StoreInv'
    <2> DEFINE d == [disk EXCEPT !.objects = disk.objects \ gone]
               u == [NoDoubt EXCEPT !.objects = gone]
    <2>1. gone \cap Listed(disk.pending) = {} /\ gone \subseteq Roots
      BY <1>2 DEF Orphans, Files
    <2>2. /\ d \in Files /\ d.objects = disk.objects \ gone
          /\ d.pending = disk.pending /\ d.intents = disk.intents
      BY <1>2 DEF Files
    <2>3. u \in Doubts /\ u.objects = gone /\ u.pending = {} /\ u.intents = {}
      BY <2>1 DEF Doubts, NoDoubt
    <2>4. disk' = d /\ unsynced' = u
      BY <1>5
    <2> HIDE DEF d, u
    <2>5. Listed(d.pending) \subseteq (d.objects \ u.objects) \cup told.lost
      BY <1>2, <2>1, <2>2, <2>3
    <2>6. Kept(d, u, Closed, told)
      BY <1>2, <2>2, <2>3, <2>5, CertainKept
    <2> QED BY <1>1, <1>2, <2>2, <2>3, <2>4, <2>6, StepKept
  <1> QED BY <1>3, <1>4, <1>5, AuthorityIs DEF OpenFails

(* The doubts stay; the next process finds the files as this one did. *)
LEMMA KillStep ==
  ASSUME StoreInv, Kill
  PROVE  StoreInv'
  <1>1. mem' = Closed /\ disk' = disk /\ unsynced' = unsynced /\ told' = told
    BY DEF Kill
  <1>2. Kept(disk, unsynced, Closed, told)
    BY EndKept DEF StoreInv
  <1> QED BY <1>1, <1>2, FilesFound, StepKept

(* Whichever of the doubtful names come back. *)
LEMMA PowerLossStep ==
  ASSUME StoreInv, PowerLoss
  PROVE  StoreInv'
  <1>1. PICK objects \in SUBSET unsynced.objects,
             pending \in {disk.pending} \cup unsynced.pending,
             intents \in {disk.intents} \cup unsynced.intents :
          disk' = [objects |-> (disk.objects \ unsynced.objects) \cup objects,
                   pending |-> pending, intents |-> intents]
    BY DEF PowerLoss
  <1>2. mem' = Closed /\ unsynced' = NoDoubt /\ told' = told
    BY DEF PowerLoss, NoDoubt
  <1>3. /\ StoreShapes /\ FifosKept(disk, unsynced, told) /\ JournalsKept(disk, unsynced)
        /\ PromisesKept(disk, unsynced, told)
    BY DEF StoreInv, Kept
  <1>4. /\ SoundFifo(pending)
        /\ Listed(pending) \subseteq (disk.objects \ unsynced.objects) \cup told.lost
        /\ told.staged \subseteq ToSet(pending) \cup told.taken
    BY <1>3 DEF FifosKept
  <1>5. SoundJournal(intents)
    BY <1>3 DEF JournalsKept
  <1>6. told.registered \subseteq ToSet(intents) \cup ToSet(pending) \cup told.taken
    BY <1>3 DEF PromisesKept
  <1>7. /\ disk' \in Files /\ disk'.objects = (disk.objects \ unsynced.objects) \cup objects
        /\ disk'.pending = pending /\ disk'.intents = intents
    BY <1>1, <1>3 DEF StoreShapes, Files, Doubts
  <1>8. NoDoubt.objects = {} /\ NoDoubt.pending = {} /\ NoDoubt.intents = {}
    BY DEF NoDoubt
  <1>9. Listed(disk'.pending) \subseteq (disk'.objects \ NoDoubt.objects) \cup told.lost
    BY <1>4, <1>7, <1>8
  <1> HIDE DEF NoDoubt
  <1>10. Kept(disk', NoDoubt, Closed, told)
    BY <1>4, <1>5, <1>6, <1>7, <1>8, <1>9, CertainKept
  <1> QED BY <1>2, <1>3, <1>7, <1>10, DoubtsType DEF StoreInv, StoreShapes

(* What is listed and missing was lost; it stays so until the new name is
   beyond doubt. *)
LEMMA RestoreStep ==
  ASSUME StoreInv, NEW root \in Roots, Restore(root)
  PROVE  StoreInv'
  <1> DEFINE s == Authority(Now)
  <1>1. PICK o \in Restored(s, root) :
          /\ disk' = o.disk
          /\ unsynced' = o.unsynced
          /\ told' = [told EXCEPT !.lost = IF o.ok THEN told.lost \ {root} ELSE told.lost]
    BY DEF Restore
  <1>2. mem = Closed /\ mem' = mem
    BY DEF Restore
  <1>3. /\ disk \in Files /\ told \in Answers
        /\ SoundFifo(disk.pending) /\ SoundJournal(disk.intents)
        /\ Listed(disk.pending) \subseteq disk.objects \cup told.lost
        /\ told.staged \subseteq ToSet(disk.pending) \cup told.taken
        /\ told.registered \subseteq ToSet(disk.intents) \cup ToSet(disk.pending) \cup told.taken
    BY FilesFound
  <1>4. /\ s.disk = disk /\ s.unsynced = NoDoubt /\ s.ok
        /\ DOMAIN s = {"disk", "unsynced", "mem", "ok"}
    BY AuthorityIs
  <1> DEFINE n == ObjectSet(s, root, TRUE)
             l == IF o.ok THEN told.lost \ {root} ELSE told.lost
             dn == [disk EXCEPT !.objects = disk.objects \cup {root}]
             un == [NoDoubt EXCEPT !.objects = NoDoubt.objects \cup {root}]
  <1> HIDE DEF s
  <1>5. \/ o = s /\ root \in disk.objects
        \/ o = Refused(s)
        \/ /\ root \in Listed(disk.pending) /\ root \notin disk.objects
           /\ o = ObjectsSynced(n) \/ o = Poisoned(n)
    BY <1>1, <1>4 DEF Restored, ObjectWritten
  <1>6. /\ dn \in Files /\ dn.objects = disk.objects \cup {root}
        /\ dn.pending = disk.pending /\ dn.intents = disk.intents
    BY <1>3 DEF Files
  <1>7. un \in Doubts /\ un.objects = {root} /\ un.pending = {} /\ un.intents = {}
    BY DEF Doubts, NoDoubt
  <1>8. n.disk = dn /\ n.unsynced = un /\ DOMAIN n = {"disk", "unsynced", "mem", "ok"}
    BY <1>4 DEF ObjectSet
  <1> HIDE DEF n, dn, un
  <1>9. /\ o.disk \in Files /\ o.unsynced \in Doubts
        /\ o.disk.pending = disk.pending /\ o.disk.intents = disk.intents
        /\ o.unsynced.pending = {} /\ o.unsynced.intents = {}
        /\ \/ /\ o.disk.objects = disk.objects /\ o.unsynced.objects = {}
              /\ o.ok => root \in disk.objects
           \/ o.disk.objects = disk.objects \cup {root} /\ o.unsynced.objects = {}
           \/ /\ o.disk.objects = disk.objects \cup {root} /\ o.unsynced.objects = {root}
              /\ ~ o.ok /\ root \in Listed(disk.pending) /\ root \notin disk.objects
    <2>1. CASE o = s /\ root \in disk.objects
      BY <1>3, <1>4, <2>1, NoDoubtIs, DoubtsType
    <2>2. CASE o = Refused(s)
      <3>1. o.disk = disk /\ o.unsynced = NoDoubt /\ ~ o.ok
        BY <1>4, <2>2 DEF Refused
      <3> QED BY <1>3, <3>1, NoDoubtIs, DoubtsType
    <2>3. CASE o = ObjectsSynced(n)
      <3>1. o.disk = dn /\ o.unsynced = [un EXCEPT !.objects = {}]
        BY <1>8, <2>3 DEF ObjectsSynced
      <3>2. /\ o.unsynced \in Doubts /\ o.unsynced.objects = {}
            /\ o.unsynced.pending = {} /\ o.unsynced.intents = {}
        BY <1>7, <3>1 DEF Doubts
      <3> QED BY <1>6, <3>1, <3>2
    <2>4. CASE root \in Listed(disk.pending) /\ root \notin disk.objects /\ o = Poisoned(n)
      <3>1. o.disk = dn /\ o.unsynced = un /\ ~ o.ok
        BY <1>8, <2>4 DEF Poisoned
      <3> QED BY <1>6, <1>7, <2>4, <3>1
    <2> QED BY <1>5, <2>1, <2>2, <2>3, <2>4
  <1>10. /\ told' \in Answers /\ told'.lost = l
         /\ told'.registered = told.registered /\ told'.staged = told.staged /\ told'.taken = told.taken
    <2>1. l \in SUBSET Roots
      BY <1>3 DEF Answers
    <2>2. told' = [told EXCEPT !.lost = l]
      BY <1>1
    <2> HIDE DEF l
    <2> QED BY <1>3, <2>1, <2>2 DEF Answers
  <1>11. Listed(o.disk.pending) \subseteq (o.disk.objects \ o.unsynced.objects) \cup l
    BY <1>3, <1>9
  <1> HIDE DEF l
  <1>12. Kept(o.disk, o.unsynced, Closed, told')
    BY <1>3, <1>9, <1>10, <1>11, CertainKept
  <1> QED BY <1>1, <1>2, <1>9, <1>10, <1>12, StepKept

LEMMA LoseObjectStep ==
  ASSUME StoreInv, NEW root \in Roots, LoseObject(root)
  PROVE  StoreInv'
  <1> DEFINE d == [disk EXCEPT !.objects = disk.objects \ {root}]
             u == [unsynced EXCEPT !.objects = unsynced.objects \ {root}]
             t == [told EXCEPT !.lost = told.lost \cup {root}]
  <1>1. disk' = d /\ unsynced' = u /\ told' = t /\ mem' = mem
    BY DEF LoseObject
  <1>2. /\ disk \in Files /\ unsynced \in Doubts /\ told \in Answers /\ mem \in {Closed} \cup Memories
        /\ FifosKept(disk, unsynced, told) /\ JournalsKept(disk, unsynced)
        /\ PromisesKept(disk, unsynced, told) /\ Settled(disk, unsynced, mem, told) /\ Follows(disk, mem)
    BY DEF StoreInv, StoreShapes, Kept
  <1>3. d \in Files /\ d.objects = disk.objects \ {root} /\ d.pending = disk.pending /\ d.intents = disk.intents
    BY <1>2 DEF Files
  <1>4. /\ u \in Doubts /\ u.objects = unsynced.objects \ {root}
        /\ u.pending = unsynced.pending /\ u.intents = unsynced.intents
    BY <1>2 DEF Doubts
  <1>5. /\ t \in Answers /\ t.lost = told.lost \cup {root}
        /\ t.registered = told.registered /\ t.staged = told.staged /\ t.taken = told.taken
    BY <1>2 DEF Answers
  <1> HIDE DEF d, u, t
  <1>6. FifosKept(d, u, t)
    <2> SUFFICES ASSUME NEW q \in {d.pending} \cup u.pending
                 PROVE  /\ SoundFifo(q)
                        /\ Listed(q) \subseteq (d.objects \ u.objects) \cup t.lost
                        /\ t.staged \subseteq ToSet(q) \cup t.taken
      BY DEF FifosKept
    <2>1. /\ SoundFifo(q)
          /\ Listed(q) \subseteq (disk.objects \ unsynced.objects) \cup told.lost
          /\ told.staged \subseteq ToSet(q) \cup told.taken
      BY <1>2, <1>3, <1>4 DEF FifosKept
    <2> QED BY <1>3, <1>4, <1>5, <2>1
  <1>7. JournalsKept(d, u)
    BY <1>2, <1>3, <1>4 DEF JournalsKept
  <1>8. PromisesKept(d, u, t)
    BY <1>2, <1>3, <1>4, <1>5 DEF PromisesKept
  <1>9. Settled(d, u, mem, t)
    BY <1>2, <1>3, <1>4, <1>5 DEF Settled
  <1>10. Follows(d, mem)
    BY <1>2, <1>3 DEF Follows
  <1>11. Kept(d, u, mem, t)
    BY <1>6, <1>7, <1>8, <1>9, <1>10 DEF Kept
  <1> QED BY <1>1, <1>2, <1>3, <1>4, <1>5, <1>11, StepKept

(* Every operation of any caller keeps the store. *)
LEMMA StoreStep ==
  ASSUME StoreInv, Next
  PROVE  StoreInv'
  <1>1. ASSUME NEW p \in Pairs, Stage(p) PROVE StoreInv'
    <2>1. PICK o \in Staged(Now, p) : Result(o) /\ Tell("staged", {p}, o)
      BY <1>1 DEF Stage
    <2>2. Healthy /\ o \in Staged(Now, p)
      BY <1>1, <2>1 DEF Stage
    <2> QED BY <2>1, <2>2, StageStep
  <1>2. ASSUME NEW p \in Pairs, Complete(p) PROVE StoreInv'
    <2>1. PICK o \in Completed(Now, p) : Result(o)
      BY <1>2 DEF Complete
    <2>2. Healthy /\ o \in Completed(Now, p) /\ told' = told
      BY <1>2, <2>1 DEF Complete
    <2> QED BY <2>1, <2>2, CompletionStep
  <1>3. ASSUME NEW p \in Pairs, Acknowledge(p) PROVE StoreInv'
    <2>1. PICK o \in Acknowledged(Now, p) : Result(o)
      BY <1>3 DEF Acknowledge
    <2>2. Healthy /\ o \in Acknowledged(Now, p) /\ told' = [told EXCEPT !.taken = @ \cup {p}]
      BY <1>3, <2>1 DEF Acknowledge
    <2> QED BY <2>1, <2>2, TakenStep
  <1>4. ASSUME NEW request \in Seq(Pairs), Register(request) PROVE StoreInv'
    <2>1. PICK o \in Registered(Now, request) :
             Result(o) /\ Tell("registered", ToSet(request), o)
      BY <1>4 DEF Register
    <2>2. Healthy /\ o \in Registered(Now, request)
      BY <1>4, <2>1 DEF Register
    <2> QED BY <2>1, <2>2, RegistrationKept, ResultKept
  <1>5. \A request \in {<<p>> : p \in Pairs} \cup (Pairs \X Pairs) : request \in Seq(Pairs)
    <2>1. \A p \in Pairs : <<p>> \in Seq(Pairs)
      OBVIOUS
    <2>2. ASSUME NEW request \in Pairs \X Pairs PROVE request \in Seq(Pairs)
      <3>1. PICK p \in Pairs, q \in Pairs : request = <<p, q>>
        OBVIOUS
      <3> QED BY <3>1
    <2> QED BY <2>1, <2>2
  <1>6. \A root \in {p.root : p \in Pairs} : root \in Roots
    BY DEF Roots
  <1> QED BY <1>1, <1>2, <1>3, <1>4, <1>5, <1>6, OpenStep, OpenFailsStep, KillStep, PowerLossStep,
             RestoreStep, LoseObjectStep DEF Next

-----------------------------------------------------------------------------
(* The steps of the fetch thread. *)

LEMMA JobIs ==
  ASSUME NEW j \in Jobs
  PROVE  /\ (j = Direct <=> j.at = "direct") /\ (j = Off <=> j.at = "off")
         /\ (j = Opened <=> j.at = "opened") /\ (j = Ready <=> j.at = "ready")
         /\ (j.at = "complete" => j.pair \in Pairs)
         /\ j.at \in {"direct", "off", "opened", "ready", "complete"}
  <1>1. CASE j \in {Direct, Off, Opened, Ready}
    BY <1>1 DEF Direct, Off, Opened, Ready
  <1>2. CASE j \in {Completing(p) : p \in Pairs}
    <2>1. PICK p \in Pairs : j = Completing(p)
      BY <1>2
    <2>2. j.at = "complete" /\ j.pair = p
      BY <2>1 DEF Completing
    <2> QED BY <2>2 DEF Direct, Off, Opened, Ready
  <1> QED BY <1>1, <1>2 DEF Jobs

(* The pairs in the thread's hands are those of the journal. *)
Holding(j, q, intents) ==
    /\ ToSet(q) \cup (IF j.at = "complete" THEN {j.pair} ELSE {}) = ToSet(intents)
    /\ Len(q) + (IF j.at = "complete" THEN 1 ELSE 0) = Len(intents)

LEMMA QueueInv ==
  ASSUME IInv
  PROVE  /\ StoreInv /\ job \in Jobs /\ queue \in Seq(Pairs)
         /\ job.at \in {"opened", "ready", "complete"} => mem # Closed /\ mem \in Memories
         /\ job.at \in {"opened", "complete"} => Healthy
         /\ job.at \in {"ready", "complete"} => IsInjective(queue)
         /\ job.at = "complete" => job.pair \notin ToSet(queue)
         /\ job.at \in {"ready", "complete"} /\ ~ mem.poisoned => Holding(job, queue, mem.intents)
         /\ mem # Closed => mem.intents = disk.intents
  <1>1. StoreInv /\ JobShapes /\ HandsDistinct /\ QueueIsJournal
    BY DEF IInv
  <1>2. job \in Jobs /\ queue \in Seq(Pairs)
    BY <1>1 DEF JobShapes
  <1>3. /\ (job = Direct <=> job.at = "direct") /\ (job = Off <=> job.at = "off")
        /\ (job = Opened <=> job.at = "opened") /\ (job = Ready <=> job.at = "ready")
    BY <1>2, JobIs
  <1>5. job.at \in {"opened", "ready", "complete"} => mem # Closed /\ mem \in Memories
    BY <1>1, <1>3 DEF JobShapes, StoreInv, StoreShapes
  <1>6. job.at \in {"opened", "complete"} => Healthy
    BY <1>1, <1>5 DEF JobShapes, Healthy
  <1>7. /\ job.at \in {"ready", "complete"} => IsInjective(queue)
        /\ job.at = "complete" => job.pair \notin ToSet(queue)
    BY <1>1, <1>3 DEF HandsDistinct
  <1>8. job.at \in {"ready", "complete"} /\ ~ mem.poisoned => Holding(job, queue, mem.intents)
    BY <1>1, <1>3 DEF QueueIsJournal, Holding, InHand
  <1>9. mem # Closed => mem.intents = disk.intents
    BY <1>1 DEF StoreInv, Kept, Follows
  <1> QED BY <1>1, <1>2, <1>5, <1>6, <1>7, <1>8, <1>9

(* And back. *)
LEMMA QueueInvBack ==
  ASSUME StoreInv', job' \in Jobs, queue' \in Seq(Pairs),
         job'.at \in {"opened", "ready", "complete"} => mem' # Closed,
         job'.at \in {"opened", "complete"} => ~ mem'.poisoned,
         job'.at \in {"ready", "complete"} => IsInjective(queue'),
         job'.at = "complete" => job'.pair \notin ToSet(queue'),
         job'.at \in {"ready", "complete"} /\ ~ mem'.poisoned => Holding(job', queue', mem'.intents)
  PROVE  IInv'
  <1>1. /\ (job' = Direct <=> job'.at = "direct") /\ (job' = Off <=> job'.at = "off")
        /\ (job' = Opened <=> job'.at = "opened") /\ (job' = Ready <=> job'.at = "ready")
        /\ job'.at \in {"direct", "off", "opened", "ready", "complete"}
    BY JobIs
  <1>2. JobShapes'
    BY <1>1 DEF JobShapes
  <1>3. HandsDistinct'
    BY <1>1 DEF HandsDistinct
  <1>4. QueueIsJournal'
    BY <1>1 DEF QueueIsJournal, Holding, InHand
  <1> QED BY <1>2, <1>3, <1>4 DEF IInv

LEMMA SameStore ==
  ASSUME StoreInv, UNCHANGED <<disk, unsynced, mem, told>>
  PROVE  StoreInv'
  BY DEF StoreInv, StoreShapes

LEMMA JobValues ==
  /\ Direct \in Jobs /\ Direct.at = "direct" /\ Off \in Jobs /\ Off.at = "off"
  /\ Opened \in Jobs /\ Opened.at = "opened" /\ Ready \in Jobs /\ Ready.at = "ready"
  /\ \A p \in Pairs : Completing(p) \in Jobs /\ Completing(p).at = "complete" /\ Completing(p).pair = p
  BY DEF Jobs, Direct, Off, Opened, Ready, Completing

LEMMA OpenStoreStep ==
  ASSUME IInv, OpenStore
  PROVE  IInv'
  <1>1. job = Off /\ Open /\ job' = Opened /\ queue' = queue
    BY DEF OpenStore
  <1>2. StoreInv /\ queue \in Seq(Pairs)
    BY <1>1, QueueInv, JobValues
  <1>3. StoreInv' /\ mem' \in Memories /\ ~ mem'.poisoned
    BY <1>1, <1>2, OpenStep
  <1>4. mem' # Closed
    BY <1>3, MemoryOpen
  <1>6. job' \in Jobs /\ job'.at = "opened"
    BY <1>1, JobValues
  <1> QED BY <1>1, <1>2, <1>3, <1>4, <1>6, QueueInvBack

LEMMA ConfigureStep ==
  ASSUME IInv, Configure
  PROVE  IInv'
  <1>1. job = Opened
    BY DEF Configure
  <1>2. PICK o \in Registered(Now, Config) :
          /\ Result(IF o.ok THEN o ELSE [o EXCEPT !.mem = Closed])
          /\ Tell("registered", ToSet(Config), o)
          /\ queue' = (IF o.ok THEN o.mem.intents ELSE <<>>)
          /\ job' = (IF o.ok THEN Ready ELSE Off)
    BY DEF Configure
  <1>3. StoreInv /\ Healthy
    BY <1>1, QueueInv, JobValues
  <1>4. Config \in Seq(Pairs)
    BY FetchAssumption
  <1>5. o \in States /\ told' \in Answers /\ StateKept(o, told')
    BY <1>2, <1>3, <1>4, RegistrationKept
  <1>6. CASE o.ok
    <2>1. Result(o) /\ queue' = o.mem.intents /\ job' = Ready
      BY <1>2, <1>6
    <2>2. StoreInv'
      BY <1>3, <1>5, <2>1, ResultKept
    <2>3. mem' = o.mem
      BY <2>1 DEF Result
    <2>4. mem' \in Memories /\ mem' # Closed /\ queue' \in Seq(Pairs)
      BY <1>5, <2>1, <2>3, StateFields, MemoryOpen
    <2>5. IsInjective(queue')
      <3>1. mem'.intents = disk'.intents /\ SoundJournal(disk'.intents)
        BY <2>2, <2>4 DEF StoreInv, Kept, Follows, JournalsKept
      <3> QED BY <2>1, <2>3, <3>1 DEF SoundJournal, IsFifo
    <2>6. job' \in Jobs /\ job'.at = "ready"
      BY <2>1, JobValues
    <2>7. Holding(job', queue', mem'.intents)
      <3>1. Len(queue') \in Nat
        BY <2>4
      <3> QED BY <2>1, <2>3, <2>6, <3>1 DEF Holding
    <2> QED BY <1>3, <2>2, <2>3, <2>4, <2>5, <2>6, <2>7, QueueInvBack
  <1>7. CASE ~ o.ok
    <2> DEFINE n == [o EXCEPT !.mem = Closed]
    <2>1. Result(n) /\ queue' = <<>> /\ job' = Off
      BY <1>2, <1>7
    <2>2. n.disk = o.disk /\ n.unsynced = o.unsynced /\ n.mem = Closed
      BY <1>5 DEF States
    <2>3. disk' = o.disk /\ mem' = Closed /\ unsynced' = o.unsynced
      BY <2>1, <2>2 DEF Result
    <2>4. Kept(disk', unsynced', Closed, told')
      BY <1>5, <2>3, EndKept DEF StateKept
    <2>5. disk' \in Files /\ unsynced' \in Doubts
      BY <1>5, <2>3, StateFields
    <2>7. StoreInv'
      BY <1>5, <2>3, <2>4, <2>5, StepKept
    <2>8. job' \in Jobs /\ job'.at = "off" /\ queue' \in Seq(Pairs)
      BY <2>1, JobValues
    <2> QED BY <1>3, <2>3, <2>7, <2>8, QueueInvBack
  <1> QED BY <1>6, <1>7

LEMMA RecoverStep ==
  ASSUME IInv, Recover
  PROVE  IInv'
  <1> DEFINE p == Head(queue)
  <1>1. /\ job = Ready /\ queue # <<>> /\ Healthy
        /\ job' = Completing(p) /\ queue' = Tail(queue)
        /\ UNCHANGED <<disk, unsynced, mem, told>>
    BY DEF Recover
  <1>2. /\ StoreInv /\ queue \in Seq(Pairs) /\ mem # Closed /\ ~ mem.poisoned
        /\ IsInjective(queue) /\ Holding(job, queue, mem.intents) /\ job.at = "ready"
    BY <1>1, QueueInv, JobValues DEF Healthy
  <1>3. /\ p \in Pairs /\ queue' \in Seq(Pairs) /\ Len(queue) = Len(queue') + 1
        /\ ToSet(queue) = ToSet(queue') \cup {p}
        /\ IsInjective(queue') /\ p \notin ToSet(queue')
    BY <1>1, <1>2, TailIs
  <1> HIDE DEF p
  <1>4. job' \in Jobs /\ job'.at = "complete" /\ job'.pair = p
    BY <1>1, <1>3, JobValues
  <1>5. Holding(job', queue', mem'.intents)
    <2>1. ToSet(queue) = ToSet(mem.intents) /\ Len(queue) + 0 = Len(mem.intents)
      BY <1>2 DEF Holding
    <2>2. Len(queue) \in Nat /\ Len(queue') \in Nat
      BY <1>2, <1>3
    <2> QED BY <1>1, <1>3, <1>4, <2>1, <2>2 DEF Holding
  <1>6. StoreInv'
    BY <1>1, <1>2, SameStore
  <1> QED BY <1>1, <1>2, <1>3, <1>4, <1>5, <1>6, QueueInvBack

(* A request that waits goes to the back. *)
LEMMA RetriedIs ==
  ASSUME NEW q \in Seq(Pairs), NEW p \in Pairs, IsInjective(q), p \notin ToSet(q)
  PROVE  /\ Retried(q, p) \in Seq(Pairs) /\ IsInjective(Retried(q, p))
         /\ ToSet(Retried(q, p)) = ToSet(q) \cup {p} /\ Len(Retried(q, p)) = Len(q) + 1
  BY AppendIs DEF Retried

LEMMA PostponeStep ==
  ASSUME IInv, Postpone
  PROVE  IInv'
  <1> DEFINE p == Head(queue)
             t == Tail(queue)
  <1>1. /\ job = Ready /\ queue # <<>> /\ queue' = Retried(t, p)
        /\ UNCHANGED <<disk, unsynced, mem, told, job>>
    BY DEF Postpone
  <1>2. /\ StoreInv /\ queue \in Seq(Pairs) /\ mem # Closed
        /\ IsInjective(queue) /\ job.at = "ready" /\ job \in Jobs
        /\ ~ mem.poisoned => Holding(job, queue, mem.intents)
    BY <1>1, QueueInv, JobValues
  <1>3. /\ p \in Pairs /\ t \in Seq(Pairs) /\ Len(queue) = Len(t) + 1
        /\ ToSet(queue) = ToSet(t) \cup {p}
        /\ IsInjective(t) /\ p \notin ToSet(t)
    BY <1>1, <1>2, TailIs
  <1> HIDE DEF p, t
  <1>4. /\ queue' \in Seq(Pairs) /\ IsInjective(queue')
        /\ ToSet(queue') = ToSet(queue) /\ Len(queue') = Len(queue)
    BY <1>1, <1>3, RetriedIs
  <1>5. ~ mem'.poisoned => Holding(job', queue', mem'.intents)
    BY <1>1, <1>2, <1>4 DEF Holding
  <1>6. StoreInv'
    BY <1>1, <1>2, SameStore
  <1> QED BY <1>1, <1>2, <1>4, <1>5, <1>6, QueueInvBack

LEMMA FetchStep ==
  ASSUME IInv, Fetch
  PROVE  IInv'
  <1> DEFINE p == Head(queue)
             t == Tail(queue)
  <1>1. job = Ready /\ queue # <<>> /\ Healthy
    BY DEF Fetch
  <1>2. PICK o \in Staged(Now, p) :
             /\ Result(o) /\ Tell("staged", {p}, o)
             /\ job' = (IF o.ok THEN Completing(p) ELSE Ready)
             /\ queue' = (IF o.ok THEN t ELSE Retried(t, p))
    BY DEF Fetch
  <1>3. /\ StoreInv /\ queue \in Seq(Pairs) /\ mem # Closed /\ ~ mem.poisoned
        /\ IsInjective(queue) /\ Holding(job, queue, mem.intents) /\ job.at = "ready"
        /\ mem.intents = disk.intents
    BY <1>1, QueueInv, JobValues DEF Healthy
  <1>4. /\ p \in Pairs /\ t \in Seq(Pairs) /\ Len(queue) = Len(t) + 1
        /\ ToSet(queue) = ToSet(t) \cup {p}
        /\ IsInjective(t) /\ p \notin ToSet(t)
    BY <1>1, <1>3, TailIs
  <1> HIDE DEF p, t
  <1>5. StoreInv' /\ StageEffect(Now, p, o)
    BY <1>1, <1>2, <1>3, <1>4, StageStep
  <1>6. o \in States /\ o.mem.intents = mem.intents /\ (o.ok => ~ o.mem.poisoned)
    <2>1. Now.disk = disk
      BY DEF Now
    <2> QED BY <1>3, <1>5, <2>1 DEF StageEffect, SameJournal
  <1>7. mem' = o.mem
    BY <1>2 DEF Result
  <1>8. mem' # Closed /\ mem'.intents = mem.intents
    BY <1>6, <1>7, StateFields, MemoryOpen
  <1>9. ToSet(queue) = ToSet(mem.intents) /\ Len(queue) + 0 = Len(mem.intents)
    BY <1>3 DEF Holding
  <1>a. Len(queue) \in Nat /\ Len(t) \in Nat
    BY <1>3, <1>4
  <1>10. CASE o.ok
    <2>1. job' = Completing(p) /\ queue' = t /\ ~ mem'.poisoned
      BY <1>2, <1>6, <1>7, <1>10
    <2>2. job' \in Jobs /\ job'.at = "complete" /\ job'.pair = p
      BY <1>4, <2>1, JobValues
    <2>3. Holding(job', queue', mem'.intents)
      BY <1>4, <1>8, <1>9, <1>a, <2>1, <2>2 DEF Holding
    <2> QED BY <1>3, <1>4, <1>5, <1>7, <1>8, <2>1, <2>2, <2>3, QueueInvBack
  <1>11. CASE ~ o.ok
    <2>1. job' = Ready /\ queue' = Retried(t, p)
      BY <1>2, <1>11
    <2>2. /\ queue' \in Seq(Pairs) /\ IsInjective(queue')
          /\ ToSet(queue') = ToSet(queue) /\ Len(queue') = Len(queue)
      BY <1>4, <2>1, RetriedIs
    <2>3. job' \in Jobs /\ job'.at = "ready"
      BY <2>1, JobValues
    <2>4. Holding(job', queue', mem'.intents)
      BY <1>8, <1>9, <2>2, <2>3 DEF Holding
    <2> QED BY <1>3, <1>5, <1>7, <1>8, <2>2, <2>3, <2>4, QueueInvBack
  <1> QED BY <1>10, <1>11

LEMMA FinishStep ==
  ASSUME IInv, Finish
  PROVE  IInv'
  <1> DEFINE p == job.pair
             j == disk.intents
  <1>1. job.at = "complete" /\ job' = Ready /\ told' = told
    BY DEF Finish
  <1>2. PICK o \in Completed(Now, p) :
             Result(o) /\ queue' = (IF o.ok THEN queue ELSE Retried(queue, p))
    BY DEF Finish
  <1>3. /\ StoreInv /\ job \in Jobs /\ queue \in Seq(Pairs) /\ Healthy
        /\ IsInjective(queue) /\ p \notin ToSet(queue) /\ mem # Closed /\ ~ mem.poisoned
        /\ Holding(job, queue, mem.intents) /\ mem.intents = j
    BY <1>1, QueueInv DEF Healthy
  <1>4. p \in Pairs
    BY <1>1, <1>3, JobIs
  <1>5. ToSet(queue) \cup {p} = ToSet(j) /\ Len(queue) + 1 = Len(j)
    BY <1>1, <1>3 DEF Holding
  <1> HIDE DEF p
  <1>6. StoreInv'
    BY <1>1, <1>2, <1>3, <1>4, CompletionStep
  <1>7. mem' = o.mem
    BY <1>2 DEF Result
  <1>8. Clear(Now) /\ Now.disk = disk /\ j \in Seq(Pairs) /\ SoundJournal(j) /\ IsInjective(j)
    <2>1. Clear(Now) /\ StateKept(Now, told) /\ told \in Answers
      BY <1>3, NowIs, ToldIs
    <2>2. Now.disk = disk
      BY DEF Now
    <2> QED BY <2>1, <2>2, ClearKept
  <1>9. \/ JournalEffect(Now, j, o) /\ ~ o.ok
        \/ JournalEffect(Now, RemoveFirst(j, p), o) /\ p \in ToSet(j)
    BY <1>2, <1>4, <1>8, CompletedEffect
  <1>10. o \in States /\ o.mem.intents = o.disk.intents /\ (o.ok => ~ o.mem.poisoned)
    BY <1>9 DEF JournalEffect
  <1>11. mem' # Closed
    BY <1>7, <1>10, StateFields, MemoryOpen
  <1>12. job' \in Jobs /\ job'.at = "ready"
    BY <1>1, JobValues
  <1>13. CASE o.ok
    <2>1. queue' = queue /\ o.disk.intents = RemoveFirst(j, p) /\ p \in ToSet(j)
      BY <1>2, <1>9, <1>13 DEF JournalEffect
    <2>2. /\ RemoveFirst(j, p) \in Seq(Pairs) /\ Len(j) = Len(RemoveFirst(j, p)) + 1
          /\ ToSet(RemoveFirst(j, p)) = ToSet(j) \ {p}
      BY <1>4, <1>8, <2>1, JournalRemoved
    <2>3. ToSet(queue) = ToSet(mem'.intents)
      BY <1>3, <1>5, <1>7, <1>10, <2>1, <2>2
    <2>4. Len(queue) + 0 = Len(mem'.intents)
      <3>1. Len(queue) \in Nat /\ Len(RemoveFirst(j, p)) \in Nat
        BY <1>3, <2>2
      <3> QED BY <1>5, <1>7, <1>10, <2>1, <2>2, <3>1
    <2>5. Holding(job', queue', mem'.intents)
      BY <1>12, <2>1, <2>3, <2>4 DEF Holding
    <2> QED BY <1>3, <1>6, <1>7, <1>11, <1>12, <2>1, <2>5, QueueInvBack
  <1>14. CASE ~ o.ok
    <2>1. queue' = Retried(queue, p)
      BY <1>2, <1>14
    <2>2. /\ queue' \in Seq(Pairs) /\ IsInjective(queue')
          /\ ToSet(queue') = ToSet(queue) \cup {p} /\ Len(queue') = Len(queue) + 1
      BY <1>3, <1>4, <2>1, RetriedIs
    <2>3. ~ mem'.poisoned => mem'.intents = j
      BY <1>7, <1>8, <1>9, <1>14 DEF JournalEffect, SameJournal
    <2>4. ~ mem'.poisoned => Holding(job', queue', mem'.intents)
      <3>1. Len(queue') + 0 = Len(j) /\ ToSet(queue') = ToSet(j)
        BY <1>3, <1>5, <2>2
      <3> QED BY <1>12, <2>3, <3>1 DEF Holding
    <2> QED BY <1>3, <1>6, <1>7, <1>11, <1>12, <2>2, <2>4, QueueInvBack
  <1> QED BY <1>13, <1>14

LEMMA RestartStep ==
  ASSUME IInv, Restart
  PROVE  IInv'
  <1>1. (Kill \/ PowerLoss \/ OpenFails) /\ job' = Off /\ queue' = <<>>
    BY DEF Restart
  <1>2. StoreInv
    BY QueueInv
  <1>3. StoreInv'
    BY <1>1, <1>2, KillStep, PowerLossStep, OpenFailsStep
  <1>4. job' \in Jobs /\ job'.at = "off" /\ queue' \in Seq(Pairs)
    BY <1>1, JobValues
  <1> QED BY <1>3, <1>4, QueueInvBack

LEMMA OtherCallerStep ==
  ASSUME IInv, OtherCaller
  PROVE  IInv'
  <1>1. job = Direct /\ Next /\ job' = job /\ queue' = queue
    BY DEF OtherCaller
  <1>2. StoreInv /\ queue \in Seq(Pairs)
    BY QueueInv
  <1>3. StoreInv'
    BY <1>1, <1>2, StoreStep
  <1>4. job' \in Jobs /\ job'.at = "direct"
    BY <1>1, JobValues
  <1> QED BY <1>1, <1>2, <1>3, <1>4, QueueInvBack

-----------------------------------------------------------------------------
(* The theorems. *)

LEMMA Initially == FetchInit => IInv
  <1> SUFFICES ASSUME FetchInit PROVE IInv
    OBVIOUS
  <1>1. /\ disk = [objects |-> {}, pending |-> <<>>, intents |-> <<>>]
        /\ unsynced = NoDoubt /\ mem = Closed
        /\ told = [registered |-> {}, staged |-> {}, taken |-> {}, lost |-> {}]
        /\ job \in {Direct, Off} /\ queue = <<>>
    BY DEF FetchInit, Init, NoDoubt
  <1>2. disk \in Files /\ unsynced \in Doubts /\ told \in Answers
    <2>1. <<>> \in Seq(Pairs)
      OBVIOUS
    <2> QED BY <1>1, <2>1, DoubtsType DEF Files, Answers
  <1>3. ToSet(<<>>) = {} /\ IsInjective(<<>>) /\ Len(<<>>) = 0
    BY DEF ToSet, IsInjective
  <1>4. SoundFifo(<<>>) /\ SoundJournal(<<>>) /\ Listed(<<>>) = {}
    <2>1. MaxPending \in Nat /\ MaxBytes \in Nat
      BY StoreAssumption
    <2>2. BytesOf(<<>>) = 0
      <3>1. <<>> \in Seq(Pairs)
        OBVIOUS
      <3>2. PICK f : BytesOf(<<>>) = f[Len(<<>>)] /\ f[0] = 0
        BY <3>1, BytesRun
      <3> QED BY <1>3, <3>2
    <2>3. IsFifo(<<>>)
      BY <1>3, <2>1 DEF IsFifo
    <2>4. ~ Conflict(ToSet(<<>>))
      BY <1>3 DEF Conflict
    <2> QED BY <1>3, <2>1, <2>2, <2>3, <2>4 DEF SoundFifo, SoundJournal, Listed
  <1>5. Kept(disk, unsynced, mem, told)
    <2>1. unsynced.pending = {} /\ unsynced.intents = {} /\ unsynced.objects = {}
      BY <1>1 DEF NoDoubt
    <2>2. disk.pending = <<>> /\ disk.intents = <<>> /\ disk.objects = {}
      BY <1>1
    <2>3. told.registered = {} /\ told.staged = {}
      BY <1>1
    <2> QED BY <1>1, <1>4, <2>1, <2>2, <2>3, CertainKept
  <1>6. StoreInv
    BY <1>1, <1>2, <1>5 DEF StoreInv, StoreShapes
  <1>7. job \in Jobs /\ job.at \in {"direct", "off"} /\ job \in {Direct, Off}
    BY <1>1, JobValues
  <1>8. JobShapes
    BY <1>1, <1>7 DEF JobShapes
  <1>9. HandsDistinct /\ QueueIsJournal
    BY <1>7 DEF HandsDistinct, QueueIsJournal
  <1> QED BY <1>6, <1>8, <1>9 DEF IInv

LEMMA Step == IInv /\ [FetchNext]_vars => IInv'
  <1> SUFFICES ASSUME IInv, [FetchNext]_vars PROVE IInv'
    OBVIOUS
  <1>1. CASE UNCHANGED vars
    <2>1. StoreInv'
      BY <1>1, SameStore DEF vars, IInv
    <2> QED BY <1>1, <2>1 DEF vars, IInv, JobShapes, HandsDistinct, QueueIsJournal, InHand
  <1> QED BY <1>1, OpenStoreStep, ConfigureStep, RecoverStep, FetchStep, PostponeStep, FinishStep,
             RestartStep, OtherCallerStep DEF FetchNext, Loop

(* The invariant holds in every behaviour of the store and of the thread that
   fetches into it. *)
THEOREM Invariance == FetchSpec => []IInv
  BY Initially, Step, PTL DEF FetchSpec

(* Whatever failed or stopped, and whatever came back with the power, a listed
   pair has its object unless that was lost from outside, the snapshots keep
   their bounds, and the open store answers from what a restart would read
   (package_store.rs, stage, acknowledge and open_with_fault_injector). *)
THEOREM FilesAreSound == FetchSpec => []FilesSound
  <1>1. IInv => FilesSound
    <2> SUFFICES ASSUME IInv PROVE FilesSound
      OBVIOUS
    <2>1. StoreShapes /\ Kept(disk, unsynced, mem, told)
      BY DEF IInv, StoreInv
    <2>2. /\ SoundFifo(disk.pending)
          /\ Listed(disk.pending) \subseteq (disk.objects \ unsynced.objects) \cup told.lost
      BY <2>1 DEF Kept, FifosKept
    <2>3. SoundJournal(disk.intents)
      BY <2>1 DEF Kept, JournalsKept
    <2>4. disk.objects \cup unsynced.objects \cup told.lost \subseteq {p.root : p \in Pairs}
      BY <2>1 DEF StoreShapes, Files, Doubts, Answers, Roots
    <2>5. TypeOK
      BY <2>2, <2>3, <2>4 DEF TypeOK, SoundFifo, SoundJournal
    <2>6. PendingHasObject
      BY <2>2 DEF PendingHasObject
    <2>7. MemoryIsDisk
      BY <2>1 DEF MemoryIsDisk, Kept, Follows
    <2> QED BY <2>5, <2>6, <2>7 DEF FilesSound
  <1> QED BY <1>1, Invariance, PTL

(* A pair the store confirmed stays until the caller is done with it, and every
   open intent is once in the thread's hands, through restarts and retries
   (package_store.rs, register_fetch_intents and complete_fetch_intent;
   p2p_package_fetch.rs, package_fetch_loop). *)
THEOREM NothingIsLost == FetchSpec => []NothingLost
  <1>1. IInv => NothingLost
    <2> SUFFICES ASSUME IInv PROVE NothingLost
      OBVIOUS
    <2>1. Kept(disk, unsynced, mem, told) /\ QueueIsJournal
      BY DEF IInv, StoreInv
    <2>2. told.staged \subseteq ToSet(disk.pending) \cup told.taken
      BY <2>1 DEF Kept, FifosKept
    <2>3. told.registered \subseteq ToSet(disk.intents) \cup ToSet(disk.pending) \cup told.taken
      BY <2>1 DEF Kept, PromisesKept
    <2> QED BY <2>1, <2>2, <2>3 DEF NothingLost, KeepsPromises
  <1> QED BY <1>1, Invariance, PTL

=============================================================================
