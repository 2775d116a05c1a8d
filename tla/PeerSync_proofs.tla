--------------------------- MODULE PeerSync_proofs ---------------------------
(***************************************************************************)
(* Proofs about the gossip of local nodes, for every set of nodes, every   *)
(* graph of peers, every assignment of work, sizes and hashes to blocks    *)
(* and every budget of a round.                                            *)
(*                                                                         *)
(* Every chain only ever improves: it is extended, and blocks have work,   *)
(* or it loses to a better one.  Better is transitive, so a head that was  *)
(* a peer's once is one the peer holds or has improved on for ever.  The   *)
(* invariant adds that what is on its way (queues, batches and downloads)  *)
(* is made of chains, and that a round pays for what it took.              *)
(***************************************************************************)
EXTENDS PeerSync, SequenceTheorems, WellFoundedInduction, NaturalsInduction, TLAPS

-----------------------------------------------------------------------------
(* The inductive invariant. *)

Rounds ==
    [mode : {"extend", "fork"}, head : Chains, probe : BOOLEAN,
     batch : Seq(Chains), got : Seq(Chains),
     blocks : 0..BlockLimit, bytes : 0..ByteLimit, responses : 0..ResponseLimit]

Shapes ==
    /\ chain \in [Nodes -> Chains]
    /\ round \in [Nodes -> Rounds \cup {Idle}]
    /\ turn \in [Nodes -> Nat] /\ \A n \in Nodes : turn[n] \in DOMAIN PeersOf[n]
    /\ DOMAIN queue = Nodes /\ queue = [n \in Nodes |-> queue[n]]
    /\ \A n \in Nodes : queue[n] \in [Peers(n) -> Seq(Chains)]
    /\ \A n \in Nodes : \A p \in Peers(n) : Len(queue[n][p]) <= QueueCap
    /\ seen = [n \in Nodes |-> seen[n]]
    /\ \A n \in Nodes : seen[n] \in [Peers(n) -> Chains \cup {NoHead}]
    /\ faults \in 0..MaxFaults

(* A chain that was h once. *)
Reached(c, h) == c = h \/ Better(c, h)

(* The head that opened a round was the partner's. *)
HeadsTrue == \A n \in Nodes : round[n] # Idle => Reached(chain[Partner(n)], round[n].head)

SeenTrue ==
    \A n \in Nodes : \A p \in Peers(n) : seen[n][p] = NoHead \/ Reached(chain[p], seen[n][p])

IInv == Shapes /\ HeadsTrue /\ SeenTrue

-----------------------------------------------------------------------------
(* Sums. *)

Sums(n, w, f) == f = [i \in 0..n |-> IF i = 0 THEN 0 ELSE f[i - 1] + w[i]]

(* Every non-empty set of naturals has a least element. *)
LEMMA LeastNatural ==
  ASSUME NEW T \in SUBSET Nat, T # {}
  PROVE  \E n \in T : \A m \in T : n <= m
  <1>1. PICK x \in T : \A y \in T : ~ (<<y, x>> \in OpToRel(<, Nat))
    BY NatLessThanWellFounded, WFMin
  <1>2. \A y \in T : ~(y < x)
    BY <1>1 DEF OpToRel
  <1> QED BY <1>2

(* A sum exists: the least length without one would have a predecessor with
   one, which the next term extends. *)
LEMMA SumsExist ==
  ASSUME NEW w, NEW k \in Nat
  PROVE  \E f : Sums(k, w, f)
  <1> DEFINE E(n) == \E f : Sums(n, w, f)
             T == {n \in Nat : ~E(n)}
  <1>1. E(0)
    <2>1. [h \in 0..0 |-> 0] = [h \in 0..0 |-> IF h = 0 THEN 0 ELSE [j \in 0..0 |-> 0][h - 1] + w[h]]
      OBVIOUS
    <2> QED BY <2>1 DEF Sums
  <1>2. ASSUME NEW n \in Nat, E(n) PROVE E(n + 1)
    <2>1. PICK f : f = [h \in 0..n |-> IF h = 0 THEN 0 ELSE f[h - 1] + w[h]]
      BY <1>2 DEF Sums
    <2> DEFINE g == [h \in 0..(n + 1) |-> IF h = n + 1 THEN f[n] + w[n + 1] ELSE f[h]]
    <2>2. ASSUME NEW h \in 0..(n + 1) PROVE g[h] = IF h = 0 THEN 0 ELSE g[h - 1] + w[h]
      <3>1. CASE h = n + 1
        BY <3>1
      <3>2. CASE h # n + 1
        <4>1. h \in 0..n /\ g[h] = f[h] /\ (h # 0 => g[h - 1] = f[h - 1])
          BY <3>2
        <4> QED BY <2>1, <4>1
      <3> QED BY <3>1, <3>2
    <2>3. g = [h \in 0..(n + 1) |-> IF h = 0 THEN 0 ELSE g[h - 1] + w[h]]
      BY <2>2
    <2> QED BY <2>3 DEF Sums
  <1>3. T = {}
    <2> SUFFICES ASSUME T # {} PROVE FALSE
      OBVIOUS
    <2>1. PICK n \in T : \A m \in T : n <= m
      BY LeastNatural
    <2> HIDE DEF E
    <2>2. n # 0
      BY <1>1, <2>1
    <2>3. n - 1 \in Nat /\ E(n - 1)
      BY <2>1, <2>2
    <2> QED BY <1>2, <2>1, <2>3
  <1> QED BY <1>3

(* Sums of naturals are naturals, and equal terms have equal sums. *)
LEMMA SumsAgree ==
  ASSUME NEW n \in Nat, NEW m \in Nat, n <= m, NEW w, NEW v, NEW f, NEW g,
         \A i \in 1..n : w[i] = v[i] /\ w[i] \in Nat,
         Sums(n, w, f), Sums(m, v, g)
  PROVE  f[n] \in Nat /\ f[n] = g[n] /\ (n < m => g[n + 1] = g[n] + v[n + 1])
  <1>1. f[0] = 0 /\ \A i \in 1..n : f[i] = f[i - 1] + w[i]
    <2>1. \A i \in 0..n : f[i] = IF i = 0 THEN 0 ELSE f[i - 1] + w[i]
      BY DEF Sums
    <2> QED BY <2>1
  <1>2. g[0] = 0 /\ \A i \in 1..m : g[i] = g[i - 1] + v[i]
    <2>1. \A i \in 0..m : g[i] = IF i = 0 THEN 0 ELSE g[i - 1] + v[i]
      BY DEF Sums
    <2> QED BY <2>1
  <1> DEFINE Bad == {i \in 0..n : ~ (f[i] \in Nat /\ f[i] = g[i])}
  <1>3. Bad = {}
    <2> SUFFICES ASSUME Bad # {} PROVE FALSE
      OBVIOUS
    <2>0. Bad \in SUBSET Nat
      OBVIOUS
    <2>1. PICK k \in Bad : \A l \in Bad : k <= l
      <3> HIDE DEF Bad
      <3> QED BY <2>0, LeastNatural
    <2>2. k \in 1..n
      BY <1>1, <1>2, <2>1
    <2>3. k - 1 \in 0..n /\ k - 1 \notin Bad
      BY <2>1, <2>2
    <2>4. f[k - 1] \in Nat /\ f[k - 1] = g[k - 1]
      BY <2>3
    <2>5. f[k] = f[k - 1] + w[k] /\ g[k] = g[k - 1] + v[k] /\ w[k] = v[k] /\ w[k] \in Nat
      BY <1>1, <1>2, <2>2
    <2>6. f[k] \in Nat /\ f[k] = g[k]
      BY <2>4, <2>5
    <2> QED BY <2>1, <2>6
  <1>4. n \in 0..n /\ n \notin Bad
    BY <1>3
  <1>5. n < m => n + 1 \in 1..m /\ n + 1 - 1 = n
    OBVIOUS
  <1> QED BY <1>2, <1>4, <1>5

-----------------------------------------------------------------------------
(* Chains. *)

LEMMA ChainsAre ==
  ASSUME NEW c
  PROVE  c \in Chains <=> c \in Seq(AllLabels) /\ Len(c) <= MaxHeight
  <1>0. MaxHeight \in Nat
    BY SyncAssumption
  <1>1. ASSUME c \in Chains PROVE c \in Seq(AllLabels) /\ Len(c) <= MaxHeight
    <2>1. PICK m \in 0..MaxHeight : c \in [1..m -> AllLabels]
      BY <1>1 DEF Chains, SeqOf
    <2>2. c \in Seq(AllLabels)
      BY <1>0, <2>1, SeqDef
    <2>3. Len(c) = m
      BY <1>0, <2>1, <2>2, LenProperties
    <2> QED BY <1>0, <2>2, <2>3
  <1>2. ASSUME c \in Seq(AllLabels), Len(c) <= MaxHeight PROVE c \in Chains
    <2>1. Len(c) \in 0..MaxHeight /\ c \in [1..Len(c) -> AllLabels]
      BY <1>0, <1>2, LenProperties
    <2> QED BY <2>1 DEF Chains, SeqOf
  <1> QED BY <1>1, <1>2

LEMMA WeightIs ==
  ASSUME NEW c \in Seq(AllLabels)
  PROVE  \E f : Sums(Len(c), [i \in 1..Len(c) |-> Work(c[i])], f) /\ Weight(c) = f[Len(c)]
  <1> DEFINE w == [i \in 1..Len(c) |-> Work(c[i])]
             S(f) == f = [i \in 0..Len(c) |-> IF i = 0 THEN 0 ELSE f[i - 1] + Work(c[i])]
             u == CHOOSE f : S(f)
  <1>0. Len(c) \in Nat
    OBVIOUS
  <1>1. PICK f : Sums(Len(c), w, f)
    BY <1>0, SumsExist
  <1>2. ASSUME NEW i \in 0..Len(c), i # 0 PROVE w[i] = Work(c[i])
    BY <1>0, <1>2
  <1>3. S(f)
    BY <1>0, <1>1, <1>2 DEF Sums
  <1>4. S(u)
    BY <1>3
  <1>5. Sums(Len(c), w, u)
    <2> HIDE DEF u, w
    <2> QED BY <1>0, <1>2, <1>4 DEF Sums
  <1>6. Weight(c) = u[Len(c)]
    BY DEF Weight
  <1> QED BY <1>5, <1>6

(* The weight of a chain is a natural number, and a further block adds its
   work. *)
LEMMA WeightGrows ==
  ASSUME NEW c \in Seq(AllLabels), NEW l \in AllLabels
  PROVE  Weight(c) \in Nat /\ Weight(Append(c, l)) = Weight(c) + Work(l)
  <1> DEFINE d == Append(c, l)
             w == [i \in 1..Len(c) |-> Work(c[i])]
             v == [i \in 1..Len(d) |-> Work(d[i])]
  <1>1. /\ d \in Seq(AllLabels) /\ Len(c) \in Nat /\ Len(d) = Len(c) + 1 /\ d[Len(d)] = l
        /\ \A i \in 1..Len(c) : d[i] = c[i] /\ c[i] \in AllLabels
    OBVIOUS
  <1>2. PICK f : Sums(Len(c), w, f) /\ Weight(c) = f[Len(c)]
    BY WeightIs
  <1>3. PICK g : Sums(Len(d), v, g) /\ Weight(d) = g[Len(d)]
    <2> HIDE DEF d
    <2> QED BY <1>1, WeightIs
  <1>4. \A i \in 1..Len(c) : w[i] = v[i] /\ w[i] \in Nat
    <2> HIDE DEF d
    <2> QED BY <1>1, SyncAssumption
  <1>5. v[Len(c) + 1] = Work(l)
    <2> HIDE DEF d
    <2> QED BY <1>1
  <1> HIDE DEF d, w, v
  <1>6. f[Len(c)] \in Nat /\ f[Len(c)] = g[Len(c)] /\ g[Len(c) + 1] = g[Len(c)] + v[Len(c) + 1]
    BY <1>1, <1>2, <1>3, <1>4, SumsAgree
  <1> QED BY <1>1, <1>2, <1>3, <1>5, <1>6 DEF d

LEMMA WeightIsNat ==
  ASSUME NEW c \in Seq(AllLabels)
  PROVE  Weight(c) \in Nat
  <1> DEFINE w == [i \in 1..Len(c) |-> Work(c[i])]
  <1>1. Len(c) \in Nat /\ \A i \in 1..Len(c) : w[i] \in Nat
    <2>1. \A i \in 1..Len(c) : c[i] \in AllLabels
      OBVIOUS
    <2>2. \A l \in AllLabels : Work(l) \in Nat
      BY SyncAssumption
    <2> QED BY <2>1, <2>2
  <1>2. PICK f : Sums(Len(c), w, f) /\ Weight(c) = f[Len(c)]
    BY WeightIs
  <1> HIDE DEF w
  <1> QED BY <1>1, <1>2, SumsAgree

(* Fork choice is a strict order on chains, and a longer chain wins. *)
LEMMA BetterTransitive ==
  ASSUME NEW b \in Chains, NEW c \in Chains, NEW d \in Chains, Reached(b, c), Reached(c, d)
  PROVE  Reached(b, d)
  <1>1. \A x \in {b, c, d} : Weight(x) \in Nat /\ HashRank(x) \in Nat
    BY ChainsAre, WeightIsNat, SyncAssumption
  <1> QED BY <1>1 DEF Reached, Better

LEMMA ExtensionIsBetter ==
  ASSUME NEW c \in Chains, NEW b \in Chains, Extends(b, c)
  PROVE  Better(b, c)
  <1>1. b \in Seq(AllLabels) /\ b # <<>> /\ c = SubSeq(b, 1, Len(b) - 1)
    BY ChainsAre DEF Extends, Front
  <1>2. c \in Seq(AllLabels)
    BY ChainsAre
  <1>3. Len(b) \in Nat \ {0} /\ b[Len(b)] \in AllLabels
    BY <1>1
  <1>4. b = Append(c, b[Len(b)])
    BY <1>1, <1>3
  <1> DEFINE l == b[Len(b)]
  <1>5. Weight(c) \in Nat /\ Weight(Append(c, l)) = Weight(c) + Work(l)
    <2> HIDE DEF l
    <2>1. l \in AllLabels
      BY <1>3 DEF l
    <2> QED BY <1>2, <2>1, WeightGrows
  <1>6. Work(l) \in Nat \ {0}
    BY <1>3, SyncAssumption
  <1> HIDE DEF l
  <1>7. b = Append(c, l)
    BY <1>4 DEF l
  <1> QED BY <1>5, <1>6, <1>7 DEF Better

LEMMA AppendIsBetter ==
  ASSUME NEW c \in Chains, NEW l \in AllLabels, Len(c) < MaxHeight
  PROVE  Append(c, l) \in Chains /\ Better(Append(c, l), c) /\ Extends(Append(c, l), c)
  <1> DEFINE b == Append(c, l)
  <1>0. MaxHeight \in Nat
    BY SyncAssumption
  <1>1. c \in Seq(AllLabels) /\ Len(c) \in Nat
    BY ChainsAre
  <1>2. b \in Seq(AllLabels) /\ Len(b) = Len(c) + 1 /\ Len(b) <= MaxHeight
    BY <1>0, <1>1
  <1>3. SubSeq(b, 1, Len(c)) = c /\ b # <<>>
    BY <1>1
  <1>4. Extends(b, c)
    BY <1>1, <1>2, <1>3 DEF Extends, Front
  <1>5. b \in Chains
    <2> HIDE DEF b
    <2> QED BY <1>2, ChainsAre
  <1> HIDE DEF b
  <1>6. Better(b, c)
    BY <1>4, <1>5, ExtensionIsBetter
  <1> QED BY <1>4, <1>5, <1>6 DEF b

-----------------------------------------------------------------------------
(* Pages. *)

Links == Chains \ {<<>>}

LEMMA BytesIs ==
  ASSUME NEW b, Len(b) \in Nat
  PROVE  \E f : Sums(Len(b), [i \in 1..Len(b) |-> Size(Last(b[i]))], f) /\ Bytes(b) = f[Len(b)]
  <1> DEFINE w == [i \in 1..Len(b) |-> Size(Last(b[i]))]
             S(f) == f = [i \in 0..Len(b) |-> IF i = 0 THEN 0 ELSE f[i - 1] + Size(Last(b[i]))]
             u == CHOOSE f : S(f)
  <1>1. PICK f : Sums(Len(b), w, f)
    BY SumsExist
  <1>2. ASSUME NEW i \in 0..Len(b), i # 0 PROVE w[i] = Size(Last(b[i]))
    BY <1>2
  <1>3. S(f)
    BY <1>1, <1>2 DEF Sums
  <1>4. S(u)
    BY <1>3
  <1>5. Sums(Len(b), w, u)
    <2> HIDE DEF u, w
    <2> QED BY <1>2, <1>4 DEF Sums
  <1>6. Bytes(b) = u[Len(b)]
    BY DEF Bytes
  <1> QED BY <1>5, <1>6

(* The bytes of a page are a natural number; an empty one has none. *)
LEMMA BytesIsNat ==
  ASSUME NEW b \in Seq(Links)
  PROVE  Bytes(b) \in Nat
  <1> DEFINE w == [i \in 1..Len(b) |-> Size(Last(b[i]))]
  <1>1. ASSUME NEW i \in 1..Len(b) PROVE w[i] \in Nat
    <2>1. b[i] \in Links
      BY <1>1
    <2> DEFINE c == b[i]
    <2> HIDE DEF c
    <2>2. c \in Seq(AllLabels) /\ c # <<>>
      BY <2>1, ChainsAre DEF Links, c
    <2>3. Last(c) \in AllLabels
      BY <2>2 DEF Last
    <2> QED BY <2>3, SyncAssumption DEF c
  <1>2. Len(b) \in Nat
    OBVIOUS
  <1>3. PICK f : Sums(Len(b), w, f) /\ Bytes(b) = f[Len(b)]
    BY <1>2, BytesIs
  <1> HIDE DEF w
  <1> QED BY <1>1, <1>2, <1>3, SumsAgree

LEMMA NoBytes == Bytes(<<>>) = 0
  <1> DEFINE e == <<>>
  <1>1. Len(e) = 0
    OBVIOUS
  <1> HIDE DEF e
  <1>2. Len(e) \in Nat
    BY <1>1
  <1>3. PICK f : Sums(Len(e), [i \in 1..Len(e) |-> Size(Last(e[i]))], f) /\ Bytes(e) = f[Len(e)]
    BY <1>2, BytesIs
  <1>4. f[0] = 0
    BY <1>1, <1>3 DEF Sums
  <1> QED BY <1>1, <1>3, <1>4 DEF e

(* A bounded set of naturals has a greatest element. *)
LEMMA GreatestNatural ==
  ASSUME NEW n \in Nat, NEW T \in SUBSET (0..n), T # {}
  PROVE  Max(T) \in T
  <1> DEFINE U == {k \in Nat : \E t \in T : k = n - t}
  <1>1. U \in SUBSET Nat /\ U # {}
    <2>1. PICK t \in T : TRUE
      OBVIOUS
    <2>2. n - t \in U
      BY <2>1
    <2> QED BY <2>2
  <1>2. PICK k \in U : \A m \in U : k <= m
    <2> HIDE DEF U
    <2> QED BY <1>1, LeastNatural
  <1>3. PICK t \in T : k = n - t
    BY <1>2
  <1>4. \A y \in T : n - y \in U
    OBVIOUS
  <1>5. ASSUME NEW y \in T PROVE t >= y
    <2>1. k <= n - y
      BY <1>2, <1>4, <1>5
    <2> QED BY <1>3, <2>1
  <1> QED BY <1>5 DEF Max

LEMMA LeastIsIn ==
  ASSUME NEW S \in SUBSET Nat, S # {}
  PROVE  Min(S) \in S /\ \A y \in S : Min(S) =< y
  BY LeastNatural DEF Min

(* What a peer answers are blocks of its chain. *)
LEMMA PageIs ==
  ASSUME NEW c \in Chains, NEW from \in Nat, NEW count \in Nat
  PROVE  Page(c, from, count) \in Seq(Links)
  <1>1. CASE from >= Len(c)
    <2>1. Page(c, from, count) = <<>>
      BY <1>1 DEF Page
    <2> QED BY <2>1
  <1>2. CASE ~ (from >= Len(c))
    <2> DEFINE range == BlocksFrom(c, from, count)
               m == Min({count, Len(c) - from})
               fits == {k \in 0..Len(range) : Bytes(SubSeq(range, 1, k)) <= FrameBytes}
    <2>1. c \in Seq(AllLabels) /\ Len(c) <= MaxHeight /\ Len(c) \in Nat /\ MaxHeight \in Nat
      BY ChainsAre, SyncAssumption
    <2>2. m \in Nat /\ m <= Len(c) - from
      <3> DEFINE left == Len(c) - from
      <3>1. left \in Nat
        BY <1>2, <2>1
      <3> HIDE DEF left
      <3> DEFINE S == {count, left}
      <3>2. S = {count, left} /\ S \in SUBSET Nat /\ S # {}
        BY <3>1
      <3>3. m = Min(S)
        BY DEF left
      <3> HIDE DEF S, m
      <3>4. m \in Nat /\ m <= left
        <4>1. Min(S) \in S /\ Min(S) <= left
          BY <3>2, LeastIsIn
        <4> QED BY <3>1, <3>2, <3>3, <4>1
      <3> QED BY <3>4 DEF left
    <2>3. range = [i \in 1..m |-> SubSeq(c, 1, from + i)]
      BY DEF BlocksFrom
    <2> HIDE DEF m, range
    <2>4. ASSUME NEW i \in 1..m PROVE SubSeq(c, 1, from + i) \in Links
      <3>1. from + i \in 1..Len(c)
        BY <2>1, <2>2
      <3> DEFINE d == SubSeq(c, 1, from + i)
      <3>2. d \in Seq(AllLabels) /\ Len(d) = from + i /\ d # <<>>
        BY <2>1, <3>1
      <3> HIDE DEF d
      <3>3. d \in Chains
        BY <2>1, <3>1, <3>2, ChainsAre
      <3> QED BY <3>2, <3>3 DEF d, Links
    <2>5. range \in Seq(Links) /\ Len(range) = m
      BY <2>2, <2>3, <2>4
    <2>6. 0 \in fits
      <3>1. SubSeq(range, 1, 0) = <<>>
        BY <2>5
      <3>2. 0 \in 0..Len(range) /\ 0 <= FrameBytes
        BY <2>2, <2>5, SyncAssumption
      <3>3. Bytes(SubSeq(range, 1, 0)) <= FrameBytes
        BY <3>1, <3>2, NoBytes
      <3> QED BY <3>2, <3>3
    <2>7. Max(fits) \in fits
      <3>1. fits \in SUBSET (0..Len(range)) /\ fits # {} /\ Len(range) \in Nat
        BY <2>2, <2>5, <2>6
      <3> HIDE DEF fits
      <3> QED BY <3>1, GreatestNatural
    <2>8. Page(c, from, count) = SubSeq(range, 1, Max(fits))
      BY <1>2 DEF Page, range
    <2>9. Max(fits) \in 0..Len(range)
      BY <2>7
    <2> HIDE DEF fits
    <2> QED BY <2>5, <2>8, <2>9
  <1> QED BY <1>1, <1>2

-----------------------------------------------------------------------------
(* Steps. *)

(* Every chain is kept or improved. *)
Grows ==
    /\ chain' \in [Nodes -> Chains]
    /\ \A n \in Nodes : Reached(chain'[n], chain[n])

LEMMA PartnerIs ==
  ASSUME Shapes, NEW n \in Nodes
  PROVE  Partner(n) \in Peers(n) /\ Partner(n) \in Nodes /\ Peers(n) \subseteq Nodes
  <1>1. PeersOf[n] \in Seq(Nodes) /\ turn[n] \in DOMAIN PeersOf[n]
    BY SyncAssumption DEF Shapes
  <1> QED BY <1>1 DEF Partner, Peers, ToSet

(* What was true of a peer's head stays true while chains improve. *)
LEMMA TruthStays ==
  ASSUME Shapes, Grows, NEW p \in Nodes, NEW h \in Chains, Reached(chain[p], h)
  PROVE  Reached(chain'[p], h)
  <1>1. chain[p] \in Chains /\ chain'[p] \in Chains /\ Reached(chain'[p], chain[p])
    BY DEF Shapes, Grows
  <1> QED BY <1>1, BetterTransitive

(* Steps that end, enter or continue no round. *)
LEMMA OutsideRounds ==
  ASSUME IInv, Grows, UNCHANGED <<round, turn, seen>>, faults' \in 0..MaxFaults,
         DOMAIN queue' = Nodes, queue' = [n \in Nodes |-> queue'[n]],
         \A n \in Nodes : queue'[n] \in [Peers(n) -> Seq(Chains)],
         \A n \in Nodes : \A p \in Peers(n) : Len(queue'[n][p]) <= QueueCap
  PROVE  IInv'
  <1>1. Shapes'
    BY DEF IInv, Shapes, Grows
  <1>2. HeadsTrue'
    <2> SUFFICES ASSUME NEW n \in Nodes, round[n] # Idle
                 PROVE  Reached(chain'[Partner(n)], round[n].head)
      BY DEF HeadsTrue, Partner
    <2>1. round[n].head \in Chains
      BY DEF IInv, Shapes, Rounds
    <2>2. Reached(chain[Partner(n)], round[n].head)
      BY DEF IInv, HeadsTrue
    <2> QED BY <2>1, <2>2, PartnerIs, TruthStays DEF IInv
  <1>3. SeenTrue'
    <2> SUFFICES ASSUME NEW n \in Nodes, NEW p \in Peers(n), seen[n][p] # NoHead
                 PROVE  Reached(chain'[p], seen[n][p])
      BY DEF SeenTrue
    <2>1. seen[n][p] \in Chains
      BY DEF IInv, Shapes
    <2>2. Reached(chain[p], seen[n][p]) /\ p \in Nodes
      BY PartnerIs DEF IInv, SeenTrue
    <2> QED BY <2>1, <2>2, TruthStays DEF IInv
  <1> QED BY <1>1, <1>2, <1>3 DEF IInv

(* A step of a round of n that goes on. *)
LEMMA InsideRound ==
  ASSUME IInv, Grows, NEW n \in Nodes, NEW r \in Rounds,
         Reached(chain'[Partner(n)], r.head),
         round' = [round EXCEPT ![n] = r], UNCHANGED <<queue, turn>>, faults' \in 0..MaxFaults,
         UNCHANGED seen \/ seen' = [seen EXCEPT ![n][Partner(n)] = NoHead]
  PROVE  IInv'
  <1>0. Partner(n) \in Peers(n) /\ Partner(n) \in Nodes
    BY PartnerIs DEF IInv
  <1>1. \A m \in Nodes : Partner(m)' = Partner(m)
    BY DEF Partner
  <1>2. round'[n] = r /\ \A m \in Nodes \ {n} : round'[m] = round[m]
    BY DEF IInv, Shapes
  <1>3. /\ seen' = [m \in Nodes |-> seen'[m]]
        /\ \A m \in Nodes : seen'[m] \in [Peers(m) -> Chains \cup {NoHead}]
        /\ \A m \in Nodes : \A p \in Peers(m) : seen'[m][p] = NoHead \/ seen'[m][p] = seen[m][p]
    <2>1. CASE UNCHANGED seen
      BY <2>1 DEF IInv, Shapes
    <2>2. CASE seen' = [seen EXCEPT ![n][Partner(n)] = NoHead]
      <3> DEFINE x == NoHead
                 S == Chains \cup {NoHead}
                 q == Partner(n)
      <3>1. x \in S /\ seen' = [seen EXCEPT ![n][q] = x] /\ q \in Peers(n)
        BY <1>0, <2>2
      <3>2. seen = [m \in Nodes |-> seen[m]] /\ \A m \in Nodes : seen[m] \in [Peers(m) -> S]
        BY DEF IInv, Shapes
      <3> HIDE DEF x, S, q
      <3>3. seen'[n] = [seen[n] EXCEPT ![q] = x] /\ \A m \in Nodes \ {n} : seen'[m] = seen[m]
        BY <3>1, <3>2
      <3>4. \A m \in Nodes : seen'[m] \in [Peers(m) -> S]
        BY <3>1, <3>2, <3>3
      <3>5. \A m \in Nodes : \A p \in Peers(m) : seen'[m][p] = x \/ seen'[m][p] = seen[m][p]
        BY <3>1, <3>2, <3>3
      <3>6. seen' = [m \in Nodes |-> seen'[m]]
        BY <3>1, <3>2
      <3> QED BY <3>4, <3>5, <3>6 DEF x, S
    <2> QED BY <2>1, <2>2
  <1>4. Shapes'
    <2>1. round' \in [Nodes -> Rounds \cup {Idle}]
      BY DEF IInv, Shapes
    <2> QED BY <1>3, <2>1 DEF IInv, Shapes, Grows
  <1>5. HeadsTrue'
    <2> SUFFICES ASSUME NEW m \in Nodes, round'[m] # Idle
                 PROVE  Reached(chain'[Partner(m)], round'[m].head)
      BY <1>1 DEF HeadsTrue
    <2>1. CASE m = n
      BY <1>2, <2>1
    <2>2. CASE m # n
      <3>1. round[m] # Idle /\ round'[m] = round[m] /\ round[m].head \in Chains
        BY <1>2, <2>2 DEF IInv, Shapes, Rounds
      <3>2. Reached(chain[Partner(m)], round[m].head)
        BY <3>1 DEF IInv, HeadsTrue
      <3> QED BY <3>1, <3>2, PartnerIs, TruthStays DEF IInv
    <2> QED BY <2>1, <2>2
  <1>6. SeenTrue'
    <2> SUFFICES ASSUME NEW m \in Nodes, NEW p \in Peers(m), seen'[m][p] # NoHead
                 PROVE  Reached(chain'[p], seen'[m][p])
      BY DEF SeenTrue
    <2>1. seen'[m][p] = seen[m][p] /\ seen[m][p] \in Chains
      BY <1>3 DEF IInv, Shapes
    <2>2. Reached(chain[p], seen[m][p]) /\ p \in Nodes
      BY <2>1, PartnerIs DEF IInv, SeenTrue
    <2> QED BY <2>1, <2>2, TruthStays DEF IInv
  <1> QED BY <1>4, <1>5, <1>6 DEF IInv

(* A round of n that ends; it observed that the partner has o. *)
LEMMA RoundOver ==
  ASSUME IInv, Grows, NEW n \in Nodes, NEW clean, NEW h, EndRound(n, clean, h), faults' \in 0..MaxFaults,
         Observed(n, clean, h) = NoHead \/ (h \in Chains /\ Reached(chain'[Partner(n)], h))
  PROVE  IInv'
  <1> DEFINE q == Partner(n)
             S == Chains \cup {NoHead}
             o == Observed(n, clean, h)
  <1>0. q \in Peers(n) /\ q \in Nodes
    BY PartnerIs DEF IInv
  <1>1. o = NoHead \/ (o \in Chains /\ Reached(chain'[q], o))
    BY DEF Observed
  <1>2. seen' = [seen EXCEPT ![n][q] = o] /\ o \in S
    BY <1>1 DEF EndRound
  <1>3. seen = [m \in Nodes |-> seen[m]] /\ \A m \in Nodes : seen[m] \in [Peers(m) -> S]
    BY DEF IInv, Shapes
  <1> HIDE DEF o, S
  <1>4. /\ seen' = [m \in Nodes |-> seen'[m]]
        /\ \A m \in Nodes : seen'[m] \in [Peers(m) -> S]
        /\ seen'[n][q] = o
        /\ \A m \in Nodes : \A p \in Peers(m) : (m # n \/ p # q) => seen'[m][p] = seen[m][p]
    <2> HIDE DEF q
    <2>1. seen'[n] = [seen[n] EXCEPT ![q] = o] /\ \A m \in Nodes \ {n} : seen'[m] = seen[m]
      BY <1>2, <1>3
    <2>2. \A m \in Nodes : seen'[m] \in [Peers(m) -> S]
      BY <1>2, <1>3, <2>1
    <2>3. seen'[n][q] = o
      BY <1>0, <1>3, <2>1
    <2>4. \A m \in Nodes : \A p \in Peers(m) : (m # n \/ p # q) => seen'[m][p] = seen[m][p]
      BY <1>3, <2>1
    <2>5. seen' = [m \in Nodes |-> seen'[m]]
      BY <1>2, <1>3
    <2> QED BY <2>2, <2>3, <2>4, <2>5
  <1>5. turn' \in [Nodes -> Nat] /\ \A m \in Nodes : turn'[m] \in DOMAIN PeersOf[m]
    <2>1. turn \in [Nodes -> Nat] /\ \A m \in Nodes : turn[m] \in DOMAIN PeersOf[m]
      BY DEF IInv, Shapes
    <2> DEFINE L == Len(PeersOf[n])
               t == (turn[n] % L) + 1
    <2>2. turn' = [turn EXCEPT ![n] = t]
      BY DEF EndRound
    <2>3. L \in Nat \ {0} /\ DOMAIN PeersOf[n] = 1..L
      BY SyncAssumption
    <2>4. t \in 1..L
      <3> HIDE DEF L
      <3>1. turn[n] \in Nat
        BY <2>1
      <3>2. turn[n] % L \in 0..(L - 1)
        BY <2>3, <3>1
      <3> QED BY <2>3, <3>2
    <2> HIDE DEF t, L
    <2> QED BY <2>1, <2>2, <2>3, <2>4
  <1>6. round' = [round EXCEPT ![n] = Idle] /\ UNCHANGED queue /\ \A m \in Nodes \ {n} : Partner(m)' = Partner(m)
    BY DEF EndRound, Partner, IInv, Shapes
  <1>7. round'[n] = Idle /\ \A m \in Nodes \ {n} : round'[m] = round[m]
    BY <1>6 DEF IInv, Shapes
  <1>8. Shapes'
    <2>1. round' \in [Nodes -> Rounds \cup {Idle}]
      <3> DEFINE R == Rounds \cup {Idle}
      <3>1. round \in [Nodes -> R] /\ Idle \in R
        BY DEF IInv, Shapes
      <3> HIDE DEF R
      <3>2. round' \in [Nodes -> R]
        BY <1>6, <3>1
      <3> QED BY <3>2 DEF R
    <2> QED BY <1>4, <1>5, <1>6, <2>1 DEF IInv, Shapes, Grows, S
  <1>9. HeadsTrue'
    <2> SUFFICES ASSUME NEW m \in Nodes, round'[m] # Idle
                 PROVE  Reached(chain'[Partner(m)'], round'[m].head)
      BY DEF HeadsTrue
    <2>1. m # n /\ round'[m] = round[m] /\ Partner(m)' = Partner(m)
      BY <1>6, <1>7
    <2>2. round[m].head \in Chains
      BY <2>1 DEF IInv, Shapes, Rounds
    <2>3. Reached(chain[Partner(m)], round[m].head)
      BY <2>1 DEF IInv, HeadsTrue
    <2>4. Reached(chain'[Partner(m)], round[m].head)
      BY <2>2, <2>3, PartnerIs, TruthStays DEF IInv
    <2> QED BY <2>1, <2>4
  <1>10. SeenTrue'
    <2> SUFFICES ASSUME NEW m \in Nodes, NEW p \in Peers(m), seen'[m][p] # NoHead
                 PROVE  Reached(chain'[p], seen'[m][p])
      BY DEF SeenTrue
    <2>1. CASE m = n /\ p = q
      BY <1>1, <1>4, <2>1
    <2>2. CASE ~ (m = n /\ p = q)
      <3>1. seen'[m][p] = seen[m][p]
        BY <1>4, <2>2
      <3>2. seen[m][p] \in Chains
        BY <3>1 DEF IInv, Shapes
      <3>3. Reached(chain[p], seen[m][p]) /\ p \in Nodes
        BY <3>1, PartnerIs DEF IInv, SeenTrue
      <3> QED BY <3>1, <3>2, <3>3, TruthStays DEF IInv
    <2> QED BY <2>1, <2>2
  <1> QED BY <1>8, <1>9, <1>10 DEF IInv

LEMMA Standing ==
  ASSUME IInv, UNCHANGED chain
  PROVE  Grows
  BY DEF IInv, Shapes, Grows, Reached

(* One chain moves to a better one. *)
LEMMA Moving ==
  ASSUME IInv, NEW n \in Nodes, NEW c \in Chains, Reached(c, chain[n]),
         chain' = [chain EXCEPT ![n] = c]
  PROVE  Grows /\ chain'[n] = c /\ \A m \in Nodes \ {n} : chain'[m] = chain[m]
  <1>1. chain \in [Nodes -> Chains]
    BY DEF IInv, Shapes
  <1>2. chain'[n] = c /\ \A m \in Nodes \ {n} : chain'[m] = chain[m]
    BY <1>1
  <1>3. chain' \in [Nodes -> Chains]
    BY <1>1
  <1> QED BY <1>2, <1>3 DEF Grows, Reached

(* A round that gives up observes nothing. *)
LEMMA GivenUp ==
  ASSUME IInv, NEW n \in Nodes, GiveUp(n), faults' \in 0..MaxFaults
  PROVE  IInv'
  <1>1. Grows /\ EndRound(n, FALSE, NoHead)
    BY Standing DEF GiveUp
  <1>2. Observed(n, FALSE, NoHead) = NoHead
    BY DEF Observed
  <1> DEFINE b == FALSE
  <1>3. EndRound(n, b, NoHead) /\ Observed(n, b, NoHead) = NoHead
    BY <1>1, <1>2
  <1> HIDE DEF b
  <1> QED BY <1>1, <1>3, RoundOver

(* A round that ends cleanly observed the head it started from. *)
LEMMA CleanEnd ==
  ASSUME IInv, Grows, NEW n \in Nodes, round[n] \in Rounds, round[n] # Idle,
         EndRound(n, TRUE, round[n].head), faults' \in 0..MaxFaults
  PROVE  IInv'
  <1> DEFINE b == TRUE
             h == round[n].head
  <1>1. h \in Chains /\ EndRound(n, b, h)
    BY DEF Rounds
  <1>2. Reached(chain'[Partner(n)], h)
    <2>1. Reached(chain[Partner(n)], h)
      BY DEF IInv, HeadsTrue
    <2> QED BY <1>1, <2>1, PartnerIs, TruthStays DEF IInv
  <1> HIDE DEF b, h
  <1> QED BY <1>1, <1>2, RoundOver

LEMMA FaultsStay ==
  ASSUME IInv, UNCHANGED faults
  PROVE  faults' \in 0..MaxFaults
  BY DEF IInv, Shapes

(* A round that is under way has its fields. *)
LEMMA UnderWay ==
  ASSUME IInv, NEW n \in Nodes, round[n].mode \in {"extend", "fork"}
  PROVE  round[n] \in Rounds /\ round[n] # Idle
  <1>1. round[n] # Idle
    BY DEF Idle
  <1> QED BY <1>1 DEF IInv, Shapes

-----------------------------------------------------------------------------
(* The steps outside rounds. *)

LEMMA Initially == Init => IInv
  <1> SUFFICES ASSUME Init PROVE IInv
    OBVIOUS
  <1> USE DEF Init
  <1>0. MaxHeight \in Nat /\ QueueCap \in Nat /\ MaxFaults \in Nat
    BY SyncAssumption
  <1>1. <<>> \in Chains
    <2> DEFINE e == <<>>
    <2>1. e \in Seq(AllLabels) /\ Len(e) <= MaxHeight
      BY <1>0
    <2> HIDE DEF e
    <2>2. e \in Chains
      BY <2>1, ChainsAre
    <2> QED BY <2>2 DEF e
  <1>2. \A n \in Nodes : turn[n] \in DOMAIN PeersOf[n]
    <2> SUFFICES ASSUME NEW n \in Nodes PROVE 1 \in DOMAIN PeersOf[n]
      OBVIOUS
    <2>1. PeersOf[n] \in Seq(Nodes) /\ PeersOf[n] # <<>>
      BY SyncAssumption
    <2> QED BY <2>1
  <1>3. \A n \in Nodes : /\ queue[n] \in [Peers(n) -> Seq(Chains)]
                         /\ \A p \in Peers(n) : Len(queue[n][p]) <= QueueCap
    BY <1>0
  <1>4. Shapes
    BY <1>0, <1>1, <1>2, <1>3 DEF Shapes
  <1> QED BY <1>4 DEF IInv, HeadsTrue, SeenTrue

(* A queue holds at most its capacity. *)
LEMMA Shed ==
  ASSUME NEW q \in Seq(Chains), Len(q) <= QueueCap, NEW b \in Chains
  PROVE  TrySend(q, b) \in Seq(Chains) /\ Len(TrySend(q, b)) <= QueueCap
  <1>1. QueueCap \in Nat
    BY SyncAssumption
  <1> QED BY <1>1 DEF TrySend

LEMMA ProduceKeeps ==
  ASSUME IInv, NEW n \in Nodes, NEW label \in Labels[n], Produce(n, label)
  PROVE  IInv' /\ Grows /\ \A m \in Nodes : chain'[m] # chain[m] => Extends(chain'[m], chain[m])
  <1> DEFINE b == Append(chain[n], label)
  <1>1. label \in AllLabels /\ chain[n] \in Chains
    BY DEF AllLabels, IInv, Shapes
  <1>2. b \in Chains /\ Better(b, chain[n]) /\ Extends(b, chain[n])
    BY <1>1, AppendIsBetter DEF Produce
  <1>3. /\ chain' = [chain EXCEPT ![n] = b]
        /\ queue' = [queue EXCEPT ![n] = [p \in Peers(n) |-> TrySend(queue[n][p], b)]]
        /\ UNCHANGED <<round, turn, seen, faults>>
    BY DEF Produce
  <1> HIDE DEF b
  <1>4. Grows /\ chain'[n] = b /\ \A m \in Nodes \ {n} : chain'[m] = chain[m]
    <2>1. Reached(b, chain[n])
      BY <1>2 DEF Reached
    <2> QED BY <1>2, <1>3, <2>1, Moving
  <1> DEFINE f == [p \in Peers(n) |-> TrySend(queue[n][p], b)]
  <1>5. f \in [Peers(n) -> Seq(Chains)] /\ \A p \in Peers(n) : Len(f[p]) <= QueueCap
    <2>1. \A p \in Peers(n) : queue[n][p] \in Seq(Chains) /\ Len(queue[n][p]) <= QueueCap
      BY DEF IInv, Shapes
    <2> QED BY <1>2, <2>1, Shed
  <1>6. queue' = [queue EXCEPT ![n] = f]
    BY <1>3
  <1> HIDE DEF f
  <1>7. /\ DOMAIN queue' = Nodes /\ queue' = [m \in Nodes |-> queue'[m]]
        /\ queue'[n] = f /\ \A m \in Nodes \ {n} : queue'[m] = queue[m]
    BY <1>6 DEF IInv, Shapes
  <1>8. \A m \in Nodes : /\ queue'[m] \in [Peers(m) -> Seq(Chains)]
                         /\ \A p \in Peers(m) : Len(queue'[m][p]) <= QueueCap
    BY <1>5, <1>7 DEF IInv, Shapes
  <1>9. IInv'
    BY <1>3, <1>4, <1>7, <1>8, FaultsStay, OutsideRounds
  <1> QED BY <1>2, <1>4, <1>9

(* Taking an announcement from its queue. *)
LEMMA Taken ==
  ASSUME IInv, NEW n \in Nodes, NEW p \in Peers(n), queue[n][p] # <<>>,
         queue' = [queue EXCEPT ![n][p] = Tail(queue[n][p])]
  PROVE  /\ DOMAIN queue' = Nodes /\ queue' = [m \in Nodes |-> queue'[m]]
         /\ \A m \in Nodes : queue'[m] \in [Peers(m) -> Seq(Chains)]
         /\ \A m \in Nodes : \A k \in Peers(m) : Len(queue'[m][k]) <= QueueCap
  <1> DEFINE t == Tail(queue[n][p])
  <1>0. QueueCap \in Nat
    BY SyncAssumption
  <1>1. t \in Seq(Chains) /\ Len(t) <= QueueCap
    <2>1. queue[n][p] \in Seq(Chains) /\ Len(queue[n][p]) <= QueueCap
      BY DEF IInv, Shapes
    <2> QED BY <1>0, <2>1
  <1>2. queue' = [queue EXCEPT ![n][p] = t]
    OBVIOUS
  <1> HIDE DEF t
  <1>3. DOMAIN queue = Nodes /\ queue = [m \in Nodes |-> queue[m]] /\ \A m \in Nodes : queue[m] \in [Peers(m) -> Seq(Chains)]
    BY DEF IInv, Shapes
  <1>4. queue'[n] = [queue[n] EXCEPT ![p] = t] /\ \A m \in Nodes \ {n} : queue'[m] = queue[m]
    BY <1>2, <1>3
  <1>5. DOMAIN queue' = Nodes /\ queue' = [m \in Nodes |-> queue'[m]]
    BY <1>2, <1>3
  <1>6. \A m \in Nodes : queue'[m] \in [Peers(m) -> Seq(Chains)]
    BY <1>1, <1>3, <1>4
  <1>7. \A k \in Peers(n) : queue'[n][k] = IF k = p THEN t ELSE queue[n][k]
    BY <1>3, <1>4
  <1>8. \A m \in Nodes : \A k \in Peers(m) : Len(queue'[m][k]) <= QueueCap
    BY <1>1, <1>4, <1>7 DEF IInv, Shapes
  <1> QED BY <1>5, <1>6, <1>8

LEMMA AnnounceKeeps ==
  ASSUME IInv, NEW n \in Nodes, NEW p \in Peers(n), Announce(n, p)
  PROVE  IInv' /\ Grows /\ \A m \in Nodes : chain'[m] # chain[m] => Extends(chain'[m], chain[m])
  <1> DEFINE b == Head(queue[n][p])
             c == IF Extends(b, chain[p]) THEN b ELSE chain[p]
  <1>0. p \in Nodes /\ chain[p] \in Chains
    BY PartnerIs DEF IInv, Shapes
  <1>1. b \in Chains
    <2>1. queue[n][p] \in Seq(Chains) /\ queue[n][p] # <<>>
      BY DEF IInv, Shapes, Announce
    <2> QED BY <2>1
  <1>2. /\ queue[n][p] # <<>> /\ chain' = [chain EXCEPT ![p] = c]
        /\ queue' = [queue EXCEPT ![n][p] = Tail(queue[n][p])] /\ UNCHANGED <<round, turn, seen, faults>>
    BY DEF Announce
  <1> HIDE DEF b
  <1>3. c \in Chains /\ Reached(c, chain[p]) /\ (c # chain[p] => Extends(c, chain[p]))
    BY <1>0, <1>1, ExtensionIsBetter DEF Reached
  <1> HIDE DEF c
  <1>4. Grows /\ chain'[p] = c /\ \A m \in Nodes \ {p} : chain'[m] = chain[m]
    BY <1>0, <1>2, <1>3, Moving
  <1>5. IInv'
    BY <1>2, <1>4, Taken, FaultsStay, OutsideRounds
  <1> QED BY <1>3, <1>4, <1>5

LEMMA LoseKeeps ==
  ASSUME IInv, NEW n \in Nodes, NEW p \in Peers(n), LoseAnnounce(n, p)
  PROVE  IInv'
  <1>1. /\ queue[n][p] # <<>> /\ UNCHANGED chain
        /\ queue' = [queue EXCEPT ![n][p] = Tail(queue[n][p])] /\ UNCHANGED <<round, turn, seen, faults>>
    BY DEF LoseAnnounce
  <1> QED BY <1>1, Standing, Taken, FaultsStay, OutsideRounds

-----------------------------------------------------------------------------
(* The steps of a round. *)

LEMMA DialKeeps ==
  ASSUME IInv, NEW n \in Nodes, Dial(n)
  PROVE  IInv'
  <1> DEFINE h == chain[Partner(n)]
             r == [mode |-> "extend", head |-> h, probe |-> TRUE, batch |-> <<>>, got |-> <<>>,
                   blocks |-> 0, bytes |-> HelloBytes, responses |-> 1]
  <1>1. h \in Chains
    BY PartnerIs DEF IInv, Shapes
  <1>2. r \in Rounds
    <2>1. /\ 0 \in 0..BlockLimit /\ HelloBytes \in 0..ByteLimit /\ 1 \in 0..ResponseLimit
      BY SyncAssumption
    <2> HIDE DEF h
    <2> QED BY <1>1, <2>1 DEF Rounds
  <1>3. /\ round' = [round EXCEPT ![n] = r] /\ UNCHANGED <<chain, queue, turn, faults>>
        /\ seen' = [seen EXCEPT ![n][Partner(n)] = IF h = chain[n] THEN @ ELSE NoHead]
    BY DEF Dial
  <1>4. UNCHANGED seen \/ seen' = [seen EXCEPT ![n][Partner(n)] = NoHead]
    <2>1. CASE h # chain[n]
      BY <1>3, <2>1
    <2>2. CASE h = chain[n]
      <3> DEFINE q == Partner(n)
      <3>1. seen' = [seen EXCEPT ![n][q] = seen[n][q]]
        BY <1>3, <2>2
      <3>2. q \in Peers(n)
        BY PartnerIs DEF IInv
      <3> HIDE DEF q
      <3>3. seen = [m \in Nodes |-> seen[m]] /\ seen[n] \in [Peers(n) -> Chains \cup {NoHead}]
        BY DEF IInv, Shapes
      <3>4. [seen[n] EXCEPT ![q] = seen[n][q]] = seen[n]
        BY <3>2, <3>3
      <3>5. seen' = [seen EXCEPT ![n] = seen[n]]
        BY <3>1, <3>4
      <3>6. seen' = seen
        BY <3>3, <3>5
      <3> QED BY <3>6
    <2> QED BY <2>1, <2>2
  <1>5. r.head = h /\ Reached(chain'[Partner(n)], h)
    BY <1>3 DEF Reached
  <1> HIDE DEF r, h
  <1> QED BY <1>2, <1>3, <1>4, <1>5, Standing, FaultsStay, InsideRound

LEMMA FailKeeps ==
  ASSUME IInv, NEW n \in Nodes, RoundFails(n)
  PROVE  IInv'
  <1>1. GiveUp(n)
    BY DEF RoundFails, GiveUp
  <1>2. faults' \in 0..MaxFaults
    <2>1. MaxFaults \in Nat
      BY SyncAssumption
    <2> QED BY <2>1 DEF RoundFails, IInv, Shapes
  <1> QED BY <1>1, <1>2, GivenUp

LEMMA InSyncKeeps ==
  ASSUME IInv, NEW n \in Nodes, InSync(n)
  PROVE  IInv'
  <1>1. round[n] \in Rounds /\ round[n] # Idle
    BY UnderWay DEF InSync, Extending
  <1> QED BY <1>1, Standing, FaultsStay, CleanEnd DEF InSync

(* A round that goes on with the same head and the same chains. *)
LEMMA LeaveKeeps ==
  ASSUME IInv, NEW n \in Nodes, round[n] # Idle, NEW r \in Rounds, r.head = round[n].head,
         Leave(n, r), UNCHANGED faults
  PROVE  IInv'
  <1>1. round' = [round EXCEPT ![n] = r] /\ UNCHANGED <<chain, queue, turn, seen>>
    BY DEF Leave
  <1>2. Reached(chain'[Partner(n)], r.head)
    BY <1>1 DEF IInv, HeadsTrue
  <1> QED BY <1>1, <1>2, Standing, FaultsStay, InsideRound

(* The fields of a round. *)
RoundOf(m, h, p, b, g, x, y, z) ==
    [mode |-> m, head |-> h, probe |-> p, batch |-> b, got |-> g, blocks |-> x, bytes |-> y, responses |-> z]

(* How one round becomes another with the same head. *)
Turns(r, s, m, b) == s = [r EXCEPT !.mode = m, !.batch = b]
Drops(r, s, b) == s = [r EXCEPT !.batch = b]
Holds(r, s, b, p) == s = [r EXCEPT !.batch = b, !.probe = p]
Takes(r, s, page, b, p) == Holds(Charged(r, page), s, b, p)
Keeps(r, s, g) == s = [r EXCEPT !.got = g]
Gets(r, s, page, g) == Keeps(Charged(r, page), s, g)

Continues(r, s) == s \in Rounds /\ s.head = r.head

LEMMA RoundFields ==
  ASSUME NEW r \in Rounds
  PROVE  \E m \in {"extend", "fork"}, h \in Chains, p \in BOOLEAN, b \in Seq(Chains), g \in Seq(Chains),
            x \in 0..BlockLimit, y \in 0..ByteLimit, z \in 0..ResponseLimit : r = RoundOf(m, h, p, b, g, x, y, z)
  BY DEF Rounds, RoundOf

LEMMA RoundIs ==
  ASSUME NEW m \in {"extend", "fork"}, NEW h \in Chains, NEW p \in BOOLEAN, NEW b \in Seq(Chains), NEW g \in Seq(Chains),
         NEW x \in 0..BlockLimit, NEW y \in 0..ByteLimit, NEW z \in 0..ResponseLimit
  PROVE  RoundOf(m, h, p, b, g, x, y, z) \in Rounds /\ RoundOf(m, h, p, b, g, x, y, z).head = h
  BY DEF Rounds, RoundOf

LEMMA RoundTurns ==
  ASSUME NEW r \in Rounds, NEW s, NEW m \in {"extend", "fork"}, NEW b \in Seq(Chains), Turns(r, s, m, b)
  PROVE  Continues(r, s)
  <1>1. PICK f1 \in {"extend", "fork"}, f2 \in Chains, f3 \in BOOLEAN, f4 \in Seq(Chains), f5 \in Seq(Chains),
             f6 \in 0..BlockLimit, f7 \in 0..ByteLimit, f8 \in 0..ResponseLimit : r = RoundOf(f1, f2, f3, f4, f5, f6, f7, f8)
    BY RoundFields
  <1>2. s = RoundOf(m, f2, f3, b, f5, f6, f7, f8) /\ r.head = f2
    BY <1>1 DEF Turns, RoundOf
  <1> QED BY <1>2, RoundIs DEF Continues

LEMMA RoundDrops ==
  ASSUME NEW r \in Rounds, NEW s, NEW b \in Seq(Chains), Drops(r, s, b)
  PROVE  Continues(r, s)
  <1>1. PICK f1 \in {"extend", "fork"}, f2 \in Chains, f3 \in BOOLEAN, f4 \in Seq(Chains), f5 \in Seq(Chains),
             f6 \in 0..BlockLimit, f7 \in 0..ByteLimit, f8 \in 0..ResponseLimit : r = RoundOf(f1, f2, f3, f4, f5, f6, f7, f8)
    BY RoundFields
  <1>2. s = RoundOf(f1, f2, f3, b, f5, f6, f7, f8) /\ r.head = f2
    BY <1>1 DEF Drops, RoundOf
  <1> QED BY <1>2, RoundIs DEF Continues

LEMMA CompeteKeeps ==
  ASSUME IInv, NEW n \in Nodes, round[n] \in Rounds, round[n] # Idle, Compete(n), UNCHANGED faults
  PROVE  IInv'
  <1>1. CASE Len(round[n].head) > RemainingBlocks(round[n])
    BY <1>1, FaultsStay, GivenUp DEF Compete
  <1>2. CASE ~ (Len(round[n].head) > RemainingBlocks(round[n]))
    <2> DEFINE m == "fork"
               b == <<>>
               s == round[n]
               r == [s EXCEPT !.mode = m, !.batch = b]
    <2>1. Leave(n, r)
      BY <1>2 DEF Compete
    <2>2. m \in {"extend", "fork"} /\ b \in Seq(Chains) /\ s \in Rounds /\ Turns(s, r, m, b)
      BY DEF Turns
    <2> HIDE DEF m, b, s, r
    <2>3. Continues(s, r)
      BY <2>2, RoundTurns
    <2>4. r \in Rounds /\ r.head = round[n].head
      BY <2>3 DEF s, Continues
    <2> QED BY <2>1, <2>4, LeaveKeeps
  <1> QED BY <1>1, <1>2

LEMMA NotHigherKeeps ==
  ASSUME IInv, NEW n \in Nodes, NotHigher(n)
  PROVE  IInv'
  <1>1. round[n] \in Rounds /\ round[n] # Idle
    BY UnderWay DEF NotHigher, Extending
  <1> QED BY <1>1, CompeteKeeps DEF NotHigher

(* What a round pays for a page that it can afford. *)
LEMMA Paid ==
  ASSUME NEW r \in Rounds, NEW page \in Seq(Links), Affordable(Charged(r, page))
  PROVE  \E m \in {"extend", "fork"}, h \in Chains, p \in BOOLEAN, b \in Seq(Chains), g \in Seq(Chains),
            x \in 0..BlockLimit, y \in 0..ByteLimit, z \in 0..ResponseLimit :
              Charged(r, page) = RoundOf(m, h, p, b, g, x, y, z) /\ r.head = h /\ r.got = g
  <1>1. PICK f1 \in {"extend", "fork"}, f2 \in Chains, f3 \in BOOLEAN, f4 \in Seq(Chains), f5 \in Seq(Chains),
             f6 \in 0..BlockLimit, f7 \in 0..ByteLimit, f8 \in 0..ResponseLimit : r = RoundOf(f1, f2, f3, f4, f5, f6, f7, f8)
    BY RoundFields
  <1> DEFINE n == Len(page)
             k == Bytes(page)
             x == f6 + n
             y == f7 + 1 + k
             z == f8 + 1
  <1>2. k \in Nat /\ n \in Nat
    BY BytesIsNat
  <1>3. Charged(r, page) = [r EXCEPT !.blocks = @ + n, !.bytes = @ + 1 + k, !.responses = @ + 1]
    BY DEF Charged
  <1> HIDE DEF n, k
  <1>4. r.blocks = f6 /\ r.bytes = f7 /\ r.responses = f8 /\ r.head = f2 /\ r.got = f5
    BY <1>1 DEF RoundOf
  <1>5. Charged(r, page) = [r EXCEPT !.blocks = x, !.bytes = y, !.responses = z]
    BY <1>3, <1>4
  <1>6. x \in Nat /\ y \in Nat /\ z \in Nat
    <2>1. f6 \in Nat /\ f7 \in Nat /\ f8 \in Nat
      BY SyncAssumption
    <2> QED BY <1>2, <2>1
  <1> HIDE DEF x, y, z
  <1>7. Charged(r, page) = RoundOf(f1, f2, f3, f4, f5, x, y, z)
    BY <1>1, <1>5 DEF RoundOf
  <1>8. x <= BlockLimit /\ y <= ByteLimit /\ z <= ResponseLimit
    BY <1>7 DEF Affordable, RoundOf
  <1>9. x \in 0..BlockLimit /\ y \in 0..ByteLimit /\ z \in 0..ResponseLimit
    BY <1>6, <1>8, SyncAssumption
  <1> QED BY <1>4, <1>7, <1>9

LEMMA FieldsTaken ==
  ASSUME NEW f1, NEW f2, NEW f3, NEW f4, NEW f5, NEW f6, NEW f7, NEW f8, NEW b, NEW p, NEW s,
         Holds(RoundOf(f1, f2, f3, f4, f5, f6, f7, f8), s, b, p)
  PROVE  s = RoundOf(f1, f2, p, b, f5, f6, f7, f8)
  <1> DEFINE c == RoundOf(f1, f2, f3, f4, f5, f6, f7, f8)
             d == [c EXCEPT !.batch = b]
             e == [d EXCEPT !.probe = p]
  <1>1. d = RoundOf(f1, f2, f3, b, f5, f6, f7, f8)
    BY DEF RoundOf
  <1>2. s = e
    BY DEF Holds
  <1> HIDE DEF d
  <1>3. e = RoundOf(f1, f2, p, b, f5, f6, f7, f8)
    BY <1>1 DEF RoundOf
  <1> QED BY <1>2, <1>3

LEMMA RoundTakes ==
  ASSUME NEW r \in Rounds, NEW s, NEW page \in Seq(Links), Affordable(Charged(r, page)),
         NEW b \in Seq(Chains), NEW p \in BOOLEAN, Takes(r, s, page, b, p)
  PROVE  Continues(r, s)
  <1>1. PICK f1 \in {"extend", "fork"}, f2 \in Chains, f3 \in BOOLEAN, f4 \in Seq(Chains), f5 \in Seq(Chains),
             f6 \in 0..BlockLimit, f7 \in 0..ByteLimit, f8 \in 0..ResponseLimit :
               Charged(r, page) = RoundOf(f1, f2, f3, f4, f5, f6, f7, f8) /\ r.head = f2
    BY Paid
  <1>2. s = RoundOf(f1, f2, p, b, f5, f6, f7, f8)
    <2>1. Holds(RoundOf(f1, f2, f3, f4, f5, f6, f7, f8), s, b, p)
      BY <1>1 DEF Takes
    <2> QED BY <2>1, FieldsTaken
  <1> QED BY <1>1, <1>2, RoundIs DEF Continues

LEMMA FieldsKept ==
  ASSUME NEW f1, NEW f2, NEW f3, NEW f4, NEW f5, NEW f6, NEW f7, NEW f8, NEW g, NEW s,
         Keeps(RoundOf(f1, f2, f3, f4, f5, f6, f7, f8), s, g)
  PROVE  s = RoundOf(f1, f2, f3, f4, g, f6, f7, f8)
  BY DEF Keeps, RoundOf

LEMMA RoundGets ==
  ASSUME NEW r \in Rounds, NEW s, NEW page \in Seq(Links), Affordable(Charged(r, page)),
         NEW g \in Seq(Chains), Gets(r, s, page, g)
  PROVE  Continues(r, s)
  <1>1. PICK f1 \in {"extend", "fork"}, f2 \in Chains, f3 \in BOOLEAN, f4 \in Seq(Chains), f5 \in Seq(Chains),
             f6 \in 0..BlockLimit, f7 \in 0..ByteLimit, f8 \in 0..ResponseLimit :
               Charged(r, page) = RoundOf(f1, f2, f3, f4, f5, f6, f7, f8) /\ r.head = f2
    BY Paid
  <1>2. s = RoundOf(f1, f2, f3, f4, g, f6, f7, f8)
    <2>1. Keeps(RoundOf(f1, f2, f3, f4, f5, f6, f7, f8), s, g)
      BY <1>1 DEF Gets
    <2> QED BY <2>1, FieldsKept
  <1> QED BY <1>1, <1>2, RoundIs DEF Continues

(* The answer to a request. *)
LEMMA ReplyIs ==
  ASSUME IInv, NEW n \in Nodes, NEW from \in Nat, NEW count \in Nat
  PROVE  Reply(n, from, count) \in Seq(Links) /\ Reply(n, from, count) \in Seq(Chains)
  <1> DEFINE c == chain[Partner(n)]
  <1>1. c \in Chains
    BY PartnerIs DEF IInv, Shapes
  <1>2. Reply(n, from, count) = Page(c, from, count)
    BY DEF Reply
  <1> HIDE DEF c
  <1>3. Reply(n, from, count) \in Seq(Links)
    BY <1>1, <1>2, PageIs
  <1> QED BY <1>3 DEF Links

LEMMA RoundNumbers ==
  ASSUME NEW r \in Rounds
  PROVE  /\ RemainingBlocks(r) \in Nat /\ PageBlocks \in Nat
         /\ r.head \in Chains /\ Len(r.head) \in Nat /\ r.got \in Seq(Chains) /\ Len(r.got) \in Nat
         /\ r.batch \in Seq(Chains) /\ r.probe \in BOOLEAN
  <1>1. r.blocks \in 0..BlockLimit /\ r.head \in Chains /\ r.got \in Seq(Chains) /\ r.batch \in Seq(Chains) /\ r.probe \in BOOLEAN
    BY DEF Rounds
  <1>2. Len(r.head) \in Nat /\ Len(r.got) \in Nat
    BY <1>1, ChainsAre
  <1> QED BY <1>1, <1>2, SyncAssumption DEF RemainingBlocks

LEMMA PullKeeps ==
  ASSUME IInv, NEW n \in Nodes, Pull(n)
  PROVE  IInv'
  <1> DEFINE r == round[n]
             S == {Len(r.head) - Len(chain[n]), PageBlocks, RemainingBlocks(r)} \cup (IF r.probe THEN {1} ELSE {})
             count == Min(S)
             page == Reply(n, Len(chain[n]), count)
  <1>1. r \in Rounds /\ r # Idle
    BY UnderWay DEF Pull, Extending
  <1>2. Len(chain[n]) \in Nat /\ Len(chain[n]) < Len(r.head) /\ UNCHANGED faults
    BY ChainsAre DEF IInv, Shapes, Pull
  <1>3. (CASE ~ CanPay(n, page) -> GiveUp(n)
          [] CanPay(n, page) /\ page = <<>> -> UNCHANGED chain /\ EndRound(n, TRUE, r.head)
          [] OTHER -> Leave(n, [Charged(r, page) EXCEPT !.batch = page, !.probe = FALSE]))
    BY DEF Pull
  <1>4. S \in SUBSET Nat /\ S # {}
    <2> DEFINE a == Len(r.head) - Len(chain[n])
               l == RemainingBlocks(r)
               o == IF r.probe THEN {1} ELSE {}
    <2>1. Len(r.head) \in Nat /\ l \in Nat /\ PageBlocks \in Nat
      <3> HIDE DEF r
      <3> QED BY <1>1, RoundNumbers
    <2>2. a \in Nat
      BY <1>2, <2>1
    <2>3. o \in SUBSET Nat
      OBVIOUS
    <2>4. S = {a, PageBlocks, l} \cup o
      OBVIOUS
    <2> HIDE DEF a, l, o, S
    <2> QED BY <2>1, <2>2, <2>3, <2>4
  <1> HIDE DEF S
  <1>5. count \in Nat
    BY <1>4, LeastIsIn
  <1> HIDE DEF count
  <1>6. page \in Seq(Links) /\ page \in Seq(Chains)
    BY <1>2, <1>5, ReplyIs
  <1> HIDE DEF page
  <1>7. CASE ~ CanPay(n, page)
    BY <1>2, <1>3, <1>7, FaultsStay, GivenUp
  <1>8. CASE CanPay(n, page) /\ page = <<>>
    <2>1. UNCHANGED chain /\ EndRound(n, TRUE, r.head)
      BY <1>3, <1>8
    <2> QED BY <1>1, <1>2, <2>1, Standing, FaultsStay, CleanEnd
  <1>9. CASE CanPay(n, page) /\ page # <<>>
    <2> DEFINE b == FALSE
               s == [Charged(r, page) EXCEPT !.batch = page, !.probe = b]
    <2>1. Leave(n, s)
      BY <1>3, <1>9
    <2>2. b \in BOOLEAN
      OBVIOUS
    <2>3. Affordable(Charged(r, page))
      BY <1>9 DEF CanPay
    <2>4. Takes(r, s, page, page, b)
      BY DEF Takes, Holds
    <2> HIDE DEF b, r, s
    <2>5. Continues(r, s)
      BY <1>1, <1>6, <2>2, <2>3, <2>4, RoundTakes
    <2>6. round[n] # Idle /\ s \in Rounds /\ s.head = round[n].head
      BY <1>1, <2>5 DEF r, Continues
    <2> QED BY <1>2, <2>1, <2>6, LeaveKeeps
  <1> QED BY <1>7, <1>8, <1>9

LEMMA PullForkKeeps ==
  ASSUME IInv, NEW n \in Nodes, PullFork(n)
  PROVE  IInv'
  <1> DEFINE r == round[n]
             S == {Len(r.head) - Len(r.got), PageBlocks, RemainingBlocks(r)}
             count == Min(S)
             page == Reply(n, Len(r.got), count)
  <1>1. r \in Rounds /\ r # Idle
    BY UnderWay DEF PullFork
  <1>2. Len(r.got) < Len(r.head) /\ UNCHANGED faults
    BY DEF PullFork
  <1>3. (CASE ~ CanPay(n, page) -> GiveUp(n)
          [] CanPay(n, page) /\ page = <<>> -> UNCHANGED chain /\ EndRound(n, r.got = <<>>, r.head)
          [] OTHER -> Leave(n, [Charged(r, page) EXCEPT !.got = @ \o page]))
    BY DEF PullFork
  <1>4. S \in SUBSET Nat /\ S # {} /\ r.got \in Seq(Chains) /\ Len(r.got) \in Nat
    <2> HIDE DEF r
    <2> QED BY <1>1, <1>2, RoundNumbers
  <1> HIDE DEF S
  <1>5. count \in Nat
    BY <1>4, LeastIsIn
  <1> HIDE DEF count
  <1>6. page \in Seq(Links) /\ page \in Seq(Chains)
    <2> DEFINE from == Len(r.got)
    <2>1. from \in Nat
      BY <1>4
    <2> HIDE DEF from, r
    <2>2. Reply(n, from, count) \in Seq(Links) /\ Reply(n, from, count) \in Seq(Chains)
      BY <1>5, <2>1, ReplyIs
    <2> QED BY <2>2 DEF from
  <1> HIDE DEF page
  <1>7. CASE ~ CanPay(n, page)
    BY <1>2, <1>3, <1>7, FaultsStay, GivenUp
  <1>8. CASE CanPay(n, page) /\ page = <<>>
    <2>1. UNCHANGED chain /\ EndRound(n, r.got = <<>>, r.head)
      BY <1>3, <1>8
    <2> DEFINE b == r.got = <<>>
               h == r.head
    <2>2. EndRound(n, b, h) /\ h \in Chains
      BY <1>1, <2>1 DEF Rounds
    <2>3. Reached(chain'[Partner(n)], h)
      BY <1>1, <2>1 DEF IInv, HeadsTrue
    <2> HIDE DEF b, h
    <2> QED BY <1>2, <2>1, <2>2, <2>3, Standing, FaultsStay, RoundOver
  <1>9. CASE CanPay(n, page) /\ page # <<>>
    <2> DEFINE g == r.got \o page
               s == [Charged(r, page) EXCEPT !.got = g]
    <2>0. Charged(r, page).got = r.got
      BY <1>1, <1>6, <1>9, Paid DEF RoundOf, CanPay
    <2>1. Leave(n, s)
      BY <1>3, <1>9, <2>0
    <2>2. g \in Seq(Chains)
      BY <1>4, <1>6
    <2>3. Affordable(Charged(r, page))
      BY <1>9 DEF CanPay
    <2>4. Gets(r, s, page, g)
      BY DEF Gets, Keeps
    <2> HIDE DEF g, r, s
    <2>5. Continues(r, s)
      BY <1>1, <1>6, <2>2, <2>3, <2>4, RoundGets
    <2>6. round[n] # Idle /\ s \in Rounds /\ s.head = round[n].head
      BY <1>1, <2>5 DEF r, Continues
    <2> QED BY <1>2, <2>1, <2>6, LeaveKeeps
  <1> QED BY <1>7, <1>8, <1>9

(* A block of a batch is taken when it extends the node's own chain. *)
LEMMA IngestKeeps ==
  ASSUME IInv, NEW n \in Nodes, Ingest(n)
  PROVE  IInv' /\ Grows /\ \A m \in Nodes : chain'[m] # chain[m] => Extends(chain'[m], chain[m])
  <1> DEFINE r == round[n]
             b == Head(r.batch)
             t == Tail(r.batch)
  <1>1. r \in Rounds /\ r # Idle
    BY UnderWay DEF Ingest
  <1>2. b \in Chains /\ t \in Seq(Chains) /\ chain[n] \in Chains
    <2>1. r.batch \in Seq(Chains) /\ r.batch # <<>>
      BY <1>1 DEF Rounds, Ingest
    <2> QED BY <2>1 DEF IInv, Shapes
  <1>3. CASE Extends(b, chain[n])
    <2>1. /\ chain' = [chain EXCEPT ![n] = b] /\ round' = [round EXCEPT ![n].batch = t]
          /\ UNCHANGED <<queue, turn, seen, faults>>
      BY <1>3 DEF Ingest
    <2> HIDE DEF b, t
    <2>2. Reached(b, chain[n])
      BY <1>2, <1>3, ExtensionIsBetter DEF Reached
    <2>3. Grows /\ chain'[n] = b /\ \A m \in Nodes \ {n} : chain'[m] = chain[m]
      BY <1>2, <2>1, <2>2, Moving
    <2> DEFINE s == [r EXCEPT !.batch = t]
    <2>4. round' = [round EXCEPT ![n] = s]
      BY <2>1
    <2>5. s \in Rounds /\ s.head = r.head
      <3>1. Drops(r, s, t)
        BY DEF Drops
      <3> HIDE DEF r, s
      <3>2. Continues(r, s)
        BY <1>1, <1>2, <3>1, RoundDrops
      <3> QED BY <3>2 DEF Continues
    <2>6. Reached(chain'[Partner(n)], r.head)
      <3>1. Reached(chain[Partner(n)], r.head) /\ r.head \in Chains
        BY <1>1 DEF IInv, HeadsTrue, Rounds
      <3> QED BY <2>3, <3>1, PartnerIs, TruthStays DEF IInv
    <2> HIDE DEF s, r
    <2>7. IInv'
      BY <2>1, <2>3, <2>4, <2>5, <2>6, FaultsStay, InsideRound
    <2> QED BY <1>3, <2>3, <2>7
  <1>4. CASE ~ Extends(b, chain[n])
    <2>1. Compete(n) /\ UNCHANGED faults
      BY <1>4 DEF Ingest
    <2>2. UNCHANGED chain
      BY <2>1 DEF Compete, GiveUp, Leave
    <2> QED BY <1>1, <2>1, <2>2, Standing, CompeteKeeps
  <1> QED BY <1>3, <1>4

(* A complete download is the advertised chain. *)
LEMMA LinkedIsHead ==
  ASSUME NEW h \in Chains, NEW g \in Seq(Chains), Linked(g, h)
  PROVE  LabelsOf(g) = h
  <1>1. h \in Seq(AllLabels) /\ Len(g) = Len(h) /\ DOMAIN g = 1..Len(h) /\ Len(h) \in Nat
    BY ChainsAre DEF Linked
  <1>2. ASSUME NEW i \in 1..Len(h) PROVE Last(g[i]) = h[i]
    <2>1. g[i] = SubSeq(h, 1, i)
      BY <1>1, <1>2 DEF Linked
    <2> DEFINE d == SubSeq(h, 1, i)
    <2>2. Len(d) = i /\ d[i] = h[i]
      BY <1>1, <1>2
    <2> HIDE DEF d
    <2>3. Last(d) = h[i]
      BY <2>2 DEF Last
    <2> QED BY <2>1, <2>3 DEF d
  <1>3. LabelsOf(g) = [i \in 1..Len(h) |-> h[i]]
    BY <1>1, <1>2 DEF LabelsOf
  <1> QED BY <1>1, <1>3

LEMMA AdoptKeeps ==
  ASSUME IInv, NEW n \in Nodes, Adopt(n)
  PROVE  /\ IInv' /\ Grows
         /\ \A m \in Nodes : chain'[m] # chain[m] =>
               round[m] # Idle /\ chain'[m] = round[m].head /\ Better(chain'[m], chain[m])
  <1> DEFINE r == round[n]
             c == IF Preferred(LabelsOf(r.got), chain[n]) THEN LabelsOf(r.got) ELSE chain[n]
  <1>1. r \in Rounds /\ r # Idle /\ UNCHANGED faults
    BY UnderWay DEF Adopt
  <1>2. (CASE r.head = <<>> -> UNCHANGED chain /\ EndRound(n, TRUE, r.head)
          [] r.head # <<>> /\ ~ Linked(r.got, r.head) -> GiveUp(n)
          [] OTHER -> chain' = [chain EXCEPT ![n] = c] /\ EndRound(n, TRUE, r.head))
    BY DEF Adopt
  <1>3. CASE r.head = <<>>
    <2>1. UNCHANGED chain /\ EndRound(n, TRUE, r.head)
      BY <1>2, <1>3
    <2> QED BY <1>1, <2>1, Standing, FaultsStay, CleanEnd
  <1>4. CASE r.head # <<>> /\ ~ Linked(r.got, r.head)
    <2>1. GiveUp(n)
      BY <1>2, <1>4
    <2> QED BY <1>1, <2>1, Standing, FaultsStay, GivenUp DEF GiveUp
  <1>5. CASE r.head # <<>> /\ Linked(r.got, r.head)
    <2>1. chain' = [chain EXCEPT ![n] = c] /\ EndRound(n, TRUE, r.head)
      BY <1>2, <1>5
    <2>2. r.head \in Chains /\ LabelsOf(r.got) = r.head /\ chain[n] \in Chains
      <3>1. r.head \in Chains /\ r.got \in Seq(Chains)
        BY <1>1 DEF Rounds
      <3> QED BY <1>5, <3>1, LinkedIsHead DEF IInv, Shapes
    <2>3. c \in Chains /\ (c = chain[n] \/ (c = r.head /\ Better(c, chain[n])))
      BY <2>2 DEF Preferred
    <2> HIDE DEF c
    <2>4. Reached(c, chain[n])
      BY <2>3 DEF Reached
    <2>5. Grows /\ chain'[n] = c /\ \A m \in Nodes \ {n} : chain'[m] = chain[m]
      BY <2>1, <2>3, <2>4, Moving
    <2>6. IInv'
      BY <1>1, <2>1, <2>5, FaultsStay, CleanEnd
    <2> QED BY <1>1, <2>3, <2>5, <2>6
  <1> QED BY <1>3, <1>4, <1>5

-----------------------------------------------------------------------------
(* The theorems. *)

Moves ==
    \A n \in Nodes : chain'[n] # chain[n] =>
        \/ Extends(chain'[n], chain[n])
        \/ round[n] # Idle /\ chain'[n] = round[n].head /\ Better(chain'[n], chain[n])

(* Every step keeps the invariant and moves chains by the rule. *)
LEMMA NextKeeps ==
  ASSUME IInv, Next
  PROVE  IInv' /\ Moves
  <1>1. PICK n \in Nodes :
          \/ \E label \in Labels[n] : Produce(n, label)
          \/ \E p \in Peers(n) : Announce(n, p) \/ LoseAnnounce(n, p)
          \/ RoundFails(n)
          \/ SyncStep(n)
    BY DEF Next
  <1>2. CASE \E label \in Labels[n] : Produce(n, label)
    BY <1>2, ProduceKeeps DEF Moves
  <1>3. CASE \E p \in Peers(n) : Announce(n, p)
    BY <1>3, AnnounceKeeps DEF Moves
  <1>4. CASE \E p \in Peers(n) : LoseAnnounce(n, p)
    <2>1. UNCHANGED chain
      BY <1>4 DEF LoseAnnounce
    <2> QED BY <1>4, <2>1, LoseKeeps DEF Moves
  <1>5. CASE RoundFails(n) \/ Dial(n) \/ InSync(n)
    <2>1. UNCHANGED chain
      BY <1>5 DEF RoundFails, Dial, InSync
    <2> QED BY <1>5, <2>1, FailKeeps, DialKeeps, InSyncKeeps DEF Moves
  <1>6. CASE NotHigher(n)
    <2>1. UNCHANGED chain
      BY <1>6 DEF NotHigher, Compete, GiveUp, Leave
    <2> QED BY <1>6, <2>1, NotHigherKeeps DEF Moves
  <1>7. CASE Pull(n)
    <2>1. UNCHANGED chain
      BY <1>7 DEF Pull, GiveUp, Leave
    <2> QED BY <1>7, <2>1, PullKeeps DEF Moves
  <1>8. CASE PullFork(n)
    <2>1. UNCHANGED chain
      BY <1>8 DEF PullFork, GiveUp, Leave
    <2> QED BY <1>8, <2>1, PullForkKeeps DEF Moves
  <1>9. CASE Ingest(n)
    BY <1>9, IngestKeeps DEF Moves
  <1>10. CASE Adopt(n)
    BY <1>10, AdoptKeeps DEF Moves
  <1> QED BY <1>1, <1>2, <1>3, <1>4, <1>5, <1>6, <1>7, <1>8, <1>9, <1>10 DEF SyncStep

LEMMA StutterKeeps ==
  ASSUME IInv, UNCHANGED vars
  PROVE  IInv'
  BY DEF vars, IInv, Shapes, HeadsTrue, SeenTrue, Partner

(* Whatever is announced, lost, produced or downloaded meanwhile, the rounds,
   queues and observations of every node stay sound. *)
THEOREM Invariance == Spec => []IInv
  <1>1. IInv /\ [Next]_vars => IInv'
    BY NextKeeps, StutterKeeps
  <1> QED BY <1>1, Initially, PTL DEF Spec

(* A node moves only to a block on top of its own head or to the head its
   partner advertised when that wins against the chain it has by then
   (p2p_ingress.rs:1223-1263, local_node.rs:7031-7055). *)
THEOREM ForkChoiceHolds == Spec => ForkChoice
  <1>1. IInv /\ [Next]_vars => [Moves]_vars
    BY NextKeeps
  <1> QED BY <1>1, Invariance, PTL DEF Spec, ForkChoice, Moves

(* Queues and budgets keep their limits, and what readiness has observed of a
   peer was its head, which the peer has since only improved on
   (p2p_ingress.rs:1162-1176). *)
THEOREM RoundsAreSound == Spec => []RoundsSound
  <1>1. IInv => RoundsSound
    <2> SUFFICES ASSUME IInv PROVE RoundsSound
      OBVIOUS
    <2>1. ASSUME NEW n \in Nodes PROVE IsChain(chain[n]) /\ Len(chain[n]) <= MaxHeight
      <3>1. chain[n] \in Seq(AllLabels) /\ Len(chain[n]) <= MaxHeight
        BY ChainsAre DEF IInv, Shapes
      <3>2. \A i \in DOMAIN chain[n] : chain[n][i] \in AllLabels
        BY <3>1
      <3> QED BY <3>1, <3>2 DEF IsChain, AllLabels
    <2>2. ASSUME NEW n \in Nodes, round[n] # Idle PROVE Affordable(round[n])
      <3>1. round[n] \in Rounds
        BY <2>2 DEF IInv, Shapes
      <3>2. round[n].blocks \in 0..BlockLimit /\ round[n].bytes \in 0..ByteLimit /\ round[n].responses \in 0..ResponseLimit
        BY <3>1 DEF Rounds
      <3>3. BlockLimit \in Nat /\ ByteLimit \in Nat /\ ResponseLimit \in Nat
        BY SyncAssumption
      <3> QED BY <3>2, <3>3 DEF Affordable
    <2>3. TypeOK
      BY <2>1, <2>2 DEF TypeOK, IInv, Shapes
    <2>4. ObservationsTrue
      BY DEF IInv, SeenTrue, Reached, ObservationsTrue
    <2> QED BY <2>3, <2>4 DEF RoundsSound
  <1> QED BY <1>1, Invariance, PTL

=============================================================================
