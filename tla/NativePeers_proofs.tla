------------------------- MODULE NativePeers_proofs -------------------------
(***************************************************************************)
(* Theorems about NativePeers: a round of synchronisation is sound while   *)
(* both chains move under it, and a node only moves to a better chain.     *)
(*                                                                         *)
(* The argument.  A block has one parent, so one comparison of the binary  *)
(* search says on which side the common height is (Compared), and pages of *)
(* one chain join into a piece of it (PagesJoin).  A server answers only   *)
(* while its head is the one it advertised, so every answer is about one   *)
(* chain.  A client's chain is the one its round began with or one that is *)
(* preferred to it (SnapshotKept); preference is a strict order, so a      *)
(* client whose head is again the first one has not moved at all, and its  *)
(* undo window is the one the depth check was made against.                *)
(***************************************************************************)
EXTENDS NativePeers, FiniteSetTheorems, NaturalsInduction, WellFoundedInduction, TLAPS

-----------------------------------------------------------------------------
(* Work.  CumulativeWork is a fold of the library, a function of the sets of *)
(* indices that takes the greatest one first.                                *)

\* Every non-empty set of naturals has a least element.
LEMMA LeastNatural ==
    ASSUME NEW T \in SUBSET Nat, T # {}
    PROVE  \E n \in T : \A m \in T : n <= m
  <1>1. PICK x \in T : \A y \in T : ~ (<<y, x>> \in OpToRel(<, Nat))
    BY NatLessThanWellFounded, WFMin
  <1>2. \A y \in T : ~ (y < x)
    BY <1>1 DEF OpToRel
  <1> QED BY <1>2

\* Induction over the naturals, with the claim as a set.
LEMMA Induct ==
    ASSUME NEW T, 0 \in T, \A n \in Nat : n \in T => n + 1 \in T
    PROVE  Nat \subseteq T
  <1> DEFINE Bad == {n \in Nat : n \notin T}
  <1>1. ASSUME Bad # {} PROVE FALSE
    <2>1. PICK n \in Bad : \A m \in Bad : n <= m
      BY <1>1, LeastNatural
    <2>2. n \in Nat /\ n # 0
      BY <2>1
    <2>3. n - 1 \in Nat /\ n - 1 \notin Bad /\ (n - 1) + 1 = n
      BY <2>1, <2>2
    <2> QED BY <2>1, <2>3
  <1> QED BY <1>1

\* g is the sum of the works of c at every set of indices up to n.
Sums(c, n, g) ==
    g = [s \in SUBSET (1 .. n) |->
            IF s = {} THEN 0 ELSE g[s \ {Max(s)}] + Work[c[Max(s)]]]

\* The greatest of a set of indices that has the last one, or does not.
LEMMA GreatestIndex ==
    ASSUME NEW n \in Nat, NEW s \in SUBSET (1 .. n + 1), n + 1 \in s
    PROVE  Max(s) = n + 1
  <1>1. \A y \in s : y \in Nat /\ y <= n + 1
    OBVIOUS
  <1>2. \A x \in s : (\A y \in s : x >= y) => x = n + 1
    BY <1>1
  <1>3. \E x \in s : \A y \in s : x >= y
    BY <1>1
  <1> QED BY <1>2, <1>3 DEF Max

LEMMA GreatestIn ==
    ASSUME NEW n \in Nat, NEW s \in SUBSET (1 .. n), s # {}
    PROVE  Max(s) \in s
  <1> DEFINE T == {n - x : x \in s}
  <1>1. \A x \in s : x \in Nat /\ n - x \in Nat
    OBVIOUS
  <1>2. T \in SUBSET Nat /\ T # {}
    BY <1>1
  <1>3. PICK m \in T : \A y \in T : m <= y
    BY <1>2, LeastNatural
  <1>4. PICK x \in s : m = n - x
    BY <1>3
  <1>5. ASSUME NEW y \in s PROVE x >= y
    <2>1. n - x <= n - y
      BY <1>3, <1>4
    <2> QED BY <1>1, <2>1
  <1> HIDE DEF T
  <1> QED BY <1>5 DEF Max

\* There is such a function.
LEMMA SumsExist ==
    ASSUME NEW c, NEW n \in Nat
    PROVE  \E g : Sums(c, n, g)
  <1> DEFINE T == {k \in Nat : \E g : Sums(c, k, g)}
  <1>1. 0 \in T
    <2> DEFINE g == [s \in SUBSET (1 .. 0) |-> 0]
    <2>1. \A s \in SUBSET (1 .. 0) : s = {}
      OBVIOUS
    <2>2. g = [s \in SUBSET (1 .. 0) |-> IF s = {} THEN 0 ELSE g[s \ {Max(s)}] + Work[c[Max(s)]]]
      BY <2>1
    <2> HIDE DEF g
    <2> QED BY <2>2 DEF Sums
  <1>2. ASSUME NEW k \in Nat, k \in T PROVE k + 1 \in T
    <2>1. PICK f : Sums(c, k, f)
      BY <1>2
    <2>2. \A s \in SUBSET (1 .. k) : f[s] = IF s = {} THEN 0 ELSE f[s \ {Max(s)}] + Work[c[Max(s)]]
      BY <2>1 DEF Sums
    <2> DEFINE g == [s \in SUBSET (1 .. k + 1) |->
                        IF k + 1 \in s THEN f[s \ {k + 1}] + Work[c[k + 1]] ELSE f[s]]
    <2>3. ASSUME NEW s \in SUBSET (1 .. k + 1)
          PROVE  g[s] = IF s = {} THEN 0 ELSE g[s \ {Max(s)}] + Work[c[Max(s)]]
      <3>1. CASE k + 1 \in s
        <4>1. Max(s) = k + 1 /\ s # {}
          BY <3>1, GreatestIndex
        <4>2. g[s] = f[s \ {k + 1}] + Work[c[k + 1]]
          BY <3>1
        <4>3. s \ {k + 1} \in SUBSET (1 .. k + 1) /\ k + 1 \notin s \ {k + 1}
          OBVIOUS
        <4>4. g[s \ {k + 1}] = f[s \ {k + 1}]
          BY <4>3
        <4> HIDE DEF g
        <4> QED BY <4>1, <4>2, <4>4
      <3>2. CASE k + 1 \notin s
        <4>1. s \in SUBSET (1 .. k)
          <5>1. \A x \in 1 .. k + 1 : x # k + 1 => x \in 1 .. k
            OBVIOUS
          <5> QED BY <3>2, <5>1
        <4>2. g[s] = f[s]
          BY <3>2
        <4>3. CASE s = {}
          BY <2>2, <4>1, <4>2, <4>3
        <4>4. CASE s # {}
          <5> DEFINE r == s \ {Max(s)}
          <5>1. r \in SUBSET (1 .. k + 1) /\ k + 1 \notin r
            BY <3>2
          <5>2. g[r] = f[r]
            BY <5>1
          <5>3. f[s] = f[r] + Work[c[Max(s)]]
            BY <2>2, <4>1, <4>4
          <5> HIDE DEF g, r
          <5>4. g[s] = g[r] + Work[c[Max(s)]]
            BY <4>2, <5>2, <5>3
          <5> QED BY <4>4, <5>4 DEF r
        <4> QED BY <4>3, <4>4
      <3> QED BY <3>1, <3>2
    <2>4. g = [s \in SUBSET (1 .. k + 1) |-> IF s = {} THEN 0 ELSE g[s \ {Max(s)}] + Work[c[Max(s)]]]
      BY <2>3
    <2> HIDE DEF g
    <2>5. Sums(c, k + 1, g)
      BY <2>4 DEF Sums
    <2> QED BY <1>2, <2>5
  <1> HIDE DEF T
  <1>3. Nat \subseteq T
    BY <1>1, <1>2, Induct
  <1> QED BY <1>3 DEF T

\* What it is at the indices up to k depends on the blocks up to k alone.
LEMMA SumsAgree ==
    ASSUME NEW c \in Seq(Blocks), NEW d \in Seq(Blocks), NEW m \in Nat,
           m <= Len(c), m <= Len(d), \A i \in 1 .. m : c[i] = d[i],
           NEW g, Sums(c, Len(c), g), NEW h, Sums(d, Len(d), h)
    PROVE  g[1 .. m] \in Nat /\ g[1 .. m] = h[1 .. m]
  <1> DEFINE N == Len(c)
             M == Len(d)
             Good(k) == k <= m => g[1 .. k] \in Nat /\ g[1 .. k] = h[1 .. k]
             T == {k \in Nat : Good(k)}
  <1>0. N \in Nat /\ M \in Nat /\ (\A i \in 1 .. N : c[i] \in Blocks)
    OBVIOUS
  <1>a. m <= N /\ m <= M
    OBVIOUS
  <1> HIDE DEF N, M
  <1>1. /\ \A s \in SUBSET (1 .. N) : g[s] = IF s = {} THEN 0 ELSE g[s \ {Max(s)}] + Work[c[Max(s)]]
        /\ \A s \in SUBSET (1 .. M) : h[s] = IF s = {} THEN 0 ELSE h[s \ {Max(s)}] + Work[d[Max(s)]]
    BY DEF Sums, N, M
  <1>2. Good(0)
    <2>1. 1 .. 0 = {}
      OBVIOUS
    <2>2. g[{}] = 0 /\ h[{}] = 0
      BY <1>1
    <2> QED BY <2>1, <2>2
  <1>3. ASSUME NEW k \in Nat, Good(k) PROVE Good(k + 1)
    <2> SUFFICES ASSUME k + 1 <= m PROVE g[1 .. k + 1] \in Nat /\ g[1 .. k + 1] = h[1 .. k + 1]
      OBVIOUS
    <2> DEFINE s == 1 .. k + 1
    <2>1. s \in SUBSET (1 .. k + 1) /\ k + 1 \in s /\ s # {}
      <3>1. k + 1 \in s
        OBVIOUS
      <3>2. s \in SUBSET s
        OBVIOUS
      <3> QED BY <3>1, <3>2
    <2>2. Max(s) = k + 1
      <3> HIDE DEF s
      <3> QED BY <2>1, GreatestIndex
    <2>3. s \ {k + 1} = 1 .. k
      OBVIOUS
    <2>4. s \in SUBSET (1 .. N) /\ s \in SUBSET (1 .. M)
      BY <1>0, <1>a
    <2>5. k + 1 \in 1 .. m /\ k + 1 \in 1 .. N
      BY <1>0, <1>a
    <2>6. c[k + 1] = d[k + 1] /\ c[k + 1] \in Blocks
      BY <1>0, <2>5
    <2> HIDE DEF s
    <2>7. g[s] = g[1 .. k] + Work[c[k + 1]] /\ h[s] = h[1 .. k] + Work[d[k + 1]]
      BY <1>1, <2>1, <2>2, <2>3, <2>4
    <2>8. g[1 .. k] \in Nat /\ g[1 .. k] = h[1 .. k]
      BY <1>3
    <2>9. Work[c[k + 1]] \in Nat
      BY <2>6, ForkAssumption
    <2> QED BY <2>6, <2>7, <2>8, <2>9 DEF s
  <1> HIDE DEF Good
  <1>4. Nat \subseteq T
    <2>1. 0 \in T /\ \A k \in Nat : k \in T => k + 1 \in T
      BY <1>2, <1>3
    <2> HIDE DEF T
    <2> QED BY <2>1, Induct
  <1>5. Good(m)
    BY <1>4
  <1> QED BY <1>5 DEF Good

LEMMA WorkIs ==
    ASSUME NEW c \in Seq(Blocks)
    PROVE  \E g : Sums(c, Len(c), g) /\ CumulativeWork(c) = g[1 .. Len(c)]
  <1> DEFINE N == Len(c)
             Solves(g) == g = [s \in SUBSET DOMAIN c |->
                                  IF s = {} THEN 0 ELSE g[s \ {Max(s)}] + Work[c[Max(s)]]]
             k == CHOOSE g : Solves(g)
  <1>0. N \in Nat /\ DOMAIN c = 1 .. N
    OBVIOUS
  <1>1. CumulativeWork(c) = k[DOMAIN c]
    BY DEF CumulativeWork, FoldLeft, MapThenFoldSet
  <1>2. PICK h : Sums(c, N, h)
    BY <1>0, SumsExist
  <1>3. \A g : Solves(g) <=> Sums(c, N, g)
    BY <1>0 DEF Sums
  <1> HIDE DEF Solves
  <1>4. Solves(k)
    BY <1>2, <1>3
  <1> HIDE DEF k
  <1> QED BY <1>0, <1>1, <1>3, <1>4

\* A further block adds its work.
LEMMA WorkGrows ==
    ASSUME NEW c \in Seq(Blocks), NEW b \in Blocks
    PROVE  /\ CumulativeWork(c) \in Nat
           /\ CumulativeWork(Append(c, b)) = CumulativeWork(c) + Work[b]
  <1> DEFINE d == Append(c, b)
             m == Len(c)
  <1>1. /\ d \in Seq(Blocks) /\ m \in Nat /\ Len(d) = m + 1 /\ d[m + 1] = b
        /\ \A i \in 1 .. m : c[i] = d[i]
    OBVIOUS
  <1> HIDE DEF d
  <1>2. PICK g : Sums(c, m, g) /\ CumulativeWork(c) = g[1 .. m]
    BY WorkIs
  <1>3. PICK h : Sums(d, m + 1, h) /\ CumulativeWork(d) = h[1 .. m + 1]
    BY <1>1, WorkIs
  <1>4. g[1 .. m] \in Nat /\ g[1 .. m] = h[1 .. m]
    <2>1. m <= Len(c) /\ m <= Len(d)
      BY <1>1
    <2> QED BY <1>1, <1>2, <1>3, <2>1, SumsAgree
  <1> HIDE DEF m
  <1>5. h[1 .. m + 1] = h[1 .. m] + Work[b]
    <2> DEFINE s == 1 .. m + 1
    <2>1. s \in SUBSET (1 .. m + 1) /\ m + 1 \in s /\ s # {} /\ s \ {m + 1} = 1 .. m
      <3>1. m + 1 \in s /\ s \ {m + 1} = 1 .. m
        BY <1>1
      <3>2. s \in SUBSET s
        OBVIOUS
      <3> QED BY <3>1, <3>2
    <2> HIDE DEF s
    <2>2. Max(s) = m + 1
      BY <1>1, <2>1, GreatestIndex
    <2>3. h[s] = h[s \ {m + 1}] + Work[d[m + 1]]
      BY <1>3, <2>1, <2>2 DEF Sums
    <2>4. h[s] = h[1 .. m] + Work[b]
      BY <1>1, <2>1, <2>3
    <2> QED BY <2>4 DEF s
  <1> QED BY <1>2, <1>3, <1>4, <1>5 DEF d

LEMMA WorkIsNat ==
    ASSUME NEW c \in Seq(Blocks)
    PROVE  CumulativeWork(c) \in Nat
  <1> DEFINE m == Len(c)
  <1>1. PICK g : Sums(c, m, g) /\ CumulativeWork(c) = g[1 .. m]
    BY WorkIs
  <1>2. m \in Nat /\ m <= Len(c)
    OBVIOUS
  <1>3. g[1 .. m] \in Nat
    BY <1>1, <1>2, SumsAgree
  <1> QED BY <1>1, <1>3

\* A block on top is preferred to what it extends.
LEMMA ExtensionPreferred ==
    ASSUME NEW c \in Seq(Blocks), NEW b \in Blocks
    PROVE  Preferred(Append(c, b), c)
  <1>1. CumulativeWork(c) \in Nat /\ CumulativeWork(Append(c, b)) = CumulativeWork(c) + Work[b]
    BY WorkGrows
  <1>2. Work[b] \in Nat \ {0}
    BY ForkAssumption
  <1> QED BY <1>1, <1>2 DEF Preferred

LEMMA HeadsOfChains ==
    ASSUME NEW c \in Seq(Blocks)
    PROVE  HeadOf(c) \in Heads /\ (c # <<>> => HeadOf(c) \in Blocks)
  BY DEF HeadOf, Heads, Last

\* Preference is a strict order.
LEMMA PreferredOrder ==
    ASSUME NEW b \in Seq(Blocks), NEW c \in Seq(Blocks), NEW d \in Seq(Blocks)
    PROVE  /\ ~ Preferred(c, c)
           /\ Preferred(b, c) /\ Preferred(c, d) => Preferred(b, d)
  <1>1. CumulativeWork(b) \in Nat /\ CumulativeWork(c) \in Nat /\ CumulativeWork(d) \in Nat
    BY WorkIsNat
  <1>2. HashRank[HeadOf(b)] \in Nat /\ HashRank[HeadOf(c)] \in Nat /\ HashRank[HeadOf(d)] \in Nat
    BY HeadsOfChains, ForkAssumption
  <1> QED BY <1>1, <1>2 DEF Preferred

-----------------------------------------------------------------------------
(* Chains.  A block has one parent, so two chains that share a block share   *)
(* everything below it.                                                      *)

\* The chain of a head ends with it.
LEMMA ChainEnds ==
    ASSUME NEW h \in Heads
    PROVE  /\ ChainTo[h] \in Seq(Blocks) /\ Len(ChainTo[h]) \in Nat
           /\ HeadOf(ChainTo[h]) = h
           /\ ChainTo[h] # <<>> => h \in Blocks
           /\ h \in Blocks => /\ ChainTo[h] = Append(ChainTo[Parent[h]], h)
                              /\ Parent[h] \in Heads
                              /\ Len(ChainTo[h]) = Len(ChainTo[Parent[h]]) + 1
  <1>1. ChainTo[h] \in Seq(Blocks) /\ Len(ChainTo[h]) \in Nat
    BY AncestryAssumption
  <1>2. CASE h = Genesis
    BY <1>1, <1>2, AncestryAssumption, ForkAssumption DEF HeadOf
  <1>3. CASE h \in Blocks
    <2> DEFINE c == ChainTo[Parent[h]]
    <2>1. Parent[h] \in Heads /\ c \in Seq(Blocks) /\ ChainTo[h] = Append(c, h)
      BY <1>3, AncestryAssumption, ForkAssumption
    <2> HIDE DEF c
    <2>2. Append(c, h) # <<>> /\ Len(Append(c, h)) = Len(c) + 1 /\ Last(Append(c, h)) = h
      BY <1>3, <2>1 DEF Last
    <2> QED BY <1>1, <1>3, <2>1, <2>2 DEF HeadOf, c
  <1> QED BY <1>2, <1>3 DEF Heads

\* What is below a block of a chain is that block's chain.
LEMMA PrefixIsChain ==
    ASSUME NEW h \in Heads, NEW i \in 1 .. Len(ChainTo[h])
    PROVE  /\ ChainTo[h][i] \in Blocks
           /\ ChainTo[ChainTo[h][i]] = SubSeq(ChainTo[h], 1, i)
  <1> DEFINE Good(n) == \A k \in Heads : Len(ChainTo[k]) = n =>
                            \A j \in 1 .. n : ChainTo[ChainTo[k][j]] = SubSeq(ChainTo[k], 1, j)
             T == {n \in Nat : Good(n)}
  <1>1. Good(0)
    OBVIOUS
  <1>2. ASSUME NEW n \in Nat, Good(n) PROVE Good(n + 1)
    <2> SUFFICES ASSUME NEW k \in Heads, Len(ChainTo[k]) = n + 1, NEW j \in 1 .. n + 1
                 PROVE  ChainTo[ChainTo[k][j]] = SubSeq(ChainTo[k], 1, j)
      OBVIOUS
    <2> DEFINE c == ChainTo[Parent[k]]
               d == ChainTo[k]
    <2>1. d # <<>>
      OBVIOUS
    <2>2. k \in Blocks /\ Parent[k] \in Heads /\ d = Append(c, k) /\ Len(d) = Len(c) + 1
      BY <2>1, ChainEnds
    <2>3. c \in Seq(Blocks) /\ d \in Seq(Blocks) /\ Len(c) \in Nat
      BY <2>2, ChainEnds
    <2>4. Len(c) = n
      BY <2>2, <2>3
    <2>5. \A x \in 1 .. n : ChainTo[c[x]] = SubSeq(c, 1, x)
      BY <1>2, <2>2, <2>4
    <2>6. Len(d) = n + 1
      OBVIOUS
    <2>a. ChainTo[k] = d
      OBVIOUS
    <2> HIDE DEF c, d
    <2>7. CASE j = n + 1
      <3>1. d[j] = k /\ SubSeq(d, 1, j) = d
        BY <2>2, <2>3, <2>4, <2>6, <2>7
      <3> QED BY <2>a, <3>1
    <2>8. CASE j # n + 1
      <3>1. j \in 1 .. n
        BY <2>8
      <3>2. d[j] = c[j] /\ SubSeq(d, 1, j) = SubSeq(c, 1, j)
        BY <2>2, <2>3, <2>4, <3>1
      <3> QED BY <2>5, <2>a, <3>1, <3>2
    <2> QED BY <2>7, <2>8
  <1> HIDE DEF Good
  <1>3. Nat \subseteq T
    <2>1. 0 \in T /\ \A n \in Nat : n \in T => n + 1 \in T
      BY <1>1, <1>2
    <2> HIDE DEF T
    <2> QED BY <2>1, Induct
  <1>4. ChainTo[h] \in Seq(Blocks) /\ Len(ChainTo[h]) \in Nat
    BY ChainEnds
  <1>5. Good(Len(ChainTo[h]))
    BY <1>3, <1>4
  <1> QED BY <1>4, <1>5 DEF Good

\* Only the last block of a chain is its head.
LEMMA HeadIsLast ==
    ASSUME NEW h \in Heads, NEW i \in 1 .. Len(ChainTo[h]), ChainTo[h][i] = h
    PROVE  i = Len(ChainTo[h])
  <1> DEFINE c == ChainTo[h]
  <1>1. c \in Seq(Blocks)
    BY ChainEnds
  <1>2. c = SubSeq(c, 1, i)
    BY PrefixIsChain
  <1> HIDE DEF c
  <1>3. i \in 1 .. Len(c)
    BY DEF c
  <1>4. Len(SubSeq(c, 1, i)) = i
    BY <1>1, <1>3
  <1>5. Len(c) = i
    BY <1>2, <1>4
  <1> QED BY <1>5 DEF c

\* common_prefix_len is the length of the longest prefix that two chains share.
LEMMA CommonPrefix ==
    ASSUME NEW c \in Seq(Blocks), NEW d \in Seq(Blocks)
    PROVE  /\ CommonPrefixLen(c, d) \in Nat
           /\ CommonPrefixLen(c, d) <= Len(c) /\ CommonPrefixLen(c, d) <= Len(d)
           /\ \A i \in 1 .. CommonPrefixLen(c, d) : c[i] = d[i]
           /\ \A n \in Nat : n <= Len(c) /\ n <= Len(d) /\ (\A i \in 1 .. n : c[i] = d[i])
                                => n <= CommonPrefixLen(c, d)
  <1> DEFINE S == CommonPrefixes({c, d})
             lcp == LongestCommonPrefix({c, d})
             Left == {Len(c) - Len(p) : p \in S}
  <1>1. \A p \in S : p \in Seq(Blocks) /\ IsPrefix(p, c) /\ IsPrefix(p, d)
    <2>1. \A p \in S : /\ \E q \in {c, d} : \E l \in 0 .. Len(q) : p = SubSeq(q, 1, l)
                       /\ IsPrefix(p, c) /\ IsPrefix(p, d)
      BY DEF CommonPrefixes, Prefixes
    <2>2. \A q \in {c, d} : \A l \in 0 .. Len(q) : SubSeq(q, 1, l) \in Seq(Blocks)
      OBVIOUS
    <2> QED BY <2>1, <2>2
  <1>2. ASSUME NEW n \in Nat, n <= Len(c), n <= Len(d), \A i \in 1 .. n : c[i] = d[i]
        PROVE  SubSeq(c, 1, n) \in S /\ Len(SubSeq(c, 1, n)) = n
    <2> DEFINE p == SubSeq(c, 1, n)
    <2>1. p \in Seq(Blocks) /\ Len(p) = n /\ (\A i \in 1 .. n : p[i] = c[i])
      BY <1>2
    <2>2. p = SubSeq(c, 1, n) /\ p = SubSeq(d, 1, n) /\ p = SubSeq(p, 1, n)
      BY <1>2
    <2>3. IsPrefix(p, c) /\ IsPrefix(p, d)
      <3> HIDE DEF p
      <3> QED BY <1>2, <2>1, <2>2 DEF IsPrefix
    <2>4. p \in Prefixes(c)
      BY <1>2 DEF Prefixes
    <2> HIDE DEF p
    <2>5. p \in S
      BY <2>3, <2>4 DEF CommonPrefixes
    <2> QED BY <2>1, <2>5 DEF p
  <1>3. <<>> \in S
    <2>1. SubSeq(c, 1, 0) = <<>> /\ 0 <= Len(c) /\ 0 <= Len(d) /\ \A i \in 1 .. 0 : c[i] = d[i]
      OBVIOUS
    <2> HIDE DEF S
    <2>2. SubSeq(c, 1, 0) \in S
      BY <1>2, <2>1
    <2> QED BY <2>1, <2>2
  <1>4. \A p \in S : Len(p) \in Nat /\ Len(c) - Len(p) \in Nat
    BY <1>1 DEF IsPrefix
  <1> HIDE DEF S
  <1>5. PICK p \in S : \A q \in S : Len(q) <= Len(p)
    <2>1. Left \in SUBSET Nat /\ Left # {}
      BY <1>3, <1>4
    <2>2. PICK m \in Left : \A k \in Left : m <= k
      BY <2>1, LeastNatural
    <2>3. PICK p \in S : m = Len(c) - Len(p)
      BY <2>2
    <2>4. ASSUME NEW q \in S PROVE Len(q) <= Len(p)
      <3>1. Len(c) - Len(p) <= Len(c) - Len(q)
        BY <2>2, <2>3
      <3> QED BY <1>4, <3>1
    <2> QED BY <2>4
  <1>6. lcp \in S /\ \A q \in S : Len(q) <= Len(lcp)
    BY <1>5 DEF LongestCommonPrefix, S
  <1> HIDE DEF lcp
  <1>7. lcp \in Seq(Blocks) /\ IsPrefix(lcp, c) /\ IsPrefix(lcp, d)
    BY <1>1, <1>6
  <1>8. /\ Len(lcp) \in Nat /\ Len(lcp) <= Len(c) /\ Len(lcp) <= Len(d)
        /\ SubSeq(c, 1, Len(lcp)) = SubSeq(d, 1, Len(lcp))
    BY <1>7 DEF IsPrefix
  <1> DEFINE N == Len(lcp)
  <1> HIDE DEF N
  <1>9. ASSUME NEW i \in 1 .. N PROVE c[i] = d[i]
    <2>1. /\ N \in Nat /\ N <= Len(c) /\ N <= Len(d)
          /\ SubSeq(c, 1, N) = SubSeq(d, 1, N)
      BY <1>8 DEF N
    <2>2. SubSeq(c, 1, N)[i] = c[i] /\ SubSeq(d, 1, N)[i] = d[i]
      BY <2>1
    <2> QED BY <2>1, <2>2
  <1>10. CommonPrefixLen(c, d) = N
    BY DEF CommonPrefixLen, N, lcp
  <1>11. ASSUME NEW n \in Nat, n <= Len(c), n <= Len(d), \A i \in 1 .. n : c[i] = d[i]
         PROVE  n <= N
    <2>1. SubSeq(c, 1, n) \in S /\ Len(SubSeq(c, 1, n)) = n
      BY <1>2, <1>11
    <2> QED BY <1>6, <2>1 DEF N
  <1> QED BY <1>8, <1>9, <1>10, <1>11 DEF N

\* The height up to which the chains of two heads agree.
Common(h, k) == CommonPrefixLen(ChainTo[h], ChainTo[k])

LEMMA CommonFacts ==
    ASSUME NEW h \in Heads, NEW k \in Heads
    PROVE  /\ Common(h, k) \in Nat /\ Common(h, k) <= HeightOf(h) /\ Common(h, k) <= HeightOf(k)
           /\ HeightOf(h) \in Nat /\ HeightOf(k) \in Nat
           /\ \A i \in 1 .. Common(h, k) : ChainTo[h][i] = ChainTo[k][i]
  <1>1. ChainTo[h] \in Seq(Blocks) /\ ChainTo[k] \in Seq(Blocks)
    BY ChainEnds
  <1> QED BY <1>1, CommonPrefix DEF Common, HeightOf

\* One comparison of the binary search says on which side the common height is.
LEMMA Compared ==
    ASSUME NEW h \in Heads, NEW k \in Heads, NEW i \in Nat,
           1 <= i, i <= HeightOf(h), i <= HeightOf(k)
    PROVE  IF ChainTo[h][i] = ChainTo[k][i] THEN i <= Common(h, k) ELSE Common(h, k) < i
  <1> DEFINE c == ChainTo[h]
             d == ChainTo[k]
             n == Common(h, k)
  <1>1. c \in Seq(Blocks) /\ d \in Seq(Blocks) /\ i \in 1 .. Len(c) /\ i \in 1 .. Len(d)
    BY ChainEnds DEF HeightOf
  <1>2. n \in Nat /\ \A j \in 1 .. n : c[j] = d[j]
    BY CommonFacts
  <1>3. CASE c[i] = d[i]
    <2>1. SubSeq(c, 1, i) = SubSeq(d, 1, i)
      <3>1. ChainTo[c[i]] = SubSeq(c, 1, i) /\ ChainTo[d[i]] = SubSeq(d, 1, i)
        BY <1>1, PrefixIsChain
      <3> QED BY <1>3, <3>1
    <2> HIDE DEF c, d, n
    <2>2. ASSUME NEW j \in 1 .. i PROVE c[j] = d[j]
      <3>1. SubSeq(c, 1, i)[j] = c[j] /\ SubSeq(d, 1, i)[j] = d[j]
        BY <1>1
      <3> QED BY <2>1, <3>1
    <2>3. i <= CommonPrefixLen(c, d)
      <3>1. i <= Len(c) /\ i <= Len(d)
        BY <1>1
      <3> QED BY <1>1, <2>2, <3>1, CommonPrefix
    <2> QED BY <1>3, <2>3 DEF Common, c, d
  <1>4. CASE c[i] # d[i]
    <2> HIDE DEF c, d, n
    <2>1. n < i
      BY <1>2, <1>4
    <2> QED BY <1>4, <2>1 DEF c, d, n
  <1> QED BY <1>3, <1>4

LEMMA Joined ==
    ASSUME NEW S, NEW s \in Seq(S), NEW t \in Seq(S)
    PROVE  /\ s \o t \in Seq(S) /\ Len(s \o t) = Len(s) + Len(t)
           /\ \A i \in 1 .. (Len(s) + Len(t)) : (s \o t)[i] = IF i <= Len(s) THEN s[i] ELSE t[i - Len(s)]
  OBVIOUS

\* What two pages of a chain hold together.
LEMMA PagesJoin ==
    ASSUME NEW c \in Seq(Blocks), NEW a \in Nat, NEW x \in Nat, NEW y \in Nat,
           1 <= a, a <= x, x <= y + 1, y <= Len(c)
    PROVE  SubSeq(c, a, x - 1) \o SubSeq(c, x, y) = SubSeq(c, a, y)
  <1> DEFINE p == SubSeq(c, a, x - 1)
             q == SubSeq(c, x, y)
             r == SubSeq(c, a, y)
  <1>1. /\ p \in Seq(Blocks) /\ Len(p) = x - a /\ \A i \in 1 .. x - a : p[i] = c[a + i - 1]
    OBVIOUS
  <1>2. /\ q \in Seq(Blocks) /\ Len(q) = y - x + 1 /\ \A i \in 1 .. y - x + 1 : q[i] = c[x + i - 1]
    OBVIOUS
  <1>3. /\ r \in Seq(Blocks) /\ Len(r) = y - a + 1 /\ \A i \in 1 .. y - a + 1 : r[i] = c[a + i - 1]
    OBVIOUS
  <1> HIDE DEF p, q, r
  <1> DEFINE s == p \o q
  <1>4. /\ s \in Seq(Blocks) /\ Len(s) = y - a + 1
        /\ \A i \in 1 .. y - a + 1 : s[i] = IF i <= x - a THEN p[i] ELSE q[i - (x - a)]
    <2>1. /\ s \in Seq(Blocks) /\ Len(s) = Len(p) + Len(q)
          /\ \A i \in 1 .. (Len(p) + Len(q)) : s[i] = IF i <= Len(p) THEN p[i] ELSE q[i - Len(p)]
      BY <1>1, <1>2, Joined
    <2>2. (x - a) + (y - x + 1) = y - a + 1
      OBVIOUS
    <2> HIDE DEF s
    <2> QED BY <1>1, <1>2, <2>1, <2>2
  <1> HIDE DEF s
  <1>5. ASSUME NEW i \in 1 .. y - a + 1 PROVE s[i] = r[i]
    <2>1. CASE i <= x - a
      <3>1. s[i] = p[i] /\ i \in 1 .. x - a
        BY <1>4, <2>1
      <3> QED BY <1>1, <1>3, <3>1
    <2>2. CASE ~ (i <= x - a)
      <3>1. i - (x - a) \in 1 .. y - x + 1
        BY <2>2
      <3>2. s[i] = q[i - (x - a)]
        BY <1>4, <2>2
      <3>3. q[i - (x - a)] = c[x + (i - (x - a)) - 1] /\ x + (i - (x - a)) - 1 = a + i - 1
        BY <1>2, <3>1
      <3> QED BY <1>3, <3>2, <3>3
    <2> QED BY <2>1, <2>2
  <1>6. s = r
    BY <1>3, <1>4, <1>5
  <1> QED BY <1>6 DEF p, q, r, s

\* A page from x to y.
LEMMA PageFacts ==
    ASSUME NEW c \in Seq(Blocks), NEW x \in Nat, NEW y \in Nat, 1 <= x, x <= y, y <= Len(c)
    PROVE  /\ SubSeq(c, x, y) \in Seq(Blocks) \ {<<>>} /\ Len(SubSeq(c, x, y)) = y - x + 1
           /\ Last(SubSeq(c, x, y)) = c[y]
  <1> DEFINE p == SubSeq(c, x, y)
  <1>1. p \in Seq(Blocks) /\ Len(p) = y - x + 1 /\ \A i \in 1 .. y - x + 1 : p[i] = c[x + i - 1]
    OBVIOUS
  <1> HIDE DEF p
  <1>2. Len(p) \in 1 .. y - x + 1 /\ x + Len(p) - 1 = y
    BY <1>1
  <1>3. p # <<>> /\ p[Len(p)] = c[y]
    BY <1>1, <1>2
  <1> QED BY <1>1, <1>3 DEF Last, p

\* The local chain up to the common height and the rest of the other chain make
\* up the other chain.
LEMMA ForkJoins ==
    ASSUME NEW h \in Heads, NEW k \in Heads
    PROVE  SubSeq(ChainTo[h], 1, Common(h, k))
               \o SubSeq(ChainTo[k], Common(h, k) + 1, HeightOf(k)) = ChainTo[k]
  <1> DEFINE c == ChainTo[h]
             d == ChainTo[k]
             n == Common(h, k)
  <1>1. c \in Seq(Blocks) /\ d \in Seq(Blocks)
    BY ChainEnds
  <1>2. n \in Nat /\ n <= Len(c) /\ n <= Len(d) /\ (\A i \in 1 .. n : c[i] = d[i]) /\ Len(d) \in Nat
    BY CommonFacts DEF HeightOf
  <1>3. HeightOf(k) = Len(d)
    BY DEF HeightOf
  <1> HIDE DEF c, d, n
  <1>4. SubSeq(c, 1, n) = SubSeq(d, 1, n)
    BY <1>1, <1>2
  <1>5. SubSeq(d, 1, n) \o SubSeq(d, n + 1, Len(d)) = SubSeq(d, 1, Len(d))
    <2> DEFINE a == 1
               x == n + 1
               y == Len(d)
    <2>1. /\ a \in Nat /\ x \in Nat /\ y \in Nat /\ 1 <= a /\ a <= x /\ x <= y + 1 /\ y <= Len(d)
          /\ x - 1 = n
      BY <1>2
    <2> HIDE DEF a, x, y
    <2>2. SubSeq(d, a, x - 1) \o SubSeq(d, x, y) = SubSeq(d, a, y)
      BY ONLY <1>1, <2>1, PagesJoin
    <2> QED BY <2>1, <2>2 DEF a, x, y
  <1>6. SubSeq(d, 1, Len(d)) = d
    BY <1>1
  <1> QED BY <1>3, <1>4, <1>5, <1>6 DEF c, d, n

-----------------------------------------------------------------------------
(* The inductive invariant, as facts of one chain, one round and one message. *)

\* A chain of a node: that of its head, within the limit.
ChainSound(c) ==
    /\ c \in [blocks : Seq(Blocks), floor : Nat]
    /\ c.blocks = ChainTo[HeadOf(c.blocks)]
    /\ Len(c.blocks) <= MaxHistoryBlocks

\* The chain c of a client is the one its round began with, window included, or
\* one that is preferred to it.
SnapshotKept(c, r) ==
    \/ c.blocks = ChainTo[r.original] /\ c.floor = r.earliest
    \/ Preferred(c.blocks, ChainTo[r.original])

\* The common height lies between the bounds of the search.
Bisecting(r) ==
    /\ r.fork = <<>>
    /\ r.low <= Common(r.original, r.remote) /\ Common(r.original, r.remote) <= r.high
    /\ r.high <= HeightOf(r.original) /\ r.high <= HeightOf(r.remote)

\* The search was exact, and what was downloaded of a fork is one piece of the
\* advertised chain.
Downloading(r) ==
    /\ r.low = Common(r.original, r.remote)
    /\ ~ TooDeep(r)
    /\ r.low < r.next /\ r.target <= HeightOf(r.remote)
    /\ IF Extension(r) THEN r.fork = <<>>
       ELSE r.next <= r.target + 1 /\ r.fork = SubSeq(ChainTo[r.remote], r.low + 1, r.next - 1)

\* What holds of a client with chain c in stage s of a round r.
RoundOk(s, r, c) ==
    /\ HeightOf(r.remote) <= MaxHistoryBlocks
    /\ s # "wait" => SnapshotKept(c, r)
    /\ s \in {"wait", "hello"} => r.fork = <<>> /\ r.low = 0
    /\ s = "search" => Bisecting(r)
    /\ s \in {"download", "apply", "collected"} => Downloading(r)
    /\ s = "apply" => Extension(r)
    /\ s = "collected" => ~ Extension(r) /\ r.fork # <<>> /\ Last(r.fork) = r.remote

\* Every message belongs to the step the client is in, and an answer is about
\* the chain that was advertised.
MessageOk(s, r, m) ==
    m # None =>
        /\ m.type \in {"hello", "head"} => s = "hello"
        /\ m.type = "head" => HeightOf(m.head) <= MaxHistoryBlocks
        /\ m.type \in {"getHash", "hash"} => s = "search" /\ r.low < m.height /\ m.height <= r.high
        /\ m.type = "getHash" => m.snapshot = r.remote
        /\ m.type = "hash" => m.hash = ChainTo[r.remote][m.height]
        /\ m.type \in {"getBlocks", "blocks"} => s = "download"
        /\ m.type = "getBlocks" =>
               m.snapshot = r.remote /\ m.from = r.next /\ m.from + m.limit <= r.target + 1
        /\ m.type = "blocks" =>
               \E to \in r.next .. r.target : m.blocks = SubSeq(ChainTo[r.remote], r.next, to)

LinkOk(s, r, m, c) ==
    /\ s \in StageNames /\ r \in RoundType /\ m \in Messages
    /\ RoundOk(s, r, c) /\ MessageOk(s, r, m)

\* A fork that lost: nothing preferred is forgotten.
Lost(d) == d \in [local : Heads, remote : Heads] /\ ~ Preferred(ChainTo[d.remote], ChainTo[d.local])

IInv ==
    /\ chain = [n \in Nodes |-> chain[n]] /\ \A n \in Nodes : ChainSound(chain[n])
    /\ stage = [l \in Links |-> stage[l]] /\ round = [l \in Links |-> round[l]]
    /\ wire = [l \in Links |-> wire[l]] /\ declined = [l \in Links |-> declined[l]]
    /\ \A l \in Links : LinkOk(stage[l], round[l], wire[l], chain[Client(l)])
    /\ \A l \in Links : declined[l] = None \/ Lost(declined[l])
    /\ advertised \in [Links -> Heads] /\ faults \in 0 .. MaxFaults

LEMMA Limits ==
    /\ MaxHistoryBlocks \in Nat /\ RecentForkBlocks \in Nat /\ RoundBlocks \in Nat \ {0}
    /\ BlockPage \in Nat \ {0} /\ MaxRequests \in Nat /\ MaxFaults \in Nat
    /\ RoundBlocks <= RecentForkBlocks /\ Genesis \in Heads /\ HeightOf(Genesis) = 0
    /\ \A l \in Links : Client(l) \in Nodes /\ Server(l) \in Nodes
  <1>1. HeightOf(Genesis) = 0
    BY AncestryAssumption DEF HeightOf
  <1> QED BY <1>1, ForkAssumption, PeersAssumption DEF Heads, Client, Server

LEMMA ChainHead ==
    ASSUME NEW c, ChainSound(c)
    PROVE  /\ HeadOf(c.blocks) \in Heads /\ c.blocks \in Seq(Blocks) /\ c.floor \in Nat
           /\ HeightOf(HeadOf(c.blocks)) = Len(c.blocks)
           /\ HeightOf(HeadOf(c.blocks)) <= MaxHistoryBlocks
  <1>1. c.blocks \in Seq(Blocks) /\ c.floor \in Nat
    BY DEF ChainSound
  <1>2. HeadOf(c.blocks) \in Heads
    BY <1>1, HeadsOfChains
  <1> QED BY <1>1, <1>2 DEF ChainSound, HeightOf

\* Nothing is under way.
LEMMA Waiting ==
    ASSUME NEW c
    PROVE  LinkOk("wait", NoRound, None, c)
  <1>1. NoRound \in RoundType /\ NoRound.fork = <<>> /\ NoRound.remote = Genesis /\ NoRound.low = 0
    BY Limits DEF NoRound, RoundType
  <1> HIDE DEF NoRound
  <1>2. HeightOf(NoRound.remote) <= MaxHistoryBlocks
    BY <1>1, Limits
  <1>3. RoundOk("wait", NoRound, c)
    BY <1>1, <1>2 DEF RoundOk
  <1>4. "wait" \in StageNames /\ None \in Messages /\ MessageOk("wait", NoRound, None)
    BY DEF StageNames, Messages, MessageOk
  <1> QED BY <1>1, <1>3, <1>4 DEF LinkOk

\* A round outlives a better chain of its client.
LEMMA LinkImproves ==
    ASSUME NEW s, NEW r, NEW m, NEW c, NEW d, LinkOk(s, r, m, c), ChainSound(c), ChainSound(d),
           d = c \/ Preferred(d.blocks, c.blocks)
    PROVE  LinkOk(s, r, m, d)
  <1>1. CASE d = c
    BY <1>1
  <1>2. CASE Preferred(d.blocks, c.blocks)
    <2>1. r \in RoundType /\ RoundOk(s, r, c)
      BY DEF LinkOk
    <2>2. r.original \in Heads
      BY <2>1 DEF RoundType
    <2> DEFINE o == ChainTo[r.original]
    <2>3. o \in Seq(Blocks) /\ c.blocks \in Seq(Blocks) /\ d.blocks \in Seq(Blocks)
      BY <2>2, ChainEnds, ChainHead
    <2>4. ASSUME SnapshotKept(c, r) PROVE Preferred(d.blocks, o)
      <3>1. c.blocks = o \/ Preferred(c.blocks, o)
        BY <2>4 DEF SnapshotKept
      <3> HIDE DEF o
      <3> QED BY <1>2, <2>3, <3>1, PreferredOrder
    <2>5. SnapshotKept(c, r) => SnapshotKept(d, r)
      BY <2>4 DEF SnapshotKept
    <2>6. RoundOk(s, r, d)
      BY <2>1, <2>5 DEF RoundOk
    <2> QED BY <2>6 DEF LinkOk
  <1> QED BY <1>1, <1>2

\* What a step may do to the chains, to what a link declined and to what it was
\* told.
ChainsMove ==
    /\ chain' = [n \in Nodes |-> chain'[n]]
    /\ \A n \in Nodes : /\ ChainSound(chain'[n])
                        /\ chain'[n] = chain[n] \/ Preferred(chain'[n].blocks, chain[n].blocks)

MemoryMoves(l) ==
    /\ \/ declined' = declined
       \/ declined' = [declined EXCEPT ![l] = None]
       \/ \E d : Lost(d) /\ declined' = [declined EXCEPT ![l] = d]
    /\ \/ advertised' = advertised
       \/ \E h \in Heads : advertised' = [advertised EXCEPT ![l] = h]
    /\ faults' \in 0 .. MaxFaults

LEMMA ChainsStay ==
    ASSUME IInv, UNCHANGED chain
    PROVE  ChainsMove
  BY DEF IInv, ChainsMove

\* A step of one link.
LEMMA LinkStep ==
    ASSUME IInv, NEW l \in Links, NEW s, NEW r, NEW m, Continue(l, s, r, m),
           ChainsMove, MemoryMoves(l), LinkOk(s, r, m, chain'[Client(l)])
    PROVE  IInv'
  <1>1. /\ chain' = [n \in Nodes |-> chain'[n]] /\ \A n \in Nodes : ChainSound(chain'[n])
    BY DEF ChainsMove
  <1>2. /\ stage' = [k \in Links |-> stage'[k]] /\ round' = [k \in Links |-> round'[k]]
        /\ wire' = [k \in Links |-> wire'[k]]
        /\ stage'[l] = s /\ round'[l] = r /\ wire'[l] = m
        /\ \A k \in Links : k # l => stage'[k] = stage[k] /\ round'[k] = round[k] /\ wire'[k] = wire[k]
    BY DEF IInv, Continue
  <1>3. ASSUME NEW k \in Links PROVE LinkOk(stage'[k], round'[k], wire'[k], chain'[Client(k)])
    <2>1. CASE k = l
      BY <1>2, <2>1
    <2>2. CASE k # l
      <3>1. LinkOk(stage[k], round[k], wire[k], chain[Client(k)]) /\ Client(k) \in Nodes
        BY Limits DEF IInv
      <3>2. /\ ChainSound(chain[Client(k)]) /\ ChainSound(chain'[Client(k)])
            /\ \/ chain'[Client(k)] = chain[Client(k)]
               \/ Preferred(chain'[Client(k)].blocks, chain[Client(k)].blocks)
        BY <3>1 DEF IInv, ChainsMove
      <3>3. LinkOk(stage[k], round[k], wire[k], chain'[Client(k)])
        BY <3>1, <3>2, LinkImproves
      <3> QED BY <1>2, <2>2, <3>3
    <2> QED BY <2>1, <2>2
  <1>4. /\ declined' = [k \in Links |-> declined'[k]]
        /\ \A k \in Links : declined'[k] = None \/ Lost(declined'[k])
    BY DEF IInv, MemoryMoves
  <1>5. advertised' \in [Links -> Heads] /\ faults' \in 0 .. MaxFaults
    BY DEF IInv, MemoryMoves
  <1> QED BY <1>1, <1>2, <1>3, <1>4, <1>5 DEF IInv

\* The end of a round.
LEMMA RoundEnds ==
    ASSUME IInv, NEW l \in Links, EndRound(l), ChainsMove,
           \/ declined' = declined
           \/ declined' = [declined EXCEPT ![l] = None]
           \/ \E d : Lost(d) /\ declined' = [declined EXCEPT ![l] = d],
           faults' \in 0 .. MaxFaults
    PROVE  IInv'
  <1>1. Continue(l, "wait", NoRound, None) /\ advertised' = [advertised EXCEPT ![l] = Genesis]
    BY DEF EndRound
  <1>2. MemoryMoves(l)
    BY <1>1, Limits DEF MemoryMoves
  <1>3. LinkOk("wait", NoRound, None, chain'[Client(l)])
    BY Waiting
  <1> QED BY <1>1, <1>2, <1>3, LinkStep

\* A request, or the end of a round that may send no more.
LEMMA RequestKeeps ==
    ASSUME IInv, NEW l \in Links, NEW s, NEW r, NEW m, r \in RoundType, Request(l, s, r, m),
           UNCHANGED <<chain, declined, faults>>,
           \A q \in 0 .. MaxRequests : LinkOk(s, [r EXCEPT !.requests = q], m, chain[Client(l)])
    PROVE  IInv'
  <1>1. ChainsMove /\ faults' \in 0 .. MaxFaults
    BY ChainsStay DEF IInv
  <1>2. CASE r.requests < MaxRequests
    <2> DEFINE q == r.requests + 1
               u == [r EXCEPT !.requests = q]
    <2>1. Continue(l, s, u, m) /\ UNCHANGED advertised
      BY <1>2 DEF Request
    <2>2. q \in 0 .. MaxRequests
      <3>1. r.requests \in 0 .. MaxRequests
        BY DEF RoundType
      <3> QED BY <1>2, <3>1, Limits
    <2>3. LinkOk(s, u, m, chain'[Client(l)])
      BY <2>2
    <2>4. MemoryMoves(l)
      BY <1>1, <2>1 DEF MemoryMoves
    <2> HIDE DEF u
    <2> QED BY <1>1, <2>1, <2>3, <2>4, LinkStep
  <1>3. CASE ~ (r.requests < MaxRequests)
    <2>1. EndRound(l)
      BY <1>3 DEF Request
    <2> QED BY <1>1, <2>1, RoundEnds
  <1> QED BY <1>2, <1>3

-----------------------------------------------------------------------------
(* The steps of a round.                                                     *)

LEMMA LinkFacts ==
    ASSUME IInv, NEW l \in Links
    PROVE  /\ Client(l) \in Nodes /\ Server(l) \in Nodes
           /\ ChainSound(chain[Client(l)]) /\ ChainSound(chain[Server(l)])
           /\ stage[l] \in StageNames /\ round[l] \in RoundType /\ wire[l] \in Messages
           /\ RoundOk(stage[l], round[l], chain[Client(l)])
           /\ MessageOk(stage[l], round[l], wire[l])
           /\ advertised[l] \in Heads
  <1>1. LinkOk(stage[l], round[l], wire[l], chain[Client(l)])
    BY DEF IInv
  <1> QED BY <1>1, Limits DEF IInv, LinkOk

\* The count of requests says nothing else of a round.
LEMMA Counted ==
    ASSUME NEW r \in RoundType, NEW q \in 0 .. MaxRequests, NEW s, NEW c
    PROVE  LET u == [r EXCEPT !.requests = q]
           IN  /\ u \in RoundType
               /\ u.original = r.original /\ u.earliest = r.earliest /\ u.remote = r.remote
               /\ u.low = r.low /\ u.high = r.high /\ u.next = r.next /\ u.target = r.target
               /\ u.fork = r.fork
               /\ RoundOk(s, r, c) => RoundOk(s, u, c)
  <1> DEFINE u == [r EXCEPT !.requests = q]
  <1>1. u \in RoundType
    BY DEF RoundType
  <1>2. /\ u.original = r.original /\ u.earliest = r.earliest /\ u.remote = r.remote
        /\ u.low = r.low /\ u.high = r.high /\ u.next = r.next /\ u.target = r.target
        /\ u.fork = r.fork
    BY DEF RoundType
  <1> HIDE DEF u
  <1>3. RoundOk(s, r, c) => RoundOk(s, u, c)
    BY <1>2 DEF RoundOk, SnapshotKept, Bisecting, Downloading, TooDeep, Extension
  <1>4. QED BY <1>1, <1>2, <1>3 DEF u

\* A request in a round that goes on as it was.
LEMMA AskKeeps ==
    ASSUME IInv, NEW l \in Links, NEW m, Request(l, stage[l], round[l], m), m \in Messages,
           UNCHANGED <<chain, declined, faults>>,
           \A q \in 0 .. MaxRequests : MessageOk(stage[l], [round[l] EXCEPT !.requests = q], m)
    PROVE  IInv'
  <1>1. /\ stage[l] \in StageNames /\ round[l] \in RoundType
        /\ RoundOk(stage[l], round[l], chain[Client(l)])
    BY LinkFacts
  <1>2. ASSUME NEW q \in 0 .. MaxRequests
        PROVE  LinkOk(stage[l], [round[l] EXCEPT !.requests = q], m, chain[Client(l)])
    <2> DEFINE u == [round[l] EXCEPT !.requests = q]
    <2>1. u \in RoundType /\ RoundOk(stage[l], u, chain[Client(l)])
      BY <1>1, Counted
    <2>2. MessageOk(stage[l], u, m)
      OBVIOUS
    <2> HIDE DEF u
    <2>3. LinkOk(stage[l], u, m, chain[Client(l)])
      BY <1>1, <2>1, <2>2 DEF LinkOk
    <2> QED BY <2>3 DEF u
  <1> QED BY <1>1, <1>2, RequestKeeps

\* An answer on the connection: the client is where it was.
LEMMA AnswerKeeps ==
    ASSUME IInv, NEW l \in Links, NEW m, wire' = [wire EXCEPT ![l] = m],
           UNCHANGED <<chain, stage, round, declined, faults>>,
           \/ advertised' = advertised
           \/ \E h \in Heads : advertised' = [advertised EXCEPT ![l] = h],
           m \in Messages, MessageOk(stage[l], round[l], m)
    PROVE  IInv'
  <1>1. LinkOk(stage[l], round[l], m, chain'[Client(l)])
    BY LinkFacts DEF LinkOk
  <1>2. Continue(l, stage[l], round[l], m)
    <2>1. stage = [stage EXCEPT ![l] = stage[l]] /\ round = [round EXCEPT ![l] = round[l]]
      BY DEF IInv
    <2> QED BY <2>1 DEF Continue
  <1>3. ChainsMove /\ MemoryMoves(l)
    BY ChainsStay DEF IInv, MemoryMoves
  <1> QED BY <1>1, <1>2, <1>3, LinkStep

\* A step of the client alone.
LEMMA ClientKeeps ==
    ASSUME IInv, NEW l \in Links, NEW s, NEW r, Continue(l, s, r, None), UNCHANGED <<chain, advertised>>,
           declined' = declined \/ declined' = [declined EXCEPT ![l] = None], UNCHANGED faults,
           s \in StageNames, r \in RoundType, RoundOk(s, r, chain[Client(l)])
    PROVE  IInv'
  <1>1. None \in Messages /\ MessageOk(s, r, None)
    BY DEF Messages, MessageOk
  <1>2. LinkOk(s, r, None, chain'[Client(l)])
    BY <1>1 DEF LinkOk
  <1>3. ChainsMove /\ MemoryMoves(l)
    BY ChainsStay DEF IInv, MemoryMoves
  <1> QED BY <1>2, <1>3, LinkStep

\* The end of a round that changes nothing else.
LEMMA EndKeeps ==
    ASSUME IInv, NEW l \in Links, EndRound(l), UNCHANGED <<chain, faults>>,
           declined' = declined \/ declined' = [declined EXCEPT ![l] = None]
    PROVE  IInv'
  <1>1. ChainsMove /\ faults' \in 0 .. MaxFaults
    BY ChainsStay DEF IInv
  <1> QED BY <1>1, RoundEnds

LEMMA InitIInv == Init => IInv
  <1> SUFFICES ASSUME Init PROVE IInv
    OBVIOUS
  <1>1. ChainSound(NoChain)
    <2>1. NoChain \in [blocks : Seq(Blocks), floor : Nat] /\ NoChain.blocks = <<>>
      BY DEF NoChain
    <2>2. HeadOf(<<>>) = Genesis /\ ChainTo[Genesis] = <<>> /\ Len(<<>>) <= MaxHistoryBlocks
      BY AncestryAssumption, Limits DEF HeadOf
    <2> QED BY <2>1, <2>2 DEF ChainSound
  <1>2. \A l \in Links : LinkOk("wait", NoRound, None, chain[Client(l)])
    BY Waiting
  <1>3. chain = [n \in Nodes |-> chain[n]] /\ \A n \in Nodes : ChainSound(chain[n])
    BY <1>1 DEF Init
  <1>4. /\ stage = [l \in Links |-> stage[l]] /\ round = [l \in Links |-> round[l]]
        /\ wire = [l \in Links |-> wire[l]] /\ declined = [l \in Links |-> declined[l]]
        /\ \A l \in Links : stage[l] = "wait" /\ round[l] = NoRound /\ wire[l] = None /\ declined[l] = None
    BY DEF Init
  <1>5. advertised \in [Links -> Heads] /\ faults \in 0 .. MaxFaults
    BY Limits DEF Init
  <1> QED BY <1>2, <1>3, <1>4, <1>5 DEF IInv

LEMMA StartRoundKeeps ==
    ASSUME IInv, NEW l \in Links, StartRound(l)
    PROVE  IInv'
  <1> DEFINE c == chain[Client(l)]
             h == HeadOf(c.blocks)
             r == [NoRound EXCEPT !.original = h, !.current = h, !.earliest = c.floor]
             m == [type |-> "hello"]
  <1>1. ChainSound(c)
    BY LinkFacts
  <1>2. h \in Heads /\ c.floor \in Nat /\ c.blocks = ChainTo[h]
    BY <1>1, ChainHead DEF ChainSound
  <1>3. Request(l, "hello", r, m) /\ UNCHANGED <<chain, declined, faults>>
    BY DEF StartRound, NodeHead
  <1> HIDE DEF c, h
  <1>4. /\ r \in RoundType /\ r.original = h /\ r.earliest = c.floor /\ r.remote = Genesis
        /\ r.fork = <<>> /\ r.low = 0
    <2>1. /\ NoRound \in RoundType /\ NoRound.remote = Genesis /\ NoRound.fork = <<>> /\ NoRound.low = 0
      BY Limits DEF NoRound, RoundType
    <2> HIDE DEF NoRound
    <2>2. r \in RoundType
      BY <1>2, <2>1 DEF RoundType
    <2>3. r.original = h /\ r.earliest = c.floor /\ r.remote = Genesis /\ r.fork = <<>> /\ r.low = 0
      BY <2>1 DEF RoundType
    <2> QED BY <2>2, <2>3
  <1> HIDE DEF r
  <1>5. RoundOk("hello", r, c)
    <2>1. SnapshotKept(c, r)
      BY <1>2, <1>4 DEF SnapshotKept
    <2>2. HeightOf(r.remote) <= MaxHistoryBlocks
      BY <1>4, Limits
    <2> QED BY <1>4, <2>1, <2>2 DEF RoundOk
  <1>6. ASSUME NEW q \in 0 .. MaxRequests PROVE LinkOk("hello", [r EXCEPT !.requests = q], m, c)
    <2> DEFINE u == [r EXCEPT !.requests = q]
    <2>1. u \in RoundType /\ RoundOk("hello", u, c)
      BY <1>4, <1>5, Counted
    <2> HIDE DEF u
    <2>2. MessageOk("hello", u, m)
      BY DEF MessageOk
    <2>3. "hello" \in StageNames /\ m \in Messages
      BY DEF StageNames, Messages
    <2>4. LinkOk("hello", u, m, c)
      BY <2>1, <2>2, <2>3 DEF LinkOk
    <2> QED BY <2>4 DEF u
  <1> HIDE DEF m
  <1> QED BY <1>3, <1>4, <1>6, RequestKeeps DEF c

LEMMA ServeHelloKeeps ==
    ASSUME IInv, NEW l \in Links, ServeHello(l)
    PROVE  IInv'
  <1> DEFINE h == HeadOf(chain[Server(l)].blocks)
             m == [type |-> "head", head |-> h]
  <1>1. h \in Heads /\ HeightOf(h) <= MaxHistoryBlocks
    BY LinkFacts, ChainHead
  <1>2. /\ advertised' = [advertised EXCEPT ![l] = h] /\ wire' = [wire EXCEPT ![l] = m]
        /\ UNCHANGED <<chain, stage, round, declined, faults>>
    BY DEF ServeHello, NodeHead
  <1>3. stage[l] = "hello"
    <2>1. wire[l] # None /\ wire[l].type = "hello" /\ MessageOk(stage[l], round[l], wire[l])
      BY LinkFacts DEF ServeHello
    <2> QED BY <2>1 DEF MessageOk
  <1> HIDE DEF h
  <1>4. m \in Messages
    BY <1>1 DEF Messages
  <1>5. MessageOk(stage[l], round[l], m)
    BY <1>1, <1>3 DEF MessageOk
  <1> HIDE DEF m
  <1> QED BY <1>1, <1>2, <1>4, <1>5, AnswerKeeps

LEMMA HelloAnsweredKeeps ==
    ASSUME IInv, NEW l \in Links, HelloAnswered(l)
    PROVE  IInv'
  <1> DEFINE remote == wire[l].head
             r == round[l]
             c == chain[Client(l)]
             top == IF HeightOf(r.original) < HeightOf(remote)
                    THEN HeightOf(r.original) ELSE HeightOf(remote)
             u == [r EXCEPT !.remote = remote, !.high = top]
  <1>1. /\ stage[l] = "hello" /\ wire[l] # None /\ wire[l].type = "head" /\ wire[l] \in Messages
        /\ r \in RoundType /\ RoundOk(stage[l], r, c) /\ MessageOk(stage[l], r, wire[l])
    BY LinkFacts DEF HelloAnswered
  <1>2. remote \in Heads /\ HeightOf(remote) <= MaxHistoryBlocks
    BY <1>1 DEF Messages, MessageOk
  <1>3. /\ UNCHANGED <<chain, faults>>
        /\ \/ EndRound(l) /\ UNCHANGED declined
           \/ EndRound(l) /\ declined' = [declined EXCEPT ![l] = None]
           \/ /\ Continue(l, "search", u, None) /\ UNCHANGED advertised
              /\ declined' = [declined EXCEPT ![l] = None]
    BY DEF HelloAnswered
  <1>4. CASE EndRound(l)
    BY <1>3, <1>4, EndKeeps
  <1>5. CASE ~ EndRound(l)
    <2>1. Continue(l, "search", u, None) /\ UNCHANGED advertised /\ declined' = [declined EXCEPT ![l] = None]
      BY <1>3, <1>5
    <2>2. /\ r.original \in Heads /\ r.earliest \in Nat /\ r.low = 0 /\ r.fork = <<>>
          /\ SnapshotKept(c, r)
      BY <1>1 DEF RoundOk, RoundType
    <2> DEFINE o == r.original
               n == Common(o, remote)
    <2>3. /\ n \in Nat /\ n <= HeightOf(o) /\ n <= HeightOf(remote)
          /\ HeightOf(o) \in Nat /\ HeightOf(remote) \in Nat
      <3> HIDE DEF o, remote
      <3> QED BY <1>2, <2>2, CommonFacts DEF o
    <2>4. top \in Nat /\ n <= top /\ top <= HeightOf(o) /\ top <= HeightOf(remote)
      <3> HIDE DEF n
      <3> QED BY <2>3
    <2> HIDE DEF remote, top, r
    <2>5. /\ u \in RoundType /\ u.original = o /\ u.remote = remote /\ u.low = 0 /\ u.high = top
          /\ u.fork = <<>> /\ u.earliest = r.earliest
      <3>1. u \in RoundType
        BY <1>1, <1>2, <2>4 DEF RoundType
      <3>2. /\ u.original = o /\ u.remote = remote /\ u.low = r.low /\ u.high = top
            /\ u.fork = r.fork /\ u.earliest = r.earliest
        BY <1>1 DEF RoundType
      <3> QED BY <2>2, <3>1, <3>2
    <2> HIDE DEF u
    <2>6. SnapshotKept(c, u)
      BY <2>2, <2>5 DEF SnapshotKept
    <2>7. Bisecting(u)
      <3> HIDE DEF n
      <3>1. n = Common(u.original, u.remote)
        BY <2>5 DEF n
      <3> QED BY <2>3, <2>4, <2>5, <3>1 DEF Bisecting
    <2>8. RoundOk("search", u, c)
      BY <1>2, <2>5, <2>6, <2>7 DEF RoundOk
    <2>9. "search" \in StageNames
      BY DEF StageNames
    <2> QED BY <1>3, <2>1, <2>5, <2>8, <2>9, ClientKeeps
  <1> QED BY <1>4, <1>5

LEMMA AskHashKeeps ==
    ASSUME IInv, NEW l \in Links, AskHash(l)
    PROVE  IInv'
  <1> DEFINE r == round[l]
             h == Midpoint(r)
             m == [type |-> "getHash", snapshot |-> r.remote, height |-> h]
  <1>1. /\ stage[l] = "search" /\ r.low < r.high /\ Request(l, stage[l], r, m)
        /\ UNCHANGED <<chain, declined, faults>>
    BY DEF AskHash
  <1>2. r \in RoundType /\ r.remote \in Heads /\ r.low \in Nat /\ r.high \in Nat
    BY LinkFacts DEF RoundType
  <1>3. h \in Nat /\ r.low < h /\ h <= r.high
    BY <1>1, <1>2 DEF Midpoint
  <1> HIDE DEF h
  <1>4. m \in Messages
    BY <1>2, <1>3 DEF Messages
  <1>5. /\ m.type = "getHash" /\ m.snapshot = r.remote /\ m.height = h
    OBVIOUS
  <1> HIDE DEF m
  <1>6. ASSUME NEW q \in 0 .. MaxRequests PROVE MessageOk(stage[l], [r EXCEPT !.requests = q], m)
    <2> DEFINE u == [r EXCEPT !.requests = q]
    <2>1. u.low = r.low /\ u.high = r.high /\ u.remote = r.remote
      BY <1>2, Counted
    <2> HIDE DEF u
    <2>2. MessageOk(stage[l], u, m)
      BY <1>1, <1>3, <1>5, <2>1 DEF MessageOk
    <2> QED BY <2>2 DEF u
  <1> QED BY <1>1, <1>4, <1>6, AskKeeps

\* The server still has the chain it advertised to the client.
LEMMA Snapshot ==
    ASSUME IInv, NEW l \in Links, SnapshotCurrent(l), wire[l].snapshot = round[l].remote
    PROVE  /\ round[l].remote \in Heads
           /\ chain[Server(l)].blocks = ChainTo[round[l].remote]
           /\ Len(chain[Server(l)].blocks) = HeightOf(round[l].remote)
  <1>1. ChainSound(chain[Server(l)]) /\ round[l] \in RoundType
    BY LinkFacts
  <1>2. HeadOf(chain[Server(l)].blocks) = round[l].remote
    BY DEF SnapshotCurrent, NodeHead
  <1> QED BY <1>1, <1>2, ChainHead DEF ChainSound, RoundType

LEMMA ServeHashKeeps ==
    ASSUME IInv, NEW l \in Links, ServeHash(l)
    PROVE  IInv'
  <1> DEFINE r == round[l]
             i == wire[l].height
             b == HashAt(Server(l), i)
             m == [type |-> "hash", height |-> i, hash |-> b]
  <1>1. /\ wire[l] # None /\ wire[l].type = "getHash" /\ wire[l] \in Messages
        /\ r \in RoundType /\ MessageOk(stage[l], r, wire[l])
    BY LinkFacts DEF ServeHash
  <1>2. /\ i \in Nat /\ stage[l] = "search" /\ r.low \in Nat /\ r.low < i /\ i <= r.high
        /\ wire[l].snapshot = r.remote
    BY <1>1 DEF Messages, MessageOk, RoundType
  <1>3. /\ UNCHANGED <<chain, declined, faults>>
        /\ \/ EndRound(l)
           \/ /\ SnapshotCurrent(l) /\ i <= Len(chain[Server(l)].blocks)
              /\ wire' = [wire EXCEPT ![l] = m] /\ UNCHANGED <<stage, round, advertised>>
    BY DEF ServeHash
  <1>4. CASE EndRound(l)
    BY <1>3, <1>4, EndKeeps
  <1>5. CASE ~ EndRound(l)
    <2>1. /\ SnapshotCurrent(l) /\ i <= Len(chain[Server(l)].blocks)
          /\ wire' = [wire EXCEPT ![l] = m] /\ UNCHANGED <<stage, round, advertised>>
      BY <1>3, <1>5
    <2>2. /\ r.remote \in Heads /\ chain[Server(l)].blocks = ChainTo[r.remote]
          /\ Len(chain[Server(l)].blocks) = HeightOf(r.remote)
      BY <1>2, <2>1, Snapshot
    <2>3. i # 0 /\ i \in 1 .. Len(ChainTo[r.remote])
      BY <1>2, <2>1, <2>2
    <2>4. b = ChainTo[r.remote][i] /\ b \in Heads
      <3>1. ChainTo[r.remote] \in Seq(Blocks)
        BY <2>2, ChainEnds
      <3> QED BY <2>2, <2>3, <3>1 DEF HashAt, Heads
    <2> HIDE DEF b, i, r
    <2>5. m \in Messages
      BY <1>2, <2>4 DEF Messages
    <2>6. MessageOk(stage[l], r, m)
      BY <1>2, <2>4 DEF MessageOk
    <2> HIDE DEF m
    <2> QED BY <1>3, <2>1, <2>5, <2>6, AnswerKeeps DEF r
  <1> QED BY <1>4, <1>5

LEMMA HashAnsweredKeeps ==
    ASSUME IInv, NEW l \in Links, HashAnswered(l)
    PROVE  IInv'
  <1> DEFINE r == round[l]
             c == chain[Client(l)]
             i == wire[l].height
             up == [r EXCEPT !.low = i]
             down == [r EXCEPT !.high = i - 1]
             o == r.original
             k == r.remote
             n == Common(o, k)
  <1>1. /\ stage[l] = "search" /\ wire[l] # None /\ wire[l].type = "hash" /\ wire[l] \in Messages
        /\ r \in RoundType /\ RoundOk(stage[l], r, c) /\ MessageOk(stage[l], r, wire[l])
        /\ ChainSound(c)
    BY LinkFacts DEF HashAnswered
  <1>2. i \in Nat /\ r.low < i /\ i <= r.high /\ wire[l].hash = ChainTo[k][i]
    BY <1>1 DEF Messages, MessageOk
  <1>3. /\ UNCHANGED <<chain, declined, faults>>
        /\ \/ EndRound(l)
           \/ /\ LocalUnchanged(l, o) /\ UNCHANGED advertised
              /\ HashAt(Client(l), i) = wire[l].hash /\ Continue(l, "search", up, None)
           \/ /\ LocalUnchanged(l, o) /\ UNCHANGED advertised
              /\ HashAt(Client(l), i) # wire[l].hash /\ Continue(l, "search", down, None)
    BY DEF HashAnswered
  <1>4. CASE EndRound(l)
    BY <1>3, <1>4, EndKeeps
  <1>5. ASSUME LocalUnchanged(l, o) PROVE HashAt(Client(l), i) = ChainTo[o][i]
    <2>1. c.blocks = ChainTo[o]
      BY <1>1, <1>5 DEF LocalUnchanged, NodeHead, ChainSound
    <2>2. i # 0
      BY <1>1, <1>2 DEF RoundType
    <2> QED BY <2>1, <2>2 DEF HashAt
  <1>6. /\ o \in Heads /\ k \in Heads /\ r.low \in Nat /\ r.high \in Nat
        /\ Bisecting(r) /\ SnapshotKept(c, r) /\ HeightOf(k) <= MaxHistoryBlocks
    BY <1>1 DEF RoundOk, RoundType
  <1> HIDE DEF o, k, i
  <1>7. n \in Nat /\ HeightOf(o) \in Nat /\ HeightOf(k) \in Nat
    BY <1>6, CommonFacts
  <1>8. /\ r.fork = <<>> /\ r.low <= n /\ n <= r.high /\ r.high <= HeightOf(o) /\ r.high <= HeightOf(k)
    BY <1>6 DEF Bisecting, o, k
  <1>9. IF ChainTo[o][i] = ChainTo[k][i] THEN i <= n ELSE n < i
    <2>1. 1 <= i /\ i <= HeightOf(o) /\ i <= HeightOf(k)
      <3> HIDE DEF n, r
      <3> QED BY <1>2, <1>6, <1>7, <1>8
    <2> QED BY <1>2, <1>6, <2>1, Compared
  <1>10. "search" \in StageNames
    BY DEF StageNames
  <1>11. CASE /\ LocalUnchanged(l, o) /\ UNCHANGED advertised
              /\ HashAt(Client(l), i) = wire[l].hash /\ Continue(l, "search", up, None)
    <2>1. i <= n
      BY <1>2, <1>5, <1>9, <1>11
    <2> HIDE DEF r
    <2>2. /\ up \in RoundType
      BY <1>1, <1>2 DEF RoundType
    <2>3. /\ up.original = o /\ up.remote = k /\ up.low = i /\ up.high = r.high
          /\ up.fork = r.fork /\ up.earliest = r.earliest
      BY <1>1 DEF RoundType, o, k
    <2> HIDE DEF up
    <2>4. Bisecting(up)
      BY <1>8, <2>1, <2>3 DEF Bisecting
    <2>5. SnapshotKept(c, up)
      BY <1>6, <2>3 DEF SnapshotKept, o
    <2>6. RoundOk("search", up, c)
      BY <1>6, <2>3, <2>4, <2>5 DEF RoundOk
    <2> QED BY <1>3, <1>10, <1>11, <2>2, <2>6, ClientKeeps
  <1>12. CASE /\ LocalUnchanged(l, o) /\ UNCHANGED advertised
              /\ HashAt(Client(l), i) # wire[l].hash /\ Continue(l, "search", down, None)
    <2>1. n < i
      BY <1>2, <1>5, <1>9, <1>12
    <2> HIDE DEF r
    <2>a. i - 1 \in Nat /\ n <= i - 1 /\ i - 1 <= HeightOf(o) /\ i - 1 <= HeightOf(k)
      <3> HIDE DEF n
      <3> QED BY <1>2, <1>6, <1>7, <1>8, <2>1
    <2>2. /\ down \in RoundType
      BY <1>1, <2>a DEF RoundType
    <2>3. /\ down.original = o /\ down.remote = k /\ down.low = r.low /\ down.high = i - 1
          /\ down.fork = r.fork /\ down.earliest = r.earliest
      BY <1>1 DEF RoundType, o, k
    <2> HIDE DEF down
    <2>4. Bisecting(down)
      BY <1>8, <2>a, <2>3 DEF Bisecting
    <2>5. SnapshotKept(c, down)
      BY <1>6, <2>3 DEF SnapshotKept, o
    <2>6. RoundOk("search", down, c)
      BY <1>6, <2>3, <2>4, <2>5 DEF RoundOk
    <2> QED BY <1>3, <1>10, <1>12, <2>2, <2>6, ClientKeeps
  <1> QED BY <1>3, <1>4, <1>11, <1>12 DEF o, i

LEMMA SearchDoneKeeps ==
    ASSUME IInv, NEW l \in Links, SearchDone(l)
    PROVE  IInv'
  <1> DEFINE r == round[l]
             c == chain[Client(l)]
             height == HeightOf(r.remote)
             target == IF height < r.low + RoundBlocks THEN height ELSE r.low + RoundBlocks
             u == [r EXCEPT !.next = r.low + 1, !.target = target]
  <1>1. /\ stage[l] = "search" /\ r.low = r.high /\ r \in RoundType /\ RoundOk(stage[l], r, c)
    BY LinkFacts DEF SearchDone
  <1>2. /\ UNCHANGED <<chain, declined, faults>>
        /\ \/ EndRound(l)
           \/ ~ TooDeep(r) /\ Continue(l, "download", u, None) /\ UNCHANGED advertised
    BY DEF SearchDone
  <1>3. CASE EndRound(l)
    BY <1>2, <1>3, EndKeeps
  <1>4. CASE ~ EndRound(l)
    <2>1. ~ TooDeep(r) /\ Continue(l, "download", u, None) /\ UNCHANGED advertised
      BY <1>2, <1>4
    <2>2. /\ r.original \in Heads /\ r.remote \in Heads /\ r.low \in Nat /\ r.high \in Nat
          /\ Bisecting(r) /\ SnapshotKept(c, r) /\ HeightOf(r.remote) <= MaxHistoryBlocks
      BY <1>1 DEF RoundOk, RoundType
    <2> DEFINE n == Common(r.original, r.remote)
    <2>3. n \in Nat /\ n <= height /\ height \in Nat
      BY <2>2, CommonFacts
    <2>4. r.fork = <<>> /\ r.low = n
      <3>1. r.fork = <<>> /\ r.low <= n /\ n <= r.high
        BY <2>2 DEF Bisecting
      <3> HIDE DEF n
      <3> QED BY <1>1, <2>2, <2>3, <3>1
    <2> HIDE DEF n, height, r
    <2>5. target \in Nat /\ target <= height /\ r.low <= target
      BY <2>2, <2>3, <2>4, Limits
    <2> HIDE DEF target
    <2>6. u \in RoundType
      <3> DEFINE first == r.low + 1
      <3>1. first \in Nat
        BY <2>2
      <3> HIDE DEF first
      <3>2. [r EXCEPT !.next = first, !.target = target] \in RoundType
        BY <1>1, <2>5, <3>1 DEF RoundType
      <3> QED BY <3>2 DEF first
    <2>7. /\ u.original = r.original /\ u.remote = r.remote /\ u.low = r.low /\ u.next = r.low + 1
          /\ u.target = target /\ u.fork = r.fork /\ u.earliest = r.earliest
      BY <1>1 DEF RoundType
    <2> HIDE DEF u
    <2>8. u.low = Common(u.original, u.remote) /\ ~ TooDeep(u)
      BY <2>1, <2>4, <2>7 DEF TooDeep, Extension, n
    <2>9. u.low < u.next /\ u.target <= HeightOf(u.remote) /\ u.next <= u.target + 1 /\ u.next - 1 = u.low
      BY <2>2, <2>5, <2>7 DEF height
    <2>10. u.fork = SubSeq(ChainTo[u.remote], u.low + 1, u.next - 1)
      <3>1. ChainTo[r.remote] \in Seq(Blocks)
        BY <2>2, ChainEnds
      <3>2. SubSeq(ChainTo[r.remote], r.low + 1, r.low) = <<>>
        BY <2>2, <3>1
      <3> QED BY <2>4, <2>7, <2>9, <3>2
    <2>11. Downloading(u)
      BY <2>4, <2>7, <2>8, <2>9, <2>10 DEF Downloading
    <2>12. SnapshotKept(c, u)
      BY <2>2, <2>7 DEF SnapshotKept
    <2>13. RoundOk("download", u, c)
      BY <2>2, <2>7, <2>11, <2>12 DEF RoundOk
    <2>14. "download" \in StageNames
      BY DEF StageNames
    <2> QED BY <1>2, <2>1, <2>6, <2>13, <2>14, ClientKeeps
  <1> QED BY <1>3, <1>4

LEMMA AskBlocksKeeps ==
    ASSUME IInv, NEW l \in Links, AskBlocks(l)
    PROVE  IInv'
  <1> DEFINE r == round[l]
             left == r.target - r.next + 1
             limit == IF left < BlockPage THEN left ELSE BlockPage
             m == [type |-> "getBlocks", snapshot |-> r.remote, from |-> r.next, limit |-> limit]
  <1>1. /\ stage[l] = "download" /\ r.next <= r.target /\ Request(l, stage[l], r, m)
        /\ UNCHANGED <<chain, declined, faults>>
    BY DEF AskBlocks
  <1>2. /\ r \in RoundType /\ r.remote \in Heads /\ r.low \in Nat /\ r.next \in Nat /\ r.target \in Nat
        /\ Downloading(r)
    BY <1>1, LinkFacts DEF RoundType, RoundOk
  <1>3. r.next # 0
    BY <1>2 DEF Downloading
  <1>4. limit \in 1 .. BlockPage /\ r.next + limit <= r.target + 1
    <2> HIDE DEF r
    <2>1. left \in Nat \ {0} /\ r.next + left = r.target + 1
      BY <1>1, <1>2
    <2> QED BY <1>2, <2>1, Limits
  <1> HIDE DEF limit
  <1>5. m \in Messages
    BY <1>2, <1>3, <1>4 DEF Messages
  <1>6. m.type = "getBlocks" /\ m.snapshot = r.remote /\ m.from = r.next /\ m.limit = limit
    OBVIOUS
  <1> HIDE DEF m
  <1>7. ASSUME NEW q \in 0 .. MaxRequests PROVE MessageOk(stage[l], [r EXCEPT !.requests = q], m)
    <2> DEFINE u == [r EXCEPT !.requests = q]
    <2>1. u.next = r.next /\ u.target = r.target /\ u.remote = r.remote
      BY <1>2, Counted
    <2> HIDE DEF u
    <2>2. MessageOk(stage[l], u, m)
      BY <1>1, <1>4, <1>6, <2>1 DEF MessageOk
    <2> QED BY <2>2 DEF u
  <1> QED BY <1>1, <1>5, <1>7, AskKeeps

LEMMA ServeBlocksKeeps ==
    ASSUME IInv, NEW l \in Links, ServeBlocks(l)
    PROVE  IInv'
  <1> DEFINE r == round[l]
             from == wire[l].from
             last == from + wire[l].limit - 1
             c == chain[Server(l)].blocks
             Page(to) == [type |-> "blocks", from |-> from, blocks |-> SubSeq(c, from, to)]
  <1>1. /\ wire[l] # None /\ wire[l].type = "getBlocks" /\ wire[l] \in Messages
        /\ r \in RoundType /\ MessageOk(stage[l], r, wire[l])
    BY LinkFacts DEF ServeBlocks
  <1>2. /\ from \in Nat \ {0} /\ wire[l].limit \in Nat /\ stage[l] = "download"
        /\ from = r.next /\ from + wire[l].limit <= r.target + 1 /\ wire[l].snapshot = r.remote
        /\ r.target \in Nat
    <2>1. from \in Nat \ {0} /\ wire[l].limit \in 1 .. BlockPage
      BY <1>1 DEF Messages
    <2>2. wire[l].limit \in Nat
      BY <2>1, Limits
    <2> QED BY <1>1, <2>1, <2>2 DEF MessageOk, RoundType
  <1>3. /\ UNCHANGED <<chain, declined, faults>>
        /\ \/ EndRound(l)
           \/ /\ SnapshotCurrent(l) /\ from <= Len(c)
              /\ \E to \in from .. (IF last < Len(c) THEN last ELSE Len(c)) :
                    wire' = [wire EXCEPT ![l] = Page(to)]
              /\ UNCHANGED <<stage, round, advertised>>
    BY DEF ServeBlocks
  <1>4. CASE EndRound(l)
    BY <1>3, <1>4, EndKeeps
  <1>5. CASE ~ EndRound(l)
    <2>1. SnapshotCurrent(l) /\ from <= Len(c) /\ UNCHANGED <<stage, round, advertised>>
      BY <1>3, <1>5
    <2>2. PICK to \in from .. (IF last < Len(c) THEN last ELSE Len(c)) :
             wire' = [wire EXCEPT ![l] = Page(to)]
      BY <1>3, <1>5
    <2>3. r.remote \in Heads /\ c = ChainTo[r.remote] /\ c \in Seq(Blocks) /\ Len(c) \in Nat
      BY <1>2, <2>1, Snapshot, ChainEnds
    <2> DEFINE limit == wire[l].limit
               size == Len(c)
    <2>a. to \in from .. (IF from + limit - 1 < size THEN from + limit - 1 ELSE size)
      BY <2>2
    <2>b. /\ from \in Nat /\ limit \in Nat /\ size \in Nat /\ r.target \in Nat
          /\ from + limit <= r.target + 1
      BY <1>2, <2>3
    <2> HIDE DEF from, c, r, limit, size
    <2>4. to \in Nat /\ from <= to /\ to <= Len(c) /\ to <= r.target
      <3>1. to \in Nat /\ from <= to /\ to <= size /\ to <= from + limit - 1
        BY ONLY <2>a, <2>b
      <3> QED BY <2>b, <3>1 DEF size
    <2>5. SubSeq(c, from, to) \in Seq(Blocks) \ {<<>>}
      <3>1. from \in Nat /\ 1 <= from
        BY <1>2
      <3> QED BY <2>3, <2>4, <3>1, PageFacts
    <2> DEFINE p == SubSeq(c, from, to)
               m == [type |-> "blocks", from |-> from, blocks |-> p]
    <2>6. m \in Messages
      <3> HIDE DEF p
      <3>1. p \in Seq(Blocks) \ {<<>>}
        BY <2>5 DEF p
      <3> QED BY <1>2, <3>1 DEF Messages
    <2>7. MessageOk(stage[l], r, m)
      <3>1. to \in r.next .. r.target /\ p = SubSeq(ChainTo[r.remote], r.next, to)
        BY <1>2, <2>3, <2>4
      <3> HIDE DEF p
      <3> QED BY <1>2, <3>1 DEF MessageOk
    <2>8. wire' = [wire EXCEPT ![l] = m]
      BY <2>2
    <2> HIDE DEF m
    <2> QED BY <1>3, <2>1, <2>6, <2>7, <2>8, AnswerKeeps DEF r
  <1> QED BY <1>4, <1>5

\* The common part of the steps of a download.
LEMMA DownloadFacts ==
    ASSUME IInv, NEW l \in Links, stage[l] \in {"download", "apply", "collected"}
    PROVE  /\ round[l] \in RoundType /\ round[l].original \in Heads /\ round[l].remote \in Heads
           /\ round[l].low \in Nat /\ round[l].next \in Nat /\ round[l].target \in Nat
           /\ ChainTo[round[l].remote] \in Seq(Blocks)
           /\ HeightOf(round[l].remote) = Len(ChainTo[round[l].remote])
           /\ HeightOf(round[l].remote) <= MaxHistoryBlocks
           /\ Downloading(round[l]) /\ SnapshotKept(chain[Client(l)], round[l])
           /\ stage[l] = "apply" => Extension(round[l])
  <1>1. round[l] \in RoundType /\ RoundOk(stage[l], round[l], chain[Client(l)])
    BY LinkFacts
  <1>2. /\ round[l].original \in Heads /\ round[l].remote \in Heads
        /\ round[l].low \in Nat /\ round[l].next \in Nat /\ round[l].target \in Nat
    BY <1>1 DEF RoundType
  <1>3. /\ HeightOf(round[l].remote) <= MaxHistoryBlocks
        /\ Downloading(round[l]) /\ SnapshotKept(chain[Client(l)], round[l])
        /\ stage[l] = "apply" => Extension(round[l])
    BY <1>1 DEF RoundOk
  <1> QED BY <1>1, <1>2, <1>3, ChainEnds DEF HeightOf

LEMMA BlocksArriveKeeps ==
    ASSUME IInv, NEW l \in Links, BlocksArrive(l)
    PROVE  IInv'
  <1> DEFINE r == round[l]
             p == wire[l].blocks
             d == ChainTo[r.remote]
             c == chain[Client(l)]
             keep == [r EXCEPT !.page = p]
             join == [r EXCEPT !.fork = @ \o p, !.next = @ + Len(p)]
  <1>1. /\ stage[l] = "download" /\ wire[l] # None /\ wire[l].type = "blocks" /\ wire[l] \in Messages
        /\ MessageOk(stage[l], r, wire[l])
        /\ IF Extension(r) THEN Continue(l, "apply", keep, None) ELSE Continue(l, "download", join, None)
        /\ UNCHANGED <<chain, advertised, declined, faults>>
    BY LinkFacts DEF BlocksArrive
  <1>2. PICK to \in r.next .. r.target : p = SubSeq(d, r.next, to)
    BY <1>1 DEF MessageOk
  <1>3. p \in Seq(Blocks)
    BY <1>1 DEF Messages
  <1>4. /\ r \in RoundType /\ r.low \in Nat /\ r.next \in Nat /\ r.target \in Nat
        /\ d \in Seq(Blocks) /\ HeightOf(r.remote) = Len(d) /\ HeightOf(r.remote) <= MaxHistoryBlocks
        /\ Downloading(r) /\ SnapshotKept(c, r)
    BY <1>1, DownloadFacts
  <1> HIDE DEF d, r, p
  <1>5. CASE Extension(r)
    <2>1. keep \in RoundType
      BY <1>3, <1>4 DEF RoundType
    <2>2. /\ keep.original = r.original /\ keep.remote = r.remote /\ keep.low = r.low
          /\ keep.next = r.next /\ keep.target = r.target /\ keep.fork = r.fork
          /\ keep.earliest = r.earliest
      BY <1>4 DEF RoundType
    <2> HIDE DEF keep
    <2>3. Downloading(keep) /\ SnapshotKept(c, keep) /\ Extension(keep)
      BY <1>4, <1>5, <2>2 DEF Downloading, SnapshotKept, Extension, TooDeep
    <2>4. RoundOk("apply", keep, c) /\ "apply" \in StageNames
      BY <1>4, <2>2, <2>3 DEF RoundOk, StageNames
    <2> QED BY <1>1, <1>5, <2>1, <2>4, ClientKeeps
  <1>6. CASE ~ Extension(r)
    <2> DEFINE fork == r.fork \o p
               after == r.next + Len(p)
               u == [r EXCEPT !.fork = fork, !.next = after]
    <2>1. r.low < r.next /\ r.target <= Len(d) /\ r.fork = SubSeq(d, r.low + 1, r.next - 1)
      BY <1>4, <1>6 DEF Downloading, d
    <2>2. to \in Nat /\ r.next <= to /\ to <= r.target /\ 1 <= r.next /\ to <= Len(d)
      <3>1. Len(d) \in Nat
        BY <1>4
      <3> QED BY <1>2, <1>4, <2>1, <3>1
    <2>3. Len(p) = to - r.next + 1
      BY <1>2, <1>4, <2>2, PageFacts
    <2>4. after = to + 1 /\ after \in Nat
      BY <1>4, <2>2, <2>3
    <2>5. fork = SubSeq(d, r.low + 1, to)
      <3> DEFINE a == r.low + 1
                 x == r.next
      <3>1. a \in Nat /\ x \in Nat /\ to \in Nat /\ 1 <= a /\ a <= x /\ x <= to + 1 /\ to <= Len(d)
        BY <1>4, <2>1, <2>2
      <3> HIDE DEF a, x
      <3>2. SubSeq(d, a, x - 1) \o SubSeq(d, x, to) = SubSeq(d, a, to)
        BY ONLY <1>4, <3>1, PagesJoin
      <3> QED BY <1>2, <2>1, <3>2 DEF a, x
    <2>6. fork \in Seq(Blocks)
      <3>1. r.fork \in Seq(Blocks)
        BY <1>4 DEF RoundType
      <3> QED BY <1>3, <3>1, Joined
    <2>7. join = u
      OBVIOUS
    <2> HIDE DEF join, fork, after
    <2>8. u \in RoundType
      BY <1>4, <2>4, <2>6 DEF RoundType
    <2>9. /\ u.original = r.original /\ u.remote = r.remote /\ u.low = r.low
          /\ u.next = after /\ u.target = r.target /\ u.fork = fork /\ u.earliest = r.earliest
      BY <1>4 DEF RoundType
    <2> HIDE DEF u
    <2>10. u.low < u.next /\ u.next <= u.target + 1 /\ u.next - 1 = to
      BY <1>4, <2>1, <2>2, <2>4, <2>9
    <2>11. u.fork = SubSeq(ChainTo[u.remote], u.low + 1, u.next - 1)
      BY <2>5, <2>9, <2>10 DEF d
    <2>12. Downloading(u)
      BY <1>4, <1>6, <2>9, <2>10, <2>11 DEF Downloading, Extension, TooDeep
    <2>13. SnapshotKept(c, u)
      BY <1>4, <2>9 DEF SnapshotKept
    <2>14. RoundOk("download", u, c) /\ "download" \in StageNames
      BY <1>4, <2>9, <2>12, <2>13 DEF RoundOk, StageNames
    <2> QED BY <1>1, <1>6, <2>7, <2>8, <2>14, ClientKeeps
  <1> QED BY <1>5, <1>6

\* A chain that is one's own head's keeps its form under a block or a fork.
LEMMA ChainOfHead ==
    ASSUME NEW h \in Heads, NEW f \in Nat, HeightOf(h) <= MaxHistoryBlocks
    PROVE  ChainSound(ChainOf(ChainTo[h], f)) /\ ChainOf(ChainTo[h], f).blocks = ChainTo[h]
  <1> DEFINE c == ChainTo[h]
             e == ChainOf(c, f)
  <1>1. c \in Seq(Blocks) /\ HeadOf(c) = h /\ Len(c) \in Nat /\ Len(c) <= MaxHistoryBlocks
    BY ChainEnds DEF HeightOf
  <1>2. Floor(f, c) \in Nat
    <2> HIDE DEF c
    <2> QED BY <1>1, Limits DEF Floor
  <1>3. c = ChainTo[HeadOf(c)]
    BY <1>1
  <1> HIDE DEF c
  <1>4. e \in [blocks : Seq(Blocks), floor : Nat] /\ e.blocks = c
    BY <1>1, <1>2 DEF ChainOf
  <1> HIDE DEF e
  <1> QED BY <1>1, <1>3, <1>4 DEF ChainSound, c, e

\* submit_block moves one chain, to a better one.
LEMMA SubmitMoves ==
    ASSUME IInv, NEW n \in Nodes, NEW b \in Blocks, SubmitBlock(n, b)
    PROVE  ChainsMove
  <1> DEFINE c == chain[n]
             d == ChainOf(Append(c.blocks, b), c.floor)
  <1>1. ChainSound(c) /\ chain' = [chain EXCEPT ![n] = d] /\ chain = [k \in Nodes |-> chain[k]]
    BY DEF IInv, SubmitBlock
  <1>2. c.blocks \in Seq(Blocks) /\ c.floor \in Nat /\ c.blocks = ChainTo[HeadOf(c.blocks)]
    BY <1>1, ChainHead DEF ChainSound
  <1>3. Parent[b] = HeadOf(c.blocks) /\ Len(c.blocks) < MaxHistoryBlocks
    BY DEF SubmitBlock, Accepts, NodeHead
  <1> HIDE DEF c
  <1>4. b \in Heads
    BY DEF Heads
  <1>5. Append(c.blocks, b) = ChainTo[b] /\ HeightOf(b) = Len(c.blocks) + 1
    BY <1>2, <1>3, <1>4, ChainEnds DEF HeightOf
  <1>6. HeightOf(b) <= MaxHistoryBlocks
    BY <1>2, <1>3, <1>5, Limits
  <1>7. ChainSound(d) /\ d.blocks = Append(c.blocks, b)
    BY <1>2, <1>4, <1>5, <1>6, ChainOfHead
  <1>8. Preferred(d.blocks, c.blocks)
    BY <1>2, <1>7, ExtensionPreferred
  <1> HIDE DEF d
  <1>9. /\ chain' = [k \in Nodes |-> chain'[k]] /\ chain'[n] = d
        /\ \A k \in Nodes : k # n => chain'[k] = chain[k]
    BY <1>1
  <1>10. \A k \in Nodes : ChainSound(chain[k])
    BY DEF IInv
  <1> QED BY <1>7, <1>8, <1>9, <1>10 DEF ChainsMove, c

LEMMA ApplyBlockKeeps ==
    ASSUME IInv, NEW l \in Links, ApplyBlock(l)
    PROVE  IInv' /\ ChainsMove
  <1> DEFINE r == round[l]
             b == Head(r.page)
             c == chain[Client(l)]
             u == [r EXCEPT !.page = Tail(@), !.next = @ + 1, !.current = b]
  <1>1. stage[l] = "apply" /\ r.page # <<>> /\ UNCHANGED <<declined, faults>>
    BY DEF ApplyBlock
  <1>2. \/ SubmitBlock(Client(l), b) /\ Continue(l, "apply", u, None) /\ UNCHANGED advertised
        \/ EndRound(l) /\ UNCHANGED chain
    BY DEF ApplyBlock
  <1>3. CASE EndRound(l) /\ UNCHANGED chain
    BY <1>1, <1>3, EndKeeps, ChainsStay
  <1>4. CASE SubmitBlock(Client(l), b) /\ Continue(l, "apply", u, None) /\ UNCHANGED advertised
    <2>1. /\ r \in RoundType /\ r.low \in Nat /\ r.next \in Nat
          /\ HeightOf(r.remote) <= MaxHistoryBlocks
          /\ Downloading(r) /\ Extension(r)
      BY <1>1, DownloadFacts
    <2>2. r.page \in Seq(Blocks)
      BY <2>1 DEF RoundType
    <2>3. b \in Blocks /\ Tail(r.page) \in Seq(Blocks)
      BY <1>1, <2>2
    <2>4. ChainsMove
      BY <1>4, <2>3, LinkFacts, SubmitMoves
    <2>5. SnapshotKept(chain'[Client(l)], r)
      <3>1. LinkOk(stage[l], r, wire[l], c) /\ ChainSound(c)
        BY LinkFacts DEF LinkOk
      <3>2. /\ ChainSound(chain'[Client(l)])
            /\ chain'[Client(l)] = c \/ Preferred(chain'[Client(l)].blocks, c.blocks)
        BY <2>4, LinkFacts DEF ChainsMove
      <3>3. LinkOk(stage[l], r, wire[l], chain'[Client(l)])
        BY <3>1, <3>2, LinkImproves
      <3> QED BY <1>1, <3>3 DEF LinkOk, RoundOk
    <2> DEFINE rest == Tail(r.page)
               after == r.next + 1
               v == [r EXCEPT !.page = rest, !.next = after, !.current = b]
    <2>6. u = v
      OBVIOUS
    <2>7. after \in Nat /\ r.low < after /\ b \in Heads
      <3>1. r.low < r.next
        BY <2>1 DEF Downloading
      <3> QED BY <2>1, <2>3, <3>1 DEF Heads
    <2> HIDE DEF r, u, b, rest, after
    <2>8. v \in RoundType
      <3>1. rest \in Seq(Blocks)
        BY <2>3 DEF rest
      <3> QED BY <2>1, <2>7, <3>1 DEF RoundType
    <2>9. /\ v.original = r.original /\ v.remote = r.remote /\ v.low = r.low
          /\ v.next = after /\ v.target = r.target /\ v.fork = r.fork /\ v.earliest = r.earliest
      BY <2>1 DEF RoundType
    <2> HIDE DEF v
    <2>10. Extension(v) /\ Downloading(v)
      BY <2>1, <2>7, <2>9 DEF Downloading, Extension, TooDeep
    <2>11. SnapshotKept(chain'[Client(l)], v)
      BY <2>5, <2>9 DEF SnapshotKept
    <2>12. RoundOk("apply", v, chain'[Client(l)]) /\ "apply" \in StageNames
      BY <2>1, <2>9, <2>10, <2>11 DEF RoundOk, StageNames
    <2>13. None \in Messages /\ MessageOk("apply", v, None)
      BY DEF Messages, MessageOk
    <2>14. LinkOk("apply", v, None, chain'[Client(l)])
      BY <2>8, <2>12, <2>13 DEF LinkOk
    <2>15. MemoryMoves(l)
      BY <1>1, <1>4 DEF MemoryMoves, IInv
    <2> QED BY <1>4, <2>4, <2>6, <2>14, <2>15, LinkStep
  <1> QED BY <1>2, <1>3, <1>4

LEMMA PageDoneKeeps ==
    ASSUME IInv, NEW l \in Links, PageDone(l)
    PROVE  IInv'
  <1>1. /\ stage[l] = "apply" /\ Continue(l, "download", round[l], None)
        /\ UNCHANGED <<chain, advertised, declined, faults>>
    BY DEF PageDone
  <1>2. round[l] \in RoundType /\ RoundOk("apply", round[l], chain[Client(l)])
    BY <1>1, LinkFacts
  <1>3. RoundOk("download", round[l], chain[Client(l)]) /\ "download" \in StageNames
    BY <1>2 DEF RoundOk, StageNames
  <1> QED BY <1>1, <1>2, <1>3, ClientKeeps

LEMMA DownloadDoneKeeps ==
    ASSUME IInv, NEW l \in Links, DownloadDone(l)
    PROVE  IInv'
  <1> DEFINE r == round[l]
  <1>1. stage[l] = "download" /\ UNCHANGED <<chain, declined, faults>>
    BY DEF DownloadDone
  <1>2. \/ EndRound(l)
        \/ /\ ~ Extension(r) /\ r.fork # <<>> /\ Last(r.fork) = r.remote
           /\ Continue(l, "collected", r, None) /\ UNCHANGED advertised
    BY DEF DownloadDone
  <1>3. CASE EndRound(l)
    BY <1>1, <1>3, EndKeeps
  <1>4. CASE /\ ~ Extension(r) /\ r.fork # <<>> /\ Last(r.fork) = r.remote
             /\ Continue(l, "collected", r, None) /\ UNCHANGED advertised
    <2>1. r \in RoundType /\ RoundOk("download", r, chain[Client(l)])
      BY <1>1, LinkFacts
    <2>2. RoundOk("collected", r, chain[Client(l)]) /\ "collected" \in StageNames
      BY <1>4, <2>1 DEF RoundOk, StageNames
    <2> QED BY <1>1, <1>4, <2>1, <2>2, ClientKeeps
  <1> QED BY <1>2, <1>3, <1>4

LEMMA ApplyForkKeeps ==
    ASSUME IInv, NEW l \in Links, ApplyFork(l)
    PROVE  IInv' /\ ChainsMove
  <1> DEFINE r == round[l]
             n == Client(l)
             c == chain[n]
             d == ChainTo[Last(r.fork)]
             e == ChainOf(d, c.floor)
             lost == [local |-> r.original, remote |-> r.remote]
  <1>1. stage[l] = "collected" /\ EndRound(l) /\ UNCHANGED faults
    BY DEF ApplyFork
  <1>2. \/ UNCHANGED <<chain, declined>>
        \/ Outranks(d, c.blocks) /\ chain' = [chain EXCEPT ![n] = e] /\ UNCHANGED declined
        \/ /\ LocalUnchanged(l, r.original) /\ ~ Outranks(d, c.blocks)
           /\ declined' = [declined EXCEPT ![l] = lost] /\ UNCHANGED chain
    BY DEF ApplyFork
  <1>3. /\ r.original \in Heads /\ r.remote \in Heads /\ HeightOf(r.remote) <= MaxHistoryBlocks
        /\ ChainSound(c) /\ n \in Nodes
    BY <1>1, DownloadFacts, LinkFacts
  <1>4. Last(r.fork) = r.remote
    BY <1>1, LinkFacts DEF RoundOk
  <1>5. faults' \in 0 .. MaxFaults
    BY <1>1 DEF IInv
  <1>6. CASE UNCHANGED <<chain, declined>>
    <2>1. ChainsMove
      BY <1>6, ChainsStay
    <2> QED BY <1>1, <1>5, <1>6, <2>1, RoundEnds
  <1>7. CASE Outranks(d, c.blocks) /\ chain' = [chain EXCEPT ![n] = e] /\ UNCHANGED declined
    <2>1. c.floor \in Nat
      BY <1>3, ChainHead
    <2>2. ChainSound(e) /\ e.blocks = d
      BY <1>3, <1>4, <2>1, ChainOfHead
    <2>3. Preferred(e.blocks, c.blocks)
      <3> HIDE DEF d, e
      <3> QED BY <1>7, <2>2 DEF Outranks, Preferred
    <2>4. chain = [k \in Nodes |-> chain[k]] /\ \A k \in Nodes : ChainSound(chain[k])
      BY DEF IInv
    <2> HIDE DEF e, n
    <2>5. /\ chain' = [k \in Nodes |-> chain'[k]] /\ chain'[n] = e
          /\ \A k \in Nodes : k # n => chain'[k] = chain[k]
      BY <1>3, <1>7, <2>4
    <2>6. ChainsMove
      BY <2>2, <2>3, <2>4, <2>5 DEF ChainsMove
    <2> QED BY <1>1, <1>5, <1>7, <2>6, RoundEnds
  <1>8. CASE /\ LocalUnchanged(l, r.original) /\ ~ Outranks(d, c.blocks)
             /\ declined' = [declined EXCEPT ![l] = lost] /\ UNCHANGED chain
    <2>1. ChainsMove
      BY <1>8, ChainsStay
    <2>2. c.blocks = ChainTo[r.original]
      BY <1>3, <1>8 DEF LocalUnchanged, NodeHead, ChainSound
    <2>3. ~ Preferred(ChainTo[r.remote], ChainTo[r.original])
      BY <1>4, <1>8, <2>2 DEF Outranks, Preferred
    <2>4. Lost(lost)
      BY <1>3, <2>3 DEF Lost
    <2> HIDE DEF lost
    <2> QED BY <1>1, <1>5, <1>8, <2>1, <2>4, RoundEnds
  <1> QED BY <1>2, <1>6, <1>7, <1>8

LEMMA RoundFailsKeeps ==
    ASSUME IInv, NEW l \in Links, RoundFails(l)
    PROVE  IInv'
  <1>1. EndRound(l) /\ UNCHANGED <<chain, declined>> /\ faults < MaxFaults /\ faults' = faults + 1
    BY DEF RoundFails
  <1>2. ChainsMove
    BY <1>1, ChainsStay
  <1>3. faults' \in 0 .. MaxFaults
    <2>1. faults \in 0 .. MaxFaults
      BY DEF IInv
    <2> QED BY <1>1, <2>1, Limits
  <1> QED BY <1>1, <1>2, <1>3, RoundEnds

-----------------------------------------------------------------------------
(* Miners and restarts.                                                      *)

LEMMA MineKeeps ==
    ASSUME IInv, NEW n \in Nodes, NEW b \in Blocks, Mine(n, b)
    PROVE  IInv' /\ ChainsMove
  <1>1. SubmitBlock(n, b) /\ UNCHANGED <<stage, round, wire, advertised, declined, faults>>
    BY DEF Mine
  <1>2. ChainsMove
    BY <1>1, SubmitMoves
  <1>3. ASSUME NEW k \in Links PROVE LinkOk(stage[k], round[k], wire[k], chain'[Client(k)])
    <2>1. LinkOk(stage[k], round[k], wire[k], chain[Client(k)]) /\ Client(k) \in Nodes
      BY Limits DEF IInv
    <2>2. /\ ChainSound(chain[Client(k)]) /\ ChainSound(chain'[Client(k)])
          /\ \/ chain'[Client(k)] = chain[Client(k)]
             \/ Preferred(chain'[Client(k)].blocks, chain[Client(k)].blocks)
      BY <1>2, <2>1 DEF IInv, ChainsMove
    <2> QED BY <2>1, <2>2, LinkImproves
  <1>4. IInv'
    BY <1>1, <1>2, <1>3 DEF IInv, ChainsMove
  <1> QED BY <1>2, <1>4

\* The blocks of a node outlive its restart, and so does every round that is not
\* its own.
LEMMA RestartKeeps ==
    ASSUME IInv, NEW n \in Nodes, Restart(n)
    PROVE  IInv' /\ \A k \in Nodes : chain'[k].blocks = chain[k].blocks
  <1> DEFINE c == chain[n]
             e == ChainOf(c.blocks, 0)
             cut == {l \in Links : n \in {Client(l), Server(l)}}
  <1>1. /\ chain' = [chain EXCEPT ![n] = e] /\ faults < MaxFaults /\ faults' = faults + 1
        /\ stage' = [l \in Links |-> IF l \in cut THEN "wait" ELSE stage[l]]
        /\ round' = [l \in Links |-> IF l \in cut THEN NoRound ELSE round[l]]
        /\ wire' = [l \in Links |-> IF l \in cut THEN None ELSE wire[l]]
        /\ advertised' = [l \in Links |-> IF l \in cut THEN Genesis ELSE advertised[l]]
        /\ declined' = [l \in Links |-> IF Client(l) = n THEN None ELSE declined[l]]
    BY DEF Restart
  <1>2. /\ chain = [k \in Nodes |-> chain[k]] /\ \A k \in Nodes : ChainSound(chain[k])
    BY DEF IInv
  <1>3. ChainSound(e) /\ e.blocks = c.blocks
    <2>1. HeadOf(c.blocks) \in Heads /\ HeightOf(HeadOf(c.blocks)) <= MaxHistoryBlocks
      BY <1>2, ChainHead
    <2>2. c.blocks = ChainTo[HeadOf(c.blocks)]
      BY <1>2 DEF ChainSound
    <2> DEFINE h == HeadOf(c.blocks)
    <2>3. ChainSound(ChainOf(ChainTo[h], 0)) /\ ChainOf(ChainTo[h], 0).blocks = ChainTo[h]
      <3> HIDE DEF h
      <3> QED BY <2>1, ChainOfHead DEF h
    <2> QED BY <2>2, <2>3
  <1> HIDE DEF e
  <1>4. /\ chain' = [k \in Nodes |-> chain'[k]] /\ chain'[n] = e
        /\ \A k \in Nodes : k # n => chain'[k] = chain[k]
    BY <1>1, <1>2
  <1>5. \A k \in Nodes : ChainSound(chain'[k]) /\ chain'[k].blocks = chain[k].blocks
    BY <1>2, <1>3, <1>4
  <1>6. ASSUME NEW l \in Links PROVE LinkOk(stage'[l], round'[l], wire'[l], chain'[Client(l)])
    <2>1. CASE l \in cut
      <3>1. stage'[l] = "wait" /\ round'[l] = NoRound /\ wire'[l] = None
        BY <1>1, <2>1
      <3> QED BY <3>1, Waiting
    <2>2. CASE l \notin cut
      <3>1. stage'[l] = stage[l] /\ round'[l] = round[l] /\ wire'[l] = wire[l]
        BY <1>1, <2>2
      <3>2. Client(l) # n /\ Client(l) \in Nodes
        BY <2>2, Limits
      <3>3. chain'[Client(l)] = chain[Client(l)]
        BY <1>4, <3>2
      <3> QED BY <3>1, <3>3 DEF IInv
    <2> QED BY <2>1, <2>2
  <1>7. /\ stage' = [l \in Links |-> stage'[l]] /\ round' = [l \in Links |-> round'[l]]
        /\ wire' = [l \in Links |-> wire'[l]] /\ declined' = [l \in Links |-> declined'[l]]
    BY <1>1
  <1>8. \A l \in Links : declined'[l] = None \/ Lost(declined'[l])
    BY <1>1 DEF IInv
  <1>9. advertised' \in [Links -> Heads]
    <2>1. advertised \in [Links -> Heads]
      BY DEF IInv
    <2> HIDE DEF cut
    <2> QED BY <1>1, <2>1, Limits
  <1>10. faults' \in 0 .. MaxFaults
    <2>1. faults \in 0 .. MaxFaults
      BY DEF IInv
    <2> QED BY <1>1, <2>1, Limits
  <1>11. IInv'
    BY <1>4, <1>5, <1>6, <1>7, <1>8, <1>9, <1>10 DEF IInv
  <1> QED BY <1>5, <1>11

-----------------------------------------------------------------------------
(* The theorems.                                                             *)

\* A step keeps the invariant, and moves no chain or some to a better one, or is
\* the restart of a node that keeps its blocks.
Moves == ChainsMove \/ \A k \in Nodes : chain'[k].blocks = chain[k].blocks

LEMMA NextKeeps ==
    ASSUME IInv, [Next]_vars
    PROVE  IInv' /\ Moves
  <1>1. ASSUME NEW l \in Links, RoundStep(l) PROVE IInv' /\ Moves
    <2>1. CASE ApplyBlock(l)
      BY <2>1, ApplyBlockKeeps DEF Moves
    <2>2. CASE ApplyFork(l)
      BY <2>2, ApplyForkKeeps DEF Moves
    <2>3. CASE StartRound(l) \/ ServeHello(l) \/ HelloAnswered(l) \/ AskHash(l) \/ ServeHash(l)
      <3>1. IInv'
        BY <2>3, StartRoundKeeps, ServeHelloKeeps, HelloAnsweredKeeps, AskHashKeeps, ServeHashKeeps
      <3>2. UNCHANGED chain
        BY <2>3 DEF StartRound, ServeHello, HelloAnswered, AskHash, ServeHash
      <3> QED BY <3>1, <3>2 DEF Moves
    <2>4. CASE \/ HashAnswered(l) \/ SearchDone(l) \/ AskBlocks(l) \/ ServeBlocks(l) \/ BlocksArrive(l)
               \/ PageDone(l) \/ DownloadDone(l)
      <3>1. IInv'
        BY <2>4, HashAnsweredKeeps, SearchDoneKeeps, AskBlocksKeeps, ServeBlocksKeeps,
           BlocksArriveKeeps, PageDoneKeeps, DownloadDoneKeeps
      <3>2. UNCHANGED chain
        BY <2>4 DEF HashAnswered, SearchDone, AskBlocks, ServeBlocks, BlocksArrive, PageDone, DownloadDone
      <3> QED BY <3>1, <3>2 DEF Moves
    <2> QED BY <1>1, <2>1, <2>2, <2>3, <2>4 DEF RoundStep
  <1>2. ASSUME NEW l \in Links, RoundFails(l) PROVE IInv' /\ Moves
    <2>1. IInv' /\ UNCHANGED chain
      BY <1>2, RoundFailsKeeps DEF RoundFails
    <2> QED BY <2>1 DEF Moves
  <1>3. ASSUME NEW n \in Nodes, NEW b \in Blocks, Mine(n, b) PROVE IInv' /\ Moves
    BY <1>3, MineKeeps DEF Moves
  <1>4. ASSUME NEW n \in Nodes, Restart(n) PROVE IInv' /\ Moves
    BY <1>4, RestartKeeps DEF Moves
  <1>5. CASE UNCHANGED vars
    <2>1. IInv' /\ UNCHANGED chain
      BY <1>5 DEF vars, IInv
    <2> QED BY <2>1 DEF Moves
  <1> QED BY <1>1, <1>2, <1>3, <1>4, <1>5 DEF Next

\* A fork that was collected reaches from the common height to the advertised
\* head, and the undo window of an unmoved chain reaches the common height.
LEMMA CollectedAdoptable ==
    ASSUME IInv, NEW l \in Links, stage[l] = "collected", NodeHead(Client(l)) = round[l].original
    PROVE  Adoptable(Client(l), round[l].low, round[l].fork)
  <1> DEFINE r == round[l]
             c == chain[Client(l)]
             o == ChainTo[r.original]
             d == ChainTo[r.remote]
             low == r.low
             top == r.next - 1
  <1>1. /\ r \in RoundType /\ r.original \in Heads /\ r.remote \in Heads /\ low \in Nat
        /\ r.next \in Nat /\ r.target \in Nat /\ d \in Seq(Blocks) /\ HeightOf(r.remote) = Len(d)
        /\ HeightOf(r.remote) <= MaxHistoryBlocks /\ Downloading(r) /\ SnapshotKept(c, r)
    BY DownloadFacts
  <1>2. /\ ~ Extension(r) /\ r.fork # <<>> /\ Last(r.fork) = r.remote
    BY LinkFacts DEF RoundOk
  <1>3. ChainSound(c) /\ r.earliest \in Nat
    BY <1>1, LinkFacts DEF RoundType
  <1>4. c.blocks = o /\ o \in Seq(Blocks) /\ HeightOf(r.original) = Len(o) /\ Len(o) \in Nat
    BY <1>1, <1>3, ChainEnds DEF ChainSound, NodeHead, HeightOf
  <1>5. c.floor = r.earliest
    <2>1. ~ Preferred(o, o)
      <3> HIDE DEF o
      <3> QED BY <1>4, PreferredOrder
    <2> QED BY <1>1, <1>4, <2>1 DEF SnapshotKept
  <1>6. /\ low = Common(r.original, r.remote) /\ low < r.next /\ r.target <= Len(d)
        /\ r.next <= r.target + 1 /\ r.fork = SubSeq(d, low + 1, top)
        /\ ~ (HeightOf(r.remote) - low > RoundBlocks) /\ ~ (low < r.earliest)
    BY <1>1, <1>2 DEF Downloading, TooDeep
  <1>7. low <= Len(o) /\ low <= Len(d) /\ Len(d) \in Nat
    BY <1>1, <1>4, <1>6, CommonFacts
  <1>8. SubSeq(o, 1, low) \o SubSeq(d, low + 1, Len(d)) = d
    <2> DEFINE h == r.original
               k == r.remote
    <2>1. SubSeq(ChainTo[h], 1, Common(h, k)) \o SubSeq(ChainTo[k], Common(h, k) + 1, HeightOf(k)) = ChainTo[k]
      <3> HIDE DEF h, k
      <3> QED BY <1>1, ForkJoins DEF h, k
    <2>2. Common(h, k) = low /\ HeightOf(k) = Len(d)
      BY <1>1, <1>6
    <2> QED BY <2>1, <2>2
  <1> HIDE DEF o, d, r, c, low, top
  <1>9. top \in Nat /\ low <= top /\ top <= Len(d)
    <2> DEFINE next == r.next
               target == r.target
               size == Len(d)
    <2>1. /\ low \in Nat /\ next \in Nat /\ target \in Nat /\ size \in Nat
          /\ low < next /\ next <= target + 1 /\ target <= size /\ top = next - 1
      BY <1>1, <1>6, <1>7 DEF top
    <2> HIDE DEF next, target, size
    <2>2. top \in Nat /\ low <= top /\ top <= size
      BY ONLY <2>1
    <2> QED BY <2>2 DEF size
  <1>10. low + 1 <= top
    <2>1. CASE top = low
      <3>1. SubSeq(d, low + 1, low) = <<>>
        BY <1>1
      <3> QED BY <1>2, <1>6, <2>1, <3>1
    <2> QED BY <1>1, <1>9, <2>1
  <1>11. Len(r.fork) = top - low /\ r.remote = d[top]
    <2> DEFINE x == low + 1
    <2>1. x \in Nat /\ 1 <= x /\ x <= top /\ top - x + 1 = top - low
      BY <1>1, <1>9, <1>10
    <2> HIDE DEF x
    <2>2. Len(SubSeq(d, x, top)) = top - x + 1 /\ Last(SubSeq(d, x, top)) = d[top]
      BY ONLY <1>1, <1>9, <2>1, PageFacts
    <2> QED BY <1>2, <1>6, <2>1, <2>2 DEF x
  <1>12. top = Len(d)
    BY <1>1, <1>9, <1>10, <1>11, HeadIsLast DEF d
  <1>13. Len(r.fork) \in 1 .. RecentForkBlocks /\ low + Len(r.fork) <= MaxHistoryBlocks
    <2>1. Len(d) - low <= RoundBlocks /\ Len(d) <= MaxHistoryBlocks
      BY <1>1, <1>6, <1>7, Limits
    <2> QED BY <1>1, <1>7, <1>9, <1>10, <1>11, <1>12, <2>1, Limits
  <1>14. c.floor <= low /\ low <= Len(c.blocks)
    BY <1>1, <1>3, <1>4, <1>5, <1>6, <1>7
  <1>15. SubSeq(c.blocks, 1, low) \o r.fork = ChainTo[Last(r.fork)]
    BY <1>2, <1>4, <1>6, <1>8, <1>12 DEF d
  <1> QED BY <1>13, <1>14, <1>15 DEF Adoptable, r, c, low

LEMMA IInvSound == IInv => RoundSound
  <1> SUFFICES ASSUME IInv PROVE RoundSound
    OBVIOUS
  <1>1. TypeOK
    <2>1. chain \in [Nodes -> [blocks : Seq(Blocks), floor : Nat]]
      <3>1. \A n \in Nodes : chain[n] \in [blocks : Seq(Blocks), floor : Nat]
        BY DEF IInv, ChainSound
      <3> QED BY <3>1 DEF IInv
    <2>2. \A n \in Nodes : chain[n].blocks = ChainTo[NodeHead(n)]
      BY DEF IInv, ChainSound, NodeHead
    <2>3. /\ \A l \in Links : stage[l] \in StageNames /\ round[l] \in RoundType /\ wire[l] \in Messages
      BY LinkFacts
    <2>4. stage \in [Links -> StageNames] /\ round \in [Links -> RoundType] /\ wire \in [Links -> Messages]
      BY <2>3 DEF IInv
    <2>5. declined \in [Links -> {None} \cup [local : Heads, remote : Heads]]
      BY DEF IInv, Lost
    <2> QED BY <2>1, <2>2, <2>4, <2>5 DEF TypeOK, IInv
  <1>2. CommonExact
    <2>1. ASSUME NEW l \in Links, stage[l] \in {"download", "apply", "collected"}
          PROVE  round[l].low = Common(round[l].original, round[l].remote)
      BY <2>1, DownloadFacts DEF Downloading
    <2> QED BY <2>1 DEF CommonExact, Common
  <1>3. ForkPure
    <2>1. ASSUME NEW l \in Links, round[l].fork # <<>>
          PROVE  round[l].fork = SubSeq(ChainTo[round[l].remote], round[l].low + 1, round[l].next - 1)
      <3>1. stage[l] \in {"download", "apply", "collected"}
        BY <2>1, LinkFacts DEF StageNames, RoundOk, Bisecting
      <3>2. Downloading(round[l])
        BY <3>1, DownloadFacts
      <3> QED BY <2>1, <3>2 DEF Downloading
    <2> QED BY <2>1 DEF ForkPure
  <1>4. ForkReachable
    BY CollectedAdoptable DEF ForkReachable
  <1>5. DeclinedSound
    BY DEF IInv, Lost, DeclinedSound
  <1> QED BY <1>1, <1>2, <1>3, <1>4, <1>5 DEF RoundSound

\* The invariant of synchronisation, whatever the peers, the blocks, the weights
\* and the limits: the bounds of synchronize's binary search enclose the common
\* height, every answer of serve_round is about the chain it advertised, and a
\* client's chain is the one its round began with or a better one.
THEOREM Invariance == Spec => []IInv
  <1>1. IInv /\ [Next]_vars => IInv'
    BY NextKeeps
  <1> QED BY InitIInv, <1>1, PTL DEF Spec

\* The rounds of synchronize are sound although both chains move under them: the
\* binary search ends at the common height, the pages make up one piece of the
\* advertised chain, a fork that passes bounded_reorg_requires_recovery can be
\* adopted by adopt_recent_suffix, and the memory of declined forks never hides
\* a better chain.
THEOREM RoundsAreSound == Spec => []RoundSound
  BY Invariance, IInvSound, PTL

\* Between them submit_block, adopt_recent_suffix and a restart move a node only to
\* a chain that outranks the one it leaves.
THEOREM RanksOnlyGrow == Spec => RanksGrow
  <1> DEFINE Rises == \A n \in Nodes : chain'[n].blocks # chain[n].blocks =>
                          Preferred(chain'[n].blocks, chain[n].blocks)
  <1>1. IInv /\ [Next]_vars => [Rises]_vars
    <2> SUFFICES ASSUME IInv, [Next]_vars PROVE Rises
      OBVIOUS
    <2>1. Moves
      BY NextKeeps
    <2> QED BY <2>1 DEF Moves, ChainsMove
  <1>2. RanksGrow <=> [][Rises]_vars
    BY DEF RanksGrow
  <1> HIDE DEF Rises
  <1> QED BY Invariance, <1>1, <1>2, PTL DEF Spec

=============================================================================
