-------------------------- MODULE LocalNode_proofs --------------------------
(***************************************************************************)
(* Proofs about LocalNode: the files and the memory of a node agree and    *)
(* boot again, one checker runs at a time and its premises hold, a process *)
(* writes only what it may, the block store implements ProofCredit, and    *)
(* the shares of a head are kept alike and charged for.                    *)
(*                                                                         *)
(* A handler is a list of writes, each of which can be the last: the proof *)
(* is about the files between two writes and the memory at that moment,    *)
(* and OutcomesSound carries it over to every way the handler can end.     *)
(***************************************************************************)
EXTENDS LocalNode, FiniteSetTheorems, TLAPS

Sequence == Seq(SUBSET Works)

Files(blocks, rewards, rows, dedup, nonces, receipts, ckpt, sessions, made) ==
    [blocks |-> blocks, rewards |-> rewards, rows |-> rows, dedup |-> dedup, nonces |-> nonces,
     receipts |-> receipts, ckpt |-> ckpt, sessions |-> sessions, made |-> made]

Memory(chain, shares, dedup, nonces, sessions, ckpt, poison, authority) ==
    [chain |-> chain, shares |-> shares, dedup |-> dedup, nonces |-> nonces,
     sessions |-> sessions, ckpt |-> ckpt, poison |-> poison, authority |-> authority]

Shares(candidates, active, tombs, used) ==
    [candidates |-> candidates, active |-> active, tombs |-> tombs, used |-> used]

(* Records of these shapes, whatever their fields hold. *)
IsFiles(d) ==
    d = Files(d.blocks, d.rewards, d.rows, d.dedup, d.nonces, d.receipts, d.ckpt, d.sessions, d.made)

IsMemory(n) ==
    n = Memory(n.chain, n.shares, n.dedup, n.nonces, n.sessions, n.ckpt, n.poison, n.authority)

IsShares(s) == s = Shares(s.candidates, s.active, s.tombs, s.used)

IsJob(j) ==
    j = [lane |-> j.lane, item |-> j.item, nonce |-> j.nonce, anchor |-> j.anchor, attached |-> j.attached]

(* BurnFirst, of any files. *)
BurnSound(d) ==
    /\ \A made \in d.made : made[1] \in d.nonces
    /\ \A m1, m2 \in d.made : m1[1] = m2[1] => m1 = m2
    /\ d.receipts \subseteq {made[1] : made \in d.made}

(* What every state of the files satisfies, between two writes too. *)
FilesSound(d) ==
    /\ IsFiles(d)
    /\ d.blocks \in Sequence /\ d.ckpt \in Sequence
    /\ ReplayOk(d.blocks)
    /\ checker => WorksOf(d.blocks) \subseteq Valid
    /\ WorksOf(d.ckpt) \subseteq Valid
    /\ BurnSound(d)

SharesEligible(s) ==
    /\ IsShares(s)
    /\ s.candidates \subseteq Works /\ s.tombs \in Seq(Keys)
    /\ checker => s.candidates \subseteq Valid

(* What every memory satisfies by itself. *)
MemorySound(n) ==
    /\ IsMemory(n)
    /\ SharesEligible(n.shares)
    /\ n.chain \in Sequence /\ n.ckpt \in Sequence
    /\ WorksOf(n.ckpt) \subseteq Valid
    /\ n.poison = "none" => PrefixOf(n.ckpt, n.chain)

(* What a running process knows of its files. *)
Served(d, n) ==
    n.poison = "none" =>
        /\ d.blocks = n.chain /\ d.rewards = n.chain /\ d.rows = n.chain
        /\ d.dedup = n.dedup

Owned(d, n) == n.authority => d.nonces = n.nonces /\ d.sessions = n.sessions

Agrees(d, n) == Served(d, n) /\ Owned(d, n)

(* A job and the state it was started in, which waits for it. *)
ShareJob(j) ==
    /\ j.item \in Works
    /\ j.anchor = node.chain
    /\ Key(j.item) \in ToSet(node.shares.tombs)
    /\ Key(j.item) \notin node.shares.active
    /\ j.item \notin node.shares.candidates

BlockJob(j) ==
    /\ j.item \in Sequence
    /\ PrefixOf(node.chain, j.item) /\ Len(j.item) = Len(node.chain) + 1

ChainJob(j) ==
    /\ j.item \in Sequence
    /\ WorksOf(j.item) \subseteq Valid \cup WorksOf(j.anchor)
    /\ ChooseCandidate(node.chain, j.item)

JobSound(j) ==
    /\ IsJob(j)
    /\ j.lane \in {"http", "share", "block", "chain"}
    /\ j.lane \in {"http", "share"} => ShareJob(j)
    /\ j.lane = "block" => BlockJob(j)
    /\ j.lane = "chain" => ChainJob(j)

JobsSound ==
    /\ \A j \in jobs : JobSound(j)
    /\ \A i, j \in jobs : i = j
    /\ busy \in BOOLEAN /\ (busy <=> jobs # {})
    /\ jobs # {} => up /\ checker

(* The inductive invariant. *)
IInv ==
    /\ up \in BOOLEAN /\ checker \in BOOLEAN
    /\ FilesSound(disk)
    /\ MemorySound(node)
    /\ up => Agrees(disk, node)
    /\ JobsSound

-----------------------------------------------------------------------------
(* Chains. *)

(* PrefixOf, position by position. *)
LEMMA PrefixElements ==
  ASSUME NEW c \in Sequence, NEW d \in Sequence
  PROVE  PrefixOf(c, d) <=> Len(c) <= Len(d) /\ \A i \in 1..Len(c) : c[i] = d[i]
  <1>1. ASSUME Len(c) <= Len(d)
        PROVE  /\ SubSeq(d, 1, Len(c)) \in Sequence /\ Len(SubSeq(d, 1, Len(c))) = Len(c)
               /\ \A i \in 1..Len(c) : SubSeq(d, 1, Len(c))[i] = d[i]
    BY <1>1 DEF Sequence
  <1>2. ASSUME NEW e \in Sequence, Len(e) = Len(c), \A i \in 1..Len(c) : c[i] = e[i]
        PROVE  c = e
    BY <1>2 DEF Sequence
  <1>3. ASSUME Len(c) <= Len(d), \A i \in 1..Len(c) : c[i] = d[i]
        PROVE  c = SubSeq(d, 1, Len(c))
    BY <1>1, <1>2, <1>3
  <1> QED BY <1>1, <1>3 DEF PrefixOf

LEMMA WorksElement ==
  ASSUME NEW c \in Sequence
  PROVE  \A w : w \in WorksOf(c) <=> \E i \in 1..Len(c) : w \in c[i]
  BY DEF WorksOf, Sequence

LEMMA EmptyChain == <<>> \in Sequence /\ Len(<<>>) = 0 /\ WorksOf(<<>>) = {}
  BY DEF WorksOf, Sequence

(* The works of a prefix are works of the chain. *)
LEMMA WorksPrefix ==
  ASSUME NEW c \in Sequence, NEW d \in Sequence, PrefixOf(c, d)
  PROVE  WorksOf(c) \subseteq WorksOf(d)
  <1>1. Len(c) \in Nat /\ Len(d) \in Nat
    BY DEF Sequence
  <1>2. Len(c) <= Len(d) /\ \A i \in 1..Len(c) : c[i] = d[i]
    BY PrefixElements
  <1> QED BY <1>1, <1>2, WorksElement

(* A chain one block longer than its prefix. *)
LEMMA Extension ==
  ASSUME NEW c \in Sequence, NEW d \in Sequence, PrefixOf(c, d), Len(d) = Len(c) + 1
  PROVE  /\ Last(d) \in SUBSET Works
         /\ WorksOf(d) = WorksOf(c) \cup Last(d)
  <1>1. Len(c) \in Nat /\ Len(d) \in Nat /\ Last(d) = d[Len(c) + 1] /\ d[Len(c) + 1] \in SUBSET Works
    BY DEF Sequence, Last
  <1>2. \A i \in 1..Len(c) : c[i] = d[i]
    BY PrefixElements
  <1>3. \A w : w \in WorksOf(d) <=> w \in WorksOf(c) \/ w \in Last(d)
    BY <1>1, <1>2, WorksElement
  <1> QED BY <1>1, <1>3

LEMMA AppendExtends ==
  ASSUME NEW c \in Sequence, NEW b \in SUBSET Works
  PROVE  /\ Append(c, b) \in Sequence
         /\ Len(Append(c, b)) = Len(c) + 1
         /\ PrefixOf(c, Append(c, b))
         /\ Last(Append(c, b)) = b
  <1>1. Append(c, b) \in Sequence /\ Len(Append(c, b)) = Len(c) + 1
    BY DEF Sequence
  <1>2. Len(c) \in Nat /\ \A i \in 1..Len(c) : c[i] = Append(c, b)[i]
    BY DEF Sequence
  <1>3. PrefixOf(c, Append(c, b))
    <2> DEFINE e == Append(c, b)
    <2>1. e \in Sequence /\ Len(c) <= Len(e) /\ \A i \in 1..Len(c) : c[i] = e[i]
      BY <1>1, <1>2
    <2> HIDE DEF e
    <2>2. PrefixOf(c, e)
      BY <2>1, PrefixElements
    <2> QED BY <2>2 DEF e
  <1>4. Last(Append(c, b)) = b
    BY <1>1 DEF Sequence, Last
  <1> QED BY <1>1, <1>3, <1>4

LEMMA PrefixTransitive ==
  ASSUME NEW c \in Sequence, NEW d \in Sequence, NEW e \in Sequence, PrefixOf(c, d), PrefixOf(d, e)
  PROVE  PrefixOf(c, e)
  <1>1. Len(c) \in Nat /\ Len(d) \in Nat /\ Len(e) \in Nat
    BY DEF Sequence
  <1> QED BY <1>1, PrefixElements

LEMMA EmptyPrefix ==
  ASSUME NEW c \in Sequence
  PROVE  PrefixOf(<<>>, c)
  <1>1. Len(c) \in Nat
    BY DEF Sequence
  <1> QED BY <1>1, EmptyChain, PrefixElements

LEMMA Surviving ==
  ASSUME NEW k \in Sequence, NEW c \in Sequence
  PROVE  /\ SurvivingCkpt(k, c) \in Sequence
         /\ PrefixOf(SurvivingCkpt(k, c), c)
         /\ WorksOf(SurvivingCkpt(k, c)) \subseteq WorksOf(k)
         /\ SurvivingCkpt(k, c) \in {k, <<>>}
  BY EmptyChain, EmptyPrefix DEF SurvivingCkpt

(* Every work of a chain is in its verified prefix or above it. *)
LEMMA WorksAbove ==
  ASSUME NEW k \in Sequence, NEW c \in Sequence, PrefixOf(k, c)
  PROVE  WorksOf(c) \subseteq WorksOf(k) \cup WorksOf(SubSeq(c, Len(k) + 1, Len(c)))
  <1> DEFINE s == SubSeq(c, Len(k) + 1, Len(c))
  <1>1. Len(k) \in Nat /\ Len(c) \in Nat /\ Len(k) <= Len(c) /\ \A i \in 1..Len(k) : k[i] = c[i]
    BY PrefixElements DEF Sequence
  <1>2. s \in Sequence /\ Len(s) = Len(c) - Len(k)
    BY <1>1 DEF Sequence
  <1>3. \A i \in 1..Len(s) : s[i] = c[i + Len(k)]
    BY <1>1, <1>2 DEF Sequence
  <1> HIDE DEF s
  <1>4. ASSUME NEW w \in WorksOf(c) PROVE w \in WorksOf(k) \/ w \in WorksOf(s)
    <2>1. PICK i \in 1..Len(c) : w \in c[i]
      BY <1>4, WorksElement
    <2>2. CASE i <= Len(k)
      BY <1>1, <2>1, <2>2, WorksElement
    <2>3. CASE i > Len(k)
      <3>1. i - Len(k) \in 1..Len(s) /\ s[i - Len(k)] = c[i]
        BY <1>1, <1>2, <1>3, <2>1, <2>3
      <3> QED BY <1>2, <2>1, <3>1, WorksElement
    <2> QED BY <1>1, <2>1, <2>2, <2>3
  <1> QED BY <1>4 DEF s

-----------------------------------------------------------------------------
(* Weights. *)

Sums(c, f) == f = [h \in 0..Len(c) |-> IF h = 0 THEN 0 ELSE f[h - 1] + Difficulty(c[h])]

(* Every non-empty set of naturals has a least element. *)
LEMMA LeastNatural ==
  ASSUME NEW T \in SUBSET Nat, T # {}
  PROVE  \E n \in T : \A m \in T : n <= m
  <1>1. PICK x \in T : \A y \in T : ~ (<<y, x>> \in OpToRel(<, Nat))
    BY NatLessThanWellFounded, WFMin
  <1>2. \A y \in T : ~(y < x)
    BY <1>1 DEF OpToRel
  <1> QED BY <1>2

(* The sum over a chain exists: a shortest prefix without one would have a
   predecessor with one, which the next block's weight extends. *)
LEMMA SumsExist ==
  ASSUME NEW c \in Sequence
  PROVE  \E f : Sums(c, f)
  <1> DEFINE E(n) == \E f : f = [h \in 0..n |-> IF h = 0 THEN 0 ELSE f[h - 1] + Difficulty(c[h])]
             T == {n \in Nat : ~E(n)}
  <1>1. E(0)
    <2>1. [h \in 0..0 |-> 0] = [h \in 0..0 |-> IF h = 0 THEN 0 ELSE [j \in 0..0 |-> 0][h - 1] + Difficulty(c[h])]
      OBVIOUS
    <2> QED BY <2>1
  <1>2. ASSUME NEW n \in Nat, E(n) PROVE E(n + 1)
    <2>1. PICK f : f = [h \in 0..n |-> IF h = 0 THEN 0 ELSE f[h - 1] + Difficulty(c[h])]
      BY <1>2
    <2> DEFINE g == [h \in 0..(n + 1) |-> IF h = n + 1 THEN f[n] + Difficulty(c[n + 1]) ELSE f[h]]
    <2>2. ASSUME NEW h \in 0..(n + 1) PROVE g[h] = IF h = 0 THEN 0 ELSE g[h - 1] + Difficulty(c[h])
      <3>1. CASE h = n + 1
        BY <3>1
      <3>2. CASE h # n + 1
        <4>1. h \in 0..n /\ g[h] = f[h] /\ (h # 0 => g[h - 1] = f[h - 1])
          BY <3>2
        <4> QED BY <2>1, <4>1
      <3> QED BY <3>1, <3>2
    <2>3. g = [h \in 0..(n + 1) |-> IF h = 0 THEN 0 ELSE g[h - 1] + Difficulty(c[h])]
      BY <2>2
    <2> QED BY <2>3
  <1>3. T = {}
    <2> SUFFICES ASSUME T # {} PROVE FALSE
      OBVIOUS
    <2>1. PICK n \in T : \A m \in T : n <= m
      BY LeastNatural
    <2> HIDE DEF E
    <2>2. n # 0
      BY <1>1, <2>1
    <2>3. n - 1 \in Nat /\ E(n - 1)
      BY <2>1, <2>2
    <2> QED BY <1>2, <2>1, <2>3
  <1>4. Len(c) \in Nat
    BY DEF Sequence
  <1> QED BY <1>3, <1>4 DEF Sums

LEMMA WeightSums ==
  ASSUME NEW c \in Sequence
  PROVE  \E f : Sums(c, f) /\ Weight(c) = f[Len(c)]
  <1> DEFINE u == CHOOSE f : Sums(c, f)
  <1>1. Sums(c, u)
    BY SumsExist
  <1>2. Weight(c) = u[Len(c)]
    BY DEF Weight, Sums
  <1> QED BY <1>1, <1>2

(* A chain is heavier than any shorter prefix of it. *)
LEMMA PrefixIsLighter ==
  ASSUME NEW c \in Sequence, NEW d \in Sequence, PrefixOf(c, d), Len(c) < Len(d),
         \A i \in 1..Len(d) : d[i] # {}
  PROVE  Weight(c) \in Nat /\ Weight(d) \in Nat /\ Weight(c) < Weight(d)
  <1>1. PICK f : Sums(c, f) /\ Weight(c) = f[Len(c)]
    BY WeightSums
  <1>2. PICK g : Sums(d, g) /\ Weight(d) = g[Len(d)]
    BY WeightSums
  <1>3. Len(c) \in Nat /\ Len(d) \in Nat /\ \A i \in 1..Len(c) : c[i] = d[i]
    BY PrefixElements DEF Sequence
  <1>4. \A i \in 1..Len(d) : Difficulty(d[i]) \in Nat \ {0}
    <2>1. \A i \in 1..Len(d) : d[i] \in Blocks
      BY DEF Sequence, Blocks
    <2> QED BY <2>1, DifficultyAssumption
  <1>5. f[0] = 0 /\ \A i \in 1..Len(c) : f[i] = f[i - 1] + Difficulty(d[i])
    <2>1. \A i \in 0..Len(c) : f[i] = IF i = 0 THEN 0 ELSE f[i - 1] + Difficulty(c[i])
      BY <1>1 DEF Sums
    <2> QED BY <1>3, <2>1
  <1>6. g[0] = 0 /\ \A i \in 1..Len(d) : g[i] = g[i - 1] + Difficulty(d[i])
    <2>1. \A i \in 0..Len(d) : g[i] = IF i = 0 THEN 0 ELSE g[i - 1] + Difficulty(d[i])
      BY <1>2 DEF Sums
    <2> QED BY <1>3, <2>1
  <1> DEFINE Bad == {i \in 0..Len(d) :
                 ~ (g[i] \in Nat /\ (i <= Len(c) => f[i] = g[i]) /\ (i > Len(c) => g[i] > g[Len(c)]))}
  <1>7. Bad = {}
    <2> SUFFICES ASSUME Bad # {} PROVE FALSE
      OBVIOUS
    <2>0. Bad \in SUBSET Nat
      BY <1>3
    <2>1. PICK n \in Bad : \A m \in Bad : n <= m
      <3> HIDE DEF Bad
      <3> QED BY <2>0, LeastNatural
    <2>2. n \in 1..Len(d)
      BY <1>3, <1>5, <1>6, <2>1
    <2>3. n - 1 \in 0..Len(d) /\ n - 1 \notin Bad
      BY <1>3, <2>1, <2>2
    <2>4. /\ g[n - 1] \in Nat /\ (n - 1 <= Len(c) => f[n - 1] = g[n - 1])
          /\ (n - 1 > Len(c) => g[n - 1] > g[Len(c)])
      BY <2>3
    <2>5. g[n] = g[n - 1] + Difficulty(d[n]) /\ Difficulty(d[n]) \in Nat \ {0}
      BY <1>4, <1>6, <2>2
    <2>6. g[n] \in Nat /\ g[n] > g[n - 1]
      BY <2>4, <2>5
    <2>7. n <= Len(c) => f[n] = g[n]
      BY <1>3, <1>5, <2>2, <2>4, <2>5
    <2>8. n > Len(c) => g[n] > g[Len(c)]
      <3>1. CASE n - 1 = Len(c)
        BY <2>6, <3>1
      <3>2. CASE n - 1 > Len(c)
        <4>1. Len(c) \in 0..Len(d) /\ Len(c) < n
          BY <1>3, <2>2, <3>2
        <4>2. Len(c) \notin Bad
          BY <1>3, <2>1, <4>1
        <4>3. g[Len(c)] \in Nat
          BY <4>1, <4>2
        <4> QED BY <2>4, <2>6, <3>2, <4>3
      <3> QED BY <1>3, <2>2, <3>1, <3>2
    <2> QED BY <2>1, <2>6, <2>7, <2>8
  <1>8. Len(c) \in 0..Len(d) /\ Len(d) \in 0..Len(d) /\ Len(c) \notin Bad /\ Len(d) \notin Bad
    BY <1>3, <1>7
  <1> QED BY <1>1, <1>2, <1>3, <1>8

(* A prefix of the served chain never displaces it. *)
LEMMA PrefixLoses ==
  ASSUME NEW c \in Sequence, NEW d \in Sequence, PrefixOf(c, d), ReplayOk(d)
  PROVE  ~ ChooseCandidate(d, c)
  <1>1. \A i \in 1..Len(d) : d[i] # {}
    BY DEF ReplayOk, HasProposer, Sequence
  <1>2. Len(c) \in Nat /\ Len(d) \in Nat /\ Len(c) <= Len(d)
    BY PrefixElements DEF Sequence
  <1>3. CASE Len(c) = Len(d)
    <2>1. \A i \in 1..Len(c) : c[i] = d[i]
      BY PrefixElements
    <2>2. c = d
      BY <1>3, <2>1 DEF Sequence
    <2> QED BY <2>2 DEF ChooseCandidate
  <1>4. CASE Len(c) < Len(d)
    <2>1. Weight(c) \in Nat /\ Weight(d) \in Nat /\ Weight(c) < Weight(d)
      BY <1>1, <1>4, PrefixIsLighter
    <2>2. d # <<>>
      BY <1>2, <1>4
    <2> QED BY <2>1, <2>2 DEF ChooseCandidate
  <1> QED BY <1>2, <1>3, <1>4

-----------------------------------------------------------------------------
(* Records. *)

(* A memory with some of its fields changed. *)
LEMMA MemoryUpdate ==
  ASSUME NEW n, IsMemory(n), NEW v
  PROVE  /\ [n EXCEPT !.chain = v] = Memory(v, n.shares, n.dedup, n.nonces, n.sessions, n.ckpt, n.poison, n.authority)
         /\ [n EXCEPT !.shares = v] = Memory(n.chain, v, n.dedup, n.nonces, n.sessions, n.ckpt, n.poison, n.authority)
         /\ [n EXCEPT !.dedup = v] = Memory(n.chain, n.shares, v, n.nonces, n.sessions, n.ckpt, n.poison, n.authority)
         /\ [n EXCEPT !.nonces = v] = Memory(n.chain, n.shares, n.dedup, v, n.sessions, n.ckpt, n.poison, n.authority)
         /\ [n EXCEPT !.sessions = v] = Memory(n.chain, n.shares, n.dedup, n.nonces, v, n.ckpt, n.poison, n.authority)
         /\ [n EXCEPT !.ckpt = v] = Memory(n.chain, n.shares, n.dedup, n.nonces, n.sessions, v, n.poison, n.authority)
         /\ [n EXCEPT !.poison = v] = Memory(n.chain, n.shares, n.dedup, n.nonces, n.sessions, n.ckpt, v, n.authority)
         /\ [n EXCEPT !.authority = v] = Memory(n.chain, n.shares, n.dedup, n.nonces, n.sessions, n.ckpt, n.poison, v)
  <1>1. PICK f1, f2, f3, f4, f5, f6, f7, f8 : n = Memory(f1, f2, f3, f4, f5, f6, f7, f8)
    BY DEF IsMemory
  <1> QED BY <1>1 DEF Memory

(* A memory with its authority changed, and without it. *)
LEMMA MemoryAuthority ==
  ASSUME NEW n, IsMemory(n), NEW v
  PROVE  [n EXCEPT !.authority = v] = Memory(n.chain, n.shares, n.dedup, n.nonces, n.sessions, n.ckpt, n.poison, v)
  <1>1. PICK f1, f2, f3, f4, f5, f6, f7, f8 : n = Memory(f1, f2, f3, f4, f5, f6, f7, f8)
    BY DEF IsMemory
  <1> QED BY <1>1 DEF Memory

LEMMA MemoryFenced ==
  ASSUME NEW n, IsMemory(n)
  PROVE  [n EXCEPT !.authority = FALSE] = Memory(n.chain, n.shares, n.dedup, n.nonces, n.sessions, n.ckpt, n.poison, FALSE)
  <1> DEFINE b == FALSE
  <1> HIDE DEF b
  <1>1. [n EXCEPT !.authority = b] = Memory(n.chain, n.shares, n.dedup, n.nonces, n.sessions, n.ckpt, n.poison, b)
    BY MemoryAuthority
  <1> QED BY <1>1 DEF b

(* Files with some of them changed. *)
LEMMA FilesUpdate ==
  ASSUME NEW d, IsFiles(d), NEW v
  PROVE  /\ [d EXCEPT !.blocks = v] = Files(v, d.rewards, d.rows, d.dedup, d.nonces, d.receipts, d.ckpt, d.sessions, d.made)
         /\ [d EXCEPT !.rewards = v] = Files(d.blocks, v, d.rows, d.dedup, d.nonces, d.receipts, d.ckpt, d.sessions, d.made)
         /\ [d EXCEPT !.rows = v] = Files(d.blocks, d.rewards, v, d.dedup, d.nonces, d.receipts, d.ckpt, d.sessions, d.made)
         /\ [d EXCEPT !.dedup = v] = Files(d.blocks, d.rewards, d.rows, v, d.nonces, d.receipts, d.ckpt, d.sessions, d.made)
         /\ [d EXCEPT !.nonces = v] = Files(d.blocks, d.rewards, d.rows, d.dedup, v, d.receipts, d.ckpt, d.sessions, d.made)
         /\ [d EXCEPT !.receipts = v] = Files(d.blocks, d.rewards, d.rows, d.dedup, d.nonces, v, d.ckpt, d.sessions, d.made)
         /\ [d EXCEPT !.ckpt = v] = Files(d.blocks, d.rewards, d.rows, d.dedup, d.nonces, d.receipts, v, d.sessions, d.made)
         /\ [d EXCEPT !.sessions = v] = Files(d.blocks, d.rewards, d.rows, d.dedup, d.nonces, d.receipts, d.ckpt, v, d.made)
         /\ [d EXCEPT !.made = v] = Files(d.blocks, d.rewards, d.rows, d.dedup, d.nonces, d.receipts, d.ckpt, d.sessions, v)
  <1>1. PICK f1, f2, f3, f4, f5, f6, f7, f8, f9 : d = Files(f1, f2, f3, f4, f5, f6, f7, f8, f9)
    BY DEF IsFiles
  <1> QED BY <1>1 DEF Files

(* Shares with one collection changed. *)
LEMMA SharesUpdate ==
  ASSUME NEW s, IsShares(s), NEW v
  PROVE  /\ [s EXCEPT !.candidates = v] = Shares(v, s.active, s.tombs, s.used)
         /\ [s EXCEPT !.active = v] = Shares(s.candidates, v, s.tombs, s.used)
         /\ [s EXCEPT !.tombs = v] = Shares(s.candidates, s.active, v, s.used)
         /\ [s EXCEPT !.used = v] = Shares(s.candidates, s.active, s.tombs, v)
  <1>1. PICK f1, f2, f3, f4 : s = Shares(f1, f2, f3, f4)
    BY DEF IsShares
  <1> QED BY <1>1 DEF Shares

LEMMA HeadUpdate ==
  ASSUME NEW n, IsMemory(n), NEW v, NEW u
  PROVE  [n EXCEPT !.chain = v, !.shares = u] =
            Memory(v, u, n.dedup, n.nonces, n.sessions, n.ckpt, n.poison, n.authority)
  <1> DEFINE m == [n EXCEPT !.chain = v]
  <1>1. [n EXCEPT !.chain = v, !.shares = u] = [m EXCEPT !.shares = u]
    OBVIOUS
  <1>2. m = Memory(v, n.shares, n.dedup, n.nonces, n.sessions, n.ckpt, n.poison, n.authority)
    BY MemoryUpdate
  <1> HIDE DEF m
  <1>3. IsMemory(m)
    BY <1>2 DEF IsMemory, Memory
  <1>4. [m EXCEPT !.shares = u] = Memory(m.chain, u, m.dedup, m.nonces, m.sessions, m.ckpt, m.poison, m.authority)
    BY <1>3, MemoryUpdate
  <1>5. Memory(m.chain, u, m.dedup, m.nonces, m.sessions, m.ckpt, m.poison, m.authority) =
            Memory(v, u, n.dedup, n.nonces, n.sessions, n.ckpt, n.poison, n.authority)
    BY <1>2 DEF Memory
  <1> QED BY <1>1, <1>4, <1>5

-----------------------------------------------------------------------------
(* Handlers. *)

(* The files of a handler that may store the chain next and burn N. *)
FilesOk(d, next, N) ==
    /\ FilesSound(d)
    /\ d.blocks \in {disk.blocks, next}
    /\ d.nonces \subseteq disk.nonces \cup N

WriteSound(before, w, next, N) ==
    /\ FilesOk(w.disk, next, N)
    /\ MemorySound(w.during)
    /\ Agrees(before, w.during)
    /\ Served(w.disk, w.during)
    /\ w.rewrite => Owned(w.disk, w.during)

FilesAfter(start, writes) == FilesBefore(start, writes, Len(writes) + 1)

WritesSound(start, writes, next, N) ==
    /\ \E S : writes \in Seq(S)
    /\ \A i \in 1..Len(writes) : WriteSound(FilesBefore(start, writes, i), writes[i], next, N)

EndSound(o, next, N) ==
    /\ o = [disk |-> o.disk, node |-> o.node, end |-> o.end]
    /\ FilesOk(o.disk, next, N)
    /\ MemorySound(o.node)
    /\ o.end # "crash" => Agrees(o.disk, o.node)

LEMMA NoWrites ==
  ASSUME NEW start, NEW next, NEW N
  PROVE  WritesSound(start, <<>>, next, N) /\ FilesAfter(start, <<>>) = start
  <1>1. <<>> \in Seq({}) /\ Len(<<>>) = 0
    OBVIOUS
  <1> QED BY <1>1 DEF WritesSound, FilesAfter, FilesBefore

LEMMA OneWrite ==
  ASSUME NEW start, NEW next, NEW N, NEW a, WriteSound(start, a, next, N)
  PROVE  WritesSound(start, <<a>>, next, N) /\ FilesAfter(start, <<a>>) = a.disk
  <1> DEFINE s == <<a>>
  <1>1. s \in Seq({a}) /\ Len(s) = 1 /\ s[1] = a
    OBVIOUS
  <1> HIDE DEF s
  <1>2. \A i \in 1..Len(s) : i = 1
    BY <1>1
  <1>3. FilesBefore(start, s, 1) = start /\ FilesBefore(start, s, Len(s) + 1) = a.disk
    BY <1>1 DEF FilesBefore
  <1>4. WritesSound(start, s, next, N) /\ FilesAfter(start, s) = a.disk
    BY <1>1, <1>2, <1>3 DEF WritesSound, FilesAfter
  <1> QED BY <1>4 DEF s

(* One handler after another. *)
LEMMA MoreWrites ==
  ASSUME NEW start, NEW next, NEW N, NEW a, NEW b,
         WritesSound(start, a, next, N), WritesSound(FilesAfter(start, a), b, next, N)
  PROVE  /\ WritesSound(start, a \o b, next, N)
         /\ FilesAfter(start, a \o b) = FilesAfter(FilesAfter(start, a), b)
  <1>1. PICK S : a \in Seq(S)
    BY DEF WritesSound
  <1>2. PICK T : b \in Seq(T)
    BY DEF WritesSound
  <1> DEFINE c == a \o b
  <1>3. a \in Seq(S \cup T) /\ b \in Seq(S \cup T)
    BY <1>1, <1>2
  <1>4. /\ c \in Seq(S \cup T) /\ Len(a) \in Nat /\ Len(b) \in Nat /\ Len(c) = Len(a) + Len(b)
        /\ \A i \in 1..Len(a) : c[i] = a[i]
        /\ \A i \in 1..Len(b) : c[Len(a) + i] = b[i]
    BY <1>3
  <1> HIDE DEF c
  <1>5. \A i \in 1..Len(a) + 1 : FilesBefore(start, c, i) = FilesBefore(start, a, i)
    BY <1>4 DEF FilesBefore
  <1>6. \A i \in 1..Len(b) + 1 : FilesBefore(start, c, Len(a) + i) = FilesBefore(FilesAfter(start, a), b, i)
    <2> TAKE i \in 1..Len(b) + 1
    <2>1. CASE i = 1
      BY <1>4, <1>5, <2>1 DEF FilesAfter, FilesBefore
    <2>2. CASE i # 1
      <3>1. i - 1 \in 1..Len(b) /\ Len(a) + i # 1 /\ Len(a) + i - 1 = Len(a) + (i - 1)
        BY <1>4, <2>2
      <3>2. c[Len(a) + i - 1] = b[i - 1]
        BY <1>4, <3>1
      <3> QED BY <2>2, <3>1, <3>2 DEF FilesBefore
    <2> QED BY <2>1, <2>2
  <1>7. ASSUME NEW i \in 1..Len(c) PROVE WriteSound(FilesBefore(start, c, i), c[i], next, N)
    <2>1. CASE i <= Len(a)
      BY <1>4, <1>5, <2>1 DEF WritesSound
    <2>2. CASE i > Len(a)
      <3>1. i - Len(a) \in 1..Len(b) /\ i = Len(a) + (i - Len(a))
        BY <1>4, <2>2
      <3>2. WriteSound(FilesBefore(FilesAfter(start, a), b, i - Len(a)), b[i - Len(a)], next, N)
        BY <3>1 DEF WritesSound
      <3>3. c[i] = b[i - Len(a)] /\ FilesBefore(start, c, i) = FilesBefore(FilesAfter(start, a), b, i - Len(a))
        BY <1>4, <1>6, <3>1
      <3> QED BY <3>2, <3>3
    <2> QED BY <1>4, <2>1, <2>2
  <1>8. WritesSound(start, c, next, N)
    BY <1>4, <1>7 DEF WritesSound
  <1>9. FilesAfter(start, c) = FilesAfter(FilesAfter(start, a), b)
    <2>1. Len(b) + 1 \in 1..Len(b) + 1 /\ Len(c) + 1 = Len(a) + (Len(b) + 1)
      BY <1>4
    <2>2. FilesBefore(start, c, Len(a) + (Len(b) + 1)) = FilesBefore(FilesAfter(start, a), b, Len(b) + 1)
      BY <1>6, <2>1
    <2> QED BY <2>1, <2>2 DEF FilesAfter
  <1> QED BY <1>8, <1>9 DEF c

LEMMA ThreeWrites ==
  ASSUME NEW start, NEW next, NEW N, NEW a, NEW b, NEW c,
         WriteSound(start, a, next, N), WriteSound(a.disk, b, next, N), WriteSound(b.disk, c, next, N)
  PROVE  WritesSound(start, <<a, b, c>>, next, N) /\ FilesAfter(start, <<a, b, c>>) = c.disk
  <1> DEFINE s == <<a, b, c>>
  <1>1. s \in Seq({a, b, c}) /\ Len(s) = 3 /\ s[1] = a /\ s[2] = b /\ s[3] = c
    OBVIOUS
  <1> HIDE DEF s
  <1>2. \A i \in 1..Len(s) : i = 1 \/ i = 2 \/ i = 3
    BY <1>1
  <1>3. /\ FilesBefore(start, s, 1) = start /\ FilesBefore(start, s, 2) = a.disk
        /\ FilesBefore(start, s, 3) = b.disk /\ FilesBefore(start, s, Len(s) + 1) = c.disk
    BY <1>1 DEF FilesBefore
  <1>4. WritesSound(start, s, next, N) /\ FilesAfter(start, s) = c.disk
    BY <1>1, <1>2, <1>3 DEF WritesSound, FilesAfter
  <1> QED BY <1>4 DEF s

LEMMA FourWrites ==
  ASSUME NEW start, NEW next, NEW N, NEW a, NEW b, NEW c, NEW e,
         WriteSound(start, a, next, N), WriteSound(a.disk, b, next, N), WriteSound(b.disk, c, next, N),
         WriteSound(c.disk, e, next, N)
  PROVE  WritesSound(start, <<a, b, c, e>>, next, N) /\ FilesAfter(start, <<a, b, c, e>>) = e.disk
  <1> DEFINE s == <<a, b, c, e>>
  <1>1. s \in Seq({a, b, c, e}) /\ Len(s) = 4 /\ s[1] = a /\ s[2] = b /\ s[3] = c /\ s[4] = e
    OBVIOUS
  <1> HIDE DEF s
  <1>2. \A i \in 1..Len(s) : i = 1 \/ i = 2 \/ i = 3 \/ i = 4
    BY <1>1
  <1>3. /\ FilesBefore(start, s, 1) = start /\ FilesBefore(start, s, 2) = a.disk
        /\ FilesBefore(start, s, 3) = b.disk /\ FilesBefore(start, s, 4) = c.disk
        /\ FilesBefore(start, s, Len(s) + 1) = e.disk
    BY <1>1 DEF FilesBefore
  <1>4. WritesSound(start, s, next, N) /\ FilesAfter(start, s) = e.disk
    BY <1>1, <1>2, <1>3 DEF WritesSound, FilesAfter
  <1> QED BY <1>4 DEF s

LEMMA HaltedIs ==
  Halted = Memory(<<>>, EmptyShares, Credited(<<>>), {}, [pk \in Pks |-> "none"], <<>>, "none", FALSE)
  <1> DEFINE b == Booted(NoFiles)
  <1>1. b = Memory(<<>>, EmptyShares, Credited(<<>>), {}, [pk \in Pks |-> "none"], <<>>, "none", TRUE)
    BY DEF Booted, NoFiles, SurvivingCkpt, Memory
  <1>2. Halted = [b EXCEPT !.authority = FALSE]
    BY DEF Halted
  <1> HIDE DEF b
  <1>3. /\ b.chain = <<>> /\ b.shares = EmptyShares /\ b.dedup = Credited(<<>>) /\ b.nonces = {}
        /\ b.sessions = [pk \in Pks |-> "none"] /\ b.ckpt = <<>> /\ b.poison = "none"
    BY <1>1 DEF Memory
  <1>4. IsMemory(b)
    BY <1>1 DEF IsMemory, Memory
  <1>5. [b EXCEPT !.authority = FALSE] =
            Memory(b.chain, b.shares, b.dedup, b.nonces, b.sessions, b.ckpt, b.poison, FALSE)
    BY <1>4, MemoryFenced
  <1> QED BY <1>2, <1>3, <1>5

LEMMA HaltedSound == MemorySound(Halted)
  <1>1. SharesEligible(EmptyShares)
    BY DEF SharesEligible, EmptyShares, IsShares, Shares
  <1>2. PrefixOf(<<>>, <<>>)
    BY EmptyChain, EmptyPrefix
  <1> QED BY <1>1, <1>2, HaltedIs, EmptyChain DEF MemorySound, IsMemory, Memory

(* Every way a handler can end. *)
LEMMA OutcomesSound ==
  ASSUME NEW start, NEW writes, NEW done, NEW next, NEW N,
         FilesOk(start, next, N), WritesSound(start, writes, next, N),
         MemorySound(done), Agrees(FilesAfter(start, writes), done),
         NEW o \in Outcomes(start, writes, done, Halted)
  PROVE  EndSound(o, next, N)
  <1>1. PICK S : writes \in Seq(S)
    BY DEF WritesSound
  <1>2. Len(writes) \in Nat /\ DOMAIN writes = 1..Len(writes)
    BY <1>1
  <1>3. \A i \in 1..Len(writes) : WriteSound(FilesBefore(start, writes, i), writes[i], next, N)
    BY DEF WritesSound
  <1>4. \A i \in 1..Len(writes) + 1 : FilesOk(FilesBefore(start, writes, i), next, N)
    <2> TAKE i \in 1..Len(writes) + 1
    <2>1. CASE i = 1
      BY <2>1 DEF FilesBefore
    <2>2. CASE i # 1
      <3>1. i - 1 \in 1..Len(writes)
        BY <1>2, <2>2
      <3>2. FilesOk(writes[i - 1].disk, next, N)
        BY <1>3, <3>1 DEF WriteSound
      <3> QED BY <2>2, <3>2 DEF FilesBefore
    <2> QED BY <2>1, <2>2
  <1>5. CASE o \in Completed(start, writes, done)
    <2>1. o = [disk |-> FilesAfter(start, writes), node |-> done, end |-> "done"]
      BY <1>5 DEF Completed, FilesAfter
    <2>2. FilesOk(FilesAfter(start, writes), next, N)
      BY <1>2, <1>4 DEF FilesAfter
    <2> QED BY <2>1, <2>2 DEF EndSound
  <1>6. CASE o \in Stopped(start, writes, Halted)
    <2>1. PICK i \in 1..Len(writes) + 1 :
             o = [disk |-> FilesBefore(start, writes, i), node |-> Halted, end |-> "crash"]
      BY <1>6 DEF Stopped
    <2> QED BY <1>4, <2>1, HaltedSound DEF EndSound
  <1>7. CASE o \in Failed(start, writes)
    <2>1. PICK i \in 1..Len(writes) :
             \/ /\ writes[i].rewrite
                /\ \E d \in {FilesBefore(start, writes, i), writes[i].disk} :
                      o = [disk |-> d, node |-> writes[i].during, end |-> "error"]
             \/ o = [disk |-> FilesBefore(start, writes, i), node |-> writes[i].during, end |-> "error"]
             \/ \E d \in {FilesBefore(start, writes, i), writes[i].disk} :
                      o = [disk |-> d, node |-> [writes[i].during EXCEPT !.authority = FALSE], end |-> "error"]
      BY <1>2, <1>7 DEF Failed
    <2> DEFINE w == writes[i]
               before == FilesBefore(start, writes, i)
               fenced == [w.during EXCEPT !.authority = FALSE]
    <2>2. WriteSound(before, w, next, N) /\ FilesOk(before, next, N)
      BY <1>2, <1>3, <1>4
    <2> HIDE DEF w, before
    <2>3. /\ FilesOk(w.disk, next, N) /\ MemorySound(w.during) /\ Agrees(before, w.during)
          /\ Served(w.disk, w.during) /\ (w.rewrite => Owned(w.disk, w.during))
      BY <2>2 DEF WriteSound
    <2>4. IsMemory(w.during)
      BY <2>3 DEF MemorySound
    <2>5. fenced = Memory(w.during.chain, w.during.shares, w.during.dedup, w.during.nonces,
                          w.during.sessions, w.during.ckpt, w.during.poison, FALSE)
      BY <2>4, MemoryFenced
    <2> HIDE DEF fenced
    <2>6. MemorySound(fenced) /\ Agrees(before, fenced) /\ Agrees(w.disk, fenced)
      BY <2>3, <2>5 DEF MemorySound, IsMemory, Memory, Agrees, Served, Owned
    <2>7. \/ w.rewrite /\ \E d \in {before, w.disk} : o = [disk |-> d, node |-> w.during, end |-> "error"]
          \/ o = [disk |-> before, node |-> w.during, end |-> "error"]
          \/ \E d \in {before, w.disk} : o = [disk |-> d, node |-> fenced, end |-> "error"]
      BY <2>1 DEF w, before, fenced
    <2> QED BY <2>2, <2>3, <2>6, <2>7 DEF EndSound, Agrees
  <1> QED BY <1>5, <1>6, <1>7 DEF Outcomes

LEMMA WriteIs ==
  ASSUME NEW files, NEW n, IsMemory(n), NEW phase, NEW rewrite
  PROVE  Write(files, n, phase, rewrite) =
            [disk |-> files,
             during |-> Memory(n.chain, n.shares, n.dedup, n.nonces, n.sessions, n.ckpt, phase, n.authority),
             rewrite |-> rewrite]
  BY MemoryUpdate DEF Write

(* What a write needs: under poison only the nonces and sessions must be known. *)
LEMMA WriteIsSound ==
  ASSUME NEW before, NEW files, NEW n, NEW phase, NEW rewrite \in BOOLEAN, NEW next, NEW N,
         MemorySound(n), FilesOk(files, next, N), Owned(before, n), rewrite => Owned(files, n),
         phase = "none" => n.poison = "none" /\ Served(before, n) /\ Served(files, n)
  PROVE  /\ WriteSound(before, Write(files, n, phase, rewrite), next, N)
         /\ Write(files, n, phase, rewrite).disk = files
  <1> DEFINE m == Memory(n.chain, n.shares, n.dedup, n.nonces, n.sessions, n.ckpt, phase, n.authority)
             w == Write(files, n, phase, rewrite)
  <1>1. w = [disk |-> files, during |-> m, rewrite |-> rewrite]
    BY WriteIs DEF MemorySound
  <1>2. MemorySound(m)
    BY DEF MemorySound, IsMemory, Memory
  <1>3. Owned(before, m) /\ (rewrite => Owned(files, m))
    BY DEF Owned, Memory
  <1>4. Served(before, m) /\ Served(files, m)
    BY DEF Served, Memory
  <1> HIDE DEF m, w
  <1>5. w.disk = files /\ w.during = m /\ w.rewrite = rewrite
    BY <1>1
  <1>6. WriteSound(before, w, next, N) /\ w.disk = files
    BY <1>2, <1>3, <1>4, <1>5 DEF WriteSound, Agrees
  <1> QED BY <1>6 DEF w

Poisons(phase) == phase # "none"

(* The writes of the handlers, one by one. *)
LEMMA CleanAppend ==
  ASSUME NEW before, NEW files, NEW n, NEW next, NEW N,
         MemorySound(n), FilesOk(files, next, N), Owned(before, n), n.poison = "none", Served(before, n), Served(files, n)
  PROVE  WriteSound(before, Write(files, n, "none", FALSE), next, N) /\ Write(files, n, "none", FALSE).disk = files
  <1> DEFINE r == FALSE
             ph == "none"
  <1>1. r \in BOOLEAN /\ (r => Owned(files, n)) /\ (ph = "none" => n.poison = "none" /\ Served(before, n) /\ Served(files, n))
    OBVIOUS
  <1> HIDE DEF r, ph
  <1>2. WriteSound(before, Write(files, n, ph, r), next, N) /\ Write(files, n, ph, r).disk = files
    BY <1>1, WriteIsSound
  <1> QED BY <1>2 DEF r, ph

LEMMA PoisonedAppend ==
  ASSUME NEW before, NEW files, NEW n, NEW phase, NEW next, NEW N,
         MemorySound(n), FilesOk(files, next, N), Owned(before, n), Poisons(phase)
  PROVE  WriteSound(before, Write(files, n, phase, FALSE), next, N) /\ Write(files, n, phase, FALSE).disk = files
  <1> DEFINE r == FALSE
             ph == phase
  <1>1. r \in BOOLEAN /\ (r => Owned(files, n)) /\ (ph = "none" => n.poison = "none" /\ Served(before, n) /\ Served(files, n))
    BY DEF Poisons
  <1> HIDE DEF r, ph
  <1>2. WriteSound(before, Write(files, n, ph, r), next, N) /\ Write(files, n, ph, r).disk = files
    BY <1>1, WriteIsSound
  <1> QED BY <1>2 DEF r, ph

LEMMA CleanRewrite ==
  ASSUME NEW before, NEW files, NEW n, NEW next, NEW N,
         MemorySound(n), FilesOk(files, next, N), Owned(before, n), Owned(files, n), n.poison = "none", Served(before, n), Served(files, n)
  PROVE  WriteSound(before, Write(files, n, "none", TRUE), next, N) /\ Write(files, n, "none", TRUE).disk = files
  <1> DEFINE r == TRUE
             ph == "none"
  <1>1. r \in BOOLEAN /\ (r => Owned(files, n)) /\ (ph = "none" => n.poison = "none" /\ Served(before, n) /\ Served(files, n))
    OBVIOUS
  <1> HIDE DEF r, ph
  <1>2. WriteSound(before, Write(files, n, ph, r), next, N) /\ Write(files, n, ph, r).disk = files
    BY <1>1, WriteIsSound
  <1> QED BY <1>2 DEF r, ph

(* A memory whose checkpoint need not be a prefix of its chain. *)
MemoryShape(n) ==
    /\ IsMemory(n)
    /\ SharesEligible(n.shares)
    /\ n.chain \in Sequence /\ n.ckpt \in Sequence
    /\ WorksOf(n.ckpt) \subseteq Valid

LEMMA PoisonedRewrite ==
  ASSUME NEW before, NEW files, NEW n, NEW phase, NEW next, NEW N,
         MemoryShape(n), FilesOk(files, next, N), Owned(before, n), Owned(files, n), Poisons(phase)
  PROVE  WriteSound(before, Write(files, n, phase, TRUE), next, N) /\ Write(files, n, phase, TRUE).disk = files
  <1> DEFINE m == Memory(n.chain, n.shares, n.dedup, n.nonces, n.sessions, n.ckpt, phase, n.authority)
             w == Write(files, n, phase, TRUE)
  <1>1. w = [disk |-> files, during |-> m, rewrite |-> TRUE]
    <2> DEFINE r == TRUE
    <2> HIDE DEF r
    <2>1. Write(files, n, phase, r) = [disk |-> files, during |-> m, rewrite |-> r]
      BY WriteIs DEF MemoryShape
    <2> QED BY <2>1 DEF r
  <1>2. MemorySound(m)
    BY DEF MemoryShape, MemorySound, IsMemory, Memory, Poisons
  <1>3. Owned(before, m) /\ Owned(files, m)
    BY DEF Owned, Memory
  <1>4. Served(before, m) /\ Served(files, m)
    BY DEF Served, Memory, Poisons
  <1> HIDE DEF m, w
  <1>5. w.disk = files /\ w.during = m /\ w.rewrite = TRUE
    BY <1>1
  <1>6. WriteSound(before, w, next, N) /\ w.disk = files
    BY <1>2, <1>3, <1>4, <1>5 DEF WriteSound, Agrees
  <1> QED BY <1>6 DEF w

-----------------------------------------------------------------------------
(* Publishing. *)

(* A chain the store may take. *)
ChainSound(chain) ==
    /\ chain \in Sequence
    /\ ReplayOk(chain)
    /\ checker => WorksOf(chain) \subseteq Valid

(* How a handler may change the stored chain. *)
Advances(next) ==
    \/ next = disk.blocks
    \/ /\ ChainSound(next)
       /\ \/ Len(next) = Len(disk.blocks) + 1 /\ PrefixOf(disk.blocks, next)
          \/ ChooseCandidate(disk.blocks, next)

(* The nonce a submission may burn. *)
Burned(w, nonce) == IF nonce = NoNonce THEN {} ELSE {<<Pk[w], nonce>>}

LEMMA ReadyAgrees ==
  ASSUME IInv, Ready
  PROVE  /\ disk.blocks = node.chain /\ disk.rewards = node.chain /\ disk.rows = node.chain
         /\ disk.dedup = node.dedup /\ disk.nonces = node.nonces /\ disk.sessions = node.sessions
         /\ node.authority /\ node.poison = "none"
  BY DEF IInv, Ready, Healthy, Agrees, Served, Owned

LEMMA SelectionOfCandidates ==
  ASSUME NEW candidates, NEW tag, NEW chain
  PROVE  Selection(candidates, tag, chain) \subseteq candidates
  BY DEF Selection

LEMMA BurnIs ==
  ASSUME NEW w, NEW nonce
  PROVE  /\ \A d : IsFiles(d) =>
               Burn(d, w, nonce) = Files(d.blocks, d.rewards, d.rows, d.dedup, d.nonces \cup Burned(w, nonce),
                                         d.receipts, d.ckpt, d.sessions, d.made)
         /\ \A n : IsMemory(n) =>
               Burn(n, w, nonce) = Memory(n.chain, n.shares, n.dedup, n.nonces \cup Burned(w, nonce),
                                          n.sessions, n.ckpt, n.poison, n.authority)
  <1>1. ASSUME NEW d, IsFiles(d)
        PROVE  Burn(d, w, nonce) = Files(d.blocks, d.rewards, d.rows, d.dedup, d.nonces \cup Burned(w, nonce),
                                         d.receipts, d.ckpt, d.sessions, d.made)
    <2>1. CASE nonce = NoNonce
      <3>1. Burn(d, w, nonce) = d /\ d.nonces \cup Burned(w, nonce) = d.nonces
        BY <2>1 DEF Burn, Burned
      <3> QED BY <1>1, <3>1 DEF IsFiles
    <2>2. CASE nonce # NoNonce
      <3> DEFINE v == d.nonces \cup {<<Pk[w], nonce>>}
      <3>1. Burn(d, w, nonce) = [d EXCEPT !.nonces = v] /\ d.nonces \cup Burned(w, nonce) = v
        BY <2>2 DEF Burn, Burned
      <3> HIDE DEF v
      <3> QED BY <1>1, <3>1, FilesUpdate
    <2> QED BY <2>1, <2>2
  <1>2. ASSUME NEW n, IsMemory(n)
        PROVE  Burn(n, w, nonce) = Memory(n.chain, n.shares, n.dedup, n.nonces \cup Burned(w, nonce),
                                          n.sessions, n.ckpt, n.poison, n.authority)
    <2>1. CASE nonce = NoNonce
      <3>1. Burn(n, w, nonce) = n /\ n.nonces \cup Burned(w, nonce) = n.nonces
        BY <2>1 DEF Burn, Burned
      <3> QED BY <1>2, <3>1 DEF IsMemory
    <2>2. CASE nonce # NoNonce
      <3> DEFINE v == n.nonces \cup {<<Pk[w], nonce>>}
      <3>1. Burn(n, w, nonce) = [n EXCEPT !.nonces = v] /\ n.nonces \cup Burned(w, nonce) = v
        BY <2>2 DEF Burn, Burned
      <3> HIDE DEF v
      <3> QED BY <1>2, <3>1, MemoryUpdate
    <2> QED BY <2>1, <2>2
  <1> QED BY <1>1, <1>2

(* The nonce is burned first, by itself. *)
LEMMA BurnWritesSound ==
  ASSUME IInv, Ready, NEW w \in Works, NEW nonce, NEW shares, SharesEligible(shares), NEW next
  PROVE  LET before == [node EXCEPT !.shares = shares]
             N == Burned(w, nonce)
         IN  /\ MemorySound(before) /\ Agrees(disk, before)
             /\ MemorySound(Burn(before, w, nonce)) /\ Agrees(Burn(disk, w, nonce), Burn(before, w, nonce))
             /\ Burn(before, w, nonce).poison = "none" /\ Burn(before, w, nonce).chain = node.chain
             /\ FilesOk(disk, next, N) /\ FilesOk(Burn(disk, w, nonce), next, N)
             /\ Burn(disk, w, nonce).made = disk.made
             /\ Burn(disk, w, nonce).blocks = disk.blocks
             /\ Burn(disk, w, nonce).nonces = disk.nonces \cup N
             /\ WritesSound(disk, BurnWrites(w, nonce, before), next, N)
             /\ FilesAfter(disk, BurnWrites(w, nonce, before)) = Burn(disk, w, nonce)
  <1> DEFINE before == [node EXCEPT !.shares = shares]
             N == Burned(w, nonce)
             memory == Burn(before, w, nonce)
             burnt == Burn(disk, w, nonce)
  <1>1. /\ disk.blocks = node.chain /\ disk.rewards = node.chain /\ disk.rows = node.chain
        /\ disk.dedup = node.dedup /\ disk.nonces = node.nonces /\ disk.sessions = node.sessions
        /\ node.authority /\ node.poison = "none"
    BY ReadyAgrees
  <1>2. MemorySound(node) /\ FilesSound(disk)
    BY DEF IInv
  <1>3. before = Memory(node.chain, shares, node.dedup, node.nonces, node.sessions, node.ckpt, node.poison, node.authority)
    BY <1>2, MemoryUpdate DEF MemorySound
  <1> HIDE DEF before, N
  <1>4. MemorySound(before)
    BY <1>2, <1>3 DEF MemorySound, IsMemory, Memory
  <1>5. Agrees(disk, before)
    BY <1>1, <1>3 DEF Agrees, Served, Owned, Memory
  <1>6. memory = Memory(node.chain, shares, node.dedup, node.nonces \cup N, node.sessions, node.ckpt, node.poison, node.authority)
    <2>1. IsMemory(before)
      BY <1>4 DEF MemorySound
    <2>2. memory = Memory(before.chain, before.shares, before.dedup, before.nonces \cup N,
                          before.sessions, before.ckpt, before.poison, before.authority)
      BY <2>1, BurnIs DEF N
    <2> QED BY <1>3, <2>2 DEF Memory
  <1>7. burnt = Files(disk.blocks, disk.rewards, disk.rows, disk.dedup, disk.nonces \cup N,
                      disk.receipts, disk.ckpt, disk.sessions, disk.made)
    BY <1>2, BurnIs DEF FilesSound, N
  <1> HIDE DEF memory, burnt
  <1>8. MemorySound(memory) /\ memory.poison = "none" /\ memory.chain = node.chain
    BY <1>1, <1>2, <1>6 DEF MemorySound, IsMemory, Memory
  <1>9. Agrees(burnt, memory)
    BY <1>1, <1>6, <1>7 DEF Agrees, Served, Owned, Memory, Files
  <1>10. FilesSound(burnt)
    <2>1. BurnSound(disk)
      BY <1>2 DEF FilesSound
    <2>2. BurnSound(burnt)
      BY <1>7, <2>1 DEF BurnSound, Files
    <2> QED BY <1>2, <1>7, <2>2 DEF FilesSound, IsFiles, Files
  <1>11. FilesOk(disk, next, N)
    BY <1>2 DEF FilesOk
  <1>12. burnt.made = disk.made /\ burnt.blocks = disk.blocks /\ burnt.nonces = disk.nonces \cup N
    BY <1>7 DEF Files
  <1>13. FilesOk(burnt, next, N)
    BY <1>10, <1>12 DEF FilesOk
  <1>14. /\ WritesSound(disk, BurnWrites(w, nonce, before), next, N)
         /\ FilesAfter(disk, BurnWrites(w, nonce, before)) = burnt
    <2>1. CASE nonce = NoNonce
      <3>1. BurnWrites(w, nonce, before) = <<>> /\ burnt = disk
        BY <2>1 DEF BurnWrites, burnt, Burn
      <3> QED BY <3>1, NoWrites
    <2>2. CASE nonce # NoNonce
      <3> DEFINE a == Write(burnt, before, "none", FALSE)
      <3>1. BurnWrites(w, nonce, before) = <<a>>
        BY <2>2 DEF BurnWrites, burnt
      <3>2. Served(burnt, before) /\ before.poison = "none" /\ Owned(disk, before) /\ Served(disk, before)
        BY <1>1, <1>3, <1>5, <1>7 DEF Served, Agrees, Files, Memory
      <3>3. WriteSound(disk, a, next, N) /\ a.disk = burnt
        BY <1>4, <1>13, <3>2, CleanAppend
      <3> HIDE DEF a
      <3> QED BY <3>1, <3>3, OneWrite
    <2> QED BY <2>1, <2>2
  <1> QED BY <1>4, <1>5, <1>8, <1>9, <1>11, <1>12, <1>13, <1>14 DEF before, N, memory, burnt

LEMMA OnHeadIs ==
  ASSUME NEW n, IsMemory(n), NEW chain
  PROVE  OnHead(n, chain) = Memory(chain, EmptyShares, n.dedup, n.nonces, n.sessions, n.ckpt, n.poison, n.authority)
  BY HeadUpdate DEF OnHead

LEMMA EmptyEligible == SharesEligible(EmptyShares)
  BY DEF SharesEligible, EmptyShares, IsShares, Shares

(* Files and memory from which a submission may produce: they agree, and its
   nonce is burned and has no block yet. *)
Produces(w, nonce, start, memory, N) ==
    /\ FilesSound(start) /\ MemorySound(memory) /\ memory.poison = "none" /\ Agrees(start, memory)
    /\ start.blocks = disk.blocks /\ start.nonces \subseteq disk.nonces \cup N
    /\ nonce # NoNonce => /\ <<Pk[w], nonce>> \in start.nonces
                          /\ \A m \in start.made : m[1] # <<Pk[w], nonce>>

(* The block of a submission, on files in which its nonce is burned. *)
LEMMA ProduceSound ==
  ASSUME NEW w, NEW nonce, NEW start, NEW memory, NEW block \in SUBSET Works, NEW N,
         Produces(w, nonce, start, memory, N), ChainSound(Append(memory.chain, block))
  PROVE  LET produce == ProduceWrites(w, nonce, start, memory, block)
             next == Append(memory.chain, block)
         IN  /\ WritesSound(start, produce.writes, next, N)
             /\ MemorySound(produce.done) /\ Agrees(FilesAfter(start, produce.writes), produce.done)
  <1> DEFINE next == Append(memory.chain, block)
             key == <<Pk[w], nonce>>
             made == IF nonce = NoNonce THEN start.made ELSE start.made \cup {<<key, next>>}
             dedup == start.dedup \cup ProducerCredits(w, block)
             stored == [start EXCEPT !.blocks = next, !.made = made]
             rewarded == [stored EXCEPT !.rewards = next]
             credited == [rewarded EXCEPT !.dedup = @ \cup ProducerCredits(w, block)]
             projected == [credited EXCEPT !.rows = next]
             receipt == [projected EXCEPT !.receipts = @ \cup {key}]
             applied == OnHead(memory, next)
             recorded == [applied EXCEPT !.dedup = @ \cup ProducerCredits(w, block)]
             p1 == "block_reward"
             p2 == "proof_dedup"
             p3 == "bounty_projection"
             a == Write(stored, memory, p1, FALSE)
             b == Write(rewarded, memory, p1, FALSE)
             c == Write(credited, applied, p2, FALSE)
             e == Write(projected, recorded, p3, FALSE)
             g == Write(receipt, recorded, "none", FALSE)
             paid == nonce # NoNonce /\ \E v \in block : Pk[v] = Pk[w]
             last == IF paid THEN <<g>> ELSE <<>>
             produce == ProduceWrites(w, nonce, start, memory, block)
  <1>0. produce.writes = <<a, b, c, e>> \o last /\ produce.done = recorded
    BY DEF ProduceWrites
  <1>p. Poisons(p1) /\ Poisons(p2) /\ Poisons(p3)
    BY DEF Poisons
  <1> HIDE DEF produce, p1, p2, p3
  <1>m. FilesSound(start) /\ MemorySound(memory) /\ Agrees(start, memory)
    BY DEF Produces
  <1>1. next \in Sequence /\ PrefixOf(memory.chain, next) /\ ChainSound(next)
    BY <1>m, AppendExtends DEF MemorySound
  <1> HIDE DEF next
  <1>2. /\ start.blocks = memory.chain /\ start.rewards = memory.chain /\ start.rows = memory.chain
        /\ start.dedup = memory.dedup /\ Owned(start, memory)
    BY DEF Produces, Agrees, Served
  <1>3. IsMemory(memory) /\ IsFiles(start)
    BY <1>m DEF MemorySound, FilesSound
  <1>4. stored = Files(next, start.rewards, start.rows, start.dedup, start.nonces, start.receipts,
                       start.ckpt, start.sessions, made)
    <2> HIDE DEF made
    <2> DEFINE only == [start EXCEPT !.blocks = next]
    <2>1. stored = [only EXCEPT !.made = made]
      OBVIOUS
    <2>2. only = Files(next, start.rewards, start.rows, start.dedup, start.nonces, start.receipts,
                       start.ckpt, start.sessions, start.made)
      BY <1>3, FilesUpdate
    <2> HIDE DEF stored, only
    <2>3. IsFiles(only)
      BY <2>2 DEF IsFiles, Files
    <2> QED BY <2>1, <2>2, <2>3, FilesUpdate DEF Files
  <1> HIDE DEF made, stored
  <1>5. rewarded = Files(next, next, start.rows, start.dedup, start.nonces, start.receipts,
                         start.ckpt, start.sessions, made)
    <2>1. IsFiles(stored)
      BY <1>4 DEF IsFiles, Files
    <2>2. rewarded = [stored EXCEPT !.rewards = next]
      OBVIOUS
    <2> HIDE DEF rewarded
    <2> QED BY <1>4, <2>1, <2>2, FilesUpdate DEF Files
  <1> HIDE DEF rewarded
  <1>6. credited = Files(next, next, start.rows, dedup, start.nonces, start.receipts,
                         start.ckpt, start.sessions, made)
    <2>1. IsFiles(rewarded) /\ rewarded.dedup = start.dedup
      BY <1>5 DEF IsFiles, Files
    <2>2. credited = [rewarded EXCEPT !.dedup = dedup]
      BY <2>1
    <2> HIDE DEF dedup, credited
    <2> QED BY <1>5, <2>1, <2>2, FilesUpdate DEF Files
  <1> HIDE DEF credited
  <1>7. projected = Files(next, next, next, dedup, start.nonces, start.receipts,
                          start.ckpt, start.sessions, made)
    <2>1. IsFiles(credited)
      BY <1>6 DEF IsFiles, Files
    <2>2. projected = [credited EXCEPT !.rows = next]
      OBVIOUS
    <2> HIDE DEF dedup, projected
    <2> QED BY <1>6, <2>1, <2>2, FilesUpdate DEF Files
  <1> HIDE DEF projected
  <1>8. receipt = Files(next, next, next, dedup, start.nonces, start.receipts \cup {key},
                        start.ckpt, start.sessions, made)
    <2>1. IsFiles(projected) /\ projected.receipts = start.receipts
      BY <1>7 DEF IsFiles, Files
    <2> DEFINE v == start.receipts \cup {key}
    <2>2. receipt = [projected EXCEPT !.receipts = v]
      BY <2>1
    <2> HIDE DEF dedup, receipt, v
    <2>3. receipt = Files(next, next, next, dedup, start.nonces, v, start.ckpt, start.sessions, made)
      BY <1>7, <2>1, <2>2, FilesUpdate DEF Files
    <2> QED BY <2>3 DEF v
  <1> HIDE DEF receipt
  <1>9. applied = Memory(next, EmptyShares, memory.dedup, memory.nonces, memory.sessions, memory.ckpt,
                         "none", memory.authority)
    <2>1. memory.poison = "none"
      BY DEF Produces
    <2> QED BY <1>3, <2>1, OnHeadIs
  <1> HIDE DEF applied
  <1>10. recorded = Memory(next, EmptyShares, dedup, memory.nonces, memory.sessions, memory.ckpt,
                           "none", memory.authority)
    <2>1. IsMemory(applied) /\ applied.dedup = start.dedup
      BY <1>2, <1>9 DEF IsMemory, Memory
    <2>2. recorded = [applied EXCEPT !.dedup = dedup]
      BY <2>1
    <2> HIDE DEF dedup, recorded
    <2> QED BY <1>9, <2>1, <2>2, MemoryUpdate DEF Memory
  <1> HIDE DEF recorded, dedup
  <1>11. PrefixOf(memory.ckpt, next)
    <2>1. memory.chain \in Sequence /\ memory.ckpt \in Sequence /\ PrefixOf(memory.ckpt, memory.chain)
      BY DEF Produces, MemorySound
    <2> QED BY <1>1, <2>1, PrefixTransitive
  <1>12. MemorySound(applied) /\ MemorySound(recorded)
    BY <1>m, <1>1, <1>9, <1>10, <1>11, EmptyEligible DEF MemorySound, IsMemory, Memory
  <1>13. BurnSound(start)
    BY <1>m DEF FilesSound
  <1>14. /\ \A m \in made : m[1] \in start.nonces
         /\ \A m1, m2 \in made : m1[1] = m2[1] => m1 = m2
         /\ \A m \in start.made : m \in made
         /\ nonce # NoNonce => \E m \in made : m[1] = key
    <2>1. CASE nonce = NoNonce
      BY <1>13, <2>1 DEF BurnSound, made
    <2>2. CASE nonce # NoNonce
      <3>1. \A m : m \in made <=> m \in start.made \/ m = <<key, next>>
        BY <2>2 DEF made
      <3>2. <<key, next>>[1] = key
        OBVIOUS
      <3>3. key \in start.nonces /\ \A m \in start.made : m[1] # key
        BY <2>2 DEF Produces
      <3> HIDE DEF key
      <3> QED BY <1>13, <3>1, <3>2, <3>3 DEF BurnSound
    <2> QED BY <2>1, <2>2
  <1>15. ASSUME NEW f, NEW rw, NEW ro, NEW de, NEW re,
                f = Files(next, rw, ro, de, start.nonces, re, start.ckpt, start.sessions, made),
                \A k \in re : k \in start.receipts \/ (nonce # NoNonce /\ k = key)
         PROVE  FilesOk(f, next, N)
    <2>1. f.nonces = start.nonces /\ f.made = made /\ f.receipts = re /\ f.blocks = next /\ f.ckpt = start.ckpt
      BY <1>15 DEF Files
    <2>2. IsFiles(f)
      BY <1>15 DEF IsFiles, Files
    <2>3. re \subseteq {m[1] : m \in made}
      BY <1>13, <1>14, <1>15 DEF BurnSound
    <2>4. BurnSound(f)
      BY <1>14, <2>1, <2>3 DEF BurnSound
    <2>5. start.ckpt \in Sequence /\ WorksOf(start.ckpt) \subseteq Valid
      BY <1>m DEF FilesSound
    <2>6. FilesSound(f)
      BY <1>1, <2>1, <2>2, <2>4, <2>5 DEF FilesSound, ChainSound
    <2>7. start.nonces \subseteq disk.nonces \cup N
      BY DEF Produces
    <2> QED BY <2>1, <2>6, <2>7 DEF FilesOk
  <1>16. /\ FilesOk(stored, next, N) /\ FilesOk(rewarded, next, N) /\ FilesOk(credited, next, N)
         /\ FilesOk(projected, next, N)
    BY <1>4, <1>5, <1>6, <1>7, <1>15
  <1>17. /\ Owned(start, memory) /\ Owned(stored, memory) /\ Owned(rewarded, applied) /\ Owned(credited, recorded)
         /\ Owned(projected, recorded)
    BY <1>2, <1>4, <1>5, <1>6, <1>7, <1>9, <1>10 DEF Owned, Files, Memory
  <1>18. /\ WriteSound(start, a, next, N) /\ a.disk = stored
         /\ WriteSound(a.disk, b, next, N) /\ b.disk = rewarded
         /\ WriteSound(b.disk, c, next, N) /\ c.disk = credited
         /\ WriteSound(c.disk, e, next, N) /\ e.disk = projected
    <2>1. WriteSound(start, a, next, N) /\ a.disk = stored
      BY <1>m, <1>16, <1>17, <1>p, PoisonedAppend
    <2>2. WriteSound(stored, b, next, N) /\ b.disk = rewarded
      BY <1>m, <1>16, <1>17, <1>p, PoisonedAppend
    <2>3. WriteSound(rewarded, c, next, N) /\ c.disk = credited
      BY <1>12, <1>16, <1>17, <1>p, PoisonedAppend
    <2>4. WriteSound(credited, e, next, N) /\ e.disk = projected
      BY <1>12, <1>16, <1>17, <1>p, PoisonedAppend
    <2> HIDE DEF a, b, c, e
    <2> QED BY <2>1, <2>2, <2>3, <2>4
  <1> HIDE DEF a, b, c, e
  <1>19. WritesSound(start, <<a, b, c, e>>, next, N) /\ FilesAfter(start, <<a, b, c, e>>) = projected
    BY <1>18, FourWrites
  <1>20. Served(projected, recorded)
    BY <1>7, <1>10 DEF Served, Files, Memory
  <1>21. /\ WritesSound(projected, last, next, N)
         /\ Agrees(FilesAfter(projected, last), recorded)
    <2>1. CASE paid
      <3>1. FilesOk(receipt, next, N)
        <4>1. \A k \in start.receipts \cup {key} : k \in start.receipts \/ (nonce # NoNonce /\ k = key)
          BY <2>1
        <4> HIDE DEF key
        <4> QED BY <1>8, <1>15, <4>1
      <3>2. Served(receipt, recorded) /\ Owned(receipt, recorded) /\ recorded.poison = "none"
        BY <1>8, <1>10, <1>17, <1>7 DEF Served, Owned, Files, Memory
      <3>3. WriteSound(projected, g, next, N) /\ g.disk = receipt
        BY <1>12, <1>17, <1>20, <3>1, <3>2, CleanAppend
      <3>4. last = <<g>>
        BY <2>1
      <3> HIDE DEF g, last
      <3> QED BY <3>2, <3>3, <3>4, OneWrite DEF Agrees
    <2>2. CASE ~ paid
      <3>1. last = <<>>
        BY <2>2
      <3> QED BY <1>17, <1>20, <3>1, NoWrites DEF Agrees
    <2> QED BY <2>1, <2>2
  <1> HIDE DEF last
  <1>22. /\ WritesSound(start, <<a, b, c, e>> \o last, next, N)
         /\ FilesAfter(start, <<a, b, c, e>> \o last) = FilesAfter(projected, last)
    BY <1>19, <1>21, MoreWrites
  <1> QED BY <1>0, <1>12, <1>21, <1>22 DEF next, produce

(* Whatever submit_finalize does, and wherever it stops. *)
LEMMA FinalizeSound ==
  ASSUME IInv, Ready, NEW w \in Works, NEW nonce, NEW shares, SharesEligible(shares),
         NEW o \in Finalize(w, nonce, shares)
  PROVE  \E next : EndSound(o, next, Burned(w, nonce)) /\ Advances(next)
  <1> DEFINE before == [node EXCEPT !.shares = shares]
             memory == Burn(before, w, nonce)
             burn == BurnWrites(w, nonce, before)
             burnt == Burn(disk, w, nonce)
             block == Selection(shares.candidates, Tag[w], node.chain)
             produce == ProduceWrites(w, nonce, burnt, memory, block)
             next == Append(node.chain, block)
             N == Burned(w, nonce)
  <1>1. \/ <<Pk[w], nonce>> \in node.nonces /\ o = [disk |-> disk, node |-> before, end |-> "error"]
        \/ o \in Outcomes(disk, burn, memory, Halted)
        \/ o = [disk |-> burnt, node |-> memory, end |-> "error"]
        \/ /\ <<Pk[w], nonce>> \notin node.nonces
           /\ ReplayOk(next)
           /\ o \in Outcomes(disk, burn \o produce.writes, produce.done, Halted)
    <2> HIDE DEF before, memory, burn, burnt, block, produce, next
    <2>1. o \in (IF <<Pk[w], nonce>> \in node.nonces
                 THEN {[disk |-> disk, node |-> before, end |-> "error"]}
                 ELSE IF ~ HasProposer(block)
                 THEN Outcomes(disk, burn, memory, Halted)
                 ELSE {[disk |-> burnt, node |-> memory, end |-> "error"]}
                      \cup (IF ReplayOk(next)
                            THEN Outcomes(disk, burn \o produce.writes, produce.done, Halted)
                            ELSE {}))
      BY DEF Finalize, before, memory, burn, burnt, block, produce, next
    <2> QED BY <2>1
  <1>2. /\ disk.blocks = node.chain /\ disk.nonces = node.nonces
    BY ReadyAgrees
  <1>3. ASSUME NEW x
        PROVE  /\ MemorySound(before) /\ Agrees(disk, before)
               /\ MemorySound(memory) /\ Agrees(burnt, memory)
               /\ memory.poison = "none" /\ memory.chain = node.chain
               /\ FilesOk(disk, x, N) /\ FilesOk(burnt, x, N)
               /\ burnt.made = disk.made /\ burnt.blocks = disk.blocks
               /\ burnt.nonces = disk.nonces \cup N
               /\ WritesSound(disk, burn, x, N)
               /\ FilesAfter(disk, burn) = burnt
    BY BurnWritesSound
  <1> HIDE DEF before, memory, burn, burnt, N
  <1>4. Advances(disk.blocks)
    BY DEF Advances
  <1>5. CASE o = [disk |-> disk, node |-> before, end |-> "error"]
    <2>1. EndSound(o, disk.blocks, N)
      BY <1>3, <1>5 DEF EndSound
    <2> QED BY <1>4, <2>1 DEF N
  <1>6. CASE o \in Outcomes(disk, burn, memory, Halted)
    <2>1. EndSound(o, disk.blocks, N)
      <3>1. /\ FilesOk(disk, disk.blocks, N) /\ WritesSound(disk, burn, disk.blocks, N)
            /\ MemorySound(memory) /\ Agrees(FilesAfter(disk, burn), memory)
        BY <1>3
      <3> QED BY <1>6, <3>1, OutcomesSound
    <2> QED BY <1>4, <2>1 DEF N
  <1>7. CASE o = [disk |-> burnt, node |-> memory, end |-> "error"]
    <2>1. EndSound(o, disk.blocks, N)
      BY <1>3, <1>7 DEF EndSound
    <2> QED BY <1>4, <2>1 DEF N
  <1>8. CASE /\ <<Pk[w], nonce>> \notin node.nonces
             /\ ReplayOk(next)
             /\ o \in Outcomes(disk, burn \o produce.writes, produce.done, Halted)
    <2>1. shares.candidates \subseteq Works /\ (checker => shares.candidates \subseteq Valid)
      BY DEF SharesEligible
    <2>2. block \subseteq shares.candidates
      BY SelectionOfCandidates
    <2> HIDE DEF block
    <2>3. block \in SUBSET Works /\ (checker => block \subseteq Valid)
      BY <2>1, <2>2
    <2>4. node.chain \in Sequence
      BY DEF IInv, MemorySound
    <2>5. next \in Sequence /\ Len(next) = Len(node.chain) + 1 /\ PrefixOf(node.chain, next) /\ Last(next) = block
      BY <2>3, <2>4, AppendExtends
    <2> HIDE DEF next
    <2>6. WorksOf(next) = WorksOf(node.chain) \cup block
      BY <2>4, <2>5, Extension
    <2>7. checker => WorksOf(disk.blocks) \subseteq Valid
      BY DEF IInv, FilesSound
    <2>8. ChainSound(next)
      BY <1>2, <1>8, <2>3, <2>5, <2>6, <2>7 DEF ChainSound
    <2>9. Advances(next)
      BY <1>2, <2>5, <2>8 DEF Advances
    <2>10. Produces(w, nonce, burnt, memory, N)
      <3>1. FilesSound(burnt) /\ burnt.nonces \subseteq disk.nonces \cup N
        BY <1>3 DEF FilesOk
      <3>2. ASSUME nonce # NoNonce
            PROVE  /\ <<Pk[w], nonce>> \in burnt.nonces
                   /\ \A m \in burnt.made : m[1] # <<Pk[w], nonce>>
        <4>1. N = {<<Pk[w], nonce>>}
          BY <3>2 DEF N, Burned
        <4>2. \A m \in disk.made : m[1] \in disk.nonces
          BY DEF IInv, FilesSound, BurnSound
        <4> DEFINE key == <<Pk[w], nonce>>
        <4>3. key \notin disk.nonces
          BY <1>2, <1>8
        <4> HIDE DEF key
        <4>4. \A m \in burnt.made : m[1] # key
          BY <1>3, <4>2, <4>3
        <4> QED BY <1>3, <4>1, <4>4 DEF key
      <3> QED BY <1>3, <3>1, <3>2 DEF Produces
    <2>11. Append(memory.chain, block) = next
      BY <1>3 DEF next
    <2>12. /\ WritesSound(burnt, produce.writes, next, N)
           /\ MemorySound(produce.done) /\ Agrees(FilesAfter(burnt, produce.writes), produce.done)
      BY <2>3, <2>8, <2>10, <2>11, ProduceSound
    <2> HIDE DEF produce
    <2>13. WritesSound(disk, burn, next, N) /\ FilesAfter(disk, burn) = burnt /\ FilesOk(disk, next, N)
      BY <1>3
    <2>14. /\ WritesSound(disk, burn \o produce.writes, next, N)
           /\ FilesAfter(disk, burn \o produce.writes) = FilesAfter(burnt, produce.writes)
      BY <2>12, <2>13, MoreWrites
    <2>15. EndSound(o, next, N)
      BY <1>8, <2>12, <2>13, <2>14, OutcomesSound
    <2> QED BY <2>9, <2>15 DEF N
  <1> QED BY <1>1, <1>5, <1>6, <1>7, <1>8

-----------------------------------------------------------------------------
(* Blocks and chains from peers. *)

(* A set of works in some order. *)
LEMMA Ordered ==
  ASSUME NEW block \in SUBSET Works
  PROVE  /\ SetToSeq(block) \in Seq(block)
         /\ DOMAIN SetToSeq(block) = 1..Len(SetToSeq(block))
  <1>1. IsFiniteSet(block)
    BY WorksAssumption, FS_Subset
  <1>2. Cardinality(block) \in Nat /\ ExistsBijection(1..Cardinality(block), block)
    BY <1>1, FS_CardinalityType
  <1>3. \E f \in [1..Cardinality(block) -> block] : IsInjective(f)
    BY <1>2 DEF ExistsBijection, Bijection, Injection, IsInjective
  <1>4. SetToSeq(block) \in [1..Cardinality(block) -> block]
    BY <1>3 DEF SetToSeq
  <1> QED BY <1>2, <1>4

(* No block at the height of a checkpoint is ever announced. *)
LEMMA NeverSkipped ==
  ASSUME IInv, NEW next \in Sequence, AnnouncedOk(next)
  PROVE  SkipDecision(next) = "run"
  <1>1. PrefixOf(node.ckpt, node.chain) /\ node.ckpt \in Sequence /\ node.chain \in Sequence
    BY DEF IInv, MemorySound, AnnouncedOk, Healthy
  <1>2. Len(node.ckpt) \in Nat /\ Len(node.chain) \in Nat /\ Len(node.ckpt) <= Len(node.chain)
    BY <1>1 DEF PrefixOf, Sequence
  <1>3. Len(next) # Len(node.ckpt)
    BY <1>2 DEF AnnouncedOk
  <1> QED BY <1>3 DEF SkipDecision

(* One dedup entry per selected share, on files and memory that differ from
   each other by the entry that is being written. *)
LEMMA CreditsSound ==
  ASSUME NEW D, NEW A, NEW k \in Nat, NEW next, NEW N,
         \A n \in 0..k : FilesOk(D[n], next, N) /\ MemorySound(A[n]) /\ Owned(D[n], A[n])
  PROVE  LET writes == [n \in 1..k |-> Write(D[n], A[n - 1], "proof_dedup", FALSE)]
         IN  WritesSound(D[0], writes, next, N) /\ FilesAfter(D[0], writes) = D[k]
  <1> DEFINE p == "proof_dedup"
             W(n) == Write(D[n], A[n - 1], p, FALSE)
             writes == [n \in 1..k |-> W(n)]
             S == {W(n) : n \in 1..k}
  <1>1. Poisons(p)
    BY DEF Poisons
  <1> HIDE DEF p
  <1>2. ASSUME NEW n \in 1..k PROVE WriteSound(D[n - 1], W(n), next, N) /\ W(n).disk = D[n]
    <2>1. n - 1 \in 0..k /\ n \in 0..k
      OBVIOUS
    <2>2. MemorySound(A[n - 1]) /\ FilesOk(D[n], next, N) /\ Owned(D[n - 1], A[n - 1])
      BY <2>1
    <2> DEFINE d == D[n]
               e == D[n - 1]
               m == A[n - 1]
    <2> HIDE DEF d, e, m
    <2>3. MemorySound(m) /\ FilesOk(d, next, N) /\ Owned(e, m)
      BY <2>2 DEF d, e, m
    <2>4. WriteSound(e, Write(d, m, p, FALSE), next, N) /\ Write(d, m, p, FALSE).disk = d
      BY <1>1, <2>3, PoisonedAppend
    <2> QED BY <2>4 DEF d, e, m
  <1> HIDE DEF W
  <1>3. writes \in Seq(S) /\ Len(writes) = k /\ \A n \in 1..k : writes[n] = W(n)
    OBVIOUS
  <1> HIDE DEF writes, S
  <1>4. ASSUME NEW i \in 1..k + 1 PROVE FilesBefore(D[0], writes, i) = D[i - 1]
    <2>1. CASE i = 1
      BY <2>1 DEF FilesBefore
    <2>2. CASE i # 1
      <3>1. i - 1 \in 1..k
        BY <2>2
      <3> QED BY <1>2, <1>3, <2>2, <3>1 DEF FilesBefore
    <2> QED BY <2>1, <2>2
  <1>5. WritesSound(D[0], writes, next, N)
    BY <1>2, <1>3, <1>4 DEF WritesSound
  <1>6. FilesAfter(D[0], writes) = D[k]
    <2>1. k + 1 \in 1..k + 1 /\ (k + 1) - 1 = k
      OBVIOUS
    <2>2. FilesBefore(D[0], writes, k + 1) = D[k]
      BY <1>4, <2>1
    <2> QED BY <1>3, <2>2 DEF FilesAfter
  <1> QED BY <1>5, <1>6 DEF writes, W, p

(* Block, reward and bounty rows, appended one after another. *)
AppendsSound(start, f, g, h, m, n, p, q, next, N) ==
    LET writes == <<Write(f, m, p, FALSE), Write(g, m, p, FALSE), Write(h, n, q, FALSE)>>
    IN  WritesSound(start, writes, next, N) /\ FilesAfter(start, writes) = h

LEMMA ThreeAppends ==
  ASSUME NEW start, NEW f, NEW g, NEW h, NEW m, NEW n, NEW p, NEW q, NEW next, NEW N,
         FilesOk(f, next, N), FilesOk(g, next, N), FilesOk(h, next, N),
         MemorySound(m), MemorySound(n), Poisons(p), Poisons(q),
         Owned(start, m), Owned(f, m), Owned(g, n)
  PROVE  AppendsSound(start, f, g, h, m, n, p, q, next, N)
  <1> DEFINE a == Write(f, m, p, FALSE)
             b == Write(g, m, p, FALSE)
             c == Write(h, n, q, FALSE)
  <1>1. WriteSound(start, a, next, N) /\ a.disk = f
    BY PoisonedAppend
  <1>2. WriteSound(f, b, next, N) /\ b.disk = g
    BY PoisonedAppend
  <1>3. WriteSound(g, c, next, N) /\ c.disk = h
    BY PoisonedAppend
  <1> HIDE DEF a, b, c
  <1>4. WritesSound(start, <<a, b, c>>, next, N) /\ FilesAfter(start, <<a, b, c>>) = h
    BY <1>1, <1>2, <1>3, ThreeWrites
  <1> QED BY <1>4 DEF a, b, c, AppendsSound

(* commit_announced_block. *)
LEMMA CommitBlockSound ==
  ASSUME IInv, up, node.authority, NEW next \in Sequence, AnnouncedOk(next),
         NEW reverified \in BOOLEAN, checker => Last(next) \subseteq Valid, reverified => checker,
         NEW o \in CommitBlock(next, reverified)
  PROVE  EndSound(o, next, {}) /\ Advances(next)
  <1> DEFINE diverged == SkipDecision(next) = "diverged"
             start == IF diverged THEN [disk EXCEPT !.ckpt = <<>>] ELSE disk
             memory == IF diverged THEN [node EXCEPT !.ckpt = <<>>] ELSE node
             stored == [start EXCEPT !.blocks = next]
             rewarded == [stored EXCEPT !.rewards = next]
             projected == [rewarded EXCEPT !.rows = next]
             selected == SetToSeq(Last(next))
             k == Len(selected)
             credits(record, n) == [record EXCEPT !.dedup = @ \cup {Proof[selected[i]] : i \in 1..n}]
             verified == [credits(projected, k) EXCEPT !.ckpt = next]
             applied == OnHead(memory, next)
             recorded == credits(applied, k)
             p1 == "block_reward"
             p2 == "bounty_projection"
             a == Write(stored, memory, p1, FALSE)
             b == Write(rewarded, memory, p1, FALSE)
             c == Write(projected, applied, p2, FALSE)
             each == [n \in DOMAIN selected |->
                        Write(credits(projected, n), credits(applied, n - 1), "proof_dedup", FALSE)]
             g == Write(verified, recorded, "none", TRUE)
             last == IF reverified /\ SkipDecision(next) # "skip" THEN <<g>> ELSE <<>>
  <1>1. SkipDecision(next) = "run"
    BY NeverSkipped
  <1>2. o \in Outcomes(start, <<a, b, c>> \o each \o last, recorded, Halted)
    BY DEF CommitBlock
  <1>3. start = disk /\ memory = node /\ last = IF reverified THEN <<g>> ELSE <<>>
    BY <1>1
  <1>4. Ready /\ PrefixOf(node.chain, next) /\ Len(next) = Len(node.chain) + 1 /\ ReplayOk(next)
    BY DEF AnnouncedOk, Ready
  <1>5. /\ disk.blocks = node.chain /\ disk.rewards = node.chain /\ disk.rows = node.chain
        /\ disk.dedup = node.dedup /\ disk.nonces = node.nonces /\ disk.sessions = node.sessions
        /\ node.poison = "none"
    BY <1>4, ReadyAgrees
  <1>6. FilesSound(disk) /\ MemorySound(node)
    BY DEF IInv
  <1>7. /\ Last(next) \in SUBSET Works
        /\ checker => WorksOf(next) \subseteq Valid
        /\ PrefixOf(node.ckpt, next)
    <2>1. node.chain \in Sequence /\ node.ckpt \in Sequence /\ PrefixOf(node.ckpt, node.chain)
      BY <1>5, <1>6 DEF MemorySound
    <2>2. Last(next) \in SUBSET Works /\ WorksOf(next) = WorksOf(node.chain) \cup Last(next)
      BY <1>4, <2>1, Extension
    <2>3. checker => WorksOf(node.chain) \subseteq Valid
      BY <1>5, <1>6 DEF FilesSound
    <2>4. PrefixOf(node.ckpt, next)
      BY <1>4, <2>1, PrefixTransitive
    <2> QED BY <2>2, <2>3, <2>4
  <1>8. ChainSound(next) /\ Advances(next)
    BY <1>4, <1>5, <1>7 DEF ChainSound, Advances
  <1>9. k \in Nat /\ DOMAIN selected = 1..k
    BY <1>7, Ordered
  <1> DEFINE C(n) == {Proof[selected[i]] : i \in 1..n}
             D == [n \in 0..k |-> credits(projected, n)]
             A == [n \in 0..k |-> credits(applied, n)]
             F(de, ck) == Files(next, next, next, de, disk.nonces, disk.receipts, ck, disk.sessions, disk.made)
             M(de) == Memory(next, EmptyShares, de, node.nonces, node.sessions, node.ckpt, "none", node.authority)
  <1>10. /\ stored = Files(next, disk.rewards, disk.rows, disk.dedup, disk.nonces, disk.receipts,
                           disk.ckpt, disk.sessions, disk.made)
         /\ rewarded = Files(next, next, disk.rows, disk.dedup, disk.nonces, disk.receipts,
                             disk.ckpt, disk.sessions, disk.made)
         /\ projected = F(disk.dedup, disk.ckpt)
    <2> HIDE DEF start, memory
    <2>1. IsFiles(start) /\ start = disk
      BY <1>3, <1>6 DEF FilesSound
    <2>2. stored = Files(next, disk.rewards, disk.rows, disk.dedup, disk.nonces, disk.receipts,
                         disk.ckpt, disk.sessions, disk.made)
      BY <2>1, FilesUpdate
    <2> HIDE DEF stored
    <2>3. IsFiles(stored)
      BY <2>2 DEF IsFiles, Files
    <2>4. rewarded = Files(stored.blocks, next, stored.rows, stored.dedup, stored.nonces, stored.receipts,
                           stored.ckpt, stored.sessions, stored.made)
      BY <2>3, FilesUpdate
    <2> HIDE DEF rewarded
    <2>5. rewarded = Files(next, next, disk.rows, disk.dedup, disk.nonces, disk.receipts,
                           disk.ckpt, disk.sessions, disk.made)
      BY <2>2, <2>4 DEF Files
    <2>6. IsFiles(rewarded)
      BY <2>5 DEF IsFiles, Files
    <2>7. projected = Files(rewarded.blocks, rewarded.rewards, next, rewarded.dedup, rewarded.nonces,
                            rewarded.receipts, rewarded.ckpt, rewarded.sessions, rewarded.made)
      BY <2>6, FilesUpdate
    <2> HIDE DEF projected
    <2>8. projected = F(disk.dedup, disk.ckpt)
      BY <2>5, <2>7 DEF Files
    <2> QED BY <2>2, <2>5, <2>8
  <1>11. applied = M(node.dedup)
    <2>1. memory = node /\ IsMemory(node)
      BY <1>3, <1>6 DEF MemorySound
    <2> HIDE DEF memory
    <2> QED BY <1>5, <2>1, OnHeadIs
  <1> HIDE DEF start, memory, stored, rewarded, projected, applied, selected, k
  <1>12. \A n \in 0..k : credits(projected, n) = F(disk.dedup \cup C(n), disk.ckpt)
    <2> TAKE n \in 0..k
    <2> DEFINE v == disk.dedup \cup C(n)
    <2>1. IsFiles(projected) /\ projected.dedup = disk.dedup
      BY <1>10 DEF IsFiles, Files
    <2>2. credits(projected, n) = [projected EXCEPT !.dedup = v]
      BY <2>1
    <2> HIDE DEF v
    <2>3. [projected EXCEPT !.dedup = v] = Files(projected.blocks, projected.rewards, projected.rows, v,
             projected.nonces, projected.receipts, projected.ckpt, projected.sessions, projected.made)
      BY <2>1, FilesUpdate
    <2>4. [projected EXCEPT !.dedup = v] = F(v, disk.ckpt)
      BY <1>10, <2>3 DEF Files
    <2> QED BY <2>2, <2>4 DEF v
  <1>13. \A n \in 0..k : credits(applied, n) = M(disk.dedup \cup C(n))
    <2> TAKE n \in 0..k
    <2> DEFINE v == disk.dedup \cup C(n)
    <2>1. IsMemory(applied) /\ applied.dedup = disk.dedup
      BY <1>5, <1>11 DEF IsMemory, Memory
    <2>2. credits(applied, n) = [applied EXCEPT !.dedup = v]
      BY <2>1
    <2> HIDE DEF v
    <2>3. [applied EXCEPT !.dedup = v] = Memory(applied.chain, applied.shares, v, applied.nonces,
             applied.sessions, applied.ckpt, applied.poison, applied.authority)
      BY <2>1, MemoryUpdate
    <2>4. [applied EXCEPT !.dedup = v] = M(v)
      BY <1>11, <2>3 DEF Memory
    <2> QED BY <2>2, <2>4 DEF v
  <1>14. C(0) = {}
    OBVIOUS
  <1>15. verified = F(disk.dedup \cup C(k), next)
    <2> DEFINE x == credits(projected, k)
    <2>1. x = F(disk.dedup \cup C(k), disk.ckpt)
      BY <1>9, <1>12
    <2> DEFINE v == disk.dedup \cup C(k)
    <2> HIDE DEF x, v
    <2>2. x = F(v, disk.ckpt)
      BY <2>1 DEF v
    <2>3. IsFiles(x)
      BY <2>2 DEF IsFiles, Files
    <2>4. [x EXCEPT !.ckpt = next] = Files(x.blocks, x.rewards, x.rows, x.dedup, x.nonces, x.receipts, next,
                                           x.sessions, x.made)
      BY <2>3, FilesUpdate
    <2>5. [x EXCEPT !.ckpt = next] = F(v, next)
      BY <2>2, <2>4 DEF Files
    <2> QED BY <2>5 DEF x, v
  <1>16. /\ \A n \in 0..k : D[n] = F(disk.dedup \cup C(n), disk.ckpt)
         /\ \A n \in 0..k : A[n] = M(disk.dedup \cup C(n))
    <2> HIDE DEF credits, F, M, C
    <2> QED BY <1>12, <1>13
  <1>17. each = [n \in 1..k |-> Write(D[n], A[n - 1], "proof_dedup", FALSE)]
    <2> HIDE DEF credits
    <2>1. \A n \in 1..k : D[n] = credits(projected, n) /\ A[n - 1] = credits(applied, n - 1)
      BY <1>9
    <2> HIDE DEF D, A
    <2> QED BY <1>9, <2>1
  <1>18. recorded = A[k] /\ D[0] = projected
    <2>1. 0 \in 0..k /\ k \in 0..k
      BY <1>9
    <2>2. A[k] = recorded
      <3> HIDE DEF credits
      <3> QED BY <2>1
    <2>3. D[0] = F(disk.dedup \cup C(0), disk.ckpt) /\ disk.dedup \cup C(0) = disk.dedup
      BY <1>14, <1>16, <2>1
    <2> QED BY <1>10, <2>2, <2>3
  <1> HIDE DEF D, A, each, recorded, verified, C, credits
  <1>19. ASSUME NEW f, NEW rw, NEW ro, NEW de, NEW ck \in Sequence, WorksOf(ck) \subseteq Valid,
                f = Files(next, rw, ro, de, disk.nonces, disk.receipts, ck, disk.sessions, disk.made)
         PROVE  FilesOk(f, next, {}) /\ Owned(f, node)
    <2>1. BurnSound(disk)
      BY <1>6 DEF FilesSound
    <2>2. BurnSound(f)
      BY <1>19, <2>1 DEF BurnSound, Files
    <2>3. IsFiles(f) /\ f.blocks = next /\ f.ckpt = ck /\ f.nonces = disk.nonces /\ f.sessions = disk.sessions
      BY <1>19 DEF IsFiles, Files
    <2>4. FilesSound(f)
      BY <1>8, <1>19, <2>2, <2>3 DEF FilesSound, ChainSound
    <2> QED BY <1>5, <2>3, <2>4 DEF FilesOk, Owned
  <1>20. disk.ckpt \in Sequence /\ WorksOf(disk.ckpt) \subseteq Valid
    BY <1>6 DEF FilesSound
  <1>21. ASSUME NEW de PROVE MemorySound(M(de)) /\ M(de).poison = "none"
    BY <1>6, <1>7, EmptyEligible DEF MemorySound, IsMemory, Memory
  <1>22. ASSUME NEW d, NEW de, Owned(d, node) PROVE Owned(d, M(de))
    BY <1>22 DEF Owned, Memory
  <1>23. /\ \A n \in 0..k : FilesOk(D[n], next, {}) /\ MemorySound(A[n]) /\ Owned(D[n], A[n])
         /\ FilesOk(stored, next, {}) /\ FilesOk(rewarded, next, {}) /\ FilesOk(projected, next, {})
         /\ Owned(stored, node) /\ Owned(rewarded, applied) /\ MemorySound(applied)
    <2> HIDE DEF M
    <2>1. \A n \in 0..k : FilesOk(D[n], next, {}) /\ Owned(D[n], node)
      BY <1>16, <1>19, <1>20
    <2>2. \A n \in 0..k : MemorySound(A[n])
      BY <1>16, <1>21
    <2>3. \A n \in 0..k : Owned(D[n], A[n])
      BY <1>16, <1>22, <2>1
    <2>4. /\ FilesOk(stored, next, {}) /\ FilesOk(rewarded, next, {}) /\ FilesOk(projected, next, {})
          /\ Owned(stored, node) /\ Owned(rewarded, node)
      BY <1>10, <1>19, <1>20
    <2> QED BY <1>11, <1>21, <1>22, <2>1, <2>2, <2>3, <2>4
  <1> HIDE DEF F, M
  <1>24. WritesSound(disk, <<a, b, c>>, next, {}) /\ FilesAfter(disk, <<a, b, c>>) = projected
    <2>1. Poisons(p1) /\ Poisons(p2)
      BY DEF Poisons
    <2> HIDE DEF p1, p2
    <2>2. /\ Owned(disk, memory) /\ Owned(stored, memory) /\ MemorySound(memory)
          /\ FilesOk(stored, next, {}) /\ FilesOk(rewarded, next, {}) /\ FilesOk(projected, next, {})
          /\ Owned(rewarded, applied) /\ MemorySound(applied)
      BY <1>3, <1>5, <1>6, <1>23 DEF Owned
    <2> DEFINE none == {}
    <2> HIDE DEF none
    <2>3. /\ FilesOk(stored, next, none) /\ FilesOk(rewarded, next, none) /\ FilesOk(projected, next, none)
      BY <2>2 DEF none
    <2>4. AppendsSound(disk, stored, rewarded, projected, memory, applied, p1, p2, next, none)
      BY <2>1, <2>2, <2>3, ThreeAppends
    <2> QED BY <2>4 DEF AppendsSound, none, a, b, c
  <1>25. WritesSound(projected, each, next, {}) /\ FilesAfter(projected, each) = D[k]
    BY <1>9, <1>17, <1>18, <1>23, CreditsSound
  <1>26. Served(D[k], recorded) /\ Owned(D[k], recorded) /\ MemorySound(recorded)
    <2>1. k \in 0..k
      BY <1>9
    <2>2. Owned(D[k], recorded) /\ MemorySound(recorded)
      BY <1>18, <1>23, <2>1
    <2>3. D[k] = F(disk.dedup \cup C(k), disk.ckpt) /\ recorded = M(disk.dedup \cup C(k))
      BY <1>16, <1>18, <2>1
    <2>4. Served(D[k], recorded)
      BY <2>3 DEF Served, F, M, Files, Memory
    <2> QED BY <2>2, <2>4
  <1>27. WritesSound(D[k], last, next, {}) /\ Agrees(FilesAfter(D[k], last), recorded)
    <2>1. CASE reverified
      <3>1. FilesOk(verified, next, {}) /\ Owned(verified, node)
        BY <1>7, <1>15, <1>19, <2>1 DEF F
      <3>2. recorded = M(disk.dedup \cup C(k)) /\ recorded.poison = "none"
        BY <1>9, <1>16, <1>18, <1>21
      <3>3. Owned(verified, recorded) /\ Served(verified, recorded)
        <4>1. Owned(verified, recorded)
          BY <1>22, <3>1, <3>2
        <4>2. Served(verified, recorded)
          BY <1>15, <3>2 DEF Served, F, M, Files, Memory
        <4> QED BY <4>1, <4>2
      <3> DEFINE d == D[k]
      <3>4. Served(d, recorded) /\ Owned(d, recorded) /\ MemorySound(recorded)
        BY <1>26
      <3> HIDE DEF d
      <3>5. WriteSound(d, g, next, {}) /\ g.disk = verified
        BY <3>1, <3>2, <3>3, <3>4, CleanRewrite
      <3>6. last = <<g>>
        BY <1>3, <2>1
      <3> HIDE DEF g, last
      <3>7. WritesSound(d, last, next, {}) /\ FilesAfter(d, last) = verified
        BY <3>5, <3>6, OneWrite
      <3> QED BY <3>3, <3>7 DEF Agrees, d
    <2>2. CASE ~ reverified
      <3>1. last = <<>>
        BY <1>3, <2>2
      <3> HIDE DEF last
      <3> QED BY <1>26, <3>1, NoWrites DEF Agrees
    <2> QED BY <2>1, <2>2
  <1> HIDE DEF a, b, c, last
  <1>28. /\ WritesSound(disk, <<a, b, c>> \o each, next, {})
         /\ FilesAfter(disk, <<a, b, c>> \o each) = D[k]
    BY <1>24, <1>25, MoreWrites
  <1> DEFINE most == <<a, b, c>> \o each
             d == D[k]
  <1>29. WritesSound(disk, most, next, {}) /\ FilesAfter(disk, most) = d
    BY <1>28
  <1>30. WritesSound(d, last, next, {}) /\ Agrees(FilesAfter(d, last), recorded)
    BY <1>27
  <1>31. o \in Outcomes(disk, most \o last, recorded, Halted)
    BY <1>2, <1>3
  <1> HIDE DEF most, d
  <1>32. /\ WritesSound(disk, most \o last, next, {})
         /\ FilesAfter(disk, most \o last) = FilesAfter(d, last)
    BY <1>29, <1>30, MoreWrites
  <1>33. FilesOk(disk, next, {})
    BY <1>6 DEF FilesOk
  <1>34. EndSound(o, next, {})
    BY <1>26, <1>30, <1>31, <1>32, <1>33, OutcomesSound
  <1> QED BY <1>8, <1>34

(* Blocks, rewards, dedup mirror and bounty rows, replaced one after another. *)
RewritesSound(start, f, g, h, e, m, n, r, p, q, t, next, N) ==
    LET writes == <<Write(f, m, p, TRUE), Write(g, m, p, TRUE), Write(h, n, q, TRUE), Write(e, r, t, TRUE)>>
    IN  WritesSound(start, writes, next, N) /\ FilesAfter(start, writes) = e

LEMMA FourRewrites ==
  ASSUME NEW start, NEW f, NEW g, NEW h, NEW e, NEW m, NEW n, NEW r, NEW p, NEW q, NEW t, NEW next, NEW N,
         FilesOk(f, next, N), FilesOk(g, next, N), FilesOk(h, next, N), FilesOk(e, next, N),
         MemoryShape(m), MemoryShape(n), MemoryShape(r), Poisons(p), Poisons(q), Poisons(t),
         Owned(start, m), Owned(f, m), Owned(g, m), Owned(g, n), Owned(h, n), Owned(h, r), Owned(e, r)
  PROVE  RewritesSound(start, f, g, h, e, m, n, r, p, q, t, next, N)
  <1> DEFINE a == Write(f, m, p, TRUE)
             b == Write(g, m, p, TRUE)
             c == Write(h, n, q, TRUE)
             d == Write(e, r, t, TRUE)
  <1>1. WriteSound(start, a, next, N) /\ a.disk = f
    BY PoisonedRewrite
  <1>2. WriteSound(f, b, next, N) /\ b.disk = g
    BY PoisonedRewrite
  <1>3. WriteSound(g, c, next, N) /\ c.disk = h
    BY PoisonedRewrite
  <1>4. WriteSound(h, d, next, N) /\ d.disk = e
    BY PoisonedRewrite
  <1> HIDE DEF a, b, c, d
  <1>5. WritesSound(start, <<a, b, c, d>>, next, N) /\ FilesAfter(start, <<a, b, c, d>>) = e
    BY <1>1, <1>2, <1>3, <1>4, FourWrites
  <1> QED BY <1>5 DEF a, b, c, d, RewritesSound

(* commit_candidate_chain. *)
LEMMA CommitChainSound ==
  ASSUME IInv, up, node.authority, NEW chain, CandidateWins(chain), ChainSound(chain),
         NEW o \in CommitChain(chain)
  PROVE  EndSound(o, chain, {}) /\ Advances(chain)
  <1> DEFINE stored == [disk EXCEPT !.blocks = chain]
             rewarded == [stored EXCEPT !.rewards = chain]
             credited == [rewarded EXCEPT !.dedup = Credited(chain)]
             projected == [credited EXCEPT !.rows = chain]
             dropped == [projected EXCEPT !.ckpt = <<>>]
             applied == OnHead(node, chain)
             recorded == [applied EXCEPT !.dedup = Credited(chain)]
             kept == SurvivingCkpt(node.ckpt, chain)
             done == [recorded EXCEPT !.ckpt = SurvivingCkpt(@, chain)]
             p1 == "reorg_reward"
             p2 == "proof_dedup"
             p3 == "bounty_projection"
             four == <<Write(stored, node, p1, TRUE), Write(rewarded, node, p1, TRUE),
                       Write(credited, applied, p2, TRUE), Write(projected, recorded, p3, TRUE)>>
             g == Write(dropped, done, "none", TRUE)
             last == IF done.ckpt # node.ckpt THEN <<g>> ELSE <<>>
             none == {}
  <1>1. o \in Outcomes(disk, four \o last, done, Halted)
    BY DEF CommitChain
  <1>2. Ready /\ ChooseCandidate(node.chain, chain) /\ chain \in Sequence
    BY DEF CandidateWins, Ready, ChainSound
  <1>3. /\ disk.blocks = node.chain /\ disk.rewards = node.chain /\ disk.rows = node.chain
        /\ disk.dedup = node.dedup /\ disk.nonces = node.nonces /\ disk.sessions = node.sessions
        /\ node.poison = "none"
    BY <1>2, ReadyAgrees
  <1>4. FilesSound(disk) /\ MemorySound(node)
    BY DEF IInv
  <1>5. Advances(chain)
    BY <1>2, <1>3 DEF Advances
  <1>6. /\ kept \in Sequence /\ PrefixOf(kept, chain) /\ WorksOf(kept) \subseteq Valid
        /\ kept # node.ckpt => kept = <<>>
    <2>1. node.ckpt \in Sequence /\ WorksOf(node.ckpt) \subseteq Valid
      BY <1>4 DEF MemorySound
    <2> QED BY <1>2, <2>1, Surviving
  <1> HIDE DEF kept
  <1> DEFINE F(rw, de, ro, ck) == Files(chain, rw, ro, de, disk.nonces, disk.receipts, ck, disk.sessions, disk.made)
             M(de, ck) == Memory(chain, EmptyShares, de, node.nonces, node.sessions, ck, "none", node.authority)
  <1>7. /\ stored = F(disk.rewards, disk.dedup, disk.rows, disk.ckpt)
        /\ rewarded = F(chain, disk.dedup, disk.rows, disk.ckpt)
        /\ credited = F(chain, Credited(chain), disk.rows, disk.ckpt)
        /\ projected = F(chain, Credited(chain), chain, disk.ckpt)
        /\ dropped = F(chain, Credited(chain), chain, <<>>)
    <2>1. stored = F(disk.rewards, disk.dedup, disk.rows, disk.ckpt)
      BY <1>4, FilesUpdate DEF FilesSound
    <2> HIDE DEF stored
    <2>2. rewarded = F(chain, disk.dedup, disk.rows, disk.ckpt)
      BY <2>1 DEF Files
    <2> HIDE DEF rewarded
    <2>3. credited = F(chain, Credited(chain), disk.rows, disk.ckpt)
      BY <2>2 DEF Files
    <2> HIDE DEF credited
    <2>4. projected = F(chain, Credited(chain), chain, disk.ckpt)
      BY <2>3 DEF Files
    <2> HIDE DEF projected
    <2>5. dropped = F(chain, Credited(chain), chain, <<>>)
      BY <2>4 DEF Files
    <2> QED BY <2>1, <2>2, <2>3, <2>4, <2>5
  <1>8. /\ applied = M(node.dedup, node.ckpt)
        /\ recorded = M(Credited(chain), node.ckpt)
        /\ done = M(Credited(chain), kept)
    <2>1. applied = M(node.dedup, node.ckpt)
      BY <1>3, <1>4, OnHeadIs DEF MemorySound
    <2> HIDE DEF applied
    <2>2. recorded = M(Credited(chain), node.ckpt)
      <3>1. IsMemory(applied)
        BY <2>1 DEF IsMemory, Memory
      <3>2. recorded = Memory(applied.chain, applied.shares, Credited(chain), applied.nonces, applied.sessions,
                              applied.ckpt, applied.poison, applied.authority)
        BY <3>1, MemoryUpdate
      <3> QED BY <2>1, <3>2 DEF Memory
    <2>3. recorded.ckpt = node.ckpt
      BY <2>2 DEF Memory
    <2> HIDE DEF recorded
    <2>4. done = [recorded EXCEPT !.ckpt = kept]
      BY <2>3 DEF kept
    <2>5. done = M(Credited(chain), kept)
      <3>1. IsMemory(recorded)
        BY <2>2 DEF IsMemory, Memory
      <3>2. done = Memory(recorded.chain, recorded.shares, recorded.dedup, recorded.nonces, recorded.sessions,
                          kept, recorded.poison, recorded.authority)
        BY <2>4, <3>1, MemoryUpdate
      <3> QED BY <2>2, <3>2 DEF Memory
    <2> QED BY <2>1, <2>2, <2>5
  <1> HIDE DEF stored, rewarded, credited, projected, dropped, applied, recorded, done
  <1>9. ASSUME NEW f, NEW rw, NEW ro, NEW de, NEW ck \in Sequence, WorksOf(ck) \subseteq Valid,
               f = Files(chain, rw, ro, de, disk.nonces, disk.receipts, ck, disk.sessions, disk.made)
        PROVE  FilesOk(f, chain, none) /\ Owned(f, node)
    <2>1. BurnSound(disk)
      BY <1>4 DEF FilesSound
    <2>2. BurnSound(f)
      BY <1>9, <2>1 DEF BurnSound, Files
    <2>3. IsFiles(f) /\ f.blocks = chain /\ f.ckpt = ck /\ f.nonces = disk.nonces /\ f.sessions = disk.sessions
      BY <1>9 DEF IsFiles, Files
    <2>4. FilesSound(f)
      BY <1>9, <2>2, <2>3 DEF FilesSound, ChainSound
    <2> QED BY <1>3, <2>3, <2>4 DEF FilesOk, Owned
  <1>10. disk.ckpt \in Sequence /\ WorksOf(disk.ckpt) \subseteq Valid
    BY <1>4 DEF FilesSound
  <1>11. /\ FilesOk(stored, chain, none) /\ FilesOk(rewarded, chain, none) /\ FilesOk(credited, chain, none)
         /\ FilesOk(projected, chain, none) /\ FilesOk(dropped, chain, none)
         /\ Owned(stored, node) /\ Owned(rewarded, node) /\ Owned(credited, node)
         /\ Owned(projected, node) /\ Owned(dropped, node)
    <2>1. FilesOk(dropped, chain, none) /\ Owned(dropped, node)
      BY <1>7, <1>9, EmptyChain
    <2> QED BY <1>7, <1>9, <1>10, <2>1
  <1>12. ASSUME NEW n, NEW de, NEW ck \in Sequence, WorksOf(ck) \subseteq Valid, n = M(de, ck)
         PROVE  MemoryShape(n)
    BY <1>2, <1>12, EmptyEligible DEF MemoryShape, IsMemory, Memory
  <1>13. ASSUME NEW d, NEW de, NEW ck, Owned(d, node) PROVE Owned(d, M(de, ck))
    BY <1>13 DEF Owned, Memory
  <1>14. node.ckpt \in Sequence /\ WorksOf(node.ckpt) \subseteq Valid
    BY <1>4 DEF MemorySound
  <1>15. MemoryShape(node) /\ MemoryShape(applied) /\ MemoryShape(recorded) /\ MemoryShape(done)
    <2>1. MemoryShape(node)
      BY <1>4 DEF MemoryShape, MemorySound
    <2> HIDE DEF M
    <2> QED BY <1>6, <1>8, <1>12, <1>14, <2>1
  <1>16. MemorySound(done) /\ done.poison = "none" /\ done.ckpt = kept
    BY <1>6, <1>8, <1>15 DEF MemoryShape, MemorySound, Memory
  <1>17. Served(projected, done) /\ Served(dropped, done)
    BY <1>7, <1>8 DEF Served, Memory, Files
  <1>18. /\ Owned(disk, node) /\ Owned(rewarded, applied) /\ Owned(credited, applied)
         /\ Owned(credited, recorded) /\ Owned(projected, recorded)
         /\ Owned(projected, done) /\ Owned(dropped, done)
    <2>1. Owned(disk, node)
      BY <1>3 DEF Owned
    <2> HIDE DEF M
    <2> QED BY <1>8, <1>11, <1>13, <2>1
  <1> HIDE DEF F, M, none
  <1>19. WritesSound(disk, four, chain, none) /\ FilesAfter(disk, four) = projected
    <2>1. Poisons(p1) /\ Poisons(p2) /\ Poisons(p3)
      BY DEF Poisons
    <2> HIDE DEF p1, p2, p3
    <2>2. RewritesSound(disk, stored, rewarded, credited, projected, node, applied, recorded, p1, p2, p3, chain, none)
      BY <1>11, <1>15, <1>18, <2>1, FourRewrites
    <2> QED BY <2>2 DEF RewritesSound
  <1> HIDE DEF four
  <1>20. WritesSound(projected, last, chain, none) /\ Agrees(FilesAfter(projected, last), done)
    <2>1. CASE done.ckpt # node.ckpt
      <3>1. last = <<g>>
        BY <2>1
      <3>2. WriteSound(projected, g, chain, none) /\ g.disk = dropped
        <4>1. /\ MemorySound(done) /\ FilesOk(dropped, chain, none)
              /\ Owned(projected, done) /\ Owned(dropped, done)
              /\ done.poison = "none" /\ Served(projected, done) /\ Served(dropped, done)
          BY <1>11, <1>16, <1>17, <1>18
        <4> HIDE DEF done, projected, dropped
        <4>2. WriteSound(projected, Write(dropped, done, "none", TRUE), chain, none) /\ Write(dropped, done, "none", TRUE).disk = dropped
          BY ONLY <4>1, CleanRewrite
        <4> QED BY <4>2
      <3> HIDE DEF g, last
      <3>3. WritesSound(projected, last, chain, none) /\ FilesAfter(projected, last) = dropped
        BY <3>1, <3>2, OneWrite
      <3> QED BY <1>17, <1>18, <3>3 DEF Agrees
    <2>2. CASE done.ckpt = node.ckpt
      <3>1. last = <<>>
        BY <2>2
      <3> HIDE DEF last
      <3> QED BY <1>17, <1>18, <3>1, NoWrites DEF Agrees
    <2> QED BY <2>1, <2>2
  <1> HIDE DEF last
  <1>21. /\ WritesSound(disk, four \o last, chain, none)
         /\ FilesAfter(disk, four \o last) = FilesAfter(projected, last)
    BY <1>19, <1>20, MoreWrites
  <1>22. FilesOk(disk, chain, none)
    BY <1>4 DEF FilesOk
  <1>23. EndSound(o, chain, none)
    BY <1>1, <1>16, <1>20, <1>21, <1>22, OutcomesSound
  <1> QED BY <1>5, <1>23 DEF none


-----------------------------------------------------------------------------
(* The shares of a head. *)

LEMMA SequenceFacts ==
  ASSUME NEW S, NEW s \in Seq(S)
  PROVE  /\ Len(s) \in Nat /\ DOMAIN s = 1..Len(s)
         /\ \A e \in S : Append(s, e) \in Seq(S) /\ Len(Append(s, e)) = Len(s) + 1 /\ Append(s, e)[Len(s) + 1] = e
         /\ \A i, j \in Nat : i >= 1 /\ j <= Len(s) => SubSeq(s, i, j) \in Seq(S)
  OBVIOUS

LEMMA TombRemoved ==
  ASSUME NEW tombs \in Seq(Keys), NEW key
  PROVE  RemoveTomb(tombs, key) \in Seq(Keys)
  <1>1. CASE \E i \in 1..Len(tombs) : tombs[i] = key
    <2> DEFINE I == {i \in 1..Len(tombs) : tombs[i] = key}
               m == Min(I)
    <2>1. I \subseteq Nat /\ I # {}
      BY <1>1
    <2>2. m \in I
      <3>1. \E x \in I : \A y \in I : x <= y
        BY <2>1, LeastNatural
      <3> QED BY <3>1 DEF Min
    <2>3. RemoveTomb(tombs, key) = SubSeq(tombs, 1, m - 1) \o SubSeq(tombs, m + 1, Len(tombs))
      BY <1>1, <2>1 DEF RemoveTomb, RemoveFirst, SelectInSeq, RemoveAt
    <2>4. m \in 1..Len(tombs)
      BY <2>2
    <2> HIDE DEF m, I
    <2>5. SubSeq(tombs, 1, m - 1) \in Seq(Keys) /\ SubSeq(tombs, m + 1, Len(tombs)) \in Seq(Keys)
      BY <2>4
    <2> QED BY <2>3, <2>5
  <1>2. CASE ~ \E i \in 1..Len(tombs) : tombs[i] = key
    <2>1. RemoveTomb(tombs, key) = tombs
      BY <1>2 DEF RemoveTomb, RemoveFirst
    <2> QED BY <2>1
  <1> QED BY <1>1, <1>2

(* The newest reservation is never the one evicted. *)
LEMMA TombInserted ==
  ASSUME NEW tombs \in Seq(Keys), NEW key \in Keys
  PROVE  /\ InsertTomb(tombs, key) \in Seq(Keys)
         /\ key \notin ToSet(tombs) => key \in ToSet(InsertTomb(tombs, key))
  <1>1. TombCap \in Nat \ {0}
    BY CapsAssumption
  <1>2. ASSUME NEW t \in Seq(Keys)
        PROVE  /\ Evict(t) \in Seq(Keys)
               /\ Len(t) > 0 => t[Len(t)] \in ToSet(Evict(t))
    <2> DEFINE f == IF Len(t) > TombCap THEN Len(t) - TombCap + 1 ELSE 1
               e == SubSeq(t, f, Len(t))
    <2>1. Len(t) \in Nat /\ f \in Nat \ {0} /\ (Len(t) > 0 => f <= Len(t))
      BY <1>1
    <2>2. Evict(t) = e
      BY DEF Evict
    <2> HIDE DEF f
    <2>3. e \in Seq(Keys)
      BY <2>1
    <2>4. ASSUME Len(t) > 0 PROVE t[Len(t)] \in ToSet(e)
      <3>1. Len(e) = Len(t) - f + 1 /\ Len(e) \in DOMAIN e
        BY <2>1, <2>4
      <3>2. e[Len(e)] = t[Len(t)]
        BY <2>1, <2>4, <3>1
      <3> QED BY <3>1, <3>2 DEF ToSet
    <2> QED BY <2>2, <2>3, <2>4
  <1>3. CASE key \in ToSet(tombs)
    BY <1>2, <1>3 DEF InsertTomb
  <1>4. CASE key \notin ToSet(tombs)
    <2> DEFINE t == Append(tombs, key)
    <2>1. InsertTomb(tombs, key) = Evict(t)
      BY <1>4 DEF InsertTomb
    <2>2. t \in Seq(Keys) /\ Len(t) > 0 /\ t[Len(t)] = key
      BY SequenceFacts
    <2> HIDE DEF t
    <2> QED BY <1>2, <2>1, <2>2
  <1> QED BY <1>3, <1>4

LEMMA AdmitIs ==
  ASSUME NEW s, IsShares(s), NEW w
  PROVE  \E used : Admit(s, w) = Shares(IF Cardinality(s.candidates) < GlobalCap THEN s.candidates \cup {w} ELSE s.candidates,
                                        s.active \cup {Key(w)}, s.tombs, used)
  <1>1. PICK f1, f2, f3, f4 : s = Shares(f1, f2, f3, f4)
    BY DEF IsShares
  <1> DEFINE used == [s.used EXCEPT ![Pk[w]] = @ + 1]
             cand == IF Cardinality(s.candidates) < GlobalCap THEN s.candidates \cup {w} ELSE s.candidates
             key == Key(w)
  <1>2. Admit(s, w) = [s EXCEPT !.active = @ \cup {key}, !.used = used, !.candidates = cand]
    BY <1>1 DEF Admit, Shares
  <1> HIDE DEF used, cand, key
  <1>3. Admit(s, w) = Shares(cand, s.active \cup {key}, s.tombs, used)
    BY <1>1, <1>2 DEF Shares
  <1> QED BY <1>3 DEF cand, key

(* Shares of this shape with these candidates. *)
SharesShape(s, candidates) ==
    IsShares(s) /\ s.candidates = candidates /\ s.tombs \in Seq(Keys)

Holds(s, w) ==
    /\ Key(w) \in ToSet(s.tombs)
    /\ Key(w) \notin s.active
    /\ w \notin s.candidates

LEMMA EligibleShape ==
  ASSUME NEW s, NEW C, SharesShape(s, C), C \subseteq Works, checker => C \subseteq Valid
  PROVE  SharesEligible(s)
  BY DEF SharesShape, SharesEligible

Dropped(s, w) == [s EXCEPT !.candidates = @ \ {w}]

LEMMA WithoutOne ==
  ASSUME NEW s, NEW w, IsShares(s), s.tombs \in Seq(Keys)
  PROVE  SharesShape(Dropped(s, w), s.candidates \ {w})
  <1> DEFINE v == s.candidates \ {w}
             t == [s EXCEPT !.candidates = v]
  <1>1. Dropped(s, w) = t
    BY DEF Dropped
  <1> HIDE DEF v
  <1>2. t = Shares(v, s.active, s.tombs, s.used)
    BY SharesUpdate
  <1> HIDE DEF t
  <1>3. SharesShape(t, v)
    BY <1>2 DEF SharesShape, IsShares, Shares
  <1> QED BY <1>1, <1>3 DEF v

LEMMA ReserveIs ==
  ASSUME NEW s, NEW w \in Works, IsShares(s), s.tombs \in Seq(Keys)
  PROVE  /\ SharesShape(Reserve(s, w), s.candidates)
         /\ Reserve(s, w).active = s.active \ {Key(w)}
         /\ Reserve(s, w).tombs = InsertTomb(s.tombs, Key(w))
  <1>1. PICK f1, f2, f3, f4 : s = Shares(f1, f2, f3, f4)
    BY DEF IsShares
  <1> DEFINE key == Key(w)
             t == InsertTomb(s.tombs, key)
             r == Reserve(s, w)
  <1>2. key \in Keys
    BY DEF Keys
  <1> HIDE DEF key
  <1>3. t \in Seq(Keys)
    BY <1>2, TombInserted
  <1>4. r = [s EXCEPT !.active = @ \ {key}, !.tombs = t]
    BY <1>1 DEF Reserve, key, Shares
  <1> HIDE DEF t, r
  <1>5. r = Shares(s.candidates, s.active \ {key}, t, s.used)
    BY <1>1, <1>4 DEF Shares
  <1>6. SharesShape(r, s.candidates) /\ r.active = s.active \ {key} /\ r.tombs = t
    BY <1>3, <1>5 DEF SharesShape, IsShares, Shares
  <1> QED BY <1>6 DEF r, t, key

LEMMA QuarantineIs ==
  ASSUME NEW s, NEW w \in Works, IsShares(s), s.tombs \in Seq(Keys)
  PROVE  SharesShape(Quarantine(s, w), s.candidates \ {w})
  <1>1. CASE w \notin s.candidates
    <2>1. Quarantine(s, w) = s /\ s.candidates \ {w} = s.candidates
      BY <1>1 DEF Quarantine
    <2> QED BY <2>1 DEF SharesShape
  <1>2. CASE w \in s.candidates /\ Key(w) \notin s.active
    <2>1. Quarantine(s, w) = Dropped(s, w)
      BY <1>2 DEF Quarantine, Dropped
    <2> QED BY <2>1, WithoutOne
  <1>3. CASE w \in s.candidates /\ Key(w) \in s.active
    <2> DEFINE r == Reserve(s, w)
    <2>1. Quarantine(s, w) = Dropped(r, w)
      BY <1>3 DEF Quarantine, Dropped
    <2>2. IsShares(r) /\ r.candidates = s.candidates /\ r.tombs \in Seq(Keys)
      BY ReserveIs DEF SharesShape
    <2> HIDE DEF r
    <2> QED BY <2>1, <2>2, WithoutOne
  <1> QED BY <1>1, <1>2, <1>3

LEMMA RefundIs ==
  ASSUME NEW s, NEW w, NEW C, SharesShape(s, C)
  PROVE  SharesShape(Refund(s, w), C)
  <1>1. PICK f1, f2, f3, f4 : s = Shares(f1, f2, f3, f4)
    BY DEF SharesShape, IsShares
  <1> DEFINE used == [s.used EXCEPT ![Pk[w]] = IF @ > 0 THEN @ - 1 ELSE 0]
  <1>2. Refund(s, w) = [s EXCEPT !.used = used]
    BY <1>1 DEF Refund, Shares
  <1> HIDE DEF used
  <1> DEFINE r == Refund(s, w)
  <1>3. r = Shares(s.candidates, s.active, s.tombs, used)
    BY <1>2, SharesUpdate DEF SharesShape
  <1> HIDE DEF r
  <1>4. SharesShape(r, C)
    BY <1>3 DEF SharesShape, IsShares, Shares
  <1> QED BY <1>4 DEF r

LEMMA TakeIs ==
  ASSUME NEW s, NEW w \in Works, IsShares(s), s.tombs \in Seq(Keys)
  PROVE  /\ SharesShape(Take(s, w), s.candidates \ {w})
         /\ Takeable(s, w) /\ Key(w) \notin ToSet(s.tombs) => Holds(Take(s, w), w)
  <1>1. CASE Takeable(s, w)
    <2> DEFINE r == Reserve(s, w)
               t == Take(s, w)
    <2>1. t = Dropped(r, w)
      BY <1>1 DEF Take, Takeable, Dropped
    <2>2. /\ IsShares(r) /\ r.candidates = s.candidates /\ r.tombs \in Seq(Keys)
          /\ r.active = s.active \ {Key(w)} /\ r.tombs = InsertTomb(s.tombs, Key(w))
      BY ReserveIs DEF SharesShape
    <2>3. Key(w) \in Keys
      BY DEF Keys
    <2>4. Key(w) \notin ToSet(s.tombs) => Key(w) \in ToSet(InsertTomb(s.tombs, Key(w)))
      BY <2>3, TombInserted
    <2> HIDE DEF r
    <2> DEFINE v == r.candidates \ {w}
    <2>5. Dropped(r, w) = [r EXCEPT !.candidates = v]
      BY DEF Dropped
    <2>6. w \notin v
      OBVIOUS
    <2> HIDE DEF v, t
    <2>7. t = Shares(v, r.active, r.tombs, r.used)
      BY <2>1, <2>2, <2>5, SharesUpdate
    <2>8. t.candidates = v /\ t.active = r.active /\ t.tombs = r.tombs
      BY <2>7 DEF Shares
    <2>9. Key(w) \notin ToSet(s.tombs) => Holds(t, w)
      BY <2>2, <2>4, <2>6, <2>8 DEF Holds
    <2>10. SharesShape(t, s.candidates \ {w})
      BY <2>1, <2>2, WithoutOne
    <2> QED BY <2>9, <2>10 DEF t
  <1>2. CASE w \in s.candidates /\ Key(w) \notin s.active
    <2> DEFINE r == Dropped(s, w)
    <2>1. SharesShape(r, s.candidates \ {w})
      BY WithoutOne
    <2>2. Take(s, w) = Refund(r, w) /\ ~ Takeable(s, w)
      BY <1>2 DEF Take, Takeable, Dropped
    <2> HIDE DEF r
    <2> QED BY <2>1, <2>2, RefundIs
  <1>3. CASE w \notin s.candidates
    <2>1. Take(s, w) = s /\ s.candidates \ {w} = s.candidates /\ ~ Takeable(s, w)
      BY <1>3 DEF Take, Takeable
    <2> QED BY <2>1 DEF SharesShape
  <1> QED BY <1>1, <1>2, <1>3 DEF Takeable

LEMMA RestoreIs ==
  ASSUME NEW s, NEW w, IsShares(s), s.tombs \in Seq(Keys)
  PROVE  SharesShape(Restore(s, w), s.candidates \cup {w})
  <1>1. PICK f1, f2, f3, f4 : s = Shares(f1, f2, f3, f4)
    BY DEF IsShares
  <1> DEFINE key == Key(w)
             t == RemoveTomb(s.tombs, key)
             r == Restore(s, w)
  <1>2. t \in Seq(Keys)
    BY TombRemoved
  <1>3. r = [s EXCEPT !.tombs = t, !.active = @ \cup {key}, !.candidates = @ \cup {w}]
    BY <1>1 DEF Restore, Shares
  <1> HIDE DEF t, r, key
  <1>4. r = Shares(s.candidates \cup {w}, s.active \cup {key}, t, s.used)
    BY <1>1, <1>3 DEF Shares
  <1>5. SharesShape(r, s.candidates \cup {w})
    BY <1>2, <1>4 DEF SharesShape, IsShares, Shares
  <1> QED BY <1>5 DEF r

LEMMA ReleaseIs ==
  ASSUME NEW s, NEW w, NEW same, IsShares(s), s.tombs \in Seq(Keys)
  PROVE  SharesShape(Release(s, w, same), s.candidates)
  <1> DEFINE t == RemoveTomb(s.tombs, Key(w))
             r == [s EXCEPT !.tombs = t]
  <1>1. t \in Seq(Keys)
    BY TombRemoved
  <1>2. Release(s, w, same) = IF same THEN Refund(r, w) ELSE r
    BY DEF Release
  <1> HIDE DEF t
  <1>3. r = Shares(s.candidates, s.active, t, s.used)
    BY SharesUpdate
  <1> HIDE DEF r
  <1>4. SharesShape(r, s.candidates)
    BY <1>1, <1>3 DEF SharesShape, IsShares, Shares
  <1> QED BY <1>2, <1>4, RefundIs

LEMMA AdmitShape ==
  ASSUME NEW s, NEW w, IsShares(s), s.tombs \in Seq(Keys)
  PROVE  /\ IsShares(Admit(s, w)) /\ Admit(s, w).tombs = s.tombs
         /\ Admit(s, w).candidates \in {s.candidates, s.candidates \cup {w}}
  <1> DEFINE a == Admit(s, w)
  <1>1. PICK cand, active, used : a = Shares(cand, active, s.tombs, used) /\ cand \in {s.candidates, s.candidates \cup {w}}
    BY AdmitIs
  <1> HIDE DEF a
  <1>2. IsShares(a) /\ a.tombs = s.tombs /\ a.candidates \in {s.candidates, s.candidates \cup {w}}
    BY <1>1 DEF IsShares, Shares
  <1> QED BY <1>2 DEF a

(* What keeps unchecked shares out of reach of a block. *)
LEMMA AdmittedEligible ==
  ASSUME NEW s, SharesEligible(s), NEW w \in Works
  PROVE  /\ SharesEligible(Quarantine(Admit(s, w), w))
         /\ SharesEligible(Take(Admit(s, w), w))
         /\ ~ checker => SharesEligible(Admit(s, w))
         /\ Admissible(s, w) /\ Takeable(Admit(s, w), w) => Holds(Take(Admit(s, w), w), w)
  <1> DEFINE a == Admit(s, w)
  <1>1. IsShares(s) /\ s.tombs \in Seq(Keys) /\ s.candidates \subseteq Works /\ (checker => s.candidates \subseteq Valid)
    BY DEF SharesEligible
  <1>2. IsShares(a) /\ a.tombs = s.tombs /\ a.candidates \in {s.candidates, s.candidates \cup {w}}
    BY <1>1, AdmitShape
  <1> HIDE DEF a
  <1>3. a.candidates \ {w} \subseteq s.candidates
    BY <1>2
  <1> DEFINE C == a.candidates \ {w}
  <1>4. SharesShape(Quarantine(a, w), C) /\ SharesShape(Take(a, w), C)
    BY <1>1, <1>2, QuarantineIs, TakeIs
  <1>5. C \subseteq Works /\ (checker => C \subseteq Valid)
    BY <1>1, <1>3
  <1> HIDE DEF C
  <1>6. SharesEligible(Quarantine(a, w)) /\ SharesEligible(Take(a, w))
    BY <1>4, <1>5, EligibleShape
  <1>7. ASSUME ~ checker PROVE SharesEligible(a)
    BY <1>1, <1>2, <1>7 DEF SharesEligible
  <1>8. ASSUME Admissible(s, w), Takeable(a, w) PROVE Holds(Take(a, w), w)
    <2>1. Key(w) \notin ToSet(a.tombs)
      BY <1>2, <1>8 DEF Admissible
    <2> QED BY <1>1, <1>2, <1>8, <2>1, TakeIs
  <1> QED BY <1>6, <1>7, <1>8 DEF a

LEMMA KeptEligible ==
  ASSUME NEW s, SharesEligible(s), NEW w \in Works
  PROVE  /\ SharesEligible(Quarantine(s, w))
         /\ \A same : SharesEligible(Release(s, w, same))
         /\ (checker => w \in Valid) => SharesEligible(Restore(s, w))
  <1>1. IsShares(s) /\ s.tombs \in Seq(Keys) /\ s.candidates \subseteq Works /\ (checker => s.candidates \subseteq Valid)
    BY DEF SharesEligible
  <1> DEFINE C == s.candidates \ {w}
             D == s.candidates \cup {w}
             E == s.candidates
  <1>2. C \subseteq Works /\ (checker => C \subseteq Valid)
    BY <1>1
  <1>3. D \subseteq Works /\ ((checker => w \in Valid) => (checker => D \subseteq Valid))
    BY <1>1
  <1>4. /\ SharesShape(Quarantine(s, w), C) /\ SharesShape(Restore(s, w), D)
        /\ \A same : SharesShape(Release(s, w, same), E)
    BY <1>1, QuarantineIs, RestoreIs, ReleaseIs
  <1> HIDE DEF C, D
  <1> QED BY <1>1, <1>2, <1>3, <1>4, EligibleShape

-----------------------------------------------------------------------------
(* Steps. *)

(* The inductive invariant without the jobs. *)
Core ==
    /\ up \in BOOLEAN /\ checker \in BOOLEAN
    /\ FilesSound(disk)
    /\ MemorySound(node)
    /\ up => Agrees(disk, node)

CanonicalFiles == {"blocks", "rewards", "rows", "dedup", "nonces", "receipts", "ckpt"}

(* What a step may do to the files. *)
FilesStep ==
    /\ Advances(disk'.blocks)
    /\ UNCHANGED checker
    /\ \A k \in disk'.nonces \ disk.nonces : node.sessions[k[1]] = "active"
    /\ up /\ (~ Healthy \/ ~ node.authority) =>
          \A file \in CanonicalFiles : disk'[file] = disk[file]
    /\ up /\ ~ node.authority => disk'.sessions = disk.sessions

LEMMA FilesKept ==
  ASSUME UNCHANGED <<disk, checker>>
  PROVE  FilesStep
  BY DEF FilesStep, Advances

LEMMA JobsDone ==
  ASSUME jobs' = {}, busy' = FALSE
  PROVE  JobsSound'
  BY DEF JobsSound

(* A phase that changes memory only. *)
LEMMA LeavesCore ==
  ASSUME IInv, NEW shares, SharesEligible(shares), node' = [node EXCEPT !.shares = shares],
         UNCHANGED <<up, disk, checker>>
  PROVE  Core' /\ node'.chain = node.chain /\ node'.shares = shares
  <1>1. node' = Memory(node.chain, shares, node.dedup, node.nonces, node.sessions, node.ckpt, node.poison, node.authority)
    BY MemoryUpdate DEF IInv, MemorySound
  <1>2. /\ node'.chain = node.chain /\ node'.shares = shares /\ node'.dedup = node.dedup /\ node'.nonces = node.nonces
        /\ node'.sessions = node.sessions /\ node'.ckpt = node.ckpt /\ node'.poison = node.poison
        /\ node'.authority = node.authority
    BY <1>1 DEF Memory
  <1>3. IsMemory(node')
    BY <1>1 DEF IsMemory, Memory
  <1>4. FilesSound(disk)'
    BY DEF IInv, FilesSound
  <1>5. MemorySound(node)'
    BY <1>2, <1>3 DEF IInv, MemorySound, SharesEligible
  <1>6. (up => Agrees(disk, node))'
    BY <1>2 DEF IInv, Agrees, Served, Owned
  <1> QED BY <1>2, <1>4, <1>5, <1>6 DEF IInv, Core

LEMMA LeavesDone ==
  ASSUME IInv, NEW shares, SharesEligible(shares), Leaves(shares, {}, FALSE)
  PROVE  IInv' /\ FilesStep
  <1>1. Core'
    BY LeavesCore DEF Leaves
  <1>2. JobsSound'
    BY JobsDone DEF Leaves
  <1>3. FilesStep
    BY FilesKept DEF Leaves
  <1> QED BY <1>1, <1>2, <1>3 DEF IInv, Core

(* A handler whose outcome is sound. *)
LEMMA EndsCore ==
  ASSUME IInv, NEW o, NEW next, NEW N, EndSound(o, next, N), NEW left, NEW held, EndsWith(o, left, held)
  PROVE  Core'
  <1>1. disk' = o.disk /\ node' = o.node /\ up' = (o.end # "crash") /\ checker' = checker
    BY DEF EndsWith
  <1>2. FilesSound(o.disk)
    BY DEF EndSound, FilesOk
  <1>3. FilesSound(disk)'
    BY <1>1, <1>2 DEF FilesSound
  <1>4. MemorySound(o.node)
    BY DEF EndSound
  <1>5. MemorySound(node)'
    BY <1>1, <1>4 DEF MemorySound, SharesEligible
  <1>6. (up => Agrees(disk, node))'
    BY <1>1 DEF EndSound, Agrees, Served, Owned
  <1> QED BY <1>1, <1>3, <1>5, <1>6 DEF IInv, Core

(* The same, with no job left. *)
LEMMA EndsDone ==
  ASSUME IInv, Ready \/ ~ up, NEW o, NEW next, NEW N, EndSound(o, next, N), Advances(next),
         \A k \in N : node.sessions[k[1]] = "active",
         EndsWith(o, {}, FALSE)
  PROVE  IInv' /\ FilesStep
  <1>1. disk' = o.disk /\ checker' = checker /\ jobs' = {} /\ busy' = FALSE
    BY DEF EndsWith
  <1>2. o.disk.blocks \in {disk.blocks, next} /\ o.disk.nonces \subseteq disk.nonces \cup N
    BY DEF EndSound, FilesOk
  <1>3. Core'
    <2> DEFINE left == {}
               held == FALSE
    <2>1. EndsWith(o, left, held)
      OBVIOUS
    <2> HIDE DEF left, held
    <2> QED BY <2>1, EndsCore
  <1>4. JobsSound'
    BY <1>1, JobsDone
  <1>5. FilesStep
    <2>1. Advances(disk'.blocks)
      BY <1>1, <1>2 DEF Advances
    <2>2. ~ (up /\ (~ Healthy \/ ~ node.authority))
      BY DEF Ready
    <2> QED BY <1>1, <1>2, <2>1, <2>2 DEF FilesStep
  <1> QED BY <1>3, <1>4, <1>5 DEF IInv, Core

LEMMA NoJobs ==
  ASSUME IInv, PermitFree
  PROVE  jobs = {} /\ busy = FALSE
  BY DEF IInv, JobsSound, PermitFree

LEMMA OnlyJob ==
  ASSUME IInv, NEW j \in jobs
  PROVE  jobs \ {j} = {} /\ checker /\ up /\ JobSound(j)
  BY DEF IInv, JobsSound

LEMMA JobStarted ==
  ASSUME NEW j, jobs' = {j}, busy' = TRUE, up', checker', JobSound(j)'
  PROVE  JobsSound'
  BY DEF JobsSound

LEMMA SubmitDuplicateStep ==
  ASSUME IInv, NEW w \in Works, NEW nonce, SubmitDuplicate(w, nonce)
  PROVE  IInv' /\ FilesStep
  <1> DEFINE t == Quarantine(Admitted(w), w)
  <1>1. PermitFree /\ Leaves(t, jobs, busy)
    BY DEF SubmitDuplicate, SubmitAllowed
  <1>2. SharesEligible(node.shares)
    BY DEF IInv, MemorySound
  <1>3. SharesEligible(t)
    BY <1>2, AdmittedEligible DEF Admitted
  <1> HIDE DEF t
  <1>4. Leaves(t, {}, FALSE)
    BY <1>1, NoJobs
  <1> QED BY <1>3, <1>4, LeavesDone

(* The reserved share is known as reserved, and only as that. *)
LEMMA ReserveStep ==
  ASSUME IInv, NEW w \in Works, NEW nonce, NEW lane \in {"http", "share"}, up, checker, PermitFree,
         Admissible(node.shares, w), ReserveAndCheck(lane, w, nonce)
  PROVE  IInv' /\ FilesStep
  <1> DEFINE t == Take(Admitted(w), w)
  <1>1. SharesEligible(node.shares)
    BY DEF IInv, MemorySound
  <1>2. SharesEligible(t) /\ (Takeable(Admitted(w), w) => Holds(t, w))
    BY <1>1, AdmittedEligible DEF Admitted
  <1>3. jobs = {} /\ busy = FALSE
    BY NoJobs
  <1>4. CASE ~ Takeable(Admitted(w), w)
    <2>1. Leaves(t, {}, FALSE)
      BY <1>3, <1>4 DEF ReserveAndCheck
    <2> HIDE DEF t
    <2> QED BY <1>2, <2>1, LeavesDone
  <1>5. CASE Takeable(Admitted(w), w)
    <2>1. PICK j : j = Job(lane, w, nonce)
      OBVIOUS
    <2>2. Leaves(t, {j}, TRUE)
      BY <1>3, <1>5, <2>1 DEF ReserveAndCheck
    <2> HIDE DEF t
    <2>3. Core' /\ node'.chain = node.chain /\ node'.shares = t
      BY <1>2, <2>2, LeavesCore DEF Leaves
    <2>4. FilesStep
      BY <2>2, FilesKept DEF Leaves
    <2>5. IsJob(j) /\ j.lane = lane /\ j.item = w /\ j.anchor = node.chain
      BY <2>1 DEF Job, IsJob
    <2>6. Holds(node'.shares, w)
      BY <1>2, <1>5, <2>3
    <2>7. ShareJob(j)'
      BY <2>3, <2>5, <2>6 DEF ShareJob, Holds
    <2>8. JobSound(j)'
      BY <2>5, <2>7 DEF JobSound
    <2>9. jobs' = {j} /\ busy' = TRUE /\ up' /\ checker'
      BY <2>2 DEF Leaves
    <2>10. JobsSound'
      BY <2>8, <2>9, JobStarted
    <2> QED BY <2>3, <2>4, <2>10 DEF IInv, Core
  <1> QED BY <1>4, <1>5

LEMMA SubmitReserveStep ==
  ASSUME IInv, NEW w \in Works, NEW nonce, SubmitReserve(w, nonce)
  PROVE  IInv' /\ FilesStep
  BY ReserveStep DEF SubmitReserve, SubmitAllowed, Ready

(* The nonce burned is that of an active session. *)
LEMMA BurnedActive ==
  ASSUME NEW w, NEW nonce, SubmitGate(w, nonce)
  PROVE  \A k \in Burned(w, nonce) : node.sessions[k[1]] = "active"
  BY DEF SubmitGate, SessionGate, Burned

LEMMA SubmitUncheckedStep ==
  ASSUME IInv, NEW w \in Works, NEW nonce, SubmitUnchecked(w, nonce)
  PROVE  IInv' /\ FilesStep
  <1>1. Ready /\ PermitFree /\ SubmitGate(w, nonce) /\ ~ checker
    BY DEF SubmitUnchecked, SubmitAllowed
  <1> DEFINE t == Admitted(w)
  <1>2. SharesEligible(node.shares)
    BY DEF IInv, MemorySound
  <1>3. SharesEligible(t)
    BY <1>1, <1>2, AdmittedEligible DEF Admitted
  <1>4. PICK o \in Finalize(w, nonce, t) : EndsWith(o, jobs, busy)
    BY DEF SubmitUnchecked
  <1> HIDE DEF t
  <1>5. EndsWith(o, {}, FALSE)
    BY <1>1, <1>4, NoJobs
  <1>6. PICK next : EndSound(o, next, Burned(w, nonce)) /\ Advances(next)
    BY <1>1, <1>3, FinalizeSound
  <1>7. \A k \in Burned(w, nonce) : node.sessions[k[1]] = "active"
    BY <1>1, BurnedActive
  <1> QED BY <1>1, <1>5, <1>6, <1>7, EndsDone

LEMMA WithoutShareSound ==
  ASSUME NEW o, NEW next, NEW N, EndSound(o, next, N), NEW w \in Works
  PROVE  EndSound(WithoutShare(o, w), next, N)
  <1>1. CASE o.end # "error"
    <2>1. WithoutShare(o, w) = o
      BY <1>1 DEF WithoutShare
    <2> QED BY <2>1
  <1>2. CASE o.end = "error"
    <2>1. PICK d, n, e : o = [disk |-> d, node |-> n, end |-> e] /\ o.disk = d /\ o.node = n /\ o.end = e
      BY DEF EndSound
    <2> DEFINE q == Quarantine(n.shares, w)
               m == [n EXCEPT !.shares = q]
               r == WithoutShare(o, w)
    <2>2. r = [disk |-> d, node |-> m, end |-> e]
      BY <1>2, <2>1 DEF WithoutShare
    <2>3. MemorySound(n) /\ FilesOk(d, next, N) /\ Agrees(d, n)
      BY <1>2, <2>1 DEF EndSound
    <2>4. SharesEligible(q)
      BY <2>3, KeptEligible DEF MemorySound
    <2> HIDE DEF q, r
    <2>5. m = Memory(n.chain, q, n.dedup, n.nonces, n.sessions, n.ckpt, n.poison, n.authority)
      BY <2>3, MemoryUpdate DEF MemorySound
    <2> HIDE DEF m
    <2>6. MemorySound(m)
      BY <2>3, <2>4, <2>5 DEF MemorySound, IsMemory, Memory
    <2>7. Agrees(d, m)
      BY <2>3, <2>5 DEF Agrees, Served, Owned, Memory
    <2>8. r.disk = d /\ r.node = m /\ r.end = e
      BY <2>2
    <2>9. EndSound(r, next, N)
      BY <2>2, <2>3, <2>6, <2>7, <2>8 DEF EndSound
    <2> QED BY <2>9 DEF r
  <1> QED BY <1>1, <1>2

AllVerdicts == {"verified", "reject", "unavailable", "panic"}

(* Only a verified share whose session is still active is finalized. *)
LEMMA FateIs ==
  ASSUME up, NEW j, NEW verdict \in AllVerdicts
  PROVE  /\ Fate(j, verdict) \in {"keep", "release", "finalize"}
         /\ Fate(j, verdict) = "finalize" => Ready /\ verdict = "verified" /\ SubmitGate(j.item, j.nonce)
  BY DEF Fate, AllVerdicts, Ready, Healthy

LEMMA FinishSubmitStep ==
  ASSUME IInv, NEW j \in jobs, NEW verdict \in AllVerdicts, FinishSubmit(j, verdict)
  PROVE  IInv' /\ FilesStep
  <1>1. jobs \ {j} = {} /\ checker /\ up /\ JobSound(j)
    BY OnlyJob
  <1>2. j.item \in Works
    BY <1>1 DEF FinishSubmit, JobSound, ShareJob
  <1>3. SharesEligible(node.shares)
    BY DEF IInv, MemorySound
  <1>4. CASE Fate(j, verdict) = "keep"
    <2>1. Leaves(node.shares, {}, FALSE)
      BY <1>1, <1>4 DEF FinishSubmit
    <2> QED BY <1>3, <2>1, LeavesDone
  <1>5. CASE Fate(j, verdict) = "release"
    <2> DEFINE t == Release(node.shares, j.item, j.anchor = node.chain)
    <2>1. Leaves(t, {}, FALSE)
      BY <1>1, <1>5 DEF FinishSubmit
    <2>2. SharesEligible(t)
      BY <1>2, <1>3, KeptEligible
    <2> HIDE DEF t
    <2> QED BY <2>1, <2>2, LeavesDone
  <1>6. CASE Fate(j, verdict) = "finalize"
    <2>1. Ready /\ verdict = "verified" /\ SubmitGate(j.item, j.nonce)
      BY <1>1, <1>6, FateIs
    <2>2. j.item \in Valid
      BY <2>1 DEF FinishSubmit, Verdicts
    <2> DEFINE t == Restore(node.shares, j.item)
    <2>3. SharesEligible(t)
      BY <1>2, <1>3, <2>2, KeptEligible
    <2>4. PICK o \in Finalize(j.item, j.nonce, t) : EndsWith(WithoutShare(o, j.item), {}, FALSE)
      BY <1>1, <1>6 DEF FinishSubmit
    <2> HIDE DEF t
    <2>5. PICK next : EndSound(o, next, Burned(j.item, j.nonce)) /\ Advances(next)
      BY <1>2, <2>1, <2>3, FinalizeSound
    <2>6. EndSound(WithoutShare(o, j.item), next, Burned(j.item, j.nonce))
      BY <1>2, <2>5, WithoutShareSound
    <2>7. \A k \in Burned(j.item, j.nonce) : node.sessions[k[1]] = "active"
      BY <2>1, BurnedActive
    <2> QED BY <2>1, <2>4, <2>5, <2>6, <2>7, EndsDone
  <1> QED BY <1>1, <1>4, <1>5, <1>6, FateIs

LEMMA CancelSubmitStep ==
  ASSUME IInv, NEW j \in jobs, CancelSubmit(j)
  PROVE  IInv' /\ FilesStep
  <1>1. jobs \ {j} = {} /\ checker /\ up /\ JobSound(j)
    BY OnlyJob
  <1>2. UNCHANGED <<up, node, disk, busy, checker>>
    BY DEF CancelSubmit
  <1>3. PICK l, i, n, a, b : j = [lane |-> l, item |-> i, nonce |-> n, anchor |-> a, attached |-> b]
    BY <1>1 DEF JobSound, IsJob
  <1> DEFINE f == FALSE
  <1>4. PICK k : k = [lane |-> l, item |-> i, nonce |-> n, anchor |-> a, attached |-> f]
    OBVIOUS
  <1>5. [j EXCEPT !.attached = f] = k
    <2> HIDE DEF f
    <2> QED BY <1>3, <1>4
  <1>6. jobs' = {k}
    BY <1>1, <1>5 DEF CancelSubmit
  <1>7. k.lane = j.lane /\ k.item = j.item /\ k.anchor = j.anchor /\ IsJob(k)
    BY <1>3, <1>4 DEF IsJob
  <1>8. JobSound(k)'
    BY <1>1, <1>2, <1>7 DEF JobSound, ShareJob, BlockJob, ChainJob
  <1>9. busy' = TRUE /\ up' /\ checker'
    BY <1>1, <1>2 DEF IInv, JobsSound
  <1>10. JobsSound'
    BY <1>6, <1>8, <1>9, JobStarted
  <1>11. FilesStep
    BY <1>2, FilesKept
  <1>12. Core'
    BY <1>2 DEF IInv, Core, FilesSound, MemorySound, SharesEligible, Agrees, Served, Owned
  <1> QED BY <1>10, <1>11, <1>12 DEF IInv, Core

LEMMA OrphanDoneStep ==
  ASSUME IInv, NEW j \in jobs, OrphanDone(j)
  PROVE  IInv' /\ FilesStep
  <1>1. Leaves(node.shares, {}, FALSE)
    BY OnlyJob DEF OrphanDone
  <1>2. SharesEligible(node.shares)
    BY DEF IInv, MemorySound
  <1> QED BY <1>1, <1>2, LeavesDone

LEMMA PeerShareStep ==
  ASSUME IInv, NEW w \in Works, PeerShare(w)
  PROVE  IInv' /\ FilesStep
  <1>1. up /\ PermitFree /\ Admissible(node.shares, w)
    BY DEF PeerShare, Ready
  <1>2. SharesEligible(node.shares)
    BY DEF IInv, MemorySound
  <1>3. jobs = {} /\ busy = FALSE
    BY <1>1, NoJobs
  <1>4. CASE Proof[w] \in node.dedup
    <2> DEFINE t == Quarantine(Admitted(w), w)
    <2>1. Leaves(t, {}, FALSE)
      BY <1>3, <1>4 DEF PeerShare
    <2>2. SharesEligible(t)
      BY <1>2, AdmittedEligible DEF Admitted
    <2> HIDE DEF t
    <2> QED BY <2>1, <2>2, LeavesDone
  <1>5. CASE Proof[w] \notin node.dedup /\ checker
    <2> DEFINE lane == "share"
    <2>1. ReserveAndCheck(lane, w, NoNonce) /\ lane \in {"http", "share"}
      BY <1>5 DEF PeerShare
    <2> HIDE DEF lane
    <2> QED BY <1>1, <1>5, <2>1, ReserveStep
  <1>6. CASE Proof[w] \notin node.dedup /\ ~ checker
    <2> DEFINE t == Admitted(w)
    <2>1. Leaves(t, {}, FALSE)
      BY <1>3, <1>6 DEF PeerShare
    <2>2. SharesEligible(t)
      BY <1>2, <1>6, AdmittedEligible DEF Admitted
    <2> HIDE DEF t
    <2> QED BY <2>1, <2>2, LeavesDone
  <1> QED BY <1>4, <1>5, <1>6

LEMMA FinishPeerShareStep ==
  ASSUME IInv, NEW j \in jobs, NEW verdict \in AllVerdicts, FinishPeerShare(j, verdict)
  PROVE  IInv' /\ FilesStep
  <1>1. jobs \ {j} = {} /\ checker /\ up /\ JobSound(j)
    BY OnlyJob
  <1>2. j.item \in Works
    BY <1>1 DEF FinishPeerShare, JobSound, ShareJob
  <1>3. SharesEligible(node.shares)
    BY DEF IInv, MemorySound
  <1> DEFINE s == node.shares
             r == Release(node.shares, j.item, j.anchor = node.chain)
             t == Restore(node.shares, j.item)
             u == CASE ~ node.authority \/ verdict = "reject" -> s
                    [] node.authority /\ verdict \in {"unavailable", "panic"} -> r
                    [] OTHER ->
                         IF ~ Healthy THEN r
                         ELSE IF Proof[j.item] \in node.dedup THEN s
                         ELSE IF CanRestore(j) THEN t ELSE r
  <1>4. Leaves(u, {}, FALSE)
    BY <1>1 DEF FinishPeerShare
  <1>5. SharesEligible(s) /\ SharesEligible(r) /\ (j.item \in Valid => SharesEligible(t))
    BY <1>2, <1>3, KeptEligible
  <1>6. verdict = "verified" => j.item \in Valid
    BY DEF FinishPeerShare, Verdicts
  <1> HIDE DEF s, r, t
  <1>7. u \in {s, r} \/ (u = t /\ verdict = "verified")
    BY DEF AllVerdicts
  <1> HIDE DEF u
  <1>8. SharesEligible(u)
    BY <1>5, <1>6, <1>7
  <1> QED BY <1>4, <1>8, LeavesDone

LEMMA PeerChainIs ==
  ASSUME NEW chain \in PeerChains
  PROVE  chain \in Sequence
  <1>1. PICK n \in 0..MaxHeight : chain \in [1..n -> Blocks]
    BY NodeAssumption DEF Chains
  <1>2. n \in Nat
    BY LimitsAssumption
  <1>3. Blocks \subseteq SUBSET Works
    BY DEF Blocks
  <1> QED BY <1>1, <1>2, <1>3 DEF Sequence

(* A check of a block or a chain starts: the shares stay as they are. *)
LEMMA CheckStarted ==
  ASSUME IInv, up, checker, NEW j, Leaves(node.shares, {j}, TRUE), JobSound(j)
  PROVE  IInv' /\ FilesStep
  <1>1. SharesEligible(node.shares)
    BY DEF IInv, MemorySound
  <1>2. Core' /\ node'.chain = node.chain /\ node'.shares = node.shares
    BY <1>1, LeavesCore DEF Leaves
  <1>3. FilesStep
    BY FilesKept DEF Leaves
  <1>4. jobs' = {j} /\ busy' = TRUE /\ up' /\ checker'
    BY DEF Leaves
  <1>5. JobSound(j)'
    BY <1>2 DEF JobSound, ShareJob, BlockJob, ChainJob
  <1>6. JobsSound'
    BY <1>4, <1>5, JobStarted
  <1> QED BY <1>2, <1>3, <1>6 DEF IInv, Core

LEMMA CommitBlockStep ==
  ASSUME IInv, up, node.authority, NEW next \in Sequence, AnnouncedOk(next),
         NEW reverified \in BOOLEAN, checker => Last(next) \subseteq Valid, reverified => checker,
         NEW o \in CommitBlock(next, reverified), EndsWith(o, {}, FALSE)
  PROVE  IInv' /\ FilesStep
  <1> DEFINE none == {}
  <1>1. EndSound(o, next, none) /\ Advances(next)
    BY CommitBlockSound
  <1>2. \A k \in none : node.sessions[k[1]] = "active"
    OBVIOUS
  <1>3. Ready
    BY DEF Ready, AnnouncedOk
  <1> HIDE DEF none
  <1> QED BY <1>1, <1>2, <1>3, EndsDone

LEMMA CommitChainStep ==
  ASSUME IInv, up, node.authority, NEW chain, CandidateWins(chain), ChainSound(chain),
         NEW o \in CommitChain(chain), EndsWith(o, {}, FALSE)
  PROVE  IInv' /\ FilesStep
  <1> DEFINE none == {}
  <1>1. EndSound(o, chain, none) /\ Advances(chain)
    BY CommitChainSound
  <1>2. \A k \in none : node.sessions[k[1]] = "active"
    OBVIOUS
  <1>3. Ready
    BY DEF Ready, CandidateWins
  <1> HIDE DEF none
  <1> QED BY <1>1, <1>2, <1>3, EndsDone

LEMMA PeerBlockStep ==
  ASSUME IInv, NEW next \in PeerChains, PeerBlock(next)
  PROVE  IInv' /\ FilesStep
  <1>1. next \in Sequence
    BY PeerChainIs
  <1>2. up /\ node.authority /\ AnnouncedOk(next)
    BY DEF PeerBlock
  <1>3. SkipDecision(next) = "run"
    BY <1>1, <1>2, NeverSkipped
  <1>4. CASE checker
    <2>1. ~ busy /\ Leaves(node.shares, jobs \cup {Job("block", next, NoNonce)}, TRUE)
      BY <1>3, <1>4 DEF PeerBlock
    <2>2. jobs = {}
      BY <2>1, NoJobs DEF PermitFree
    <2>3. PICK j : j = Job("block", next, NoNonce)
      OBVIOUS
    <2>4. Leaves(node.shares, {j}, TRUE)
      BY <2>1, <2>2, <2>3
    <2>5. IsJob(j) /\ j.lane = "block" /\ j.item = next
      BY <2>3 DEF Job, IsJob
    <2>6. JobSound(j)
      BY <1>1, <1>2, <2>5 DEF JobSound, BlockJob, AnnouncedOk
    <2> QED BY <1>2, <1>4, <2>4, <2>6, CheckStarted
  <1>5. CASE ~ checker
    <2> DEFINE r == FALSE
    <2>1. jobs = {} /\ busy = FALSE
      BY <1>5, NoJobs DEF PermitFree
    <2>2. PICK o \in CommitBlock(next, r) : EndsWith(o, {}, FALSE)
      BY <1>5, <2>1 DEF PeerBlock
    <2>3. r \in BOOLEAN /\ (r => checker)
      OBVIOUS
    <2> HIDE DEF r
    <2> QED BY <1>1, <1>2, <1>5, <2>2, <2>3, CommitBlockStep
  <1> QED BY <1>4, <1>5

LEMMA FinishPeerBlockStep ==
  ASSUME IInv, NEW j \in jobs, NEW verdict \in AllVerdicts, FinishPeerBlock(j, verdict)
  PROVE  IInv' /\ FilesStep
  <1>1. jobs \ {j} = {} /\ checker /\ up /\ JobSound(j)
    BY OnlyJob
  <1>2. j.item \in Sequence
    BY <1>1 DEF FinishPeerBlock, JobSound, BlockJob
  <1>3. CASE verdict = "verified" /\ AnnouncedOk(j.item) /\ node.authority
    <2> DEFINE r == TRUE
    <2>1. PICK o \in CommitBlock(j.item, r) : EndsWith(o, {}, FALSE)
      BY <1>1, <1>3 DEF FinishPeerBlock
    <2>2. Last(j.item) \subseteq Valid
      BY <1>3 DEF FinishPeerBlock, Verdicts
    <2>3. r \in BOOLEAN /\ (r => checker)
      BY <1>1
    <2> HIDE DEF r
    <2> QED BY <1>1, <1>2, <1>3, <2>1, <2>2, <2>3, CommitBlockStep
  <1>4. CASE ~ (verdict = "verified" /\ AnnouncedOk(j.item) /\ node.authority)
    <2>1. Leaves(node.shares, {}, FALSE)
      BY <1>1, <1>4 DEF FinishPeerBlock
    <2>2. SharesEligible(node.shares)
      BY DEF IInv, MemorySound
    <2> QED BY <2>1, <2>2, LeavesDone
  <1> QED BY <1>3, <1>4

(* What the checker is not given, it has accepted before. *)
LEMMA UnverifiedCovers ==
  ASSUME IInv, NEW chain \in Sequence
  PROVE  /\ Unverified(chain) \in Sequence
         /\ WorksOf(chain) \subseteq Valid \cup WorksOf(Unverified(chain))
  <1>1. node.ckpt \in Sequence /\ WorksOf(node.ckpt) \subseteq Valid
    BY DEF IInv, MemorySound
  <1> DEFINE k == SurvivingCkpt(node.ckpt, chain)
  <1>2. k \in Sequence /\ PrefixOf(k, chain) /\ WorksOf(k) \subseteq WorksOf(node.ckpt)
    BY <1>1, Surviving
  <1>3. Unverified(chain) = SubSeq(chain, Len(k) + 1, Len(chain))
    BY DEF Unverified
  <1> HIDE DEF k
  <1>4. WorksOf(chain) \subseteq WorksOf(k) \cup WorksOf(SubSeq(chain, Len(k) + 1, Len(chain)))
    BY <1>2, WorksAbove
  <1>5. SubSeq(chain, Len(k) + 1, Len(chain)) \in Sequence
    BY <1>2 DEF Sequence
  <1> QED BY <1>1, <1>2, <1>3, <1>4, <1>5

(* A chain that wins has a block above every verified prefix. *)
LEMMA WinnerIsUnverified ==
  ASSUME IInv, up, NEW chain \in Sequence, CandidateWins(chain)
  PROVE  Unverified(chain) # <<>>
  <1> SUFFICES ASSUME Unverified(chain) = <<>> PROVE FALSE
    OBVIOUS
  <1>1. node.ckpt \in Sequence /\ node.chain \in Sequence /\ PrefixOf(node.ckpt, node.chain)
    BY DEF IInv, MemorySound, CandidateWins, Healthy
  <1>2. node.chain = disk.blocks /\ ReplayOk(disk.blocks)
    BY DEF IInv, Agrees, Served, CandidateWins, Healthy, FilesSound
  <1> DEFINE k == SurvivingCkpt(node.ckpt, chain)
  <1>3. k \in Sequence /\ PrefixOf(k, chain) /\ k \in {node.ckpt, <<>>}
    BY <1>1, Surviving
  <1>4. Unverified(chain) = SubSeq(chain, Len(k) + 1, Len(chain))
    BY DEF Unverified
  <1> HIDE DEF k
  <1>5. Len(k) \in Nat /\ Len(chain) \in Nat /\ Len(k) <= Len(chain) /\ \A i \in 1..Len(k) : k[i] = chain[i]
    BY <1>3, PrefixElements DEF Sequence
  <1>6. Len(k) = Len(chain)
    <2>1. Len(SubSeq(chain, Len(k) + 1, Len(chain))) = Len(chain) - Len(k)
      BY <1>5 DEF Sequence
    <2>2. Len(SubSeq(chain, Len(k) + 1, Len(chain))) = 0
      BY <1>4, EmptyChain
    <2> QED BY <1>5, <2>1, <2>2
  <1>7. chain = k
    BY <1>3, <1>5, <1>6 DEF Sequence
  <1>8. chain # <<>> /\ ChooseCandidate(node.chain, chain)
    BY DEF CandidateWins, ChooseCandidate
  <1>9. chain = node.ckpt
    BY <1>3, <1>7, <1>8
  <1>10. ~ ChooseCandidate(node.chain, node.ckpt)
    BY <1>1, <1>2, PrefixLoses
  <1> QED BY <1>8, <1>9, <1>10

LEMMA PeerChainStep ==
  ASSUME IInv, NEW chain \in PeerChains, PeerChain(chain)
  PROVE  IInv' /\ FilesStep
  <1>1. chain \in Sequence
    BY PeerChainIs
  <1>2. up /\ node.authority /\ CandidateWins(chain)
    BY DEF PeerChain
  <1>3. CASE checker
    <2>1. Unverified(chain) # <<>>
      BY <1>1, <1>2, WinnerIsUnverified
    <2>2. ~ busy /\ Leaves(node.shares, jobs \cup {[Job("chain", chain, NoNonce) EXCEPT !.anchor = Unverified(chain)]}, TRUE)
      BY <1>3, <2>1 DEF PeerChain
    <2>3. jobs = {}
      BY <2>2, NoJobs DEF PermitFree
    <2> DEFINE u == Unverified(chain)
    <2>4. WorksOf(chain) \subseteq Valid \cup WorksOf(u)
      BY <1>1, UnverifiedCovers
    <2> HIDE DEF u
    <2> DEFINE yes == TRUE
    <2>5. PICK j : j = [lane |-> "chain", item |-> chain, nonce |-> NoNonce, anchor |-> u, attached |-> yes]
      OBVIOUS
    <2>6. [Job("chain", chain, NoNonce) EXCEPT !.anchor = u] = j
      <3> DEFINE b == Job("chain", chain, NoNonce)
      <3>1. b = [lane |-> "chain", item |-> chain, nonce |-> NoNonce, anchor |-> node.chain, attached |-> yes]
        BY DEF Job
      <3> HIDE DEF b, yes
      <3>2. [b EXCEPT !.anchor = u] = j
        BY <2>5, <3>1
      <3> QED BY <3>2 DEF b
    <2>7. Leaves(node.shares, {j}, TRUE)
      BY <2>2, <2>3, <2>6 DEF u
    <2>8. IsJob(j) /\ j.lane = "chain" /\ j.item = chain /\ j.anchor = u
      BY <2>5 DEF IsJob
    <2>9. ChainJob(j)
      BY <1>1, <1>2, <2>4, <2>8 DEF ChainJob, CandidateWins
    <2>10. JobSound(j)
      BY <2>8, <2>9 DEF JobSound
    <2> QED BY <1>2, <1>3, <2>7, <2>10, CheckStarted
  <1>4. CASE ~ checker
    <2>1. jobs = {} /\ busy = FALSE
      BY <1>4, NoJobs DEF PermitFree
    <2>2. PICK o \in CommitChain(chain) : EndsWith(o, {}, FALSE)
      BY <1>4, <2>1 DEF PeerChain
    <2>3. ChainSound(chain)
      BY <1>1, <1>2, <1>4 DEF ChainSound, CandidateWins
    <2> QED BY <1>2, <2>2, <2>3, CommitChainStep
  <1> QED BY <1>3, <1>4

LEMMA FinishPeerChainStep ==
  ASSUME IInv, NEW j \in jobs, NEW verdict \in AllVerdicts, FinishPeerChain(j, verdict)
  PROVE  IInv' /\ FilesStep
  <1>1. jobs \ {j} = {} /\ checker /\ up /\ JobSound(j)
    BY OnlyJob
  <1>2. ChainJob(j)
    BY <1>1 DEF FinishPeerChain, JobSound
  <1>3. CASE verdict = "verified" /\ CandidateWins(j.item) /\ node.authority
    <2>1. PICK o \in CommitChain(j.item) : EndsWith(o, {}, FALSE)
      BY <1>1, <1>3 DEF FinishPeerChain
    <2>2. WorksOf(j.anchor) \subseteq Valid
      BY <1>3 DEF FinishPeerChain, Verdicts
    <2>3. ChainSound(j.item)
      BY <1>2, <1>3, <2>2 DEF ChainSound, ChainJob, CandidateWins
    <2> QED BY <1>1, <1>3, <2>1, <2>3, CommitChainStep
  <1>4. CASE ~ (verdict = "verified" /\ CandidateWins(j.item) /\ node.authority)
    <2>1. Leaves(node.shares, {}, FALSE)
      BY <1>1, <1>4 DEF FinishPeerChain
    <2>2. SharesEligible(node.shares)
      BY DEF IInv, MemorySound
    <2> QED BY <2>1, <2>2, LeavesDone
  <1> QED BY <1>3, <1>4

(* The head and the shares stay, and with them what a running check relies on. *)
LEMMA JobsKept ==
  ASSUME IInv, up, up', jobs' = jobs, busy' = busy, checker' = checker,
         node'.chain = node.chain, node'.shares = node.shares
  PROVE  JobsSound'
  <1>1. \A j : JobSound(j) => JobSound(j)'
    BY DEF JobSound, ShareJob, BlockJob, ChainJob
  <1> QED BY <1>1 DEF IInv, JobsSound

LEMMA OneOutcome ==
  ASSUME NEW start, NEW w, NEW done, NEW halted, NEW o \in Outcomes(start, <<w>>, done, halted)
  PROVE  /\ o.disk \in {start, w.disk}
         /\ \/ o.end = "crash"
            \/ o.end # "crash" /\ o.node \in {done, w.during, [w.during EXCEPT !.authority = FALSE]}
  <1> DEFINE s == <<w>>
             fenced == [w.during EXCEPT !.authority = FALSE]
  <1>1. Len(s) = 1 /\ DOMAIN s = {1} /\ s[1] = w
    OBVIOUS
  <1> HIDE DEF s
  <1>2. FilesBefore(start, s, 1) = start /\ FilesBefore(start, s, 2) = w.disk
    BY <1>1 DEF FilesBefore
  <1>3. CASE o \in Completed(start, s, done)
    BY <1>1, <1>2, <1>3 DEF Completed
  <1>4. CASE o \in Stopped(start, s, halted)
    <2>1. PICK i \in 1..2 : o = [disk |-> FilesBefore(start, s, i), node |-> halted, end |-> "crash"]
      BY <1>1, <1>4 DEF Stopped
    <2>2. i = 1 \/ i = 2
      OBVIOUS
    <2> QED BY <1>2, <2>1, <2>2
  <1>5. CASE o \in Failed(start, s)
    <2>1. \/ \E d \in {FilesBefore(start, s, 1), s[1].disk} :
                o = [disk |-> d, node |-> s[1].during, end |-> "error"]
          \/ o = [disk |-> FilesBefore(start, s, 1), node |-> s[1].during, end |-> "error"]
          \/ \E d \in {FilesBefore(start, s, 1), s[1].disk} :
                o = [disk |-> d, node |-> [s[1].during EXCEPT !.authority = FALSE], end |-> "error"]
      BY <1>1, <1>5 DEF Failed
    <2>2. \E d \in {start, w.disk}, n \in {w.during, fenced} : o = [disk |-> d, node |-> n, end |-> "error"]
      BY <1>1, <1>2, <2>1
    <2> HIDE DEF fenced
    <2>3. o.disk \in {start, w.disk} /\ o.node \in {w.during, fenced} /\ o.end = "error"
      BY <2>2
    <2> QED BY <2>3 DEF fenced
  <1> QED BY <1>3, <1>4, <1>5 DEF Outcomes, s

(* A write that leaves the phase as it is leaves the memory as it is. *)
Keeps(w, files, n) == w.disk = files /\ w.during = n /\ ~ w.rewrite

LEMMA PhaseWrite ==
  ASSUME NEW files, NEW n, IsMemory(n), NEW p, p = n.poison
  PROVE  Keeps(Write(files, n, p, FALSE), files, n)
  <1> DEFINE r == FALSE
             w == Write(files, n, p, r)
  <1>1. n = Memory(n.chain, n.shares, n.dedup, n.nonces, n.sessions, n.ckpt, p, n.authority)
    BY DEF IsMemory
  <1> HIDE DEF r
  <1>2. w = [disk |-> files, during |-> Memory(n.chain, n.shares, n.dedup, n.nonces, n.sessions, n.ckpt, p, n.authority),
             rewrite |-> r]
    BY WriteIs
  <1>3. w.disk = files /\ w.during = n /\ w.rewrite = r
    BY <1>1, <1>2
  <1> HIDE DEF w
  <1>4. Keeps(w, files, n)
    BY <1>3 DEF r, Keeps
  <1> QED BY <1>4 DEF r, w

LEMMA SamePhase ==
  ASSUME NEW files, NEW n, IsMemory(n), NEW w, w = Write(files, n, n.poison, FALSE)
  PROVE  Keeps(w, files, n)
  BY PhaseWrite

LEMMA SessionStep ==
  ASSUME IInv, up, node.authority, NEW pk, NEW state, NEW o \in SessionEvent(pk, state), EndsWith(o, jobs, busy)
  PROVE  IInv' /\ FilesStep
  <1> DEFINE next == disk.blocks
             none == {}
             ss == [disk.sessions EXCEPT ![pk] = state]
             files == [disk EXCEPT !.sessions = ss]
             done == [node EXCEPT !.sessions = ss]
             w == Write(files, node, node.poison, FALSE)
  <1>1. FilesSound(disk) /\ MemorySound(node) /\ Agrees(disk, node)
    BY DEF IInv
  <1>2. disk.nonces = node.nonces /\ disk.sessions = node.sessions
    BY <1>1 DEF Agrees, Owned
  <1>3. o \in Outcomes(disk, <<w>>, done, Halted)
    <2>1. [disk EXCEPT !.sessions[pk] = state] = files
      OBVIOUS
    <2>2. [node EXCEPT !.sessions[pk] = state] = done
      BY <1>2
    <2> QED BY <2>1, <2>2 DEF SessionEvent
  <1> HIDE DEF ss
  <1>4. files = Files(disk.blocks, disk.rewards, disk.rows, disk.dedup, disk.nonces, disk.receipts, disk.ckpt, ss, disk.made)
    BY <1>1, FilesUpdate DEF FilesSound
  <1>5. done = Memory(node.chain, node.shares, node.dedup, node.nonces, ss, node.ckpt, node.poison, node.authority)
    BY <1>1, MemoryUpdate DEF MemorySound
  <1>6. w.disk = files /\ w.during = node /\ ~ w.rewrite
    <2>1. IsMemory(node)
      BY <1>1 DEF MemorySound
    <2>2. w = Write(files, node, node.poison, FALSE)
      OBVIOUS
    <2> HIDE DEF files, w
    <2>3. Keeps(w, files, node)
      BY <2>1, <2>2, SamePhase
    <2> QED BY <2>3 DEF Keeps
  <1> HIDE DEF files, done, w
  <1>7. \A file \in CanonicalFiles : files[file] = disk[file]
    BY <1>4 DEF CanonicalFiles, Files
  <1>8. files.blocks = disk.blocks /\ files.nonces = disk.nonces /\ files.rewards = disk.rewards /\ files.rows = disk.rows
        /\ files.dedup = disk.dedup /\ files.sessions = ss
    BY <1>4 DEF Files
  <1>9. FilesOk(disk, next, none) /\ FilesOk(files, next, none)
    <2>1. BurnSound(files)
      BY <1>1, <1>4 DEF FilesSound, BurnSound, Files
    <2>2. FilesSound(files)
      BY <1>1, <1>4, <2>1 DEF FilesSound, IsFiles, Files
    <2> QED BY <1>1, <1>8, <2>2 DEF FilesOk
  <1>10. MemorySound(done) /\ Agrees(files, done)
    <2>1. MemorySound(done)
      BY <1>1, <1>5 DEF MemorySound, IsMemory, Memory
    <2>2. Agrees(files, done)
      BY <1>1, <1>2, <1>5, <1>8 DEF Agrees, Served, Owned, Memory
    <2> QED BY <2>1, <2>2
  <1> HIDE DEF next, none
  <1>11. WriteSound(disk, w, next, none)
    <2>1. Served(files, node)
      BY <1>1, <1>8 DEF Agrees, Served
    <2> QED BY <1>1, <1>6, <1>9, <2>1 DEF WriteSound
  <1>12. WritesSound(disk, <<w>>, next, none) /\ FilesAfter(disk, <<w>>) = files
    BY <1>6, <1>11, OneWrite
  <1> DEFINE s == <<w>>
  <1>13. EndSound(o, next, none)
    <2>1. WritesSound(disk, s, next, none) /\ Agrees(FilesAfter(disk, s), done) /\ o \in Outcomes(disk, s, done, Halted)
      BY <1>3, <1>10, <1>12
    <2> HIDE DEF s
    <2> QED BY <1>9, <1>10, <2>1, OutcomesSound
  <1>14. Core'
    BY <1>13, EndsCore
  <1>15. /\ o.disk \in {disk, files}
         /\ \/ o.end = "crash"
            \/ o.end # "crash" /\ o.node.chain = node.chain /\ o.node.shares = node.shares
    <2> DEFINE fenced == [node EXCEPT !.authority = FALSE]
    <2>1. fenced.chain = node.chain /\ fenced.shares = node.shares
      <3>1. fenced = Memory(node.chain, node.shares, node.dedup, node.nonces, node.sessions, node.ckpt, node.poison, FALSE)
        <4>1. IsMemory(node)
          BY <1>1 DEF MemorySound
        <4> QED BY <4>1, MemoryFenced
      <3> HIDE DEF fenced
      <3> QED BY <3>1 DEF Memory
    <2>2. done.chain = node.chain /\ done.shares = node.shares
      BY <1>5 DEF Memory
    <2>3. /\ o.disk \in {disk, w.disk}
          /\ \/ o.end = "crash"
             \/ o.end # "crash" /\ o.node \in {done, w.during, [w.during EXCEPT !.authority = FALSE]}
      BY <1>3, OneOutcome
    <2>4. [w.during EXCEPT !.authority = FALSE] = fenced
      BY <1>6
    <2> HIDE DEF fenced
    <2> QED BY <1>6, <2>1, <2>2, <2>3, <2>4
  <1>16. disk' = o.disk /\ node' = o.node /\ checker' = checker
    BY DEF EndsWith
  <1>17. JobsSound'
    <2>1. CASE o.end = "crash"
      <3>1. jobs' = {} /\ busy' = FALSE
        BY <2>1 DEF EndsWith
      <3> QED BY <3>1, JobsDone
    <2>2. CASE o.end # "crash"
      <3>1. jobs' = jobs /\ up' /\ busy' = (TRUE /\ busy)
        BY <2>2 DEF EndsWith
      <3>2. busy' = busy
        BY <3>1 DEF IInv, JobsSound
      <3> QED BY <1>15, <1>16, <2>2, <3>1, <3>2, JobsKept
    <2> QED BY <2>1, <2>2
  <1>18. FilesStep
    <2>1. disk'.blocks = disk.blocks /\ disk'.nonces = disk.nonces
      BY <1>8, <1>15, <1>16
    <2>2. \A file \in CanonicalFiles : disk'[file] = disk[file]
      BY <1>7, <1>15, <1>16
    <2> QED BY <1>16, <2>1, <2>2 DEF FilesStep, Advances
  <1> QED BY <1>14, <1>17, <1>18 DEF IInv, Core

LEMMA LoseAuthorityStep ==
  ASSUME IInv, LoseAuthority
  PROVE  IInv' /\ FilesStep
  <1>1. up /\ node' = [node EXCEPT !.authority = FALSE] /\ UNCHANGED <<up, disk, jobs, busy, checker>>
    BY DEF LoseAuthority
  <1>2. node' = Memory(node.chain, node.shares, node.dedup, node.nonces, node.sessions, node.ckpt, node.poison, FALSE)
    <2>1. IsMemory(node)
      BY <1>1 DEF IInv, MemorySound
    <2> QED BY <1>1, <2>1, MemoryFenced
  <1>3. /\ node'.chain = node.chain /\ node'.shares = node.shares /\ node'.dedup = node.dedup
        /\ node'.ckpt = node.ckpt /\ node'.poison = node.poison /\ node'.authority = FALSE
    BY <1>2 DEF Memory
  <1>4. IsMemory(node')
    BY <1>2 DEF IsMemory, Memory
  <1>5. FilesSound(disk)'
    BY <1>1 DEF IInv, FilesSound
  <1>6. MemorySound(node)'
    BY <1>1, <1>3, <1>4 DEF IInv, MemorySound, SharesEligible
  <1>7. (up => Agrees(disk, node))'
    BY <1>1, <1>3 DEF IInv, Agrees, Served, Owned
  <1>8. Core'
    BY <1>1, <1>5, <1>6, <1>7 DEF IInv, Core
  <1>9. JobsSound'
    BY <1>1, <1>3, JobsKept
  <1>10. FilesStep
    BY <1>1, FilesKept
  <1> QED BY <1>8, <1>9, <1>10 DEF IInv, Core

LEMMA CrashStep ==
  ASSUME IInv, Crash
  PROVE  IInv' /\ FilesStep
  <1> DEFINE none == {}
             next == disk.blocks
             left == {}
             held == FALSE
  <1>1. PICK o : o = [disk |-> disk, node |-> Halted, end |-> "crash"]
    OBVIOUS
  <1>2. EndsWith(o, left, held)
    BY <1>1 DEF Crash
  <1>3. o.disk = disk /\ o.node = Halted /\ o.end = "crash"
    BY <1>1
  <1>4. EndSound(o, next, none)
    BY <1>1, <1>3, HaltedSound DEF EndSound, FilesOk, IInv
  <1>5. jobs' = {} /\ busy' = FALSE /\ UNCHANGED <<disk, checker>>
    BY <1>2, <1>3 DEF EndsWith
  <1> HIDE DEF none, next, left, held
  <1>6. Core'
    BY <1>2, <1>4, EndsCore
  <1>7. JobsSound' /\ FilesStep
    BY <1>5, JobsDone, FilesKept
  <1> QED BY <1>6, <1>7 DEF IInv, Core

(* The boot writes what it derives from the block store. *)
LEMMA BootFilesSound ==
  ASSUME IInv
  PROVE  LET s == BootWrites
         IN  /\ Len(s) = 4
             /\ \A i \in 1..5 : FilesOk(FilesBefore(disk, s, i), disk.blocks, {})
             /\ Agrees(FilesBefore(disk, s, 5), Booted(disk))
  <1> DEFINE projected == [disk EXCEPT !.rows = disk.blocks]
             rewarded == [projected EXCEPT !.rewards = disk.blocks]
             kept == SurvivingCkpt(disk.ckpt, disk.blocks)
             checked == [rewarded EXCEPT !.ckpt = SurvivingCkpt(@, disk.blocks)]
             credits == Credited(disk.blocks)
             credited == [checked EXCEPT !.dedup = credits]
             a == Write(projected, Halted, "none", TRUE)
             b == Write(rewarded, Halted, "none", TRUE)
             c == Write(checked, Halted, "none", TRUE)
             d == Write(credited, Halted, "none", TRUE)
             s == <<a, b, c, d>>
             F(rw, ro, de, ck) == Files(disk.blocks, rw, ro, de, disk.nonces, disk.receipts, ck, disk.sessions, disk.made)
             none == {}
  <1>1. FilesSound(disk)
    BY DEF IInv
  <1>2. projected = F(disk.rewards, disk.blocks, disk.dedup, disk.ckpt)
    BY <1>1, FilesUpdate DEF FilesSound
  <1> HIDE DEF projected
  <1>3. rewarded = F(disk.blocks, disk.blocks, disk.dedup, disk.ckpt) /\ rewarded.ckpt = disk.ckpt
    <2>1. rewarded = F(disk.blocks, disk.blocks, disk.dedup, disk.ckpt)
      BY <1>2 DEF Files
    <2> HIDE DEF rewarded
    <2> QED BY <2>1 DEF Files
  <1> HIDE DEF rewarded
  <1>4. checked = [rewarded EXCEPT !.ckpt = kept]
    BY <1>3
  <1> HIDE DEF checked, kept
  <1>5. checked = F(disk.blocks, disk.blocks, disk.dedup, kept)
    BY <1>3, <1>4 DEF Files
  <1> HIDE DEF credits
  <1>6. credited = F(disk.blocks, disk.blocks, credits, kept)
    BY <1>5 DEF Files
  <1> HIDE DEF credited
  <1>7. BootWrites = s
    BY DEF BootWrites, projected, rewarded, checked, credits, credited
  <1>8. a.disk = projected /\ b.disk = rewarded /\ c.disk = checked /\ d.disk = credited
    BY DEF Write
  <1> HIDE DEF a, b, c, d
  <1>9. Len(s) = 4 /\ s[1] = a /\ s[2] = b /\ s[3] = c /\ s[4] = d
    OBVIOUS
  <1> HIDE DEF s
  <1>10. ASSUME NEW f, NEW rw, NEW ro, NEW de, NEW ck \in Sequence, WorksOf(ck) \subseteq Valid, f = F(rw, ro, de, ck)
         PROVE  FilesOk(f, disk.blocks, none)
    <2>1. BurnSound(disk)
      BY <1>1 DEF FilesSound
    <2>2. BurnSound(f)
      BY <1>10, <2>1 DEF BurnSound, Files
    <2>3. IsFiles(f) /\ f.blocks = disk.blocks /\ f.ckpt = ck /\ f.nonces = disk.nonces
      BY <1>10 DEF IsFiles, Files
    <2>4. FilesSound(f)
      BY <1>1, <1>10, <2>2, <2>3 DEF FilesSound
    <2> QED BY <2>3, <2>4 DEF FilesOk
  <1>11. /\ disk.ckpt \in Sequence /\ WorksOf(disk.ckpt) \subseteq Valid /\ disk.blocks \in Sequence
    BY <1>1 DEF FilesSound
  <1>12. kept \in Sequence /\ WorksOf(kept) \subseteq Valid
    BY <1>11, Surviving DEF kept
  <1>13. /\ FilesOk(disk, disk.blocks, none) /\ FilesOk(projected, disk.blocks, none) /\ FilesOk(rewarded, disk.blocks, none)
         /\ FilesOk(checked, disk.blocks, none) /\ FilesOk(credited, disk.blocks, none)
    <2>1. FilesOk(disk, disk.blocks, none)
      BY <1>1 DEF FilesOk
    <2> HIDE DEF F, none
    <2> QED BY <1>2, <1>3, <1>5, <1>6, <1>10, <1>11, <1>12, <2>1
  <1>14. /\ FilesBefore(disk, s, 1) = disk /\ FilesBefore(disk, s, 2) = projected /\ FilesBefore(disk, s, 3) = rewarded
         /\ FilesBefore(disk, s, 4) = checked /\ FilesBefore(disk, s, 5) = credited
    BY <1>8, <1>9 DEF FilesBefore
  <1>15. \A i \in 1..5 : FilesOk(FilesBefore(disk, s, i), disk.blocks, none)
    <2> TAKE i \in 1..5
    <2>1. i = 1 \/ i = 2 \/ i = 3 \/ i = 4 \/ i = 5
      OBVIOUS
    <2> HIDE DEF none
    <2> QED BY <1>13, <1>14, <2>1
  <1>16. Agrees(credited, Booted(disk))
    <2> DEFINE n == Booted(disk)
    <2>1. n.chain = disk.blocks /\ n.dedup = credits /\ n.nonces = disk.nonces /\ n.sessions = disk.sessions
      BY DEF Booted, credits
    <2>2. /\ credited.blocks = disk.blocks /\ credited.rewards = disk.blocks /\ credited.rows = disk.blocks
          /\ credited.dedup = credits /\ credited.nonces = disk.nonces /\ credited.sessions = disk.sessions
      BY <1>6 DEF Files
    <2> HIDE DEF n
    <2>3. Agrees(credited, n)
      BY <2>1, <2>2 DEF Agrees, Served, Owned
    <2> QED BY <2>3 DEF n
  <1> QED BY <1>7, <1>9, <1>14, <1>15, <1>16

LEMMA BootedSound ==
  ASSUME IInv
  PROVE  MemorySound(Booted(disk))
  <1>1. disk.blocks \in Sequence /\ disk.ckpt \in Sequence /\ WorksOf(disk.ckpt) \subseteq Valid
    BY DEF IInv, FilesSound
  <1> DEFINE k == SurvivingCkpt(disk.ckpt, disk.blocks)
  <1>2. k \in Sequence /\ PrefixOf(k, disk.blocks) /\ WorksOf(k) \subseteq Valid
    BY <1>1, Surviving
  <1>3. Booted(disk) = Memory(disk.blocks, EmptyShares, Credited(disk.blocks), disk.nonces, disk.sessions, k, "none", TRUE)
    BY DEF Booted, Memory
  <1> DEFINE n == Booted(disk)
  <1> HIDE DEF k, n
  <1>4. /\ n.chain = disk.blocks /\ n.shares = EmptyShares /\ n.ckpt = k /\ IsMemory(n)
    BY <1>3 DEF n, Memory, IsMemory
  <1>5. MemorySound(n)
    BY <1>1, <1>2, <1>4, EmptyEligible DEF MemorySound
  <1> QED BY <1>5 DEF n

LEMMA BootStep ==
  ASSUME IInv, Boot \/ BootFails
  PROVE  IInv' /\ FilesStep
  <1> DEFINE s == BootWrites
             none == {}
             next == disk.blocks
  <1>1. /\ Len(s) = 4
        /\ \A i \in 1..5 : FilesOk(FilesBefore(disk, s, i), next, none)
        /\ Agrees(FilesBefore(disk, s, 5), Booted(disk))
    BY BootFilesSound
  <1>2. ~ up
    BY DEF Boot, BootFails
  <1>3. MemorySound(Booted(disk))
    BY BootedSound
  <1> HIDE DEF s
  <1>4. PICK o \in Completed(disk, s, Booted(disk)) \cup Stopped(disk, s, Halted) : EndsWith(o, {}, FALSE)
    BY DEF Boot, BootFails, s
  <1>5. EndSound(o, next, none)
    <2>1. CASE o \in Completed(disk, s, Booted(disk))
      <3> DEFINE f == FilesBefore(disk, s, 5)
                 n == Booted(disk)
      <3>1. o = [disk |-> f, node |-> n, end |-> "done"]
        BY <1>1, <2>1 DEF Completed
      <3>2. FilesOk(f, next, none) /\ Agrees(f, n) /\ MemorySound(n)
        BY <1>1, <1>3
      <3> HIDE DEF f, n, next, none
      <3> QED BY <3>1, <3>2 DEF EndSound
    <2>2. CASE o \in Stopped(disk, s, Halted)
      <3>1. PICK i \in 1..5 : o = [disk |-> FilesBefore(disk, s, i), node |-> Halted, end |-> "crash"]
        BY <1>1, <2>2 DEF Stopped
      <3> DEFINE f == FilesBefore(disk, s, i)
      <3>2. FilesOk(f, next, none)
        BY <1>1
      <3>3. o = [disk |-> f, node |-> Halted, end |-> "crash"]
        BY <3>1
      <3> HIDE DEF f, next, none
      <3> QED BY <3>2, <3>3, HaltedSound DEF EndSound
    <2> QED BY <1>4, <2>1, <2>2
  <1>6. Advances(next)
    BY DEF Advances
  <1>7. \A k \in none : node.sessions[k[1]] = "active"
    OBVIOUS
  <1> HIDE DEF next, none
  <1> QED BY <1>2, <1>4, <1>5, <1>6, <1>7, EndsDone

-----------------------------------------------------------------------------
(* The theorems. *)

LEMMA InitSound ==
  ASSUME Init
  PROVE  IInv
  <1>1. disk = NoFiles /\ node = Booted(NoFiles) /\ up = TRUE /\ jobs = {} /\ busy = FALSE /\ checker \in BOOLEAN
    BY DEF Init
  <1>2. /\ disk = Files(<<>>, <<>>, <<>>, {}, {}, {}, <<>>, [pk \in Pks |-> "none"], {})
    BY <1>1 DEF NoFiles, Files
  <1>3. disk.blocks = <<>> /\ disk.rewards = <<>> /\ disk.rows = <<>> /\ disk.dedup = {} /\ disk.nonces = {}
        /\ disk.receipts = {} /\ disk.ckpt = <<>> /\ disk.made = {} /\ IsFiles(disk)
    BY <1>2 DEF Files, IsFiles
  <1>4. BurnSound(disk)
    BY <1>3 DEF BurnSound
  <1>5. ReplayOk(<<>>)
    BY DEF ReplayOk
  <1>6. FilesSound(disk)
    BY <1>3, <1>4, <1>5, EmptyChain DEF FilesSound
  <1>7. Credited(<<>>) = {}
    BY DEF Credited
  <1>8. node = Memory(<<>>, EmptyShares, {}, {}, [pk \in Pks |-> "none"], <<>>, "none", TRUE)
    BY <1>1, <1>7 DEF Booted, NoFiles, SurvivingCkpt, Memory
  <1>9. /\ node.chain = <<>> /\ node.shares = EmptyShares /\ node.dedup = {} /\ node.nonces = {} /\ node.ckpt = <<>>
        /\ node.sessions = [pk \in Pks |-> "none"] /\ IsMemory(node)
    BY <1>8 DEF Memory, IsMemory
  <1>10. PrefixOf(<<>>, <<>>)
    BY EmptyChain, EmptyPrefix
  <1>11. MemorySound(node)
    BY <1>9, <1>10, EmptyChain, EmptyEligible DEF MemorySound
  <1>12. disk.sessions = [pk \in Pks |-> "none"]
    BY <1>2 DEF Files
  <1>13. Agrees(disk, node)
    BY <1>3, <1>9, <1>12 DEF Agrees, Served, Owned
  <1>14. JobsSound
    BY <1>1 DEF JobsSound
  <1> QED BY <1>1, <1>6, <1>11, <1>13, <1>14 DEF IInv

LEMMA StutterStep ==
  ASSUME IInv, UNCHANGED vars
  PROVE  IInv' /\ FilesStep
  <1>1. UNCHANGED <<up, node, disk, jobs, busy, checker>>
    BY DEF vars
  <1>2. FilesStep
    BY <1>1, FilesKept
  <1>3. Core'
    BY <1>1 DEF IInv, Core, FilesSound, MemorySound, SharesEligible, Agrees, Served, Owned
  <1>4. JobsSound'
    BY <1>1 DEF IInv, JobsSound, JobSound, ShareJob, BlockJob, ChainJob
  <1> QED BY <1>2, <1>3, <1>4 DEF IInv, Core

LEMMA FinishStep ==
  ASSUME IInv, NEW j \in jobs, FinishJob(j)
  PROVE  IInv' /\ FilesStep
  <1>1. Verdicts({}) \cup {"reject"} \subseteq AllVerdicts
    BY DEF Verdicts, AllVerdicts
  <1>2. CASE OrphanDone(j)
    BY <1>2, OrphanDoneStep
  <1>3. ASSUME NEW v \in AllVerdicts,
               FinishSubmit(j, v) \/ FinishPeerShare(j, v) \/ FinishPeerBlock(j, v) \/ FinishPeerChain(j, v)
        PROVE  IInv' /\ FilesStep
    BY <1>3, FinishSubmitStep, FinishPeerShareStep, FinishPeerBlockStep, FinishPeerChainStep
  <1> QED BY <1>1, <1>2, <1>3 DEF FinishJob

LEMMA NextSound ==
  ASSUME IInv, [Next]_vars
  PROVE  IInv' /\ FilesStep
  <1>1. ASSUME NEW w \in Works, NEW nonce,
               SubmitDuplicate(w, nonce) \/ SubmitReserve(w, nonce) \/ SubmitUnchecked(w, nonce)
        PROVE  IInv' /\ FilesStep
    BY <1>1, SubmitDuplicateStep, SubmitReserveStep, SubmitUncheckedStep
  <1>2. ASSUME NEW chain \in PeerChains, PeerBlock(chain) \/ PeerChain(chain)
        PROVE  IInv' /\ FilesStep
    BY <1>2, PeerBlockStep, PeerChainStep
  <1>3. ASSUME NEW j \in jobs, FinishJob(j) \/ CancelSubmit(j)
        PROVE  IInv' /\ FilesStep
    BY <1>3, FinishStep, CancelSubmitStep
  <1>4. ASSUME NEW pk \in Pks, Register(pk) \/ Revoke(pk)
        PROVE  IInv' /\ FilesStep
    <2>1. PICK state : \E o \in SessionEvent(pk, state) : up /\ node.authority /\ EndsWith(o, jobs, busy)
      BY <1>4 DEF Register, Revoke
    <2> QED BY <2>1, SessionStep
  <1>5. CASE Next
    BY <1>1, <1>2, <1>3, <1>4, <1>5, PeerShareStep, LoseAuthorityStep, CrashStep, BootStep DEF Next
  <1>6. CASE UNCHANGED vars
    BY <1>6, StutterStep
  <1> QED BY <1>5, <1>6

(* The inductive invariant: the files are those of a chain that replays and,
   with a checker, of accepted proofs only, also between two writes; memory
   agrees with them unless it says otherwise; what a running check was given
   still stands in the state it left unlocked. *)
THEOREM Invariance == Spec => []IInv
  <1>1. Init => IInv
    BY InitSound
  <1>2. IInv /\ [Next]_vars => IInv'
    BY NextSound
  <1> QED BY <1>1, <1>2, PTL DEF Spec

(* A process that reports no partial publication serves what is stored, the
   stored chain always boots again, and a nonce is burned before what it was
   signed for, wherever a write of submit_finalize, commit_announced_block,
   commit_candidate_chain or the boot fails or is cut off. *)
THEOREM StoreIsSound == Spec => []StoreSound
  <1>1. IInv => StoreSound
    BY DEF IInv, StoreSound, StoreAgrees, Recoverable, Bootable, BurnFirst, BurnSound, FilesSound,
           Agrees, Served, Owned, Healthy
  <1> QED BY <1>1, Invariance, PTL

(* One check runs at a time, its premises hold while the state is unlocked,
   and nothing a block can select and nothing a checkpoint covers is outside
   what the checker accepts. *)
THEOREM ChecksAreSound == Spec => []ChecksSound
  <1>1. ASSUME IInv PROVE ChecksSound
    <2>1. OneChecker
      <3>1. CASE jobs = {}
        <4>1. Cardinality(jobs) = 0
          BY <3>1, FS_EmptySet
        <4> QED BY <1>1, <4>1 DEF OneChecker, IInv, JobsSound
      <3>2. CASE jobs # {}
        <4>1. PICK j : jobs = {j}
          BY <1>1, <3>2 DEF IInv, JobsSound
        <4>2. Cardinality(jobs) = 1
          BY <4>1, FS_Singleton
        <4> QED BY <1>1, <4>2 DEF OneChecker, IInv, JobsSound
      <3> QED BY <3>1, <3>2
    <2>2. PremisesHold
      BY <1>1 DEF PremisesHold, IInv, JobsSound, JobSound, ShareJob, BlockJob, ChainJob
    <2>3. Eligible /\ CkptIsPrefix /\ CheckpointSound
      BY <1>1 DEF Eligible, CkptIsPrefix, CheckpointSound, IInv, MemorySound, SharesEligible, FilesSound, Healthy
    <2> QED BY <2>1, <2>2, <2>3 DEF ChecksSound
  <1> QED BY <1>1, Invariance, PTL

(* A nonce is burned only for a session active at that moment, and a process
   that lost its authority or a publication changes no canonical file; without
   the authority it changes no session either. *)
THEOREM OnlyAllowedWrites == Spec => WritesAllowed
  <1>1. IInv /\ [Next]_vars =>
           [\A k \in disk'.nonces \ disk.nonces : node.sessions[k[1]] = "active"]_vars
    BY NextSound DEF FilesStep
  <1>2. IInv /\ [Next]_vars =>
           [/\ up /\ (~ Healthy \/ ~ node.authority) =>
                 \A file \in {"blocks", "rewards", "rows", "dedup", "nonces", "receipts", "ckpt"} :
                    disk'[file] = disk[file]
            /\ up /\ ~ node.authority => disk'.sessions = disk.sessions]_vars
    BY NextSound DEF FilesStep, CanonicalFiles
  <1> QED BY <1>1, <1>2, Invariance, PTL DEF Spec, WritesAllowed, ActiveSessionsOnly, FailedIsReadOnly

(* The promise is about the same chains, weights and replay. *)
LEMMA SameChoice ==
  ASSUME NEW c, NEW d
  PROVE  /\ Credit!ReplayOk(c) <=> ReplayOk(c)
         /\ Credit!WorksOf(c) = WorksOf(c)
         /\ Credit!PrefixOf(c, d) <=> PrefixOf(c, d)
         /\ Credit!ChooseCandidate(c, d) <=> ChooseCandidate(c, d)
  <1>1. Credit!ReplayOk(c) <=> ReplayOk(c)
    <2>1. \A b : Credit!HasProposer(b) <=> HasProposer(b)
      BY DEF Credit!HasProposer, HasProposer
    <2>2. \A b : Credit!ProofsOf(b) = ProofsOf(b)
      BY DEF Credit!ProofsOf, ProofsOf
    <2> DEFINE one(b) == /\ Cardinality(b) <= KMax
                         /\ \A w \in b : Score[w] >= MinScore
                         /\ \A v, w \in b : Proof[v] = Proof[w] => v = w
    <2>3. ReplayOk(c) <=> /\ \A h \in DOMAIN c : HasProposer(c[h]) /\ one(c[h])
                          /\ \A g, h \in DOMAIN c : g # h => ProofsOf(c[g]) \cap ProofsOf(c[h]) = {}
      BY DEF ReplayOk
    <2>4. \A b : Credit!Cardinality(b) = Cardinality(b)
      BY DEF Credit!Cardinality, Cardinality
    <2>5. Credit!ReplayOk(c) <=> /\ \A h \in DOMAIN c : Credit!HasProposer(c[h]) /\ one(c[h])
                                 /\ \A g, h \in DOMAIN c :
                                        g # h => Credit!ProofsOf(c[g]) \cap Credit!ProofsOf(c[h]) = {}
      BY <2>4 DEF Credit!ReplayOk
    <2> HIDE DEF one
    <2> QED BY <2>1, <2>2, <2>3, <2>5
  <1>2. Credit!WorksOf(c) = WorksOf(c)
    BY DEF Credit!WorksOf, WorksOf
  <1>3. Credit!PrefixOf(c, d) <=> PrefixOf(c, d)
    BY DEF Credit!PrefixOf, PrefixOf
  <1>4. Credit!Weight(c) = Weight(c) /\ Credit!Weight(d) = Weight(d)
    BY DEF Credit!Weight, Weight
  <1>5. Credit!ChooseCandidate(c, d) <=> ChooseCandidate(c, d)
    BY <1>4 DEF Credit!ChooseCandidate, ChooseCandidate
  <1> QED BY <1>1, <1>2, <1>3, <1>5

(* The block store behaves as ProofCredit promises: it grows by a replayable
   block or is replaced by a chain that wins the fork choice, and with a
   checker it pays only for accepted proofs, through every failed write,
   crash and boot. *)
THEOREM CreditIsImplemented == Spec => ImplementsCredit
  <1>1. Init => Credit!Init
    BY DEF Init, Credit!Init, NoFiles
  <1>2. ASSUME IInv, [Next]_vars PROVE [Credit!Next]_<<disk.blocks, checker>>
    <2>1. Advances(disk'.blocks) /\ checker' = checker
      BY <1>2, NextSound DEF FilesStep
    <2>2. CASE disk'.blocks = disk.blocks
      BY <2>1, <2>2
    <2>3. CASE /\ ChainSound(disk'.blocks)
               /\ Len(disk'.blocks) = Len(disk.blocks) + 1 /\ PrefixOf(disk.blocks, disk'.blocks)
      <3>1. Credit!Sound(disk'.blocks) /\ Credit!PrefixOf(disk.blocks, disk'.blocks)
        BY <2>3, SameChoice DEF Credit!Sound, ChainSound
      <3>2. Credit!Grow
        BY <2>3, <3>1 DEF Credit!Grow
      <3> QED BY <2>1, <3>2 DEF Credit!Next
    <2>4. CASE ChainSound(disk'.blocks) /\ ChooseCandidate(disk.blocks, disk'.blocks)
      <3>1. Credit!Sound(disk'.blocks) /\ Credit!ChooseCandidate(disk.blocks, disk'.blocks)
        BY <2>4, SameChoice DEF Credit!Sound, ChainSound
      <3>2. Credit!Replace
        BY <3>1 DEF Credit!Replace
      <3> QED BY <2>1, <3>2 DEF Credit!Next
    <2> QED BY <2>1, <2>2, <2>3, <2>4 DEF Advances
  <1> QED BY <1>1, <1>2, Invariance, PTL DEF Spec, ImplementsCredit, Credit!Spec

-----------------------------------------------------------------------------
(* The shares of a node, typed and charged. *)

(* No reservation is in the order twice. *)
Distinct(tombs) ==
    /\ Len(tombs) <= TombCap
    /\ \A i, k \in 1..Len(tombs) : tombs[i] = tombs[k] => i = k

(* Pool and candidate list hold the same shares, one per key. *)
Alike(candidates, active) ==
    /\ active = {Key(w) : w \in candidates}
    /\ \A v, w \in candidates : Key(v) = Key(w) => v = w

KnownTo(K, pk) == {k \in K : k[1] = pk}

(* The charges pay for the known shares K; exactly, if nothing is evicted. *)
Charged(K, used) ==
    \A pk \in Pks :
        /\ Cardinality(KnownTo(K, pk)) <= used[pk]
        /\ TombCap >= Cardinality(Keys) => used[pk] = Cardinality(KnownTo(K, pk))

(* What is true of the four collections together. *)
PoolSound(candidates, active, tombs, used) ==
    /\ candidates \in SUBSET Works /\ active \in SUBSET Keys
    /\ tombs \in Seq(Keys) /\ used \in [Pks -> 0..PkQuota]
    /\ Alike(candidates, active)
    /\ Distinct(tombs)
    /\ active \cap ToSet(tombs) = {}
    /\ Charged(active \cup ToSet(tombs), used)

Pools ==
    {s \in [candidates : SUBSET Works, active : SUBSET Keys, tombs : Seq(Keys),
            used : [Pks -> 0..PkQuota]] :
        PoolSound(s.candidates, s.active, s.tombs, s.used)}

LEMMA KeysFinite == IsFiniteSet(Keys)
  <1> DEFINE f == [w \in Works |-> Key(w)]
  <1>1. f \in Surjection(Works, Keys)
    <2>1. f \in [Works -> Keys]
      BY DEF Keys
    <2>2. \A k \in Keys : \E w \in Works : f[w] = k
      BY DEF Keys
    <2> HIDE DEF f
    <2> QED BY <2>1, <2>2 DEF Surjection
  <1> HIDE DEF f
  <1> QED BY <1>1, WorksAssumption, FS_Surjection

LEMMA Joined ==
  ASSUME NEW S, NEW s \in Seq(S), NEW t \in Seq(S)
  PROVE  /\ s \o t \in Seq(S) /\ Len(s \o t) = Len(s) + Len(t)
         /\ \A i \in 1..(Len(s) + Len(t)) : (s \o t)[i] = IF i <= Len(s) THEN s[i] ELSE t[i - Len(s)]
  OBVIOUS

(* A reservation is forgotten, and no other. *)
LEMMA RemovedOnce ==
  ASSUME NEW tombs \in Seq(Keys), Distinct(tombs), NEW key \in ToSet(tombs)
  PROVE  /\ RemoveTomb(tombs, key) \in Seq(Keys)
         /\ Distinct(RemoveTomb(tombs, key))
         /\ ToSet(RemoveTomb(tombs, key)) = ToSet(tombs) \ {key}
  <1>1. PICK p \in 1..Len(tombs) : tombs[p] = key
    BY DEF ToSet
  <1> DEFINE I == {i \in 1..Len(tombs) : tombs[i] = key}
             m == Min(I)
             n == Len(tombs)
             r == SubSeq(tombs, 1, m - 1) \o SubSeq(tombs, m + 1, n)
  <1>2. I \subseteq Nat /\ I # {}
    BY <1>1
  <1>3. m \in I
    <2>1. \E x \in I : \A y \in I : x <= y
      BY <1>2, LeastNatural
    <2> QED BY <2>1 DEF Min
  <1>4. RemoveTomb(tombs, key) = r
    BY <1>1, <1>2 DEF RemoveTomb, RemoveFirst, SelectInSeq, RemoveAt
  <1>5. m \in 1..n /\ tombs[m] = key /\ n \in Nat
    BY <1>3
  <1> HIDE DEF m, I
  <1> DEFINE a == SubSeq(tombs, 1, m - 1)
             b == SubSeq(tombs, m + 1, n)
  <1>6. /\ a \in Seq(Keys) /\ Len(a) = m - 1 /\ \A i \in 1..(m - 1) : a[i] = tombs[i]
        /\ b \in Seq(Keys) /\ Len(b) = n - m /\ \A i \in 1..(n - m) : b[i] = tombs[i + m]
    BY <1>5
  <1>7. r = a \o b
    OBVIOUS
  <1> HIDE DEF a, b, r, n
  <1>8. r \in Seq(Keys) /\ Len(r) = n - 1
    <2>1. r \in Seq(Keys) /\ Len(r) = Len(a) + Len(b)
      BY <1>6, <1>7, Joined
    <2> QED BY <1>5, <1>6, <2>1
  <1>9. \A i \in 1..(n - 1) : r[i] = IF i < m THEN tombs[i] ELSE tombs[i + 1]
    <2> TAKE i \in 1..(n - 1)
    <2>1. CASE i < m
      BY <1>5, <1>6, <1>7, <2>1
    <2>2. CASE ~ (i < m)
      <3>1. i - (m - 1) \in 1..(n - m) /\ r[i] = b[i - (m - 1)]
        BY <1>5, <1>6, <1>7, <2>2
      <3>2. b[i - (m - 1)] = tombs[(i - (m - 1)) + m] /\ (i - (m - 1)) + m = i + 1
        BY <1>5, <1>6, <3>1
      <3> QED BY <2>2, <3>1, <3>2
    <2> QED BY <2>1, <2>2
  <1>10. /\ n <= TombCap /\ TombCap \in Nat
         /\ \A i, k \in 1..n : tombs[i] = tombs[k] => i = k
    BY CapsAssumption DEF Distinct, n
  <1>11. Distinct(r)
    <2>1. Len(r) <= TombCap
      BY <1>5, <1>8, <1>10
    <2>2. ASSUME NEW i \in 1..Len(r), NEW k \in 1..Len(r), r[i] = r[k] PROVE i = k
      <3> DEFINE from(x) == IF x < m THEN x ELSE x + 1
      <3>1. from(i) \in 1..n /\ from(k) \in 1..n /\ (from(i) = from(k) => i = k)
        BY <1>5, <1>8
      <3>2. r[i] = tombs[from(i)] /\ r[k] = tombs[from(k)]
        BY <1>5, <1>8, <1>9
      <3> HIDE DEF from
      <3> QED BY <1>10, <2>2, <3>1, <3>2
    <2> QED BY <2>1, <2>2 DEF Distinct
  <1>12. ASSUME NEW k PROVE k \in ToSet(r) <=> k \in ToSet(tombs) /\ k # key
    <2>1. ASSUME k \in ToSet(r) PROVE k \in ToSet(tombs) /\ k # key
      <3>1. PICK i \in 1..(n - 1) : r[i] = k
        BY <1>8, <2>1 DEF ToSet
      <3>2. PICK g \in 1..n : g # m /\ tombs[g] = k
        <4>1. CASE i < m
          BY <1>5, <1>9, <3>1, <4>1
        <4>2. CASE ~ (i < m)
          <5>1. i + 1 \in 1..n /\ i + 1 # m /\ tombs[i + 1] = k
            BY <1>5, <1>9, <3>1, <4>2
          <5> QED BY <5>1
        <4> QED BY <4>1, <4>2
      <3> QED BY <1>5, <1>10, <3>2 DEF ToSet, n
    <2>2. ASSUME k \in ToSet(tombs), k # key PROVE k \in ToSet(r)
      <3>1. PICK g \in 1..n : tombs[g] = k
        BY <2>2 DEF ToSet, n
      <3>2. g # m
        BY <1>5, <2>2, <3>1
      <3>3. PICK i \in 1..(n - 1) : r[i] = k
        <4>1. CASE g < m
          BY <1>5, <1>9, <3>1, <4>1
        <4>2. CASE g > m
          <5>1. g - 1 \in 1..(n - 1) /\ ~ (g - 1 < m) /\ (g - 1) + 1 = g
            BY <1>5, <4>2
          <5> QED BY <1>9, <3>1, <5>1
        <4> QED BY <1>5, <3>2, <4>1, <4>2
      <3> QED BY <1>8, <3>3 DEF ToSet
    <2> QED BY <2>1, <2>2
  <1>13. ToSet(r) = ToSet(tombs) \ {key}
    BY <1>12
  <1> QED BY <1>4, <1>8, <1>11, <1>13

(* As many reservations as entries in the order. *)
LEMMA DistinctCount ==
  ASSUME NEW tombs \in Seq(Keys), Distinct(tombs)
  PROVE  IsFiniteSet(ToSet(tombs)) /\ Cardinality(ToSet(tombs)) = Len(tombs)
  <1> DEFINE S == 1..Len(tombs)
             T == ToSet(tombs)
  <1>1. Len(tombs) \in Nat
    OBVIOUS
  <1>2. tombs \in [S -> T] /\ \A k \in T : \E i \in S : tombs[i] = k
    BY <1>1 DEF ToSet
  <1>3. \A i, k \in S : tombs[i] = tombs[k] => i = k
    BY DEF Distinct
  <1>4. tombs \in Bijection(S, T)
    BY <1>2, <1>3 DEF Bijection, Injection, Surjection, IsInjective
  <1>5. IsFiniteSet(S) /\ Cardinality(S) = Len(tombs)
    <2> DEFINE m == Len(tombs)
    <2>1. m \in Nat
      BY <1>1
    <2> HIDE DEF m
    <2>2. IsFiniteSet(1..m) /\ Cardinality(1..m) = m
      BY ONLY <2>1, FS_Interval
    <2> QED BY <2>2 DEF m
  <1> HIDE DEF S, T
  <1>6. ExistsBijection(S, T)
    BY <1>4 DEF ExistsBijection
  <1>7. IsFiniteSet(T) /\ Cardinality(T) = Cardinality(S)
    BY <1>5, <1>6, FS_Bijection
  <1> QED BY <1>5, <1>7 DEF T

(* A new reservation costs at most the oldest one, and none if the order has
   room for every key. *)
LEMMA InsertedOnce ==
  ASSUME NEW tombs \in Seq(Keys), Distinct(tombs), NEW key \in Keys, key \notin ToSet(tombs)
  PROVE  /\ InsertTomb(tombs, key) \in Seq(Keys)
         /\ Distinct(InsertTomb(tombs, key))
         /\ key \in ToSet(InsertTomb(tombs, key))
         /\ ToSet(InsertTomb(tombs, key)) \subseteq ToSet(tombs) \cup {key}
         /\ TombCap >= Cardinality(Keys) =>
               ToSet(InsertTomb(tombs, key)) = ToSet(tombs) \cup {key}
  <1> DEFINE a == Append(tombs, key)
             n == Len(tombs)
             f == IF n + 1 > TombCap THEN n + 1 - TombCap + 1 ELSE 1
             e == SubSeq(a, f, n + 1)
  <1>1. TombCap \in Nat \ {0} /\ n \in Nat /\ n <= TombCap
        /\ \A i, k \in 1..n : tombs[i] = tombs[k] => i = k
    BY CapsAssumption DEF Distinct
  <1>2. a \in Seq(Keys) /\ Len(a) = n + 1 /\ a[n + 1] = key /\ \A i \in 1..n : a[i] = tombs[i]
    BY <1>1
  <1>3. InsertTomb(tombs, key) = e
    <2>1. InsertTomb(tombs, key) = Evict(a)
      BY DEF InsertTomb
    <2>2. Evict(a) = SubSeq(a, IF Len(a) > TombCap THEN Len(a) - TombCap + 1 ELSE 1, Len(a))
      BY DEF Evict
    <2> HIDE DEF a, n
    <2>3. (IF Len(a) > TombCap THEN Len(a) - TombCap + 1 ELSE 1) = f
      BY <1>1, <1>2
    <2> HIDE DEF f
    <2> QED BY <1>2, <2>1, <2>2, <2>3
  <1>4. f \in {1, 2} /\ n + 1 - f + 1 <= TombCap /\ f <= n + 1
    BY <1>1
  <1> HIDE DEF a, f
  <1>5. e \in Seq(Keys) /\ Len(e) = n + 1 - f + 1 /\ \A i \in 1..(n + 1 - f + 1) : e[i] = a[i + f - 1]
    BY <1>1, <1>2, <1>4
  <1> HIDE DEF e
  <1>6. \A i, k \in 1..(n + 1) : a[i] = a[k] => i = k
    <2>1. \A i \in 1..n : tombs[i] # key
      BY <1>1 DEF ToSet
    <2> QED BY <1>1, <1>2, <2>1
  <1> HIDE DEF n
  <1>7. Distinct(e)
    <2>1. ASSUME NEW i \in 1..Len(e), NEW k \in 1..Len(e), e[i] = e[k] PROVE i = k
      <3>1. i + f - 1 \in 1..(n + 1) /\ k + f - 1 \in 1..(n + 1) /\ a[i + f - 1] = a[k + f - 1]
        BY <1>1, <1>4, <1>5, <2>1
      <3>2. i + f - 1 = k + f - 1
        BY <1>6, <3>1
      <3> QED BY <1>4, <3>2
    <2> QED BY <1>4, <1>5, <2>1 DEF Distinct
  <1>8. key \in ToSet(e)
    <2>1. n + 1 - f + 1 \in 1..Len(e) /\ e[n + 1 - f + 1] = a[n + 1]
      BY <1>1, <1>4, <1>5
    <2> QED BY <1>2, <1>5, <2>1 DEF ToSet
  <1>9. ToSet(e) \subseteq ToSet(tombs) \cup {key}
    <2> SUFFICES ASSUME NEW k \in ToSet(e), k # key PROVE k \in ToSet(tombs)
      OBVIOUS
    <2>1. PICK i \in 1..(n + 1 - f + 1) : e[i] = k
      BY <1>5 DEF ToSet
    <2>2. i + f - 1 \in 1..(n + 1) /\ a[i + f - 1] = k
      BY <1>1, <1>4, <1>5, <2>1
    <2>3. i + f - 1 \in 1..n /\ tombs[i + f - 1] = k
      BY <1>1, <1>2, <2>2
    <2> QED BY <2>3 DEF ToSet, n
  <1>10. ASSUME TombCap >= Cardinality(Keys) PROVE ToSet(tombs) \cup {key} \subseteq ToSet(e)
    <2>1. IsFiniteSet(ToSet(tombs)) /\ Cardinality(ToSet(tombs)) = n
      BY DistinctCount DEF n
    <2> DEFINE T == ToSet(tombs) \cup {key}
    <2>2. IsFiniteSet(T) /\ Cardinality(T) = n + 1
      BY <2>1, FS_AddElement
    <2>3. T \in SUBSET Keys
      BY DEF ToSet
    <2> HIDE DEF T
    <2>4. n + 1 <= Cardinality(Keys) /\ Cardinality(Keys) \in Nat
      BY <2>2, <2>3, KeysFinite, FS_Subset, FS_CardinalityType
    <2>5. f = 1
      BY <1>1, <1>10, <2>4 DEF f
    <2>6. ASSUME NEW k \in ToSet(tombs) PROVE k \in ToSet(e)
      <3>1. PICK i \in 1..n : tombs[i] = k
        BY DEF ToSet, n
      <3>2. i \in 1..Len(e) /\ e[i] = k
        BY <1>1, <1>2, <1>5, <2>5, <3>1
      <3> QED BY <1>5, <3>2 DEF ToSet
    <2> QED BY <1>8, <2>6
  <1> QED BY <1>3, <1>5, <1>7, <1>8, <1>9, <1>10

-----------------------------------------------------------------------------
(* Charges. *)

LEMMA KnownFinite ==
  ASSUME NEW K \in SUBSET Keys, NEW pk
  PROVE  IsFiniteSet(KnownTo(K, pk)) /\ Cardinality(KnownTo(K, pk)) \in Nat
  <1>1. KnownTo(K, pk) \in SUBSET Keys
    BY DEF KnownTo
  <1> QED BY <1>1, KeysFinite, FS_Subset, FS_CardinalityType

(* One more share is known, and its key pays for it. *)
LEMMA ChargeOne ==
  ASSUME NEW K \in SUBSET Keys, NEW used \in [Pks -> 0..PkQuota], Charged(K, used),
         NEW w \in Works, Key(w) \notin K, used[Pk[w]] < PkQuota
  PROVE  /\ [used EXCEPT ![Pk[w]] = @ + 1] \in [Pks -> 0..PkQuota]
         /\ Charged(K \cup {Key(w)}, [used EXCEPT ![Pk[w]] = @ + 1])
  <1> DEFINE x == Key(w)
             p == Pk[w]
             u == [used EXCEPT ![p] = @ + 1]
             L == K \cup {x}
  <1>1. PkQuota \in Nat /\ p \in Pks /\ x[1] = p /\ x \in Keys
    BY CapsAssumption DEF Pks, Key, Keys
  <1> HIDE DEF x, p
  <1>2. u \in [Pks -> 0..PkQuota]
    BY <1>1 DEF p
  <1>3. u[p] = used[p] + 1 /\ \A q \in Pks : q # p => u[q] = used[q]
    BY <1>1
  <1> HIDE DEF u
  <1>4. ASSUME NEW q \in Pks
        PROVE  /\ Cardinality(KnownTo(L, q)) <= u[q]
               /\ TombCap >= Cardinality(Keys) => u[q] = Cardinality(KnownTo(L, q))
    <2> DEFINE c == Cardinality(KnownTo(K, q))
    <2>1. c \in Nat /\ IsFiniteSet(KnownTo(K, q)) /\ used[q] \in Nat
      BY KnownFinite
    <2>2. c <= used[q] /\ (TombCap >= Cardinality(Keys) => used[q] = c)
      BY DEF Charged
    <2>3. CASE q = p
      <3>1. KnownTo(L, q) = KnownTo(K, q) \cup {x} /\ x \notin KnownTo(K, q)
        BY <1>1, <2>3 DEF KnownTo, x
      <3>2. Cardinality(KnownTo(L, q)) = c + 1
        BY <2>1, <3>1, FS_AddElement
      <3> HIDE DEF c
      <3> QED BY <1>3, <2>1, <2>2, <2>3, <3>2
    <2>4. CASE q # p
      <3>1. KnownTo(L, q) = KnownTo(K, q)
        BY <1>1, <2>4 DEF KnownTo
      <3> HIDE DEF L
      <3> QED BY <1>3, <2>2, <2>4, <3>1
    <2> QED BY <2>3, <2>4
  <1>5. Charged(L, u)
    BY <1>4 DEF Charged
  <1> QED BY <1>2, <1>5 DEF u, L, x, p

(* A known share is forgotten, and its charge with it. *)
LEMMA RefundOne ==
  ASSUME NEW K \in SUBSET Keys, NEW used \in [Pks -> 0..PkQuota], Charged(K, used),
         NEW w \in Works, Key(w) \in K
  PROVE  /\ [used EXCEPT ![Pk[w]] = IF @ > 0 THEN @ - 1 ELSE 0] \in [Pks -> 0..PkQuota]
         /\ Charged(K \ {Key(w)}, [used EXCEPT ![Pk[w]] = IF @ > 0 THEN @ - 1 ELSE 0])
  <1> DEFINE x == Key(w)
             p == Pk[w]
             u == [used EXCEPT ![p] = IF @ > 0 THEN @ - 1 ELSE 0]
             L == K \ {x}
  <1>1. PkQuota \in Nat /\ p \in Pks /\ x[1] = p /\ x \in Keys
    BY CapsAssumption DEF Pks, Key, Keys
  <1> HIDE DEF x, p
  <1>2. u \in [Pks -> 0..PkQuota]
    BY <1>1
  <1>3. u[p] = (IF used[p] > 0 THEN used[p] - 1 ELSE 0) /\ \A q \in Pks : q # p => u[q] = used[q]
    BY <1>1
  <1> HIDE DEF u
  <1>4. ASSUME NEW q \in Pks
        PROVE  /\ Cardinality(KnownTo(L, q)) <= u[q]
               /\ TombCap >= Cardinality(Keys) => u[q] = Cardinality(KnownTo(L, q))
    <2> DEFINE c == Cardinality(KnownTo(K, q))
    <2>1. c \in Nat /\ IsFiniteSet(KnownTo(K, q)) /\ used[q] \in Nat
      BY KnownFinite
    <2>2. c <= used[q] /\ (TombCap >= Cardinality(Keys) => used[q] = c)
      BY DEF Charged
    <2>3. CASE q = p
      <3>1. KnownTo(L, q) = KnownTo(K, q) \ {x} /\ x \in KnownTo(K, q)
        BY <1>1, <2>3 DEF KnownTo, x
      <3> DEFINE A == KnownTo(K, q)
      <3>2. Cardinality(KnownTo(L, q)) = c - 1
        <4>1. KnownTo(L, q) = A \ {x} /\ x \in A /\ IsFiniteSet(A) /\ c = Cardinality(A)
          BY <2>1, <3>1
        <4> HIDE DEF A, L, c
        <4> QED BY <4>1, FS_RemoveElement
      <3>3. c > 0
        BY <2>1, <3>1, FS_EmptySet
      <3> HIDE DEF c
      <3> QED BY <1>3, <2>1, <2>2, <2>3, <3>2, <3>3
    <2>4. CASE q # p
      <3>1. KnownTo(L, q) = KnownTo(K, q)
        BY <1>1, <2>4 DEF KnownTo
      <3> HIDE DEF L
      <3> QED BY <1>3, <2>2, <2>4, <3>1
    <2> QED BY <2>3, <2>4
  <1>5. Charged(L, u)
    BY <1>4 DEF Charged
  <1> QED BY <1>2, <1>5 DEF u, L, x, p

(* An evicted reservation leaves its charge. *)
LEMMA ChargeKept ==
  ASSUME NEW K \in SUBSET Keys, NEW used \in [Pks -> 0..PkQuota], Charged(K, used),
         NEW L \in SUBSET K, TombCap >= Cardinality(Keys) => L = K
  PROVE  Charged(L, used)
  <1>1. ASSUME NEW q \in Pks
        PROVE  /\ Cardinality(KnownTo(L, q)) <= used[q]
               /\ TombCap >= Cardinality(Keys) => used[q] = Cardinality(KnownTo(L, q))
    <2> DEFINE c == Cardinality(KnownTo(K, q))
               d == Cardinality(KnownTo(L, q))
    <2>1. c <= used[q] /\ (TombCap >= Cardinality(Keys) => used[q] = c) /\ used[q] \in Int
      BY DEF Charged
    <2>2. KnownTo(L, q) \in SUBSET KnownTo(K, q)
      BY DEF KnownTo
    <2>3. c \in Nat /\ d \in Nat /\ d <= c
      <3>1. L \in SUBSET Keys
        OBVIOUS
      <3> QED BY <2>2, <3>1, KnownFinite, FS_Subset
    <2>4. TombCap >= Cardinality(Keys) => d = c
      OBVIOUS
    <2> HIDE DEF c, d
    <2>5. d <= used[q] /\ (TombCap >= Cardinality(Keys) => used[q] = d)
      BY <2>1, <2>3, <2>4
    <2> QED BY <2>5 DEF d
  <1> QED BY <1>1 DEF Charged

-----------------------------------------------------------------------------
(* What the operations on the shares do to them. *)

LEMMA PoolOf ==
  ASSUME NEW c, NEW a, NEW t, NEW u, PoolSound(c, a, t, u)
  PROVE  Shares(c, a, t, u) \in Pools
  <1> DEFINE s == Shares(c, a, t, u)
  <1>1. s.candidates = c /\ s.active = a /\ s.tombs = t /\ s.used = u
    BY DEF Shares
  <1>2. s \in [candidates : SUBSET Works, active : SUBSET Keys, tombs : Seq(Keys), used : [Pks -> 0..PkQuota]]
    BY DEF PoolSound, Shares
  <1> HIDE DEF s
  <1>3. s \in Pools
    BY <1>1, <1>2 DEF Pools
  <1> QED BY <1>3 DEF s

LEMMA PoolIs ==
  ASSUME NEW s \in Pools
  PROVE  IsShares(s) /\ PoolSound(s.candidates, s.active, s.tombs, s.used)
  BY DEF Pools, IsShares, Shares

LEMMA EmptyPool == EmptyShares \in Pools
  <1> DEFINE none == {}
             new == <<>>
             u == [pk \in Pks |-> 0]
  <1>1. EmptyShares = Shares(none, none, new, u)
    BY DEF EmptyShares, Shares
  <1>2. ToSet(new) = {} /\ Len(new) = 0 /\ new \in Seq(Keys)
    BY DEF ToSet
  <1>3. Distinct(new)
    BY <1>2, CapsAssumption DEF Distinct
  <1>4. Alike(none, none)
    BY DEF Alike
  <1>5. u \in [Pks -> 0..PkQuota] /\ \A pk \in Pks : u[pk] = 0
    BY CapsAssumption
  <1>6. Charged(none \cup ToSet(new), u)
    <2>1. \A pk : KnownTo(none \cup ToSet(new), pk) = {}
      BY <1>2 DEF KnownTo
    <2>2. \A pk : Cardinality(KnownTo(none \cup ToSet(new), pk)) = 0
      BY <2>1, FS_EmptySet
    <2> HIDE DEF u
    <2> QED BY <1>5, <2>2 DEF Charged
  <1>7. PoolSound(none, none, new, u)
    BY <1>2, <1>3, <1>4, <1>5, <1>6 DEF PoolSound
  <1> HIDE DEF none, new, u
  <1> QED BY <1>1, <1>7, PoolOf

(* Pool and candidate list are of one size, so that the caps of the one are
   the caps of the other. *)
LEMMA AlikeCount ==
  ASSUME NEW c \in SUBSET Works, NEW a, Alike(c, a)
  PROVE  Cardinality(c) = Cardinality(a) /\ IsFiniteSet(c) /\ IsFiniteSet(a)
  <1> DEFINE f == [w \in c |-> Key(w)]
  <1>1. IsFiniteSet(c)
    BY WorksAssumption, FS_Subset
  <1>2. f \in [c -> a] /\ (\A k \in a : \E w \in c : f[w] = k) /\ (\A v, w \in c : f[v] = f[w] => v = w)
    BY DEF Alike
  <1> HIDE DEF f
  <1>3. ExistsBijection(c, a)
    BY <1>2 DEF ExistsBijection, Bijection, Injection, Surjection, IsInjective
  <1> QED BY <1>1, <1>3, FS_Bijection

(* Admission charges one share and adds it to both collections. *)
LEMMA AdmitPool ==
  ASSUME NEW s \in Pools, NEW w \in Works, Admissible(s, w)
  PROVE  /\ Admit(s, w) \in Pools
         /\ Takeable(Admit(s, w), w)
  <1> DEFINE x == Key(w)
             u == [s.used EXCEPT ![Pk[w]] = @ + 1]
             c == s.candidates \cup {w}
             a == s.active \cup {x}
  <1>1. IsShares(s) /\ PoolSound(s.candidates, s.active, s.tombs, s.used)
    BY PoolIs
  <1>2. Cardinality(s.candidates) < GlobalCap
    <2>1. Cardinality(s.active) < GlobalCap
      BY DEF Admissible, CapsAllow
    <2> QED BY <1>1, <2>1, AlikeCount DEF PoolSound
  <1>3. Admit(s, w) = [s EXCEPT !.active = a, !.used = u, !.candidates = c]
    <2>1. PICK f1, f2, f3, f4 : s = Shares(f1, f2, f3, f4)
      BY <1>1 DEF IsShares
    <2> QED BY <1>2, <2>1 DEF Admit, Shares
  <1>4. x \in Keys /\ x \notin s.active /\ x \notin ToSet(s.tombs) /\ s.used[Pk[w]] < PkQuota
    BY DEF Admissible, Keys
  <1>5. u \in [Pks -> 0..PkQuota] /\ Charged((s.active \cup ToSet(s.tombs)) \cup {x}, u)
    <2> DEFINE K == s.active \cup ToSet(s.tombs)
    <2>1. K \in SUBSET Keys /\ s.used \in [Pks -> 0..PkQuota] /\ Charged(K, s.used)
      BY <1>1 DEF PoolSound, ToSet
    <2>2. Key(w) \notin K
      BY <1>4
    <2> HIDE DEF K
    <2>3. u \in [Pks -> 0..PkQuota] /\ Charged(K \cup {x}, u)
      BY <1>4, <2>1, <2>2, ChargeOne
    <2> QED BY <2>3 DEF K
  <1>6. a \cup ToSet(s.tombs) = (s.active \cup ToSet(s.tombs)) \cup {x}
    OBVIOUS
  <1>7. Alike(c, a)
    <2>1. \A v \in s.candidates : Key(v) \in s.active
      BY <1>1 DEF PoolSound, Alike
    <2>2. \A v \in s.candidates : Key(v) # x
      BY <1>4, <2>1
    <2>3. a = {Key(v) : v \in c}
      BY <1>1 DEF PoolSound, Alike
    <2>4. \A v, z \in c : Key(v) = Key(z) => v = z
      BY <1>1, <2>2 DEF PoolSound, Alike
    <2> QED BY <2>3, <2>4 DEF Alike
  <1>8. w \in c /\ x \in a
    OBVIOUS
  <1>9. c \in SUBSET Works /\ a \in SUBSET Keys /\ a \cap ToSet(s.tombs) = {}
    BY <1>1, <1>4 DEF PoolSound
  <1> HIDE DEF u, c, a
  <1>10. PoolSound(c, a, s.tombs, u)
    BY <1>1, <1>5, <1>6, <1>7, <1>9 DEF PoolSound
  <1>11. Admit(s, w) = Shares(c, a, s.tombs, u)
    <2>1. PICK f1, f2, f3, f4 : s = Shares(f1, f2, f3, f4)
      BY <1>1 DEF IsShares
    <2> QED BY <1>3, <2>1 DEF Shares
  <1>12. Shares(c, a, s.tombs, u) \in Pools
    BY <1>10, PoolOf
  <1>13. Admit(s, w).candidates = c /\ Admit(s, w).active = a
    BY <1>11 DEF Shares
  <1> QED BY <1>8, <1>11, <1>12, <1>13 DEF Takeable

(* A share leaves both collections and is reserved. *)
LEMMA ReservePool ==
  ASSUME NEW s \in Pools, NEW w \in s.candidates
  PROVE  /\ [Reserve(s, w) EXCEPT !.candidates = @ \ {w}] \in Pools
         /\ Key(w) \in s.active
  <1> DEFINE x == Key(w)
             t == InsertTomb(s.tombs, x)
             c == s.candidates \ {w}
             a == s.active \ {x}
             r == [Reserve(s, w) EXCEPT !.candidates = @ \ {w}]
  <1>1. IsShares(s) /\ PoolSound(s.candidates, s.active, s.tombs, s.used)
    BY PoolIs
  <1>2. w \in Works /\ x \in Keys /\ x \in s.active /\ x \notin ToSet(s.tombs)
    BY <1>1 DEF PoolSound, Alike, Keys
  <1>3. /\ t \in Seq(Keys) /\ Distinct(t) /\ x \in ToSet(t) /\ ToSet(t) \subseteq ToSet(s.tombs) \cup {x}
        /\ TombCap >= Cardinality(Keys) => ToSet(t) = ToSet(s.tombs) \cup {x}
    <2> HIDE DEF x
    <2> QED BY <1>1, <1>2, InsertedOnce DEF PoolSound
  <1>4. r = [s EXCEPT !.active = a, !.tombs = t, !.candidates = c]
    <2>1. PICK f1, f2, f3, f4 : s = Shares(f1, f2, f3, f4)
      BY <1>1 DEF IsShares
    <2> QED BY <2>1 DEF Reserve, Shares
  <1> HIDE DEF t, r
  <1>5. Alike(c, a)
    <2>1. a = {Key(v) : v \in c}
      BY <1>1 DEF PoolSound, Alike
    <2> QED BY <1>1, <2>1 DEF PoolSound, Alike
  <1>6. c \in SUBSET Works /\ a \in SUBSET Keys /\ a \cap ToSet(t) = {}
    BY <1>1, <1>3 DEF PoolSound
  <1>7. Charged(a \cup ToSet(t), s.used)
    <2> DEFINE K == s.active \cup ToSet(s.tombs)
               L == a \cup ToSet(t)
    <2>1. K \in SUBSET Keys /\ s.used \in [Pks -> 0..PkQuota] /\ Charged(K, s.used)
      BY <1>1 DEF PoolSound, ToSet
    <2>2. L \in SUBSET K /\ (TombCap >= Cardinality(Keys) => L = K)
      BY <1>2, <1>3
    <2> HIDE DEF K, L
    <2>3. Charged(L, s.used)
      BY <2>1, <2>2, ChargeKept
    <2> QED BY <2>3 DEF L
  <1> HIDE DEF c, a
  <1>8. PoolSound(c, a, t, s.used)
    BY <1>1, <1>3, <1>5, <1>6, <1>7 DEF PoolSound
  <1>9. r = Shares(c, a, t, s.used)
    <2>1. PICK f1, f2, f3, f4 : s = Shares(f1, f2, f3, f4)
      BY <1>1 DEF IsShares
    <2> QED BY <1>4, <2>1 DEF Shares
  <1>10. r \in Pools
    BY <1>8, <1>9, PoolOf
  <1> QED BY <1>2, <1>10 DEF r

LEMMA QuarantinePool ==
  ASSUME NEW s \in Pools, NEW w
  PROVE  Quarantine(s, w) \in Pools
  <1>1. CASE w \notin s.candidates
    BY <1>1 DEF Quarantine
  <1>2. CASE w \in s.candidates
    <2>1. [Reserve(s, w) EXCEPT !.candidates = @ \ {w}] \in Pools /\ Key(w) \in s.active
      BY <1>2, ReservePool
    <2> QED BY <1>2, <2>1 DEF Quarantine
  <1> QED BY <1>1, <1>2

LEMMA TakePool ==
  ASSUME NEW s \in Pools, NEW w, Takeable(s, w)
  PROVE  Take(s, w) \in Pools
  <1>1. w \in s.candidates
    BY DEF Takeable
  <1>2. [Reserve(s, w) EXCEPT !.candidates = @ \ {w}] \in Pools
    BY <1>1, ReservePool
  <1> QED BY <1>2 DEF Take, Takeable

(* A reservation becomes a candidate again at no charge. *)
LEMMA RestorePool ==
  ASSUME NEW s \in Pools, NEW w \in Works, NEW same, Restorable(s, w, same)
  PROVE  Restore(s, w) \in Pools
  <1> DEFINE x == Key(w)
             t == RemoveTomb(s.tombs, x)
             c == s.candidates \cup {w}
             a == s.active \cup {x}
             r == Restore(s, w)
  <1>1. IsShares(s) /\ PoolSound(s.candidates, s.active, s.tombs, s.used)
    BY PoolIs
  <1>2. x \in Keys /\ x \notin s.active /\ x \in ToSet(s.tombs)
    BY DEF Restorable, Keys
  <1>3. t \in Seq(Keys) /\ Distinct(t) /\ ToSet(t) = ToSet(s.tombs) \ {x}
    <2> HIDE DEF x
    <2> QED BY <1>1, <1>2, RemovedOnce DEF PoolSound
  <1>4. r = [s EXCEPT !.tombs = t, !.active = a, !.candidates = c]
    <2>1. PICK f1, f2, f3, f4 : s = Shares(f1, f2, f3, f4)
      BY <1>1 DEF IsShares
    <2> QED BY <2>1 DEF Restore, Shares
  <1> HIDE DEF t, r
  <1>5. Alike(c, a)
    <2>1. \A v \in s.candidates : Key(v) \in s.active
      BY <1>1 DEF PoolSound, Alike
    <2>2. \A v \in s.candidates : Key(v) # x
      BY <1>2, <2>1
    <2>3. a = {Key(v) : v \in c}
      BY <1>1 DEF PoolSound, Alike
    <2>4. \A v, z \in c : Key(v) = Key(z) => v = z
      BY <1>1, <2>2 DEF PoolSound, Alike
    <2> QED BY <2>3, <2>4 DEF Alike
  <1>6. c \in SUBSET Works /\ a \in SUBSET Keys /\ a \cap ToSet(t) = {}
    BY <1>1, <1>2, <1>3 DEF PoolSound
  <1>7. Charged(a \cup ToSet(t), s.used)
    <2>1. a \cup ToSet(t) = s.active \cup ToSet(s.tombs)
      BY <1>2, <1>3
    <2> QED BY <1>1, <2>1 DEF PoolSound
  <1> HIDE DEF c, a
  <1>8. PoolSound(c, a, t, s.used)
    BY <1>1, <1>3, <1>5, <1>6, <1>7 DEF PoolSound
  <1>9. r = Shares(c, a, t, s.used)
    <2>1. PICK f1, f2, f3, f4 : s = Shares(f1, f2, f3, f4)
      BY <1>1 DEF IsShares
    <2> QED BY <1>4, <2>1 DEF Shares
  <1>10. r \in Pools
    BY <1>8, <1>9, PoolOf
  <1> QED BY <1>10 DEF r

(* A reservation of this head is forgotten and its charge refunded. *)
LEMMA ReleasePool ==
  ASSUME NEW s \in Pools, NEW w \in Works, Key(w) \in ToSet(s.tombs)
  PROVE  Release(s, w, TRUE) \in Pools
  <1> DEFINE x == Key(w)
             t == RemoveTomb(s.tombs, x)
             u == [s.used EXCEPT ![Pk[w]] = IF @ > 0 THEN @ - 1 ELSE 0]
             r == Release(s, w, TRUE)
  <1>1. IsShares(s) /\ PoolSound(s.candidates, s.active, s.tombs, s.used)
    BY PoolIs
  <1>2. x \in Keys /\ x \notin s.active /\ x \in ToSet(s.tombs)
    BY <1>1 DEF PoolSound, Keys
  <1>3. t \in Seq(Keys) /\ Distinct(t) /\ ToSet(t) = ToSet(s.tombs) \ {x}
    <2> HIDE DEF x
    <2> QED BY <1>1, <1>2, RemovedOnce DEF PoolSound
  <1>4. r = [s EXCEPT !.tombs = t, !.used = u]
    <2>1. PICK f1, f2, f3, f4 : s = Shares(f1, f2, f3, f4)
      BY <1>1 DEF IsShares
    <2> QED BY <2>1 DEF Release, Refund, Shares
  <1>5. u \in [Pks -> 0..PkQuota] /\ Charged((s.active \cup ToSet(s.tombs)) \ {x}, u)
    <2> DEFINE K == s.active \cup ToSet(s.tombs)
    <2>1. K \in SUBSET Keys /\ s.used \in [Pks -> 0..PkQuota] /\ Charged(K, s.used)
      BY <1>1 DEF PoolSound, ToSet
    <2>2. Key(w) \in K
      BY <1>2
    <2> HIDE DEF K
    <2>3. u \in [Pks -> 0..PkQuota] /\ Charged(K \ {x}, u)
      BY <2>1, <2>2, RefundOne
    <2> QED BY <2>3 DEF K
  <1> HIDE DEF t, u, r
  <1>6. (s.active \cup ToSet(s.tombs)) \ {x} = s.active \cup ToSet(t)
    BY <1>2, <1>3
  <1>7. s.active \cap ToSet(t) = {}
    BY <1>1, <1>3 DEF PoolSound
  <1>8. PoolSound(s.candidates, s.active, t, u)
    BY <1>1, <1>3, <1>5, <1>6, <1>7 DEF PoolSound
  <1>9. r = Shares(s.candidates, s.active, t, u)
    <2>1. PICK f1, f2, f3, f4 : s = Shares(f1, f2, f3, f4)
      BY <1>1 DEF IsShares
    <2> QED BY <1>4, <2>1 DEF Shares
  <1>10. r \in Pools
    BY <1>8, <1>9, PoolOf
  <1> QED BY <1>10 DEF r

-----------------------------------------------------------------------------
(* Files and memory, typed. *)

BoundedChains == {c \in Sequence : Len(c) <= MaxHeight}

Phases == {"none", "block_reward", "reorg_reward", "proof_dedup", "bounty_projection"}

FileRecords ==
    [blocks : BoundedChains, rewards : BoundedChains, rows : BoundedChains, dedup : SUBSET Proofs,
     nonces : SUBSET NonceKeys, receipts : SUBSET NonceKeys, ckpt : BoundedChains,
     sessions : [Pks -> SessionStates], made : SUBSET (NonceKeys \X BoundedChains)]

MemoryRecords ==
    [chain : BoundedChains, shares : Pools, dedup : SUBSET Proofs, nonces : SUBSET NonceKeys,
     sessions : [Pks -> SessionStates], ckpt : BoundedChains, poison : Phases, authority : BOOLEAN]

WriteRecords == [disk : FileRecords, during : MemoryRecords, rewrite : BOOLEAN]

OutcomeRecords == [disk : FileRecords, node : MemoryRecords, end : {"done", "crash", "error"}]

(* What a job brings back into its second phase. *)
JobTyped(j) ==
    /\ j.attached \in BOOLEAN
    /\ j.lane = "http" => j.nonce \in Nonces \cup {NoNonce} /\ Len(j.anchor) < MaxHeight
    /\ j.lane \in {"block", "chain"} => j.item \in BoundedChains

(* The second inductive invariant, on top of the first. *)
TInv ==
    /\ disk \in FileRecords
    /\ node \in MemoryRecords
    /\ \A j \in jobs : JobTyped(j)

LEMMA BoundedEmpty == <<>> \in BoundedChains
  BY EmptyChain, LimitsAssumption DEF BoundedChains

LEMMA BoundedSurviving ==
  ASSUME NEW k \in BoundedChains, NEW c \in BoundedChains
  PROVE  SurvivingCkpt(k, c) \in BoundedChains
  <1>1. k \in Sequence /\ c \in Sequence
    BY DEF BoundedChains
  <1>2. SurvivingCkpt(k, c) \in {k, <<>>}
    BY <1>1, Surviving
  <1> QED BY <1>2, BoundedEmpty

LEMMA CreditedProofs ==
  ASSUME NEW c \in Sequence
  PROVE  Credited(c) \in SUBSET Proofs
  BY DEF Credited, ProofsOf, Proofs, Sequence

LEMMA HaltedTyped == Halted \in MemoryRecords
  <1>1. Credited(<<>>) \in SUBSET Proofs
    BY EmptyChain, CreditedProofs
  <1>2. [pk \in Pks |-> "none"] \in [Pks -> SessionStates]
    BY DEF SessionStates
  <1> QED BY <1>1, <1>2, HaltedIs, EmptyPool, BoundedEmpty DEF Memory, MemoryRecords, Phases

LEMMA BootedTyped ==
  ASSUME NEW d \in FileRecords
  PROVE  Booted(d) \in MemoryRecords
  <1>1. /\ d.blocks \in BoundedChains /\ d.ckpt \in BoundedChains /\ d.nonces \in SUBSET NonceKeys
        /\ d.sessions \in [Pks -> SessionStates]
    BY DEF FileRecords
  <1>2. SurvivingCkpt(d.ckpt, d.blocks) \in BoundedChains
    BY <1>1, BoundedSurviving
  <1>3. Credited(d.blocks) \in SUBSET Proofs
    BY <1>1, CreditedProofs DEF BoundedChains
  <1> QED BY <1>1, <1>2, <1>3, EmptyPool DEF Booted, MemoryRecords, Phases

LEMMA WriteTyped ==
  ASSUME NEW d \in FileRecords, NEW n \in MemoryRecords, NEW phase \in Phases, NEW rewrite \in BOOLEAN
  PROVE  Write(d, n, phase, rewrite) \in WriteRecords
  <1>1. [n EXCEPT !.poison = phase] \in MemoryRecords
    BY DEF MemoryRecords
  <1> QED BY <1>1 DEF Write, WriteRecords

(* Every way a handler can end is typed as its writes are. *)
LEMMA OutcomesTyped ==
  ASSUME NEW start \in FileRecords, NEW writes \in Seq(WriteRecords), NEW done \in MemoryRecords,
         NEW o \in Outcomes(start, writes, done, Halted)
  PROVE  o \in OutcomeRecords
  <1>1. Len(writes) \in Nat /\ DOMAIN writes = 1..Len(writes) /\ \A i \in 1..Len(writes) : writes[i] \in WriteRecords
    OBVIOUS
  <1>2. \A i \in 1..Len(writes) :
           writes[i].disk \in FileRecords /\ writes[i].during \in MemoryRecords
    BY <1>1 DEF WriteRecords
  <1>3. \A i \in 1..Len(writes) + 1 : FilesBefore(start, writes, i) \in FileRecords
    <2> TAKE i \in 1..Len(writes) + 1
    <2>1. CASE i = 1
      BY <2>1 DEF FilesBefore
    <2>2. CASE i # 1
      <3>1. i - 1 \in 1..Len(writes)
        BY <1>1, <2>2
      <3> QED BY <1>2, <2>2, <3>1 DEF FilesBefore
    <2> QED BY <2>1, <2>2
  <1>4. CASE o \in Completed(start, writes, done)
    <2>1. Len(writes) + 1 \in 1..Len(writes) + 1
      BY <1>1
    <2> QED BY <1>3, <1>4, <2>1 DEF Completed, OutcomeRecords
  <1>5. CASE o \in Stopped(start, writes, Halted)
    BY <1>3, <1>5, HaltedTyped DEF Stopped, OutcomeRecords
  <1>6. CASE o \in Failed(start, writes)
    <2>1. PICK i \in 1..Len(writes) :
             \E d \in {FilesBefore(start, writes, i), writes[i].disk},
                n \in {writes[i].during, [writes[i].during EXCEPT !.authority = FALSE]} :
                o = [disk |-> d, node |-> n, end |-> "error"]
      BY <1>1, <1>6 DEF Failed
    <2>2. i \in 1..Len(writes) + 1
      BY <1>1
    <2>3. FilesBefore(start, writes, i) \in FileRecords /\ writes[i].disk \in FileRecords
      BY <1>2, <1>3, <2>2
    <2> DEFINE m == writes[i].during
               fenced == [m EXCEPT !.authority = FALSE]
    <2>4. m \in MemoryRecords
      BY <1>2
    <2> HIDE DEF m
    <2>5. fenced \in MemoryRecords
      BY <2>4 DEF MemoryRecords
    <2>6. \E d \in FileRecords, n \in MemoryRecords : o = [disk |-> d, node |-> n, end |-> "error"]
      BY <2>1, <2>3, <2>4, <2>5 DEF m
    <2> QED BY <2>6 DEF OutcomeRecords
  <1> QED BY <1>4, <1>5, <1>6 DEF Outcomes

-----------------------------------------------------------------------------
(* The handlers, typed. *)

LEMMA BurnTyped ==
  ASSUME NEW w \in Works, NEW nonce \in Nonces \cup {NoNonce}
  PROVE  /\ \A d \in FileRecords : Burn(d, w, nonce) \in FileRecords
         /\ \A n \in MemoryRecords : Burn(n, w, nonce) \in MemoryRecords
  <1>1. CASE nonce = NoNonce
    BY <1>1 DEF Burn
  <1>2. CASE nonce # NoNonce
    <2> DEFINE k == <<Pk[w], nonce>>
    <2>1. k \in NonceKeys
      BY <1>2 DEF NonceKeys, Pks
    <2> HIDE DEF k
    <2>2. \A d \in FileRecords : [d EXCEPT !.nonces = @ \cup {k}] \in FileRecords
      BY <2>1 DEF FileRecords
    <2>3. \A n \in MemoryRecords : [n EXCEPT !.nonces = @ \cup {k}] \in MemoryRecords
      BY <2>1 DEF MemoryRecords
    <2> QED BY <1>2, <2>2, <2>3 DEF Burn, k
  <1> QED BY <1>1, <1>2

LEMMA BurnWritesTyped ==
  ASSUME TInv, NEW w \in Works, NEW nonce \in Nonces \cup {NoNonce}, NEW memory \in MemoryRecords
  PROVE  BurnWrites(w, nonce, memory) \in Seq(WriteRecords)
  <1> DEFINE x == Write(Burn(disk, w, nonce), memory, "none", FALSE)
  <1>1. x \in WriteRecords
    BY BurnTyped, WriteTyped DEF TInv, Phases
  <1> HIDE DEF x
  <1>2. BurnWrites(w, nonce, memory) = IF nonce = NoNonce THEN <<>> ELSE <<x>>
    BY DEF BurnWrites, x
  <1> QED BY <1>1, <1>2

LEMMA OnHeadTyped ==
  ASSUME NEW n \in MemoryRecords, NEW c \in BoundedChains
  PROVE  OnHead(n, c) \in MemoryRecords
  <1> DEFINE e == EmptyShares
  <1>1. e \in Pools
    BY EmptyPool
  <1>2. OnHead(n, c) = [n EXCEPT !.chain = c, !.shares = e]
    BY DEF OnHead
  <1> HIDE DEF e
  <1> QED BY <1>1, <1>2 DEF MemoryRecords

LEMMA ProduceTyped ==
  ASSUME NEW w \in Works, NEW nonce \in Nonces \cup {NoNonce}, NEW start \in FileRecords,
         NEW memory \in MemoryRecords, NEW block \in SUBSET Works, Len(memory.chain) < MaxHeight
  PROVE  /\ ProduceWrites(w, nonce, start, memory, block).writes \in Seq(WriteRecords)
         /\ ProduceWrites(w, nonce, start, memory, block).done \in MemoryRecords
  <1> DEFINE next == Append(memory.chain, block)
             p == ProducerCredits(w, block)
             m == IF nonce = NoNonce THEN start.made ELSE start.made \cup {<<<<Pk[w], nonce>>, next>>}
             stored == [start EXCEPT !.blocks = next, !.made = m]
             rewarded == [stored EXCEPT !.rewards = next]
             credited == [rewarded EXCEPT !.dedup = @ \cup p]
             projected == [credited EXCEPT !.rows = next]
             K == {<<Pk[w], nonce>>}
             receipt == [projected EXCEPT !.receipts = @ \cup K]
             applied == OnHead(memory, next)
             recorded == [applied EXCEPT !.dedup = @ \cup p]
             w1 == Write(stored, memory, "block_reward", FALSE)
             w2 == Write(rewarded, memory, "block_reward", FALSE)
             w3 == Write(credited, applied, "proof_dedup", FALSE)
             w4 == Write(projected, recorded, "bounty_projection", FALSE)
             w5 == Write(receipt, recorded, "none", FALSE)
             paid == nonce # NoNonce /\ \E v \in block : Pk[v] = Pk[w]
             out == ProduceWrites(w, nonce, start, memory, block)
  <1>1. next \in BoundedChains
    <2>1. memory.chain \in Sequence
      BY DEF MemoryRecords, BoundedChains
    <2>2. next \in Sequence /\ Len(next) = Len(memory.chain) + 1
      BY <2>1, AppendExtends
    <2>3. Len(memory.chain) \in Nat /\ MaxHeight \in Nat
      BY <2>1, LimitsAssumption DEF Sequence
    <2> HIDE DEF next
    <2> QED BY <2>2, <2>3 DEF BoundedChains
  <1>2. out = [writes |-> <<w1, w2, w3, w4>> \o (IF paid THEN <<w5>> ELSE <<>>), done |-> recorded]
    <2>1. [start EXCEPT !.blocks = next,
                        !.made = IF nonce = NoNonce THEN @ ELSE @ \cup {<<<<Pk[w], nonce>>, next>>}] = stored
      OBVIOUS
    <2> QED BY <2>1 DEF ProduceWrites
  <1>3. p \in SUBSET Proofs
    BY DEF ProducerCredits, Proofs
  <1>4. nonce # NoNonce => K \in SUBSET NonceKeys
    BY DEF NonceKeys, Pks
  <1>5. m \in SUBSET (NonceKeys \X BoundedChains)
    <2>1. start.made \in SUBSET (NonceKeys \X BoundedChains)
      BY DEF FileRecords
    <2> HIDE DEF next
    <2> QED BY <1>1, <1>4, <2>1
  <1> HIDE DEF next, p, m, K, out
  <1>6. stored \in FileRecords
    BY <1>1, <1>5 DEF FileRecords
  <1> HIDE DEF stored
  <1>7. rewarded \in FileRecords
    BY <1>1, <1>6 DEF FileRecords
  <1> HIDE DEF rewarded
  <1>8. credited \in FileRecords
    BY <1>3, <1>7 DEF FileRecords
  <1> HIDE DEF credited
  <1>9. projected \in FileRecords
    BY <1>1, <1>8 DEF FileRecords
  <1> HIDE DEF projected
  <1>10. nonce # NoNonce => receipt \in FileRecords
    BY <1>4, <1>9 DEF FileRecords
  <1>11. applied \in MemoryRecords
    BY <1>1, OnHeadTyped
  <1> HIDE DEF receipt, applied
  <1>12. recorded \in MemoryRecords
    BY <1>3, <1>11 DEF MemoryRecords
  <1> HIDE DEF recorded
  <1>13. /\ w1 \in WriteRecords /\ w2 \in WriteRecords /\ w3 \in WriteRecords /\ w4 \in WriteRecords
         /\ paid => w5 \in WriteRecords
    BY <1>6, <1>7, <1>8, <1>9, <1>10, <1>11, <1>12, WriteTyped DEF Phases
  <1> HIDE DEF w1, w2, w3, w4, w5, paid
  <1>14. <<w1, w2, w3, w4>> \in Seq(WriteRecords) /\ (IF paid THEN <<w5>> ELSE <<>>) \in Seq(WriteRecords)
    BY <1>13
  <1>15. <<w1, w2, w3, w4>> \o (IF paid THEN <<w5>> ELSE <<>>) \in Seq(WriteRecords)
    BY <1>14, Joined
  <1>16. out.writes \in Seq(WriteRecords) /\ out.done \in MemoryRecords
    BY <1>2, <1>12, <1>15
  <1> QED BY <1>16 DEF out

LEMMA FinalizeTyped ==
  ASSUME TInv, NEW w \in Works, NEW nonce \in Nonces \cup {NoNonce}, NEW shares \in Pools,
         Len(node.chain) < MaxHeight, NEW o \in Finalize(w, nonce, shares)
  PROVE  o \in OutcomeRecords
  <1> DEFINE before == [node EXCEPT !.shares = shares]
             memory == Burn(before, w, nonce)
             burn == BurnWrites(w, nonce, before)
             burnt == Burn(disk, w, nonce)
             block == Selection(shares.candidates, Tag[w], node.chain)
             produce == ProduceWrites(w, nonce, burnt, memory, block)
  <1>1. disk \in FileRecords /\ node \in MemoryRecords
    BY DEF TInv
  <1>2. before \in MemoryRecords /\ before.chain = node.chain
    BY <1>1 DEF MemoryRecords
  <1>3. memory \in MemoryRecords /\ memory.chain = node.chain
    <2> HIDE DEF before
    <2>1. memory \in MemoryRecords
      BY <1>2, BurnTyped
    <2>2. memory.chain = before.chain
      BY <1>2 DEF Burn, MemoryRecords
    <2> QED BY <1>2, <2>1, <2>2
  <1>4. burnt \in FileRecords
    BY <1>1, BurnTyped
  <1>5. burn \in Seq(WriteRecords)
    <2> HIDE DEF before
    <2> QED BY <1>2, BurnWritesTyped
  <1>6. block \in SUBSET Works
    <2>1. shares.candidates \in SUBSET Works
      BY DEF Pools
    <2> QED BY <2>1, SelectionOfCandidates
  <1>7. \/ o = [disk |-> disk, node |-> before, end |-> "error"]
        \/ o \in Outcomes(disk, burn, memory, Halted)
        \/ o = [disk |-> burnt, node |-> memory, end |-> "error"]
        \/ o \in Outcomes(disk, burn \o produce.writes, produce.done, Halted)
    BY DEF Finalize
  <1> HIDE DEF before, memory, burn, burnt, block
  <1>8. produce.writes \in Seq(WriteRecords) /\ produce.done \in MemoryRecords
    BY <1>3, <1>4, <1>6, ProduceTyped
  <1> HIDE DEF produce
  <1>9. burn \o produce.writes \in Seq(WriteRecords)
    BY <1>5, <1>8, Joined
  <1>10. CASE o \in Outcomes(disk, burn, memory, Halted)
    BY <1>1, <1>3, <1>5, <1>10, OutcomesTyped
  <1>11. CASE o \in Outcomes(disk, burn \o produce.writes, produce.done, Halted)
    <2> DEFINE s == burn \o produce.writes
               done == produce.done
    <2>1. o \in Outcomes(disk, s, done, Halted) /\ s \in Seq(WriteRecords) /\ done \in MemoryRecords
      BY <1>8, <1>9, <1>11
    <2> HIDE DEF s, done
    <2> QED BY <1>1, <2>1, OutcomesTyped
  <1>12. CASE o = [disk |-> disk, node |-> before, end |-> "error"]
    BY <1>1, <1>2, <1>12 DEF OutcomeRecords
  <1>13. CASE o = [disk |-> burnt, node |-> memory, end |-> "error"]
    BY <1>3, <1>4, <1>13 DEF OutcomeRecords
  <1> QED BY <1>7, <1>10, <1>11, <1>12, <1>13

(* The dedup entries of the first n selected shares. *)
LEMMA SelectedProofs ==
  ASSUME NEW block \in SUBSET Works, NEW n \in Int, n <= Len(SetToSeq(block))
  PROVE  {Proof[SetToSeq(block)[i]] : i \in 1..n} \in SUBSET Proofs
  <1> DEFINE s == SetToSeq(block)
  <1>1. s \in Seq(block)
    BY Ordered
  <1> HIDE DEF s
  <1>2. \A i \in 1..n : s[i] \in Works
    BY <1>1 DEF s
  <1> QED BY <1>2 DEF s, Proofs

LEMMA CommitBlockTyped ==
  ASSUME TInv, NEW next \in BoundedChains, Len(next) > 0, NEW reverified \in BOOLEAN,
         NEW o \in CommitBlock(next, reverified)
  PROVE  o \in OutcomeRecords
  <1> DEFINE diverged == SkipDecision(next) = "diverged"
             start == IF diverged THEN [disk EXCEPT !.ckpt = <<>>] ELSE disk
             memory == IF diverged THEN [node EXCEPT !.ckpt = <<>>] ELSE node
             stored == [start EXCEPT !.blocks = next]
             rewarded == [stored EXCEPT !.rewards = next]
             projected == [rewarded EXCEPT !.rows = next]
             selected == SetToSeq(Last(next))
             P(n) == {Proof[selected[i]] : i \in 1..n}
             fc(n) == [projected EXCEPT !.dedup = @ \cup P(n)]
             verified == [fc(Len(selected)) EXCEPT !.ckpt = next]
             applied == OnHead(memory, next)
             mc(n) == [applied EXCEPT !.dedup = @ \cup P(n)]
             recorded == mc(Len(selected))
             w1 == Write(stored, memory, "block_reward", FALSE)
             w2 == Write(rewarded, memory, "block_reward", FALSE)
             w3 == Write(projected, applied, "bounty_projection", FALSE)
             ws == [n \in DOMAIN selected |-> Write(fc(n), mc(n - 1), "proof_dedup", FALSE)]
             w4 == Write(verified, recorded, "none", TRUE)
             check == reverified /\ SkipDecision(next) # "skip"
             s == <<w1, w2, w3>> \o ws \o (IF check THEN <<w4>> ELSE <<>>)
  <1>1. o \in Outcomes(start, s, recorded, Halted)
    BY DEF CommitBlock
  <1>2. disk \in FileRecords /\ node \in MemoryRecords
    BY DEF TInv
  <1>3. start \in FileRecords /\ memory \in MemoryRecords
    <2> DEFINE e == <<>>
    <2>1. e \in BoundedChains
      BY BoundedEmpty
    <2> HIDE DEF e
    <2>2. [disk EXCEPT !.ckpt = e] \in FileRecords /\ [node EXCEPT !.ckpt = e] \in MemoryRecords
      BY <1>2, <2>1 DEF FileRecords, MemoryRecords
    <2> HIDE DEF diverged
    <2> QED BY <1>2, <2>2 DEF e
  <1>4. Last(next) \in SUBSET Works
    BY DEF BoundedChains, Sequence, Last
  <1>5. /\ Len(selected) \in Nat /\ DOMAIN selected = 1..Len(selected)
        /\ \A n \in Int : n <= Len(selected) => P(n) \in SUBSET Proofs
    <2> DEFINE block == Last(next)
    <2>1. block \in SUBSET Works
      BY <1>4
    <2> HIDE DEF block
    <2>2. /\ SetToSeq(block) \in Seq(block) /\ DOMAIN SetToSeq(block) = 1..Len(SetToSeq(block))
          /\ \A n \in Int : n <= Len(SetToSeq(block)) => {Proof[SetToSeq(block)[i]] : i \in 1..n} \in SUBSET Proofs
      BY <2>1, Ordered, SelectedProofs
    <2> QED BY <2>2 DEF block
  <1> HIDE DEF start, memory, selected, P
  <1>6. stored \in FileRecords
    BY <1>3 DEF FileRecords
  <1> HIDE DEF stored
  <1>7. rewarded \in FileRecords
    BY <1>6 DEF FileRecords
  <1> HIDE DEF rewarded
  <1>8. projected \in FileRecords
    BY <1>7 DEF FileRecords
  <1> HIDE DEF projected
  <1>9. applied \in MemoryRecords
    BY <1>3, OnHeadTyped
  <1> HIDE DEF applied
  <1>10. \A n \in Int : n <= Len(selected) => fc(n) \in FileRecords /\ mc(n) \in MemoryRecords
    <2> TAKE n \in Int
    <2> HAVE n <= Len(selected)
    <2>1. P(n) \in SUBSET Proofs
      BY <1>5
    <2> QED BY <1>8, <1>9, <2>1 DEF FileRecords, MemoryRecords
  <1> HIDE DEF fc, mc
  <1>11. recorded \in MemoryRecords /\ fc(Len(selected)) \in FileRecords
    BY <1>5, <1>10
  <1>12. verified \in FileRecords
    BY <1>11 DEF FileRecords
  <1> HIDE DEF recorded, verified
  <1>13. w1 \in WriteRecords /\ w2 \in WriteRecords /\ w3 \in WriteRecords /\ w4 \in WriteRecords
    BY <1>3, <1>6, <1>7, <1>8, <1>9, <1>11, <1>12, WriteTyped DEF Phases
  <1>14. ws \in Seq(WriteRecords)
    <2>1. ASSUME NEW n \in DOMAIN selected
          PROVE  Write(fc(n), mc(n - 1), "proof_dedup", FALSE) \in WriteRecords
      <3>1. n \in Int /\ n <= Len(selected) /\ n - 1 \in Int /\ n - 1 <= Len(selected)
        BY <1>5
      <3>2. fc(n) \in FileRecords /\ mc(n - 1) \in MemoryRecords
        BY <1>10, <3>1
      <3> QED BY <3>2, WriteTyped DEF Phases
    <2>2. ws \in [1..Len(selected) -> WriteRecords]
      BY <1>5, <2>1
    <2> HIDE DEF ws
    <2> QED BY <1>5, <2>2
  <1> HIDE DEF w1, w2, w3, w4, ws, check
  <1>15. <<w1, w2, w3>> \in Seq(WriteRecords) /\ (IF check THEN <<w4>> ELSE <<>>) \in Seq(WriteRecords)
    BY <1>13
  <1>16. s \in Seq(WriteRecords)
    <2> DEFINE a == <<w1, w2, w3>>
               b == a \o ws
               c == IF check THEN <<w4>> ELSE <<>>
    <2>1. a \in Seq(WriteRecords) /\ c \in Seq(WriteRecords)
      BY <1>15
    <2> HIDE DEF a, c
    <2>2. b \in Seq(WriteRecords)
      BY <1>14, <2>1, Joined
    <2> HIDE DEF b
    <2>3. b \o c \in Seq(WriteRecords)
      BY <2>1, <2>2, Joined
    <2> QED BY <2>3 DEF a, b, c
  <1> HIDE DEF s
  <1> QED BY <1>1, <1>3, <1>11, <1>16, OutcomesTyped

LEMMA CommitChainTyped ==
  ASSUME TInv, NEW chain \in BoundedChains, NEW o \in CommitChain(chain)
  PROVE  o \in OutcomeRecords
  <1> DEFINE e == <<>>
             p == Credited(chain)
             stored == [disk EXCEPT !.blocks = chain]
             rewarded == [stored EXCEPT !.rewards = chain]
             credited == [rewarded EXCEPT !.dedup = p]
             projected == [credited EXCEPT !.rows = chain]
             dropped == [projected EXCEPT !.ckpt = e]
             applied == OnHead(node, chain)
             recorded == [applied EXCEPT !.dedup = p]
             done == [recorded EXCEPT !.ckpt = SurvivingCkpt(@, chain)]
             w1 == Write(stored, node, "reorg_reward", TRUE)
             w2 == Write(rewarded, node, "reorg_reward", TRUE)
             w3 == Write(credited, applied, "proof_dedup", TRUE)
             w4 == Write(projected, recorded, "bounty_projection", TRUE)
             w5 == Write(dropped, done, "none", TRUE)
             left == done.ckpt # node.ckpt
             s == <<w1, w2, w3, w4>> \o (IF left THEN <<w5>> ELSE <<>>)
  <1>1. o \in Outcomes(disk, s, done, Halted)
    BY DEF CommitChain
  <1>2. disk \in FileRecords /\ node \in MemoryRecords
    BY DEF TInv
  <1>3. p \in SUBSET Proofs /\ e \in BoundedChains
    BY CreditedProofs, BoundedEmpty DEF BoundedChains
  <1> HIDE DEF p, e
  <1>4. stored \in FileRecords
    BY <1>2 DEF FileRecords
  <1> HIDE DEF stored
  <1>5. rewarded \in FileRecords
    BY <1>4 DEF FileRecords
  <1> HIDE DEF rewarded
  <1>6. credited \in FileRecords
    BY <1>3, <1>5 DEF FileRecords
  <1> HIDE DEF credited
  <1>7. projected \in FileRecords
    BY <1>6 DEF FileRecords
  <1> HIDE DEF projected
  <1>8. dropped \in FileRecords
    BY <1>3, <1>7 DEF FileRecords
  <1> HIDE DEF dropped
  <1>9. applied \in MemoryRecords
    BY <1>2, OnHeadTyped
  <1> HIDE DEF applied
  <1>10. recorded \in MemoryRecords
    BY <1>3, <1>9 DEF MemoryRecords
  <1> HIDE DEF recorded
  <1>11. done \in MemoryRecords
    <2>1. recorded.ckpt \in BoundedChains
      BY <1>10 DEF MemoryRecords
    <2>2. SurvivingCkpt(recorded.ckpt, chain) \in BoundedChains
      BY <2>1, BoundedSurviving
    <2> QED BY <1>10, <2>2 DEF MemoryRecords
  <1> HIDE DEF done
  <1>12. w1 \in WriteRecords /\ w2 \in WriteRecords /\ w3 \in WriteRecords /\ w4 \in WriteRecords /\ w5 \in WriteRecords
    BY <1>2, <1>4, <1>5, <1>6, <1>7, <1>8, <1>9, <1>10, <1>11, WriteTyped DEF Phases
  <1> HIDE DEF w1, w2, w3, w4, w5, left
  <1>13. <<w1, w2, w3, w4>> \in Seq(WriteRecords) /\ (IF left THEN <<w5>> ELSE <<>>) \in Seq(WriteRecords)
    BY <1>12
  <1>14. s \in Seq(WriteRecords)
    BY <1>13, Joined
  <1> HIDE DEF s
  <1> QED BY <1>1, <1>2, <1>11, <1>14, OutcomesTyped

LEMMA SessionTyped ==
  ASSUME TInv, NEW pk \in Pks, NEW state \in SessionStates, NEW o \in SessionEvent(pk, state)
  PROVE  o \in OutcomeRecords
  <1> DEFINE files == [disk EXCEPT !.sessions[pk] = state]
             done == [node EXCEPT !.sessions[pk] = state]
             w == Write(files, node, node.poison, FALSE)
             s == <<w>>
  <1>1. o \in Outcomes(disk, s, done, Halted)
    BY DEF SessionEvent
  <1>2. disk \in FileRecords /\ node \in MemoryRecords
    BY DEF TInv
  <1>3. files \in FileRecords
    BY <1>2 DEF FileRecords
  <1>4. done \in MemoryRecords /\ node.poison \in Phases
    BY <1>2 DEF MemoryRecords
  <1> HIDE DEF files, done
  <1>5. w \in WriteRecords
    BY <1>2, <1>3, <1>4, WriteTyped
  <1> HIDE DEF w
  <1>6. s \in Seq(WriteRecords)
    BY <1>5
  <1> HIDE DEF s
  <1> QED BY <1>1, <1>2, <1>4, <1>6, OutcomesTyped

LEMMA BootTyped ==
  ASSUME TInv, NEW o \in Completed(disk, BootWrites, Booted(disk)) \cup Stopped(disk, BootWrites, Halted)
  PROVE  o \in OutcomeRecords
  <1> DEFINE b == disk.blocks
             p == Credited(b)
             projected == [disk EXCEPT !.rows = b]
             rewarded == [projected EXCEPT !.rewards = b]
             checked == [rewarded EXCEPT !.ckpt = SurvivingCkpt(@, b)]
             credited == [checked EXCEPT !.dedup = p]
             w1 == Write(projected, Halted, "none", TRUE)
             w2 == Write(rewarded, Halted, "none", TRUE)
             w3 == Write(checked, Halted, "none", TRUE)
             w4 == Write(credited, Halted, "none", TRUE)
             s == <<w1, w2, w3, w4>>
             done == Booted(disk)
  <1>1. o \in Outcomes(disk, s, done, Halted)
    BY DEF BootWrites, Outcomes
  <1>2. disk \in FileRecords
    BY DEF TInv
  <1>3. b \in BoundedChains
    BY <1>2 DEF FileRecords
  <1> HIDE DEF b
  <1>4. p \in SUBSET Proofs
    BY <1>3, CreditedProofs DEF BoundedChains
  <1> HIDE DEF p
  <1>5. projected \in FileRecords
    BY <1>2, <1>3 DEF FileRecords
  <1> HIDE DEF projected
  <1>6. rewarded \in FileRecords
    BY <1>3, <1>5 DEF FileRecords
  <1> HIDE DEF rewarded
  <1>7. checked \in FileRecords
    <2>1. rewarded.ckpt \in BoundedChains
      BY <1>6 DEF FileRecords
    <2>2. SurvivingCkpt(rewarded.ckpt, b) \in BoundedChains
      BY <1>3, <2>1, BoundedSurviving
    <2> QED BY <1>6, <2>2 DEF FileRecords
  <1> HIDE DEF checked
  <1>8. credited \in FileRecords
    BY <1>4, <1>7 DEF FileRecords
  <1> HIDE DEF credited
  <1>9. w1 \in WriteRecords /\ w2 \in WriteRecords /\ w3 \in WriteRecords /\ w4 \in WriteRecords
    BY <1>5, <1>6, <1>7, <1>8, HaltedTyped, WriteTyped DEF Phases
  <1> HIDE DEF w1, w2, w3, w4
  <1>10. s \in Seq(WriteRecords)
    BY <1>9
  <1>11. done \in MemoryRecords
    BY <1>2, BootedTyped
  <1> HIDE DEF s, done
  <1> QED BY <1>1, <1>2, <1>10, <1>11, OutcomesTyped

-----------------------------------------------------------------------------
(* The steps, typed. *)

LEMMA LeavesTyped ==
  ASSUME TInv, NEW shares \in Pools, NEW left \in SUBSET jobs, NEW held, Leaves(shares, left, held)
  PROVE  TInv'
  <1>1. node' = [node EXCEPT !.shares = shares] /\ jobs' = left /\ disk' = disk
    BY DEF Leaves
  <1>2. node' \in MemoryRecords
    BY <1>1 DEF TInv, MemoryRecords
  <1> QED BY <1>1, <1>2 DEF TInv

LEMMA LeavesJobTyped ==
  ASSUME TInv, NEW shares \in Pools, NEW j, JobTyped(j), NEW held, Leaves(shares, jobs \cup {j}, held)
  PROVE  TInv'
  <1>1. node' = [node EXCEPT !.shares = shares] /\ jobs' = jobs \cup {j} /\ disk' = disk
    BY DEF Leaves
  <1>2. node' \in MemoryRecords
    BY <1>1 DEF TInv, MemoryRecords
  <1>3. \A i \in jobs \cup {j} : JobTyped(i)
    BY DEF TInv
  <1> QED BY <1>1, <1>2, <1>3 DEF TInv

LEMMA EndsTyped ==
  ASSUME TInv, NEW o \in OutcomeRecords, NEW left \in SUBSET jobs, NEW held, EndsWith(o, left, held)
  PROVE  TInv'
  <1>1. disk' = o.disk /\ node' = o.node /\ jobs' \in {left, {}}
    BY DEF EndsWith
  <1>2. o.disk \in FileRecords /\ o.node \in MemoryRecords
    BY DEF OutcomeRecords
  <1> QED BY <1>1, <1>2 DEF TInv

LEMMA ReserveTyped ==
  ASSUME TInv, NEW w \in Works, NEW nonce, NEW lane \in {"http", "share"}, Admissible(node.shares, w),
         lane = "http" => nonce \in Nonces \cup {NoNonce} /\ Len(node.chain) < MaxHeight,
         ReserveAndCheck(lane, w, nonce)
  PROVE  TInv'
  <1> DEFINE a == Admitted(w)
             t == Take(a, w)
  <1>1. node.shares \in Pools
    BY DEF TInv, MemoryRecords
  <1>2. a \in Pools /\ Takeable(a, w)
    BY <1>1, AdmitPool DEF Admitted
  <1>3. PICK j : j = Job(lane, w, nonce)
    OBVIOUS
  <1>4. Leaves(t, jobs \cup {j}, TRUE)
    BY <1>2, <1>3 DEF ReserveAndCheck
  <1> HIDE DEF a
  <1>5. t \in Pools
    BY <1>2, TakePool
  <1>6. j.lane = lane /\ j.nonce = nonce /\ j.anchor = node.chain /\ j.attached = TRUE
    BY <1>3 DEF Job
  <1>7. JobTyped(j)
    BY <1>6 DEF JobTyped
  <1> HIDE DEF t
  <1> QED BY <1>4, <1>5, <1>7, LeavesJobTyped

LEMMA SubmitTyped ==
  ASSUME TInv, NEW w \in Works, NEW nonce \in Nonces \cup {NoNonce},
         SubmitDuplicate(w, nonce) \/ SubmitReserve(w, nonce) \/ SubmitUnchecked(w, nonce)
  PROVE  TInv'
  <1> DEFINE a == Admitted(w)
  <1>1. Admissible(node.shares, w) /\ Len(node.chain) < MaxHeight
    BY DEF SubmitDuplicate, SubmitReserve, SubmitUnchecked, SubmitAllowed
  <1>2. node.shares \in Pools
    BY DEF TInv, MemoryRecords
  <1>3. a \in Pools
    BY <1>1, <1>2, AdmitPool DEF Admitted
  <1> HIDE DEF a
  <1>4. CASE SubmitDuplicate(w, nonce)
    <2> DEFINE t == Quarantine(a, w)
    <2>1. t \in Pools
      BY <1>3, QuarantinePool
    <2>2. Leaves(t, jobs, busy) /\ jobs \in SUBSET jobs
      BY <1>4 DEF SubmitDuplicate, a
    <2> HIDE DEF t
    <2> QED BY <2>1, <2>2, LeavesTyped
  <1>5. CASE SubmitReserve(w, nonce)
    <2> DEFINE lane == "http"
    <2>1. ReserveAndCheck(lane, w, nonce) /\ lane \in {"http", "share"}
      BY <1>5 DEF SubmitReserve
    <2> HIDE DEF lane
    <2> QED BY <1>1, <2>1, ReserveTyped
  <1>6. CASE SubmitUnchecked(w, nonce)
    <2>1. PICK o \in Finalize(w, nonce, a) : EndsWith(o, jobs, busy)
      BY <1>6 DEF SubmitUnchecked, a
    <2>2. o \in OutcomeRecords
      BY <1>1, <1>3, <2>1, FinalizeTyped
    <2>3. jobs \in SUBSET jobs
      OBVIOUS
    <2> QED BY <2>1, <2>2, <2>3, EndsTyped
  <1> QED BY <1>4, <1>5, <1>6

LEMMA PeerShareTyped ==
  ASSUME TInv, NEW w \in Works, PeerShare(w)
  PROVE  TInv'
  <1> DEFINE a == Admitted(w)
             q == Quarantine(a, w)
  <1>1. Admissible(node.shares, w)
    BY DEF PeerShare
  <1>2. node.shares \in Pools /\ jobs \in SUBSET jobs
    BY DEF TInv, MemoryRecords
  <1>3. a \in Pools
    BY <1>1, <1>2, AdmitPool DEF Admitted
  <1>4. q \in Pools
    <2> HIDE DEF a
    <2> QED BY <1>3, QuarantinePool
  <1>5. CASE Proof[w] \in node.dedup
    <2>1. Leaves(q, jobs, busy)
      BY <1>5 DEF PeerShare
    <2> HIDE DEF q
    <2> QED BY <1>2, <1>4, <2>1, LeavesTyped
  <1>6. CASE Proof[w] \notin node.dedup /\ checker
    <2> DEFINE lane == "share"
    <2>1. ReserveAndCheck(lane, w, NoNonce) /\ lane \in {"http", "share"} /\ lane # "http"
      BY <1>6 DEF PeerShare
    <2> HIDE DEF lane
    <2> QED BY <1>1, <2>1, ReserveTyped
  <1>7. CASE Proof[w] \notin node.dedup /\ ~ checker
    <2>1. Leaves(a, jobs, busy)
      BY <1>7 DEF PeerShare
    <2> HIDE DEF a
    <2> QED BY <1>2, <1>3, <2>1, LeavesTyped
  <1> QED BY <1>5, <1>6, <1>7

(* The share of a job is still reserved on the head it was taken from. *)
LEMMA ReleasedTyped ==
  ASSUME IInv, TInv, NEW j \in jobs, j.lane \in {"http", "share"}
  PROVE  /\ j.item \in Works
         /\ j.anchor = node.chain
         /\ Release(node.shares, j.item, j.anchor = node.chain) \in Pools
         /\ CanRestore(j) => Restore(node.shares, j.item) \in Pools
  <1>1. ShareJob(j)
    BY DEF IInv, JobsSound, JobSound
  <1>2. j.item \in Works /\ j.anchor = node.chain /\ Key(j.item) \in ToSet(node.shares.tombs)
    BY <1>1 DEF ShareJob
  <1>3. node.shares \in Pools
    BY DEF TInv, MemoryRecords
  <1>4. Release(node.shares, j.item, TRUE) \in Pools
    BY <1>2, <1>3, ReleasePool
  <1>5. Release(node.shares, j.item, j.anchor = node.chain) = Release(node.shares, j.item, TRUE)
    BY <1>2
  <1>6. ASSUME CanRestore(j) PROVE Restore(node.shares, j.item) \in Pools
    <2> DEFINE same == j.anchor = node.chain
    <2>1. Restorable(node.shares, j.item, same)
      BY <1>6 DEF CanRestore
    <2> HIDE DEF same
    <2> QED BY <1>2, <1>3, <2>1, RestorePool
  <1> QED BY <1>2, <1>4, <1>5, <1>6

LEMMA WithoutShareTyped ==
  ASSUME NEW o \in OutcomeRecords, NEW w
  PROVE  WithoutShare(o, w) \in OutcomeRecords
  <1>1. CASE o.end # "error"
    BY <1>1 DEF WithoutShare
  <1>2. CASE o.end = "error"
    <2> DEFINE q == Quarantine(o.node.shares, w)
               m == [o.node EXCEPT !.shares = q]
    <2>1. o.node \in MemoryRecords
      BY DEF OutcomeRecords
    <2>2. q \in Pools
      BY <2>1, QuarantinePool DEF MemoryRecords
    <2>3. WithoutShare(o, w) = [o EXCEPT !.node = m]
      BY <1>2 DEF WithoutShare
    <2> HIDE DEF q
    <2>4. m \in MemoryRecords
      BY <2>1, <2>2 DEF MemoryRecords
    <2> HIDE DEF m
    <2> QED BY <2>3, <2>4 DEF OutcomeRecords
  <1> QED BY <1>1, <1>2

LEMMA FinishSubmitTyped ==
  ASSUME IInv, TInv, NEW j \in jobs, NEW verdict \in AllVerdicts, FinishSubmit(j, verdict)
  PROVE  TInv'
  <1>1. up /\ j.lane = "http"
    BY DEF FinishSubmit
  <1>2. /\ j.item \in Works /\ j.anchor = node.chain
        /\ Release(node.shares, j.item, j.anchor = node.chain) \in Pools
        /\ CanRestore(j) => Restore(node.shares, j.item) \in Pools
    BY <1>1, ReleasedTyped
  <1>3. node.shares \in Pools /\ jobs \ {j} \in SUBSET jobs
    BY DEF TInv, MemoryRecords
  <1>4. CASE Fate(j, verdict) = "keep"
    <2>1. Leaves(node.shares, jobs \ {j}, FALSE)
      BY <1>4 DEF FinishSubmit
    <2> QED BY <1>3, <2>1, LeavesTyped
  <1>5. CASE Fate(j, verdict) = "release"
    <2> DEFINE t == Release(node.shares, j.item, j.anchor = node.chain)
    <2>1. Leaves(t, jobs \ {j}, FALSE) /\ t \in Pools
      BY <1>2, <1>5 DEF FinishSubmit
    <2> HIDE DEF t
    <2> QED BY <1>3, <2>1, LeavesTyped
  <1>6. CASE Fate(j, verdict) = "finalize"
    <2> DEFINE t == Restore(node.shares, j.item)
    <2>1. CanRestore(j)
      BY <1>1, <1>6 DEF Fate, AllVerdicts, Ready, Healthy
    <2>2. t \in Pools
      BY <1>2, <2>1
    <2>3. PICK o \in Finalize(j.item, j.nonce, t) : EndsWith(WithoutShare(o, j.item), jobs \ {j}, FALSE)
      BY <1>6 DEF FinishSubmit
    <2> HIDE DEF t
    <2>4. j.nonce \in Nonces \cup {NoNonce} /\ Len(node.chain) < MaxHeight
      BY <1>1, <1>2 DEF TInv, JobTyped
    <2>5. o \in OutcomeRecords
      BY <1>2, <2>2, <2>3, <2>4, FinalizeTyped
    <2>6. WithoutShare(o, j.item) \in OutcomeRecords
      BY <2>5, WithoutShareTyped
    <2> QED BY <1>3, <2>3, <2>6, EndsTyped
  <1> QED BY <1>1, <1>4, <1>5, <1>6, FateIs

LEMMA FinishPeerShareTyped ==
  ASSUME IInv, TInv, NEW j \in jobs, NEW verdict \in AllVerdicts, FinishPeerShare(j, verdict)
  PROVE  TInv'
  <1> DEFINE s == node.shares
             r == Release(node.shares, j.item, j.anchor = node.chain)
             t == Restore(node.shares, j.item)
             u == CASE ~ node.authority \/ verdict = "reject" -> s
                    [] node.authority /\ verdict \in {"unavailable", "panic"} -> r
                    [] OTHER ->
                         IF ~ Healthy THEN r
                         ELSE IF Proof[j.item] \in node.dedup THEN s
                         ELSE IF CanRestore(j) THEN t ELSE r
  <1>1. j.lane = "share" /\ Leaves(u, jobs \ {j}, FALSE)
    BY DEF FinishPeerShare
  <1>2. r \in Pools /\ (CanRestore(j) => t \in Pools)
    BY <1>1, ReleasedTyped
  <1>3. s \in Pools /\ jobs \ {j} \in SUBSET jobs
    BY DEF TInv, MemoryRecords
  <1> HIDE DEF s, r, t
  <1>4. u \in {s, r} \/ (u = t /\ CanRestore(j))
    BY DEF AllVerdicts
  <1> HIDE DEF u
  <1>5. u \in Pools
    BY <1>2, <1>3, <1>4
  <1> QED BY <1>1, <1>3, <1>5, LeavesTyped

LEMMA CancelTyped ==
  ASSUME IInv, TInv, NEW j \in jobs, CancelSubmit(j)
  PROVE  TInv'
  <1>1. IsJob(j) /\ JobTyped(j)
    BY DEF IInv, JobsSound, JobSound, TInv
  <1>2. PICK k : k = [j EXCEPT !.attached = FALSE]
    OBVIOUS
  <1>3. k.lane = j.lane /\ k.item = j.item /\ k.nonce = j.nonce /\ k.anchor = j.anchor /\ k.attached = FALSE
    <2>1. PICK f1, f2, f3, f4, f5 : j = [lane |-> f1, item |-> f2, nonce |-> f3, anchor |-> f4, attached |-> f5]
      BY <1>1 DEF IsJob
    <2> QED BY <1>2, <2>1
  <1>4. JobTyped(k)
    BY <1>1, <1>3 DEF JobTyped
  <1>5. jobs' \subseteq jobs \cup {k} /\ node' = node /\ disk' = disk
    BY <1>2 DEF CancelSubmit
  <1> QED BY <1>4, <1>5 DEF TInv

LEMMA BoundedPeerChain ==
  ASSUME NEW chain \in PeerChains
  PROVE  chain \in BoundedChains
  <1>1. PICK n \in 0..MaxHeight : chain \in [1..n -> Blocks]
    BY NodeAssumption DEF Chains
  <1>2. n \in Nat /\ MaxHeight \in Nat /\ n <= MaxHeight
    BY LimitsAssumption
  <1>3. chain \in Sequence
    BY PeerChainIs
  <1>4. Len(chain) = n
    BY <1>1, <1>2
  <1> QED BY <1>2, <1>3, <1>4 DEF BoundedChains

LEMMA AnnouncedLength ==
  ASSUME TInv, NEW next, AnnouncedOk(next)
  PROVE  Len(next) > 0
  <1>1. Len(node.chain) \in Nat
    BY DEF TInv, MemoryRecords, BoundedChains, Sequence
  <1> QED BY <1>1 DEF AnnouncedOk

LEMMA PeerTyped ==
  ASSUME TInv, NEW chain \in PeerChains, PeerBlock(chain) \/ PeerChain(chain)
  PROVE  TInv'
  <1>1. chain \in BoundedChains /\ node.shares \in Pools /\ jobs \in SUBSET jobs
    BY BoundedPeerChain DEF TInv, MemoryRecords
  <1>2. CASE PeerBlock(chain)
    <2>1. CASE checker /\ SkipDecision(chain) # "skip"
      <3>1. PICK j : j = Job("block", chain, NoNonce)
        OBVIOUS
      <3>2. Leaves(node.shares, jobs \cup {j}, TRUE)
        BY <1>2, <2>1, <3>1 DEF PeerBlock
      <3>3. JobTyped(j)
        BY <1>1, <3>1 DEF JobTyped, Job
      <3> QED BY <1>1, <3>2, <3>3, LeavesJobTyped
    <2>2. CASE ~ (checker /\ SkipDecision(chain) # "skip")
      <3>1. PICK o \in CommitBlock(chain, FALSE) : EndsWith(o, jobs, busy)
        BY <1>2, <2>2 DEF PeerBlock
      <3>2. Len(chain) > 0
        BY <1>2, AnnouncedLength DEF PeerBlock
      <3>3. o \in OutcomeRecords
        BY <1>1, <3>1, <3>2, CommitBlockTyped
      <3> QED BY <1>1, <3>1, <3>3, EndsTyped
    <2> QED BY <2>1, <2>2
  <1>3. CASE PeerChain(chain)
    <2>1. CASE checker /\ Unverified(chain) # <<>>
      <3> DEFINE a == Unverified(chain)
      <3>1. PICK i : i = Job("chain", chain, NoNonce)
        OBVIOUS
      <3>2. PICK j : j = [i EXCEPT !.anchor = a]
        OBVIOUS
      <3>3. Leaves(node.shares, jobs \cup {j}, TRUE)
        BY <1>3, <2>1, <3>1, <3>2 DEF PeerChain
      <3>4. j.lane = "chain" /\ j.item = chain /\ j.attached = TRUE
        BY <3>1, <3>2 DEF Job
      <3>5. JobTyped(j)
        BY <1>1, <3>4 DEF JobTyped
      <3> QED BY <1>1, <3>3, <3>5, LeavesJobTyped
    <2>2. CASE ~ (checker /\ Unverified(chain) # <<>>)
      <3>1. PICK o \in CommitChain(chain) : EndsWith(o, jobs, busy)
        BY <1>3, <2>2 DEF PeerChain
      <3>2. o \in OutcomeRecords
        BY <1>1, <3>1, CommitChainTyped
      <3> QED BY <1>1, <3>1, <3>2, EndsTyped
    <2> QED BY <2>1, <2>2
  <1> QED BY <1>2, <1>3

LEMMA FinishPeerTyped ==
  ASSUME TInv, NEW j \in jobs, NEW verdict, FinishPeerBlock(j, verdict) \/ FinishPeerChain(j, verdict)
  PROVE  TInv'
  <1>1. node.shares \in Pools /\ jobs \ {j} \in SUBSET jobs
    BY DEF TInv, MemoryRecords
  <1>2. j.item \in BoundedChains
    BY DEF TInv, JobTyped, FinishPeerBlock, FinishPeerChain
  <1>3. CASE Leaves(node.shares, jobs \ {j}, FALSE)
    BY <1>1, <1>3, LeavesTyped
  <1>4. CASE AnnouncedOk(j.item) /\ \E o \in CommitBlock(j.item, TRUE) : EndsWith(o, jobs \ {j}, FALSE)
    <2>1. PICK o \in CommitBlock(j.item, TRUE) : EndsWith(o, jobs \ {j}, FALSE)
      BY <1>4
    <2>2. Len(j.item) > 0
      BY <1>4, AnnouncedLength
    <2>3. o \in OutcomeRecords
      BY <1>2, <2>1, <2>2, CommitBlockTyped
    <2> QED BY <1>1, <2>1, <2>3, EndsTyped
  <1>5. CASE \E o \in CommitChain(j.item) : EndsWith(o, jobs \ {j}, FALSE)
    <2>1. PICK o \in CommitChain(j.item) : EndsWith(o, jobs \ {j}, FALSE)
      BY <1>5
    <2>2. o \in OutcomeRecords
      BY <1>2, <2>1, CommitChainTyped
    <2> QED BY <1>1, <2>1, <2>2, EndsTyped
  <1> QED BY <1>3, <1>4, <1>5 DEF FinishPeerBlock, FinishPeerChain

LEMMA FinishTyped ==
  ASSUME IInv, TInv, NEW j \in jobs, FinishJob(j)
  PROVE  TInv'
  <1>1. Verdicts({}) \cup {"reject"} \subseteq AllVerdicts
    BY DEF Verdicts, AllVerdicts
  <1>2. CASE OrphanDone(j)
    <2>1. Leaves(node.shares, jobs \ {j}, FALSE) /\ jobs \ {j} \in SUBSET jobs /\ node.shares \in Pools
      BY <1>2 DEF OrphanDone, TInv, MemoryRecords
    <2> QED BY <2>1, LeavesTyped
  <1>3. ASSUME NEW v \in AllVerdicts,
               FinishSubmit(j, v) \/ FinishPeerShare(j, v) \/ FinishPeerBlock(j, v) \/ FinishPeerChain(j, v)
        PROVE  TInv'
    BY <1>3, FinishSubmitTyped, FinishPeerShareTyped, FinishPeerTyped
  <1> QED BY <1>1, <1>2, <1>3 DEF FinishJob

LEMMA SessionsTyped ==
  ASSUME TInv, NEW pk \in Pks, Register(pk) \/ Revoke(pk)
  PROVE  TInv'
  <1>1. PICK state \in SessionStates : \E o \in SessionEvent(pk, state) : EndsWith(o, jobs, busy)
    BY DEF Register, Revoke, SessionStates
  <1>2. PICK o \in SessionEvent(pk, state) : EndsWith(o, jobs, busy)
    BY <1>1
  <1>3. o \in OutcomeRecords /\ jobs \in SUBSET jobs
    BY <1>2, SessionTyped
  <1> QED BY <1>2, <1>3, EndsTyped

LEMMA FaultTyped ==
  ASSUME TInv, LoseAuthority \/ Crash \/ Boot \/ BootFails
  PROVE  TInv'
  <1>1. {} \in SUBSET jobs
    OBVIOUS
  <1>2. CASE LoseAuthority
    <2>1. node' = [node EXCEPT !.authority = FALSE] /\ disk' = disk /\ jobs' = jobs
      BY <1>2 DEF LoseAuthority
    <2>2. node' \in MemoryRecords
      BY <2>1 DEF TInv, MemoryRecords
    <2> QED BY <2>1, <2>2 DEF TInv
  <1>3. CASE Crash
    <2>1. PICK o : o = [disk |-> disk, node |-> Halted, end |-> "crash"]
      OBVIOUS
    <2>2. o \in OutcomeRecords
      BY <2>1, HaltedTyped DEF TInv, OutcomeRecords
    <2>3. EndsWith(o, {}, FALSE)
      BY <1>3, <2>1 DEF Crash
    <2> QED BY <1>1, <2>2, <2>3, EndsTyped
  <1>4. CASE Boot \/ BootFails
    <2>1. PICK o \in Completed(disk, BootWrites, Booted(disk)) \cup Stopped(disk, BootWrites, Halted) :
             EndsWith(o, {}, FALSE)
      BY <1>4 DEF Boot, BootFails
    <2>2. o \in OutcomeRecords
      BY <2>1, BootTyped
    <2> QED BY <1>1, <2>1, <2>2, EndsTyped
  <1> QED BY <1>2, <1>3, <1>4

LEMMA InitTyped ==
  ASSUME Init
  PROVE  TInv
  <1>1. NoFiles \in FileRecords
    <2>1. [pk \in Pks |-> "none"] \in [Pks -> SessionStates]
      BY DEF SessionStates
    <2> QED BY <2>1, BoundedEmpty DEF NoFiles, FileRecords
  <1>2. Booted(NoFiles) \in MemoryRecords
    BY <1>1, BootedTyped
  <1> QED BY <1>1, <1>2 DEF Init, TInv

LEMMA NextTyped ==
  ASSUME IInv, TInv, [Next]_vars
  PROVE  TInv'
  <1>1. CASE Next
    <2>1. ASSUME NEW j \in jobs, FinishJob(j) \/ CancelSubmit(j)
          PROVE  TInv'
      BY <2>1, FinishTyped, CancelTyped
    <2> QED BY <1>1, <2>1, SubmitTyped, PeerShareTyped, PeerTyped, SessionsTyped, FaultTyped DEF Next
  <1>2. CASE UNCHANGED vars
    BY <1>2 DEF vars, TInv
  <1> QED BY <1>1, <1>2

(* What the node keeps has its type, and its shares are kept alike, never
   reserved twice and charged for: the invariant behind SharesSound. *)
THEOREM TypesHold == Spec => []TInv
  <1>1. Init => TInv
    BY InitTyped
  <1>2. IInv /\ TInv /\ [Next]_vars => TInv'
    BY NextTyped
  <1> QED BY <1>1, <1>2, Invariance, PTL DEF Spec

(* The active and the reserved shares of a key are counted apart. *)
LEMMA ChargeCounts ==
  ASSUME TInv, NEW pk \in Pks
  PROVE  LET held == Cardinality(ActiveOf(node.shares, pk))
                     + Cardinality({k \in ToSet(node.shares.tombs) : k[1] = pk})
         IN /\ node.shares.used[pk] >= held
            /\ TombCap >= Cardinality(Keys) => node.shares.used[pk] = held
  <1> DEFINE a == node.shares.active
             t == ToSet(node.shares.tombs)
             A == KnownTo(a, pk)
             T == KnownTo(t, pk)
             u == node.shares.used[pk]
             big == TombCap >= Cardinality(Keys)
  <1>1. PoolSound(node.shares.candidates, node.shares.active, node.shares.tombs, node.shares.used)
    BY PoolIs DEF TInv, MemoryRecords
  <1>2. a \in SUBSET Keys /\ t \in SUBSET Keys /\ a \cap t = {} /\ u \in Nat
    BY <1>1 DEF PoolSound, ToSet
  <1>3. Cardinality(KnownTo(a \cup t, pk)) <= u /\ (big => u = Cardinality(KnownTo(a \cup t, pk)))
    BY <1>1 DEF PoolSound, Charged
  <1>4. ActiveOf(node.shares, pk) = A /\ {k \in t : k[1] = pk} = T
    BY DEF ActiveOf, KnownTo
  <1> HIDE DEF a, t, u, big
  <1>5. KnownTo(a \cup t, pk) = A \cup T /\ A \cap T = {}
    BY <1>2 DEF KnownTo
  <1>6. IsFiniteSet(A) /\ IsFiniteSet(T) /\ Cardinality(A) \in Nat /\ Cardinality(T) \in Nat
    BY <1>2, KnownFinite
  <1> HIDE DEF A, T
  <1>7. Cardinality(A \cup T) = Cardinality(A) + Cardinality(T)
    <2>1. Cardinality(A \cap T) = 0
      BY <1>5, FS_EmptySet
    <2>2. Cardinality(A \cup T) = Cardinality(A) + Cardinality(T) - Cardinality(A \cap T)
      BY <1>6, FS_Union
    <2> QED BY <1>6, <2>1, <2>2
  <1>8. u >= Cardinality(A) + Cardinality(T) /\ (big => u = Cardinality(A) + Cardinality(T))
    BY <1>2, <1>3, <1>5, <1>6, <1>7
  <1> QED BY <1>4, <1>8 DEF t, u, big

(* The shares of a node are of their type, pool and candidate list hold the
   same ones, none is both active and reserved, and every charge stands for
   a share that is: through admission, take_candidate_for_reverify,
   restore_reverified_candidate, release_semantic_reservation and
   quarantine_candidate in any order, and every new head. *)
THEOREM SharesAreSound == Spec => []SharesSound
  <1>1. ASSUME IInv, TInv PROVE TypeOK
    <2>1. /\ up \in BOOLEAN /\ busy \in BOOLEAN /\ checker \in BOOLEAN
          /\ \A j \in jobs : j.lane \in {"http", "share", "block", "chain"} /\ j.attached \in BOOLEAN
      BY <1>1 DEF IInv, JobsSound, JobSound, TInv, JobTyped
    <2>2. /\ node.chain \in BoundedChains /\ node.ckpt \in BoundedChains /\ disk.blocks \in BoundedChains
          /\ disk.rewards \in BoundedChains /\ disk.rows \in BoundedChains /\ disk.ckpt \in BoundedChains
      BY <1>1 DEF TInv, FileRecords, MemoryRecords
    <2>3. \A c \in BoundedChains : Len(c) <= MaxHeight /\ \A h \in DOMAIN c : c[h] \subseteq Works
      BY DEF BoundedChains, Sequence
    <2>4. /\ node.dedup \subseteq Proofs /\ node.nonces \subseteq NonceKeys
          /\ node.sessions \in [Pks -> SessionStates] /\ node.poison \in Phases /\ node.authority \in BOOLEAN
          /\ node.shares \in Pools
      BY <1>1 DEF TInv, MemoryRecords
    <2>5. /\ disk.dedup \subseteq Proofs /\ disk.nonces \cup disk.receipts \subseteq NonceKeys
          /\ disk.sessions \in [Pks -> SessionStates]
          /\ \A made \in disk.made : made[1] \in NonceKeys
      BY <1>1 DEF TInv, FileRecords
    <2>6. /\ node.shares.candidates \subseteq Works /\ node.shares.active \subseteq Keys
          /\ ToSet(node.shares.tombs) \subseteq Keys /\ Len(node.shares.tombs) <= TombCap
          /\ node.shares.used \in [Pks -> 0..PkQuota]
      <3>1. PoolSound(node.shares.candidates, node.shares.active, node.shares.tombs, node.shares.used)
        BY <2>4, PoolIs
      <3> QED BY <3>1 DEF PoolSound, Distinct, ToSet
    <2> QED BY <2>1, <2>2, <2>3, <2>4, <2>5, <2>6 DEF TypeOK, Phases
  <1>2. ASSUME TInv PROVE PoolAgrees
    <2>1. PoolSound(node.shares.candidates, node.shares.active, node.shares.tombs, node.shares.used)
      BY <1>2, PoolIs DEF TInv, MemoryRecords
    <2>2. Cardinality(node.shares.candidates) = Cardinality(node.shares.active)
      BY <2>1, AlikeCount DEF PoolSound
    <2> QED BY <2>1, <2>2 DEF PoolAgrees, PoolSound, Alike
  <1>3. ASSUME TInv PROVE ChargeExact
    BY <1>3, ChargeCounts DEF ChargeExact
  <1>4. IInv /\ TInv => SharesSound
    BY <1>1, <1>2, <1>3 DEF SharesSound
  <1> QED BY <1>4, Invariance, TypesHold, PTL

=============================================================================
