-------------------------- MODULE NativeNode_proofs --------------------------
(***************************************************************************)
(* What the ledger and the durable node on top of it guarantee for every   *)
(* tree of blocks, every set of transfers and every limit.  Three layers:  *)
(*                                                                         *)
(*   - what one block does to a ledger, of the machine of NativeLedger as  *)
(*     of a replay, and so the ledger of a valid chain (ChainSound);       *)
(*   - what a node keeps of a queue: keeping again keeps it all            *)
(*     (KeptAgain), a transfer the chain confirms is skipped wherever it   *)
(*     stands (UnionKept), and a block with all of it is accepted          *)
(*     (QueueMineable).  The folds of NativeNode are reasoned about by     *)
(*     induction over sequences (SeqInduction);                            *)
(*   - the order of the durable writes (IInv) and what each of them leaves *)
(*     behind (NodeInv), where chains and queues are opaque again.         *)
(***************************************************************************)
EXTENDS NativeNode, NativeLedger, FiniteSetTheorems, NaturalsInduction, WellFoundedInduction, TLAPS

-----------------------------------------------------------------------------
(* Folds and sums.  The library's folds are recursive functions; what is     *)
(* needed of them follows by taking a smallest set for which it fails.       *)

\* Every non-empty set of naturals has a least element.
LEMMA LeastNatural ==
    ASSUME NEW T \in SUBSET Nat, T # {}
    PROVE  \E n \in T : \A m \in T : n <= m
  <1>1. PICK x \in T : \A y \in T : ~ (<<y, x>> \in OpToRel(<, Nat))
    BY NatLessThanWellFounded, WFMin
  <1>2. \A y \in T : ~ (y < x)
    BY <1>1 DEF OpToRel
  <1> QED BY <1>2

\* Every non-empty collection of subsets of a finite set has a member from which
\* nothing can be taken.
LEMMA SmallestSet ==
    ASSUME NEW S, IsFiniteSet(S), NEW C \in SUBSET SUBSET S, C # {}
    PROVE  \E s \in C : IsFiniteSet(s) /\ \A x \in s : s \ {x} \notin C
  <1> DEFINE sizes == {Cardinality(s) : s \in C}
  <1>1. \A s \in C : IsFiniteSet(s) /\ Cardinality(s) \in Nat
    BY FS_Subset, FS_CardinalityType
  <1>2. sizes \in SUBSET Nat /\ sizes # {}
    BY <1>1
  <1>3. PICK n \in sizes : \A m \in sizes : n <= m
    BY <1>2, LeastNatural
  <1>4. PICK s \in C : n = Cardinality(s)
    BY <1>3
  <1>5. ASSUME NEW x \in s, s \ {x} \in C PROVE FALSE
    <2>1. Cardinality(s \ {x}) = n - 1
      BY <1>1, <1>4, FS_RemoveElement
    <2>2. Cardinality(s \ {x}) \in sizes
      BY <1>5
    <2>3. n \in Nat
      BY <1>2, <1>3
    <2> HIDE DEF sizes
    <2>4. n <= n - 1
      BY <1>3, <2>1, <2>2
    <2> QED BY <2>3, <2>4
  <1> QED BY <1>1, <1>5

\* The element a fold over a set takes first.
One(s) == CHOOSE x \in s : TRUE

\* One turn of each fold of NativeLedger and of NativeNode, named by op, so that
\* one lemma serves all.
Combine(op, x, acc) ==
    CASE op.fold = "sum"    -> x + acc
      [] op.fold = "unlock" -> UnlockReward(acc, x)
      [] op.fold = "settle" -> SettleOne(acc, op.height, op.reward_pk, x)
      [] op.fold = "replay" -> ApplyBlock(acc, acc.height + 1, x.reward_pk, x.transfers)
      [] op.fold = "next"   -> ApplyBlock(acc, acc.height + 1, op.reward_pk[x],
                                          op.transfers[x])
      [] op.fold = "join"   -> acc \o op.transfers[x]
      [] op.fold = "retain" ->
            IF \/ \E p \in op.index : p[1] = x
               \/ Contains(acc.transfers, x)
               \/ Len(acc.transfers) = op.limit
               \/ PushPending(acc.view, x) = None
            THEN acc
            ELSE [transfers |-> Append(acc.transfers, x), view |-> PushPending(acc.view, x)]
      [] op.fold = "orphan" ->
            IF \/ Len(acc) = op.limit
               \/ \E p \in op.index : p[1] = x
               \/ Contains(op.queue, x) \/ Contains(acc, x)
            THEN acc
            ELSE Append(acc, x)

\* g folds the items f over the subsets of S, taking c[s] first, from b.
Folds(op, S, f, c, b, g) ==
    g = [s \in SUBSET S |->
            IF s = {} THEN b ELSE Combine(op, f[c[s]], g[s \ {c[s]}])]

\* c takes an element of every non-empty subset.
Chooser(S, c) == \A s \in SUBSET S : s # {} => c[s] \in s

\* The recursion is well founded: a function that is right on all sets of n
\* elements gives one that is right on those of n + 1.
LEMMA FoldsExist ==
    ASSUME NEW S, IsFiniteSet(S), NEW op, NEW f, NEW c, Chooser(S, c), NEW b
    PROVE  \E g : Folds(op, S, f, c, b, g)
  <1> DEFINE Step(g) == [s \in SUBSET S |->
                            IF s = {} THEN b ELSE Combine(op, f[c[s]], g[s \ {c[s]}])]
             Right(n) == \E g : \A s \in SUBSET S :
                            Cardinality(s) <= n => g[s] = Step(g)[s]
             Wrong == {n \in Nat : ~ Right(n)}
  <1>1. \A s \in SUBSET S : IsFiniteSet(s) /\ Cardinality(s) \in Nat
    BY FS_Subset, FS_CardinalityType
  <1>2. \A s \in SUBSET S : s # {} => /\ c[s] \in s
                                      /\ s \ {c[s]} \in SUBSET S
                                      /\ Cardinality(s \ {c[s]}) = Cardinality(s) - 1
    BY <1>1, FS_RemoveElement DEF Chooser
  <1>3. Right(0)
    <2>1. \A s \in SUBSET S : Cardinality(s) <= 0 => s = {}
      BY <1>1, FS_EmptySet
    <2>2. \A s \in SUBSET S : Cardinality(s) <= 0 =>
             [t \in SUBSET S |-> b][s] = Step([t \in SUBSET S |-> b])[s]
      BY <2>1
    <2> QED BY <2>2
  <1>4. ASSUME NEW n \in Nat, Right(n) PROVE Right(n + 1)
    <2>1. PICK g : \A s \in SUBSET S : Cardinality(s) <= n => g[s] = Step(g)[s]
      BY <1>4
    <2> DEFINE h == Step(g)
    <2>2. \A s \in SUBSET S : Cardinality(s) <= n => g[s] = h[s]
      BY <2>1
    <2>3. ASSUME NEW s \in SUBSET S, Cardinality(s) <= n + 1
          PROVE  h[s] = Step(h)[s]
      <3>1. CASE s = {}
        BY <3>1
      <3>2. CASE s # {}
        <4> DEFINE r == s \ {c[s]}
        <4>1. r \in SUBSET S /\ Cardinality(r) <= n
          BY <1>1, <1>2, <2>3, <3>2
        <4>2. g[r] = h[r]
          BY <2>2, <4>1
        <4>3. h[s] = Combine(op, f[c[s]], g[r])
          BY <3>2
        <4>4. Step(h)[s] = Combine(op, f[c[s]], h[r])
          <5> HIDE DEF h
          <5> QED BY <3>2
        <4> HIDE DEF h, r, Step
        <4> QED BY <4>2, <4>3, <4>4
      <3> QED BY <3>1, <3>2
    <2> HIDE DEF h
    <2> QED BY <2>3
  <1>5. Wrong = {}
    <2> SUFFICES ASSUME Wrong # {} PROVE FALSE
      OBVIOUS
    <2>1. PICK n \in Wrong : \A m \in Wrong : n <= m
      BY LeastNatural
    <2> HIDE DEF Right
    <2>2. n \in Nat /\ n # 0
      BY <1>3, <2>1
    <2>3. n - 1 \in Nat /\ n - 1 \notin Wrong
      BY <2>1, <2>2
    <2>4. Right(n - 1)
      BY <2>3
    <2>5. Right((n - 1) + 1)
      BY <1>4, <2>3, <2>4
    <2>6. (n - 1) + 1 = n
      BY <2>2
    <2> QED BY <2>1, <2>5, <2>6
  <1>6. Cardinality(S) \in Nat
    BY <1>1
  <1>7. Right(Cardinality(S))
    BY <1>5, <1>6
  <1>8. PICK g : \A s \in SUBSET S : Cardinality(s) <= Cardinality(S) => g[s] = Step(g)[s]
    BY <1>7
  <1>9. \A s \in SUBSET S : g[s] = Step(g)[s]
    BY <1>8, FS_Subset
  <1>10. Step(g) = Step(Step(g))
    <2> DEFINE h == Step(g)
    <2>1. \A s \in SUBSET S : g[s] = h[s]
      BY <1>9
    <2>2. \A s \in SUBSET S : s # {} => g[s \ {c[s]}] = h[s \ {c[s]}]
      BY <2>1
    <2> HIDE DEF h
    <2>3. Step(g) = Step(h)
      BY <2>2
    <2> QED BY <2>3 DEF h
  <1>11. Folds(op, S, f, c, b, Step(g))
    <2> DEFINE h == Step(g)
    <2>1. h = Step(h)
      BY <1>10
    <2> HIDE DEF h
    <2>2. Folds(op, S, f, c, b, h)
      BY <2>1 DEF Folds
    <2> QED BY <2>2 DEF h
  <1> QED BY <1>11

\* Folds over the subsets of two sets agree where both are defined.
LEMMA FoldsUnique ==
    ASSUME NEW S, IsFiniteSet(S), NEW T \in SUBSET S, NEW op, NEW b,
           NEW f, NEW e, \A x \in T : f[x] = e[x],
           NEW c, NEW d, Chooser(T, d), \A r \in SUBSET T : c[r] = d[r],
           NEW g, NEW h, Folds(op, S, f, c, b, g), Folds(op, T, e, d, b, h),
           NEW s \in SUBSET T
    PROVE  g[s] = h[s]
  <1> DEFINE C == {r \in SUBSET T : g[r] # h[r]}
  <1>1. ASSUME C # {} PROVE FALSE
    <2>1. C \in SUBSET SUBSET S
      OBVIOUS
    <2>2. PICK r \in C : \A x \in r : r \ {x} \notin C
      BY <1>1, <2>1, SmallestSet
    <2>3. r \in SUBSET T /\ r \in SUBSET S /\ g[r] # h[r]
      BY <2>2
    <2> DEFINE x == d[r]
    <2>4. /\ g[r] = IF r = {} THEN b ELSE Combine(op, f[x], g[r \ {x}])
          /\ h[r] = IF r = {} THEN b ELSE Combine(op, e[x], h[r \ {x}])
      <3>1. c[r] = d[r]
        BY <2>3
      <3>2. g[r] = IF r = {} THEN b ELSE Combine(op, f[c[r]], g[r \ {c[r]}])
        BY <2>3, Zenon DEF Folds
      <3>3. h[r] = IF r = {} THEN b ELSE Combine(op, e[d[r]], h[r \ {d[r]}])
        BY <2>3, Zenon DEF Folds
      <3> QED BY <3>1, <3>2, <3>3
    <2>5. r # {}
      BY <2>3, <2>4
    <2>6. x \in r
      BY <2>3, <2>5 DEF Chooser
    <2> HIDE DEF x
    <2>7. g[r \ {x}] = h[r \ {x}]
      BY <2>2, <2>3, <2>6
    <2>8. f[x] = e[x]
      BY <2>3, <2>6
    <2> QED BY <2>3, <2>4, <2>5, <2>7, <2>8
  <1> QED BY <1>1

\* g is the sum of f over the subsets of S, as SumFunctionOnSet computes it.
Sums(S, f, g) ==
    g = [s \in SUBSET S |-> IF s = {} THEN 0 ELSE f[One(s)] + g[s \ {One(s)}]]

\* FoldSet's choice of a member of each set, as a function.
OneOf(S) == [s \in SUBSET S |-> One(s)]

\* A sum is a fold.
LEMMA SumIsFold ==
    ASSUME NEW S, NEW f
    PROVE  /\ SumFunctionOnSet(f, S) = (CHOOSE g : Sums(S, f, g))[S]
           /\ \A g : Sums(S, f, g) <=> Folds([fold |-> "sum"], S, f, OneOf(S), 0, g)
  <1>1. SumFunctionOnSet(f, S) = (CHOOSE g : Sums(S, f, g))[S]
    BY DEF SumFunctionOnSet, FoldFunctionOnSet, MapThenFoldSet, Sums, One
  <1> DEFINE op == [fold |-> "sum"]
             c == OneOf(S)
  <1>2. \A x, acc : Combine(op, x, acc) = x + acc
    BY DEF Combine
  <1>3. \A s \in SUBSET S : c[s] = One(s)
    BY DEF OneOf
  <1> HIDE DEF op, c
  <1>4. ASSUME NEW g
        PROVE  [s \in SUBSET S |-> IF s = {} THEN 0 ELSE f[One(s)] + g[s \ {One(s)}]]
             = [s \in SUBSET S |->
                   IF s = {} THEN 0 ELSE Combine(op, f[c[s]], g[s \ {c[s]}])]
    BY <1>2, <1>3
  <1>5. \A g : Sums(S, f, g) <=> Folds(op, S, f, c, 0, g)
    BY <1>4 DEF Sums, Folds
  <1> QED BY <1>1, <1>5 DEF op, c

\* The element One takes is one of the set.
LEMMA OneChooses ==
    ASSUME NEW S
    PROVE  Chooser(S, OneOf(S))
  BY DEF Chooser, OneOf, One

\* The recursion of a sum has a solution.
LEMMA SumsExist ==
    ASSUME NEW S, IsFiniteSet(S), NEW f
    PROVE  \E g : Sums(S, f, g)
  BY SumIsFold, OneChooses, FoldsExist

\* Sums over the subsets of two sets agree where both are defined.
LEMMA SumsUnique ==
    ASSUME NEW S, IsFiniteSet(S), NEW T \in SUBSET S, NEW f, NEW g, NEW h, NEW e,
           Sums(S, f, g), Sums(T, e, h), \A x \in T : f[x] = e[x],
           NEW s \in SUBSET T
    PROVE  g[s] = h[s]
  <1> DEFINE op == [fold |-> "sum"]
  <1>1. Folds(op, S, f, OneOf(S), 0, g) /\ Folds(op, T, e, OneOf(T), 0, h)
    BY SumIsFold
  <1>2. Chooser(T, OneOf(T)) /\ \A r \in SUBSET T : OneOf(S)[r] = OneOf(T)[r]
    BY OneChooses DEF OneOf
  <1> HIDE DEF op
  <1> QED BY <1>1, <1>2, FoldsUnique

\* The sum of the empty set, of one element more, and of equal functions.
LEMMA SumSteps ==
    ASSUME NEW S, IsFiniteSet(S), NEW f
    PROVE  /\ S = {} => SumFunctionOnSet(f, S) = 0
           /\ S # {} => SumFunctionOnSet(f, S)
                           = f[One(S)] + SumFunctionOnSet(f, S \ {One(S)})
           /\ \A e : (\A x \in S : f[x] = e[x])
                        => SumFunctionOnSet(f, S) = SumFunctionOnSet(e, S)
  <1> DEFINE g == CHOOSE g : Sums(S, f, g)
  <1>1. Sums(S, f, g)
    BY SumsExist
  <1>2. SumFunctionOnSet(f, S) = g[S]
    BY SumIsFold
  <1> HIDE DEF g
  <1>3. g[S] = IF S = {} THEN 0 ELSE f[One(S)] + g[S \ {One(S)}]
    BY <1>1, Zenon DEF Sums
  <1>4. ASSUME NEW T \in SUBSET S, NEW e, \A x \in T : f[x] = e[x]
        PROVE  SumFunctionOnSet(e, T) = g[T]
    <2> DEFINE h == CHOOSE h : Sums(T, e, h)
    <2>1. IsFiniteSet(T)
      BY FS_Subset
    <2>2. Sums(T, e, h)
      BY <2>1, SumsExist
    <2>3. SumFunctionOnSet(e, T) = h[T]
      BY SumIsFold
    <2> HIDE DEF h
    <2>4. T \in SUBSET T
      OBVIOUS
    <2>5. g[T] = h[T]
      BY <1>1, <1>4, <2>2, <2>4, SumsUnique
    <2> QED BY <2>3, <2>5
  <1> QED BY <1>2, <1>3, <1>4

\* Sums of naturals are naturals.
LEMMA SumType ==
    ASSUME NEW S, IsFiniteSet(S), NEW f, \A x \in S : f[x] \in Nat
    PROVE  SumFunctionOnSet(f, S) \in Nat
  <1> DEFINE C == {r \in SUBSET S : SumFunctionOnSet(f, r) \notin Nat}
  <1>1. ASSUME C # {} PROVE FALSE
    <2>1. PICK r \in C : IsFiniteSet(r) /\ \A x \in r : r \ {x} \notin C
      BY <1>1, SmallestSet
    <2>2. CASE r = {}
      <3>1. SumFunctionOnSet(f, r) = 0
        BY <2>1, <2>2, SumSteps
      <3> QED BY <2>1, <3>1
    <2>3. CASE r # {}
      <3>1. One(r) \in r
        BY <2>3 DEF One
      <3>2. SumFunctionOnSet(f, r \ {One(r)}) \in Nat /\ f[One(r)] \in Nat
        BY <2>1, <3>1
      <3>3. SumFunctionOnSet(f, r) = f[One(r)] + SumFunctionOnSet(f, r \ {One(r)})
        BY <2>1, <2>3, SumSteps
      <3> QED BY <2>1, <3>2, <3>3
    <2> QED BY <2>2, <2>3
  <1> QED BY <1>1

\* Any element can be summed last: the order of the fold does not matter.
LEMMA SumRemove ==
    ASSUME NEW S, IsFiniteSet(S), NEW f, \A x \in S : f[x] \in Nat, NEW y \in S
    PROVE  SumFunctionOnSet(f, S) = f[y] + SumFunctionOnSet(f, S \ {y})
  <1> DEFINE Sum(s) == SumFunctionOnSet(f, s)
             C == {r \in SUBSET S : \E x \in r : Sum(r) # f[x] + Sum(r \ {x})}
  <1>1. ASSUME C # {} PROVE FALSE
    <2>1. PICK r \in C : IsFiniteSet(r) /\ \A x \in r : r \ {x} \notin C
      BY <1>1, SmallestSet
    <2>2. PICK x \in r : Sum(r) # f[x] + Sum(r \ {x})
      BY <2>1
    <2> DEFINE z == One(r)
    <2>3. z \in r /\ Sum(r) = f[z] + Sum(r \ {z})
      BY <2>1, <2>2, SumSteps DEF One
    <2> HIDE DEF z
    <2>4. z # x
      BY <2>2, <2>3
    <2>5. Sum(r \ {z}) = f[x] + Sum((r \ {z}) \ {x})
      BY <2>1, <2>2, <2>3, <2>4
    <2>6. Sum(r \ {x}) = f[z] + Sum((r \ {x}) \ {z})
      BY <2>1, <2>2, <2>3, <2>4
    <2>7. (r \ {z}) \ {x} = (r \ {x}) \ {z}
      OBVIOUS
    <2>8. f[x] \in Nat /\ f[z] \in Nat /\ Sum((r \ {x}) \ {z}) \in Nat
      <3>1. IsFiniteSet((r \ {x}) \ {z}) /\ (r \ {x}) \ {z} \subseteq S
        BY <2>1, FS_Subset
      <3> QED BY <2>1, <2>2, <2>3, <3>1, SumType
    <2> HIDE DEF Sum
    <2> QED BY <2>2, <2>3, <2>5, <2>6, <2>7, <2>8
  <1> QED BY <1>1
\* No element is larger than the sum.
LEMMA SumMember ==
    ASSUME NEW S, IsFiniteSet(S), NEW f, \A x \in S : f[x] \in Nat, NEW y \in S
    PROVE  f[y] <= SumFunctionOnSet(f, S)
  <1>1. SumFunctionOnSet(f, S) = f[y] + SumFunctionOnSet(f, S \ {y})
    BY SumRemove
  <1>2. IsFiniteSet(S \ {y})
    BY FS_Subset
  <1>3. SumFunctionOnSet(f, S \ {y}) \in Nat
    BY <1>2, SumType
  <1> QED BY <1>1, <1>3

\* g is f with n more at y.
Adds(S, f, g, y, n) ==
    \A x \in S : f[x] \in Nat /\ g[x] = f[x] + (IF x = y THEN n ELSE 0)

\* Adding n at one element adds n to the sum.
LEMMA SumAdd ==
    ASSUME NEW S, IsFiniteSet(S), NEW f, NEW g, NEW y \in S, NEW n \in Nat,
           Adds(S, f, g, y, n)
    PROVE  SumFunctionOnSet(g, S) = SumFunctionOnSet(f, S) + n
  <1>0. \A x \in S : f[x] \in Nat /\ g[x] = f[x] + (IF x = y THEN n ELSE 0)
    BY DEF Adds
  <1>1. \A x \in S : f[x] \in Nat /\ g[x] \in Nat
    BY <1>0
  <1>2. /\ SumFunctionOnSet(f, S) = f[y] + SumFunctionOnSet(f, S \ {y})
        /\ SumFunctionOnSet(g, S) = g[y] + SumFunctionOnSet(g, S \ {y})
    BY <1>1, SumRemove
  <1>3. IsFiniteSet(S \ {y})
    BY FS_Subset
  <1>4. SumFunctionOnSet(f, S \ {y}) = SumFunctionOnSet(g, S \ {y})
    <2>1. \A x \in S \ {y} : f[x] = g[x]
      BY <1>0
    <2> QED BY <1>3, <2>1, SumSteps
  <1>5. SumFunctionOnSet(f, S \ {y}) \in Nat /\ f[y] \in Nat /\ g[y] = f[y] + n
    BY <1>0, <1>1, <1>3, SumType
  <1> QED BY <1>2, <1>4, <1>5

\* Elements at which f is zero can be left out, and what is added is not lost.
LEMMA SumPart ==
    ASSUME NEW S, IsFiniteSet(S), NEW T \in SUBSET S, NEW f, \A x \in S : f[x] \in Nat
    PROVE  /\ SumFunctionOnSet(f, T) <= SumFunctionOnSet(f, S)
           /\ (\A x \in S \ T : f[x] = 0) => SumFunctionOnSet(f, T) = SumFunctionOnSet(f, S)
  <1> DEFINE Sum(s) == SumFunctionOnSet(f, s)
             Good(r) == /\ Sum(T) <= Sum(r)
                        /\ (\A x \in r \ T : f[x] = 0) => Sum(T) = Sum(r)
             C == {r \in SUBSET S : T \subseteq r /\ ~ Good(r)}
  <1>1. IsFiniteSet(T) /\ \A x \in T : f[x] \in Nat
    BY FS_Subset
  <1>2. Sum(T) \in Nat
    BY <1>1, SumType
  <1>3. ASSUME C # {} PROVE FALSE
    <2>0. C \in SUBSET SUBSET S
      OBVIOUS
    <2>1. PICK r \in C : IsFiniteSet(r) /\ \A x \in r : r \ {x} \notin C
      <3> HIDE DEF C
      <3> QED BY <1>3, <2>0, SmallestSet
    <2>2. r \in SUBSET S /\ T \subseteq r /\ ~ Good(r)
      BY <2>1
    <2>3. r # T
      BY <1>2, <2>2
    <2>4. PICK x \in r : x \notin T
      BY <2>2, <2>3
    <2>5. Good(r \ {x})
      BY <2>1, <2>2, <2>4
    <2>6. Sum(r) = f[x] + Sum(r \ {x})
      BY <2>1, <2>2, SumRemove
    <2>7. f[x] \in Nat /\ Sum(r \ {x}) \in Nat
      <3>1. IsFiniteSet(r \ {x}) /\ r \ {x} \in SUBSET S
        BY <2>1, <2>2, FS_Subset
      <3> QED BY <2>2, <2>4, <3>1, SumType
    <2>8. Sum(T) <= Sum(r \ {x})
      BY <2>5
    <2>9. Sum(T) <= Sum(r)
      <3> HIDE DEF Sum
      <3> QED BY <1>2, <2>6, <2>7, <2>8
    <2>10. ASSUME \A y \in r \ T : f[y] = 0 PROVE Sum(T) = Sum(r)
      <3>1. f[x] = 0 /\ Sum(T) = Sum(r \ {x})
        BY <2>4, <2>5, <2>10
      <3> HIDE DEF Sum
      <3> QED BY <1>2, <2>6, <3>1
    <2> QED BY <2>2, <2>9, <2>10
  <1>4. S \notin C
    BY <1>3
  <1> QED BY <1>4

\* A sum over shifted indices is at least as large when every term is.
LEMMA SumShift ==
    ASSUME NEW S \in SUBSET Nat, IsFiniteSet(S), NEW T, IsFiniteSet(T), NEW m \in Nat,
           \A x \in S : x + m \in T,
           NEW f, NEW g, \A y \in T : g[y] \in Nat,
           \A x \in S : f[x] \in Nat /\ f[x] <= g[x + m]
    PROVE  SumFunctionOnSet(f, S) <= SumFunctionOnSet(g, T)
  <1> DEFINE Image(s) == {x + m : x \in s}
             C == {r \in SUBSET S : ~ (SumFunctionOnSet(f, r) <= SumFunctionOnSet(g, Image(r)))}
  <1>1. \A r \in SUBSET S : /\ Image(r) \in SUBSET T /\ IsFiniteSet(Image(r))
                            /\ \A y \in Image(r) : g[y] \in Nat
    <2>1. \A r \in SUBSET S : Image(r) \in SUBSET T
      OBVIOUS
    <2> HIDE DEF Image
    <2> QED BY <2>1, FS_Subset
  <1>2. ASSUME C # {} PROVE FALSE
    <2>1. PICK r \in C : IsFiniteSet(r) /\ \A x \in r : r \ {x} \notin C
      BY <1>2, SmallestSet
    <2>2. /\ r \in SUBSET S
          /\ ~ (SumFunctionOnSet(f, r) <= SumFunctionOnSet(g, Image(r)))
      BY <2>1
    <2>3. CASE r = {}
      <3>1. Image(r) = {}
        BY <2>3
      <3>2. SumFunctionOnSet(f, r) = 0 /\ SumFunctionOnSet(g, Image(r)) = 0
        <4> HIDE DEF Image
        <4> QED BY <1>1, <2>1, <2>2, <2>3, <3>1, SumSteps
      <3> QED BY <2>2, <3>2
    <2>4. CASE r # {}
      <3>1. PICK x \in r : TRUE
        BY <2>4
      <3> DEFINE q == r \ {x}
      <3>2. q \in SUBSET S /\ SumFunctionOnSet(f, q) <= SumFunctionOnSet(g, Image(q))
        BY <2>1, <2>2, <3>1
      <3>3. Image(r) \ {x + m} = Image(q) /\ x + m \in Image(r)
        <4>1. x + m \in Image(r)
          BY <3>1
        <4>2. \A z \in r : z \in Int /\ x \in Int /\ (z + m = x + m <=> z = x)
          BY <2>2, <3>1
        <4>3. \A y \in Image(r) \ {x + m} : y \in Image(q)
          BY <4>2
        <4>4. \A y \in Image(q) : y \in Image(r) /\ y # x + m
          BY <4>2
        <4> QED BY <4>1, <4>3, <4>4
      <3>4. SumFunctionOnSet(f, r) = f[x] + SumFunctionOnSet(f, q)
        BY <2>1, <2>2, <3>1, SumRemove
      <3> HIDE DEF Image, q
      <3>5. SumFunctionOnSet(g, Image(r)) = g[x + m] + SumFunctionOnSet(g, Image(q))
        <4> DEFINE I == Image(r)
        <4>1. IsFiniteSet(I) /\ (\A y \in I : g[y] \in Nat) /\ x + m \in I
          BY <1>1, <2>2, <3>3
        <4> HIDE DEF I
        <4>2. SumFunctionOnSet(g, I) = g[x + m] + SumFunctionOnSet(g, I \ {x + m})
          BY <4>1, SumRemove
        <4> QED BY <3>3, <4>2 DEF I
      <3>6. /\ f[x] \in Nat /\ g[x + m] \in Nat /\ f[x] <= g[x + m]
        BY <2>2, <3>1
      <3>7. SumFunctionOnSet(f, q) \in Nat /\ SumFunctionOnSet(g, Image(q)) \in Nat
        <4>1. IsFiniteSet(q)
          BY <3>2, FS_Subset
        <4>2. SumFunctionOnSet(f, q) \in Nat
          BY <3>2, <4>1, SumType
        <4> QED BY <1>1, <3>2, <4>2, SumType
      <3> QED BY <2>2, <3>2, <3>4, <3>5, <3>6, <3>7
    <2> QED BY <2>3, <2>4
  <1>3. SumFunctionOnSet(f, S) <= SumFunctionOnSet(g, Image(S))
    BY <1>2
  <1>4. SumFunctionOnSet(g, Image(S)) <= SumFunctionOnSet(g, T)
    <2> HIDE DEF Image
    <2> QED BY <1>1, SumPart
  <1>5. /\ SumFunctionOnSet(f, S) \in Nat /\ SumFunctionOnSet(g, T) \in Nat
        /\ SumFunctionOnSet(g, Image(S)) \in Nat
    <2> HIDE DEF Image
    <2> QED BY <1>1, SumType
  <1> HIDE DEF Image
  <1> QED BY <1>3, <1>4, <1>5

-----------------------------------------------------------------------------
(* Types of the operators.                                                 *)

\* The reward at a height is an amount no larger than the remaining supply.
LEMMA EmissionBound ==
    ASSUME NEW h \in Nat, NEW i \in Nat, i <= TotalSupply
    PROVE  /\ Emission(h, i) \in Nat
           /\ i + Emission(h, i) <= TotalSupply
  <1> DEFINE e == h \div HalvingEpoch
  <1>1. e \in Nat
    BY LedgerAssumption
  <1>2. ASSUME e < AmountBits
        PROVE  InitialReward \div 2^e \in Nat
    <2>1. 2^e \in Nat \ {0}
      BY <1>1, <1>2, LedgerAssumption
    <2>2. \A d \in Nat \ {0} : InitialReward \div d \in Nat
      BY LedgerAssumption
    <2> QED BY <2>1, <2>2
  <1> DEFINE reward == IF e < AmountBits THEN InitialReward \div 2^e ELSE 0
  <1>3. reward \in Nat
    BY <1>2
  <1>4. Emission(h, i) = IF reward <= TotalSupply - i THEN reward ELSE TotalSupply - i
    BY DEF Emission
  <1> HIDE DEF reward
  <1> QED BY <1>3, <1>4, LedgerAssumption

\* Crediting an account keeps a balance map a balance map.
LEMMA CreditType ==
    ASSUME NEW b \in [Accounts -> Nat \cup {None}], NEW a \in Accounts, NEW n \in Nat
    PROVE  /\ Credit(b, a, n) \in [Accounts -> Nat \cup {None}]
           /\ \A c \in Accounts : OrZero(Credit(b, a, n)[c])
                                    = OrZero(b[c]) + (IF c = a THEN n ELSE 0)
           /\ \A c \in Accounts : c # a \/ n = 0 => Credit(b, a, n)[c] = b[c]
  BY MarkerAssumption DEF Credit, OrZero

\* Undoing a block gives a ledger.
LEMMA UndoBlockType ==
    ASSUME NEW l \in Ledger, NEW u \in Undo
    PROVE  UndoBlock(l, u) \in Ledger
  BY DEF UndoBlock, RestoreEntries, Ledger, Undo

\* A fresh undo record has its type.
LEMMA NewUndoType ==
    ASSUME NEW l \in Ledger
    PROVE  NewUndo(l) \in Undo
  BY DEF NewUndo, Ledger, Undo

\* The genesis ledger is a ledger.
LEMMA GenesisType == GenesisLedger \in Ledger
  BY DEF GenesisLedger, Ledger

\* Remembering keys of a map keeps an undo map an undo map.
LEMMA RememberType ==
    ASSUME NEW V, NEW K, NEW um \in [K -> V \cup {None, Untouched}],
           NEW map \in [K -> V \cup {None}], NEW keys
    PROVE  Remember(um, map, keys) \in [K -> V \cup {None, Untouched}]
  BY DEF Remember

\* Reward locks that are due are not None.
LEMMA MaturedFacts ==
    ASSUME NEW l \in Ledger, NEW h \in Nat, NEW k \in Matured(l, h)
    PROVE  /\ k \in UnlockHeights /\ k <= h
           /\ l.pending_rewards[k] \in Reward
           /\ l.pending_rewards[k].pk \in Accounts
           /\ l.pending_rewards[k].amount \in Nat
  BY DEF Matured, Ledger, Reward

\* Noting the rewards that are due keeps the undo record an undo record.
LEMMA RememberMaturedType ==
    ASSUME NEW l \in Ledger, NEW u \in Undo, NEW h \in Nat
    PROVE  RememberMatured(l, u, h) \in Undo
  <1> DEFINE due == Matured(l, h)
             keys == {l.pending_rewards[k].pk : k \in due}
             pr == [k \in UnlockHeights |->
                       IF k \in due THEN l.pending_rewards[k] ELSE u.pending_rewards[k]]
  <1>1. Remember(u.locked_balances, l.locked_balances, keys)
            \in [Accounts -> Nat \cup {None, Untouched}]
    BY RememberType DEF Undo, Ledger
  <1>2. pr \in [UnlockHeights -> Reward \cup {None, Untouched}]
    BY DEF Undo, Ledger
  <1>3. RememberMatured(l, u, h) =
            [u EXCEPT !.locked_balances = Remember(u.locked_balances, l.locked_balances, keys),
                      !.pending_rewards = pr]
    BY DEF RememberMatured
  <1> HIDE DEF pr, keys
  <1> QED BY <1>1, <1>2, <1>3 DEF Undo

\* Unlocking a due reward keeps the ledger well formed and its locks covered.
LEMMA UnlockType ==
    ASSUME NEW l \in Ledger, NEW h \in Nat, NEW k \in Matured(l, h),
           UnlockPossible(l, k)
    PROVE  /\ UnlockReward(l, k) \in Ledger
           /\ UnlockReward(l, k).height = l.height
           /\ UnlockReward(l, k).issued = l.issued
           /\ UnlockReward(l, k).balances = l.balances
           /\ UnlockReward(l, k).next_nonces = l.next_nonces
           /\ \A j \in UnlockHeights :
                 UnlockReward(l, k).pending_rewards[j]
                    = IF j = k THEN None ELSE l.pending_rewards[j]
           /\ \A a \in Accounts : a # l.pending_rewards[k].pk =>
                 UnlockReward(l, k).locked_balances[a] = l.locked_balances[a]
           /\ \A a \in Accounts :
                 LockedBalance(UnlockReward(l, k), a) <= LockedBalance(l, a)
  <1> DEFINE r == l.pending_rewards[k]
             remaining == LockedBalance(l, r.pk) - r.amount
             pr == [l.pending_rewards EXCEPT ![k] = None]
             lb == [l.locked_balances EXCEPT ![r.pk] =
                       IF remaining = 0 THEN None ELSE remaining]
  <1>1. r.pk \in Accounts /\ r.amount \in Nat /\ k \in UnlockHeights
    BY MaturedFacts
  <1>2. \A a \in Accounts : LockedBalance(l, a) \in Nat
    BY DEF LockedBalance, OrZero, Ledger
  <1>3. remaining \in Nat /\ remaining <= LockedBalance(l, r.pk)
    BY <1>1, <1>2 DEF UnlockPossible
  <1>4. UnlockReward(l, k) = [l EXCEPT !.pending_rewards = pr, !.locked_balances = lb]
    BY DEF UnlockReward
  <1> HIDE DEF remaining
  <1>5. pr \in [UnlockHeights -> Reward \cup {None}]
    BY <1>1 DEF Ledger
  <1>6. lb \in [Accounts -> Nat \cup {None}]
    BY <1>1, <1>3 DEF Ledger
  <1>7. \A a \in Accounts : OrZero(lb[a]) <= OrZero(l.locked_balances[a])
    BY <1>1, <1>2, <1>3, MarkerAssumption DEF OrZero, Ledger, LockedBalance
  <1>8. \A j \in UnlockHeights : pr[j] = IF j = k THEN None ELSE l.pending_rewards[j]
    BY <1>1 DEF Ledger
  <1>9. \A a \in Accounts : a # r.pk => lb[a] = l.locked_balances[a]
    BY <1>1 DEF Ledger
  <1> HIDE DEF pr, lb
  <1> QED BY <1>4, <1>5, <1>6, <1>7, <1>8, <1>9 DEF Ledger, LockedBalance

\* Settling an accepted transfer: only the staged keys and the sender's nonce
\* change, and a debit never reaches a locked reward.
LEMMA TransferFacts ==
    ASSUME NEW l \in Ledger, NEW p \in Accounts, NEW t \in EnvelopeType, NEW h \in Nat,
           \A a \in Accounts : LockedBalance(l, a) <= Balance(l, a),
           Transferable(l, h, t)
    PROVE  /\ CommitTransfer(l, p, t) \in Ledger
           /\ CommitTransfer(l, p, t).height = l.height
           /\ CommitTransfer(l, p, t).issued = l.issued
           /\ CommitTransfer(l, p, t).locked_balances = l.locked_balances
           /\ CommitTransfer(l, p, t).pending_rewards = l.pending_rewards
           /\ \A a \in Accounts \ StagedKeys(p, t) :
                 CommitTransfer(l, p, t).balances[a] = l.balances[a]
           /\ \A a \in Accounts \ {t.from} :
                 CommitTransfer(l, p, t).next_nonces[a] = l.next_nonces[a]
           /\ \A a \in Accounts : LockedBalance(CommitTransfer(l, p, t), a)
                                     <= Balance(CommitTransfer(l, p, t), a)
  <1> DEFINE debited  == [l.balances EXCEPT ![t.from] =
                             OrZero(l.balances[t.from]) - (t.amount + t.fee)]
             credited == Credit(debited, t.to, t.amount)
             paid     == Credit(credited, p, t.fee)
             nonces   == [l.next_nonces EXCEPT ![t.from] = t.nonce + 1]
  <1>1. /\ t.from \in Accounts /\ t.to \in Accounts /\ t.amount \in Nat
        /\ t.fee \in Nat /\ t.nonce \in Nat
    BY DEF EnvelopeType
  <1>2. \A a \in Accounts : Balance(l, a) \in Nat /\ LockedBalance(l, a) \in Nat
    BY DEF Balance, LockedBalance, OrZero, Ledger
  <1>3. /\ debited \in [Accounts -> Nat \cup {None}]
        /\ \A a \in Accounts : OrZero(debited[a]) >= LockedBalance(l, a)
        /\ \A a \in Accounts : a # t.from => debited[a] = l.balances[a]
    <2>1. t.amount + t.fee <= Balance(l, t.from) - LockedBalance(l, t.from)
      BY DEF Transferable, SpendableBalance
    <2>2. OrZero(l.balances[t.from]) - (t.amount + t.fee) \in Nat
      BY <1>1, <1>2, <2>1 DEF Balance
    <2>3. debited \in [Accounts -> Nat \cup {None}]
      BY <2>2 DEF Ledger
    <2>4. OrZero(debited[t.from]) >= LockedBalance(l, t.from)
      <3>1. debited[t.from] = Balance(l, t.from) - (t.amount + t.fee)
        BY <1>1 DEF Ledger, Balance
      <3>2. debited[t.from] # None
        BY <2>2, <3>1, MarkerAssumption DEF Balance
      <3> HIDE DEF debited
      <3> QED BY <1>1, <1>2, <2>1, <3>1, <3>2 DEF OrZero
    <2>5. \A a \in Accounts : a # t.from => debited[a] = l.balances[a]
      BY DEF Ledger
    <2>6. \A a \in Accounts : a # t.from => OrZero(debited[a]) >= LockedBalance(l, a)
      BY <1>2, <2>5 DEF Balance
    <2> QED BY <2>3, <2>4, <2>5, <2>6
  <1>4. /\ credited \in [Accounts -> Nat \cup {None}]
        /\ \A a \in Accounts : OrZero(credited[a])
                                 = OrZero(debited[a]) + (IF a = t.to THEN t.amount ELSE 0)
        /\ \A a \in Accounts : a # t.to \/ t.amount = 0 => credited[a] = debited[a]
    <2> HIDE DEF debited
    <2> QED BY <1>1, <1>3, CreditType
  <1>5. /\ paid \in [Accounts -> Nat \cup {None}]
        /\ \A a \in Accounts : OrZero(paid[a])
                                 = OrZero(credited[a]) + (IF a = p THEN t.fee ELSE 0)
        /\ \A a \in Accounts : a # p \/ t.fee = 0 => paid[a] = credited[a]
    <2> HIDE DEF credited
    <2> QED BY <1>1, <1>4, CreditType
  <1>6. nonces \in [Accounts -> Nat \cup {None}]
    BY <1>1 DEF Ledger
  <1>7. \A a \in Accounts \ {t.from} : nonces[a] = l.next_nonces[a]
    BY DEF Ledger
  <1>8. StagedBalances(l, p, t) = paid
    BY MarkerAssumption DEF StagedBalances
  <1>9. CommitTransfer(l, p, t) = [l EXCEPT !.balances = paid, !.next_nonces = nonces]
    BY <1>8 DEF CommitTransfer
  <1>10. \A a \in Accounts \ StagedKeys(p, t) : paid[a] = l.balances[a]
    <2> HIDE DEF paid, credited, debited
    <2> QED BY <1>3, <1>4, <1>5, MarkerAssumption DEF StagedKeys
  <1>11. \A a \in Accounts : OrZero(paid[a]) >= LockedBalance(l, a)
    <2> SUFFICES ASSUME NEW a \in Accounts
                 PROVE  OrZero(paid[a]) >= LockedBalance(l, a)
      OBVIOUS
    <2>1. /\ OrZero(debited[a]) \in Nat
          /\ OrZero(debited[a]) >= LockedBalance(l, a)
          /\ LockedBalance(l, a) \in Nat
      <3> HIDE DEF debited
      <3> QED BY <1>2, <1>3 DEF OrZero
    <2>2. OrZero(paid[a]) = OrZero(debited[a]) + (IF a = t.to THEN t.amount ELSE 0)
                              + (IF a = p THEN t.fee ELSE 0)
      <3> HIDE DEF paid, credited, debited
      <3> QED BY <1>4, <1>5
    <2> HIDE DEF paid, credited, debited
    <2> QED BY <1>1, <2>1, <2>2
  <1> HIDE DEF paid, credited, debited, nonces
  <1> QED BY <1>5, <1>6, <1>7, <1>9, <1>10, <1>11 DEF Ledger, Balance, LockedBalance

\* The emission: the reward account is credited and locked by the same amount.
LEMMA EmissionFacts ==
    ASSUME NEW l \in Ledger, NEW p \in Accounts, NEW h \in 1 .. MaxHeight,
           l.issued <= TotalSupply,
           \A a \in Accounts : LockedBalance(l, a) <= Balance(l, a)
    PROVE  /\ EmitReward(l, h, p) \in Ledger
           /\ EmitReward(l, h, p).height = h
           /\ EmitReward(l, h, p).issued <= TotalSupply
           /\ EmitReward(l, h, p).next_nonces = l.next_nonces
           /\ \A a \in Accounts : a # p \/ Emission(h, l.issued) = 0 =>
                 EmitReward(l, h, p).balances[a] = l.balances[a]
           /\ \A a \in Accounts : a # p \/ Emission(h, l.issued) = 0 \/ RewardMaturity = 0 =>
                 EmitReward(l, h, p).locked_balances[a] = l.locked_balances[a]
           /\ \A k \in UnlockHeights :
                 k # h + RewardMaturity \/ Emission(h, l.issued) = 0 \/ RewardMaturity = 0 =>
                 EmitReward(l, h, p).pending_rewards[k] = l.pending_rewards[k]
           /\ \A a \in Accounts : LockedBalance(EmitReward(l, h, p), a)
                                     <= Balance(EmitReward(l, h, p), a)
  <1> DEFINE e     == Emission(h, l.issued)
             locks == e # 0 /\ RewardMaturity # 0
             bal   == Credit(l.balances, p, e)
             lock  == IF locks THEN [l.locked_balances EXCEPT ![p] =
                                        OrZero(l.locked_balances[p]) + e]
                      ELSE l.locked_balances
             pend  == IF locks THEN [l.pending_rewards EXCEPT ![h + RewardMaturity] =
                                        [pk |-> p, amount |-> e]]
                      ELSE l.pending_rewards
  <1>1. l.issued \in Nat /\ h \in Nat
    BY LedgerAssumption DEF Ledger
  <1>2. e \in Nat /\ l.issued + e <= TotalSupply
    BY <1>1, EmissionBound
  <1> HIDE DEF e
  <1>3. /\ bal \in [Accounts -> Nat \cup {None}]
        /\ \A a \in Accounts : OrZero(bal[a]) = OrZero(l.balances[a]) + (IF a = p THEN e ELSE 0)
        /\ \A a \in Accounts : a # p \/ e = 0 => bal[a] = l.balances[a]
    BY <1>2, CreditType DEF Ledger
  <1>4. OrZero(l.locked_balances[p]) \in Nat
    BY DEF OrZero, Ledger
  <1>5. /\ lock \in [Accounts -> Nat \cup {None}]
        /\ \A a \in Accounts : a # p \/ ~ locks => lock[a] = l.locked_balances[a]
    BY <1>2, <1>4 DEF Ledger
  <1>6. \A a \in Accounts : OrZero(lock[a])
                              <= OrZero(l.locked_balances[a]) + (IF a = p THEN e ELSE 0)
    <2>1. CASE ~ locks
      <3>1. \A a \in Accounts : OrZero(l.locked_balances[a]) \in Nat
        BY DEF OrZero, Ledger
      <3>2. lock = l.locked_balances
        BY <2>1
      <3> HIDE DEF lock
      <3> QED BY <1>2, <3>1, <3>2
    <2>2. CASE locks
      <3>1. lock[p] = OrZero(l.locked_balances[p]) + e
        BY <2>2 DEF Ledger
      <3>2. OrZero(lock[p]) = OrZero(l.locked_balances[p]) + e
        <4>1. lock[p] \in Nat
          BY <1>2, <1>4, <3>1
        <4>2. lock[p] # None
          BY <4>1, MarkerAssumption
        <4> HIDE DEF lock
        <4> QED BY <4>2, <3>1 DEF OrZero
      <3>3. \A a \in Accounts : OrZero(l.locked_balances[a]) \in Nat
        BY DEF OrZero, Ledger
      <3> HIDE DEF lock
      <3> QED BY <1>2, <1>5, <3>2, <3>3
    <2> QED BY <2>1, <2>2
  <1>7. h + RewardMaturity \in UnlockHeights
    BY LedgerAssumption DEF UnlockHeights
  <1>8. /\ pend \in [UnlockHeights -> Reward \cup {None}]
        /\ \A k \in UnlockHeights : k # h + RewardMaturity \/ ~ locks =>
              pend[k] = l.pending_rewards[k]
    BY <1>2, <1>7 DEF Ledger, Reward
  <1>9. EmitReward(l, h, p) =
            [height |-> h, issued |-> l.issued + e, balances |-> bal,
             next_nonces |-> l.next_nonces, locked_balances |-> lock,
             pending_rewards |-> pend]
    BY DEF EmitReward, e
  <1>10. \A a \in Accounts : OrZero(lock[a]) <= OrZero(bal[a])
    <2> SUFFICES ASSUME NEW a \in Accounts PROVE OrZero(lock[a]) <= OrZero(bal[a])
      OBVIOUS
    <2>1. OrZero(l.locked_balances[a]) <= OrZero(l.balances[a])
      BY DEF LockedBalance, Balance
    <2>2. /\ OrZero(l.locked_balances[a]) \in Nat
          /\ OrZero(l.balances[a]) \in Nat
          /\ OrZero(lock[a]) \in Nat
      <3> HIDE DEF lock
      <3> QED BY <1>5 DEF OrZero, Ledger
    <2> HIDE DEF lock, bal
    <2> QED BY <1>2, <1>3, <1>6, <2>1, <2>2
  <1> HIDE DEF bal, lock, pend
  <1>11. EmitReward(l, h, p) \in Ledger
    BY <1>1, <1>2, <1>3, <1>5, <1>8, <1>9 DEF Ledger
  <1> QED
    BY <1>1, <1>2, <1>3, <1>5, <1>8, <1>9, <1>10, <1>11 DEF Balance, LockedBalance, e

-----------------------------------------------------------------------------
(* Undo records.                                                           *)

\* The undo map leads a map back to its base.
Inverts(map, undo_map, base, keys) ==
    \A k \in keys : IF undo_map[k] = Untouched THEN map[k] = base[k]
                    ELSE undo_map[k] = base[k]

\* UndoBlock, read map by map.
LEMMA UndoByField ==
    ASSUME NEW l \in Ledger, NEW u \in Undo, NEW base \in Ledger
    PROVE  UndoBlock(l, u) = base
             <=> /\ u.height = base.height
                 /\ u.issued = base.issued
                 /\ Inverts(l.balances, u.balances, base.balances, Accounts)
                 /\ Inverts(l.next_nonces, u.next_nonces, base.next_nonces, Accounts)
                 /\ Inverts(l.locked_balances, u.locked_balances, base.locked_balances,
                            Accounts)
                 /\ Inverts(l.pending_rewards, u.pending_rewards, base.pending_rewards,
                            UnlockHeights)
  <1>1. ASSUME NEW K, NEW V, NEW m \in [K -> V], NEW um, NEW b \in [K -> V]
        PROVE  RestoreEntries(m, um) = b <=> Inverts(m, um, b, K)
    BY <1>1 DEF RestoreEntries, Inverts
  <1>2. UndoBlock(l, u) = base
          <=> /\ u.height = base.height
              /\ u.issued = base.issued
              /\ RestoreEntries(l.balances, u.balances) = base.balances
              /\ RestoreEntries(l.next_nonces, u.next_nonces) = base.next_nonces
              /\ RestoreEntries(l.locked_balances, u.locked_balances) = base.locked_balances
              /\ RestoreEntries(l.pending_rewards, u.pending_rewards) = base.pending_rewards
    BY DEF UndoBlock, Ledger
  <1>3. RestoreEntries(l.balances, u.balances) = base.balances
          <=> Inverts(l.balances, u.balances, base.balances, Accounts)
    BY <1>1 DEF Ledger
  <1>4. RestoreEntries(l.next_nonces, u.next_nonces) = base.next_nonces
          <=> Inverts(l.next_nonces, u.next_nonces, base.next_nonces, Accounts)
    BY <1>1 DEF Ledger
  <1>5. RestoreEntries(l.locked_balances, u.locked_balances) = base.locked_balances
          <=> Inverts(l.locked_balances, u.locked_balances, base.locked_balances, Accounts)
    BY <1>1 DEF Ledger
  <1>6. RestoreEntries(l.pending_rewards, u.pending_rewards) = base.pending_rewards
          <=> Inverts(l.pending_rewards, u.pending_rewards, base.pending_rewards,
                      UnlockHeights)
    BY <1>1 DEF Ledger
  <1> QED BY <1>2, <1>3, <1>4, <1>5, <1>6

\* Remembering the keys about to change keeps the undo map an inverse.
LEMMA RememberInverts ==
    ASSUME NEW K, NEW map, DOMAIN map = K, NEW after, NEW um, NEW base, NEW keys,
           Inverts(map, um, base, K),
           \A k \in K : map[k] # Untouched,
           \A k \in K : k \notin keys => after[k] = map[k]
    PROVE  Inverts(after, Remember(um, map, keys), base, K)
  BY DEF Inverts, Remember

\* No ledger map holds the undo marker.
LEMMA NoMarkerInLedger ==
    ASSUME NEW l \in Ledger
    PROVE  /\ \A a \in Accounts : l.balances[a] # Untouched
           /\ \A a \in Accounts : l.next_nonces[a] # Untouched
           /\ \A a \in Accounts : l.locked_balances[a] # Untouched
           /\ \A k \in UnlockHeights : l.pending_rewards[k] # Untouched
  BY MarkerAssumption DEF Ledger, Reward

\* Opening a preparation: the undo record of what is about to unlock inverts
\* the unchanged clone.
LEMMA BeginReversible ==
    ASSUME NEW l \in Ledger, NEW h \in Nat
    PROVE  /\ UndoBlock(l, RememberMatured(l, NewUndo(l), h)) = l
           /\ \A k \in Matured(l, h) :
                 /\ RememberMatured(l, NewUndo(l), h).pending_rewards[k] # Untouched
                 /\ RememberMatured(l, NewUndo(l), h)
                       .locked_balances[l.pending_rewards[k].pk] # Untouched
  <1> DEFINE u    == NewUndo(l)
             due  == Matured(l, h)
             keys == {l.pending_rewards[k].pk : k \in due}
             lb   == Remember(u.locked_balances, l.locked_balances, keys)
             pr   == [k \in UnlockHeights |->
                        IF k \in due THEN l.pending_rewards[k] ELSE u.pending_rewards[k]]
             v    == RememberMatured(l, u, h)
  <1>1. u \in Undo /\ v \in Undo
    BY NewUndoType, RememberMaturedType
  <1>2. v = [u EXCEPT !.locked_balances = lb, !.pending_rewards = pr]
    BY DEF RememberMatured
  <1>3. /\ v.height = l.height /\ v.issued = l.issued
        /\ v.balances = [a \in Accounts |-> Untouched]
        /\ v.next_nonces = [a \in Accounts |-> Untouched]
        /\ v.locked_balances = lb /\ v.pending_rewards = pr
    <2> HIDE DEF lb, pr
    <2> QED BY <1>2 DEF NewUndo
  <1>4. Inverts(l.locked_balances, lb, l.locked_balances, Accounts)
    <2>1. Inverts(l.locked_balances, u.locked_balances, l.locked_balances, Accounts)
      BY DEF Inverts, NewUndo
    <2>2. DOMAIN l.locked_balances = Accounts
      BY DEF Ledger
    <2> QED BY <2>1, <2>2, RememberInverts, NoMarkerInLedger
  <1>5. Inverts(l.pending_rewards, pr, l.pending_rewards, UnlockHeights)
    BY DEF Inverts, NewUndo
  <1>6. Inverts(l.balances, v.balances, l.balances, Accounts)
    BY <1>3 DEF Inverts
  <1>7. Inverts(l.next_nonces, v.next_nonces, l.next_nonces, Accounts)
    BY <1>3 DEF Inverts
  <1>8. UndoBlock(l, v) = l
    <2> HIDE DEF v, lb, pr
    <2> QED BY <1>1, <1>3, <1>4, <1>5, <1>6, <1>7, UndoByField
  <1>9. ASSUME NEW k \in due
        PROVE  pr[k] # Untouched /\ lb[l.pending_rewards[k].pk] # Untouched
    <2>1. k \in UnlockHeights /\ l.pending_rewards[k].pk \in Accounts
      BY MaturedFacts
    <2>2. l.pending_rewards[k].pk \in keys
      OBVIOUS
    <2>3. DOMAIN l.locked_balances = Accounts
      BY DEF Ledger
    <2> QED BY <2>1, <2>2, <2>3, NoMarkerInLedger DEF Remember
  <1> QED
    <2> HIDE DEF v, lb, pr
    <2> QED BY <1>3, <1>8, <1>9 DEF v

\* Unlocking a reward whose keys are recorded keeps the record an inverse.
LEMMA UnlockReversible ==
    ASSUME NEW l \in Ledger, NEW u \in Undo, NEW base \in Ledger, NEW h \in Nat,
           NEW k \in Matured(l, h), UnlockPossible(l, k), UndoBlock(l, u) = base,
           u.pending_rewards[k] # Untouched,
           u.locked_balances[l.pending_rewards[k].pk] # Untouched
    PROVE  UndoBlock(UnlockReward(l, k), u) = base
  <1> DEFINE n == UnlockReward(l, k)
  <1>1. n \in Ledger
    BY UnlockType
  <1>2. /\ u.height = base.height /\ u.issued = base.issued
        /\ Inverts(l.balances, u.balances, base.balances, Accounts)
        /\ Inverts(l.next_nonces, u.next_nonces, base.next_nonces, Accounts)
        /\ Inverts(l.locked_balances, u.locked_balances, base.locked_balances, Accounts)
        /\ Inverts(l.pending_rewards, u.pending_rewards, base.pending_rewards, UnlockHeights)
    BY UndoByField
  <1>3. Inverts(n.balances, u.balances, base.balances, Accounts)
    BY <1>2, UnlockType
  <1>4. Inverts(n.next_nonces, u.next_nonces, base.next_nonces, Accounts)
    BY <1>2, UnlockType
  <1>5. Inverts(n.locked_balances, u.locked_balances, base.locked_balances, Accounts)
    BY <1>2, UnlockType DEF Inverts
  <1>6. Inverts(n.pending_rewards, u.pending_rewards, base.pending_rewards, UnlockHeights)
    BY <1>2, UnlockType DEF Inverts
  <1> HIDE DEF n
  <1>7. UndoBlock(n, u) = base
    BY <1>1, <1>2, <1>3, <1>4, <1>5, <1>6, UndoByField
  <1> QED BY <1>7 DEF n

\* A committed transfer, with its keys remembered first, can be undone.
LEMMA TransferReversible ==
    ASSUME NEW l \in Ledger, NEW u \in Undo, NEW base \in Ledger, NEW h \in Nat,
           NEW p \in Accounts, NEW t \in EnvelopeType, Transferable(l, h, t),
           \A a \in Accounts : LockedBalance(l, a) <= Balance(l, a),
           UndoBlock(l, u) = base
    PROVE  /\ RememberTransfer(l, u, p, t) \in Undo
           /\ UndoBlock(CommitTransfer(l, p, t), RememberTransfer(l, u, p, t)) = base
  <1> DEFINE n  == CommitTransfer(l, p, t)
             v  == RememberTransfer(l, u, p, t)
             vb == Remember(u.balances, l.balances, StagedKeys(p, t))
             vn == Remember(u.next_nonces, l.next_nonces, {t.from})
  <1>1. n \in Ledger
    BY TransferFacts
  <1>2. /\ vb \in [Accounts -> Nat \cup {None, Untouched}]
        /\ vn \in [Accounts -> Nat \cup {None, Untouched}]
    BY RememberType DEF Ledger, Undo
  <1>3. v = [u EXCEPT !.balances = vb, !.next_nonces = vn]
    BY DEF RememberTransfer
  <1>4. /\ v \in Undo
        /\ v.height = u.height /\ v.issued = u.issued
        /\ v.balances = vb /\ v.next_nonces = vn
        /\ v.locked_balances = u.locked_balances
        /\ v.pending_rewards = u.pending_rewards
    <2> HIDE DEF vb, vn
    <2> QED BY <1>2, <1>3 DEF Undo
  <1>5. /\ u.height = base.height /\ u.issued = base.issued
        /\ Inverts(l.balances, u.balances, base.balances, Accounts)
        /\ Inverts(l.next_nonces, u.next_nonces, base.next_nonces, Accounts)
        /\ Inverts(l.locked_balances, u.locked_balances, base.locked_balances, Accounts)
        /\ Inverts(l.pending_rewards, u.pending_rewards, base.pending_rewards, UnlockHeights)
    BY UndoByField
  <1>6. DOMAIN l.balances = Accounts /\ DOMAIN l.next_nonces = Accounts
    BY DEF Ledger
  <1>7. Inverts(n.balances, vb, base.balances, Accounts)
    <2>1. \A a \in Accounts : a \notin StagedKeys(p, t) => n.balances[a] = l.balances[a]
      BY TransferFacts
    <2> HIDE DEF n
    <2> QED BY <1>5, <1>6, <2>1, RememberInverts, NoMarkerInLedger
  <1>8. Inverts(n.next_nonces, vn, base.next_nonces, Accounts)
    <2>1. \A a \in Accounts : a \notin {t.from} => n.next_nonces[a] = l.next_nonces[a]
      BY TransferFacts
    <2> HIDE DEF n
    <2> QED BY <1>5, <1>6, <2>1, RememberInverts, NoMarkerInLedger
  <1>9. n.locked_balances = l.locked_balances /\ n.pending_rewards = l.pending_rewards
    BY TransferFacts
  <1> HIDE DEF n, v, vb, vn
  <1>10. UndoBlock(n, v) = base
    BY <1>1, <1>4, <1>5, <1>7, <1>8, <1>9, UndoByField
  <1> QED BY <1>4, <1>10 DEF n, v

\* So can the emission, its lock and its pending reward.
LEMMA EmissionReversible ==
    ASSUME NEW l \in Ledger, NEW u \in Undo, NEW base \in Ledger,
           NEW p \in Accounts, NEW h \in 1 .. MaxHeight, l.issued <= TotalSupply,
           \A a \in Accounts : LockedBalance(l, a) <= Balance(l, a),
           UndoBlock(l, u) = base
    PROVE  /\ RememberEmission(l, u, h, p) \in Undo
           /\ UndoBlock(EmitReward(l, h, p), RememberEmission(l, u, h, p)) = base
  <1> DEFINE n  == EmitReward(l, h, p)
             v  == RememberEmission(l, u, h, p)
             emits == Emission(h, l.issued) # 0
             locks == emits /\ RewardMaturity # 0
             kb == IF emits THEN {p} ELSE {}
             kl == IF locks THEN {p} ELSE {}
             kp == IF locks THEN {h + RewardMaturity} ELSE {}
             vb == Remember(u.balances, l.balances, kb)
             vl == Remember(u.locked_balances, l.locked_balances, kl)
             vp == Remember(u.pending_rewards, l.pending_rewards, kp)
  <1>1. n \in Ledger
    BY EmissionFacts
  <1>2. /\ vb \in [Accounts -> Nat \cup {None, Untouched}]
        /\ vl \in [Accounts -> Nat \cup {None, Untouched}]
        /\ vp \in [UnlockHeights -> Reward \cup {None, Untouched}]
    BY RememberType DEF Ledger, Undo
  <1>3. v = [u EXCEPT !.balances = vb, !.locked_balances = vl, !.pending_rewards = vp]
    BY DEF RememberEmission
  <1>4. /\ v \in Undo
        /\ v.height = u.height /\ v.issued = u.issued
        /\ v.balances = vb /\ v.next_nonces = u.next_nonces
        /\ v.locked_balances = vl /\ v.pending_rewards = vp
    <2> HIDE DEF vb, vl, vp
    <2> QED BY <1>2, <1>3 DEF Undo
  <1>5. /\ u.height = base.height /\ u.issued = base.issued
        /\ Inverts(l.balances, u.balances, base.balances, Accounts)
        /\ Inverts(l.next_nonces, u.next_nonces, base.next_nonces, Accounts)
        /\ Inverts(l.locked_balances, u.locked_balances, base.locked_balances, Accounts)
        /\ Inverts(l.pending_rewards, u.pending_rewards, base.pending_rewards, UnlockHeights)
    BY UndoByField
  <1>6. /\ DOMAIN l.balances = Accounts /\ DOMAIN l.locked_balances = Accounts
        /\ DOMAIN l.pending_rewards = UnlockHeights
    BY DEF Ledger
  <1>7. Inverts(n.balances, vb, base.balances, Accounts)
    <2>1. \A a \in Accounts : a \notin kb => n.balances[a] = l.balances[a]
      BY EmissionFacts
    <2> HIDE DEF n, kb
    <2> QED BY <1>5, <1>6, <2>1, RememberInverts, NoMarkerInLedger
  <1>8. Inverts(n.locked_balances, vl, base.locked_balances, Accounts)
    <2>1. \A a \in Accounts : a \notin kl => n.locked_balances[a] = l.locked_balances[a]
      BY EmissionFacts
    <2> HIDE DEF n, kl
    <2> QED BY <1>5, <1>6, <2>1, RememberInverts, NoMarkerInLedger
  <1>9. Inverts(n.pending_rewards, vp, base.pending_rewards, UnlockHeights)
    <2>1. \A k \in UnlockHeights : k \notin kp => n.pending_rewards[k] = l.pending_rewards[k]
      BY EmissionFacts
    <2> HIDE DEF n, kp
    <2> QED BY <1>5, <1>6, <2>1, RememberInverts, NoMarkerInLedger
  <1>10. n.next_nonces = l.next_nonces
    BY EmissionFacts
  <1> HIDE DEF n, v, vb, vl, vp
  <1>11. UndoBlock(n, v) = base
    BY <1>1, <1>4, <1>5, <1>7, <1>8, <1>9, <1>10, UndoByField
  <1> QED BY <1>4, <1>11 DEF n, v

-----------------------------------------------------------------------------
(* The inductive invariant.                                                *)

\* What is true of a ledger at every height, on the chain and in preparation.
Sound(l) ==
    /\ l.issued <= TotalSupply
    /\ \A a \in Accounts : LockedBalance(l, a) <= Balance(l, a)

\* Every ledger the node keeps is sound.
SoundLedgers ==
    /\ Sound(ledger)
    /\ Sound(staged)
    /\ \A i \in 1 .. Len(history) : Sound(history[i])

\* What remains to be unlocked is already in the undo record.
Noted ==
    stage = "unlocking" =>
        \A k \in Matured(staged, Height) :
            /\ undo.pending_rewards[k] # Untouched
            /\ undo.locked_balances[staged.pending_rewards[k].pk] # Untouched

\* A ledger's height is its place in the chain.
Heights ==
    /\ stage # "idle" => ledger.height < MaxHeight
    /\ stage = "prepared" => staged.height = ledger.height + 1
    /\ \A i \in 1 .. Len(history) : history[i].height = i - 1

\* Each retained record leads the ledger of one height to that of the height below.
WindowInverts ==
    /\ Len(recent_undo) <= Len(blocks)
    /\ \A j \in 1 .. Len(recent_undo) :
          UndoBlock(history[EarliestForkHeight + j + 1], recent_undo[j])
              = history[EarliestForkHeight + j]

\* The inductive invariant: types, soundness, and the undo records that invert blocks.
LedgerInv ==
    /\ LedgerTypeOK
    /\ SoundLedgers
    /\ PreparationReversible
    /\ Noted
    /\ Heights
    /\ UndoExact
    /\ WindowInverts

\* The values of `block` the steps build are blocks.
LEMMA BlockTypes ==
    /\ \A p \in Accounts : [reward_pk |-> p, transfers |-> <<>>, reward |-> 0] \in Block
    /\ \A b \in Block, t \in Envelopes :
          [b EXCEPT !.transfers = Append(@, t)] \in Block
    /\ \A b \in Block, n \in Nat : [b EXCEPT !.reward = n] \in Block
  <1>1. <<>> \in Seq(Envelopes)
    OBVIOUS
  <1>2. \A s \in Seq(Envelopes), t \in Envelopes : Append(s, t) \in Seq(Envelopes)
    OBVIOUS
  <1>3. \A p \in Accounts : [reward_pk |-> p, transfers |-> <<>>, reward |-> 0] \in Block
    BY <1>1 DEF Block
  <1>4. ASSUME NEW b \in Block, NEW t \in Envelopes
        PROVE  [b EXCEPT !.transfers = Append(@, t)] \in Block
    <2> DEFINE s == Append(b.transfers, t)
    <2>1. s \in Seq(Envelopes)
      BY <1>2 DEF Block
    <2> HIDE DEF s
    <2>2. [b EXCEPT !.transfers = s] \in Block
      BY <2>1 DEF Block
    <2> QED BY <2>2 DEF s
  <1>5. \A b \in Block, n \in Nat : [b EXCEPT !.reward = n] \in Block
    BY DEF Block
  <1> QED BY <1>3, <1>4, <1>5

\* Genesis satisfies the inductive invariant.
LEMMA InitLedgerInv == LedgerInit => LedgerInv
  <1> SUFFICES ASSUME LedgerInit PROVE LedgerInv
    OBVIOUS
  <1> USE DEF LedgerInit
  <1>1. LedgerTypeOK
    <2>1. NoBlock \in Block
      BY BlockTypes, ChainAssumption DEF NoBlock
    <2> QED BY <2>1, GenesisType, NewUndoType DEF LedgerTypeOK, Stages
  <1>2. Sound(GenesisLedger)
    BY LedgerAssumption DEF Sound, GenesisLedger, LockedBalance, Balance, OrZero
  <1>3. SoundLedgers
    BY <1>2 DEF SoundLedgers
  <1>4. PreparationReversible /\ Noted /\ Heights
    BY DEF PreparationReversible, Noted, Heights, GenesisLedger
  <1>5. UndoExact /\ WindowInverts
    BY DEF UndoExact, WindowInverts, GenesisLedger
  <1> QED BY <1>1, <1>3, <1>4, <1>5 DEF LedgerInv

\* Dropping a preparation leaves the committed chain as it was.
LEMMA DropIInv ==
    ASSUME LedgerInv, Drop
    PROVE  LedgerInv'
  <1> USE DEF Drop
  <1>1. LedgerTypeOK'
    <2>1. NoBlock \in Block
      BY BlockTypes, ChainAssumption DEF NoBlock
    <2> QED BY <2>1, NewUndoType DEF LedgerInv, LedgerTypeOK, Stages
  <1>2. SoundLedgers'
    BY DEF LedgerInv, SoundLedgers, Sound, LockedBalance, Balance
  <1>3. PreparationReversible' /\ Noted' /\ Heights'
    BY DEF LedgerInv, PreparationReversible, Noted, Heights
  <1>4. UndoExact' /\ WindowInverts'
    BY DEF LedgerInv, UndoExact, WindowInverts, EarliestForkHeight
  <1> QED BY <1>1, <1>2, <1>3, <1>4 DEF LedgerInv

\* A step of a preparation: it changes only the staged ledger and its record.
LEMMA StagedStep ==
    ASSUME LedgerInv, UNCHANGED <<ledger, blocks, recent_undo, history>>,
           stage' \in Stages \ {"idle"}, staged' \in Ledger, undo' \in Undo, block' \in Block,
           Sound(staged'), UndoBlock(staged', undo') = ledger,
           ledger.height < MaxHeight, Noted',
           stage' = "prepared" => staged'.height = ledger.height + 1
    PROVE  LedgerInv'
  <1>1. LedgerTypeOK'
    BY DEF LedgerInv, LedgerTypeOK
  <1>2. SoundLedgers'
    BY DEF LedgerInv, SoundLedgers, Sound, LockedBalance, Balance
  <1>3. PreparationReversible' /\ Heights'
    BY DEF LedgerInv, PreparationReversible, Heights
  <1>4. UndoExact' /\ WindowInverts'
    BY DEF LedgerInv, UndoExact, WindowInverts, EarliestForkHeight
  <1> QED BY <1>1, <1>2, <1>3, <1>4 DEF LedgerInv

\* Opening a preparation keeps it.
LEMMA BeginIInv ==
    ASSUME LedgerInv, NEW p \in Accounts, BeginBlock(p)
    PROVE  LedgerInv'
  <1> DEFINE h == ledger.height + 1
             v == RememberMatured(ledger, NewUndo(ledger), h)
  <1>1. ledger \in Ledger /\ h \in Nat
    BY DEF LedgerInv, LedgerTypeOK, Ledger
  <1>2. /\ stage' = "unlocking" /\ staged' = ledger /\ undo' = v
        /\ ledger.height < MaxHeight
        /\ UNCHANGED <<ledger, blocks, recent_undo, history>>
        /\ block' = [reward_pk |-> p, transfers |-> <<>>, reward |-> 0]
    BY DEF BeginBlock
  <1>3. v \in Undo
    BY <1>1, NewUndoType, RememberMaturedType
  <1>4. block' \in Block
    BY <1>2, BlockTypes
  <1>5. /\ UndoBlock(ledger, v) = ledger
        /\ \A k \in Matured(ledger, h) :
              /\ v.pending_rewards[k] # Untouched
              /\ v.locked_balances[ledger.pending_rewards[k].pk] # Untouched
    BY <1>1, BeginReversible
  <1> HIDE DEF v
  <1>6. Noted'
    BY <1>2, <1>5 DEF Noted, Height
  <1>7. Sound(staged')
    BY <1>2 DEF LedgerInv, SoundLedgers
  <1>8. stage' \in Stages \ {"idle"}
    BY <1>2 DEF Stages
  <1> QED BY <1>1, <1>2, <1>3, <1>4, <1>5, <1>6, <1>7, <1>8, StagedStep

\* Unlocking one due reward keeps it.
LEMMA UnlockIInv ==
    ASSUME LedgerInv, NEW k, UnlockOne(k)
    PROVE  LedgerInv'
  <1>1. /\ stage = "unlocking" /\ UnlockPossible(staged, k)
        /\ staged' = UnlockReward(staged, k)
        /\ UNCHANGED <<ledger, blocks, recent_undo, stage, undo, block, history>>
    BY DEF UnlockOne
  <1>2. k \in Matured(staged, Height)
    BY DEF UnlockOne
  <1>3. /\ staged \in Ledger /\ ledger \in Ledger /\ undo \in Undo /\ block \in Block
        /\ Height \in Nat
    BY DEF LedgerInv, LedgerTypeOK, Ledger, Height
  <1>4. /\ undo.pending_rewards[k] # Untouched
        /\ undo.locked_balances[staged.pending_rewards[k].pk] # Untouched
        /\ UndoBlock(staged, undo) = ledger
    BY <1>1, <1>2 DEF LedgerInv, Noted, PreparationReversible
  <1>5. staged' \in Ledger
    BY <1>1, <1>2, <1>3, UnlockType
  <1>6. UndoBlock(staged', undo') = ledger
    BY <1>1, <1>2, <1>3, <1>4, UnlockReversible
  <1>7. Sound(staged')
    <2>1. /\ staged'.issued = staged.issued /\ staged'.balances = staged.balances
          /\ \A a \in Accounts : LockedBalance(staged', a) <= LockedBalance(staged, a)
      BY <1>1, <1>2, <1>3, UnlockType
    <2>2. /\ staged.issued <= TotalSupply
          /\ \A a \in Accounts : LockedBalance(staged, a) <= Balance(staged, a)
      BY DEF LedgerInv, SoundLedgers, Sound
    <2>3. \A a \in Accounts : /\ Balance(staged, a) \in Nat
                              /\ LockedBalance(staged, a) \in Nat
                              /\ LockedBalance(staged', a) \in Nat
      BY <1>3, <1>5 DEF Balance, LockedBalance, OrZero, Ledger
    <2>4. \A a \in Accounts : Balance(staged', a) = Balance(staged, a)
      BY <2>1 DEF Balance
    <2> QED BY <2>1, <2>2, <2>3, <2>4 DEF Sound
  <1>8. Noted'
    <2> SUFFICES ASSUME NEW j \in Matured(staged', Height')
                 PROVE  /\ undo.pending_rewards[j] # Untouched
                        /\ undo.locked_balances[staged'.pending_rewards[j].pk] # Untouched
      BY <1>1 DEF Noted
    <2>1. /\ j \in Matured(staged, Height)
          /\ staged'.pending_rewards[j] = staged.pending_rewards[j]
      <3>1. /\ j \in UnlockHeights /\ j <= Height /\ staged'.pending_rewards[j] # None
        BY <1>1 DEF Matured, Height
      <3>2. staged'.pending_rewards[j] = IF j = k THEN None ELSE staged.pending_rewards[j]
        BY <1>1, <1>2, <1>3, <3>1, UnlockType
      <3> QED BY <3>1, <3>2 DEF Matured
    <2> QED BY <1>1, <2>1 DEF LedgerInv, Noted
  <1>9. stage' \in Stages \ {"idle"} /\ ledger.height < MaxHeight
    BY <1>1 DEF Stages, LedgerInv, Heights
  <1> QED BY <1>1, <1>3, <1>5, <1>6, <1>7, <1>8, <1>9, StagedStep

\* Leaving the unlock loop keeps it.
LEMMA UnlockDoneIInv ==
    ASSUME LedgerInv, UnlockDone
    PROVE  LedgerInv'
  <1>1. /\ stage = "unlocking" /\ stage' = "settling"
        /\ UNCHANGED <<ledger, blocks, recent_undo, staged, undo, block, history>>
    BY DEF UnlockDone
  <1>2. /\ staged' \in Ledger /\ undo' \in Undo /\ block' \in Block
        /\ UndoBlock(staged', undo') = ledger
        /\ ledger.height < MaxHeight
    BY <1>1 DEF LedgerInv, LedgerTypeOK, PreparationReversible, Heights
  <1>3. Sound(staged') /\ Noted'
    BY <1>1 DEF LedgerInv, SoundLedgers, Noted
  <1>4. stage' \in Stages \ {"idle"}
    BY <1>1 DEF Stages
  <1> QED BY <1>1, <1>2, <1>3, <1>4, StagedStep

\* Settling one transfer keeps it.
LEMMA SettleIInv ==
    ASSUME LedgerInv, NEW t \in Envelopes, SettleTransfer(t)
    PROVE  LedgerInv'
  <1> DEFINE p == block.reward_pk
  <1>1. /\ stage = "settling" /\ Transferable(staged, Height, t)
        /\ staged' = CommitTransfer(staged, p, t)
        /\ undo' = RememberTransfer(staged, undo, p, t)
        /\ block' = [block EXCEPT !.transfers = Append(@, t)]
        /\ UNCHANGED <<ledger, blocks, recent_undo, stage, history>>
    BY DEF SettleTransfer
  <1>2. /\ staged \in Ledger /\ ledger \in Ledger /\ undo \in Undo /\ block \in Block
        /\ Height \in Nat /\ p \in Accounts /\ t \in EnvelopeType
    <2>1. staged \in Ledger /\ ledger \in Ledger /\ undo \in Undo /\ block \in Block
      BY DEF LedgerInv, LedgerTypeOK
    <2>2. Height \in Nat
      BY <2>1 DEF Ledger, Height
    <2>3. p \in Accounts
      BY <2>1 DEF Block
    <2> QED BY <2>1, <2>2, <2>3, EnvelopeAssumption
  <1>3. /\ UndoBlock(staged, undo) = ledger
        /\ staged.issued <= TotalSupply
        /\ \A a \in Accounts : LockedBalance(staged, a) <= Balance(staged, a)
        /\ ledger.height < MaxHeight
    BY <1>1 DEF LedgerInv, PreparationReversible, SoundLedgers, Sound, Heights
  <1> HIDE DEF p
  <1>4. staged' \in Ledger /\ Sound(staged')
    BY <1>1, <1>2, <1>3, TransferFacts DEF Sound
  <1>5. undo' \in Undo /\ UndoBlock(staged', undo') = ledger
    BY <1>1, <1>2, <1>3, TransferReversible
  <1>6. block' \in Block
    BY <1>1, <1>2, BlockTypes
  <1>7. Noted' /\ stage' \in Stages \ {"idle"}
    BY <1>1 DEF Noted, Stages
  <1> QED BY <1>1, <1>3, <1>4, <1>5, <1>6, <1>7, StagedStep

\* The emission keeps it.
LEMMA EmissionIInv ==
    ASSUME LedgerInv, SettleEmission
    PROVE  LedgerInv'
  <1> DEFINE p == block.reward_pk
  <1>1. /\ stage = "settling" /\ stage' = "prepared"
        /\ staged' = EmitReward(staged, Height, p)
        /\ undo' = RememberEmission(staged, undo, Height, p)
        /\ block' = [block EXCEPT !.reward = Emission(Height, staged.issued)]
        /\ UNCHANGED <<ledger, blocks, recent_undo, history>>
    BY DEF SettleEmission
  <1>2. /\ UndoBlock(staged, undo) = ledger
        /\ staged.issued <= TotalSupply
        /\ \A a \in Accounts : LockedBalance(staged, a) <= Balance(staged, a)
        /\ ledger.height < MaxHeight
    BY <1>1 DEF LedgerInv, PreparationReversible, SoundLedgers, Sound, Heights
  <1>3. /\ staged \in Ledger /\ ledger \in Ledger /\ undo \in Undo /\ block \in Block
        /\ p \in Accounts /\ staged.issued \in Nat
    BY DEF LedgerInv, LedgerTypeOK, Ledger, Block
  <1>4. Height \in 1 .. MaxHeight
    BY <1>2, <1>3, LedgerAssumption DEF Height, Ledger
  <1> HIDE DEF p
  <1>5. staged' \in Ledger /\ Sound(staged')
    BY <1>1, <1>2, <1>3, <1>4, EmissionFacts DEF Sound
  <1>6. undo' \in Undo /\ UndoBlock(staged', undo') = ledger
    BY <1>1, <1>2, <1>3, <1>4, EmissionReversible
  <1>7. block' \in Block
    <2>1. Emission(Height, staged.issued) \in Nat
      <3>1. Height \in 1 .. MaxHeight /\ staged.issued \in Nat /\ staged.issued <= TotalSupply
        BY <1>2, <1>3, <1>4
      <3> QED BY ONLY <3>1, EmissionBound
    <2> QED BY <1>1, <1>3, <2>1, BlockTypes
  <1>8. Noted' /\ stage' \in Stages \ {"idle"}
    BY <1>1 DEF Noted, Stages
  <1>9. staged'.height = ledger.height + 1
    BY <1>1, <1>2, <1>3, <1>4, EmissionFacts DEF Height
  <1> QED BY <1>1, <1>2, <1>5, <1>6, <1>7, <1>8, <1>9, StagedStep

\* A commit keeps it: the new undo record leads back to the ledger below, and the
\* records that stay in the window still line up with the history.
LEMMA CommitIInv ==
    ASSUME LedgerInv, CommitBlock
    PROVE  LedgerInv'
  <1>1. /\ stage = "prepared" /\ stage' = "idle" /\ ledger' = staged
        /\ blocks' = Append(blocks, block)
        /\ recent_undo' = PushUndo(recent_undo, undo)
        /\ undo' = NewUndo(staged) /\ block' = NoBlock
        /\ history' = Append(history, staged) /\ staged' = staged
    BY DEF CommitBlock
  <1>2. /\ ledger \in Ledger /\ staged \in Ledger /\ undo \in Undo /\ block \in Block
        /\ blocks \in Seq(Block) /\ recent_undo \in Seq(Undo) /\ history \in Seq(Ledger)
        /\ Len(recent_undo) \in Nat /\ Len(blocks) \in Nat /\ Len(history) \in Nat
    BY DEF LedgerInv, LedgerTypeOK
  <1>3. /\ Len(history) = Len(blocks) + 1
        /\ ledger = history[Len(history)]
        /\ ledger.height = Len(blocks)
        /\ staged.height = ledger.height + 1
        /\ UndoBlock(staged, undo) = ledger
    BY <1>1 DEF LedgerInv, UndoExact, Heights, PreparationReversible
  <1> DEFINE pushed == Append(recent_undo, undo)
  <1>4. /\ pushed \in Seq(Undo)
        /\ Len(pushed) = Len(recent_undo) + 1
        /\ pushed[Len(pushed)] = undo
        /\ \A j \in 1 .. Len(recent_undo) : pushed[j] = recent_undo[j]
    BY <1>2
  <1>5. recent_undo' = IF Len(pushed) > RecentUndoBlocks THEN Tail(pushed) ELSE pushed
    BY <1>1 DEF PushUndo
  <1> HIDE DEF pushed
  <1>6. /\ recent_undo' \in Seq(Undo)
        /\ blocks' \in Seq(Block) /\ Len(blocks') = Len(blocks) + 1
        /\ history' \in Seq(Ledger) /\ Len(history') = Len(history) + 1
        /\ history'[Len(history) + 1] = staged
        /\ \A i \in 1 .. Len(history) : history'[i] = history[i]
    <2>1. Tail(pushed) \in Seq(Undo)
      BY <1>2, <1>4
    <2>2. recent_undo' \in Seq(Undo)
      BY <1>4, <1>5, <2>1
    <2> QED BY <1>1, <1>2, <2>2
  <1>7. LedgerTypeOK'
    <2>1. NoBlock \in Block
      BY BlockTypes, ChainAssumption DEF NoBlock
    <2> QED BY <1>1, <1>2, <1>6, <2>1, NewUndoType DEF LedgerTypeOK, Stages
  <1>8. SoundLedgers'
    <2>1. Sound(staged) /\ \A i \in 1 .. Len(history) : Sound(history[i])
      BY DEF LedgerInv, SoundLedgers
    <2>2. ASSUME NEW i \in 1 .. Len(history')
          PROVE  Sound(history'[i])
      <3>1. CASE i \in 1 .. Len(history)
        BY <1>6, <2>1, <3>1
      <3>2. CASE i = Len(history) + 1
        BY <1>6, <2>1, <3>2
      <3> QED BY <1>2, <1>6, <3>1, <3>2
    <2> QED BY <1>1, <2>1, <2>2 DEF SoundLedgers
  <1>9. PreparationReversible' /\ Noted'
    BY <1>1 DEF PreparationReversible, Noted
  <1>10. Heights' /\ UndoExact'
    <2>1. \A i \in 1 .. Len(history) : history[i].height = i - 1
      BY DEF LedgerInv, Heights
    <2>2. ASSUME NEW i \in 1 .. Len(history')
          PROVE  history'[i].height = i - 1
      <3>1. CASE i \in 1 .. Len(history)
        BY <1>6, <2>1, <3>1
      <3>2. CASE i = Len(history) + 1
        BY <1>2, <1>3, <1>6, <3>2
      <3> QED BY <1>2, <1>6, <3>1, <3>2
    <2> QED BY <1>1, <1>2, <1>3, <1>6, <2>2 DEF Heights, UndoExact
  <1>11. WindowInverts'
    <2> DEFINE n == Len(recent_undo)
               B == Len(blocks)
    <2>1. /\ n \in Nat /\ B \in Nat /\ n <= B
          /\ \A j \in 1 .. n : UndoBlock(history[B - n + j + 1], recent_undo[j])
                                  = history[B - n + j]
      BY <1>2 DEF LedgerInv, WindowInverts, EarliestForkHeight
    <2>2. \A j \in 1 .. n + 1 : UndoBlock(history'[B - n + j + 1], pushed[j])
                                   = history'[B - n + j]
      <3> SUFFICES ASSUME NEW j \in 1 .. n + 1
                   PROVE  UndoBlock(history'[B - n + j + 1], pushed[j])
                              = history'[B - n + j]
        OBVIOUS
      <3>1. CASE j \in 1 .. n
        <4>1. /\ history'[B - n + j + 1] = history[B - n + j + 1]
              /\ history'[B - n + j] = history[B - n + j]
              /\ pushed[j] = recent_undo[j]
          <5>1. B - n + j + 1 \in 1 .. Len(history) /\ B - n + j \in 1 .. Len(history)
            BY <1>3, <2>1, <3>1
          <5> QED BY <1>4, <1>6, <3>1, <5>1
        <4> QED BY <2>1, <3>1, <4>1
      <3>2. CASE j = n + 1
        <4>1. /\ history'[B - n + j + 1] = staged
              /\ history'[B - n + j] = ledger
              /\ pushed[j] = undo
          BY <1>3, <1>4, <1>6, <2>1, <3>2
        <4> QED BY <1>3, <4>1
      <3> QED BY <2>1, <3>1, <3>2
    <2>3. CASE Len(pushed) > RecentUndoBlocks
      <3>1. /\ Len(recent_undo') = n
            /\ \A j \in 1 .. n : recent_undo'[j] = pushed[j + 1]
        BY <1>2, <1>4, <1>5, <2>3
      <3>2. \A j \in 1 .. n : UndoBlock(history'[B + 1 - n + j + 1], recent_undo'[j])
                                 = history'[B + 1 - n + j]
        <4> SUFFICES ASSUME NEW j \in 1 .. n
                     PROVE  UndoBlock(history'[B + 1 - n + j + 1], recent_undo'[j])
                                = history'[B + 1 - n + j]
          OBVIOUS
        <4>1. /\ j + 1 \in 1 .. n + 1
              /\ B - n + (j + 1) + 1 = B + 1 - n + j + 1
              /\ B - n + (j + 1) = B + 1 - n + j
          BY <2>1
        <4> QED BY <2>2, <3>1, <4>1
      <3> QED BY <1>6, <2>1, <3>1, <3>2 DEF WindowInverts, EarliestForkHeight
    <2>4. CASE ~ (Len(pushed) > RecentUndoBlocks)
      <3>1. recent_undo' = pushed /\ Len(recent_undo') = n + 1
        BY <1>4, <1>5, <2>4
      <3>2. Len(blocks') - Len(recent_undo') = B - n
        BY <1>6, <2>1, <3>1
      <3>3. ASSUME NEW j \in 1 .. Len(recent_undo')
            PROVE  UndoBlock(history'[B - n + j + 1], recent_undo'[j]) = history'[B - n + j]
        BY <2>2, <3>1
      <3>4. EarliestForkHeight' = B - n
        BY <3>2 DEF EarliestForkHeight
      <3>5. Len(recent_undo') <= Len(blocks')
        BY <1>6, <2>1, <3>1
      <3> QED BY <3>3, <3>4, <3>5 DEF WindowInverts
    <2> QED BY <2>3, <2>4
  <1> QED BY <1>7, <1>8, <1>9, <1>10, <1>11 DEF LedgerInv

\* A roll-back keeps it: the last record restores the ledger one block below.
LEMMA RollBackIInv ==
    ASSUME LedgerInv, RollBack
    PROVE  LedgerInv'
  <1> DEFINE n == Len(recent_undo)
             B == Len(blocks)
             restored == UndoBlock(ledger, recent_undo[n])
  <1>1. /\ stage = "idle" /\ recent_undo # <<>> /\ ledger' = restored
        /\ staged' = restored /\ undo' = NewUndo(restored)
        /\ recent_undo' = SubSeq(recent_undo, 1, n - 1)
        /\ blocks' = SubSeq(blocks, 1, B - 1)
        /\ history' = SubSeq(history, 1, Len(history) - 1)
        /\ UNCHANGED <<stage, block>>
    BY DEF RollBack
  <1>2. /\ ledger \in Ledger /\ block \in Block
        /\ blocks \in Seq(Block) /\ recent_undo \in Seq(Undo) /\ history \in Seq(Ledger)
        /\ n \in Nat \ {0} /\ B \in Nat /\ Len(history) \in Nat
    BY <1>1 DEF LedgerInv, LedgerTypeOK
  <1>3. /\ Len(history) = B + 1 /\ ledger = history[B + 1] /\ ledger.height = B
        /\ n <= B
        /\ \A j \in 1 .. n : UndoBlock(history[B - n + j + 1], recent_undo[j])
                                = history[B - n + j]
    BY <1>2 DEF LedgerInv, UndoExact, WindowInverts, EarliestForkHeight
  <1>4. restored = history[B]
    <2>1. B - n + n + 1 = B + 1 /\ B - n + n = B /\ n \in 1 .. n
      BY <1>2
    <2> QED BY <1>3, <2>1
  <1> HIDE DEF restored
  <1>5. /\ blocks' \in Seq(Block) /\ Len(blocks') = B - 1
        /\ recent_undo' \in Seq(Undo) /\ Len(recent_undo') = n - 1
        /\ \A j \in 1 .. n - 1 : recent_undo'[j] = recent_undo[j]
        /\ history' \in Seq(Ledger) /\ Len(history') = B
        /\ \A i \in 1 .. B : history'[i] = history[i]
    <2>1. \A S : \A s \in Seq(S) : \A m \in 0 .. Len(s) :
             /\ SubSeq(s, 1, m) \in Seq(S)
             /\ Len(SubSeq(s, 1, m)) = m
             /\ \A i \in 1 .. m : SubSeq(s, 1, m)[i] = s[i]
      OBVIOUS
    <2>2. /\ B - 1 \in 0 .. Len(blocks)
          /\ n - 1 \in 0 .. Len(recent_undo)
          /\ Len(history) - 1 \in 0 .. Len(history) /\ Len(history) - 1 = B
      BY <1>2, <1>3
    <2>3. blocks' \in Seq(Block) /\ Len(blocks') = B - 1
      BY <1>1, <1>2, <2>1, <2>2
    <2>4. /\ recent_undo' \in Seq(Undo) /\ Len(recent_undo') = n - 1
          /\ \A j \in 1 .. n - 1 : recent_undo'[j] = recent_undo[j]
      BY <1>1, <1>2, <2>1, <2>2
    <2>5. /\ history' \in Seq(Ledger) /\ Len(history') = B
          /\ \A i \in 1 .. B : history'[i] = history[i]
      BY <1>1, <1>2, <2>1, <2>2
    <2> QED BY <2>3, <2>4, <2>5
  <1>6. restored \in Ledger
    BY <1>2, <1>3, <1>4
  <1>7. LedgerTypeOK'
    BY <1>1, <1>2, <1>5, <1>6, NewUndoType DEF LedgerTypeOK, Stages
  <1>8. SoundLedgers'
    <2>1. \A i \in 1 .. B + 1 : Sound(history[i])
      BY <1>3 DEF LedgerInv, SoundLedgers
    <2>2. B \in 1 .. B + 1
      BY <1>2, <1>3
    <2>3. Sound(restored) /\ \A i \in 1 .. Len(history') : Sound(history'[i])
      BY <1>2, <1>4, <1>5, <2>1, <2>2
    <2> QED BY <1>1, <2>3 DEF SoundLedgers
  <1>9. PreparationReversible' /\ Noted'
    BY <1>1 DEF PreparationReversible, Noted
  <1>10. Heights' /\ UndoExact'
    <2>1. \A i \in 1 .. B + 1 : history[i].height = i - 1
      BY <1>3 DEF LedgerInv, Heights
    <2>2. ASSUME NEW i \in 1 .. Len(history')
          PROVE  history'[i].height = i - 1
      <3>1. i \in 1 .. B /\ i \in 1 .. B + 1
        BY <1>2, <1>5
      <3>2. history'[i] = history[i]
        BY <1>5, <3>1
      <3> QED BY <2>1, <3>1, <3>2
    <2>3. restored.height = B - 1
      BY <1>2, <1>3, <1>4, <2>1
    <2>4. ledger' = history'[Len(history')]
      BY <1>1, <1>2, <1>3, <1>4, <1>5
    <2>5. Heights'
      BY <1>1, <2>2 DEF Heights
    <2>6. Len(history') = Len(blocks') + 1 /\ ledger'.height = Len(blocks')
      <3> HIDE DEF n, B
      <3> QED BY <1>1, <1>2, <1>5, <2>3
    <2> QED BY <2>4, <2>5, <2>6 DEF UndoExact
  <1>11. WindowInverts'
    <2>1. Len(blocks') - Len(recent_undo') = B - n
      BY <1>2, <1>5
    <2>2. ASSUME NEW j \in 1 .. n - 1
          PROVE  UndoBlock(history'[B - n + j + 1], recent_undo'[j]) = history'[B - n + j]
      <3>1. /\ B - n + j + 1 \in 1 .. B /\ B - n + j \in 1 .. B /\ j \in 1 .. n
        BY <1>2, <1>3
      <3> QED BY <1>3, <1>5, <3>1
    <2> QED BY <1>2, <1>3, <1>5, <2>1, <2>2 DEF WindowInverts, EarliestForkHeight
  <1> QED BY <1>7, <1>8, <1>9, <1>10, <1>11 DEF LedgerInv

-----------------------------------------------------------------------------
(* Theorems.                                                               *)

\* Every step of the chain keeps the inductive invariant.
LEMMA NextIInv == LedgerInv /\ [LedgerNext]_ledger_vars => LedgerInv'
  <1> SUFFICES ASSUME LedgerInv, [LedgerNext]_ledger_vars PROVE LedgerInv'
    OBVIOUS
  <1>1. ASSUME NEW p \in Accounts, BeginBlock(p) PROVE LedgerInv'
    BY <1>1, BeginIInv
  <1>2. ASSUME NEW k \in UnlockHeights, UnlockOne(k) PROVE LedgerInv'
    BY <1>2, UnlockIInv
  <1>3. CASE UnlockDone
    BY <1>3, UnlockDoneIInv
  <1>4. ASSUME NEW t \in Envelopes, SettleTransfer(t) PROVE LedgerInv'
    BY <1>4, SettleIInv
  <1>5. ASSUME NEW t \in Envelopes, RefuseTransfer(t) PROVE LedgerInv'
    BY <1>5, DropIInv DEF RefuseTransfer
  <1>6. CASE SettleEmission
    BY <1>6, EmissionIInv
  <1>7. CASE DropPrepared
    BY <1>7, DropIInv DEF DropPrepared
  <1>8. CASE CommitBlock
    BY <1>8, CommitIInv
  <1>9. CASE RollBack
    BY <1>9, RollBackIInv
  <1>10. CASE UNCHANGED ledger_vars
    BY <1>10 DEF ledger_vars, LedgerInv, LedgerTypeOK, SoundLedgers, Sound, LockedBalance, Balance,
                PreparationReversible, Noted, Height, Heights, UndoExact, WindowInverts,
                EarliestForkHeight
  <1> QED
    BY <1>1, <1>2, <1>3, <1>4, <1>5, <1>6, <1>7, <1>8, <1>9, <1>10 DEF LedgerNext

\* The inductive invariant holds of every behaviour.
THEOREM Invariance == LedgerSpec => []LedgerInv
  BY InitLedgerInv, NextIInv, PTL DEF LedgerSpec

\* Every map keeps its keys and its kind of values through any sequence of
\* preparations, commits and roll-backs.
THEOREM TypeCorrect == LedgerSpec => []LedgerTypeOK
  <1>1. LedgerInv => LedgerTypeOK
    BY DEF LedgerInv
  <1> QED BY <1>1, Invariance, PTL

\* fork_at and a full replay agree: at every height the roll-back restores the
\* ledger the chain had, however deep the window and whatever the blocks moved.
THEOREM RollBackExact == LedgerSpec => []UndoExact
  <1>1. LedgerInv => UndoExact
    BY DEF LedgerInv
  <1> QED BY <1>1, Invariance, PTL

\* At every step of prepare_block the undo record inverts what was staged.
THEOREM PreparationUndone == LedgerSpec => []PreparationReversible
  <1>1. LedgerInv => PreparationReversible
    BY DEF LedgerInv
  <1> QED BY <1>1, Invariance, PTL

\* No schedule and no sequence of blocks issues more than total_supply.
THEOREM SupplyCap == LedgerSpec => []SupplyCapped
  <1>1. LedgerInv => SupplyCapped
    BY DEF LedgerInv, SoundLedgers, Sound, SupplyCapped
  <1> QED BY <1>1, Invariance, PTL

\* spendable_balance never underflows: an account's locked rewards are covered
\* by its balance at every step of every block.
THEOREM LockedRewardsCovered == LedgerSpec => []LocksCovered
  <1>1. LedgerInv => LocksCovered
    BY DEF LedgerInv, SoundLedgers, Sound, LocksCovered
  <1> QED BY <1>1, Invariance, PTL

\* NativeLedger is reversible through its undo window and during a preparation,
\* and its values keep their shapes, for every supply, schedule and width.
THEOREM Reversible == LedgerSpec => []UndoSound
  <1>1. LedgerTypeOK /\ UndoExact /\ PreparationReversible => UndoSound
    BY DEF UndoSound
  <1> QED BY <1>1, TypeCorrect, RollBackExact, PreparationUndone, PTL

-----------------------------------------------------------------------------
(* The undo window.                                                        *)

\* A prefix of a sequence is a prefix of what is appended to it, or left of it.
LEMMA PrefixKept ==
    ASSUME NEW S, NEW s \in Seq(S), NEW m \in 0 .. Len(s)
    PROVE  /\ \A e \in S : SubSeq(Append(s, e), 1, m) = SubSeq(s, 1, m)
           /\ \A k \in m .. Len(s) : SubSeq(SubSeq(s, 1, k), 1, m) = SubSeq(s, 1, m)
  OBVIOUS

\* What a prefix of a sequence is.
LEMMA PrefixType ==
    ASSUME NEW S, NEW s \in Seq(S), NEW m \in 0 .. Len(s)
    PROVE  /\ SubSeq(s, 1, m) \in Seq(S)
           /\ Len(SubSeq(s, 1, m)) = m
           /\ \A i \in 1 .. m : SubSeq(s, 1, m)[i] = s[i]
  OBVIOUS

\* A commit drops at most the oldest record of the window, a roll-back takes the
\* newest together with its block: fork_at never reaches below a height that left
\* the window, and no block down there is ever replaced.
THEOREM WindowNeverReopens == LedgerSpec => WindowFloor
  <1> DEFINE Kept == /\ EarliestForkHeight' >= EarliestForkHeight
                     /\ SubSeq(blocks', 1, EarliestForkHeight)
                            = SubSeq(blocks, 1, EarliestForkHeight)
  <1>1. ASSUME LedgerInv, [LedgerNext]_ledger_vars
        PROVE  [Kept]_ledger_vars
    <2> DEFINE n == Len(recent_undo)
               B == Len(blocks)
               u == recent_undo
    <2>1. /\ blocks \in Seq(Block) /\ u \in Seq(Undo) /\ block \in Block /\ undo \in Undo
          /\ n \in Nat /\ B \in Nat /\ n <= B /\ EarliestForkHeight = B - n
      BY <1>1 DEF LedgerInv, LedgerTypeOK, WindowInverts, EarliestForkHeight
    <2>2. CASE UNCHANGED <<blocks, recent_undo>>
      BY <2>1, <2>2 DEF EarliestForkHeight
    <2>3. CASE CommitBlock
      <3>1. blocks' = Append(blocks, block) /\ recent_undo' = PushUndo(u, undo)
        BY <2>3 DEF CommitBlock
      <3>2. Len(blocks') = B + 1
        BY <2>1, <3>1
      <3>3. Len(recent_undo') \in Nat /\ Len(recent_undo') <= n + 1
        <4>1. /\ Len(Append(u, undo)) = n + 1
              /\ Len(Tail(Append(u, undo))) = n
          BY <2>1
        <4> QED BY <2>1, <3>1, <4>1 DEF PushUndo
      <3>4. SubSeq(blocks', 1, B - n) = SubSeq(blocks, 1, B - n)
        BY <2>1, <3>1, PrefixKept
      <3> QED BY <2>1, <3>2, <3>3, <3>4 DEF EarliestForkHeight
    <2>4. CASE RollBack
      <3>1. /\ u # <<>>
            /\ blocks' = SubSeq(blocks, 1, B - 1)
            /\ recent_undo' = SubSeq(u, 1, n - 1)
        BY <2>4 DEF RollBack
      <3>2. n >= 1
        BY <2>1, <3>1
      <3>3. Len(blocks') = B - 1 /\ Len(recent_undo') = n - 1
        <4>1. B - 1 \in 0 .. B /\ n - 1 \in 0 .. n
          BY <2>1, <3>2
        <4> QED BY <2>1, <3>1, <4>1, PrefixType
      <3>4. SubSeq(blocks', 1, B - n) = SubSeq(blocks, 1, B - n)
        <4>1. B - n \in 0 .. B /\ B - 1 \in B - n .. B
          BY <2>1, <3>2
        <4> QED BY <2>1, <3>1, <4>1, PrefixKept
      <3> QED BY <2>1, <3>3, <3>4 DEF EarliestForkHeight
    <2>5. ASSUME LedgerNext PROVE UNCHANGED <<blocks, recent_undo>> \/ CommitBlock \/ RollBack
      BY <2>5 DEF LedgerNext, BeginBlock, UnlockOne, UnlockDone, SettleTransfer, RefuseTransfer,
                  Drop, SettleEmission, DropPrepared
    <2>6. CASE UNCHANGED ledger_vars
      BY <2>6 DEF ledger_vars
    <2> HIDE DEF Kept
    <2> QED BY <1>1, <2>2, <2>3, <2>4, <2>5, <2>6
  <1> QED BY <1>1, Invariance, PTL DEF LedgerSpec, WindowFloor

-----------------------------------------------------------------------------
(* Nonces.  A transfer is taken only at its sender's next nonce, which it    *)
(* uses up; a roll-back returns nonces and blocks together.                  *)

\* The transfers of b lead from the nonces of `below` to those of `above`, each
\* once.
Carries(b, below, above) ==
    /\ \A m \in 1 .. Len(b.transfers) :
          /\ NextNonce(below, b.transfers[m].from) <= b.transfers[m].nonce
          /\ b.transfers[m].nonce < NextNonce(above, b.transfers[m].from)
    /\ \A m, n \in 1 .. Len(b.transfers) : m < n => b.transfers[m] # b.transfers[n]

\* No nonce of `above` is below that of `below`.
Advanced(below, above) ==
    \A a \in Accounts : NextNonce(below, a) <= NextNonce(above, a)

\* The inductive invariant of the nonces, on the chain and in a preparation.
NoncesUsed ==
    /\ \A i \in 1 .. Len(blocks) : Carries(blocks[i], history[i], history[i + 1])
    /\ \A i, j \in 1 .. Len(history) : i <= j => Advanced(history[i], history[j])
    /\ stage # "idle" => Carries(block, ledger, staged) /\ Advanced(ledger, staged)

\* The nonces of a ledger are numbers.
LEMMA NonceType ==
    ASSUME NEW l \in Ledger, NEW a \in Accounts
    PROVE  NextNonce(l, a) \in Nat
  BY DEF NextNonce, OrZero, Ledger

\* The transfers of a block are envelopes.
LEMMA TransferType ==
    ASSUME NEW b \in Block
    PROVE  /\ b.transfers \in Seq(Envelopes)
           /\ Len(b.transfers) \in Nat
           /\ \A m \in 1 .. Len(b.transfers) :
                 /\ b.transfers[m] \in Envelopes
                 /\ b.transfers[m].from \in Accounts
                 /\ b.transfers[m].nonce \in Nat
  <1>1. b.transfers \in Seq(Envelopes)
    BY DEF Block
  <1>2. \A m \in 1 .. Len(b.transfers) : b.transfers[m] \in EnvelopeType
    BY <1>1, EnvelopeAssumption
  <1> QED BY <1>1, <1>2 DEF EnvelopeType

\* Steps that change the nonces of neither ledger nor the transfers of the block.
LEMMA SameNonces ==
    ASSUME NEW b, NEW c, NEW below, NEW above, NEW next,
           c.transfers = b.transfers, next.next_nonces = above.next_nonces,
           Carries(b, below, above), Advanced(below, above)
    PROVE  Carries(c, below, next) /\ Advanced(below, next)
  BY DEF Carries, Advanced, NextNonce

\* A transfer settled on top of a block takes a nonce no transfer before it took.
LEMMA SettleNonces ==
    ASSUME NEW b \in Block, NEW below \in Ledger, NEW above \in Ledger, NEW h,
           NEW p, NEW t \in Envelopes, Transferable(above, h, t),
           Carries(b, below, above), Advanced(below, above)
    PROVE  /\ Carries([b EXCEPT !.transfers = Append(@, t)], below,
                      CommitTransfer(above, p, t))
           /\ Advanced(below, CommitTransfer(above, p, t))
  <1> DEFINE c == [b EXCEPT !.transfers = Append(@, t)]
             s == b.transfers
             next == CommitTransfer(above, p, t)
             N == Len(s)
  <1>1. /\ t \in EnvelopeType /\ t.from \in Accounts /\ t.nonce \in Nat
        /\ t.nonce = NextNonce(above, t.from)
    BY EnvelopeAssumption DEF EnvelopeType, Transferable
  <1>2. \A a \in Accounts :
           NextNonce(next, a) = IF a = t.from THEN t.nonce + 1 ELSE NextNonce(above, a)
    <2>1. next.next_nonces = [above.next_nonces EXCEPT ![t.from] = t.nonce + 1]
      BY DEF CommitTransfer, Ledger
    <2>2. \A a \in Accounts : next.next_nonces[a]
             = IF a = t.from THEN t.nonce + 1 ELSE above.next_nonces[a]
      BY <2>1 DEF Ledger
    <2>3. t.nonce + 1 # None
      BY <1>1, MarkerAssumption
    <2> HIDE DEF next
    <2> QED BY <2>2, <2>3 DEF NextNonce, OrZero
  <1>3. c.transfers = Append(s, t)
    BY DEF Block
  <1>4. /\ s \in Seq(Envelopes) /\ N \in Nat
        /\ \A m \in 1 .. N : s[m].from \in Accounts /\ s[m].nonce \in Nat
    BY TransferType
  <1>5. /\ \A m \in 1 .. N : /\ NextNonce(below, s[m].from) <= s[m].nonce
                             /\ s[m].nonce < NextNonce(above, s[m].from)
        /\ \A m, n \in 1 .. N : m < n => s[m] # s[n]
    BY DEF Carries
  <1>6. \A a \in Accounts : /\ NextNonce(below, a) \in Nat /\ NextNonce(above, a) \in Nat
                            /\ NextNonce(below, a) <= NextNonce(above, a)
    BY NonceType DEF Advanced
  <1> HIDE DEF c, next, s
  <1>7. /\ Len(c.transfers) = N + 1
        /\ c.transfers[N + 1] = t
        /\ \A m \in 1 .. N : c.transfers[m] = s[m]
    BY <1>3, <1>4
  <1> HIDE DEF N
  <1>8. \A a \in Accounts : /\ NextNonce(next, a) \in Nat
                            /\ NextNonce(above, a) <= NextNonce(next, a)
    BY <1>1, <1>2, <1>6
  <1>9. Advanced(below, next)
    BY <1>6, <1>8 DEF Advanced
  <1>10. ASSUME NEW m \in 1 .. N + 1
         PROVE  /\ NextNonce(below, c.transfers[m].from) <= c.transfers[m].nonce
                /\ c.transfers[m].nonce < NextNonce(next, c.transfers[m].from)
    <2>1. CASE m \in 1 .. N
      BY <1>4, <1>5, <1>6, <1>7, <1>8, <2>1
    <2>2. CASE m = N + 1
      BY <1>1, <1>2, <1>6, <1>7, <2>2
    <2> QED BY <1>4, <2>1, <2>2
  <1>11. ASSUME NEW m \in 1 .. N + 1, NEW n \in 1 .. N + 1, m < n
         PROVE  c.transfers[m] # c.transfers[n]
    <2>1. m \in 1 .. N
      BY <1>4, <1>11
    <2>2. CASE n \in 1 .. N
      BY <1>5, <1>7, <1>11, <2>1, <2>2
    <2>3. CASE n = N + 1
      <3>1. s[m] # t
        BY <1>1, <1>4, <1>5, <1>6, <2>1
      <3> QED BY <1>7, <2>1, <2>3, <3>1
    <2> QED BY <1>4, <2>2, <2>3
  <1>12. Carries(c, below, next)
    BY <1>7, <1>10, <1>11 DEF Carries
  <1> QED BY <1>9, <1>12 DEF c, next

\* Genesis has no transfers and no nonces.
LEMMA InitNonces == LedgerInit => NoncesUsed
  BY DEF LedgerInit, NoncesUsed, Advanced, NextNonce, OrZero, GenesisLedger

\* A commit puts the carried block on the chain with the ledger it leads to.
LEMMA CommitNonces ==
    ASSUME LedgerInv, NoncesUsed, CommitBlock
    PROVE  NoncesUsed'
  <1> DEFINE B == Len(blocks)
  <1>1. /\ stage = "prepared" /\ stage' = "idle"
        /\ blocks' = Append(blocks, block) /\ history' = Append(history, staged)
    BY DEF CommitBlock
  <1>2. /\ blocks \in Seq(Block) /\ history \in Seq(Ledger) /\ B \in Nat
        /\ staged \in Ledger /\ ledger \in Ledger
        /\ Len(history) = B + 1 /\ ledger = history[B + 1]
    BY DEF LedgerInv, LedgerTypeOK, UndoExact
  <1>3. /\ Len(blocks') = B + 1 /\ blocks'[B + 1] = block
        /\ \A i \in 1 .. B : blocks'[i] = blocks[i]
    BY <1>1, <1>2
  <1>4. /\ Len(history') = B + 2 /\ history'[B + 2] = staged
        /\ \A i \in 1 .. B + 1 : history'[i] = history[i]
    BY <1>1, <1>2
  <1>5. Carries(block, ledger, staged) /\ Advanced(ledger, staged)
    BY <1>1 DEF NoncesUsed
  <1>6. \A i \in 1 .. B : Carries(blocks[i], history[i], history[i + 1])
    BY DEF NoncesUsed
  <1>7. \A i, j \in 1 .. B + 1 : i <= j => Advanced(history[i], history[j])
    BY <1>2 DEF NoncesUsed
  <1> HIDE DEF B
  <1>8. ASSUME NEW i \in 1 .. B + 1
        PROVE  Carries(blocks'[i], history'[i], history'[i + 1])
    <2>1. CASE i \in 1 .. B
      <3>1. i \in 1 .. B + 1 /\ i + 1 \in 1 .. B + 1
        BY <1>2, <2>1
      <3> QED BY <1>3, <1>4, <1>6, <2>1, <3>1
    <2>2. CASE i = B + 1
      <3>1. B + 1 \in 1 .. B + 1 /\ (B + 1) + 1 = B + 2
        BY <1>2
      <3> QED BY <1>2, <1>3, <1>4, <1>5, <2>2, <3>1
    <2> QED BY <1>2, <2>1, <2>2
  <1>9. ASSUME NEW i \in 1 .. B + 2, NEW j \in 1 .. B + 2, i <= j
        PROVE  Advanced(history'[i], history'[j])
    <2>1. CASE j \in 1 .. B + 1
      <3>1. i \in 1 .. B + 1
        BY <1>2, <1>9, <2>1
      <3> QED BY <1>4, <1>7, <1>9, <2>1, <3>1
    <2>2. CASE j = B + 2 /\ i \in 1 .. B + 1
      <3>1. Advanced(history[i], ledger) /\ history'[i] = history[i] /\ history'[j] = staged
        BY <1>2, <1>4, <1>7, <2>2
      <3>2. history[i] \in Ledger
        BY <1>2, <2>2
      <3>3. \A a \in Accounts : /\ NextNonce(history[i], a) \in Nat
                                /\ NextNonce(ledger, a) \in Nat
                                /\ NextNonce(staged, a) \in Nat
        BY <1>2, <3>2, NonceType
      <3> QED BY <1>5, <3>1, <3>3 DEF Advanced
    <2>3. CASE j = B + 2 /\ i = B + 2
      <3>1. \A a \in Accounts : NextNonce(staged, a) \in Nat
        BY <1>2, NonceType
      <3>2. Advanced(staged, staged)
        BY <3>1 DEF Advanced
      <3> QED BY <1>4, <2>3, <3>2
    <2> QED BY <1>2, <2>1, <2>2, <2>3
  <1> QED BY <1>1, <1>3, <1>4, <1>8, <1>9 DEF NoncesUsed

\* A roll-back takes a block and the ledger above it off together.
LEMMA RollBackNonces ==
    ASSUME LedgerInv, NoncesUsed, RollBack
    PROVE  NoncesUsed'
  <1> DEFINE B == Len(blocks)
  <1>1. /\ stage' = "idle" /\ recent_undo # <<>>
        /\ blocks' = SubSeq(blocks, 1, B - 1)
        /\ history' = SubSeq(history, 1, Len(history) - 1)
    BY DEF RollBack
  <1>2. /\ blocks \in Seq(Block) /\ history \in Seq(Ledger) /\ B \in Nat \ {0}
        /\ Len(history) = B + 1
    <2>1. Len(recent_undo) \in Nat \ {0} /\ B \in Nat /\ Len(recent_undo) <= B
      BY <1>1 DEF LedgerInv, LedgerTypeOK, WindowInverts
    <2> QED BY <2>1 DEF LedgerInv, LedgerTypeOK, UndoExact
  <1>3. /\ Len(blocks') = B - 1
        /\ \A i \in 1 .. B - 1 : blocks'[i] = blocks[i]
        /\ Len(history') = B
        /\ \A i \in 1 .. B : history'[i] = history[i]
    <2>1. B - 1 \in 0 .. Len(blocks) /\ Len(history) - 1 \in 0 .. Len(history)
          /\ Len(history) - 1 = B
      BY <1>2
    <2> QED BY <1>1, <1>2, <2>1, PrefixType
  <1>4. \A i \in 1 .. B : Carries(blocks[i], history[i], history[i + 1])
    BY DEF NoncesUsed
  <1>5. \A i, j \in 1 .. B + 1 : i <= j => Advanced(history[i], history[j])
    BY <1>2 DEF NoncesUsed
  <1> HIDE DEF B
  <1>6. ASSUME NEW i \in 1 .. B - 1
        PROVE  Carries(blocks'[i], history'[i], history'[i + 1])
    <2>1. i \in 1 .. B /\ i + 1 \in 1 .. B
      BY <1>2
    <2> QED BY <1>3, <1>4, <2>1
  <1>7. ASSUME NEW i \in 1 .. B, NEW j \in 1 .. B, i <= j
        PROVE  Advanced(history'[i], history'[j])
    <2>1. i \in 1 .. B + 1 /\ j \in 1 .. B + 1
      BY <1>2
    <2> QED BY <1>3, <1>5, <1>7, <2>1
  <1> QED BY <1>1, <1>3, <1>6, <1>7 DEF NoncesUsed

\* Every step keeps the nonces used.
LEMMA NextNonces == LedgerInv /\ NoncesUsed /\ [LedgerNext]_ledger_vars => NoncesUsed'
  <1> SUFFICES ASSUME LedgerInv, NoncesUsed, [LedgerNext]_ledger_vars PROVE NoncesUsed'
    OBVIOUS
  <1>1. /\ ledger \in Ledger /\ staged \in Ledger /\ block \in Block
        /\ Height \in Nat
    BY DEF LedgerInv, LedgerTypeOK, Ledger, Height
  <1>2. ASSUME UNCHANGED <<ledger, blocks, history>>,
               stage' # "idle" => Carries(block', ledger, staged') /\ Advanced(ledger, staged')
        PROVE  NoncesUsed'
    BY <1>2 DEF NoncesUsed
  <1>3. stage # "idle" => Carries(block, ledger, staged) /\ Advanced(ledger, staged)
    BY DEF NoncesUsed
  <1>4. ASSUME NEW p \in Accounts, BeginBlock(p) PROVE NoncesUsed'
    <2>1. /\ UNCHANGED <<ledger, blocks, history>> /\ staged' = ledger
          /\ block' = [reward_pk |-> p, transfers |-> <<>>, reward |-> 0]
      BY <1>4 DEF BeginBlock
    <2>2. block'.transfers = <<>>
      BY <2>1
    <2>3. Carries(block', ledger, staged')
      BY <2>2 DEF Carries
    <2>4. Advanced(ledger, ledger)
      <3>1. \A a \in Accounts : NextNonce(ledger, a) \in Nat
        BY <1>1, NonceType
      <3> QED BY <3>1 DEF Advanced
    <2> QED BY <1>2, <2>1, <2>3, <2>4
  <1>5. ASSUME NEW k \in UnlockHeights, UnlockOne(k) PROVE NoncesUsed'
    <2>1. /\ stage = "unlocking" /\ staged' = UnlockReward(staged, k)
          /\ UnlockPossible(staged, k) /\ k \in Matured(staged, Height)
          /\ UNCHANGED <<ledger, blocks, history>> /\ block' = block
      BY <1>5 DEF UnlockOne
    <2>2. staged'.next_nonces = staged.next_nonces
      BY <1>1, <2>1, UnlockType
    <2>3. Carries(block', ledger, staged') /\ Advanced(ledger, staged')
      BY <1>3, <2>1, <2>2, SameNonces
    <2> QED BY <1>2, <2>1, <2>3
  <1>6. CASE UnlockDone
    BY <1>2, <1>3, <1>6 DEF UnlockDone
  <1>7. ASSUME NEW t \in Envelopes, SettleTransfer(t) PROVE NoncesUsed'
    <2>1. /\ stage = "settling" /\ Transferable(staged, Height, t)
          /\ staged' = CommitTransfer(staged, block.reward_pk, t)
          /\ block' = [block EXCEPT !.transfers = Append(@, t)]
          /\ UNCHANGED <<ledger, blocks, history>>
      BY <1>7 DEF SettleTransfer
    <2>2. Carries(block', ledger, staged') /\ Advanced(ledger, staged')
      BY <1>1, <1>3, <2>1, SettleNonces
    <2> QED BY <1>2, <2>1, <2>2
  <1>8. CASE Drop
    BY <1>2, <1>8 DEF Drop
  <1>9. CASE SettleEmission
    <2> DEFINE e == Emission(Height, staged.issued)
    <2>1. /\ stage = "settling" /\ staged' = EmitReward(staged, Height, block.reward_pk)
          /\ block' = [block EXCEPT !.reward = e]
          /\ UNCHANGED <<ledger, blocks, history>>
      BY <1>9 DEF SettleEmission
    <2> HIDE DEF e
    <2>2. block'.transfers = block.transfers
      BY <1>1, <2>1 DEF Block
    <2>3. staged'.next_nonces = staged.next_nonces
      BY <2>1 DEF EmitReward
    <2>4. Carries(block, ledger, staged) /\ Advanced(ledger, staged)
      BY <1>3, <2>1
    <2>5. Carries(block', ledger, staged') /\ Advanced(ledger, staged')
      BY <2>2, <2>3, <2>4, SameNonces
    <2> QED BY <1>2, <2>1, <2>5
  <1>10. CASE CommitBlock
    BY <1>10, CommitNonces
  <1>11. CASE RollBack
    BY <1>11, RollBackNonces
  <1>12. CASE UNCHANGED ledger_vars
    BY <1>2, <1>3, <1>12 DEF ledger_vars
  <1> QED
    BY <1>4, <1>5, <1>6, <1>7, <1>8, <1>9, <1>10, <1>11, <1>12
       DEF LedgerNext, RefuseTransfer, DropPrepared

\* On any chain the code can hold, however many blocks were committed and rolled
\* back on the way, a signed transfer occurs in one place only: a block that
\* repeats it is refused by the check of the sender's next nonce in prepare_transfer.
THEOREM TransfersOnce == LedgerSpec => []NoReplay
  <1>1. ASSUME LedgerInv, NoncesUsed PROVE NoReplay
    <2> SUFFICES ASSUME NEW i \in 1 .. Len(blocks), NEW j \in 1 .. Len(blocks),
                        NEW m \in 1 .. Len(blocks[i].transfers),
                        NEW n \in 1 .. Len(blocks[j].transfers),
                        blocks[i].transfers[m] = blocks[j].transfers[n],
                        <<i, m>> # <<j, n>>
                 PROVE  FALSE
      BY DEF NoReplay
    <2>1. /\ blocks \in Seq(Block) /\ history \in Seq(Ledger) /\ Len(blocks) \in Nat
          /\ Len(history) = Len(blocks) + 1
      BY <1>1 DEF LedgerInv, LedgerTypeOK, UndoExact
    <2>2. blocks[i] \in Block /\ blocks[j] \in Block
      BY <2>1
    <2>3. m \in Nat /\ n \in Nat /\ i \in Nat /\ j \in Nat
      BY <2>1, <2>2, TransferType
    <2>4. ASSUME NEW x \in 1 .. Len(blocks), NEW y \in 1 .. Len(blocks), x < y,
                 NEW v \in 1 .. Len(blocks[x].transfers),
                 NEW w \in 1 .. Len(blocks[y].transfers)
          PROVE  blocks[x].transfers[v] # blocks[y].transfers[w]
      <3> DEFINE t == blocks[x].transfers[v]
                 r == blocks[y].transfers[w]
      <3>1. /\ x + 1 \in 1 .. Len(history) /\ y \in 1 .. Len(history) /\ x + 1 <= y
        BY <2>1, <2>4
      <3>2. /\ t.nonce < NextNonce(history[x + 1], t.from)
            /\ NextNonce(history[y], r.from) <= r.nonce
        BY <1>1 DEF NoncesUsed, Carries
      <3>3. blocks[x] \in Block
        BY <2>1
      <3>4. t.from \in Accounts /\ t.nonce \in Nat
        BY <3>3, TransferType
      <3>5. NextNonce(history[x + 1], t.from) <= NextNonce(history[y], t.from)
        BY <1>1, <3>1, <3>4 DEF NoncesUsed, Advanced
      <3>6. /\ NextNonce(history[x + 1], t.from) \in Nat
            /\ NextNonce(history[y], t.from) \in Nat
        <4>1. history[x + 1] \in Ledger /\ history[y] \in Ledger
          BY <2>1, <3>1
        <4> QED BY <3>4, <4>1, NonceType
      <3> HIDE DEF t, r
      <3>7. t # r
        BY <3>2, <3>4, <3>5, <3>6
      <3> QED BY <3>7 DEF t, r
    <2>5. CASE i = j
      <3>1. \A x, y \in 1 .. Len(blocks[i].transfers) :
               x < y => blocks[i].transfers[x] # blocks[i].transfers[y]
        BY <1>1 DEF NoncesUsed, Carries
      <3>2. m < n \/ n < m
        BY <2>3, <2>5
      <3> QED BY <2>5, <3>1, <3>2
    <2>6. CASE i < j
      BY <2>4, <2>6
    <2>7. CASE j < i
      BY <2>4, <2>7
    <2> QED BY <2>3, <2>5, <2>6, <2>7
  <1> QED BY <1>1, InitNonces, NextNonces, Invariance, PTL DEF LedgerSpec

-----------------------------------------------------------------------------
(* The audit.  NativeLedger::audit checks that the balances add up to what  *)
(* was issued and that the locks are the pending rewards; every step of a   *)
(* block keeps both.                                                        *)

\* What each account holds.
Counted(l) == [a \in Accounts |-> Balance(l, a)]

\* All balances together.
Money(l) == SumFunctionOnSet(Counted(l), Accounts)

\* What each unlock height still owes an account.
RewardsOf(l, a) ==
    [k \in UnlockHeights |->
        IF l.pending_rewards[k] # None /\ l.pending_rewards[k].pk = a
        THEN l.pending_rewards[k].amount ELSE 0]

\* The pending rewards of an account together.
Owed(l, a) == SumFunctionOnSet(RewardsOf(l, a), UnlockHeights)

\* The locks are what is owed, and no entry is left at zero.
LocksMatch(l) ==
    \A a \in Accounts :
        l.locked_balances[a] = IF Owed(l, a) = 0 THEN None ELSE Owed(l, a)

\* A ledger whose money is the issued supply and whose locks are what is owed.
Audited(l) == Money(l) = l.issued /\ LocksMatch(l)

\* The heights a reward can be due at form a finite set of numbers.
LEMMA UnlockHeightsFacts ==
    IsFiniteSet(UnlockHeights) /\ UnlockHeights \subseteq Nat
  <1>1. IsFiniteSet(1 .. MaxHeight + RewardMaturity)
    BY LedgerAssumption, FS_Interval
  <1> QED BY <1>1 DEF UnlockHeights

\* What is summed are numbers.
LEMMA SummandTypes ==
    ASSUME NEW l \in Ledger
    PROVE  /\ \A a \in Accounts : Counted(l)[a] = Balance(l, a) /\ Balance(l, a) \in Nat
           /\ Money(l) \in Nat
           /\ \A a \in Accounts : \A k \in UnlockHeights : RewardsOf(l, a)[k] \in Nat
           /\ \A a \in Accounts : Owed(l, a) \in Nat
  <1>1. \A a \in Accounts : Counted(l)[a] = Balance(l, a) /\ Balance(l, a) \in Nat
    BY DEF Counted, Balance, OrZero, Ledger
  <1>2. Money(l) \in Nat
    <2>1. \A a \in Accounts : Counted(l)[a] \in Nat
      BY <1>1
    <2> QED BY <2>1, LedgerAssumption, SumType DEF Money
  <1>3. \A a \in Accounts : \A k \in UnlockHeights : RewardsOf(l, a)[k] \in Nat
    BY DEF RewardsOf, Ledger, Reward
  <1>4. \A a \in Accounts : Owed(l, a) \in Nat
    BY <1>3, UnlockHeightsFacts, SumType DEF Owed
  <1> QED BY <1>1, <1>2, <1>3, <1>4

\* In an audited ledger a balance is part of the issue and a lock is what is owed.
LEMMA AuditedFacts ==
    ASSUME NEW l \in Ledger, Audited(l), NEW a \in Accounts
    PROVE  /\ Balance(l, a) <= l.issued
           /\ LockedBalance(l, a) = Owed(l, a)
  <1>1. Balance(l, a) <= Money(l)
    <2>1. \A x \in Accounts : Counted(l)[x] \in Nat
      BY SummandTypes
    <2>2. Counted(l)[a] <= SumFunctionOnSet(Counted(l), Accounts)
      BY <2>1, LedgerAssumption, SumMember
    <2> QED BY <2>2, SummandTypes DEF Money
  <1>2. LockedBalance(l, a) = Owed(l, a)
    BY SummandTypes, MarkerAssumption DEF Audited, LocksMatch, LockedBalance, OrZero
  <1> QED BY <1>1, <1>2 DEF Audited

\* A reward that is due can be unlocked: it is part of what its account is owed.
LEMMA AlwaysUnlockable ==
    ASSUME NEW l \in Ledger, Audited(l), NEW h \in Nat, NEW k \in Matured(l, h)
    PROVE  UnlockPossible(l, k)
  <1> DEFINE a == l.pending_rewards[k].pk
  <1>1. a \in Accounts /\ k \in UnlockHeights /\ l.pending_rewards[k] # None
    BY MaturedFacts DEF Matured
  <1>2. RewardsOf(l, a)[k] = l.pending_rewards[k].amount
    BY <1>1 DEF RewardsOf
  <1> HIDE DEF a
  <1>3. \A x \in UnlockHeights : RewardsOf(l, a)[x] \in Nat
    BY <1>1, SummandTypes
  <1>4. RewardsOf(l, a)[k] <= Owed(l, a)
    BY <1>1, <1>3, UnlockHeightsFacts, SumMember DEF Owed
  <1>5. LockedBalance(l, a) = Owed(l, a) /\ Owed(l, a) \in Nat
    BY <1>1, AuditedFacts, SummandTypes
  <1>6. l.pending_rewards[k].amount \in Nat
    BY MaturedFacts
  <1>7. LockedBalance(l, a) >= l.pending_rewards[k].amount
    BY <1>2, <1>4, <1>5, <1>6
  <1> QED BY <1>7 DEF UnlockPossible, a

\* Equal maps are audited alike.
LEMMA SameAudit ==
    ASSUME NEW l \in Ledger, NEW n \in Ledger
    PROVE  /\ n.balances = l.balances => Money(n) = Money(l)
           /\ n.pending_rewards = l.pending_rewards =>
                 \A a \in Accounts : Owed(n, a) = Owed(l, a)
  <1>1. ASSUME n.balances = l.balances PROVE Counted(n) = Counted(l)
    BY <1>1 DEF Counted, Balance
  <1>2. ASSUME n.pending_rewards = l.pending_rewards, NEW a \in Accounts
        PROVE  RewardsOf(n, a) = RewardsOf(l, a)
    BY <1>2 DEF RewardsOf
  <1>3. ASSUME n.balances = l.balances PROVE Money(n) = Money(l)
    BY <1>1, <1>3 DEF Money
  <1>4. ASSUME n.pending_rewards = l.pending_rewards, NEW a \in Accounts
        PROVE  Owed(n, a) = Owed(l, a)
    BY <1>2, <1>4 DEF Owed
  <1> QED BY <1>3, <1>4

\* A reward that comes or goes at one height changes what its account is owed,
\* and nothing that another is owed.
LEMMA OwedChange ==
    ASSUME NEW l \in Ledger, NEW n \in Ledger, NEW k \in UnlockHeights, NEW r \in Reward,
           l.pending_rewards[k] = None, n.pending_rewards[k] = r,
           \A j \in UnlockHeights : j # k => n.pending_rewards[j] = l.pending_rewards[j]
    PROVE  \A a \in Accounts :
              Owed(n, a) = Owed(l, a) + (IF a = r.pk THEN r.amount ELSE 0)
  <1> SUFFICES ASSUME NEW a \in Accounts
               PROVE  Owed(n, a) = Owed(l, a) + (IF a = r.pk THEN r.amount ELSE 0)
    OBVIOUS
  <1> DEFINE d == IF a = r.pk THEN r.amount ELSE 0
             f == RewardsOf(l, a)
             g == RewardsOf(n, a)
  <1>1. r # None /\ r.amount \in Nat /\ d \in Nat
    BY MarkerAssumption DEF Reward
  <1>2. /\ \A x \in UnlockHeights : f[x] \in Nat
        /\ f[k] = 0
        /\ g[k] = d
        /\ \A x \in UnlockHeights : x # k => g[x] = f[x]
    <2>1. \A x \in UnlockHeights : f[x] \in Nat
      BY SummandTypes
    <2>2. f[k] = 0 /\ g[k] = d
      BY <1>1 DEF RewardsOf
    <2>3. \A x \in UnlockHeights : x # k => g[x] = f[x]
      BY DEF RewardsOf
    <2> QED BY <2>1, <2>2, <2>3
  <1> HIDE DEF f, g, d
  <1>3. Adds(UnlockHeights, f, g, k, d)
    BY <1>1, <1>2 DEF Adds
  <1>4. SumFunctionOnSet(g, UnlockHeights) = SumFunctionOnSet(f, UnlockHeights) + d
    BY <1>1, <1>3, UnlockHeightsFacts, SumAdd
  <1> QED BY <1>4 DEF Owed, f, g, d

\* Unlocking a reward keeps the audit.
LEMMA UnlockAudit ==
    ASSUME NEW l \in Ledger, Audited(l), NEW h \in Nat, NEW k \in Matured(l, h)
    PROVE  Audited(UnlockReward(l, k))
  <1> DEFINE r == l.pending_rewards[k]
             n == UnlockReward(l, k)
             remaining == LockedBalance(l, r.pk) - r.amount
  <1>1. UnlockPossible(l, k)
    BY AlwaysUnlockable
  <1>2. /\ n \in Ledger /\ n.issued = l.issued /\ n.balances = l.balances
        /\ \A j \in UnlockHeights :
              n.pending_rewards[j] = IF j = k THEN None ELSE l.pending_rewards[j]
        /\ \A a \in Accounts : a # r.pk => n.locked_balances[a] = l.locked_balances[a]
    BY <1>1, UnlockType
  <1>3. k \in UnlockHeights /\ r \in Reward /\ r.pk \in Accounts /\ r.amount \in Nat
    BY MaturedFacts
  <1>4. n.locked_balances[r.pk] = IF remaining = 0 THEN None ELSE remaining
    BY <1>3 DEF UnlockReward, Ledger
  <1> HIDE DEF n
  <1>5. \A a \in Accounts : Owed(l, a) = Owed(n, a) + (IF a = r.pk THEN r.amount ELSE 0)
    <2>1. /\ n.pending_rewards[k] = None
          /\ \A j \in UnlockHeights : j # k => l.pending_rewards[j] = n.pending_rewards[j]
      BY <1>2, <1>3
    <2>2. l.pending_rewards[k] = r
      OBVIOUS
    <2> HIDE DEF r
    <2> QED BY <1>2, <1>3, <2>1, <2>2, OwedChange
  <1>6. \A a \in Accounts : Owed(n, a) \in Nat
    BY <1>2, SummandTypes
  <1>7. Money(n) = n.issued
    BY <1>2, SameAudit DEF Audited
  <1>8. ASSUME NEW a \in Accounts
        PROVE  n.locked_balances[a] = IF Owed(n, a) = 0 THEN None ELSE Owed(n, a)
    <2>1. CASE a = r.pk
      <3>1. LockedBalance(l, a) = Owed(n, a) + r.amount
        BY <1>5, <2>1, AuditedFacts
      <3>2. remaining = Owed(n, a)
        BY <1>3, <1>6, <2>1, <3>1
      <3> HIDE DEF remaining, r
      <3> QED BY <1>4, <2>1, <3>2
    <2>2. CASE a # r.pk
      <3>1. Owed(n, a) = Owed(l, a)
        BY <1>5, <1>6, <2>2
      <3> QED BY <1>2, <2>2, <3>1 DEF Audited, LocksMatch
    <2> QED BY <2>1, <2>2
  <1>9. Audited(n)
    BY <1>7, <1>8 DEF Audited, LocksMatch
  <1> QED BY <1>9 DEF n

\* A transfer moves what it debits: the sum of the balances is the same.
LEMMA TransferAudit ==
    ASSUME NEW l \in Ledger, Audited(l), NEW p \in Accounts, NEW t \in EnvelopeType,
           NEW h \in Nat, \A a \in Accounts : LockedBalance(l, a) <= Balance(l, a),
           Transferable(l, h, t)
    PROVE  Audited(CommitTransfer(l, p, t))
  <1> DEFINE n        == CommitTransfer(l, p, t)
             debited  == [l.balances EXCEPT ![t.from] =
                             OrZero(l.balances[t.from]) - (t.amount + t.fee)]
             credited == Credit(debited, t.to, t.amount)
             paid     == Credit(credited, p, t.fee)
             Sum(b)   == SumFunctionOnSet([a \in Accounts |-> OrZero(b[a])], Accounts)
             Map      == [Accounts -> Nat \cup {None}]
  <1>1. /\ t.from \in Accounts /\ t.to \in Accounts /\ t.amount \in Nat /\ t.fee \in Nat
    BY DEF EnvelopeType
  <1>2. /\ n \in Ledger /\ n.issued = l.issued
        /\ n.locked_balances = l.locked_balances
        /\ n.pending_rewards = l.pending_rewards
    BY TransferFacts
  <1>3. n.balances = paid
    BY MarkerAssumption DEF CommitTransfer, StagedBalances, Ledger
  <1> HIDE DEF n
  <1>4. /\ debited \in Map
        /\ \A a \in Accounts : OrZero(l.balances[a])
              = OrZero(debited[a]) + (IF a = t.from THEN t.amount + t.fee ELSE 0)
    <2>1. /\ t.amount + t.fee <= Balance(l, t.from) - LockedBalance(l, t.from)
          /\ Balance(l, t.from) \in Nat /\ LockedBalance(l, t.from) \in Nat
      BY <1>1 DEF Transferable, SpendableBalance, Balance, LockedBalance, OrZero, Ledger
    <2> DEFINE left == OrZero(l.balances[t.from]) - (t.amount + t.fee)
    <2>2. left \in Nat /\ OrZero(l.balances[t.from]) = left + (t.amount + t.fee)
      BY <1>1, <2>1 DEF Balance
    <2>3. debited = [l.balances EXCEPT ![t.from] = left]
      OBVIOUS
    <2> HIDE DEF left, debited
    <2>4. debited \in Map
      BY <2>2, <2>3 DEF Ledger
    <2>5. debited[t.from] = left /\ left # None
      BY <1>1, <2>2, <2>3, MarkerAssumption DEF Ledger
    <2>6. \A a \in Accounts : a # t.from => debited[a] = l.balances[a]
      BY <2>3 DEF Ledger
    <2>7. \A a \in Accounts : OrZero(l.balances[a]) \in Nat
      BY DEF OrZero, Ledger
    <2>8. OrZero(debited[t.from]) = left
      BY <2>5 DEF OrZero
    <2> QED BY <2>2, <2>4, <2>6, <2>7, <2>8
  <1> HIDE DEF debited
  <1>5. /\ credited \in Map
        /\ \A a \in Accounts : OrZero(credited[a])
              = OrZero(debited[a]) + (IF a = t.to THEN t.amount ELSE 0)
    BY <1>1, <1>4, CreditType
  <1> HIDE DEF credited
  <1>6. /\ paid \in Map
        /\ \A a \in Accounts : OrZero(paid[a])
              = OrZero(credited[a]) + (IF a = p THEN t.fee ELSE 0)
    BY <1>1, <1>5, CreditType
  <1> HIDE DEF paid
  <1>7. ASSUME NEW b \in Map, NEW c, NEW y \in Accounts, NEW m \in Nat,
               \A a \in Accounts : OrZero(c[a]) = OrZero(b[a]) + (IF a = y THEN m ELSE 0)
        PROVE  Sum(c) = Sum(b) + m /\ Sum(b) \in Nat
    <2> DEFINE f == [a \in Accounts |-> OrZero(b[a])]
               g == [a \in Accounts |-> OrZero(c[a])]
    <2>1. \A a \in Accounts : f[a] \in Nat /\ g[a] = f[a] + (IF a = y THEN m ELSE 0)
      BY <1>7 DEF OrZero
    <2> HIDE DEF f, g
    <2>2. /\ SumFunctionOnSet(g, Accounts) = SumFunctionOnSet(f, Accounts) + m
          /\ SumFunctionOnSet(f, Accounts) \in Nat
      <3>1. Adds(Accounts, f, g, y, m)
        BY <2>1 DEF Adds
      <3> QED BY <2>1, <3>1, LedgerAssumption, SumAdd, SumType
    <2> QED BY <2>2 DEF f, g
  <1>8. /\ Sum(l.balances) = Sum(debited) + (t.amount + t.fee)
        /\ Sum(credited) = Sum(debited) + t.amount
        /\ Sum(paid) = Sum(credited) + t.fee
        /\ Sum(debited) \in Nat
    <2> HIDE DEF Sum
    <2>1. t.amount + t.fee \in Nat
      BY <1>1
    <2>2. Sum(l.balances) = Sum(debited) + (t.amount + t.fee) /\ Sum(debited) \in Nat
      <3> DEFINE b == l.balances
                 m == t.amount + t.fee
      <3>1. m \in Nat /\ \A a \in Accounts :
                OrZero(b[a]) = OrZero(debited[a]) + (IF a = t.from THEN m ELSE 0)
        BY <1>4, <2>1
      <3>2. debited \in Map /\ t.from \in Accounts
        BY <1>1, <1>4
      <3> HIDE DEF b, m, debited, Map
      <3>3. Sum(b) = Sum(debited) + m /\ Sum(debited) \in Nat
        BY <1>7, <3>1, <3>2
      <3> QED BY <3>3 DEF b, m
    <2>3. Sum(credited) = Sum(debited) + t.amount
      BY <1>1, <1>4, <1>5, <1>7
    <2>4. Sum(paid) = Sum(credited) + t.fee
      BY <1>1, <1>5, <1>6, <1>7
    <2> QED BY <2>2, <2>3, <2>4
  <1>9. Money(l) = Sum(l.balances) /\ Money(n) = Sum(n.balances)
    BY DEF Money, Counted, Balance
  <1>10. Money(n) = Money(l)
    <2> HIDE DEF Sum
    <2> QED BY <1>1, <1>3, <1>8, <1>9
  <1>11. Audited(n)
    BY <1>2, <1>10, SameAudit DEF Audited, LocksMatch
  <1> QED BY <1>11 DEF n

\* The emission issues, credits, locks and owes the same amount.
LEMMA EmissionAudit ==
    ASSUME NEW l \in Ledger, Audited(l), NEW p \in Accounts, NEW h \in 1 .. MaxHeight,
           l.issued <= TotalSupply,
           \A a \in Accounts : LockedBalance(l, a) <= Balance(l, a),
           l.pending_rewards[h + RewardMaturity] = None
    PROVE  Audited(EmitReward(l, h, p))
  <1> DEFINE e == Emission(h, l.issued)
             k == h + RewardMaturity
             n == EmitReward(l, h, p)
  <1>1. h \in Nat /\ l.issued \in Nat /\ e \in Nat /\ k \in UnlockHeights
    <2>1. h \in Nat /\ l.issued \in Nat
      BY LedgerAssumption DEF Ledger
    <2>2. k \in UnlockHeights
      BY LedgerAssumption DEF UnlockHeights
    <2> QED BY <2>1, <2>2, EmissionBound
  <1>2. /\ n \in Ledger
        /\ \A a \in Accounts : a # p \/ e = 0 \/ RewardMaturity = 0 =>
              n.locked_balances[a] = l.locked_balances[a]
        /\ \A j \in UnlockHeights : j # k \/ e = 0 \/ RewardMaturity = 0 =>
              n.pending_rewards[j] = l.pending_rewards[j]
    BY EmissionFacts
  <1>3. /\ n.issued = l.issued + e
        /\ n.balances = Credit(l.balances, p, e)
        /\ e # 0 /\ RewardMaturity # 0 =>
              /\ n.locked_balances[p] = OrZero(l.locked_balances[p]) + e
              /\ n.pending_rewards[k] = [pk |-> p, amount |-> e]
    <2> HIDE DEF e
    <2>1. n = [height |-> h, issued |-> l.issued + e,
               balances |-> Credit(l.balances, p, e), next_nonces |-> l.next_nonces,
               locked_balances |-> IF e # 0 /\ RewardMaturity # 0
                                   THEN [l.locked_balances EXCEPT ![p] =
                                            OrZero(l.locked_balances[p]) + e]
                                   ELSE l.locked_balances,
               pending_rewards |-> IF e # 0 /\ RewardMaturity # 0
                                   THEN [l.pending_rewards EXCEPT ![k] =
                                            [pk |-> p, amount |-> e]]
                                   ELSE l.pending_rewards]
      BY DEF EmitReward, e
    <2> HIDE DEF n, k
    <2>2. n.issued = l.issued + e /\ n.balances = Credit(l.balances, p, e)
      BY <2>1
    <2>3. ASSUME e # 0 /\ RewardMaturity # 0
          PROVE  /\ n.locked_balances[p] = OrZero(l.locked_balances[p]) + e
                 /\ n.pending_rewards[k] = [pk |-> p, amount |-> e]
      BY <1>1, <2>1, <2>3 DEF Ledger
    <2> QED BY <2>2, <2>3
  <1> HIDE DEF e, n, k
  <1>4. Money(n) = Money(l) + e
    <2>1. \A a \in Accounts : /\ Counted(l)[a] \in Nat
                              /\ Counted(n)[a] = Counted(l)[a] + (IF a = p THEN e ELSE 0)
      <3>1. l.balances \in [Accounts -> Nat \cup {None}]
        BY DEF Ledger
      <3>2. \A a \in Accounts : OrZero(n.balances[a])
                                  = OrZero(l.balances[a]) + (IF a = p THEN e ELSE 0)
        BY <1>1, <1>3, <3>1, CreditType
      <3> QED BY <1>2, <3>2, SummandTypes DEF Balance
    <2>2. Adds(Accounts, Counted(l), Counted(n), p, e)
      BY <2>1 DEF Adds
    <2> QED BY <1>1, <2>2, LedgerAssumption, SumAdd DEF Money
  <1>5. Money(n) = n.issued
    BY <1>3, <1>4 DEF Audited
  <1>6. LocksMatch(n)
    <2>1. CASE e = 0 \/ RewardMaturity = 0
      <3>1. /\ \A a \in Accounts : n.locked_balances[a] = l.locked_balances[a]
            /\ \A j \in UnlockHeights : n.pending_rewards[j] = l.pending_rewards[j]
        BY <1>2, <2>1
      <3>2. n.pending_rewards = l.pending_rewards
        BY <1>2, <3>1 DEF Ledger
      <3>3. \A a \in Accounts : Owed(n, a) = Owed(l, a)
        BY <1>2, <3>2, SameAudit
      <3> QED BY <3>1, <3>3 DEF Audited, LocksMatch
    <2>2. CASE e # 0 /\ RewardMaturity # 0
      <3> DEFINE r == [pk |-> p, amount |-> e]
      <3>1. r \in Reward /\ r.pk = p /\ r.amount = e
        BY <1>1 DEF Reward
      <3>2. n.pending_rewards[k] = r /\ l.pending_rewards[k] = None
        BY <1>3, <2>2 DEF k
      <3>3. \A j \in UnlockHeights : j # k => n.pending_rewards[j] = l.pending_rewards[j]
        BY <1>2
      <3> HIDE DEF r
      <3>4. \A a \in Accounts : Owed(n, a) = Owed(l, a) + (IF a = p THEN e ELSE 0)
        BY <1>1, <1>2, <3>1, <3>2, <3>3, OwedChange
      <3>5. \A a \in Accounts : Owed(l, a) \in Nat
        BY SummandTypes
      <3>6. n.locked_balances[p] = Owed(n, p) /\ Owed(n, p) # 0
        <4>1. OrZero(l.locked_balances[p]) = Owed(l, p)
          BY AuditedFacts DEF LockedBalance
        <4>2. n.locked_balances[p] = Owed(l, p) + e
          BY <1>3, <2>2, <4>1
        <4> QED BY <1>1, <2>2, <3>4, <3>5, <4>2
      <3>7. \A a \in Accounts : a # p => /\ n.locked_balances[a] = l.locked_balances[a]
                                         /\ Owed(n, a) = Owed(l, a)
        BY <1>2, <3>4, <3>5
      <3>8. \A a \in Accounts : l.locked_balances[a]
                                  = IF Owed(l, a) = 0 THEN None ELSE Owed(l, a)
        BY DEF Audited, LocksMatch
      <3>9. ASSUME NEW a \in Accounts
            PROVE  n.locked_balances[a] = IF Owed(n, a) = 0 THEN None ELSE Owed(n, a)
        <4>1. CASE a = p
          BY <3>6, <4>1
        <4>2. CASE a # p
          BY <3>7, <3>8, <4>2
        <4> QED BY <4>1, <4>2
      <3> QED BY <3>9 DEF LocksMatch
    <2> QED BY <2>1, <2>2
  <1>7. Audited(n)
    BY <1>5, <1>6 DEF Audited
  <1> QED BY <1>7 DEF n

-----------------------------------------------------------------------------
(* The audit holds of every ledger of a chain and of every preparation.     *)

\* The pending rewards of l are of blocks up to `issued` and due after `due`.
PendingWithin(l, due, issued) ==
    \A k \in UnlockHeights : l.pending_rewards[k] # None =>
        /\ k > due
        /\ k - RewardMaturity \in 1 .. issued
        /\ l.pending_rewards[k].amount > 0

\* Every reward of the first n blocks that is due after `due` is pending in l.
Backed(bs, l, n, due) ==
    \A h \in 1 .. n : h + RewardMaturity > due /\ bs[h].reward # 0 =>
        l.pending_rewards[h + RewardMaturity]
            = [pk |-> bs[h].reward_pk, amount |-> bs[h].reward]

\* A ledger of height n of the chain bs.
LedgerAt(bs, l, n) == Audited(l) /\ PendingWithin(l, n, n) /\ Backed(bs, l, n, n)

\* The reward the prepared block issued is pending.
OwnReward ==
    block.reward # 0 /\ RewardMaturity # 0 =>
        staged.pending_rewards[Height + RewardMaturity]
            = [pk |-> block.reward_pk, amount |-> block.reward]

\* What the staged ledger has pending at each stage.
StagedPending ==
    /\ stage = "unlocking" => PendingWithin(staged, ledger.height, ledger.height)
    /\ stage = "settling" => PendingWithin(staged, Height, ledger.height)
    /\ stage = "prepared" => PendingWithin(staged, Height, Height) /\ OwnReward
    /\ stage # "idle" => Backed(blocks, staged, Len(blocks), Height)

\* The inductive invariant of the accounting.
Accounted ==
    /\ Len(blocks) <= MaxHeight
    /\ \A i \in 1 .. Len(history) : LedgerAt(blocks, history[i], i - 1)
    /\ stage = "idle" => staged = ledger
    /\ Audited(staged)
    /\ StagedPending

\* Genesis is audited: it has no money and owes none.
LEMMA GenesisAudited ==
    /\ Audited(GenesisLedger)
    /\ GenesisLedger.issued = 0 /\ GenesisLedger.height = 0
    /\ \A a \in Accounts : Balance(GenesisLedger, a) = 0
                            /\ LockedBalance(GenesisLedger, a) = 0
    /\ \A k \in UnlockHeights : GenesisLedger.pending_rewards[k] = None
  <1> DEFINE l == GenesisLedger
  <1>1. /\ l \in Ledger /\ l.issued = 0
        /\ \A a \in Accounts : Balance(l, a) = 0 /\ l.locked_balances[a] = None
        /\ \A k \in UnlockHeights : l.pending_rewards[k] = None
    BY GenesisType DEF GenesisLedger, Balance, OrZero
  <1>2. l.height = 0 /\ \A a \in Accounts : LockedBalance(l, a) = 0
    BY DEF GenesisLedger, LockedBalance, OrZero
  <1> HIDE DEF l
  <1>3. Money(l) = 0
    <2>1. \A x \in Accounts : Counted(l)[x] = 0
      BY <1>1, SummandTypes
    <2>2. {} \in SUBSET Accounts /\ \A x \in Accounts \ {} : Counted(l)[x] = 0
      BY <2>1
    <2>3. SumFunctionOnSet(Counted(l), {}) = SumFunctionOnSet(Counted(l), Accounts)
      BY <2>1, <2>2, LedgerAssumption, SumPart
    <2> QED BY <2>3, SumSteps, FS_EmptySet DEF Money
  <1>4. ASSUME NEW a \in Accounts PROVE Owed(l, a) = 0
    <2>1. \A x \in UnlockHeights : RewardsOf(l, a)[x] = 0
      BY <1>1 DEF RewardsOf
    <2>2. {} \in SUBSET UnlockHeights /\ \A x \in UnlockHeights \ {} : RewardsOf(l, a)[x] = 0
      BY <2>1
    <2>3. SumFunctionOnSet(RewardsOf(l, a), {})
              = SumFunctionOnSet(RewardsOf(l, a), UnlockHeights)
      <3> DEFINE f == RewardsOf(l, a)
      <3>1. (\A x \in UnlockHeights : f[x] \in Nat) /\ \A x \in UnlockHeights \ {} : f[x] = 0
        BY <2>1
      <3> HIDE DEF f
      <3>2. SumFunctionOnSet(f, {}) = SumFunctionOnSet(f, UnlockHeights)
        BY <2>2, <3>1, UnlockHeightsFacts, SumPart
      <3> QED BY <3>2 DEF f
    <2> QED BY <2>3, SumSteps, FS_EmptySet DEF Owed
  <1>5. Audited(l)
    BY <1>1, <1>3, <1>4 DEF Audited, LocksMatch
  <1> QED BY <1>1, <1>2, <1>5 DEF l

\* The first ledger is genesis.
LEMMA InitAccounted == LedgerInit => Accounted
  <1> SUFFICES ASSUME LedgerInit PROVE Accounted
    OBVIOUS
  <1> DEFINE l == GenesisLedger
  <1>1. Audited(l) /\ \A k \in UnlockHeights : l.pending_rewards[k] = None
    BY GenesisAudited
  <1>2. /\ ledger = l /\ staged = l /\ blocks = <<>> /\ stage = "idle" /\ history = <<l>>
    BY DEF LedgerInit
  <1> HIDE DEF l
  <1>3. PendingWithin(l, 0, 0) /\ Backed(blocks, l, 0, 0)
    BY <1>1 DEF PendingWithin, Backed
  <1>4. \A i \in 1 .. Len(history) : LedgerAt(blocks, history[i], i - 1)
    BY <1>1, <1>2, <1>3 DEF LedgerAt
  <1>5. StagedPending
    BY <1>2 DEF StagedPending
  <1>6. Len(blocks) <= MaxHeight
    BY <1>2, LedgerAssumption
  <1> QED BY <1>1, <1>2, <1>4, <1>5, <1>6 DEF Accounted

\* A step of a preparation: only the staged ledger has to be audited again.
LEMMA StagedAccounted ==
    ASSUME Accounted, UNCHANGED <<ledger, blocks, history>>, stage' # "idle",
           Audited(staged'), StagedPending'
    PROVE  Accounted'
  <1>1. \A i \in 1 .. Len(history') : LedgerAt(blocks', history'[i], i - 1)
    BY DEF Accounted
  <1> QED BY <1>1 DEF Accounted

\* The committed ledger is the last of the history.
LEMMA LedgerAccounted ==
    ASSUME LedgerInv, Accounted
    PROVE  /\ LedgerAt(blocks, ledger, Len(blocks))
           /\ ledger.height = Len(blocks) /\ Height = Len(blocks) + 1
           /\ Len(blocks) \in Nat
  <1>1. /\ history \in Seq(Ledger) /\ blocks \in Seq(Block) /\ Len(blocks) \in Nat
        /\ Len(history) = Len(blocks) + 1 /\ ledger = history[Len(history)]
        /\ ledger.height = Len(blocks)
    BY DEF LedgerInv, LedgerTypeOK, UndoExact
  <1>2. Len(history) \in 1 .. Len(history) /\ Len(history) - 1 = Len(blocks)
    BY <1>1
  <1> QED BY <1>1, <1>2 DEF Accounted, Height

\* Opening a preparation keeps it.
LEMMA BeginAccounted ==
    ASSUME LedgerInv, Accounted, NEW p \in Accounts, BeginBlock(p)
    PROVE  Accounted'
  <1>1. /\ stage' = "unlocking" /\ staged' = ledger
        /\ UNCHANGED <<ledger, blocks, history>>
    BY DEF BeginBlock
  <1>2. /\ LedgerAt(blocks, ledger, Len(blocks)) /\ ledger.height = Len(blocks)
        /\ Height = Len(blocks) + 1 /\ Len(blocks) \in Nat
    BY LedgerAccounted
  <1>3. Backed(blocks, ledger, Len(blocks), Height)
    BY <1>2, LedgerAssumption DEF LedgerAt, Backed
  <1>4. PendingWithin(ledger, ledger.height, ledger.height) /\ Audited(ledger)
    BY <1>2 DEF LedgerAt
  <1>5. Height' = Height
    BY <1>1 DEF Height
  <1>6. StagedPending'
    BY <1>1, <1>3, <1>4, <1>5 DEF StagedPending
  <1> QED BY <1>1, <1>4, <1>6, StagedAccounted

\* Unlocking one due reward keeps it.
LEMMA UnlockAccounted ==
    ASSUME LedgerInv, Accounted, NEW k, UnlockOne(k)
    PROVE  Accounted'
  <1>1. /\ stage = "unlocking" /\ stage' = "unlocking"
        /\ k \in Matured(staged, Height) /\ UnlockPossible(staged, k)
        /\ staged' = UnlockReward(staged, k)
        /\ UNCHANGED <<ledger, blocks, history>>
    BY DEF UnlockOne
  <1>2. /\ staged \in Ledger /\ Height \in Nat /\ Height = Len(blocks) + 1
        /\ Len(blocks) \in Nat /\ Len(blocks) <= MaxHeight
    <2>1. Height = Len(blocks) + 1 /\ Len(blocks) \in Nat
      BY LedgerAccounted
    <2> QED BY <2>1 DEF LedgerInv, LedgerTypeOK, Accounted
  <1>3. /\ Audited(staged) /\ Backed(blocks, staged, Len(blocks), Height)
        /\ PendingWithin(staged, ledger.height, ledger.height)
    BY <1>1 DEF Accounted, StagedPending
  <1>4. Audited(staged')
    BY <1>1, <1>2, <1>3, UnlockAudit
  <1>5. /\ \A j \in UnlockHeights : staged'.pending_rewards[j]
              = IF j = k THEN None ELSE staged.pending_rewards[j]
        /\ k \in UnlockHeights /\ k <= Height
    BY <1>1, <1>2, UnlockType, MaturedFacts
  <1>6. PendingWithin(staged', ledger.height, ledger.height)
    BY <1>3, <1>5 DEF PendingWithin
  <1>7. Backed(blocks, staged', Len(blocks), Height)
    <2> SUFFICES ASSUME NEW h \in 1 .. Len(blocks),
                        h + RewardMaturity > Height, blocks[h].reward # 0
                 PROVE  staged'.pending_rewards[h + RewardMaturity]
                            = [pk |-> blocks[h].reward_pk, amount |-> blocks[h].reward]
      BY DEF Backed
    <2>a. h \in Nat /\ 1 <= h /\ h <= MaxHeight
      BY <1>2, LedgerAssumption
    <2>b. RewardMaturity \in Nat /\ MaxHeight \in Nat
      BY LedgerAssumption
    <2>c. h + RewardMaturity \in UnlockHeights
      BY ONLY <2>a, <2>b DEF UnlockHeights
    <2>d. k \in Nat
      BY <1>5, <2>b DEF UnlockHeights
    <2>e. h + RewardMaturity # k
      BY <1>2, <1>5, <2>a, <2>b, <2>d
    <2>2. staged'.pending_rewards[h + RewardMaturity]
              = staged.pending_rewards[h + RewardMaturity]
      BY <1>5, <2>c, <2>e
    <2> QED BY <1>3, <2>2 DEF Backed
  <1>8. Height' = Height
    BY <1>1 DEF Height
  <1>9. StagedPending'
    BY <1>1, <1>6, <1>7, <1>8 DEF StagedPending
  <1> QED BY <1>1, <1>4, <1>9, StagedAccounted

\* Leaving the unlock loop keeps it: nothing that is due is left.
LEMMA UnlockDoneAccounted ==
    ASSUME LedgerInv, Accounted, UnlockDone
    PROVE  Accounted'
  <1>1. /\ stage = "unlocking" /\ stage' = "settling" /\ Matured(staged, Height) = {}
        /\ staged' = staged /\ UNCHANGED <<ledger, blocks, history>>
    BY DEF UnlockDone
  <1>2. /\ Audited(staged) /\ Backed(blocks, staged, Len(blocks), Height)
        /\ PendingWithin(staged, ledger.height, ledger.height)
    BY <1>1 DEF Accounted, StagedPending
  <1>3. Height \in Nat
    <2>1. Height = Len(blocks) + 1 /\ Len(blocks) \in Nat
      BY LedgerAccounted
    <2> QED BY <2>1
  <1>4. PendingWithin(staged, Height, ledger.height)
    <2>1. \A k \in UnlockHeights : staged.pending_rewards[k] # None => k > Height
      BY <1>1, <1>3, UnlockHeightsFacts DEF Matured
    <2> QED BY <1>2, <2>1 DEF PendingWithin
  <1>5. Height' = Height
    BY <1>1 DEF Height
  <1>6. StagedPending'
    BY <1>1, <1>2, <1>4, <1>5 DEF StagedPending
  <1> QED BY <1>1, <1>2, <1>6, StagedAccounted

\* Settling one transfer keeps it.
LEMMA SettleAccounted ==
    ASSUME LedgerInv, Accounted, NEW t \in Envelopes, SettleTransfer(t)
    PROVE  Accounted'
  <1> DEFINE p == block.reward_pk
  <1>1. /\ stage = "settling" /\ stage' = "settling" /\ Transferable(staged, Height, t)
        /\ staged' = CommitTransfer(staged, p, t)
        /\ UNCHANGED <<ledger, blocks, history>>
    BY DEF SettleTransfer
  <1>2. /\ staged \in Ledger /\ Height \in Nat /\ p \in Accounts /\ t \in EnvelopeType
        /\ \A a \in Accounts : LockedBalance(staged, a) <= Balance(staged, a)
    BY EnvelopeAssumption DEF LedgerInv, LedgerTypeOK, Ledger, Height, Block, SoundLedgers, Sound
  <1> HIDE DEF p
  <1>3. /\ Audited(staged) /\ Backed(blocks, staged, Len(blocks), Height)
        /\ PendingWithin(staged, Height, ledger.height)
    BY <1>1 DEF Accounted, StagedPending
  <1>4. Audited(staged') /\ staged'.pending_rewards = staged.pending_rewards
    BY <1>1, <1>2, <1>3, TransferAudit, TransferFacts
  <1>5. /\ Backed(blocks, staged', Len(blocks), Height)
        /\ PendingWithin(staged', Height, ledger.height)
    BY <1>3, <1>4 DEF Backed, PendingWithin
  <1>6. Height' = Height
    BY <1>1 DEF Height
  <1>7. StagedPending'
    BY <1>1, <1>5, <1>6 DEF StagedPending
  <1> QED BY <1>1, <1>4, <1>7, StagedAccounted

\* The emission keeps it: its key is above every pending one.
LEMMA EmissionAccounted ==
    ASSUME LedgerInv, Accounted, SettleEmission
    PROVE  Accounted'
  <1> DEFINE p == block.reward_pk
             e == Emission(Height, staged.issued)
             k == Height + RewardMaturity
  <1>1. /\ stage = "settling" /\ stage' = "prepared"
        /\ staged' = EmitReward(staged, Height, p)
        /\ block' = [block EXCEPT !.reward = e]
        /\ UNCHANGED <<ledger, blocks, history>>
    BY DEF SettleEmission
  <1>2. /\ staged \in Ledger /\ block \in Block /\ p \in Accounts
        /\ staged.issued <= TotalSupply /\ staged.issued \in Nat
        /\ \A a \in Accounts : LockedBalance(staged, a) <= Balance(staged, a)
    BY DEF LedgerInv, LedgerTypeOK, Block, Ledger, SoundLedgers, Sound
  <1>3. /\ Height = Len(blocks) + 1 /\ ledger.height = Len(blocks) /\ Len(blocks) \in Nat
        /\ Height \in 1 .. MaxHeight
    <2>1. Height = Len(blocks) + 1 /\ ledger.height = Len(blocks) /\ Len(blocks) \in Nat
      BY LedgerAccounted
    <2>2. ledger.height < MaxHeight
      BY <1>1 DEF LedgerInv, Heights
    <2> QED BY <2>1, <2>2, LedgerAssumption
  <1>4. /\ Audited(staged) /\ Backed(blocks, staged, Len(blocks), Height)
        /\ PendingWithin(staged, Height, ledger.height)
    BY <1>1 DEF Accounted, StagedPending
  <1>5. k \in UnlockHeights /\ staged.pending_rewards[k] = None
    <2>1. k \in UnlockHeights /\ k - RewardMaturity \notin 1 .. ledger.height
      BY <1>3, LedgerAssumption DEF UnlockHeights
    <2> QED BY <1>4, <2>1 DEF PendingWithin
  <1>6. Audited(staged')
    BY <1>1, <1>2, <1>3, <1>4, <1>5, EmissionAudit
  <1>7. \A j \in UnlockHeights : j # k \/ e = 0 \/ RewardMaturity = 0 =>
           staged'.pending_rewards[j] = staged.pending_rewards[j]
    BY <1>1, <1>2, <1>3, EmissionFacts
  <1>8. e # 0 /\ RewardMaturity # 0 =>
           staged'.pending_rewards[k] = [pk |-> p, amount |-> e]
    <2> HIDE DEF e
    <2>1. staged'.pending_rewards = IF e # 0 /\ RewardMaturity # 0
                                    THEN [staged.pending_rewards EXCEPT ![k] =
                                             [pk |-> p, amount |-> e]]
                                    ELSE staged.pending_rewards
      BY <1>1 DEF EmitReward, e
    <2> QED BY <1>2, <1>5, <2>1 DEF Ledger
  <1>9. e \in Nat
    <2>1. Height \in Nat
      BY <1>3
    <2> QED BY <1>2, <2>1, EmissionBound
  <1>10. block'.reward = e /\ block'.reward_pk = p
    <2> HIDE DEF e
    <2> QED BY <1>1, <1>2 DEF Block
  <1> HIDE DEF e, p
  <1>11. PendingWithin(staged', Height, Height)
    <2> SUFFICES ASSUME NEW j \in UnlockHeights, staged'.pending_rewards[j] # None
                 PROVE  /\ j > Height /\ j - RewardMaturity \in 1 .. Height
                        /\ staged'.pending_rewards[j].amount > 0
      BY DEF PendingWithin
    <2>1. CASE staged'.pending_rewards[j] = staged.pending_rewards[j]
      <3>1. /\ j > Height /\ j - RewardMaturity \in 1 .. ledger.height
            /\ staged.pending_rewards[j].amount > 0
        BY <1>4, <2>1 DEF PendingWithin
      <3>2. ledger.height \in Nat /\ Height = ledger.height + 1
        BY <1>3
      <3> QED BY <2>1, <3>1, <3>2
    <2>2. CASE staged'.pending_rewards[j] # staged.pending_rewards[j]
      <3>1. j = k /\ e # 0 /\ RewardMaturity # 0
        BY <1>7, <2>2
      <3>2. staged'.pending_rewards[j] = [pk |-> p, amount |-> e]
        BY <1>8, <3>1
      <3>3. j > Height /\ j - RewardMaturity \in 1 .. Height
        BY <1>3, <3>1, LedgerAssumption
      <3> QED BY <1>9, <3>1, <3>2, <3>3
    <2> QED BY <2>1, <2>2
  <1>12. Backed(blocks, staged', Len(blocks), Height)
    <2> SUFFICES ASSUME NEW h \in 1 .. Len(blocks),
                        h + RewardMaturity > Height, blocks[h].reward # 0
                 PROVE  staged'.pending_rewards[h + RewardMaturity]
                            = [pk |-> blocks[h].reward_pk, amount |-> blocks[h].reward]
      BY DEF Backed
    <2>1. h + RewardMaturity \in UnlockHeights /\ h + RewardMaturity # k
      BY <1>3, LedgerAssumption DEF UnlockHeights
    <2>2. staged'.pending_rewards[h + RewardMaturity]
              = staged.pending_rewards[h + RewardMaturity]
      BY <1>7, <2>1
    <2> QED BY <1>4, <2>2 DEF Backed
  <1>13. Height' = Height
    BY <1>1 DEF Height
  <1>14. OwnReward'
    BY <1>8, <1>10, <1>13 DEF OwnReward
  <1>15. StagedPending'
    BY <1>1, <1>11, <1>12, <1>13, <1>14 DEF StagedPending
  <1> QED BY <1>1, <1>6, <1>15, StagedAccounted

\* What holds of a ledger of the chain depends only on the blocks below it.
LEMMA LedgerAtPrefix ==
    ASSUME NEW bs, NEW cs, NEW l, NEW n, \A h \in 1 .. n : bs[h] = cs[h],
           LedgerAt(bs, l, n)
    PROVE  LedgerAt(cs, l, n)
  BY DEF LedgerAt, Backed

\* A commit keeps it.
LEMMA CommitAccounted ==
    ASSUME LedgerInv, Accounted, CommitBlock
    PROVE  Accounted'
  <1> DEFINE B == Len(blocks)
  <1>1. /\ stage = "prepared" /\ stage' = "idle" /\ ledger' = staged /\ staged' = staged
        /\ blocks' = Append(blocks, block) /\ history' = Append(history, staged)
    BY DEF CommitBlock
  <1>2. /\ blocks \in Seq(Block) /\ history \in Seq(Ledger) /\ B \in Nat
        /\ staged \in Ledger /\ Len(history) = B + 1 /\ B < MaxHeight
    <2>1. ledger.height < MaxHeight /\ ledger.height = B
      BY <1>1, LedgerAccounted DEF LedgerInv, Heights
    <2> QED BY <2>1 DEF LedgerInv, LedgerTypeOK, UndoExact
  <1>3. /\ Len(blocks') = B + 1 /\ blocks'[B + 1] = block
        /\ \A i \in 1 .. B : blocks'[i] = blocks[i]
    BY <1>1, <1>2
  <1>4. /\ Len(history') = B + 2 /\ history'[B + 2] = staged
        /\ \A i \in 1 .. B + 1 : history'[i] = history[i]
    BY <1>1, <1>2
  <1>5. /\ Audited(staged) /\ PendingWithin(staged, Height, Height) /\ OwnReward
        /\ Backed(blocks, staged, B, Height) /\ Height = B + 1
    <2>1. Height = B + 1
      BY LedgerAccounted
    <2> QED BY <1>1, <2>1 DEF Accounted, StagedPending
  <1> HIDE DEF B
  <1>6. Backed(blocks', staged, B + 1, B + 1)
    <2> SUFFICES ASSUME NEW h \in 1 .. B + 1,
                        h + RewardMaturity > B + 1, blocks'[h].reward # 0
                 PROVE  staged.pending_rewards[h + RewardMaturity]
                            = [pk |-> blocks'[h].reward_pk, amount |-> blocks'[h].reward]
      BY DEF Backed
    <2>1. CASE h \in 1 .. B
      BY <1>3, <1>5, <2>1 DEF Backed
    <2>2. CASE h = B + 1
      <3>1. RewardMaturity # 0 /\ block.reward # 0 /\ blocks'[h] = block
        BY <1>2, <1>3, <2>2
      <3> QED BY <1>5, <2>2, <3>1 DEF OwnReward
    <2> QED BY <1>2, <2>1, <2>2
  <1>7. LedgerAt(blocks', staged, B + 1)
    BY <1>5, <1>6 DEF LedgerAt
  <1>8. ASSUME NEW i \in 1 .. B + 2
        PROVE  LedgerAt(blocks', history'[i], i - 1)
    <2>1. CASE i \in 1 .. B + 1
      <3>1. LedgerAt(blocks, history[i], i - 1)
        BY <1>2, <2>1 DEF Accounted
      <3>2. \A h \in 1 .. i - 1 : blocks[h] = blocks'[h]
        BY <1>2, <1>3, <2>1
      <3> QED BY <1>4, <2>1, <3>1, <3>2, LedgerAtPrefix
    <2>2. CASE i = B + 2
      <3>1. i - 1 = B + 1
        BY <1>2, <2>2
      <3> QED BY <1>4, <1>7, <2>2, <3>1
    <2> QED BY <1>2, <2>1, <2>2
  <1>9. Len(blocks') <= MaxHeight
    BY <1>2, <1>3, LedgerAssumption
  <1>10. StagedPending'
    BY <1>1 DEF StagedPending
  <1> QED BY <1>1, <1>4, <1>5, <1>8, <1>9, <1>10 DEF Accounted

\* A roll-back keeps it.
LEMMA RollBackAccounted ==
    ASSUME LedgerInv, Accounted, RollBack
    PROVE  Accounted'
  <1> DEFINE B == Len(blocks)
  <1>1. /\ stage = "idle" /\ stage' = "idle" /\ ledger' = staged' /\ recent_undo # <<>>
        /\ blocks' = SubSeq(blocks, 1, B - 1)
        /\ history' = SubSeq(history, 1, Len(history) - 1)
    BY DEF RollBack
  <1>2. /\ blocks \in Seq(Block) /\ history \in Seq(Ledger) /\ B \in Nat \ {0}
        /\ Len(history) = B + 1
    <2>1. Len(recent_undo) \in Nat \ {0} /\ B \in Nat /\ Len(recent_undo) <= B
      BY <1>1 DEF LedgerInv, LedgerTypeOK, WindowInverts
    <2> QED BY <2>1 DEF LedgerInv, LedgerTypeOK, UndoExact
  <1>3. /\ Len(blocks') = B - 1
        /\ \A i \in 1 .. B - 1 : blocks'[i] = blocks[i]
        /\ Len(history') = B
        /\ \A i \in 1 .. B : history'[i] = history[i]
    <2>1. B - 1 \in 0 .. Len(blocks) /\ Len(history) - 1 \in 0 .. Len(history)
          /\ Len(history) - 1 = B
      BY <1>2
    <2> QED BY <1>1, <1>2, <2>1, PrefixType
  <1>4. ledger' = history'[Len(history')]
    <2>1. LedgerInv'
      BY RollBackIInv
    <2> QED BY <2>1 DEF LedgerInv, UndoExact
  <1>5. B <= MaxHeight
    BY DEF Accounted
  <1> HIDE DEF B
  <1>6. ASSUME NEW i \in 1 .. B
        PROVE  LedgerAt(blocks', history'[i], i - 1)
    <2>1. i \in 1 .. Len(history)
      BY <1>2
    <2>2. LedgerAt(blocks, history[i], i - 1)
      BY <2>1 DEF Accounted
    <2>3. \A h \in 1 .. i - 1 : blocks[h] = blocks'[h]
      BY <1>2, <1>3
    <2> QED BY <1>3, <2>2, <2>3, LedgerAtPrefix
  <1>7. Audited(staged')
    <2>1. B \in 1 .. B
      BY <1>2
    <2> QED BY <1>1, <1>3, <1>4, <1>6, <2>1 DEF LedgerAt
  <1>8. Len(blocks') <= MaxHeight
    BY <1>2, <1>3, <1>5, LedgerAssumption
  <1>9. StagedPending'
    BY <1>1 DEF StagedPending
  <1> QED BY <1>1, <1>3, <1>6, <1>7, <1>8, <1>9 DEF Accounted

\* Every step keeps the accounting.
LEMMA NextAccounted == LedgerInv /\ Accounted /\ [LedgerNext]_ledger_vars => Accounted'
  <1> SUFFICES ASSUME LedgerInv, Accounted, [LedgerNext]_ledger_vars PROVE Accounted'
    OBVIOUS
  <1>1. CASE Drop
    <2>1. /\ stage' = "idle" /\ staged' = ledger /\ UNCHANGED <<ledger, blocks, history>>
      BY <1>1 DEF Drop
    <2>2. Audited(ledger)
      BY LedgerAccounted DEF LedgerAt
    <2>3. StagedPending'
      BY <2>1 DEF StagedPending
    <2> QED BY <2>1, <2>2, <2>3 DEF Accounted
  <1>2. CASE UNCHANGED ledger_vars
    <2>1. UNCHANGED <<ledger, blocks, stage, staged, block, history>>
      BY <1>2 DEF ledger_vars
    <2>2. StagedPending'
      BY <2>1 DEF Accounted, StagedPending, OwnReward, Height
    <2> QED BY <2>1, <2>2 DEF Accounted
  <1> QED
    BY <1>1, <1>2, BeginAccounted, UnlockAccounted, UnlockDoneAccounted, SettleAccounted,
       EmissionAccounted, CommitAccounted, RollBackAccounted
       DEF LedgerNext, RefuseTransfer, DropPrepared

\* The accounting holds of every behaviour.
THEOREM AlwaysAccounted == LedgerSpec => []Accounted
  BY InitAccounted, NextAccounted, Invariance, PTL DEF LedgerSpec

\* The balances add up to what was issued, committed or staged.
LEMMA MoneyConserved ==
    ASSUME LedgerInv, Accounted
    PROVE  Conservation
  <1>1. Audited(ledger) /\ Audited(staged)
    BY LedgerAccounted DEF Accounted, LedgerAt
  <1>2. \A l : SumFunction([a \in Accounts |-> Balance(l, a)]) = Money(l)
    BY DEF SumFunction, Money, Counted
  <1> QED BY <1>1, <1>2 DEF Conservation, Audited

\* Neither an unlock nor a credit nor an emission of a valid block can fail: no
\* amount exceeds the issue, which the supply bounds.
LEMMA ArithmeticHolds ==
    ASSUME LedgerInv, Accounted
    PROVE  ArithmeticSafe
  <1>1. /\ staged \in Ledger /\ block.reward_pk \in Accounts /\ Height \in Nat
        /\ staged.issued <= TotalSupply /\ staged.issued \in Nat
        /\ \A a \in Accounts : LockedBalance(staged, a) <= Balance(staged, a)
        /\ Audited(staged)
    BY DEF LedgerInv, LedgerTypeOK, Block, Ledger, Height, SoundLedgers, Sound, Accounted
  <1>2. TotalSupply \in Nat /\ TotalSupply <= MaxAmount /\ MaxAmount \in Nat
    <2>1. 2^AmountBits \in Nat \ {0}
      BY LedgerAssumption
    <2> QED BY <2>1, LedgerAssumption DEF MaxAmount
  <1>3. \A k \in Matured(staged, Height) : UnlockPossible(staged, k)
    BY <1>1, AlwaysUnlockable
  <1>4. EmissionFits(staged, Height, block.reward_pk)
    <2> DEFINE e == Emission(Height, staged.issued)
               p == block.reward_pk
    <2>1. e \in Nat /\ staged.issued + e <= TotalSupply
      BY <1>1, EmissionBound
    <2>2. /\ Balance(staged, p) \in Nat /\ LockedBalance(staged, p) \in Nat
          /\ Balance(staged, p) <= staged.issued
          /\ LockedBalance(staged, p) <= Balance(staged, p)
      <3>1. Balance(staged, p) <= staged.issued
        BY <1>1, AuditedFacts
      <3>2. Balance(staged, p) \in Nat /\ LockedBalance(staged, p) \in Nat
        BY <1>1 DEF Balance, LockedBalance, OrZero, Ledger
      <3> QED BY <1>1, <3>1, <3>2
    <2> HIDE DEF e, p
    <2>3. /\ Balance(staged, p) + e <= MaxAmount
          /\ LockedBalance(staged, p) + e <= MaxAmount
          /\ staged.issued + e <= MaxAmount
      BY <1>1, <1>2, <2>1, <2>2
    <2> QED BY <1>1, <2>3 DEF EmissionFits, e, p
  <1>5. ASSUME NEW t \in Envelopes, Transferable(staged, Height, t)
        PROVE  CreditsFit(staged, block.reward_pk, t)
    <2> DEFINE n == CommitTransfer(staged, block.reward_pk, t)
    <2>1. t \in EnvelopeType
      BY EnvelopeAssumption
    <2>2. n \in Ledger /\ n.issued = staged.issued /\ Audited(n)
      BY <1>1, <1>5, <2>1, TransferFacts, TransferAudit
    <2>3. n.balances = StagedBalances(staged, block.reward_pk, t)
      BY <1>1 DEF CommitTransfer, Ledger
    <2> HIDE DEF n
    <2>4. \A a \in Accounts : Balance(n, a) \in Nat /\ Balance(n, a) <= staged.issued
      BY <2>2, AuditedFacts, SummandTypes
    <2>5. \A a \in Accounts : Balance(n, a) <= MaxAmount
      BY <1>1, <1>2, <2>4
    <2> QED BY <2>3, <2>5 DEF CreditsFit, Balance
  <1> QED BY <1>3, <1>4, <1>5 DEF ArithmeticSafe

\* For every schedule, width, set of accounts and envelopes, and whatever blocks
\* are prepared, refused, committed and rolled back: no step of apply_block makes
\* or loses money, the cap holds, and no checked operation of a valid block fails.
THEOREM SupplyIsSound == LedgerSpec => []SupplySound
  <1>1. LedgerInv /\ Accounted => SupplySound
    BY MoneyConserved, ArithmeticHolds
       DEF SupplySound, SupplyCapped, LedgerInv, SoundLedgers, Sound
  <1> QED BY <1>1, Invariance, AlwaysAccounted, PTL

\* The locks are the pending rewards, as the lock checks of audit compute them.
LEMMA LocksAreExact ==
    ASSUME LedgerInv, Accounted
    PROVE  LocksExact
  <1>1. /\ ledger \in Ledger /\ ledger.height = Len(blocks)
        /\ LedgerAt(blocks, ledger, Len(blocks))
    BY LedgerAccounted DEF LedgerInv, LedgerTypeOK
  <1>2. ASSUME NEW a \in Accounts
        PROVE  LET due == {k \in UnlockHeights :
                              /\ ledger.pending_rewards[k] # None
                              /\ ledger.pending_rewards[k].pk = a}
                   sum == SumFunction([k \in due |-> ledger.pending_rewards[k].amount])
               IN  ledger.locked_balances[a] = IF sum = 0 THEN None ELSE sum
    <2> DEFINE due == {k \in UnlockHeights :
                          /\ ledger.pending_rewards[k] # None
                          /\ ledger.pending_rewards[k].pk = a}
               f == RewardsOf(ledger, a)
               g == [k \in due |-> ledger.pending_rewards[k].amount]
    <2>1. due \in SUBSET UnlockHeights /\ IsFiniteSet(due)
      BY UnlockHeightsFacts, FS_Subset
    <2>2. \A k \in due : g[k] = f[k]
      BY DEF RewardsOf
    <2>3. (\A k \in UnlockHeights : f[k] \in Nat) /\ \A k \in UnlockHeights \ due : f[k] = 0
      <3>1. \A k \in UnlockHeights : f[k] \in Nat
        BY <1>1, SummandTypes
      <3>2. \A k \in UnlockHeights \ due : f[k] = 0
        BY DEF RewardsOf
      <3> QED BY <3>1, <3>2
    <2>4. SumFunction(g) = SumFunctionOnSet(g, due)
      BY DEF SumFunction
    <2> HIDE DEF due, f, g
    <2>5. SumFunctionOnSet(g, due) = SumFunctionOnSet(f, due)
      BY <2>1, <2>2, SumSteps
    <2>6. SumFunctionOnSet(f, due) = SumFunctionOnSet(f, UnlockHeights)
      BY <2>1, <2>3, UnlockHeightsFacts, SumPart
    <2>7. SumFunction(g) = Owed(ledger, a)
      BY <2>4, <2>5, <2>6 DEF Owed, f
    <2>8. ledger.locked_balances[a] = IF SumFunction(g) = 0 THEN None ELSE SumFunction(g)
      BY <1>1, <2>7 DEF LedgerAt, Audited, LocksMatch
    <2> QED BY <2>8 DEF g, due
  <1>3. \A k \in UnlockHeights : ledger.pending_rewards[k] # None =>
           /\ k > ledger.height
           /\ k - RewardMaturity \in 1 .. ledger.height
           /\ ledger.pending_rewards[k].amount > 0
    BY <1>1 DEF LedgerAt, PendingWithin
  <1> QED BY <1>2, <1>3 DEF LocksExact

\* An account holds every reward of its last RewardMaturity blocks: each is part
\* of what the account is owed, which its balance covers.
LEMMA RewardsHeld ==
    ASSUME LedgerInv, Accounted
    PROVE  RewardsMature
  <1> SUFFICES ASSUME NEW a \in Accounts
               PROVE  LET immature == {h \in 1 .. Len(blocks) :
                                /\ h + RewardMaturity > Len(blocks)
                                /\ blocks[h].reward_pk = a}
                      IN  Balance(ledger, a)
                             >= SumFunction([h \in immature |-> blocks[h].reward])
    BY DEF RewardsMature
  <1> DEFINE immature == {h \in 1 .. Len(blocks) :
                            h + RewardMaturity > Len(blocks) /\ blocks[h].reward_pk = a}
             f == [h \in immature |-> blocks[h].reward]
             g == RewardsOf(ledger, a)
  <1>1. /\ ledger \in Ledger /\ blocks \in Seq(Block) /\ Len(blocks) \in Nat
        /\ LedgerAt(blocks, ledger, Len(blocks)) /\ Len(blocks) <= MaxHeight
        /\ LockedBalance(ledger, a) <= Balance(ledger, a)
    BY LedgerAccounted DEF LedgerInv, LedgerTypeOK, Accounted, SoundLedgers, Sound
  <1>2. immature \in SUBSET Nat /\ IsFiniteSet(immature)
    <2>1. IsFiniteSet(1 .. Len(blocks)) /\ 1 .. Len(blocks) \subseteq Nat
      BY <1>1, FS_Interval
    <2>2. immature \subseteq 1 .. Len(blocks)
      OBVIOUS
    <2> HIDE DEF immature
    <2>3. IsFiniteSet(immature)
      BY <2>1, <2>2, FS_Subset
    <2> QED BY <2>1, <2>2, <2>3
  <1>3. \A k \in UnlockHeights : g[k] \in Nat
    BY <1>1, SummandTypes
  <1>4. ASSUME NEW h \in immature
        PROVE  /\ h + RewardMaturity \in UnlockHeights
               /\ f[h] \in Nat /\ f[h] <= g[h + RewardMaturity]
    <2>1. /\ h \in 1 .. Len(blocks) /\ h + RewardMaturity > Len(blocks)
          /\ blocks[h].reward_pk = a /\ f[h] = blocks[h].reward
      BY <1>4
    <2>2. h + RewardMaturity \in UnlockHeights
      BY <1>1, <2>1, LedgerAssumption DEF UnlockHeights
    <2>3. blocks[h] \in Block
      BY <1>1, <2>1
    <2>4. blocks[h].reward \in Nat
      BY <2>3 DEF Block
    <2>5. CASE blocks[h].reward = 0
      <3> HIDE DEF f, g
      <3> QED BY <1>3, <2>1, <2>2, <2>5
    <2>6. CASE blocks[h].reward # 0
      <3> DEFINE r == [pk |-> blocks[h].reward_pk, amount |-> blocks[h].reward]
      <3>1. ledger.pending_rewards[h + RewardMaturity] = r
        BY <1>1, <2>1, <2>6 DEF LedgerAt, Backed
      <3>2. r # None /\ r.pk = a /\ r.amount = f[h]
        <4>1. r \in Reward
          BY <2>1, <2>4 DEF Reward
        <4> QED BY <2>1, <4>1, MarkerAssumption DEF Reward
      <3> HIDE DEF r
      <3>3. g[h + RewardMaturity] = f[h]
        <4> HIDE DEF f
        <4> QED BY <2>2, <3>1, <3>2 DEF RewardsOf
      <3> HIDE DEF f, g
      <3> QED BY <2>1, <2>2, <2>4, <3>3
    <2> QED BY <2>4, <2>5, <2>6
  <1>5. SumFunction(f) = SumFunctionOnSet(f, immature)
    BY DEF SumFunction
  <1>6. LockedBalance(ledger, a) = SumFunctionOnSet(g, UnlockHeights)
    BY <1>1, AuditedFacts DEF LedgerAt, Owed
  <1> HIDE DEF immature, f, g
  <1>7. SumFunctionOnSet(f, immature) <= SumFunctionOnSet(g, UnlockHeights)
    BY <1>2, <1>3, <1>4, UnlockHeightsFacts, LedgerAssumption, SumShift
  <1>8. /\ SumFunctionOnSet(f, immature) \in Nat
        /\ SumFunctionOnSet(g, UnlockHeights) \in Nat
        /\ Balance(ledger, a) \in Nat
    <2>1. SumFunctionOnSet(f, immature) \in Nat
      BY <1>2, <1>4, SumType
    <2>2. SumFunctionOnSet(g, UnlockHeights) \in Nat
      BY <1>3, UnlockHeightsFacts, SumType
    <2> QED BY <1>1, <2>1, <2>2, SummandTypes
  <1>9. Balance(ledger, a) >= SumFunction(f)
    BY <1>1, <1>5, <1>6, <1>7, <1>8
  <1> QED BY <1>9 DEF f, immature

\* For every schedule, maturity and set of accounts, and across any commits and
\* roll-backs: the locks are exactly the pending rewards, balances cover them, and
\* no reward of the last RewardMaturity blocks has been spent.
THEOREM LocksAreSound == LedgerSpec => []LocksSound
  <1>1. LedgerInv => LocksCovered
    BY DEF LedgerInv, SoundLedgers, Sound, LocksCovered
  <1>2. LedgerInv /\ Accounted => LocksSound
    BY <1>1, LocksAreExact, RewardsHeld DEF LocksSound
  <1> QED BY <1>2, Invariance, AlwaysAccounted, PTL

-----------------------------------------------------------------------------
(* Replay.  The steps of a preparation compute what ApplyBlock folds, and    *)
(* the blocks of a chain replay to its ledger.                               *)

\* FoldLeft's choice of the last index of each set, as a function.
MaxOf(S) == [s \in SUBSET S |-> Max(s)]

\* The largest of a non-empty set of indices is one of them.
LEMMA MaxChooses ==
    ASSUME NEW n \in Nat
    PROVE  /\ Chooser(1 .. n, MaxOf(1 .. n))
           /\ n # 0 => Max(1 .. n) = n
  <1>1. ASSUME NEW s \in SUBSET (1 .. n), s # {}
        PROVE  Max(s) \in s
    <2> DEFINE T == {n - x : x \in s}
    <2>1. T \in SUBSET Nat /\ T # {}
      <3>1. \A x \in s : n - x \in Nat
        <4>1. \A x \in 1 .. n : n - x \in Nat
          OBVIOUS
        <4> QED BY <4>1
      <3> QED BY <1>1, <3>1
    <2>2. PICK m \in T : \A y \in T : m <= y
      BY <2>1, LeastNatural
    <2>3. PICK x \in s : m = n - x
      BY <2>2
    <2>4. ASSUME NEW y \in s PROVE x >= y
      <3>1. n - x <= n - y
        BY <2>2, <2>3
      <3>2. x \in Nat /\ y \in Nat
        OBVIOUS
      <3> QED BY <3>1, <3>2
    <2>5. \E z \in s : \A y \in s : z >= y
      BY <2>4
    <2> HIDE DEF T
    <2> QED BY <2>5 DEF Max
  <1>2. Chooser(1 .. n, MaxOf(1 .. n))
    BY <1>1 DEF Chooser, MaxOf
  <1>3. ASSUME n # 0 PROVE Max(1 .. n) = n
    <2> DEFINE m == Max(1 .. n)
    <2>1. n \in 1 .. n /\ \A y \in 1 .. n : n >= y
      BY <1>3
    <2>2. m \in 1 .. n /\ \A y \in 1 .. n : m >= y
      BY <2>1 DEF Max
    <2> HIDE DEF m
    <2>3. m = n
      BY <2>1, <2>2
    <2> QED BY <2>3 DEF m
  <1> QED BY <1>2, <1>3

\* The loop over a block's transfers, as ApplyBlock folds it.
Settled(ts, h, p, b) == FoldLeft(LAMBDA acc, t : SettleOne(acc, h, p, t), b, ts)

\* The equation that the fold behind Settled solves.
Settles(ts, h, p, b, g) ==
    g = [s \in SUBSET DOMAIN ts |->
            IF s = {} THEN b ELSE SettleOne(g[s \ {Max(s)}], h, p, ts[Max(s)])]

\* The loop is a fold.
LEMMA SettledIsFold ==
    ASSUME NEW ts, NEW h, NEW p, NEW b
    PROVE  /\ Settled(ts, h, p, b) = (CHOOSE g : Settles(ts, h, p, b, g))[DOMAIN ts]
           /\ \A g : Settles(ts, h, p, b, g) <=>
                 Folds([fold |-> "settle", height |-> h, reward_pk |-> p],
                       DOMAIN ts, ts, MaxOf(DOMAIN ts), b, g)
  <1>1. Settled(ts, h, p, b) = (CHOOSE g : Settles(ts, h, p, b, g))[DOMAIN ts]
    BY DEF Settled, FoldLeft, MapThenFoldSet, Settles
  <1> DEFINE op == [fold |-> "settle", height |-> h, reward_pk |-> p]
             D == DOMAIN ts
             c == MaxOf(D)
  <1>2. \A x, acc : Combine(op, x, acc) = SettleOne(acc, h, p, x)
    <2>1. op.fold = "settle" /\ op.height = h /\ op.reward_pk = p
      OBVIOUS
    <2> HIDE DEF op
    <2> QED BY <2>1 DEF Combine
  <1>3. \A s \in SUBSET D : c[s] = Max(s)
    BY DEF MaxOf
  <1> HIDE DEF op, c, D
  <1>4. ASSUME NEW g
        PROVE  [s \in SUBSET D |->
                   IF s = {} THEN b ELSE SettleOne(g[s \ {Max(s)}], h, p, ts[Max(s)])]
             = [s \in SUBSET D |->
                   IF s = {} THEN b ELSE Combine(op, ts[c[s]], g[s \ {c[s]}])]
    BY <1>2, <1>3
  <1>5. \A g : Settles(ts, h, p, b, g) <=> Folds(op, D, ts, c, b, g)
    BY <1>4 DEF Settles, Folds, D
  <1> QED BY <1>1, <1>5 DEF op, c, D

\* The fold's operation that settles a transfer at a height for a producer.
SettleOp(h, p) == [fold |-> "settle", height |-> h, reward_pk |-> p]

\* The transfers of a block are settled by a fold from the last one down.
LEMMA SettledFold ==
    ASSUME NEW h, NEW p, NEW b, NEW ts \in Seq(Envelopes)
    PROVE  \E g : /\ Settled(ts, h, p, b) = g[1 .. Len(ts)]
                  /\ Settles(ts, h, p, b, g)
                  /\ Folds(SettleOp(h, p), 1 .. Len(ts), ts, MaxOf(1 .. Len(ts)), b, g)
  <1>1. DOMAIN ts = 1 .. Len(ts) /\ Len(ts) \in Nat
    OBVIOUS
  <1> DEFINE D == 1 .. Len(ts)
             g == CHOOSE g : Settles(ts, h, p, b, g)
  <1>2. IsFiniteSet(D) /\ Chooser(D, MaxOf(D))
    BY <1>1, FS_Interval, MaxChooses
  <1> HIDE DEF SettleOp, D
  <1>3. \E f : Folds(SettleOp(h, p), D, ts, MaxOf(D), b, f)
    BY <1>2, FoldsExist
  <1>4. \A f : Settles(ts, h, p, b, f) <=> Folds(SettleOp(h, p), D, ts, MaxOf(D), b, f)
    BY <1>1, SettledIsFold DEF SettleOp, D
  <1>5. Settles(ts, h, p, b, g)
    BY <1>3, <1>4
  <1>6. Settled(ts, h, p, b) = g[D]
    BY <1>1, SettledIsFold DEF D
  <1> HIDE DEF g
  <1> QED BY <1>4, <1>5, <1>6 DEF D

\* No transfer leaves the ledger alone.
LEMMA SettledNone ==
    ASSUME NEW h, NEW p, NEW b
    PROVE  Settled(<<>>, h, p, b) = b
  <1>1. <<>> \in Seq(Envelopes) /\ 1 .. Len(<<>>) = {} /\ DOMAIN <<>> = {}
    OBVIOUS
  <1>2. PICK g : Settled(<<>>, h, p, b) = g[{}] /\ Settles(<<>>, h, p, b, g)
    BY SettledFold, <1>1
  <1>3. {} \in SUBSET DOMAIN <<>>
    OBVIOUS
  <1>4. g[{}] = b
    BY <1>2, <1>3, Zenon DEF Settles
  <1> QED BY <1>2, <1>4

\* One more transfer is settled last.
LEMMA SettledLast ==
    ASSUME NEW h, NEW p, NEW b, NEW ts \in Seq(Envelopes), NEW t \in Envelopes
    PROVE  Settled(Append(ts, t), h, p, b) = SettleOne(Settled(ts, h, p, b), h, p, t)
  <1> DEFINE us == Append(ts, t)
             N == Len(ts)
  <1>1. /\ us \in Seq(Envelopes) /\ Len(us) = N + 1 /\ N \in Nat
        /\ us[N + 1] = t /\ \A i \in 1 .. N : us[i] = ts[i]
        /\ DOMAIN us = 1 .. N + 1
    OBVIOUS
  <1> HIDE DEF us, N
  <1>2. PICK g : /\ Settled(us, h, p, b) = g[1 .. N + 1]
                 /\ Settles(us, h, p, b, g)
                 /\ Folds(SettleOp(h, p), 1 .. N + 1, us, MaxOf(1 .. N + 1), b, g)
    BY SettledFold, <1>1
  <1>3. PICK k : /\ Settled(ts, h, p, b) = k[1 .. N]
                 /\ Folds(SettleOp(h, p), 1 .. N, ts, MaxOf(1 .. N), b, k)
    BY SettledFold DEF N
  <1>4. /\ IsFiniteSet(1 .. N + 1) /\ 1 .. N \in SUBSET (1 .. N + 1)
        /\ Chooser(1 .. N, MaxOf(1 .. N))
        /\ \A r \in SUBSET (1 .. N) : MaxOf(1 .. N + 1)[r] = MaxOf(1 .. N)[r]
        /\ 1 .. N \in SUBSET (1 .. N)
    <2>1. IsFiniteSet(1 .. N + 1)
      BY <1>1, FS_Interval
    <2>2. 1 .. N \in SUBSET (1 .. N + 1)
      BY <1>1
    <2> QED BY <1>1, <2>1, <2>2, MaxChooses DEF MaxOf
  <1>5. g[1 .. N] = k[1 .. N]
    <2> DEFINE S == 1 .. N + 1
               T == 1 .. N
               c == MaxOf(S)
               d == MaxOf(T)
               op == SettleOp(h, p)
    <2>1. /\ IsFiniteSet(S) /\ T \in SUBSET S /\ T \in SUBSET T
          /\ (\A x \in T : us[x] = ts[x])
          /\ Chooser(T, d) /\ (\A r \in SUBSET T : c[r] = d[r])
          /\ Folds(op, S, us, c, b, g) /\ Folds(op, T, ts, d, b, k)
      BY <1>1, <1>2, <1>3, <1>4
    <2> HIDE DEF S, T, c, d, op
    <2>2. g[T] = k[T]
      BY <2>1, FoldsUnique
    <2> QED BY <2>2 DEF T
  <1>6. g[1 .. N + 1] = SettleOne(g[1 .. N], h, p, t)
    <2> DEFINE S == 1 .. N + 1
    <2>1. S # {} /\ Max(S) = N + 1 /\ S \ {N + 1} = 1 .. N
      <3>1. N + 1 \in Nat /\ N + 1 # 0
        BY <1>1
      <3>2. Max(1 .. N + 1) = N + 1
        BY <3>1, MaxChooses
      <3>3. N + 1 \in 1 .. N + 1 /\ \A x : x \in (1 .. N + 1) \ {N + 1} <=> x \in 1 .. N
        BY <1>1
      <3> QED BY <3>2, <3>3
    <2>2. S \in SUBSET DOMAIN us
      BY <1>1
    <2> HIDE DEF S
    <2>3. g[S] = IF S = {} THEN b ELSE SettleOne(g[S \ {Max(S)}], h, p, us[Max(S)])
      BY <1>2, <2>2, Zenon DEF Settles
    <2>4. g[S] = SettleOne(g[1 .. N], h, p, t)
      BY <1>1, <2>1, <2>3
    <2> QED BY <2>4 DEF S
  <1>7. Settled(us, h, p, b) = SettleOne(Settled(ts, h, p, b), h, p, t)
    BY <1>2, <1>3, <1>5, <1>6
  <1> QED BY <1>7 DEF us

\* The equation that the fold behind UnlockRewards solves.
Unlocks(S, l, g) ==
    g = [s \in SUBSET S |-> IF s = {} THEN l ELSE UnlockReward(g[s \ {One(s)}], One(s))]

\* unlock_rewards, in whatever order the fold takes: every reward that is due is
\* gone, nothing else is touched and the ledger is still audited.
LEMMA UnlockedAll ==
    ASSUME NEW l \in Ledger, Audited(l), NEW h \in Nat
    PROVE  LET n == UnlockRewards(l, h)
           IN  /\ n \in Ledger /\ Audited(n)
               /\ n.height = l.height /\ n.issued = l.issued
               /\ n.balances = l.balances /\ n.next_nonces = l.next_nonces
               /\ \A k \in UnlockHeights : n.pending_rewards[k] =
                     IF k \in Matured(l, h) THEN None ELSE l.pending_rewards[k]
               /\ \A a \in Accounts : LockedBalance(n, a) <= LockedBalance(l, a)
  <1> DEFINE D == Matured(l, h)
             id == [k \in D |-> k]
             c == OneOf(D)
             op == [fold |-> "unlock"]
             g == CHOOSE g : Unlocks(D, l, g)
             After(n, s) == /\ n \in Ledger /\ Audited(n)
                            /\ n.height = l.height /\ n.issued = l.issued
                            /\ n.balances = l.balances /\ n.next_nonces = l.next_nonces
                            /\ \A k \in UnlockHeights : n.pending_rewards[k] =
                                  IF k \in s THEN None ELSE l.pending_rewards[k]
                            /\ \A a \in Accounts : LockedBalance(n, a) <= LockedBalance(l, a)
  <1>1. D \subseteq UnlockHeights /\ IsFiniteSet(D)
    BY UnlockHeightsFacts, FS_Subset DEF Matured
  <1>2. \A x, acc : Combine(op, x, acc) = UnlockReward(acc, x)
    <2>1. op.fold = "unlock"
      OBVIOUS
    <2> HIDE DEF op
    <2> QED BY <2>1 DEF Combine
  <1>3. Chooser(D, c) /\ \A s \in SUBSET D : c[s] = One(s)
    BY OneChooses DEF OneOf
  <1>4. \A s \in SUBSET D : s # {} => c[s] \in s /\ id[c[s]] = One(s)
    BY <1>3 DEF Chooser
  <1>5. UnlockRewards(l, h) = g[D]
    BY DEF UnlockRewards, FoldSet, MapThenFoldSet, Unlocks, One
  <1> HIDE DEF D, id, c, op
  <1>6. Unlocks(D, l, g)
    <2>1. PICK f : Folds(op, D, id, c, l, f)
      BY <1>1, <1>3, FoldsExist
    <2>2. [s \in SUBSET D |-> IF s = {} THEN l ELSE Combine(op, id[c[s]], f[s \ {c[s]}])]
        = [s \in SUBSET D |-> IF s = {} THEN l ELSE UnlockReward(f[s \ {One(s)}], One(s))]
      BY <1>2, <1>3, <1>4
    <2>3. Unlocks(D, l, f)
      BY <2>1, <2>2 DEF Folds, Unlocks
    <2> QED BY <2>3
  <1> HIDE DEF g
  <1>7. \A s \in SUBSET D :
           g[s] = IF s = {} THEN l ELSE UnlockReward(g[s \ {One(s)}], One(s))
    BY <1>6, Zenon DEF Unlocks
  <1> DEFINE C == {s \in SUBSET D : ~ After(g[s], s)}
  <1>8. ASSUME C # {} PROVE FALSE
    <2>0. C \in SUBSET SUBSET D
      OBVIOUS
    <2>1. PICK s \in C : \A x \in s : s \ {x} \notin C
      <3> HIDE DEF C
      <3> QED BY <1>1, <1>8, <2>0, SmallestSet
    <2>2. s \in SUBSET D /\ ~ After(g[s], s)
      BY <2>1
    <2>3. CASE s = {}
      <3>1. g[s] = l
        BY <1>7, <2>2, <2>3
      <3>2. \A a \in Accounts : LockedBalance(l, a) <= LockedBalance(l, a)
        BY DEF LockedBalance, OrZero, Ledger
      <3> QED BY <2>2, <2>3, <3>1, <3>2
    <2>4. CASE s # {}
      <3> DEFINE x == One(s)
                 r == s \ {x}
                 m == g[r]
                 n == UnlockReward(m, x)
      <3>1. x \in s /\ x \in UnlockHeights /\ x \in D /\ x \notin r
        BY <1>1, <2>2, <2>4 DEF One
      <3>2. After(m, r)
        BY <2>1, <2>2, <3>1
      <3>3. g[s] = n
        BY <1>7, <2>2, <2>4
      <3> HIDE DEF x, r, m, n
      <3>4. m \in Ledger /\ Audited(m) /\ x \in Matured(m, h)
        <4>1. m.pending_rewards[x] = l.pending_rewards[x]
          BY <3>1, <3>2
        <4> QED BY <3>1, <3>2, <4>1 DEF Matured, D
      <3>5. UnlockPossible(m, x)
        BY <3>4, AlwaysUnlockable
      <3>6. /\ n \in Ledger /\ n.height = m.height /\ n.issued = m.issued
            /\ n.balances = m.balances /\ n.next_nonces = m.next_nonces
            /\ \A j \in UnlockHeights :
                  n.pending_rewards[j] = IF j = x THEN None ELSE m.pending_rewards[j]
            /\ \A a \in Accounts : LockedBalance(n, a) <= LockedBalance(m, a)
        BY <3>4, <3>5, UnlockType DEF n
      <3>7. Audited(n)
        BY <3>4, UnlockAudit DEF n
      <3>8. \A k \in UnlockHeights : n.pending_rewards[k] =
               IF k \in s THEN None ELSE l.pending_rewards[k]
        BY <3>1, <3>2, <3>6 DEF r
      <3>9. \A a \in Accounts : LockedBalance(n, a) <= LockedBalance(l, a)
        <4>1. \A a \in Accounts : /\ LockedBalance(n, a) \in Nat
                                   /\ LockedBalance(m, a) \in Nat
                                   /\ LockedBalance(l, a) \in Nat
          BY <3>4, <3>6 DEF LockedBalance, OrZero, Ledger
        <4> QED BY <3>2, <3>6, <4>1
      <3>10. After(n, s)
        BY <3>2, <3>6, <3>7, <3>8, <3>9
      <3> QED BY <2>2, <3>3, <3>10
    <2> QED BY <2>3, <2>4
  <1>9. After(g[D], D)
    BY <1>8
  <1> QED BY <1>5, <1>9 DEF D

\* The locks of an audited ledger are determined by the rest of it.
LEMMA AuditedEqual ==
    ASSUME NEW l \in Ledger, NEW n \in Ledger, Audited(l), Audited(n),
           l.height = n.height, l.issued = n.issued, l.balances = n.balances,
           l.next_nonces = n.next_nonces,
           \A k \in UnlockHeights : l.pending_rewards[k] = n.pending_rewards[k]
    PROVE  l = n
  <1>1. l.pending_rewards = n.pending_rewards
    BY DEF Ledger
  <1>2. \A a \in Accounts : Owed(l, a) = Owed(n, a)
    BY <1>1, SameAudit
  <1>3. \A a \in Accounts : l.locked_balances[a] = n.locked_balances[a]
    BY <1>2 DEF Audited, LocksMatch
  <1>4. l.locked_balances = n.locked_balances
    BY <1>3 DEF Ledger
  <1> QED BY <1>1, <1>4 DEF Ledger

\* The inductive invariant of a replay: each ledger of the history is what
\* ApplyBlock makes of the one below, and the staged ledger what it has made so far.
Replayed ==
    /\ history[1] = GenesisLedger
    /\ \A i \in 1 .. Len(blocks) :
          history[i + 1] = ApplyBlock(history[i], i, blocks[i].reward_pk, blocks[i].transfers)
    /\ stage = "unlocking" =>
          /\ block.transfers = <<>>
          /\ staged.height = ledger.height /\ staged.issued = ledger.issued
          /\ staged.balances = ledger.balances /\ staged.next_nonces = ledger.next_nonces
          /\ \A k \in UnlockHeights :
                \/ staged.pending_rewards[k] = ledger.pending_rewards[k]
                \/ staged.pending_rewards[k] = None /\ k \in Matured(ledger, Height)
    /\ stage = "settling" =>
          staged = Settled(block.transfers, Height, block.reward_pk,
                           UnlockRewards(ledger, Height))
    /\ stage = "prepared" =>
          staged = ApplyBlock(ledger, Height, block.reward_pk, block.transfers)

\* Leaving the unlock loop: the rewards were unlocked as unlock_rewards does it.
LEMMA UnlockDoneReplayed ==
    ASSUME LedgerInv, Accounted, Replayed, UnlockDone
    PROVE  staged = Settled(block.transfers, Height, block.reward_pk,
                            UnlockRewards(ledger, Height))
  <1> DEFINE n == UnlockRewards(ledger, Height)
  <1>1. /\ stage = "unlocking" /\ Matured(staged, Height) = {}
    BY DEF UnlockDone
  <1>2. /\ ledger \in Ledger /\ staged \in Ledger /\ Audited(staged) /\ Audited(ledger)
        /\ Height \in Nat
    <2>1. Audited(ledger)
      BY LedgerAccounted DEF LedgerAt
    <2> QED BY <2>1 DEF LedgerInv, LedgerTypeOK, Ledger, Height, Accounted
  <1>3. /\ n \in Ledger /\ Audited(n)
        /\ n.height = ledger.height /\ n.issued = ledger.issued
        /\ n.balances = ledger.balances /\ n.next_nonces = ledger.next_nonces
        /\ \A k \in UnlockHeights : n.pending_rewards[k] =
              IF k \in Matured(ledger, Height) THEN None ELSE ledger.pending_rewards[k]
    BY <1>2, UnlockedAll
  <1> HIDE DEF n
  <1>4. /\ block.transfers = <<>>
        /\ staged.height = ledger.height /\ staged.issued = ledger.issued
        /\ staged.balances = ledger.balances /\ staged.next_nonces = ledger.next_nonces
        /\ \A k \in UnlockHeights :
              \/ staged.pending_rewards[k] = ledger.pending_rewards[k]
              \/ staged.pending_rewards[k] = None /\ k \in Matured(ledger, Height)
    BY <1>1 DEF Replayed
  <1>5. ASSUME NEW k \in UnlockHeights
        PROVE  staged.pending_rewards[k] = n.pending_rewards[k]
    <2>1. CASE k \in Matured(ledger, Height)
      <3>1. k <= Height /\ k \notin Matured(staged, Height)
        BY <1>1, <2>1 DEF Matured
      <3>2. staged.pending_rewards[k] = None
        BY <3>1 DEF Matured
      <3> QED BY <1>3, <2>1, <3>2
    <2>2. CASE k \notin Matured(ledger, Height)
      BY <1>3, <1>4, <2>2
    <2> QED BY <2>1, <2>2
  <1>6. staged = n
    BY <1>2, <1>3, <1>4, <1>5, AuditedEqual
  <1>7. Settled(<<>>, Height, block.reward_pk, n) = n
    BY SettledNone
  <1> QED BY <1>4, <1>6, <1>7 DEF n

\* Every step keeps it.
LEMMA NextReplayed == LedgerInv /\ Accounted /\ Replayed /\ [LedgerNext]_ledger_vars => Replayed'
  <1> SUFFICES ASSUME LedgerInv, Accounted, Replayed, [LedgerNext]_ledger_vars PROVE Replayed'
    OBVIOUS
  <1> DEFINE B == Len(blocks)
             Past == /\ history[1] = GenesisLedger
                     /\ \A i \in 1 .. B : history[i + 1] =
                           ApplyBlock(history[i], i, blocks[i].reward_pk, blocks[i].transfers)
  <1>1. /\ blocks \in Seq(Block) /\ history \in Seq(Ledger) /\ B \in Nat
        /\ Len(history) = B + 1 /\ ledger = history[B + 1] /\ Height = B + 1
        /\ ledger \in Ledger /\ staged \in Ledger /\ block \in Block
    <2>1. Height = B + 1
      BY LedgerAccounted
    <2> QED BY <2>1 DEF LedgerInv, LedgerTypeOK, UndoExact
  <1>2. Past
    BY DEF Replayed
  <1>3. ASSUME UNCHANGED <<ledger, blocks, history>>
        PROVE  Past' /\ Height' = Height
    BY <1>2, <1>3 DEF Height
  <1>4. ASSUME NEW p \in Accounts, BeginBlock(p) PROVE Replayed'
    <2>1. /\ stage' = "unlocking" /\ staged' = ledger /\ UNCHANGED <<ledger, blocks, history>>
          /\ block' = [reward_pk |-> p, transfers |-> <<>>, reward |-> 0]
      BY <1>4 DEF BeginBlock
    <2>2. block'.transfers = <<>>
      BY <2>1
    <2> HIDE DEF Past
    <2> QED BY <1>3, <2>1, <2>2 DEF Replayed, Past
  <1>5. ASSUME NEW k \in UnlockHeights, UnlockOne(k) PROVE Replayed'
    <2>1. /\ stage = "unlocking" /\ stage' = stage /\ block' = block
          /\ staged' = UnlockReward(staged, k) /\ UnlockPossible(staged, k)
          /\ k \in Matured(staged, Height) /\ UNCHANGED <<ledger, blocks, history>>
      BY <1>5 DEF UnlockOne
    <2>2. Height \in Nat
      BY <1>1
    <2>3. /\ staged'.height = staged.height /\ staged'.issued = staged.issued
          /\ staged'.balances = staged.balances /\ staged'.next_nonces = staged.next_nonces
          /\ \A j \in UnlockHeights : staged'.pending_rewards[j]
                = IF j = k THEN None ELSE staged.pending_rewards[j]
      BY <1>1, <2>1, <2>2, UnlockType
    <2>4. /\ block.transfers = <<>>
          /\ staged.height = ledger.height /\ staged.issued = ledger.issued
          /\ staged.balances = ledger.balances /\ staged.next_nonces = ledger.next_nonces
          /\ \A j \in UnlockHeights :
                \/ staged.pending_rewards[j] = ledger.pending_rewards[j]
                \/ staged.pending_rewards[j] = None /\ j \in Matured(ledger, Height)
      BY <2>1 DEF Replayed
    <2>5. k \in Matured(ledger, Height)
      BY <2>1, <2>4 DEF Matured
    <2>6. \A j \in UnlockHeights :
                \/ staged'.pending_rewards[j] = ledger.pending_rewards[j]
                \/ staged'.pending_rewards[j] = None /\ j \in Matured(ledger, Height)
      BY <2>3, <2>4, <2>5
    <2>7. Past' /\ Height' = Height /\ ledger' = ledger
      BY <1>3, <2>1
    <2> QED BY <2>1, <2>3, <2>4, <2>6, <2>7 DEF Replayed
  <1>6. CASE UnlockDone
    <2>1. /\ stage' = "settling" /\ UNCHANGED <<ledger, blocks, staged, block, history>>
      BY <1>6 DEF UnlockDone
    <2>2. Past' /\ Height' = Height /\ ledger' = ledger
      BY <1>3, <2>1
    <2> QED BY <1>6, <2>1, <2>2, UnlockDoneReplayed DEF Replayed
  <1>7. ASSUME NEW t \in Envelopes, SettleTransfer(t) PROVE Replayed'
    <2> DEFINE p == block.reward_pk
               ts == block.transfers
               base == UnlockRewards(ledger, Height)
    <2>1. /\ stage = "settling" /\ stage' = stage /\ UNCHANGED <<ledger, blocks, history>>
          /\ Transferable(staged, Height, t) /\ CreditsFit(staged, p, t)
          /\ staged' = CommitTransfer(staged, p, t)
          /\ block' = [block EXCEPT !.transfers = Append(@, t)]
      BY <1>7 DEF SettleTransfer
    <2>2. block'.transfers = Append(ts, t) /\ block'.reward_pk = p /\ ts \in Seq(Envelopes)
      BY <1>1, <2>1 DEF Block
    <2>3. staged = Settled(ts, Height, p, base)
      BY <2>1 DEF Replayed
    <2>4. staged' = SettleOne(staged, Height, p, t)
      BY <1>1, <2>1, MarkerAssumption DEF SettleOne
    <2> HIDE DEF p, ts, base
    <2>5. staged' = Settled(Append(ts, t), Height, p, base)
      <3>1. ts \in Seq(Envelopes)
        BY <2>2
      <3>2. Settled(Append(ts, t), Height, p, base)
                = SettleOne(Settled(ts, Height, p, base), Height, p, t)
        BY <3>1, SettledLast
      <3> QED BY <2>3, <2>4, <3>2
    <2>6. Past' /\ Height' = Height /\ ledger' = ledger
      BY <1>3, <2>1
    <2>7. staged' = Settled(block'.transfers, Height', block'.reward_pk,
                            UnlockRewards(ledger', Height'))
      BY <2>2, <2>5, <2>6 DEF base
    <2> QED BY <2>1, <2>6, <2>7 DEF Replayed
  <1>8. CASE Drop
    <2>1. stage' = "idle" /\ UNCHANGED <<ledger, blocks, history>>
      BY <1>8 DEF Drop
    <2>2. Past'
      BY <1>3, <2>1
    <2> QED BY <2>1, <2>2 DEF Replayed
  <1>9. CASE SettleEmission
    <2> DEFINE e == Emission(Height, staged.issued)
               p == block.reward_pk
               ts == block.transfers
    <2>1. /\ stage = "settling" /\ stage' = "prepared" /\ UNCHANGED <<ledger, blocks, history>>
          /\ EmissionFits(staged, Height, p)
          /\ staged' = EmitReward(staged, Height, p)
          /\ block' = [block EXCEPT !.reward = e]
      BY <1>9 DEF SettleEmission
    <2> HIDE DEF e
    <2>2. block'.transfers = ts /\ block'.reward_pk = p
      BY <1>1, <2>1 DEF Block
    <2>3. staged = Settled(ts, Height, p, UnlockRewards(ledger, Height)) /\ staged # None
      BY <1>1, <2>1, MarkerAssumption DEF Replayed
    <2> HIDE DEF p, ts
    <2>4. staged' = ApplyBlock(ledger, Height, p, ts)
      BY <2>1, <2>3 DEF ApplyBlock, Settled
    <2>5. Past' /\ Height' = Height /\ ledger' = ledger
      BY <1>3, <2>1
    <2> QED BY <2>1, <2>2, <2>4, <2>5 DEF Replayed
  <1>10. CASE CommitBlock
    <2>1. /\ stage = "prepared" /\ stage' = "idle"
          /\ blocks' = Append(blocks, block) /\ history' = Append(history, staged)
      BY <1>10 DEF CommitBlock
    <2>2. staged = ApplyBlock(ledger, Height, block.reward_pk, block.transfers)
      BY <2>1 DEF Replayed
    <2>3. /\ Len(blocks') = B + 1 /\ blocks'[B + 1] = block
          /\ \A i \in 1 .. B : blocks'[i] = blocks[i]
          /\ history'[(B + 1) + 1] = staged
          /\ \A i \in 1 .. B + 1 : history'[i] = history[i]
      BY <1>1, <2>1
    <2> HIDE DEF B
    <2>4. ASSUME NEW i \in 1 .. B + 1
          PROVE  history'[i + 1]
                    = ApplyBlock(history'[i], i, blocks'[i].reward_pk, blocks'[i].transfers)
      <3>1. CASE i \in 1 .. B
        <4>1. /\ history'[i + 1] = history[i + 1] /\ history'[i] = history[i]
              /\ blocks'[i] = blocks[i]
          BY <1>1, <2>3, <3>1
        <4> QED BY <1>2, <3>1, <4>1
      <3>2. CASE i = B + 1
        <4>1. history'[i + 1] = staged /\ history'[i] = ledger /\ blocks'[i] = block
          BY <1>1, <2>3, <3>2
        <4> QED BY <1>1, <2>2, <3>2, <4>1
      <3> QED BY <1>1, <3>1, <3>2
    <2>5. history'[1] = GenesisLedger
      BY <1>1, <1>2, <2>3
    <2> QED BY <2>1, <2>3, <2>4, <2>5 DEF Replayed
  <1>11. CASE RollBack
    <2>1. /\ stage' = "idle" /\ stage = "idle" /\ recent_undo # <<>>
          /\ blocks' = SubSeq(blocks, 1, B - 1)
          /\ history' = SubSeq(history, 1, Len(history) - 1)
      BY <1>11 DEF RollBack
    <2>2. B \in Nat \ {0}
      <3>1. Len(recent_undo) \in Nat \ {0} /\ Len(recent_undo) <= B
        BY <2>1 DEF LedgerInv, LedgerTypeOK, WindowInverts
      <3> QED BY <1>1, <3>1
    <2>3. /\ Len(blocks') = B - 1
          /\ \A i \in 1 .. B - 1 : blocks'[i] = blocks[i]
          /\ \A i \in 1 .. B : history'[i] = history[i]
      <3>1. B - 1 \in 0 .. Len(blocks) /\ Len(history) - 1 \in 0 .. Len(history)
            /\ Len(history) - 1 = B
        BY <1>1, <2>2
      <3> QED BY <1>1, <2>1, <3>1, PrefixType
    <2> HIDE DEF B
    <2>4. ASSUME NEW i \in 1 .. B - 1
          PROVE  history'[i + 1]
                    = ApplyBlock(history'[i], i, blocks'[i].reward_pk, blocks'[i].transfers)
      <3>1. i \in 1 .. B /\ i + 1 \in 1 .. B
        BY <2>2
      <3>2. /\ history'[i + 1] = history[i + 1] /\ history'[i] = history[i]
            /\ blocks'[i] = blocks[i]
        BY <2>3, <3>1
      <3> QED BY <1>2, <3>1, <3>2
    <2>5. history'[1] = GenesisLedger
      BY <1>2, <2>2, <2>3
    <2> QED BY <2>1, <2>3, <2>4, <2>5 DEF Replayed
  <1>12. CASE UNCHANGED ledger_vars
    <2>1. UNCHANGED <<ledger, blocks, stage, staged, block, history>>
      BY <1>12 DEF ledger_vars
    <2>2. Past' /\ Height' = Height
      BY <1>3, <2>1
    <2> QED BY <2>1, <2>2 DEF Replayed
  <1> HIDE DEF Past
  <1> QED
    BY <1>4, <1>5, <1>6, <1>7, <1>8, <1>9, <1>10, <1>11, <1>12
       DEF LedgerNext, RefuseTransfer, DropPrepared

\* The equation that the fold behind Replay solves.
Replays(bs, g) ==
    g = [s \in SUBSET DOMAIN bs |->
            IF s = {} THEN GenesisLedger
            ELSE ApplyBlock(g[s \ {Max(s)}], g[s \ {Max(s)}].height + 1,
                            bs[Max(s)].reward_pk, bs[Max(s)].transfers)]

\* The replay of ReplayAgrees is a fold.
LEMMA ReplayIsFold ==
    /\ ReplayAgrees <=> ledger = (CHOOSE g : Replays(blocks, g))[DOMAIN blocks]
    /\ \A g : Replays(blocks, g) <=>
          Folds([fold |-> "replay"], DOMAIN blocks, blocks, MaxOf(DOMAIN blocks),
                GenesisLedger, g)
  <1>1. ReplayAgrees <=> ledger = (CHOOSE g : Replays(blocks, g))[DOMAIN blocks]
    BY DEF ReplayAgrees, FoldLeft, MapThenFoldSet, Replays
  <1> DEFINE op == [fold |-> "replay"]
             D == DOMAIN blocks
             c == MaxOf(D)
             b == GenesisLedger
  <1>2. \A x, acc : Combine(op, x, acc)
                       = ApplyBlock(acc, acc.height + 1, x.reward_pk, x.transfers)
    <2>1. op.fold = "replay"
      OBVIOUS
    <2> HIDE DEF op
    <2> QED BY <2>1 DEF Combine
  <1>3. \A s \in SUBSET D : c[s] = Max(s)
    BY DEF MaxOf
  <1> HIDE DEF op, c, D, b
  <1>4. ASSUME NEW g
        PROVE  [s \in SUBSET D |->
                   IF s = {} THEN b
                   ELSE ApplyBlock(g[s \ {Max(s)}], g[s \ {Max(s)}].height + 1,
                                   blocks[Max(s)].reward_pk, blocks[Max(s)].transfers)]
             = [s \in SUBSET D |->
                   IF s = {} THEN b ELSE Combine(op, blocks[c[s]], g[s \ {c[s]}])]
    BY <1>2, <1>3
  <1>5. \A g : Replays(blocks, g) <=> Folds(op, D, blocks, c, b, g)
    BY <1>4 DEF Replays, Folds, D, b
  <1> QED BY <1>1, <1>5 DEF op, c, D, b

\* The prefixes of the chain replay to the ledgers of the history.
LEMMA ChainReplays ==
    ASSUME LedgerInv, Replayed
    PROVE  ReplayAgrees
  <1> DEFINE B == Len(blocks)
             D == DOMAIN blocks
             g == CHOOSE g : Replays(blocks, g)
             Bad == {i \in 0 .. B : g[1 .. i] # history[i + 1]}
  <1>1. /\ blocks \in Seq(Block) /\ history \in Seq(Ledger) /\ B \in Nat
        /\ D = 1 .. B /\ Len(history) = B + 1 /\ ledger = history[B + 1]
        /\ \A i \in 1 .. B + 1 : history[i].height = i - 1
    BY DEF LedgerInv, LedgerTypeOK, UndoExact, Heights
  <1>2. Replays(blocks, g)
    <2> DEFINE op == [fold |-> "replay"]
               c == MaxOf(D)
    <2>1. IsFiniteSet(D) /\ Chooser(D, c)
      BY <1>1, FS_Interval, MaxChooses
    <2>2. \A f : Replays(blocks, f) <=> Folds(op, D, blocks, c, GenesisLedger, f)
      BY ReplayIsFold
    <2> HIDE DEF op, c, D
    <2>3. \E f : Folds(op, D, blocks, c, GenesisLedger, f)
      BY <2>1, FoldsExist
    <2> QED BY <2>2, <2>3
  <1>3. ReplayAgrees <=> ledger = g[D]
    BY ReplayIsFold
  <1> HIDE DEF g
  <1>4. \A s \in SUBSET D : g[s] =
           IF s = {} THEN GenesisLedger
           ELSE ApplyBlock(g[s \ {Max(s)}], g[s \ {Max(s)}].height + 1,
                           blocks[Max(s)].reward_pk, blocks[Max(s)].transfers)
    BY <1>2, Zenon DEF Replays
  <1> HIDE DEF B, D
  <1>5. g[1 .. 0] = history[0 + 1]
    <2>1. 1 .. 0 = {} /\ {} \in SUBSET D
      OBVIOUS
    <2>2. g[{}] = GenesisLedger
      BY <1>4, <2>1
    <2> QED BY <2>1, <2>2 DEF Replayed
  <1>6. ASSUME NEW i \in 1 .. B, g[1 .. i - 1] = history[i]
        PROVE  g[1 .. i] = history[i + 1]
    <2> DEFINE s == 1 .. i
    <2>1. i \in Nat /\ i # 0
      BY <1>1
    <2>2. s \in SUBSET D /\ Max(s) = i
      <3>1. Max(1 .. i) = i
        BY <2>1, MaxChooses
      <3>2. 1 .. i \subseteq 1 .. B
        BY <1>1
      <3> QED BY <1>1, <3>1, <3>2
    <2>3. i \in s /\ s \ {i} = 1 .. i - 1
      <3>1. i \in 1 .. i /\ \A x : x \in (1 .. i) \ {i} <=> x \in 1 .. i - 1
        BY <2>1
      <3> QED BY <3>1
    <2> HIDE DEF s
    <2>4. g[s] = ApplyBlock(g[s \ {Max(s)}], g[s \ {Max(s)}].height + 1,
                            blocks[Max(s)].reward_pk, blocks[Max(s)].transfers)
      BY <1>4, <2>2, <2>3
    <2>5. g[s] = ApplyBlock(history[i], history[i].height + 1,
                            blocks[i].reward_pk, blocks[i].transfers)
      BY <1>6, <2>2, <2>3, <2>4
    <2>6. history[i].height + 1 = i
      BY <1>1, <2>1
    <2>7. history[i + 1] = ApplyBlock(history[i], i, blocks[i].reward_pk, blocks[i].transfers)
      BY DEF Replayed, B
    <2> QED BY <2>5, <2>6, <2>7 DEF s
  <1>7. ASSUME Bad # {} PROVE FALSE
    <2>1. Bad \in SUBSET Nat
      BY <1>1
    <2>2. PICK i \in Bad : \A j \in Bad : i <= j
      BY <1>7, <2>1, LeastNatural
    <2>3. i \in 0 .. B /\ g[1 .. i] # history[i + 1]
      BY <2>2
    <2>4. i # 0
      BY <1>5, <2>3
    <2>5. i \in 1 .. B /\ i - 1 \in 0 .. B /\ i - 1 \notin Bad
      BY <1>1, <2>1, <2>2, <2>3, <2>4
    <2>6. g[1 .. i - 1] = history[(i - 1) + 1] /\ (i - 1) + 1 = i
      BY <1>1, <2>5
    <2> QED BY <1>6, <2>3, <2>5, <2>6
  <1>8. g[1 .. B] = history[B + 1]
    <2>1. B \in 0 .. B
      BY <1>1
    <2> QED BY <1>7, <2>1
  <1> QED BY <1>1, <1>3, <1>8

\* However a chain was reached, by commits and by roll-backs through fork_at, its
\* ledger is what NativeChain::replay computes from its blocks, the order in which
\* the fold unlocks rewards included; and no transfer occurs twice in it.
THEOREM HistoryIsSound == LedgerSpec => []HistorySound
  <1>1. LedgerInit => Replayed
    BY DEF LedgerInit, Replayed
  <1>2. LedgerInv /\ Replayed => ReplayAgrees
    BY ChainReplays
  <1>3. ReplayAgrees /\ NoReplay => HistorySound
    BY DEF HistorySound
  <1> QED
    BY <1>1, <1>2, <1>3, NextReplayed, Invariance, AlwaysAccounted, TransfersOnce, PTL
       DEF LedgerSpec

-----------------------------------------------------------------------------

\* Induction over sequences, with the claim as a set.
LEMMA SeqInduction ==
    ASSUME NEW V, NEW T, <<>> \in T,
           \A s \in T : \A x \in V : s \in Seq(V) => Append(s, x) \in T
    PROVE  \A s \in Seq(V) : s \in T
  <1> DEFINE Bad == {n \in Nat : \E s \in Seq(V) : Len(s) = n /\ s \notin T}
  <1>1. ASSUME Bad # {} PROVE FALSE
    <2>1. PICK n \in Bad : \A m \in Bad : n <= m
      BY <1>1, LeastNatural
    <2>2. PICK s \in Seq(V) : Len(s) = n /\ s \notin T
      BY <2>1
    <2>3. n # 0
      BY <2>2
    <2> DEFINE r == SubSeq(s, 1, n - 1)
    <2>4. r \in Seq(V) /\ Len(r) = n - 1 /\ s[n] \in V /\ s = Append(r, s[n])
      <3>1. n \in Nat /\ n \in 1 .. Len(s)
        BY <2>2, <2>3
      <3>2. r \in Seq(V) /\ Len(r) = n - 1
        BY <2>2, <3>1
      <3>3. s[n] \in V
        BY <3>1
      <3>4. s = Append(r, s[n])
        BY <2>2, <3>1
      <3> QED BY <3>2, <3>3, <3>4
    <2> HIDE DEF r
    <2>5. r \in T
      <3>1. n - 1 \in Nat /\ ~ (n <= n - 1)
        BY <2>3
      <3>2. n - 1 \notin Bad
        BY <2>1, <3>1
      <3> QED BY <2>4, <3>1, <3>2
    <2> QED BY <2>2, <2>4, <2>5
  <1>2. \A s \in Seq(V) : Len(s) \in Nat
    OBVIOUS
  <1> QED BY <1>1, <1>2

\* A fold of op over a sequence, from its first element on.
LeftFold(op, b, s) ==
    (CHOOSE g : Folds(op, DOMAIN s, s, MaxOf(DOMAIN s), b, g))[DOMAIN s]

\* The indices of a sequence can be folded over.
LEMMA IndexFacts ==
    ASSUME NEW V, NEW s \in Seq(V)
    PROVE  /\ DOMAIN s = 1 .. Len(s) /\ Len(s) \in Nat
           /\ IsFiniteSet(DOMAIN s)
           /\ Chooser(DOMAIN s, MaxOf(DOMAIN s))
  <1>1. DOMAIN s = 1 .. Len(s) /\ Len(s) \in Nat
    OBVIOUS
  <1> DEFINE n == Len(s)
  <1>2. IsFiniteSet(1 .. n) /\ Chooser(1 .. n, MaxOf(1 .. n))
    BY <1>1, FS_Interval, MaxChooses
  <1> QED BY <1>1, <1>2

\* There is a fold over every sequence.
LEMMA LeftFoldSolves ==
    ASSUME NEW V, NEW s \in Seq(V), NEW op, NEW b
    PROVE  \E g : /\ Folds(op, DOMAIN s, s, MaxOf(DOMAIN s), b, g)
                  /\ LeftFold(op, b, s) = g[DOMAIN s]
  <1> DEFINE D == DOMAIN s
             c == MaxOf(D)
             h == CHOOSE g : Folds(op, D, s, c, b, g)
  <1>1. IsFiniteSet(D) /\ Chooser(D, c)
    BY IndexFacts
  <1> HIDE DEF D, c
  <1>2. \E g : Folds(op, D, s, c, b, g)
    BY <1>1, FoldsExist
  <1>3. Folds(op, D, s, c, b, h)
    BY <1>2
  <1>4. LeftFold(op, b, s) = h[D]
    BY DEF LeftFold, D, c
  <1> HIDE DEF h
  <1> QED BY <1>3, <1>4 DEF D, c

\* There is only one.
LEMMA LeftFoldAny ==
    ASSUME NEW V, NEW s \in Seq(V), NEW op, NEW b, NEW g,
           Folds(op, DOMAIN s, s, MaxOf(DOMAIN s), b, g)
    PROVE  LeftFold(op, b, s) = g[DOMAIN s]
  <1> DEFINE D == DOMAIN s
             c == MaxOf(D)
  <1>1. PICK h : Folds(op, D, s, c, b, h) /\ LeftFold(op, b, s) = h[D]
    BY LeftFoldSolves
  <1>2. /\ IsFiniteSet(D) /\ Chooser(D, c) /\ D \in SUBSET D
        /\ Folds(op, D, s, c, b, g)
        /\ (\A x \in D : s[x] = s[x]) /\ (\A r \in SUBSET D : c[r] = c[r])
    BY IndexFacts
  <1> HIDE DEF D, c
  <1>3. g[D] = h[D]
    BY <1>1, <1>2, FoldsUnique
  <1> QED BY <1>1, <1>3 DEF D

\* Nothing to fold.
LEMMA LeftFoldNone ==
    ASSUME NEW op, NEW b
    PROVE  LeftFold(op, b, <<>>) = b
  <1>1. <<>> \in Seq({}) /\ DOMAIN <<>> = {} /\ {} \in SUBSET DOMAIN <<>>
    OBVIOUS
  <1>2. PICK g : /\ Folds(op, DOMAIN <<>>, <<>>, MaxOf(DOMAIN <<>>), b, g)
                 /\ LeftFold(op, b, <<>>) = g[DOMAIN <<>>]
    BY <1>1, LeftFoldSolves
  <1>3. g[{}] = b
    BY <1>1, <1>2, Zenon DEF Folds
  <1> QED BY <1>1, <1>2, <1>3

\* One more element is folded last.
LEMMA LeftFoldLast ==
    ASSUME NEW V, NEW s \in Seq(V), NEW x \in V, NEW op, NEW b
    PROVE  LeftFold(op, b, Append(s, x)) = Combine(op, x, LeftFold(op, b, s))
  <1> DEFINE u == Append(s, x)
             N == Len(s)
  <1>1. /\ u \in Seq(V) /\ N \in Nat
        /\ u[N + 1] = x /\ \A i \in 1 .. N : u[i] = s[i]
        /\ DOMAIN u = 1 .. N + 1 /\ DOMAIN s = 1 .. N
    OBVIOUS
  <1> HIDE DEF u, N
  <1> DEFINE S == 1 .. N + 1
             T == 1 .. N
             c == MaxOf(S)
             d == MaxOf(T)
  <1>2. PICK g : /\ Folds(op, S, u, c, b, g)
                 /\ LeftFold(op, b, u) = g[S]
    BY <1>1, LeftFoldSolves
  <1>3. PICK k : /\ Folds(op, T, s, d, b, k)
                 /\ LeftFold(op, b, s) = k[T]
    BY <1>1, LeftFoldSolves
  <1>4. /\ IsFiniteSet(S) /\ T \in SUBSET S /\ T \in SUBSET T
        /\ (\A y \in T : u[y] = s[y])
        /\ Chooser(T, d) /\ (\A r \in SUBSET T : c[r] = d[r])
    <2>1. IsFiniteSet(S)
      BY <1>1, FS_Interval
    <2>2. T \in SUBSET S
      BY <1>1
    <2> QED BY <1>1, <2>1, <2>2, MaxChooses DEF MaxOf
  <1>5. S # {} /\ c[S] = N + 1 /\ S \ {N + 1} = T /\ S \in SUBSET S
    <2>1. N + 1 \in Nat /\ N + 1 # 0
      BY <1>1
    <2>2. Max(1 .. N + 1) = N + 1
      BY <2>1, MaxChooses
    <2>3. N + 1 \in S /\ \A y : y \in S \ {N + 1} <=> y \in T
      BY <1>1
    <2> QED BY <2>2, <2>3 DEF MaxOf
  <1> HIDE DEF S, T, c, d
  <1>6. g[T] = k[T]
    <2>1. /\ IsFiniteSet(S) /\ T \in SUBSET S /\ T \in SUBSET T
          /\ (\A y \in T : u[y] = s[y])
          /\ Chooser(T, d) /\ (\A r \in SUBSET T : c[r] = d[r])
          /\ Folds(op, S, u, c, b, g) /\ Folds(op, T, s, d, b, k)
      BY <1>2, <1>3, <1>4
    <2> QED BY <2>1, FoldsUnique
  <1>7. g[S] = IF S = {} THEN b ELSE Combine(op, u[c[S]], g[S \ {c[S]}])
    BY <1>2, <1>5, Zenon DEF Folds
  <1>8. g[S] = Combine(op, x, g[T])
    BY <1>1, <1>5, <1>7
  <1>9. LeftFold(op, b, u) = Combine(op, x, LeftFold(op, b, s))
    BY <1>2, <1>3, <1>6, <1>8
  <1> QED BY <1>9 DEF u

\* The operations of the node's folds.
NextOp == [fold |-> "next", reward_pk |-> RewardPk, transfers |-> Transfers]
\* The concatenation of what the blocks carry.
JoinOp == [fold |-> "join", transfers |-> Transfers]
\* One turn of retain_pending.
RetainOp(index) == [fold |-> "retain", index |-> index, limit |-> MaxPendingTransfers]
\* One turn of the search for orphans.
OrphanOp(index, queue) ==
    [fold |-> "orphan", index |-> index, queue |-> queue, limit |-> OrphanLimit(queue)]
\* The view at the head of c, with nothing queued.
EmptyQueue(c) == [transfers |-> <<>>, view |-> PendingView(LedgerOf(c))]

\* The ledger of a chain is a fold over its blocks.
LEMMA LedgerIsFold ==
    ASSUME NEW bs \in Seq(Blocks)
    PROVE  LedgerOf(bs) = LeftFold(NextOp, GenesisLedger, bs)
  <1> DEFINE D == DOMAIN bs
             c == MaxOf(D)
             op == NextOp
             b == GenesisLedger
             Solves(g) == g = [s \in SUBSET D |->
                                  IF s = {} THEN b
                                  ELSE NextLedger(g[s \ {Max(s)}], bs[Max(s)])]
  <1>1. LedgerOf(bs) = (CHOOSE g : Solves(g))[D]
    BY DEF LedgerOf, FoldLeft, MapThenFoldSet
  <1>2. \A x, acc : Combine(op, x, acc) = NextLedger(acc, x)
    BY DEF NextOp, NextLedger, Combine
  <1>3. \A s \in SUBSET D : c[s] = Max(s)
    BY DEF MaxOf
  <1>4. PICK h : Folds(op, D, bs, c, b, h)
    BY LeftFoldSolves
  <1> HIDE DEF c, op, b
  <1>5. ASSUME NEW g
        PROVE  Solves(g) <=> Folds(op, D, bs, c, b, g)
    <2>1. [s \in SUBSET D |->
              IF s = {} THEN b ELSE NextLedger(g[s \ {Max(s)}], bs[Max(s)])]
        = [s \in SUBSET D |->
              IF s = {} THEN b ELSE Combine(op, bs[c[s]], g[s \ {c[s]}])]
      BY <1>2, <1>3
    <2> QED BY <2>1 DEF Folds
  <1> DEFINE k == CHOOSE g : Solves(g)
  <1>6. Solves(k)
    <2>1. Solves(h)
      BY <1>4, <1>5
    <2> HIDE DEF Solves
    <2> QED BY <2>1
  <1> HIDE DEF k
  <1>7. Folds(op, D, bs, c, b, k)
    BY <1>5, <1>6
  <1>8. LeftFold(op, b, bs) = k[D]
    BY <1>7, LeftFoldAny DEF c
  <1> QED BY <1>1, <1>8 DEF k, op, b

\* So are the transfers of a sequence of blocks,
LEMMA TransfersIsFold ==
    ASSUME NEW bs \in Seq(Blocks)
    PROVE  TransfersOf(bs) = LeftFold(JoinOp, <<>>, bs)
  <1> DEFINE D == DOMAIN bs
             c == MaxOf(D)
             op == JoinOp
             b == <<>>
             Solves(g) == g = [s \in SUBSET D |->
                                  IF s = {} THEN b
                                  ELSE g[s \ {Max(s)}] \o Transfers[bs[Max(s)]]]
  <1>1. TransfersOf(bs) = (CHOOSE g : Solves(g))[D]
    BY DEF TransfersOf, FoldLeft, MapThenFoldSet
  <1>2. \A x, acc : Combine(op, x, acc) = acc \o Transfers[x]
    BY DEF JoinOp, Combine
  <1>3. \A s \in SUBSET D : c[s] = Max(s)
    BY DEF MaxOf
  <1>4. PICK h : Folds(op, D, bs, c, b, h)
    BY LeftFoldSolves
  <1> HIDE DEF c, op, b
  <1>5. ASSUME NEW g
        PROVE  Solves(g) <=> Folds(op, D, bs, c, b, g)
    <2>1. [s \in SUBSET D |->
              IF s = {} THEN b ELSE g[s \ {Max(s)}] \o Transfers[bs[Max(s)]]]
        = [s \in SUBSET D |->
              IF s = {} THEN b ELSE Combine(op, bs[c[s]], g[s \ {c[s]}])]
      BY <1>2, <1>3
    <2> QED BY <2>1 DEF Folds
  <1> DEFINE k == CHOOSE g : Solves(g)
  <1>6. Solves(k)
    <2>1. Solves(h)
      BY <1>4, <1>5
    <2> HIDE DEF Solves
    <2> QED BY <2>1
  <1> HIDE DEF k
  <1>7. Folds(op, D, bs, c, b, k)
    BY <1>5, <1>6
  <1>8. LeftFold(op, b, bs) = k[D]
    BY <1>7, LeftFoldAny DEF c
  <1> QED BY <1>1, <1>8 DEF k, op, b

\* what a queue retains,
LEMMA RetainIsFold ==
    ASSUME NEW i, NEW ch, NEW q \in Seq(Envelopes)
    PROVE  RetainPending(ch, i, q) = LeftFold(RetainOp(i), EmptyQueue(ch), q)
  <1> DEFINE D == DOMAIN q
             c == MaxOf(D)
             op == RetainOp(i)
             b == EmptyQueue(ch)
             Solves(g) == g = [s \in SUBSET D |->
                                  IF s = {} THEN b
                                  ELSE Retain(i, g[s \ {Max(s)}], q[Max(s)])]
  <1>1. RetainPending(ch, i, q) = (CHOOSE g : Solves(g))[D]
    BY DEF RetainPending, EmptyQueue, FoldLeft, MapThenFoldSet
  <1>2. \A x, acc : Combine(op, x, acc) = Retain(i, acc, x)
    BY DEF RetainOp, Retain, IsConfirmed, Combine
  <1>3. \A s \in SUBSET D : c[s] = Max(s)
    BY DEF MaxOf
  <1>4. PICK h : Folds(op, D, q, c, b, h)
    BY LeftFoldSolves
  <1> HIDE DEF c, op, b
  <1>5. ASSUME NEW g
        PROVE  Solves(g) <=> Folds(op, D, q, c, b, g)
    <2>1. [s \in SUBSET D |->
              IF s = {} THEN b ELSE Retain(i, g[s \ {Max(s)}], q[Max(s)])]
        = [s \in SUBSET D |->
              IF s = {} THEN b ELSE Combine(op, q[c[s]], g[s \ {c[s]}])]
      BY <1>2, <1>3
    <2> QED BY <2>1 DEF Folds
  <1> DEFINE k == CHOOSE g : Solves(g)
  <1>6. Solves(k)
    <2>1. Solves(h)
      BY <1>4, <1>5
    <2> HIDE DEF Solves
    <2> QED BY <2>1
  <1> HIDE DEF k
  <1>7. Folds(op, D, q, c, b, k)
    BY <1>5, <1>6
  <1>8. LeftFold(op, b, q) = k[D]
    BY <1>7, LeftFoldAny DEF c
  <1> QED BY <1>1, <1>8 DEF k, op, b

\* and the orphans among them.
LEMMA OrphansIsFold ==
    ASSUME NEW i, NEW w, NEW q \in Seq(Envelopes)
    PROVE  FoldLeft(LAMBDA acc, t : Orphan(i, w, acc, t), <<>>, q)
              = LeftFold(OrphanOp(i, w), <<>>, q)
  <1> DEFINE D == DOMAIN q
             c == MaxOf(D)
             op == OrphanOp(i, w)
             b == <<>>
             Solves(g) == g = [s \in SUBSET D |->
                                  IF s = {} THEN b
                                  ELSE Orphan(i, w, g[s \ {Max(s)}], q[Max(s)])]
  <1>1. FoldLeft(LAMBDA acc, t : Orphan(i, w, acc, t), <<>>, q) = (CHOOSE g : Solves(g))[D]
    BY DEF FoldLeft, MapThenFoldSet
  <1>2. \A x, acc : Combine(op, x, acc) = Orphan(i, w, acc, x)
    BY DEF OrphanOp, Orphan, IsConfirmed, Combine
  <1>3. \A s \in SUBSET D : c[s] = Max(s)
    BY DEF MaxOf
  <1>4. PICK h : Folds(op, D, q, c, b, h)
    BY LeftFoldSolves
  <1> HIDE DEF c, op, b
  <1>5. ASSUME NEW g
        PROVE  Solves(g) <=> Folds(op, D, q, c, b, g)
    <2>1. [s \in SUBSET D |->
              IF s = {} THEN b ELSE Orphan(i, w, g[s \ {Max(s)}], q[Max(s)])]
        = [s \in SUBSET D |->
              IF s = {} THEN b ELSE Combine(op, q[c[s]], g[s \ {c[s]}])]
      BY <1>2, <1>3
    <2> QED BY <2>1 DEF Folds
  <1> DEFINE k == CHOOSE g : Solves(g)
  <1>6. Solves(k)
    <2>1. Solves(h)
      BY <1>4, <1>5
    <2> HIDE DEF Solves
    <2> QED BY <2>1
  <1> HIDE DEF k
  <1>7. Folds(op, D, q, c, b, k)
    BY <1>5, <1>6
  <1>8. LeftFold(op, b, q) = k[D]
    BY <1>7, LeftFoldAny DEF c
  <1> QED BY <1>1, <1>8 DEF k, op, b

\* No account has more locked than it has.
Covered(l) == \A a \in Accounts : LockedBalance(l, a) <= Balance(l, a)

\* A sound ledger of height n whose pending rewards are due after `due`.
SoundAt(l, n, due) ==
    /\ l \in Ledger /\ Audited(l) /\ Covered(l)
    /\ l.height = n /\ l.issued <= TotalSupply
    /\ PendingWithin(l, due, n)

\* n is what transfer t makes of l, with the fee to p.
Moved(l, n, p, t) ==
    /\ n \in Ledger /\ Covered(n)
    /\ n.height = l.height /\ n.issued = l.issued
    /\ n.locked_balances = l.locked_balances
    /\ n.pending_rewards = l.pending_rewards
    /\ n.balances = StagedBalances(l, p, t)
    /\ n.next_nonces = [l.next_nonces EXCEPT ![t.from] = t.nonce + 1]
    /\ \A a \in Accounts :
          Balance(n, a) = Balance(l, a) - (IF a = t.from THEN t.amount + t.fee ELSE 0)
                                       + (IF a = t.to THEN t.amount ELSE 0)
                                       + (IF a = p THEN t.fee ELSE 0)

\* What prepare_transfer and commit_transfer do to every account, in a block with
\* a producer and in the pending view without one.
LEMMA TransferBalances ==
    ASSUME NEW l \in Ledger, Covered(l), NEW t \in Envelopes, NEW h \in Nat,
           Transferable(l, h, t), NEW p \in Accounts \cup {None}
    PROVE  Moved(l, CommitTransfer(l, p, t), p, t)
  <1> DEFINE debited  == [l.balances EXCEPT ![t.from] =
                             OrZero(l.balances[t.from]) - (t.amount + t.fee)]
             credited == Credit(debited, t.to, t.amount)
             paid     == IF p = None THEN credited ELSE Credit(credited, p, t.fee)
             nonces   == [l.next_nonces EXCEPT ![t.from] = t.nonce + 1]
             n        == CommitTransfer(l, p, t)
             Map      == [Accounts -> Nat \cup {None}]
  <1>1. /\ t.from \in Accounts /\ t.to \in Accounts /\ t.amount \in Nat
        /\ t.fee \in Nat /\ t.nonce \in Nat
    BY EnvelopeAssumption DEF EnvelopeType
  <1>2. \A a \in Accounts : Balance(l, a) \in Nat /\ LockedBalance(l, a) \in Nat
    BY DEF Balance, LockedBalance, OrZero, Ledger
  <1>3. t.amount + t.fee <= Balance(l, t.from) - LockedBalance(l, t.from)
    BY DEF Transferable, SpendableBalance
  <1>4. n = [l EXCEPT !.balances = paid, !.next_nonces = nonces]
    BY DEF CommitTransfer, StagedBalances
  <1>5. StagedBalances(l, p, t) = paid
    BY DEF StagedBalances
  <1>6. /\ debited \in Map
        /\ \A a \in Accounts : OrZero(debited[a])
              = Balance(l, a) - (IF a = t.from THEN t.amount + t.fee ELSE 0)
    <2> DEFINE left == OrZero(l.balances[t.from]) - (t.amount + t.fee)
    <2>1. left \in Nat /\ left = Balance(l, t.from) - (t.amount + t.fee)
      BY <1>1, <1>2, <1>3 DEF Balance
    <2>2. debited = [l.balances EXCEPT ![t.from] = left]
      OBVIOUS
    <2> HIDE DEF left, debited
    <2>3. debited \in Map
      BY <2>1, <2>2 DEF Ledger
    <2>4. debited[t.from] = left /\ left # None
      BY <1>1, <2>1, <2>2, MarkerAssumption DEF Ledger
    <2>5. \A a \in Accounts : a # t.from => debited[a] = l.balances[a]
      BY <2>2 DEF Ledger
    <2>6. ASSUME NEW a \in Accounts
          PROVE  OrZero(debited[a])
                    = Balance(l, a) - (IF a = t.from THEN t.amount + t.fee ELSE 0)
      <3>1. CASE a = t.from
        BY <2>1, <2>4, <3>1 DEF OrZero
      <3>2. CASE a # t.from
        <4>1. OrZero(debited[a]) = Balance(l, a)
          BY <2>5, <3>2 DEF Balance
        <4> QED BY <1>2, <3>2, <4>1
      <3> QED BY <3>1, <3>2
    <2> QED BY <2>3, <2>6
  <1> HIDE DEF debited
  <1>7. /\ credited \in Map
        /\ \A a \in Accounts : OrZero(credited[a])
              = OrZero(debited[a]) + (IF a = t.to THEN t.amount ELSE 0)
    BY <1>1, <1>6, CreditType
  <1> HIDE DEF credited
  <1>8. /\ paid \in Map
        /\ \A a \in Accounts : OrZero(paid[a])
              = OrZero(credited[a]) + (IF a = p THEN t.fee ELSE 0)
    <2>1. CASE p = None
      <3>1. \A a \in Accounts : OrZero(credited[a]) \in Nat /\ a # p
        BY <1>7, <2>1, MarkerAssumption DEF OrZero
      <3> QED BY <1>7, <2>1, <3>1
    <2>2. CASE p # None
      BY <1>1, <1>7, <2>2, CreditType
    <2> QED BY <2>1, <2>2
  <1> HIDE DEF paid
  <1>9. nonces \in Map
    BY <1>1 DEF Ledger
  <1> HIDE DEF nonces, n
  <1>10. /\ n \in Ledger /\ n.height = l.height /\ n.issued = l.issued
         /\ n.locked_balances = l.locked_balances
         /\ n.pending_rewards = l.pending_rewards
         /\ n.balances = paid /\ n.next_nonces = nonces
    BY <1>4, <1>8, <1>9 DEF Ledger
  <1>11. ASSUME NEW a \in Accounts
         PROVE  /\ Balance(n, a) = Balance(l, a)
                                     - (IF a = t.from THEN t.amount + t.fee ELSE 0)
                                     + (IF a = t.to THEN t.amount ELSE 0)
                                     + (IF a = p THEN t.fee ELSE 0)
                /\ LockedBalance(n, a) <= Balance(n, a)
    <2>1. Balance(n, a) = OrZero(paid[a]) /\ LockedBalance(n, a) = LockedBalance(l, a)
      BY <1>10 DEF Balance, LockedBalance
    <2>2. Balance(n, a) = Balance(l, a)
                                     - (IF a = t.from THEN t.amount + t.fee ELSE 0)
                                     + (IF a = t.to THEN t.amount ELSE 0)
                                     + (IF a = p THEN t.fee ELSE 0)
      BY <1>6, <1>7, <1>8, <2>1
    <2>3. LockedBalance(l, a) <= Balance(l, a)
      BY DEF Covered
    <2> QED BY <1>1, <1>2, <1>3, <2>1, <2>2, <2>3
  <1>12. Moved(l, n, p, t)
    BY <1>5, <1>10, <1>11 DEF nonces, Covered, Moved
  <1> QED BY <1>12 DEF n

\* No checked addition of a block's transfers overflows: all money together is
\* at most the supply.
LEMMA TransferFits ==
    ASSUME NEW l \in Ledger, Audited(l), Covered(l), l.issued <= TotalSupply,
           NEW t \in Envelopes, NEW h \in Nat, Transferable(l, h, t), NEW p \in Accounts
    PROVE  CreditsFit(l, p, t) /\ Audited(CommitTransfer(l, p, t))
  <1> DEFINE n == CommitTransfer(l, p, t)
  <1>1. Audited(n)
    BY EnvelopeAssumption, TransferAudit DEF Covered
  <1>2. n \in Ledger /\ n.issued = l.issued /\ n.balances = StagedBalances(l, p, t)
    <2>1. p \in Accounts \cup {None}
      OBVIOUS
    <2>2. Moved(l, n, p, t)
      BY <2>1, TransferBalances
    <2> QED BY <2>2 DEF Moved
  <1> HIDE DEF n
  <1>3. \A a \in Accounts : Balance(n, a) <= n.issued /\ Balance(n, a) \in Nat
    BY <1>1, <1>2, AuditedFacts, SummandTypes
  <1>4. TotalSupply <= MaxAmount /\ MaxAmount \in Int /\ TotalSupply \in Nat
    <2>1. AmountBits \in 0 .. AmountBits
      BY LedgerAssumption
    <2>2. 2^AmountBits \in Nat
      BY <2>1, LedgerAssumption
    <2> QED BY <2>2, LedgerAssumption DEF MaxAmount
  <1>5. l.issued \in Nat
    BY DEF Ledger
  <1>6. \A a \in Accounts : Balance(n, a) <= MaxAmount
    BY <1>2, <1>3, <1>4, <1>5
  <1> QED BY <1>1, <1>2, <1>6 DEF CreditsFit, Balance, n

\* Genesis is sound.
LEMMA GenesisSound == SoundAt(GenesisLedger, 0, 0)
  BY GenesisType, GenesisAudited, LedgerAssumption DEF SoundAt, Covered, PendingWithin

\* unlock_rewards leaves nothing that is due.
LEMMA UnlockedSound ==
    ASSUME NEW l, NEW n \in Nat, SoundAt(l, n, n)
    PROVE  SoundAt(UnlockRewards(l, n + 1), n, n + 1)
  <1> DEFINE m == UnlockRewards(l, n + 1)
  <1>1. n + 1 \in Nat /\ l \in Ledger /\ Audited(l)
    BY DEF SoundAt
  <1>2. /\ m \in Ledger /\ Audited(m) /\ m.height = l.height /\ m.issued = l.issued
        /\ m.balances = l.balances
        /\ \A k \in UnlockHeights : m.pending_rewards[k] =
              IF k \in Matured(l, n + 1) THEN None ELSE l.pending_rewards[k]
        /\ \A a \in Accounts : LockedBalance(m, a) <= LockedBalance(l, a)
    BY <1>1, UnlockedAll
  <1> HIDE DEF m
  <1>3. Covered(m)
    <2>1. \A a \in Accounts : /\ Balance(m, a) = Balance(l, a) /\ Balance(l, a) \in Nat
                              /\ LockedBalance(l, a) \in Nat /\ LockedBalance(m, a) \in Nat
      BY <1>1, <1>2 DEF Balance, LockedBalance, OrZero, Ledger
    <2> QED BY <1>2, <2>1 DEF SoundAt, Covered
  <1>4. PendingWithin(m, n + 1, n)
    <2> SUFFICES ASSUME NEW k \in UnlockHeights, m.pending_rewards[k] # None
                 PROVE  /\ k > n + 1 /\ k - RewardMaturity \in 1 .. n
                        /\ m.pending_rewards[k].amount > 0
      BY DEF PendingWithin
    <2>1. m.pending_rewards[k] = l.pending_rewards[k] /\ k \notin Matured(l, n + 1)
      BY <1>2
    <2>2. ~ (k <= n + 1)
      BY <2>1 DEF Matured
    <2>3. k \in Nat
      BY UnlockHeightsFacts
    <2> QED BY <2>1, <2>2, <2>3 DEF SoundAt, PendingWithin
  <1>5. SoundAt(m, n, n + 1)
    BY <1>2, <1>3, <1>4 DEF SoundAt
  <1> QED BY <1>5 DEF m

\* A block's transfers keep the ledger sound, and each passed its checks.
LEMMA SettledSound ==
    ASSUME NEW b, NEW n \in Nat, NEW due, SoundAt(b, n, due), NEW h \in Nat,
           NEW p \in Accounts, NEW ts \in Seq(Envelopes), Settled(ts, h, p, b) # None
    PROVE  /\ SoundAt(Settled(ts, h, p, b), n, due)
           /\ \A i \in 1 .. Len(ts) : ValidatedFields(ts[i])
  <1> DEFINE Good(us) ==
                Settled(us, h, p, b) # None =>
                   /\ SoundAt(Settled(us, h, p, b), n, due)
                   /\ \A i \in 1 .. Len(us) : ValidatedFields(us[i])
             T == {us \in Seq(Envelopes) : Good(us)}
  <1>1. <<>> \in T
    <2>1. Settled(<<>>, h, p, b) = b
      BY SettledNone
    <2>2. SoundAt(Settled(<<>>, h, p, b), n, due)
      BY <2>1
    <2> QED BY <2>2
  <1>2. ASSUME NEW us \in T, NEW t \in Envelopes, us \in Seq(Envelopes)
        PROVE  Append(us, t) \in T
    <2> DEFINE l == Settled(us, h, p, b)
               m == Settled(Append(us, t), h, p, b)
    <2>1. m = SettleOne(l, h, p, t)
      BY <1>2, SettledLast
    <2>2. Good(us)
      BY <1>2
    <2> SUFFICES ASSUME m # None
                 PROVE  /\ SoundAt(m, n, due)
                        /\ \A i \in 1 .. Len(Append(us, t)) : ValidatedFields(Append(us, t)[i])
      <3>1. Append(us, t) \in Seq(Envelopes)
        BY <1>2
      <3> QED BY <3>1
    <2>3. l # None /\ Transferable(l, h, t) /\ m = CommitTransfer(l, p, t)
      <3> HIDE DEF l, m
      <3> QED BY <2>1 DEF SettleOne
    <2>4. SoundAt(l, n, due) /\ \A i \in 1 .. Len(us) : ValidatedFields(us[i])
      BY <2>2, <2>3
    <2> HIDE DEF l, m
    <2>5. /\ l \in Ledger /\ Audited(l) /\ Covered(l) /\ l.issued <= TotalSupply
          /\ l.height = n /\ PendingWithin(l, due, n)
      BY <2>4 DEF SoundAt
    <2>6. /\ m \in Ledger /\ Covered(m) /\ m.height = l.height /\ m.issued = l.issued
          /\ m.pending_rewards = l.pending_rewards
      <3>1. p \in Accounts \cup {None}
        OBVIOUS
      <3>2. Moved(l, m, p, t)
        BY <2>3, <2>5, <3>1, TransferBalances
      <3> QED BY <3>2 DEF Moved
    <2>7. Audited(m)
      BY <2>3, <2>5, TransferFits
    <2>8. SoundAt(m, n, due)
      BY <2>5, <2>6, <2>7 DEF SoundAt, PendingWithin
    <2>9. ValidatedFields(t)
      BY <2>3 DEF Transferable
    <2>10. \A i \in 1 .. Len(Append(us, t)) : ValidatedFields(Append(us, t)[i])
      <3>1. \A i \in 1 .. Len(Append(us, t)) :
               (i \in 1 .. Len(us) /\ Append(us, t)[i] = us[i]) \/ Append(us, t)[i] = t
        BY <1>2
      <3> QED BY <2>4, <2>9, <3>1
    <2> QED BY <2>8, <2>10
  <1> HIDE DEF Good
  <1>3. \A us \in Seq(Envelopes) : us \in T
    <2> HIDE DEF T
    <2> QED BY <1>1, <1>2, SeqInduction
  <1>4. Good(ts)
    BY <1>3
  <1> QED BY <1>4 DEF Good

\* A block that apply_block accepts leads from one sound ledger to the next, and
\* its transfers passed validate_native_transfer.
LEMMA AppliedSound ==
    ASSUME NEW l, NEW n \in Nat, SoundAt(l, n, n), n < MaxHeight, NEW p \in Accounts,
           NEW ts \in Seq(Envelopes), ApplyBlock(l, n + 1, p, ts) # None
    PROVE  /\ SoundAt(ApplyBlock(l, n + 1, p, ts), n + 1, n + 1)
           /\ \A i \in 1 .. Len(ts) : ValidatedFields(ts[i])
  <1> DEFINE h == n + 1
             b == UnlockRewards(l, h)
             s == Settled(ts, h, p, b)
             m == EmitReward(s, h, p)
  <1>1. SoundAt(b, n, h)
    BY UnlockedSound
  <1>2. s # None /\ ApplyBlock(l, h, p, ts) = m
    BY DEF ApplyBlock, Settled
  <1>3. h \in Nat /\ h \in 1 .. MaxHeight
    BY LedgerAssumption
  <1> HIDE DEF b
  <1>4. SoundAt(s, n, h) /\ \A i \in 1 .. Len(ts) : ValidatedFields(ts[i])
    BY <1>1, <1>2, <1>3, SettledSound
  <1> HIDE DEF s
  <1>5. /\ s \in Ledger /\ Audited(s) /\ s.issued <= TotalSupply /\ PendingWithin(s, h, n)
        /\ \A a \in Accounts : LockedBalance(s, a) <= Balance(s, a)
    BY <1>4 DEF SoundAt, Covered
  <1> DEFINE k == h + RewardMaturity
             e == Emission(h, s.issued)
  <1>6. k \in UnlockHeights /\ s.pending_rewards[k] = None
    <2>1. k \in UnlockHeights /\ k - RewardMaturity \notin 1 .. n
      BY <1>3, LedgerAssumption DEF UnlockHeights
    <2> QED BY <1>5, <2>1 DEF PendingWithin
  <1>7. Audited(m)
    BY <1>3, <1>5, <1>6, EmissionAudit
  <1>8. /\ m \in Ledger /\ m.height = h /\ m.issued <= TotalSupply
        /\ (\A a \in Accounts : LockedBalance(m, a) <= Balance(m, a))
        /\ \A j \in UnlockHeights : j # k \/ e = 0 \/ RewardMaturity = 0 =>
              m.pending_rewards[j] = s.pending_rewards[j]
    BY <1>3, <1>5, EmissionFacts
  <1>9. e \in Nat
    <2>1. s.issued \in Nat
      BY <1>5 DEF Ledger
    <2> QED BY <1>3, <1>5, <2>1, EmissionBound
  <1>10. e # 0 /\ RewardMaturity # 0 => m.pending_rewards[k] = [pk |-> p, amount |-> e]
    <2> HIDE DEF e
    <2>1. m.pending_rewards = IF e # 0 /\ RewardMaturity # 0
                              THEN [s.pending_rewards EXCEPT ![k] = [pk |-> p, amount |-> e]]
                              ELSE s.pending_rewards
      BY DEF EmitReward, e
    <2> QED BY <1>5, <1>6, <2>1 DEF Ledger
  <1> HIDE DEF e, m
  <1>11. PendingWithin(m, h, h)
    <2> SUFFICES ASSUME NEW j \in UnlockHeights, m.pending_rewards[j] # None
                 PROVE  /\ j > h /\ j - RewardMaturity \in 1 .. h
                        /\ m.pending_rewards[j].amount > 0
      BY DEF PendingWithin
    <2>1. CASE m.pending_rewards[j] = s.pending_rewards[j]
      <3>1. j > h /\ j - RewardMaturity \in 1 .. n /\ s.pending_rewards[j].amount > 0
        BY <1>5, <2>1 DEF PendingWithin
      <3> QED BY <2>1, <3>1
    <2>2. CASE m.pending_rewards[j] # s.pending_rewards[j]
      <3>1. j = k /\ e # 0 /\ RewardMaturity # 0
        BY <1>8, <2>2
      <3>2. m.pending_rewards[j] = [pk |-> p, amount |-> e]
        BY <1>10, <3>1
      <3>3. j > h /\ j - RewardMaturity \in 1 .. h
        BY <1>3, <3>1, LedgerAssumption
      <3> QED BY <1>9, <3>1, <3>2, <3>3
    <2> QED BY <2>1, <2>2
  <1>12. SoundAt(m, h, h)
    BY <1>7, <1>8, <1>11 DEF SoundAt, Covered
  <1> QED BY <1>2, <1>4, <1>12

-----------------------------------------------------------------------------
(* Chains.                                                                 *)

\* The ledger of a chain, one block at a time.
LEMMA LedgerSteps ==
    ASSUME NEW c \in Seq(Blocks), NEW b \in Blocks
    PROVE  LedgerOf(Append(c, b)) = NextLedger(LedgerOf(c), b)
  <1>1. Append(c, b) \in Seq(Blocks)
    OBVIOUS
  <1>2. LedgerOf(Append(c, b)) = Combine(NextOp, b, LedgerOf(c))
    <2>1. /\ LedgerOf(Append(c, b)) = LeftFold(NextOp, GenesisLedger, Append(c, b))
          /\ LedgerOf(c) = LeftFold(NextOp, GenesisLedger, c)
      BY <1>1, LedgerIsFold
    <2> HIDE DEF NextOp
    <2>2. LeftFold(NextOp, GenesisLedger, Append(c, b))
             = Combine(NextOp, b, LeftFold(NextOp, GenesisLedger, c))
      BY LeftFoldLast
    <2> QED BY <2>1, <2>2
  <1> QED BY <1>2 DEF Combine, NextOp, NextLedger

\* The empty chain has the genesis ledger.
LEMMA LedgerNone == LedgerOf(<<>>) = GenesisLedger
  <1>1. <<>> \in Seq(Blocks)
    OBVIOUS
  <1> QED BY <1>1, LedgerIsFold, LeftFoldNone

\* A chain is valid when all but its last block are and the last extends them.
LEMMA ChainSteps ==
    ASSUME NEW c \in Seq(Blocks), NEW b \in Blocks
    PROVE  IsChain(Append(c, b)) <=> IsChain(c) /\ Extends(c, b)
  <1> DEFINE d == Append(c, b)
             N == Len(c)
  <1>1. N \in Nat /\ Len(d) = N + 1 /\ d[N + 1] = b
    OBVIOUS
  <1>2. \A i \in 1 .. N : d[i] = c[i] /\ SubSeq(d, 1, i - 1) = SubSeq(c, 1, i - 1)
    OBVIOUS
  <1>3. SubSeq(d, 1, (N + 1) - 1) = c
    OBVIOUS
  <1> HIDE DEF d, N
  <1>4. IsChain(d) <=> \A i \in 1 .. N + 1 : Extends(SubSeq(d, 1, i - 1), d[i])
    BY <1>1 DEF IsChain
  <1>5. IsChain(c) <=> \A i \in 1 .. N : Extends(SubSeq(d, 1, i - 1), d[i])
    BY <1>2 DEF IsChain, N
  <1>6. Extends(c, b) <=> Extends(SubSeq(d, 1, (N + 1) - 1), d[N + 1])
    BY <1>1, <1>3
  <1>7. \A i : i \in 1 .. N + 1 <=> i \in 1 .. N \/ i = N + 1
    BY <1>1
  <1> QED BY <1>4, <1>5, <1>6, <1>7 DEF d

\* Every transfer of the blocks passed validate_native_transfer.
Carried(c) ==
    \A i \in 1 .. Len(c) : \A j \in 1 .. Len(Transfers[c[i]]) :
        ValidatedFields(Transfers[c[i]][j])

\* A chain that replays has a sound ledger of its height.
LEMMA ChainSound ==
    ASSUME NEW c \in Seq(Blocks), IsChain(c), Len(c) <= MaxHeight
    PROVE  SoundAt(LedgerOf(c), Len(c), Len(c)) /\ Carried(c)
  <1> DEFINE Good(d) == IsChain(d) /\ Len(d) <= MaxHeight =>
                           SoundAt(LedgerOf(d), Len(d), Len(d)) /\ Carried(d)
             T == {d \in Seq(Blocks) : Good(d)}
  <1>1. <<>> \in T
    <2>1. Len(<<>>) = 0 /\ Carried(<<>>)
      BY DEF Carried
    <2>2. SoundAt(LedgerOf(<<>>), 0, 0)
      BY LedgerNone, GenesisSound
    <2>3. Good(<<>>)
      BY <2>1, <2>2
    <2> HIDE DEF Good
    <2> QED BY <2>3
  <1>2. ASSUME NEW d \in T, NEW b \in Blocks, d \in Seq(Blocks)
        PROVE  Append(d, b) \in T
    <2> DEFINE e == Append(d, b)
               n == Len(d)
               l == LedgerOf(d)
    <2>1. /\ e \in Seq(Blocks) /\ Len(e) = n + 1 /\ n \in Nat
          /\ \A i \in 1 .. n + 1 : (i \in 1 .. n /\ e[i] = d[i]) \/ e[i] = b
      BY <1>2
    <2>2. ASSUME IsChain(e), Len(e) <= MaxHeight
          PROVE  SoundAt(LedgerOf(e), n + 1, n + 1) /\ Carried(e)
      <3>1. IsChain(d) /\ Extends(d, b)
        BY <1>2, <2>2, ChainSteps
      <3>2. n <= MaxHeight /\ n < MaxHeight
        BY <2>1, <2>2, LedgerAssumption
      <3>3. SoundAt(l, n, n) /\ Carried(d)
        BY <1>2, <3>1, <3>2
      <3>4. LedgerOf(e) = ApplyBlock(l, l.height + 1, RewardPk[b], Transfers[b])
        BY <1>2, LedgerSteps DEF NextLedger
      <3>5. l.height = n
        BY <3>3 DEF SoundAt
      <3>6. ApplyBlock(l, n + 1, RewardPk[b], Transfers[b]) # None
        BY <3>1 DEF Extends
      <3>7. RewardPk[b] \in Accounts /\ Transfers[b] \in Seq(Envelopes)
        BY NodeAssumption
      <3> HIDE DEF l, n
      <3>8. /\ SoundAt(LedgerOf(e), n + 1, n + 1)
            /\ \A i \in 1 .. Len(Transfers[b]) : ValidatedFields(Transfers[b][i])
        <4>1. SoundAt(ApplyBlock(l, n + 1, RewardPk[b], Transfers[b]), n + 1, n + 1)
          BY <2>1, <3>2, <3>3, <3>6, <3>7, AppliedSound
        <4>2. \A i \in 1 .. Len(Transfers[b]) : ValidatedFields(Transfers[b][i])
          BY <2>1, <3>2, <3>3, <3>6, <3>7, AppliedSound
        <4> QED BY <3>4, <3>5, <4>1, <4>2
      <3>9. Carried(e)
        BY <2>1, <3>3, <3>8 DEF Carried, n
      <3> QED BY <3>8, <3>9
    <2>3. Good(e)
      BY <2>1, <2>2
    <2> HIDE DEF Good
    <2> QED BY <2>1, <2>3
  <1> HIDE DEF Good
  <1>3. \A d \in Seq(Blocks) : d \in T
    <2> HIDE DEF T
    <2> QED BY <1>1, <1>2, SeqInduction
  <1>4. Good(c)
    BY <1>3
  <1> QED BY <1>4 DEF Good

\* The index of a longer chain is the old one and the entries of the new block.
LEMMA IndexSteps ==
    ASSUME NEW c \in Seq(Blocks), NEW b \in Blocks
    PROVE  ConfirmedIndex(Append(c, b)) = ConfirmedIndex(c) \cup IndexAbove(Append(c, b), Len(c))
  <1> DEFINE d == Append(c, b)
             N == Len(c)
  <1>1. /\ N \in Nat /\ Len(d) = N + 1
        /\ \A i \in 1 .. N : d[i] = c[i]
    OBVIOUS
  <1> HIDE DEF d, N
  <1>2. ASSUME NEW p
        PROVE  p \in ConfirmedIndex(d) <=> p \in ConfirmedIndex(c) \cup IndexAbove(d, N)
    <2>1. p \in ConfirmedIndex(d)
             <=> p \in Envelopes \X (1 .. N + 1) /\ Contains(Transfers[d[p[2]]], p[1])
      BY <1>1 DEF ConfirmedIndex, IndexAbove
    <2>2. p \in ConfirmedIndex(c)
             <=> p \in Envelopes \X (1 .. N) /\ Contains(Transfers[d[p[2]]], p[1])
      BY <1>1 DEF ConfirmedIndex, IndexAbove, N
    <2>3. p \in IndexAbove(d, N)
             <=> p \in Envelopes \X (N + 1 .. N + 1) /\ Contains(Transfers[d[p[2]]], p[1])
      BY <1>1 DEF IndexAbove
    <2>4. \A i : i \in 1 .. N + 1 <=> i \in 1 .. N \/ i \in N + 1 .. N + 1
      BY <1>1
    <2>5. p \in Envelopes \X (1 .. N + 1)
             <=> p \in Envelopes \X (1 .. N) \/ p \in Envelopes \X (N + 1 .. N + 1)
      BY <2>4
    <2> QED BY <2>1, <2>2, <2>3, <2>5
  <1>3. ConfirmedIndex(d) = ConfirmedIndex(c) \cup IndexAbove(d, N)
    BY <1>2
  <1> QED BY <1>3 DEF d, N

\* common_prefix_len: the blocks below it are the same.
LEMMA CommonPrefix ==
    ASSUME NEW c \in Seq(Blocks), NEW d \in Seq(Blocks)
    PROVE  /\ CommonPrefixLen(c, d) \in Nat
           /\ CommonPrefixLen(c, d) <= Len(c) /\ CommonPrefixLen(c, d) <= Len(d)
           /\ \A i \in 1 .. CommonPrefixLen(c, d) : c[i] = d[i]
  <1> DEFINE S == CommonPrefixes({c, d})
             lcp == LongestCommonPrefix({c, d})
             Left == {Len(c) - Len(p) : p \in S}
  <1>1. \A p \in S : p \in Seq(Blocks) /\ IsPrefix(p, c) /\ IsPrefix(p, d)
    <2>1. \A p \in S : /\ \E q \in {c, d} : \E l \in 0 .. Len(q) : p = SubSeq(q, 1, l)
                       /\ IsPrefix(p, c) /\ IsPrefix(p, d)
      BY DEF CommonPrefixes, Prefixes
    <2>2. \A q \in {c, d} : \A l \in 0 .. Len(q) : SubSeq(q, 1, l) \in Seq(Blocks)
      OBVIOUS
    <2> QED BY <2>1, <2>2
  <1>2. <<>> \in S
    <2>1. IsPrefix(<<>>, c) /\ IsPrefix(<<>>, d)
      BY DEF IsPrefix
    <2>2. 0 \in 0 .. Len(c) /\ SubSeq(c, 1, 0) = <<>>
      OBVIOUS
    <2>3. <<>> \in Prefixes(c)
      BY <2>2 DEF Prefixes
    <2> QED BY <2>1, <2>3 DEF CommonPrefixes
  <1>3. \A p \in S : Len(p) \in Nat /\ Len(c) - Len(p) \in Nat
    BY <1>1 DEF IsPrefix
  <1> HIDE DEF S
  <1>4. PICK p \in S : \A q \in S : Len(q) <= Len(p)
    <2>1. Left \in SUBSET Nat /\ Left # {}
      BY <1>2, <1>3
    <2>2. PICK m \in Left : \A k \in Left : m <= k
      BY <2>1, LeastNatural
    <2>3. PICK p \in S : m = Len(c) - Len(p)
      BY <2>2
    <2>4. ASSUME NEW q \in S PROVE Len(q) <= Len(p)
      <3>1. Len(c) - Len(p) <= Len(c) - Len(q)
        BY <2>2, <2>3
      <3> QED BY <1>3, <3>1
    <2> QED BY <2>4
  <1>5. lcp \in S
    BY <1>4 DEF LongestCommonPrefix, S
  <1> HIDE DEF lcp
  <1>6. lcp \in Seq(Blocks) /\ IsPrefix(lcp, c) /\ IsPrefix(lcp, d)
    BY <1>1, <1>5
  <1>7. /\ Len(lcp) \in Nat /\ Len(lcp) <= Len(c) /\ Len(lcp) <= Len(d)
        /\ SubSeq(c, 1, Len(lcp)) = SubSeq(d, 1, Len(lcp))
    BY <1>6 DEF IsPrefix
  <1> DEFINE N == Len(lcp)
  <1> HIDE DEF N
  <1>8. ASSUME NEW i \in 1 .. N PROVE c[i] = d[i]
    <2>1. /\ N \in Nat /\ N <= Len(c) /\ N <= Len(d)
          /\ SubSeq(c, 1, N) = SubSeq(d, 1, N)
      BY <1>7 DEF N
    <2>2. SubSeq(c, 1, N)[i] = c[i] /\ SubSeq(d, 1, N)[i] = d[i]
      BY <2>1
    <2> QED BY <2>1, <2>2
  <1>9. CommonPrefixLen(c, d) = N
    BY DEF CommonPrefixLen, N, lcp
  <1> QED BY <1>7, <1>8, <1>9 DEF N

\* publish_candidate's index is the one a replay of the candidate builds.
LEMMA ReorgExact ==
    ASSUME NEW c \in Seq(Blocks), NEW d \in Seq(Blocks)
    PROVE  ReorgIndex(ConfirmedIndex(c), CommonPrefixLen(c, d), d) = ConfirmedIndex(d)
  <1> DEFINE k == CommonPrefixLen(c, d)
             M == Len(c)
             N == Len(d)
  <1>1. /\ k \in Nat /\ k <= M /\ k <= N /\ M \in Nat /\ N \in Nat
        /\ \A i \in 1 .. k : c[i] = d[i]
    BY CommonPrefix
  <1> HIDE DEF k
  <1>2. ASSUME NEW p
        PROVE  p \in ReorgIndex(ConfirmedIndex(c), k, d) <=> p \in ConfirmedIndex(d)
    <2>1. p \in ConfirmedIndex(d)
             <=> p \in Envelopes \X (1 .. N) /\ Contains(Transfers[d[p[2]]], p[1])
      BY DEF ConfirmedIndex, IndexAbove
    <2>2. p \in IndexAbove(d, k)
             <=> p \in Envelopes \X (k + 1 .. N) /\ Contains(Transfers[d[p[2]]], p[1])
      BY DEF IndexAbove
    <2>3. p \in ConfirmedIndex(c)
             <=> p \in Envelopes \X (1 .. M) /\ Contains(Transfers[c[p[2]]], p[1])
      BY DEF ConfirmedIndex, IndexAbove
    <2>4. p \in ReorgIndex(ConfirmedIndex(c), k, d)
             <=> (p \in ConfirmedIndex(c) /\ p[2] <= k) \/ p \in IndexAbove(d, k)
      BY DEF ReorgIndex
    <2>6. /\ p \in Envelopes \X (1 .. M)
                => p[2] \in 1 .. M /\ p[1] \in Envelopes /\ p = <<p[1], p[2]>>
          /\ p \in Envelopes \X (1 .. N)
                => p[2] \in 1 .. N /\ p[1] \in Envelopes /\ p = <<p[1], p[2]>>
          /\ p \in Envelopes \X (k + 1 .. N)
                => p[2] \in k + 1 .. N /\ p[1] \in Envelopes /\ p = <<p[1], p[2]>>
      OBVIOUS
    <2>7. ASSUME p \in ReorgIndex(ConfirmedIndex(c), k, d) PROVE p \in ConfirmedIndex(d)
      <3>1. CASE p \in IndexAbove(d, k)
        <4>1. p[2] \in 1 .. N
          BY <1>1, <2>2, <2>6, <3>1
        <4> QED BY <2>1, <2>2, <2>6, <3>1, <4>1
      <3>2. CASE p \in ConfirmedIndex(c) /\ p[2] <= k
        <4>1. p[2] \in 1 .. k /\ p[2] \in 1 .. N
          BY <1>1, <2>3, <2>6, <3>2
        <4>2. c[p[2]] = d[p[2]]
          BY <1>1, <4>1
        <4> QED BY <2>1, <2>3, <2>6, <3>2, <4>1, <4>2
      <3> QED BY <2>4, <2>7, <3>1, <3>2
    <2>8. ASSUME p \in ConfirmedIndex(d) PROVE p \in ReorgIndex(ConfirmedIndex(c), k, d)
      <3>1. p[2] \in 1 .. N /\ p[1] \in Envelopes
        BY <2>1, <2>6, <2>8
      <3>2. CASE p[2] <= k
        <4>1. p[2] \in 1 .. k /\ p[2] \in 1 .. M
          BY <1>1, <3>1, <3>2
        <4>2. c[p[2]] = d[p[2]]
          BY <1>1, <4>1
        <4> QED BY <2>1, <2>3, <2>4, <2>6, <2>8, <3>2, <4>1, <4>2
      <3>3. CASE ~ (p[2] <= k)
        <4>1. p[2] \in k + 1 .. N
          BY <1>1, <3>1, <3>3
        <4> QED BY <2>1, <2>2, <2>4, <2>6, <2>8, <4>1
      <3> QED BY <3>2, <3>3
    <2> QED BY <2>7, <2>8
  <1> QED BY <1>2 DEF k

-----------------------------------------------------------------------------
(* The pending queue.                                                      *)

\* Nothing offered, nothing retained.
LEMMA RetainNone ==
    ASSUME NEW c, NEW i
    PROVE  RetainPending(c, i, <<>>) = EmptyQueue(c)
  <1>1. <<>> \in Seq(Envelopes)
    OBVIOUS
  <1>2. RetainPending(c, i, <<>>) = LeftFold(RetainOp(i), EmptyQueue(c), <<>>)
    BY <1>1, RetainIsFold
  <1> HIDE DEF RetainOp, EmptyQueue
  <1> QED BY <1>2, LeftFoldNone

\* retain_pending, one transfer at a time.
LEMMA RetainSteps ==
    ASSUME NEW c, NEW i, NEW q \in Seq(Envelopes), NEW t \in Envelopes
    PROVE  RetainPending(c, i, Append(q, t)) = Retain(i, RetainPending(c, i, q), t)
  <1>1. Append(q, t) \in Seq(Envelopes)
    OBVIOUS
  <1>2. /\ RetainPending(c, i, Append(q, t)) = LeftFold(RetainOp(i), EmptyQueue(c), Append(q, t))
        /\ RetainPending(c, i, q) = LeftFold(RetainOp(i), EmptyQueue(c), q)
    BY <1>1, RetainIsFold
  <1>3. \A acc : Combine(RetainOp(i), t, acc) = Retain(i, acc, t)
    BY DEF RetainOp, Retain, IsConfirmed, Combine
  <1> HIDE DEF RetainOp, EmptyQueue
  <1>4. LeftFold(RetainOp(i), EmptyQueue(c), Append(q, t))
           = Combine(RetainOp(i), t, LeftFold(RetainOp(i), EmptyQueue(c), q))
    BY LeftFoldLast
  <1> QED BY <1>2, <1>3, <1>4

\* Whether retain_pending skips t at this point.
Skips(i, acc, t) ==
    \/ IsConfirmed(i, t)
    \/ Contains(acc.transfers, t)
    \/ Len(acc.transfers) = MaxPendingTransfers
    \/ PushPending(acc.view, t) = None

\* The two outcomes of a turn.
LEMMA RetainCases ==
    ASSUME NEW i, NEW acc, NEW t
    PROVE  /\ Skips(i, acc, t) => Retain(i, acc, t) = acc
           /\ ~ Skips(i, acc, t) =>
                 /\ Retain(i, acc, t) = [transfers |-> Append(acc.transfers, t),
                                         view      |-> PushPending(acc.view, t)]
                 /\ Retain(i, acc, t).transfers = Append(acc.transfers, t)
                 /\ Retain(i, acc, t).view = PushPending(acc.view, t)
  BY DEF Retain, Skips

\* A queue within its limit, whose view is a ledger of height n without overdrafts.
QueueAt(r, n) ==
    /\ r \in PendingType /\ Len(r.transfers) <= MaxPendingTransfers
    /\ \A j \in 1 .. Len(r.transfers) : ValidatedFields(r.transfers[j])
    /\ Covered(r.view) /\ r.view.height = n

\* Whatever is offered, what is retained fits the queue.
LEMMA RetainType ==
    ASSUME NEW c, NEW n \in Nat, SoundAt(LedgerOf(c), n, n), NEW i,
           NEW q \in Seq(Envelopes)
    PROVE  QueueAt(RetainPending(c, i, q), n)
  <1> DEFINE T == {s \in Seq(Envelopes) : QueueAt(RetainPending(c, i, s), n)}
  <1>1. QueueAt(EmptyQueue(c), n)
    <2> DEFINE v == PendingView(LedgerOf(c))
    <2>1. SoundAt(v, n, n + 1)
      <3>1. LedgerOf(c).height = n
        BY DEF SoundAt
      <3>2. v = UnlockRewards(LedgerOf(c), n + 1)
        BY <3>1 DEF PendingView
      <3> QED BY <3>2, UnlockedSound
    <2> HIDE DEF v
    <2>2. v \in Ledger /\ Covered(v) /\ v.height = n
      BY <2>1 DEF SoundAt
    <2>3. EmptyQueue(c) = [transfers |-> <<>>, view |-> v]
      BY DEF EmptyQueue, v
    <2> QED BY <2>2, <2>3, NodeAssumption DEF QueueAt, PendingType
  <1>2. <<>> \in T
    BY <1>1, RetainNone
  <1>3. ASSUME NEW s \in T, NEW t \in Envelopes, s \in Seq(Envelopes)
        PROVE  Append(s, t) \in T
    <2> DEFINE r == RetainPending(c, i, s)
               m == RetainPending(c, i, Append(s, t))
    <2>1. m = Retain(i, r, t) /\ Append(s, t) \in Seq(Envelopes)
      BY <1>3, RetainSteps
    <2>2. QueueAt(r, n)
      BY <1>3
    <2> HIDE DEF r
    <2>3. QueueAt(m, n)
      <3> HIDE DEF m
      <3>1. CASE Skips(i, r, t)
        BY <2>1, <2>2, <3>1, RetainCases
      <3>2. CASE ~ Skips(i, r, t)
        <4> DEFINE v == r.view
                   w == PushPending(v, t)
        <4>1. /\ r.transfers \in Seq(Envelopes) /\ v \in Ledger /\ Covered(v)
              /\ v.height = n /\ Len(r.transfers) <= MaxPendingTransfers
              /\ \A j \in 1 .. Len(r.transfers) : ValidatedFields(r.transfers[j])
          BY <2>2 DEF QueueAt, PendingType
        <4>2. w # None /\ Len(r.transfers) # MaxPendingTransfers
          BY <3>2 DEF Skips
        <4>3. Transferable(v, n + 1, t) /\ w = CommitTransfer(v, None, t)
          BY <4>1, <4>2 DEF PushPending, SettleOne
        <4> HIDE DEF w, v
        <4>4. Moved(v, w, None, t)
          <5>1. None \in Accounts \cup {None} /\ n + 1 \in Nat
            OBVIOUS
          <5> QED BY <4>1, <4>3, <5>1, TransferBalances
        <4>5. w \in Ledger /\ Covered(w) /\ w.height = n
          BY <4>1, <4>4 DEF Moved
        <4>6. m = [transfers |-> Append(r.transfers, t), view |-> w]
          BY <2>1, <3>2, RetainCases DEF w, v
        <4> DEFINE us == Append(r.transfers, t)
                   L == Len(r.transfers)
        <4>7. /\ us \in Seq(Envelopes) /\ Len(us) = L + 1 /\ L \in Nat
              /\ \A j \in 1 .. L + 1 : (j \in 1 .. L /\ us[j] = r.transfers[j]) \/ us[j] = t
          BY <4>1
        <4>8. ValidatedFields(t)
          BY <4>3 DEF Transferable
        <4>9. Len(us) <= MaxPendingTransfers
          BY <4>1, <4>2, <4>7, NodeAssumption
        <4>10. \A j \in 1 .. Len(us) : ValidatedFields(us[j])
          BY <4>1, <4>7, <4>8
        <4> HIDE DEF us
        <4>11. m.transfers = us /\ m.view = w /\ m \in PendingType
          BY <4>5, <4>6, <4>7 DEF PendingType, us
        <4> QED BY <4>5, <4>9, <4>10, <4>11 DEF QueueAt
      <3> QED BY <3>1, <3>2
    <2> QED BY <2>1, <2>3
  <1>4. \A s \in Seq(Envelopes) : s \in T
    <2> HIDE DEF T
    <2> QED BY <1>2, <1>3, SeqInduction
  <1> QED BY <1>4

\* Retaining what was retained changes nothing: a restart that is interrupted
\* after it rewrote the queue is followed by one that finds the same.
LEMMA RetainAgain ==
    ASSUME NEW c, NEW n \in Nat, SoundAt(LedgerOf(c), n, n), NEW i,
           NEW q \in Seq(Envelopes)
    PROVE  RetainPending(c, i, RetainPending(c, i, q).transfers) = RetainPending(c, i, q)
  <1> DEFINE Same(s) == RetainPending(c, i, RetainPending(c, i, s).transfers)
                           = RetainPending(c, i, s)
             T == {s \in Seq(Envelopes) : Same(s)}
  <1>1. <<>> \in T
    <2>1. RetainPending(c, i, <<>>).transfers = <<>>
      BY RetainNone DEF EmptyQueue
    <2> QED BY <2>1
  <1>2. ASSUME NEW s \in T, NEW t \in Envelopes, s \in Seq(Envelopes)
        PROVE  Append(s, t) \in T
    <2> DEFINE r == RetainPending(c, i, s)
               m == RetainPending(c, i, Append(s, t))
    <2>1. m = Retain(i, r, t) /\ Append(s, t) \in Seq(Envelopes)
      BY <1>2, RetainSteps
    <2>2. RetainPending(c, i, r.transfers) = r
      BY <1>2
    <2>3. r.transfers \in Seq(Envelopes)
      BY RetainType, <1>2 DEF QueueAt, PendingType
    <2>4. RetainPending(c, i, Append(r.transfers, t)) = Retain(i, r, t)
      <3> HIDE DEF r
      <3> QED BY <2>2, <2>3, RetainSteps
    <2>5. RetainPending(c, i, m.transfers) = m
      <3> HIDE DEF r, m
      <3>1. CASE Skips(i, r, t)
        BY <2>1, <2>2, <3>1, RetainCases
      <3>2. CASE ~ Skips(i, r, t)
        <4>1. m.transfers = Append(r.transfers, t)
          BY <2>1, <3>2, RetainCases
        <4> QED BY <2>1, <2>4, <4>1
      <3> QED BY <3>1, <3>2
    <2> QED BY <2>1, <2>5
  <1> HIDE DEF Same
  <1>3. \A s \in Seq(Envelopes) : s \in T
    <2> HIDE DEF T
    <2> QED BY <1>1, <1>2, SeqInduction
  <1> QED BY <1>3 DEF Same

\* Transfers that the chain confirms do not displace the queue behind them.
LEMMA RetainSkips ==
    ASSUME NEW c, NEW i, NEW o \in Seq(Envelopes), NEW q \in Seq(Envelopes),
           \A j \in 1 .. Len(o) : IsConfirmed(i, o[j])
    PROVE  RetainPending(c, i, o \o q) = RetainPending(c, i, q)
  <1> DEFINE Empty(s) == (\A j \in 1 .. Len(s) : IsConfirmed(i, s[j]))
                            => RetainPending(c, i, s) = EmptyQueue(c)
             E == {s \in Seq(Envelopes) : Empty(s)}
             Same(s) == RetainPending(c, i, o \o s) = RetainPending(c, i, s)
             T == {s \in Seq(Envelopes) : Same(s)}
  <1>1. <<>> \in E
    BY RetainNone
  <1>2. ASSUME NEW s \in E, NEW t \in Envelopes, s \in Seq(Envelopes)
        PROVE  Append(s, t) \in E
    <2>1. Append(s, t) \in Seq(Envelopes) /\ Empty(s)
      BY <1>2
    <2>2. ASSUME \A j \in 1 .. Len(Append(s, t)) : IsConfirmed(i, Append(s, t)[j])
          PROVE  RetainPending(c, i, Append(s, t)) = EmptyQueue(c)
      <3>1. /\ Len(s) \in Nat /\ Len(Append(s, t)) = Len(s) + 1
            /\ \A j \in 1 .. Len(s) : j \in 1 .. Len(s) + 1 /\ Append(s, t)[j] = s[j]
            /\ Append(s, t)[Len(s) + 1] = t /\ Len(s) + 1 \in 1 .. Len(s) + 1
        BY <1>2
      <3>2. \A j \in 1 .. Len(s) : IsConfirmed(i, s[j])
        BY <2>2, <3>1
      <3>3. IsConfirmed(i, t)
        BY <2>2, <3>1
      <3>4. RetainPending(c, i, s) = EmptyQueue(c)
        BY <2>1, <3>2
      <3>5. RetainPending(c, i, Append(s, t)) = Retain(i, RetainPending(c, i, s), t)
        BY <1>2, RetainSteps
      <3> QED BY <3>3, <3>4, <3>5 DEF Retain
    <2> QED BY <2>1, <2>2
  <1>3. RetainPending(c, i, o) = EmptyQueue(c)
    <2>1. \A s \in Seq(Envelopes) : s \in E
      <3> HIDE DEF E
      <3> QED BY <1>1, <1>2, SeqInduction
    <2> QED BY <2>1
  <1>4. <<>> \in T
    <2>1. o \o <<>> = o
      OBVIOUS
    <2> QED BY <1>3, <2>1, RetainNone
  <1>5. ASSUME NEW s \in T, NEW t \in Envelopes, s \in Seq(Envelopes)
        PROVE  Append(s, t) \in T
    <2>1. o \o Append(s, t) = Append(o \o s, t) /\ o \o s \in Seq(Envelopes)
      BY <1>5
    <2>2. RetainPending(c, i, o \o s) = RetainPending(c, i, s)
      BY <1>5
    <2>3. /\ RetainPending(c, i, Append(s, t)) = Retain(i, RetainPending(c, i, s), t)
          /\ RetainPending(c, i, Append(o \o s, t)) = Retain(i, RetainPending(c, i, o \o s), t)
      <3>1. RetainPending(c, i, Append(s, t)) = Retain(i, RetainPending(c, i, s), t)
        BY <1>5, RetainSteps
      <3> DEFINE u == o \o s
      <3>2. u \in Seq(Envelopes)
        BY <2>1
      <3> HIDE DEF u, T
      <3>3. RetainPending(c, i, Append(u, t)) = Retain(i, RetainPending(c, i, u), t)
        BY <3>2, RetainSteps
      <3> QED BY <3>1, <3>3 DEF u
    <2>4. Same(Append(s, t))
      BY <2>1, <2>2, <2>3
    <2>5. Append(s, t) \in Seq(Envelopes)
      BY <1>5
    <2> HIDE DEF Same
    <2> QED BY <2>4, <2>5
  <1>6. \A s \in Seq(Envelopes) : s \in T
    <2> HIDE DEF T
    <2> QED BY <1>4, <1>5, SeqInduction
  <1> QED BY <1>6

\* The transfers of a sequence of blocks are transfers of one of them.
LEMMA TransfersFacts ==
    ASSUME NEW bs \in Seq(Blocks)
    PROVE  /\ TransfersOf(bs) \in Seq(Envelopes)
           /\ \A j \in 1 .. Len(TransfersOf(bs)) :
                 \E x \in 1 .. Len(bs) : Contains(Transfers[bs[x]], TransfersOf(bs)[j])
  <1> DEFINE Good(s) == /\ TransfersOf(s) \in Seq(Envelopes)
                        /\ \A j \in 1 .. Len(TransfersOf(s)) :
                              \E x \in 1 .. Len(s) : Contains(Transfers[s[x]], TransfersOf(s)[j])
             T == {s \in Seq(Blocks) : Good(s)}
  <1>1. <<>> \in T
    <2>1. <<>> \in Seq(Blocks)
      OBVIOUS
    <2>2. TransfersOf(<<>>) = <<>>
      <3>1. TransfersOf(<<>>) = LeftFold(JoinOp, <<>>, <<>>)
        BY <2>1, TransfersIsFold
      <3> HIDE DEF JoinOp
      <3> QED BY <3>1, LeftFoldNone
    <2>3. Good(<<>>)
      <3> DEFINE e == TransfersOf(<<>>)
      <3>1. <<>> \in Seq(Envelopes) /\ Len(<<>>) = 0
        OBVIOUS
      <3>2. e = <<>>
        BY <2>2
      <3> HIDE DEF e
      <3>3. e \in Seq(Envelopes) /\ Len(e) = 0
        BY <3>1, <3>2
      <3> QED BY <3>3 DEF e
    <2> HIDE DEF Good
    <2> QED BY <2>1, <2>3
  <1>2. ASSUME NEW s \in T, NEW b \in Blocks, s \in Seq(Blocks)
        PROVE  Append(s, b) \in T
    <2> DEFINE u == Append(s, b)
               ts == TransfersOf(s)
               bt == Transfers[b]
    <2>1. /\ u \in Seq(Blocks) /\ Len(u) = Len(s) + 1 /\ Len(s) \in Nat
          /\ u[Len(s) + 1] = b /\ \A x \in 1 .. Len(s) : u[x] = s[x]
      BY <1>2
    <2>2. TransfersOf(u) = ts \o bt
      <3>1. TransfersOf(u) = LeftFold(JoinOp, <<>>, u) /\ ts = LeftFold(JoinOp, <<>>, s)
        BY <1>2, <2>1, TransfersIsFold
      <3>2. \A acc : Combine(JoinOp, b, acc) = acc \o bt
        BY DEF Combine, JoinOp
      <3> HIDE DEF JoinOp
      <3>3. LeftFold(JoinOp, <<>>, u) = Combine(JoinOp, b, LeftFold(JoinOp, <<>>, s))
        BY <1>2, LeftFoldLast
      <3> QED BY <3>1, <3>2, <3>3
    <2>3. ts \in Seq(Envelopes) /\ bt \in Seq(Envelopes) /\ Good(s)
      BY <1>2, NodeAssumption
    <2>4. /\ ts \o bt \in Seq(Envelopes)
          /\ Len(ts \o bt) = Len(ts) + Len(bt) /\ Len(ts) \in Nat /\ Len(bt) \in Nat
          /\ \A j \in 1 .. Len(ts) + Len(bt) :
                \/ j \in 1 .. Len(ts) /\ (ts \o bt)[j] = ts[j]
                \/ j - Len(ts) \in 1 .. Len(bt) /\ (ts \o bt)[j] = bt[j - Len(ts)]
      <3> HIDE DEF ts, bt
      <3> QED BY <2>3
    <2>5. ASSUME NEW j \in 1 .. Len(ts \o bt)
          PROVE  \E x \in 1 .. Len(u) : Contains(Transfers[u[x]], (ts \o bt)[j])
      <3>1. CASE j \in 1 .. Len(ts) /\ (ts \o bt)[j] = ts[j]
        <4>1. PICK x \in 1 .. Len(s) : Contains(Transfers[s[x]], ts[j])
          BY <2>3, <3>1
        <4>2. x \in 1 .. Len(u) /\ u[x] = s[x]
          BY <2>1
        <4> HIDE DEF u, ts, bt
        <4> QED BY <3>1, <4>1, <4>2
      <3>2. CASE j - Len(ts) \in 1 .. Len(bt) /\ (ts \o bt)[j] = bt[j - Len(ts)]
        <4>1. Contains(bt, (ts \o bt)[j])
          BY <3>2 DEF Contains
        <4>2. Len(s) + 1 \in 1 .. Len(u) /\ Transfers[u[Len(s) + 1]] = bt
          BY <2>1
        <4> HIDE DEF u, ts, bt
        <4> QED BY <4>1, <4>2
      <3> HIDE DEF u, ts, bt
      <3> QED BY <2>4, <3>1, <3>2
    <2>6. Good(u)
      BY <2>2, <2>4, <2>5
    <2> HIDE DEF Good
    <2> QED BY <2>1, <2>6
  <1> HIDE DEF Good
  <1>3. \A s \in Seq(Blocks) : s \in T
    <2> HIDE DEF T
    <2> QED BY <1>1, <1>2, SeqInduction
  <1>4. Good(bs)
    BY <1>3
  <1> QED BY <1>4 DEF Good

\* The orphans are transfers of the chain that is given up, and leave room for the
\* whole queue in the recovery file.
LEMMA OrphanFacts ==
    ASSUME NEW c \in Seq(Blocks), NEW k \in Nat, k <= Len(c), NEW i,
           NEW w \in Seq(Envelopes), Len(w) <= MaxRecoveryTransfers
    PROVE  /\ Orphans(c, k, i, w) \in Seq(Envelopes)
           /\ Len(Orphans(c, k, i, w)) <= OrphanLimit(w)
           /\ \A j \in 1 .. Len(Orphans(c, k, i, w)) :
                 \E x \in 1 .. Len(c) : Contains(Transfers[c[x]], Orphans(c, k, i, w)[j])
  <1> DEFINE bs == SubSeq(c, k + 1, Len(c))
             ts == TransfersOf(bs)
             In(t) == \E x \in 1 .. Len(c) : Contains(Transfers[c[x]], t)
             O(s) == LeftFold(OrphanOp(i, w), <<>>, s)
             Good(s) == (\A j \in 1 .. Len(s) : In(s[j])) =>
                           /\ O(s) \in Seq(Envelopes) /\ Len(O(s)) <= OrphanLimit(w)
                           /\ \A j \in 1 .. Len(O(s)) : In(O(s)[j])
             T == {s \in Seq(Envelopes) : Good(s)}
  <1>1. /\ bs \in Seq(Blocks) /\ Len(bs) = Len(c) - k
        /\ \A x \in 1 .. Len(bs) : x + k \in 1 .. Len(c) /\ bs[x] = c[x + k]
    <2>1. k + 1 \in 1 .. Len(c) + 1 /\ Len(c) \in Nat
      OBVIOUS
    <2>2. bs \in Seq(Blocks) /\ Len(bs) = Len(c) - k
      BY <2>1
    <2>3. \A x \in 1 .. Len(c) - k : bs[x] = c[x + k] /\ x + k \in 1 .. Len(c)
      BY <2>1
    <2> HIDE DEF bs
    <2> QED BY <2>2, <2>3
  <1> HIDE DEF bs
  <1>2. ts \in Seq(Envelopes) /\ \A j \in 1 .. Len(ts) : In(ts[j])
    <2>1. ts \in Seq(Envelopes)
      BY <1>1, TransfersFacts
    <2>2. \A j \in 1 .. Len(ts) : \E x \in 1 .. Len(bs) : Contains(Transfers[bs[x]], ts[j])
      BY <1>1, TransfersFacts
    <2> HIDE DEF ts
    <2> QED BY <1>1, <2>1, <2>2
  <1>3. OrphanLimit(w) \in Nat
    BY NodeAssumption DEF OrphanLimit
  <1>4. <<>> \in T
    <2>1. O(<<>>) = <<>>
      <3> HIDE DEF OrphanOp
      <3> QED BY LeftFoldNone
    <2>2. <<>> \in Seq(Envelopes) /\ Len(<<>>) = 0
      OBVIOUS
    <2>3. Good(<<>>)
      <3> HIDE DEF O, In
      <3>1. O(<<>>) \in Seq(Envelopes) /\ Len(O(<<>>)) = 0
        BY <2>1, <2>2
      <3> QED BY <1>3, <3>1
    <2> HIDE DEF Good
    <2> QED BY <2>2, <2>3
  <1>5. ASSUME NEW s \in T, NEW t \in Envelopes, s \in Seq(Envelopes)
        PROVE  Append(s, t) \in T
    <2> DEFINE u == Append(s, t)
    <2>1. /\ u \in Seq(Envelopes) /\ Len(u) = Len(s) + 1 /\ Len(s) \in Nat
          /\ u[Len(s) + 1] = t /\ \A x \in 1 .. Len(s) : u[x] = s[x]
      BY <1>5
    <2>2. O(u) = Orphan(i, w, O(s), t)
      <3>1. \A acc : Combine(OrphanOp(i, w), t, acc) = Orphan(i, w, acc, t)
        BY DEF OrphanOp, Orphan, IsConfirmed, Combine
      <3> HIDE DEF OrphanOp
      <3>2. O(u) = Combine(OrphanOp(i, w), t, O(s))
        BY <1>5, LeftFoldLast
      <3> HIDE DEF O
      <3> QED BY <3>1, <3>2
    <2>3. Good(s)
      BY <1>5
    <2> HIDE DEF O, u, In
    <2>4. ASSUME \A j \in 1 .. Len(u) : In(u[j])
          PROVE  /\ O(u) \in Seq(Envelopes) /\ Len(O(u)) <= OrphanLimit(w)
                 /\ \A j \in 1 .. Len(O(u)) : In(O(u)[j])
      <3>1. (\A j \in 1 .. Len(s) : In(s[j])) /\ In(t)
        <4>1. /\ Len(s) + 1 \in 1 .. Len(u)
              /\ \A j \in 1 .. Len(s) : j \in 1 .. Len(u)
          BY <2>1
        <4> QED BY <2>1, <2>4, <4>1
      <3>2. /\ O(s) \in Seq(Envelopes) /\ Len(O(s)) <= OrphanLimit(w)
            /\ \A j \in 1 .. Len(O(s)) : In(O(s)[j])
        BY <2>3, <3>1
      <3>3. O(u) = O(s) \/ (Len(O(s)) # OrphanLimit(w) /\ O(u) = Append(O(s), t))
        BY <2>2 DEF Orphan
      <3>4. CASE Len(O(s)) # OrphanLimit(w) /\ O(u) = Append(O(s), t)
        <4>1. /\ Append(O(s), t) \in Seq(Envelopes) /\ Len(Append(O(s), t)) = Len(O(s)) + 1
              /\ Len(O(s)) \in Nat
              /\ \A j \in 1 .. Len(O(s)) + 1 :
                    (j \in 1 .. Len(O(s)) /\ Append(O(s), t)[j] = O(s)[j]) \/ Append(O(s), t)[j] = t
          BY <3>2
        <4> QED BY <1>3, <3>1, <3>2, <3>4, <4>1
      <3> QED BY <3>2, <3>3, <3>4
    <2>5. Good(u)
      BY <2>4
    <2> HIDE DEF Good
    <2> QED BY <2>1, <2>5 DEF u
  <1> HIDE DEF Good
  <1>6. \A s \in Seq(Envelopes) : s \in T
    <2> HIDE DEF T
    <2> QED BY <1>4, <1>5, SeqInduction
  <1>7. Good(ts)
    BY <1>2, <1>6
  <1>8. Orphans(c, k, i, w) = O(ts)
    <2>1. Orphans(c, k, i, w) = FoldLeft(LAMBDA acc, t : Orphan(i, w, acc, t), <<>>, ts)
      BY DEF Orphans, bs
    <2>2. FoldLeft(LAMBDA acc, t : Orphan(i, w, acc, t), <<>>, ts) = O(ts)
      <3> HIDE DEF ts
      <3> QED BY <1>2, OrphansIsFold
    <2> QED BY <2>1, <2>2
  <1> HIDE DEF ts, O
  <1> QED BY <1>2, <1>7, <1>8 DEF Good

\* The chain that a transfer was orphaned from confirms it and had validated it.
LEMMA OrphansConfirmed ==
    ASSUME NEW c \in Seq(Blocks), Carried(c), NEW t \in Envelopes,
           \E x \in 1 .. Len(c) : Contains(Transfers[c[x]], t)
    PROVE  IsConfirmed(ConfirmedIndex(c), t) /\ ValidatedFields(t)
  <1>1. PICK x \in 1 .. Len(c) : Contains(Transfers[c[x]], t)
    OBVIOUS
  <1>2. <<t, x>> \in ConfirmedIndex(c)
    BY <1>1 DEF ConfirmedIndex, IndexAbove
  <1>3. <<t, x>>[1] = t
    OBVIOUS
  <1>4. ValidatedFields(t)
    BY <1>1 DEF Contains, Carried
  <1> QED BY <1>2, <1>3, <1>4 DEF IsConfirmed

-----------------------------------------------------------------------------
(* The queue can be mined.                                                 *)

\* The ledger s of a block under way has at least what the view v reserves.
Backs(s, v) ==
    /\ s.next_nonces = v.next_nonces
    /\ s.locked_balances = v.locked_balances
    /\ \A a \in Accounts : Balance(v, a) <= Balance(s, a)

\* t is settled in s, which then is sound and backs the view with t in it.
StillBacks(s, v, n, due, h, p, t) ==
    /\ SettleOne(s, h, p, t) = CommitTransfer(s, p, t)
    /\ SoundAt(CommitTransfer(s, p, t), n, due)
    /\ Backs(CommitTransfer(s, p, t), CommitTransfer(v, None, t))

\* A transfer the view accepts is accepted in a block, whoever is paid the fee.
LEMMA BacksTransfer ==
    ASSUME NEW s, NEW n \in Nat, NEW due, SoundAt(s, n, due),
           NEW v \in Ledger, Covered(v), Backs(s, v), NEW p \in Accounts,
           NEW t \in Envelopes, NEW h \in Nat, Transferable(v, h, t)
    PROVE  StillBacks(s, v, n, due, h, p, t)
  <1> DEFINE m == CommitTransfer(s, p, t)
             w == CommitTransfer(v, None, t)
  <1>1. /\ s \in Ledger /\ Audited(s) /\ Covered(s) /\ s.height = n
        /\ s.issued <= TotalSupply /\ PendingWithin(s, due, n)
    BY DEF SoundAt
  <1>2. /\ t.from \in Accounts /\ t.to \in Accounts /\ t.amount \in Nat
        /\ t.fee \in Nat /\ t.nonce \in Nat
    BY EnvelopeAssumption DEF EnvelopeType
  <1>3. \A a \in Accounts : /\ Balance(s, a) \in Nat /\ Balance(v, a) \in Nat
                            /\ LockedBalance(s, a) \in Nat
                            /\ LockedBalance(s, a) = LockedBalance(v, a)
                            /\ NextNonce(s, a) = NextNonce(v, a)
    BY <1>1 DEF Balance, LockedBalance, NextNonce, OrZero, Ledger, Backs
  <1>4. Transferable(s, h, t)
    <2>1. SpendableBalance(v, t.from) <= SpendableBalance(s, t.from)
      BY <1>2, <1>3 DEF SpendableBalance, Backs
    <2>2. t.amount + t.fee <= SpendableBalance(s, t.from)
      <3>1. t.amount + t.fee <= SpendableBalance(v, t.from)
        BY DEF Transferable
      <3>2. SpendableBalance(v, t.from) \in Int /\ SpendableBalance(s, t.from) \in Int
        BY <1>2, <1>3 DEF SpendableBalance
      <3> QED BY <1>2, <2>1, <3>1, <3>2
    <2>3. t.nonce = NextNonce(s, t.from)
      BY <1>2, <1>3 DEF Transferable
    <2> QED BY <2>2, <2>3 DEF Transferable
  <1>5. Audited(m) /\ CreditsFit(s, p, t)
    BY <1>1, <1>4, TransferFits
  <1>6. Moved(s, m, p, t)
    <2>1. p \in Accounts \cup {None}
      OBVIOUS
    <2> QED BY <1>1, <1>4, <2>1, TransferBalances
  <1>7. Moved(v, w, None, t)
    <2>1. None \in Accounts \cup {None}
      OBVIOUS
    <2> QED BY <2>1, TransferBalances
  <1>8. SettleOne(s, h, p, t) = m
    BY <1>1, <1>4, <1>5, MarkerAssumption DEF SettleOne
  <1> HIDE DEF m, w
  <1>9. SoundAt(m, n, due)
    BY <1>1, <1>5, <1>6 DEF SoundAt, Moved, PendingWithin
  <1>10. ASSUME NEW a \in Accounts PROVE Balance(w, a) <= Balance(m, a)
    <2>1. Balance(m, a) = Balance(s, a) - (IF a = t.from THEN t.amount + t.fee ELSE 0)
                             + (IF a = t.to THEN t.amount ELSE 0)
                             + (IF a = p THEN t.fee ELSE 0)
      BY <1>6 DEF Moved
    <2>2. Balance(w, a) = Balance(v, a) - (IF a = t.from THEN t.amount + t.fee ELSE 0)
                             + (IF a = t.to THEN t.amount ELSE 0)
                             + (IF a = None THEN t.fee ELSE 0)
      BY <1>7 DEF Moved
    <2>3. a # None /\ Balance(v, a) <= Balance(s, a)
      BY MarkerAssumption DEF Backs
    <2> QED BY <1>2, <1>3, <2>1, <2>2, <2>3
  <1>11. Backs(m, w)
    BY <1>6, <1>7, <1>10 DEF Backs, Moved
  <1> QED BY <1>8, <1>9, <1>11 DEF m, w, StillBacks

\* The emission of the next block always fits, at the history limit too.
LEMMA EmissionAlwaysFits ==
    ASSUME NEW s, NEW n \in Nat, NEW due, SoundAt(s, n, due), NEW p \in Accounts
    PROVE  EmissionFits(s, n + 1, p) /\ EmitReward(s, n + 1, p) # None
  <1> DEFINE h == n + 1
             e == Emission(h, s.issued)
  <1>1. /\ s \in Ledger /\ Audited(s) /\ s.issued <= TotalSupply /\ s.issued \in Nat
        /\ h \in Nat
    BY DEF SoundAt, Ledger
  <1>2. e \in Nat /\ s.issued + e <= TotalSupply
    BY <1>1, EmissionBound
  <1>3. TotalSupply <= MaxAmount /\ MaxAmount \in Int /\ TotalSupply \in Nat
    <2>1. AmountBits \in 0 .. AmountBits
      BY LedgerAssumption
    <2>2. 2^AmountBits \in Nat
      BY <2>1, LedgerAssumption
    <2> QED BY <2>2, LedgerAssumption DEF MaxAmount
  <1>4. Balance(s, p) <= s.issued /\ Balance(s, p) \in Nat
    BY <1>1, AuditedFacts, SummandTypes
  <1>5. LockedBalance(s, p) <= Balance(s, p) /\ LockedBalance(s, p) \in Nat
    <2>1. LockedBalance(s, p) \in Nat
      BY <1>1 DEF LockedBalance, OrZero, Ledger
    <2> QED BY <2>1 DEF SoundAt, Covered
  <1> HIDE DEF e
  <1>6. EmissionFits(s, h, p)
    BY <1>1, <1>2, <1>3, <1>4, <1>5 DEF EmissionFits, e
  <1>7. EmitReward(s, h, p) \in Ledger
    <2> DEFINE bal == Credit(s.balances, p, e)
               locks == e # 0 /\ RewardMaturity # 0
               lock == IF locks THEN [s.locked_balances EXCEPT ![p] =
                                         OrZero(s.locked_balances[p]) + e]
                       ELSE s.locked_balances
               pend == IF locks THEN [s.pending_rewards EXCEPT ![h + RewardMaturity] =
                                         [pk |-> p, amount |-> e]]
                       ELSE s.pending_rewards
    <2>1. bal \in [Accounts -> Nat \cup {None}]
      BY <1>1, <1>2, CreditType DEF Ledger
    <2>2. lock \in [Accounts -> Nat \cup {None}]
      BY <1>1, <1>2, <1>5 DEF Ledger, LockedBalance
    <2>3. pend \in [UnlockHeights -> Reward \cup {None}]
      BY <1>1, <1>2 DEF Ledger, Reward
    <2>4. EmitReward(s, h, p) =
            [height |-> h, issued |-> s.issued + e, balances |-> bal,
             next_nonces |-> s.next_nonces, locked_balances |-> lock,
             pending_rewards |-> pend]
      BY DEF EmitReward, e
    <2> HIDE DEF bal, lock, pend
    <2> QED BY <1>1, <1>2, <2>1, <2>2, <2>3, <2>4 DEF Ledger
  <1> QED BY <1>6, <1>7, MarkerAssumption

\* Whatever was offered to the queue of a sound chain, a block with all that it
\* retains is accepted from any producer.
LEMMA QueueMineable ==
    ASSUME NEW c, NEW n \in Nat, SoundAt(LedgerOf(c), n, n), NEW i,
           NEW q \in Seq(Envelopes), NEW p \in Accounts
    PROVE  ApplyBlock(LedgerOf(c), n + 1, p, RetainPending(c, i, q).transfers) # None
  <1> DEFINE h == n + 1
             base == UnlockRewards(LedgerOf(c), h)
             S(us) == Settled(us, h, p, base)
             Good(s) == LET r == RetainPending(c, i, s)
                        IN  SoundAt(S(r.transfers), n, h) /\ Backs(S(r.transfers), r.view)
             T == {s \in Seq(Envelopes) : Good(s)}
  <1>1. h \in Nat /\ SoundAt(base, n, h)
    BY UnlockedSound
  <1>2. EmptyQueue(c).transfers = <<>> /\ EmptyQueue(c).view = base
    <2>1. LedgerOf(c).height = n
      BY DEF SoundAt
    <2> QED BY <2>1 DEF EmptyQueue, PendingView
  <1> HIDE DEF base
  <1>3. <<>> \in T
    <2>1. S(<<>>) = base
      BY SettledNone
    <2>2. Backs(base, base)
      BY <1>1, SummandTypes DEF Backs, SoundAt
    <2>3. LET r == EmptyQueue(c) IN SoundAt(S(r.transfers), n, h) /\ Backs(S(r.transfers), r.view)
      <3> HIDE DEF S
      <3> QED BY <1>1, <1>2, <2>1, <2>2
    <2>4. Good(<<>>)
      BY <2>3, RetainNone
    <2> HIDE DEF Good
    <2> QED BY <2>4
  <1>4. ASSUME NEW s \in T, NEW t \in Envelopes, s \in Seq(Envelopes)
        PROVE  Append(s, t) \in T
    <2> DEFINE r == RetainPending(c, i, s)
               m == RetainPending(c, i, Append(s, t))
    <2>1. m = Retain(i, r, t) /\ Append(s, t) \in Seq(Envelopes)
      BY <1>4, RetainSteps
    <2>2. QueueAt(r, n)
      BY <1>4, RetainType
    <2>3. SoundAt(S(r.transfers), n, h) /\ Backs(S(r.transfers), r.view)
      BY <1>4
    <2> HIDE DEF r
    <2>4. SoundAt(S(m.transfers), n, h) /\ Backs(S(m.transfers), m.view)
      <3> HIDE DEF m
      <3>1. CASE Skips(i, r, t)
        <4>1. m = r
          BY <2>1, <3>1, RetainCases
        <4> HIDE DEF S
        <4> QED BY <2>3, <4>1
      <3>2. CASE ~ Skips(i, r, t)
        <4> DEFINE v == r.view
                   w == PushPending(v, t)
                   l == S(r.transfers)
        <4>1. /\ r.transfers \in Seq(Envelopes) /\ v \in Ledger /\ Covered(v)
              /\ v.height = n
          BY <2>2 DEF QueueAt, PendingType
        <4>2. w # None
          BY <3>2 DEF Skips
        <4>3. Transferable(v, h, t) /\ w = CommitTransfer(v, None, t)
          BY <4>1, <4>2 DEF PushPending, SettleOne
        <4>4. m.transfers = Append(r.transfers, t) /\ m.view = w
          BY <2>1, <3>2, RetainCases
        <4>5. S(m.transfers) = SettleOne(l, h, p, t)
          <5>1. S(Append(r.transfers, t)) = SettleOne(l, h, p, t)
            BY <4>1, SettledLast
          <5> HIDE DEF S
          <5> QED BY <4>4, <5>1
        <4>6. SoundAt(l, n, h) /\ Backs(l, v)
          BY <2>3
        <4> HIDE DEF l, v, w, S, h
        <4>7. StillBacks(l, v, n, h, h, p, t)
          <5>1. /\ n \in Nat /\ h \in Nat /\ SoundAt(l, n, h) /\ v \in Ledger /\ Covered(v)
                /\ Backs(l, v) /\ p \in Accounts /\ t \in Envelopes /\ Transferable(v, h, t)
            BY <1>1, <4>1, <4>3, <4>6
          <5> HIDE DEF T
          <5> QED BY ONLY <5>1, BacksTransfer
        <4> QED BY <4>3, <4>4, <4>5, <4>7 DEF StillBacks
      <3> QED BY <3>1, <3>2
    <2>5. Good(Append(s, t))
      BY <2>4
    <2> HIDE DEF Good
    <2> QED BY <2>1, <2>5
  <1> HIDE DEF Good
  <1>5. \A s \in Seq(Envelopes) : s \in T
    <2> HIDE DEF T
    <2> QED BY <1>3, <1>4, SeqInduction
  <1>6. Good(q)
    BY <1>5
  <1> DEFINE r == RetainPending(c, i, q)
             l == S(r.transfers)
  <1>7. SoundAt(l, n, h)
    BY <1>6 DEF Good
  <1>8. l # None
    BY <1>7, MarkerAssumption DEF SoundAt
  <1>9. EmissionFits(l, h, p) /\ EmitReward(l, h, p) # None
    <2> HIDE DEF l
    <2> QED BY <1>7, EmissionAlwaysFits
  <1> QED BY <1>8, <1>9 DEF ApplyBlock, Settled, base

-----------------------------------------------------------------------------
(* What the node keeps of a queue.                                         *)

\* The pending state a restart derives from the chain c and the queue q.
Kept(c, q) == RetainPending(c, ConfirmedIndex(c), q)

\* A block log that open_inner accepts.
Stored(c) == c \in Seq(Blocks) /\ IsChain(c) /\ Len(c) <= MaxHistoryBlocks

\* A queue file that open_inner accepts.
Restorable(q) ==
    /\ q \in Seq(Envelopes) /\ Len(q) <= MaxRecoveryTransfers
    /\ \A j \in 1 .. Len(q) : ValidatedFields(q[j])

\* A pending state within its limit.
Fits(r) == r \in PendingType /\ Len(r.transfers) <= MaxPendingTransfers

\* The ledger of a stored chain is sound.
LEMMA StoredSound ==
    ASSUME NEW c, Stored(c)
    PROVE  Len(c) \in Nat /\ SoundAt(LedgerOf(c), Len(c), Len(c)) /\ Carried(c)
  <1>1. c \in Seq(Blocks) /\ IsChain(c) /\ Len(c) \in Nat /\ Len(c) <= MaxHistoryBlocks
    BY DEF Stored
  <1>2. Len(c) <= MaxHeight
    BY <1>1, NodeAssumption, ForkAssumption, LedgerAssumption
  <1> QED BY <1>1, <1>2, ChainSound

\* What is kept fits the queue, and its file.
LEMMA KeptFits ==
    ASSUME NEW c, Stored(c), NEW q \in Seq(Envelopes)
    PROVE  Fits(Kept(c, q)) /\ Restorable(Kept(c, q).transfers)
  <1>1. QueueAt(Kept(c, q), Len(c))
    BY StoredSound, RetainType DEF Kept
  <1> DEFINE r == Kept(c, q)
  <1> HIDE DEF r
  <1>2. QueueAt(r, Len(c))
    BY <1>1 DEF r
  <1>3. /\ r \in PendingType /\ r.transfers \in Seq(Envelopes) /\ Len(r.transfers) \in Nat
        /\ Len(r.transfers) <= MaxPendingTransfers
        /\ \A j \in 1 .. Len(r.transfers) : ValidatedFields(r.transfers[j])
    BY <1>2 DEF QueueAt, PendingType
  <1>4. Len(r.transfers) <= MaxRecoveryTransfers
    BY <1>3, NodeAssumption
  <1>5. Fits(r) /\ Restorable(r.transfers)
    BY <1>3, <1>4 DEF Fits, Restorable
  <1> QED BY <1>5 DEF r

\* Reading back what was kept keeps it all.
LEMMA KeptAgain ==
    ASSUME NEW c, Stored(c), NEW q \in Seq(Envelopes)
    PROVE  Kept(c, Kept(c, q).transfers) = Kept(c, q)
  BY StoredSound, RetainAgain DEF Kept

\* The node before its first block and its first transfer.
LEMMA KeptNothing ==
    /\ Stored(<<>>) /\ Restorable(<<>>)
    /\ Kept(<<>>, <<>>) = NoPending /\ NoPending.transfers = <<>>
    /\ ConfirmedIndex(<<>>) = {}
  <1>1. Stored(<<>>)
    <2>1. <<>> \in Seq(Blocks) /\ Len(<<>>) = 0
      OBVIOUS
    <2>2. IsChain(<<>>)
      BY DEF IsChain
    <2> QED BY <2>1, <2>2, ForkAssumption DEF Stored
  <1>2. Restorable(<<>>)
    BY NodeAssumption DEF Restorable
  <1>3. Kept(<<>>, <<>>) = EmptyQueue(<<>>)
    BY RetainNone DEF Kept
  <1>4. EmptyQueue(<<>>) = NoPending
    BY LedgerNone DEF EmptyQueue, NoPending
  <1>5. NoPending.transfers = <<>>
    BY DEF NoPending
  <1>6. ConfirmedIndex(<<>>) = {}
    BY DEF ConfirmedIndex, IndexAbove
  <1> QED BY <1>1, <1>2, <1>3, <1>4, <1>5, <1>6

\* submit_transfer extends what is kept by the one transfer.
LEMMA KeptNext ==
    ASSUME NEW c, NEW r, r = Kept(c, r.transfers), r.transfers \in Seq(Envelopes),
           NEW t \in Envelopes, ~ IsConfirmed(ConfirmedIndex(c), t),
           ~ Contains(r.transfers, t), Len(r.transfers) # MaxPendingTransfers,
           PushPending(r.view, t) # None,
           NEW m, m = [transfers |-> Append(r.transfers, t), view |-> PushPending(r.view, t)]
    PROVE  m.transfers \in Seq(Envelopes) /\ m = Kept(c, m.transfers)
  <1> DEFINE i == ConfirmedIndex(c)
             q == r.transfers
  <1>1. m.transfers = Append(q, t) /\ Append(q, t) \in Seq(Envelopes)
    OBVIOUS
  <1>2. r = RetainPending(c, i, q)
    BY DEF Kept
  <1>3. RetainPending(c, i, Append(q, t)) = Retain(i, RetainPending(c, i, q), t)
    BY RetainSteps
  <1>4. ~ Skips(i, r, t)
    BY DEF Skips
  <1>5. Retain(i, r, t) = m
    BY <1>4, RetainCases
  <1> HIDE DEF i, q
  <1>6. m = RetainPending(c, i, m.transfers)
    BY <1>1, <1>2, <1>3, <1>5
  <1> QED BY <1>1, <1>6 DEF Kept, i

\* submit_block ends with a stored chain, and with its index.
LEMMA StoredNext ==
    ASSUME NEW c, Stored(c), NEW b \in Blocks, Extends(c, b), Len(c) < MaxHistoryBlocks
    PROVE  /\ Stored(Append(c, b))
           /\ ConfirmedIndex(Append(c, b))
                 = ConfirmedIndex(c) \cup IndexAbove(Append(c, b), Len(c))
  <1>1. c \in Seq(Blocks) /\ IsChain(c)
    BY DEF Stored
  <1>2. IsChain(Append(c, b))
    BY <1>1, ChainSteps
  <1>3. Append(c, b) \in Seq(Blocks) /\ Len(Append(c, b)) <= MaxHistoryBlocks
    <2>1. Len(Append(c, b)) = Len(c) + 1 /\ Len(c) \in Nat /\ Append(c, b) \in Seq(Blocks)
      BY <1>1
    <2> QED BY <2>1, ForkAssumption
  <1>4. Stored(Append(c, b))
    BY <1>2, <1>3 DEF Stored
  <1> QED BY <1>1, <1>4, IndexSteps

\* The queue that covers both chains of a reorganisation.
Union(c, d, q) ==
    Orphans(c, CommonPrefixLen(c, d), ConfirmedIndex(d), q) \o q

\* The union fits its file, and while the old chain stands a restart keeps of it
\* what it keeps of the queue.
LEMMA UnionKept ==
    ASSUME NEW c, Stored(c), NEW d \in Seq(Blocks), NEW q, Restorable(q)
    PROVE  Restorable(Union(c, d, q)) /\ Kept(c, Union(c, d, q)) = Kept(c, q)
  <1> DEFINE k == CommonPrefixLen(c, d)
             i == ConfirmedIndex(d)
             o == Orphans(c, k, i, q)
             In(t) == \E x \in 1 .. Len(c) : Contains(Transfers[c[x]], t)
  <1>1. /\ c \in Seq(Blocks) /\ Carried(c)
        /\ q \in Seq(Envelopes) /\ Len(q) <= MaxRecoveryTransfers
        /\ \A j \in 1 .. Len(q) : ValidatedFields(q[j])
    BY StoredSound DEF Stored, Restorable
  <1>2. k \in Nat /\ k <= Len(c)
    BY <1>1, CommonPrefix
  <1> HIDE DEF k, i
  <1>3. o \in Seq(Envelopes) /\ Len(o) <= OrphanLimit(q)
    BY <1>1, <1>2, OrphanFacts
  <1>4. \A j \in 1 .. Len(o) : In(o[j])
    BY <1>1, <1>2, OrphanFacts
  <1> HIDE DEF o
  <1>5. \A j \in 1 .. Len(o) : o[j] \in Envelopes
    BY <1>3
  <1>6. \A j \in 1 .. Len(o) : IsConfirmed(ConfirmedIndex(c), o[j]) /\ ValidatedFields(o[j])
    BY <1>1, <1>4, <1>5, OrphansConfirmed
  <1>7. Restorable(o \o q)
    <2>1. /\ o \o q \in Seq(Envelopes) /\ Len(o \o q) = Len(o) + Len(q)
          /\ Len(o) \in Nat /\ Len(q) \in Nat
          /\ \A j \in 1 .. Len(o) + Len(q) :
                \/ j \in 1 .. Len(o) /\ (o \o q)[j] = o[j]
                \/ j - Len(o) \in 1 .. Len(q) /\ (o \o q)[j] = q[j - Len(o)]
      BY <1>1, <1>3
    <2>2. Len(o) + Len(q) <= MaxRecoveryTransfers
      BY <1>3, <2>1, NodeAssumption DEF OrphanLimit
    <2>3. \A j \in 1 .. Len(o) + Len(q) : ValidatedFields((o \o q)[j])
      BY <1>1, <1>6, <2>1
    <2> QED BY <2>1, <2>2, <2>3 DEF Restorable
  <1>8. Kept(c, o \o q) = Kept(c, q)
    <2>1. \A j \in 1 .. Len(o) : IsConfirmed(ConfirmedIndex(c), o[j])
      BY <1>6
    <2> QED BY <1>1, <1>3, <2>1, RetainSkips DEF Kept
  <1> QED BY <1>7, <1>8 DEF Union, o, k, i

\* The undo window of a chain stays within its limit.
LEMMA FloorBounds ==
    ASSUME NEW c \in Seq(Blocks), NEW f \in Nat, f <= Len(c)
    PROVE  /\ ChainOf(c, f) \in ChainType /\ ChainOf(c, f).blocks = c
           /\ ChainOf(c, f).floor <= Len(c)
           /\ Len(c) - ChainOf(c, f).floor <= RecentForkBlocks
  <1>1. Len(c) \in Nat /\ RecentForkBlocks \in Nat
    BY ForkAssumption
  <1>2. /\ Floor(f, c) \in Nat /\ Floor(f, c) <= Len(c)
        /\ Len(c) - Floor(f, c) <= RecentForkBlocks
    BY <1>1 DEF Floor
  <1>3. ChainOf(c, f) = [blocks |-> c, floor |-> Floor(f, c)]
    BY DEF ChainOf
  <1> HIDE DEF ChainOf
  <1> QED BY <1>2, <1>3 DEF ChainType

\* No write is under way in a node that is down or poisoned.
Quiescent == ~ up \/ poisoned => step = "none"

\* The block log is the chain in memory until the write that changes both.
LogInStep == up /\ ~ poisoned => block_log = chain.blocks /\ torn = {}

\* The queue file is the queue in memory, except between the first and the last
\* write of a publication that changes it.
QueueInStep ==
    up /\ ~ poisoned /\ step \in {"none", "append transfer", "append block", "write recovery"}
        => pool_log = pending.transfers

\* The candidate of a publication supersedes the log it will change.
CandidateRanks ==
    /\ step = "append block" =>
          \E b \in Blocks : candidate.blocks = Append(chain.blocks, b)
    /\ step \in {"write recovery", "write blocks"} =>
          Preferred(candidate.blocks, chain.blocks)

IInv == Quiescent /\ LogInStep /\ QueueInStep /\ CandidateRanks

-----------------------------------------------------------------------------

\* The first boot creates both files empty.
LEMMA InitIInv == Init => IInv
  BY DEF Init, IInv, Quiescent, LogInStep, QueueInStep, CandidateRanks, NoChain,
         NoPending

\* A transfer that passed its checks has written nothing yet.
LEMMA SubmitTransferIInv ==
  ASSUME IInv, NEW t \in Envelopes, SubmitTransfer(t)
  PROVE  IInv'
  BY DEF IInv, Quiescent, LogInStep, QueueInStep, CandidateRanks, SubmitTransfer,
         Idle, disk, memory

\* Neither has a block, and it will extend the chain by itself.
LEMMA SubmitBlockIInv ==
  ASSUME IInv, NEW b \in Blocks, SubmitBlock(b)
  PROVE  IInv'
  <1>1. candidate'.blocks = Append(chain.blocks, b)
    BY DEF SubmitBlock, ChainOf
  <1> QED
    BY <1>1 DEF IInv, Quiescent, LogInStep, QueueInStep, CandidateRanks,
                SubmitBlock, Idle, disk, memory

\* A candidate is published only when it outranks the chain; the file is
\* untouched until the first write.
LEMMA PublishIInv ==
  ASSUME IInv, Idle, NEW next, PublishCandidate(next)
  PROVE  IInv'
  <1>1. step' \in {"write recovery", "write blocks"}
    BY DEF PublishCandidate, FirstReorgWrite
  <1>2. Preferred(candidate'.blocks, chain'.blocks)
    BY DEF PublishCandidate, Outranks, Preferred, memory
  <1>3. UNCHANGED <<block_log, pool_log, torn, up, chain, pending, poisoned>>
    BY DEF PublishCandidate, disk, memory
  <1> QED
    BY <1>1, <1>2, <1>3 DEF IInv, Quiescent, LogInStep, QueueInStep, CandidateRanks, Idle

\* The three ways a chain is offered end in the same publication.
LEMMA AdoptIInv ==
  ASSUME IInv, NEW tip \in Blocks, NEW h,
         AdoptChain(tip) \/ AdoptRecentSuffix(h, tip) \/ AdoptReplayedChain(tip)
  PROVE  IInv'
  <1>1. Idle /\ \E next : PublishCandidate(next)
    BY DEF AdoptChain, AdoptRecentSuffix, AdoptReplayedChain
  <1> QED BY <1>1, PublishIInv

\* Each successful write changes a file and the memory that mirrors it.
LEMMA WriteIInv ==
  ASSUME IInv,
         AppendTransfer \/ AppendBlock \/ WriteRecovery \/ WriteBlocks \/ WritePool
  PROVE  IInv'
  <1> USE DEF IInv, Quiescent, LogInStep, QueueInStep, CandidateRanks
  <1>1. CASE AppendTransfer
    BY <1>1 DEF AppendTransfer, Finish
  <1>2. CASE AppendBlock
    BY <1>2 DEF AppendBlock, Finish
  <1>3. CASE WriteRecovery
    BY <1>3 DEF WriteRecovery, memory, work
  <1>4. CASE WriteBlocks
    BY <1>4 DEF WriteBlocks
  <1>5. CASE WritePool
    BY <1>5 DEF WritePool, Finish
  <1> QED BY <1>1, <1>2, <1>3, <1>4, <1>5

\* A failed write poisons the node and a crash ends it, so that only an open
\* node, which has just read both files, answers again.
LEMMA FaultIInv ==
  ASSUME IInv, WriteFails \/ Crash \/ Open \/ OpenInterrupted
  PROVE  IInv'
  <1> USE DEF IInv, Quiescent, LogInStep, QueueInStep, CandidateRanks
  <1>1. CASE WriteFails
    BY <1>1 DEF WriteFails
  <1>2. CASE Crash
    BY <1>2 DEF Crash
  <1>3. CASE Open
    BY <1>3 DEF Open, ChainOf
  <1>4. CASE OpenInterrupted
    BY <1>4 DEF OpenInterrupted, memory, work
  <1> QED BY <1>1, <1>2, <1>3, <1>4

\* The inductive invariant of the order of writes.
THEOREM WriteOrder == Spec => []IInv
  <1>1. IInv /\ [Next]_vars => IInv'
    <2> SUFFICES ASSUME IInv, [Next]_vars PROVE IInv'
      OBVIOUS
    <2>1. CASE UNCHANGED vars
      BY <2>1 DEF vars, disk, memory, work, IInv, Quiescent, LogInStep, QueueInStep,
                  CandidateRanks
    <2>2. CASE \E t \in Envelopes : SubmitTransfer(t)
      BY <2>2, SubmitTransferIInv
    <2>3. CASE \E b \in Blocks : SubmitBlock(b)
      BY <2>3, SubmitBlockIInv
    <2>4. CASE \/ \E tip \in Blocks : AdoptChain(tip)
               \/ \E tip \in Blocks, h \in 0 .. MaxHistoryBlocks : AdoptRecentSuffix(h, tip)
               \/ \E tip \in Blocks : AdoptReplayedChain(tip)
      BY <2>4, AdoptIInv
    <2>5. CASE AppendTransfer \/ AppendBlock \/ WriteRecovery \/ WriteBlocks \/ WritePool
      BY <2>5, WriteIInv
    <2>6. CASE WriteFails \/ Crash \/ Open \/ OpenInterrupted
      BY <2>6, FaultIInv
    <2> QED BY <2>1, <2>2, <2>3, <2>4, <2>5, <2>6 DEF Next
  <1> QED BY <1>1, InitIInv, PTL DEF Spec


-----------------------------------------------------------------------------
(* What the publications keep true.                                        *)

\* Both files are accepted at the next boot, which finds one promise.
FilesSound ==
    /\ Stored(block_log) /\ Restorable(pool_log) /\ torn \subseteq Files
    /\ Promise(block_log, Kept(block_log, pool_log).transfers) \in {old, new}

\* The chain in memory is valid, and so are its index and its undo window.
ChainExact ==
    /\ Stored(chain.blocks) /\ confirmed = ConfirmedIndex(chain.blocks)
    /\ chain \in ChainType /\ chain.floor <= Len(chain.blocks)
    /\ Len(chain.blocks) - chain.floor <= RecentForkBlocks

\* So is the chain a publication ends with.
CandidateExact ==
    /\ candidate \in ChainType /\ candidate.floor <= Len(candidate.blocks)
    /\ Len(candidate.blocks) - candidate.floor <= RecentForkBlocks
    /\ step \in {"append block", "write recovery", "write blocks"} => Stored(candidate.blocks)

\* The types of the rest.
Shapes ==
    /\ up \in BOOLEAN /\ poisoned \in BOOLEAN /\ step \in Steps
    /\ Fits(pending) /\ Fits(retained) /\ recovery \in Seq(Envelopes)
    /\ old \in PromiseType /\ new \in PromiseType

\* Until its last write, a publication leaves in memory what a restart derives.
QueueExact ==
    up /\ ~ poisoned /\ step # "write pool" =>
        /\ pending = Kept(chain.blocks, pending.transfers)
        /\ old = Promise(chain.blocks, pending.transfers)

\* A transfer to append ends with the queue a restart derives.
TransferOutcome ==
    step = "append transfer" =>
        /\ retained = Kept(chain.blocks, retained.transfers)
        /\ new = Promise(chain.blocks, retained.transfers)

\* So does a block.
BlockOutcome ==
    step = "append block" =>
        /\ retained = Kept(candidate.blocks, pending.transfers)
        /\ new = Promise(candidate.blocks, retained.transfers)

\* A reorganisation keeps the queue on the old chain as long as that stands, and
\* ends with what the new chain leaves of the union.
ReorgOutcome ==
    /\ step \in {"write recovery", "write blocks"} =>
          /\ Restorable(recovery)
          /\ Kept(chain.blocks, recovery) = pending
          /\ retained = Kept(candidate.blocks, recovery)
          /\ new = Promise(candidate.blocks, retained.transfers)
    /\ step = "write blocks" => pool_log = recovery

\* The last write leaves of the file what a restart would.
PoolOutcome ==
    step = "write pool" =>
        /\ retained = Kept(chain.blocks, pool_log)
        /\ new = Promise(chain.blocks, retained.transfers)

NodeInv ==
    /\ IInv /\ FilesSound /\ ChainExact /\ CandidateExact /\ Shapes /\ QueueExact
    /\ TransferOutcome /\ BlockOutcome /\ ReorgOutcome /\ PoolOutcome

\* The types of a promise.
LEMMA PromiseTyped ==
    ASSUME NEW c \in Seq(Blocks), NEW q \in Seq(Envelopes)
    PROVE  Promise(c, q) \in PromiseType
  BY DEF Promise, PromiseType

\* A pending state that fits has a queue of transfers.
LEMMA FitsQueue ==
    ASSUME NEW r, Fits(r)
    PROVE  r.transfers \in Seq(Envelopes) /\ Len(r.transfers) \in Nat
  BY DEF Fits, PendingType

\* The first boot.
LEMMA InitNodeInv == Init => NodeInv
  <1> SUFFICES ASSUME Init PROVE NodeInv
    OBVIOUS
  <1>1. /\ block_log = <<>> /\ pool_log = <<>> /\ torn = {}
        /\ up = TRUE /\ poisoned = FALSE /\ step = "none"
        /\ chain = NoChain /\ pending = NoPending /\ confirmed = {}
        /\ candidate = NoChain /\ recovery = <<>> /\ retained = NoPending
        /\ old = Promise(<<>>, <<>>) /\ new = Promise(<<>>, <<>>)
    BY DEF Init
  <1>2. /\ NoChain \in ChainType /\ NoChain.blocks = <<>> /\ NoChain.floor = 0
        /\ Len(NoChain.blocks) = 0
    BY DEF NoChain, ChainType
  <1>3. <<>> \in Seq(Envelopes) /\ <<>> \in Seq(Blocks)
    OBVIOUS
  <1>4. Fits(NoPending)
    BY <1>3, KeptNothing, KeptFits
  <1>5. Promise(<<>>, <<>>) \in PromiseType
    BY <1>3, PromiseTyped
  <1>6. FilesSound
    BY <1>1, KeptNothing DEF FilesSound
  <1>7. ChainExact
    BY <1>1, <1>2, KeptNothing, ForkAssumption DEF ChainExact
  <1>8. CandidateExact
    BY <1>1, <1>2, ForkAssumption DEF CandidateExact
  <1>9. Shapes
    BY <1>1, <1>3, <1>4, <1>5 DEF Shapes, Steps
  <1>10. QueueExact
    BY <1>1, <1>2, KeptNothing DEF QueueExact
  <1>11. TransferOutcome /\ BlockOutcome /\ ReorgOutcome /\ PoolOutcome
    BY <1>1 DEF TransferOutcome, BlockOutcome, ReorgOutcome, PoolOutcome
  <1> QED BY <1>6, <1>7, <1>8, <1>9, <1>10, <1>11, InitIInv DEF NodeInv

\* A transfer that passed its checks extends the queue a restart derives.
LEMMA SubmitTransferKeeps ==
    ASSUME NodeInv, NEW t \in Envelopes, SubmitTransfer(t)
    PROVE  NodeInv'
  <1> DEFINE c == chain.blocks
  <1>1. /\ up /\ ~ poisoned /\ step = "none" /\ step' = "append transfer"
        /\ retained' = [transfers |-> Append(pending.transfers, t),
                        view      |-> PushPending(pending.view, t)]
        /\ new' = Promise(c, retained'.transfers)
        /\ ~ IsConfirmed(confirmed, t) /\ ~ Contains(pending.transfers, t)
        /\ Len(pending.transfers) < MaxPendingTransfers
        /\ PushPending(pending.view, t) # None
        /\ UNCHANGED <<block_log, pool_log, torn, up, chain, pending, confirmed, poisoned,
                       candidate, recovery, old>>
    BY DEF SubmitTransfer, Idle, disk, memory
  <1>2. Stored(c) /\ confirmed = ConfirmedIndex(c) /\ c \in Seq(Blocks)
    BY DEF NodeInv, ChainExact, Stored
  <1>3. /\ pending = Kept(c, pending.transfers) /\ old = Promise(c, pending.transfers)
        /\ Fits(pending) /\ pending.transfers \in Seq(Envelopes)
        /\ Len(pending.transfers) \in Nat
    BY <1>1, FitsQueue DEF NodeInv, QueueExact, Shapes
  <1>4. retained'.transfers \in Seq(Envelopes) /\ retained' = Kept(c, retained'.transfers)
    <2>1. Len(pending.transfers) # MaxPendingTransfers
      <3> DEFINE n == Len(pending.transfers)
      <3>1. n \in Nat /\ n < MaxPendingTransfers
        BY <1>1, <1>3
      <3> HIDE DEF n
      <3>2. n # MaxPendingTransfers
        BY <3>1, NodeAssumption
      <3> QED BY <3>2 DEF n
    <2> HIDE DEF c
    <2> QED BY <1>1, <1>2, <1>3, <2>1, KeptNext
  <1>5. Fits(retained')
    BY <1>2, <1>4, KeptFits
  <1>6. block_log = c /\ pool_log = pending.transfers
    BY <1>1 DEF NodeInv, IInv, LogInStep, QueueInStep
  <1>7. FilesSound'
    <2>1. Promise(c, Kept(c, pool_log).transfers) = old
      BY <1>3, <1>6
    <2> HIDE DEF c
    <2> QED BY <1>1, <1>6, <2>1 DEF NodeInv, FilesSound
  <1>8. ChainExact' /\ CandidateExact'
    BY <1>1 DEF NodeInv, ChainExact, CandidateExact
  <1>9. Shapes'
    <2>1. new' \in PromiseType
      BY <1>1, <1>2, <1>4, PromiseTyped
    <2> QED BY <1>1, <1>5, <2>1 DEF NodeInv, Shapes, Steps
  <1>10. QueueExact' /\ TransferOutcome'
    BY <1>1, <1>3, <1>4 DEF QueueExact, TransferOutcome
  <1>11. BlockOutcome' /\ ReorgOutcome' /\ PoolOutcome'
    BY <1>1 DEF BlockOutcome, ReorgOutcome, PoolOutcome
  <1>12. IInv'
    BY SubmitTransferIInv DEF NodeInv
  <1> QED BY <1>7, <1>8, <1>9, <1>10, <1>11, <1>12 DEF NodeInv

\* A block that extends the head ends with what its chain leaves of the queue.
LEMMA SubmitBlockKeeps ==
    ASSUME NodeInv, NEW b \in Blocks, SubmitBlock(b)
    PROVE  NodeInv'
  <1> DEFINE c == chain.blocks
             d == Append(c, b)
             i == confirmed \cup IndexAbove(d, Len(c))
  <1>1. /\ up /\ ~ poisoned /\ step = "none" /\ step' = "append block"
        /\ Len(c) < MaxHistoryBlocks /\ Extends(c, b)
        /\ candidate' = ChainOf(d, chain.floor)
        /\ retained' = RetainPending(d, i, pending.transfers)
        /\ new' = Promise(d, retained'.transfers)
        /\ UNCHANGED <<block_log, pool_log, torn, up, chain, pending, confirmed, poisoned,
                       recovery, old>>
    BY DEF SubmitBlock, Idle, disk, memory
  <1>2. /\ Stored(c) /\ confirmed = ConfirmedIndex(c) /\ c \in Seq(Blocks)
        /\ chain.floor \in Nat /\ chain.floor <= Len(c)
    BY DEF NodeInv, ChainExact, Stored, ChainType
  <1>3. /\ pending = Kept(c, pending.transfers) /\ old = Promise(c, pending.transfers)
        /\ pending.transfers \in Seq(Envelopes)
    BY <1>1, FitsQueue DEF NodeInv, QueueExact, Shapes
  <1>4. Stored(d) /\ i = ConfirmedIndex(d)
    BY <1>1, <1>2, StoredNext
  <1>5. d \in Seq(Blocks) /\ chain.floor <= Len(d)
    <2>1. Len(d) = Len(c) + 1 /\ Len(c) \in Nat /\ d \in Seq(Blocks)
      BY <1>2
    <2> HIDE DEF c, d
    <2> QED BY <1>2, <2>1
  <1> HIDE DEF d, i
  <1>6. retained' = Kept(d, pending.transfers)
    BY <1>1, <1>4 DEF Kept
  <1>7. Fits(retained') /\ retained'.transfers \in Seq(Envelopes)
    BY <1>3, <1>4, <1>6, KeptFits, FitsQueue
  <1>8. /\ candidate' \in ChainType /\ candidate'.blocks = d
        /\ candidate'.floor <= Len(d) /\ Len(d) - candidate'.floor <= RecentForkBlocks
    BY <1>1, <1>2, <1>5, FloorBounds
  <1>9. block_log = c /\ pool_log = pending.transfers
    BY <1>1 DEF NodeInv, IInv, LogInStep, QueueInStep
  <1>10. FilesSound'
    <2>1. Promise(c, Kept(c, pool_log).transfers) = old
      BY <1>3, <1>9
    <2> HIDE DEF c
    <2> QED BY <1>1, <1>9, <2>1 DEF NodeInv, FilesSound
  <1>11. ChainExact' /\ CandidateExact'
    BY <1>1, <1>4, <1>8 DEF NodeInv, ChainExact, CandidateExact
  <1>12. Shapes'
    <2>1. new' \in PromiseType
      BY <1>1, <1>5, <1>7, PromiseTyped
    <2> QED BY <1>1, <1>7, <2>1 DEF NodeInv, Shapes, Steps
  <1>13. QueueExact' /\ BlockOutcome'
    BY <1>1, <1>3, <1>6, <1>8 DEF QueueExact, BlockOutcome
  <1>14. TransferOutcome' /\ ReorgOutcome' /\ PoolOutcome'
    BY <1>1 DEF TransferOutcome, ReorgOutcome, PoolOutcome
  <1>15. IInv'
    BY SubmitBlockIInv DEF NodeInv
  <1> QED BY <1>10, <1>11, <1>12, <1>13, <1>14, <1>15 DEF NodeInv

\* A publication saves a union that covers both chains.
LEMMA PublishKeeps ==
    ASSUME NodeInv, Idle, NEW c \in Seq(Blocks), IsChain(c), Len(c) <= MaxHistoryBlocks,
           NEW f \in Nat, f <= Len(c), PublishCandidate(ChainOf(c, f))
    PROVE  NodeInv'
  <1> DEFINE p == chain.blocks
             k == CommonPrefixLen(p, c)
             i == ReorgIndex(confirmed, k, c)
             u == Union(p, c, pending.transfers)
  <1>1. /\ ChainOf(c, f) \in ChainType /\ ChainOf(c, f).blocks = c
        /\ ChainOf(c, f).floor <= Len(c)
        /\ Len(c) - ChainOf(c, f).floor <= RecentForkBlocks
    BY FloorBounds
  <1>2. /\ Stored(p) /\ confirmed = ConfirmedIndex(p) /\ p \in Seq(Blocks)
    BY DEF NodeInv, ChainExact, Stored
  <1>3. i = ConfirmedIndex(c)
    BY <1>2, ReorgExact
  <1>4. up /\ ~ poisoned /\ step = "none"
    BY DEF Idle
  <1>5. /\ candidate' = ChainOf(c, f) /\ recovery' = u
        /\ retained' = RetainPending(c, i, u)
        /\ step' = FirstReorgWrite(u, pending.transfers)
        /\ new' = Promise(c, retained'.transfers)
        /\ UNCHANGED <<block_log, pool_log, torn, up, chain, pending, confirmed, poisoned, old>>
    <2> HIDE DEF ChainOf
    <2> QED BY <1>1, <1>3 DEF PublishCandidate, Union, disk, memory
  <1>6. /\ pending = Kept(p, pending.transfers) /\ old = Promise(p, pending.transfers)
        /\ pending.transfers \in Seq(Envelopes)
    BY <1>4, FitsQueue DEF NodeInv, QueueExact, Shapes
  <1>7. block_log = p /\ pool_log = pending.transfers
    BY <1>4 DEF NodeInv, IInv, LogInStep, QueueInStep
  <1>8. Restorable(pending.transfers)
    BY <1>7 DEF NodeInv, FilesSound
  <1>9. Stored(c)
    BY DEF Stored
  <1>10. Restorable(u) /\ Kept(p, u) = pending
    BY <1>2, <1>6, <1>8, UnionKept
  <1>11. u \in Seq(Envelopes)
    BY <1>10 DEF Restorable
  <1> HIDE DEF u, i
  <1>12. retained' = Kept(c, u)
    BY <1>3, <1>5 DEF Kept
  <1>13. Fits(retained') /\ retained'.transfers \in Seq(Envelopes)
    BY <1>9, <1>11, <1>12, KeptFits, FitsQueue
  <1>14. /\ step' \in {"write recovery", "write blocks"}
         /\ step' = "write blocks" => pool_log' = recovery'
    BY <1>5, <1>7 DEF FirstReorgWrite
  <1>15. FilesSound'
    <2>1. Promise(p, Kept(p, pool_log).transfers) = old
      BY <1>6, <1>7
    <2> HIDE DEF p
    <2> QED BY <1>5, <1>7, <2>1 DEF NodeInv, FilesSound
  <1>16. ChainExact' /\ CandidateExact'
    BY <1>1, <1>5, <1>9 DEF NodeInv, ChainExact, CandidateExact
  <1>17. Shapes'
    <2>1. new' \in PromiseType
      BY <1>5, <1>13, PromiseTyped
    <2>2. recovery' \in Seq(Envelopes) /\ step' \in Steps
      BY <1>5, <1>11, <1>14 DEF Steps
    <2> QED BY <1>5, <1>13, <2>1, <2>2 DEF NodeInv, Shapes
  <1>18. QueueExact'
    BY <1>5, <1>6 DEF QueueExact
  <1>19. ReorgOutcome'
    BY <1>1, <1>5, <1>10, <1>12, <1>14 DEF ReorgOutcome
  <1>20. TransferOutcome' /\ BlockOutcome' /\ PoolOutcome'
    BY <1>14 DEF TransferOutcome, BlockOutcome, PoolOutcome
  <1>21. IInv'
    BY PublishIInv DEF NodeInv
  <1> QED BY <1>15, <1>16, <1>17, <1>18, <1>19, <1>20, <1>21 DEF NodeInv

\* However a chain is offered, its undo window starts below its head.
LEMMA AdoptKeeps ==
    ASSUME NodeInv, NEW tip \in Blocks, NEW h \in Nat,
           AdoptChain(tip) \/ AdoptRecentSuffix(h, tip) \/ AdoptReplayedChain(tip)
    PROVE  NodeInv'
  <1> DEFINE c == ChainTo[tip]
             k == CommonPrefixLen(chain.blocks, c)
  <1>1. c \in Seq(Blocks) /\ Len(c) \in Nat
    <2>1. c \in Seq(Blocks)
      BY AncestryAssumption DEF Heads
    <2> HIDE DEF c
    <2> QED BY <2>1
  <1>2. chain.floor \in Nat /\ chain.blocks \in Seq(Blocks)
    BY DEF NodeInv, ChainExact, ChainType
  <1>3. k \in Nat /\ k <= Len(c)
    BY <1>1, <1>2, CommonPrefix
  <1>4. Idle /\ IsChain(c) /\ Len(c) <= MaxHistoryBlocks
    BY DEF AdoptChain, AdoptRecentSuffix, AdoptReplayedChain
  <1>5. \E f \in Nat : f <= Len(c) /\ PublishCandidate(ChainOf(c, f))
    <2> HIDE DEF PublishCandidate, ChainOf
    <2>1. CASE AdoptChain(tip)
      <3> DEFINE f == IF k >= chain.floor THEN chain.floor ELSE 0
      <3>1. PublishCandidate(ChainOf(c, f))
        BY <2>1 DEF AdoptChain
      <3>2. f \in Nat /\ f <= Len(c)
        <4> HIDE DEF c, k
        <4> QED BY <1>1, <1>2, <1>3
      <3> HIDE DEF f, c
      <3> QED BY <3>1, <3>2
    <2>2. CASE AdoptRecentSuffix(h, tip)
      <3>1. PublishCandidate(ChainOf(c, chain.floor)) /\ chain.floor <= h /\ h < Len(c)
        BY <2>2 DEF AdoptRecentSuffix
      <3> HIDE DEF c
      <3>2. chain.floor <= Len(c)
        BY <1>1, <1>2, <3>1
      <3> QED BY <1>2, <3>1, <3>2
    <2>3. CASE AdoptReplayedChain(tip)
      <3>1. PublishCandidate(ChainOf(c, 0))
        BY <2>3 DEF AdoptReplayedChain
      <3> HIDE DEF c
      <3> QED BY <1>1, <3>1
    <2> QED BY <2>1, <2>2, <2>3
  <1> HIDE DEF c
  <1> QED BY <1>1, <1>4, <1>5, PublishKeeps

\* A transfer whose line is durable is in the queue.
LEMMA AppendTransferKeeps ==
    ASSUME NodeInv, AppendTransfer
    PROVE  NodeInv'
  <1>1. /\ up /\ step = "append transfer" /\ step' = "none" /\ old' = new
        /\ pool_log' = retained.transfers /\ pending' = retained
        /\ UNCHANGED <<block_log, torn, chain, confirmed, up, poisoned, candidate, recovery,
                       retained, new>>
    BY DEF AppendTransfer, Finish, work
  <1>2. ~ poisoned /\ block_log = chain.blocks
    BY <1>1 DEF NodeInv, IInv, Quiescent, LogInStep
  <1>3. /\ retained = Kept(chain.blocks, retained.transfers)
        /\ new = Promise(chain.blocks, retained.transfers)
        /\ Fits(retained) /\ retained.transfers \in Seq(Envelopes)
    BY <1>1, FitsQueue DEF NodeInv, TransferOutcome, Shapes
  <1>4. Stored(chain.blocks)
    BY DEF NodeInv, ChainExact
  <1>5. Restorable(retained.transfers)
    BY <1>3, <1>4, KeptFits
  <1>6. FilesSound'
    BY <1>1, <1>2, <1>3, <1>4, <1>5 DEF NodeInv, FilesSound
  <1>7. ChainExact' /\ CandidateExact'
    BY <1>1 DEF NodeInv, ChainExact, CandidateExact
  <1>8. Shapes'
    BY <1>1 DEF NodeInv, Shapes, Steps
  <1>9. QueueExact'
    BY <1>1, <1>3 DEF QueueExact
  <1>10. TransferOutcome' /\ BlockOutcome' /\ ReorgOutcome' /\ PoolOutcome'
    BY <1>1 DEF TransferOutcome, BlockOutcome, ReorgOutcome, PoolOutcome
  <1>11. IInv'
    BY WriteIInv DEF NodeInv
  <1> QED BY <1>6, <1>7, <1>8, <1>9, <1>10, <1>11 DEF NodeInv

\* A block whose line is durable is the head; the queue file follows, when the
\* block changed the queue.
LEMMA AppendBlockKeeps ==
    ASSUME NodeInv, AppendBlock
    PROVE  NodeInv'
  <1> DEFINE d == candidate.blocks
  <1>1. /\ up /\ step = "append block" /\ block_log' = d /\ chain' = candidate
        /\ confirmed' = confirmed \cup IndexAbove(d, Len(chain.blocks))
        /\ UNCHANGED <<pool_log, torn, up, poisoned, candidate, recovery, retained, new>>
    BY DEF AppendBlock, Finish, work
  <1>2. \/ step' = "write pool" /\ UNCHANGED <<pending, old>>
        \/ /\ step' = "none" /\ pending' = retained /\ old' = new
           /\ retained.transfers = pending.transfers
    BY DEF AppendBlock, Finish, work
  <1>3. ~ poisoned /\ pool_log = pending.transfers
    BY <1>1 DEF NodeInv, IInv, Quiescent, QueueInStep
  <1>4. /\ retained = Kept(d, pending.transfers) /\ new = Promise(d, retained.transfers)
        /\ Stored(d) /\ Fits(retained) /\ pending.transfers \in Seq(Envelopes)
        /\ old \in PromiseType /\ new \in PromiseType /\ Fits(pending)
    BY <1>1, FitsQueue DEF NodeInv, BlockOutcome, CandidateExact, Shapes
  <1>5. confirmed' = ConfirmedIndex(d)
    <2>1. PICK b \in Blocks : d = Append(chain.blocks, b)
      BY <1>1 DEF NodeInv, IInv, CandidateRanks
    <2>2. chain.blocks \in Seq(Blocks) /\ confirmed = ConfirmedIndex(chain.blocks)
      BY DEF NodeInv, ChainExact, Stored
    <2> HIDE DEF d
    <2> QED BY <1>1, <2>1, <2>2, IndexSteps
  <1>6. FilesSound'
    <2>1. Promise(d, Kept(d, pool_log).transfers) = new
      BY <1>3, <1>4
    <2> HIDE DEF d
    <2> QED BY <1>1, <1>4, <2>1 DEF NodeInv, FilesSound
  <1>7. ChainExact' /\ CandidateExact'
    BY <1>1, <1>2, <1>4, <1>5 DEF NodeInv, ChainExact, CandidateExact
  <1>8. Shapes'
    BY <1>1, <1>2, <1>4 DEF NodeInv, Shapes, Steps
  <1>9. QueueExact'
    BY <1>1, <1>2, <1>4 DEF QueueExact
  <1>10. TransferOutcome' /\ BlockOutcome' /\ ReorgOutcome'
    BY <1>2 DEF TransferOutcome, BlockOutcome, ReorgOutcome
  <1>11. PoolOutcome'
    BY <1>1, <1>2, <1>3, <1>4 DEF PoolOutcome
  <1>12. IInv'
    BY WriteIInv DEF NodeInv
  <1> QED BY <1>6, <1>7, <1>8, <1>9, <1>10, <1>11, <1>12 DEF NodeInv

\* The saved union changes nothing as long as the old chain stands.
LEMMA WriteRecoveryKeeps ==
    ASSUME NodeInv, WriteRecovery
    PROVE  NodeInv'
  <1>1. /\ up /\ step = "write recovery" /\ step' = "write blocks" /\ pool_log' = recovery
        /\ UNCHANGED <<block_log, torn, up, chain, pending, confirmed, poisoned, candidate,
                       recovery, retained, old, new>>
    BY DEF WriteRecovery, memory, work
  <1>2. ~ poisoned /\ block_log = chain.blocks
    BY <1>1 DEF NodeInv, IInv, Quiescent, LogInStep
  <1>3. /\ Restorable(recovery) /\ Kept(chain.blocks, recovery) = pending
        /\ old = Promise(chain.blocks, pending.transfers)
    BY <1>1, <1>2 DEF NodeInv, ReorgOutcome, QueueExact
  <1>4. FilesSound'
    BY <1>1, <1>2, <1>3 DEF NodeInv, FilesSound
  <1>5. ChainExact' /\ CandidateExact'
    BY <1>1 DEF NodeInv, ChainExact, CandidateExact
  <1>6. Shapes'
    BY <1>1 DEF NodeInv, Shapes, Steps
  <1>7. QueueExact'
    BY <1>1 DEF NodeInv, QueueExact
  <1>8. ReorgOutcome'
    BY <1>1 DEF NodeInv, ReorgOutcome
  <1>9. TransferOutcome' /\ BlockOutcome' /\ PoolOutcome'
    BY <1>1 DEF TransferOutcome, BlockOutcome, PoolOutcome
  <1>10. IInv'
    BY WriteIInv DEF NodeInv
  <1> QED BY <1>4, <1>5, <1>6, <1>7, <1>8, <1>9, <1>10 DEF NodeInv

\* The replaced log is what makes the reorganisation happen.
LEMMA WriteBlocksKeeps ==
    ASSUME NodeInv, WriteBlocks
    PROVE  NodeInv'
  <1> DEFINE d == candidate.blocks
  <1>1. /\ up /\ step = "write blocks" /\ step' = "write pool" /\ block_log' = d
        /\ chain' = candidate
        /\ confirmed' = ReorgIndex(confirmed, CommonPrefixLen(chain.blocks, d), d)
        /\ UNCHANGED <<pool_log, torn, up, pending, poisoned, candidate, recovery,
                       retained, old, new>>
    BY DEF WriteBlocks, work
  <1>2. /\ retained = Kept(d, recovery) /\ new = Promise(d, retained.transfers)
        /\ pool_log = recovery /\ Stored(d)
    BY <1>1 DEF NodeInv, ReorgOutcome, CandidateExact
  <1>3. confirmed' = ConfirmedIndex(d)
    <2>1. chain.blocks \in Seq(Blocks) /\ confirmed = ConfirmedIndex(chain.blocks)
      BY DEF NodeInv, ChainExact, Stored
    <2>2. d \in Seq(Blocks)
      BY <1>2 DEF Stored
    <2> HIDE DEF d
    <2> QED BY <1>1, <2>1, <2>2, ReorgExact
  <1>4. FilesSound'
    <2> HIDE DEF d
    <2> QED BY <1>1, <1>2 DEF NodeInv, FilesSound
  <1>5. ChainExact' /\ CandidateExact'
    BY <1>1, <1>2, <1>3 DEF NodeInv, ChainExact, CandidateExact
  <1>6. Shapes'
    BY <1>1 DEF NodeInv, Shapes, Steps
  <1>7. QueueExact' /\ TransferOutcome' /\ BlockOutcome' /\ ReorgOutcome'
    BY <1>1 DEF QueueExact, TransferOutcome, BlockOutcome, ReorgOutcome
  <1>8. PoolOutcome'
    BY <1>1, <1>2 DEF PoolOutcome
  <1>9. IInv'
    BY WriteIInv DEF NodeInv
  <1> QED BY <1>4, <1>5, <1>6, <1>7, <1>8, <1>9 DEF NodeInv

\* What the last write leaves in the file is kept as it is.
LEMMA PoolWritten ==
    ASSUME NodeInv, step = "write pool"
    PROVE  /\ Restorable(retained.transfers) /\ retained.transfers \in Seq(Envelopes)
           /\ retained = Kept(chain.blocks, retained.transfers)
           /\ new = Promise(chain.blocks, retained.transfers)
  <1>1. /\ retained = Kept(chain.blocks, pool_log)
        /\ new = Promise(chain.blocks, retained.transfers)
        /\ Stored(chain.blocks) /\ pool_log \in Seq(Envelopes)
    BY DEF NodeInv, PoolOutcome, ChainExact, FilesSound, Restorable
  <1>2. Kept(chain.blocks, Kept(chain.blocks, pool_log).transfers) = Kept(chain.blocks, pool_log)
    BY <1>1, KeptAgain
  <1>3. Restorable(Kept(chain.blocks, pool_log).transfers)
    BY <1>1, KeptFits
  <1> QED BY <1>1, <1>2, <1>3 DEF Restorable

\* The last write ends the publication.
LEMMA WritePoolKeeps ==
    ASSUME NodeInv, WritePool
    PROVE  NodeInv'
  <1>1. /\ up /\ step = "write pool" /\ step' = "none" /\ old' = new
        /\ pool_log' = retained.transfers /\ pending' = retained
        /\ UNCHANGED <<block_log, torn, chain, confirmed, up, poisoned, candidate, recovery,
                       retained, new>>
    BY DEF WritePool, Finish, work
  <1>2. ~ poisoned /\ block_log = chain.blocks
    BY <1>1 DEF NodeInv, IInv, Quiescent, LogInStep
  <1>3. /\ Restorable(retained.transfers)
        /\ retained = Kept(chain.blocks, retained.transfers)
        /\ new = Promise(chain.blocks, retained.transfers)
    BY <1>1, PoolWritten
  <1>4. FilesSound'
    BY <1>1, <1>2, <1>3 DEF NodeInv, FilesSound
  <1>5. ChainExact' /\ CandidateExact'
    BY <1>1 DEF NodeInv, ChainExact, CandidateExact
  <1>6. Shapes'
    BY <1>1 DEF NodeInv, Shapes, Steps
  <1>7. QueueExact'
    BY <1>1, <1>3 DEF QueueExact
  <1>8. TransferOutcome' /\ BlockOutcome' /\ ReorgOutcome' /\ PoolOutcome'
    BY <1>1 DEF TransferOutcome, BlockOutcome, ReorgOutcome, PoolOutcome
  <1>9. IInv'
    BY WriteIInv DEF NodeInv
  <1> QED BY <1>4, <1>5, <1>6, <1>7, <1>8, <1>9 DEF NodeInv

-----------------------------------------------------------------------------
(* Failures.                                                               *)

\* Whatever an unsuccessful write leaves, the next boot finds the promise before
\* or the promise after the publication.
LEMMA LeavesSound ==
    ASSUME NodeInv, up, WriteLeaves, UNCHANGED <<old, new>>
    PROVE  FilesSound'
  <1>1. step # "none"
    BY DEF WriteLeaves
  <1>2. ~ poisoned /\ block_log = chain.blocks /\ FilesSound /\ Stored(chain.blocks)
    BY <1>1 DEF NodeInv, IInv, Quiescent, LogInStep, ChainExact
  <1>3. CASE UNCHANGED <<block_log, pool_log>> /\ torn' \subseteq Files
    BY <1>2, <1>3 DEF FilesSound
  <1>4. CASE /\ step = "append block" /\ block_log' = candidate.blocks
            /\ UNCHANGED <<pool_log, torn>>
    <2>1. pool_log = pending.transfers
      BY <1>2, <1>4 DEF NodeInv, IInv, QueueInStep
    <2>2. /\ retained = Kept(candidate.blocks, pending.transfers)
          /\ new = Promise(candidate.blocks, retained.transfers) /\ Stored(candidate.blocks)
      BY <1>4 DEF NodeInv, BlockOutcome, CandidateExact
    <2> QED BY <1>2, <1>4, <2>1, <2>2 DEF FilesSound
  <1>5. CASE /\ step = "append transfer" /\ pool_log' = retained.transfers
            /\ UNCHANGED <<block_log, torn>>
    <2>1. /\ retained = Kept(chain.blocks, retained.transfers)
          /\ new = Promise(chain.blocks, retained.transfers)
          /\ retained.transfers \in Seq(Envelopes)
      BY <1>5, FitsQueue DEF NodeInv, TransferOutcome, Shapes
    <2>2. Restorable(retained.transfers)
      BY <1>2, <2>1, KeptFits
    <2> QED BY <1>2, <1>5, <2>1, <2>2 DEF FilesSound
  <1>6. CASE /\ step = "write blocks" /\ block_log' = candidate.blocks
            /\ UNCHANGED <<pool_log, torn>>
    <2>1. /\ retained = Kept(candidate.blocks, recovery) /\ pool_log = recovery
          /\ new = Promise(candidate.blocks, retained.transfers) /\ Stored(candidate.blocks)
      BY <1>6 DEF NodeInv, ReorgOutcome, CandidateExact
    <2> QED BY <1>2, <1>6, <2>1 DEF FilesSound
  <1>7. CASE /\ step = "write recovery" /\ pool_log' = recovery
            /\ UNCHANGED <<block_log, torn>>
    <2>1. /\ Restorable(recovery) /\ Kept(chain.blocks, recovery) = pending
          /\ old = Promise(chain.blocks, pending.transfers)
      BY <1>2, <1>7 DEF NodeInv, ReorgOutcome, QueueExact
    <2> QED BY <1>2, <1>7, <2>1 DEF FilesSound
  <1>8. CASE /\ step = "write pool" /\ pool_log' = retained.transfers
            /\ UNCHANGED <<block_log, torn>>
    <2>1. /\ Restorable(retained.transfers)
          /\ retained = Kept(chain.blocks, retained.transfers)
          /\ new = Promise(chain.blocks, retained.transfers)
      BY <1>8, PoolWritten
    <2> QED BY <1>2, <1>8, <2>1 DEF FilesSound
  <1>9. torn \subseteq Files
    BY <1>2 DEF FilesSound
  <1> QED
    BY <1>3, <1>4, <1>5, <1>6, <1>7, <1>8, <1>9
       DEF WriteLeaves, AppendLeaves, ReplaceLeaves, disk, Files

\* A failed write poisons the node.
LEMMA WriteFailsKeeps ==
    ASSUME NodeInv, WriteFails
    PROVE  NodeInv'
  <1>1. /\ up /\ WriteLeaves /\ step' = "none" /\ poisoned' = TRUE
        /\ UNCHANGED <<up, chain, pending, confirmed, candidate, recovery, retained, old, new>>
    BY DEF WriteFails, memory, work
  <1>2. FilesSound'
    BY <1>1, LeavesSound
  <1>3. ChainExact' /\ CandidateExact'
    BY <1>1 DEF NodeInv, ChainExact, CandidateExact
  <1>4. Shapes'
    BY <1>1 DEF NodeInv, Shapes, Steps
  <1>5. QueueExact' /\ TransferOutcome' /\ BlockOutcome' /\ ReorgOutcome' /\ PoolOutcome'
    BY <1>1 DEF QueueExact, TransferOutcome, BlockOutcome, ReorgOutcome, PoolOutcome
  <1>6. IInv'
    BY FaultIInv DEF NodeInv
  <1> QED BY <1>2, <1>3, <1>4, <1>5, <1>6 DEF NodeInv

\* The process ends.
LEMMA CrashKeeps ==
    ASSUME NodeInv, Crash
    PROVE  NodeInv'
  <1>1. /\ up /\ (UNCHANGED disk \/ WriteLeaves) /\ up' = FALSE /\ poisoned' = FALSE
        /\ step' = "none" /\ chain' = NoChain /\ pending' = NoPending /\ confirmed' = {}
        /\ candidate' = NoChain /\ recovery' = <<>> /\ retained' = NoPending
        /\ UNCHANGED <<old, new>>
    BY DEF Crash
  <1>2. FilesSound'
    <2>1. CASE UNCHANGED disk
      BY <1>1, <2>1 DEF NodeInv, FilesSound, disk
    <2> QED BY <1>1, <2>1, LeavesSound
  <1>3. /\ NoChain \in ChainType /\ NoChain.blocks = <<>> /\ NoChain.floor = 0
        /\ Len(NoChain.blocks) = 0
    BY DEF NoChain, ChainType
  <1>4. <<>> \in Seq(Envelopes)
    OBVIOUS
  <1>5. Fits(NoPending)
    BY <1>4, KeptNothing, KeptFits
  <1>6. ChainExact' /\ CandidateExact'
    BY <1>1, <1>3, KeptNothing, ForkAssumption DEF ChainExact, CandidateExact
  <1>7. Shapes'
    BY <1>1, <1>4, <1>5 DEF NodeInv, Shapes, Steps
  <1>8. QueueExact' /\ TransferOutcome' /\ BlockOutcome' /\ ReorgOutcome' /\ PoolOutcome'
    BY <1>1 DEF QueueExact, TransferOutcome, BlockOutcome, ReorgOutcome, PoolOutcome
  <1>9. IInv'
    BY FaultIInv DEF NodeInv
  <1> QED BY <1>2, <1>6, <1>7, <1>8, <1>9 DEF NodeInv

\* A restart reads both files and keeps of the queue what still applies.
LEMMA OpenKeeps ==
    ASSUME NodeInv, Open
    PROVE  NodeInv'
  <1> DEFINE r == Kept(block_log, pool_log)
  <1>1. /\ ~ up /\ chain' = ChainOf(block_log, 0) /\ confirmed' = ConfirmedIndex(block_log)
        /\ pending' = r /\ pool_log' = r.transfers
        /\ old' = Promise(block_log, r.transfers) /\ new' = old'
        /\ torn' = {} /\ up' = TRUE
        /\ UNCHANGED <<block_log, poisoned, step, candidate, recovery, retained>>
    BY DEF Open, Kept, work
  <1>2. Stored(block_log) /\ pool_log \in Seq(Envelopes) /\ block_log \in Seq(Blocks)
    BY DEF NodeInv, FilesSound, Restorable, Stored
  <1>3. Fits(r) /\ Restorable(r.transfers) /\ Kept(block_log, r.transfers) = r
    BY <1>2, KeptFits, KeptAgain
  <1> HIDE DEF r
  <1>4. /\ chain' \in ChainType /\ chain'.blocks = block_log
        /\ chain'.floor <= Len(block_log)
        /\ Len(block_log) - chain'.floor <= RecentForkBlocks
    <2>1. 0 \in Nat /\ 0 <= Len(block_log)
      BY <1>2
    <2> QED BY <1>1, <1>2, <2>1, FloorBounds
  <1>5. step = "none"
    BY <1>1 DEF NodeInv, IInv, Quiescent
  <1>6. FilesSound'
    BY <1>1, <1>2, <1>3 DEF FilesSound
  <1>7. ChainExact' /\ CandidateExact'
    BY <1>1, <1>2, <1>4 DEF NodeInv, ChainExact, CandidateExact
  <1>8. Shapes'
    <2>1. r.transfers \in Seq(Envelopes)
      BY <1>3, FitsQueue
    <2>2. old' \in PromiseType
      BY <1>1, <1>2, <2>1, PromiseTyped
    <2> QED BY <1>1, <1>3, <2>2 DEF NodeInv, Shapes
  <1>9. QueueExact'
    BY <1>1, <1>3, <1>4 DEF QueueExact
  <1>10. TransferOutcome' /\ BlockOutcome' /\ ReorgOutcome' /\ PoolOutcome'
    BY <1>1, <1>5 DEF TransferOutcome, BlockOutcome, ReorgOutcome, PoolOutcome
  <1>11. IInv'
    BY FaultIInv DEF NodeInv
  <1> QED BY <1>6, <1>7, <1>8, <1>9, <1>10, <1>11 DEF NodeInv

\* A restart that ends early has done part of what the next one does.
LEMMA OpenInterruptedKeeps ==
    ASSUME NodeInv, OpenInterrupted
    PROVE  NodeInv'
  <1> DEFINE r == Kept(block_log, pool_log)
  <1>1. /\ ~ up
        /\ UNCHANGED <<block_log, up, chain, pending, confirmed, poisoned, step, candidate,
                       recovery, retained, old, new>>
        /\ pool_log' = pool_log \/ pool_log' = r.transfers
        /\ torn' \subseteq torn
    BY DEF OpenInterrupted, Recovered, Promise, Kept, memory, work
  <1>2. /\ Stored(block_log) /\ pool_log \in Seq(Envelopes) /\ torn \subseteq Files
        /\ Restorable(pool_log) /\ Promise(block_log, r.transfers) \in {old, new}
    BY DEF NodeInv, FilesSound, Restorable
  <1>3. Restorable(r.transfers) /\ Kept(block_log, r.transfers) = r
    BY <1>2, KeptFits, KeptAgain
  <1>4. step = "none"
    BY <1>1 DEF NodeInv, IInv, Quiescent
  <1>5. FilesSound'
    <2>1. Kept(block_log, pool_log') = r /\ Restorable(pool_log')
      BY <1>1, <1>2, <1>3
    <2> HIDE DEF r
    <2> QED BY <1>1, <1>2, <2>1 DEF FilesSound
  <1>6. ChainExact' /\ CandidateExact'
    BY <1>1 DEF NodeInv, ChainExact, CandidateExact
  <1>7. Shapes'
    BY <1>1 DEF NodeInv, Shapes
  <1>8. QueueExact' /\ TransferOutcome' /\ BlockOutcome' /\ ReorgOutcome' /\ PoolOutcome'
    BY <1>1, <1>4 DEF QueueExact, TransferOutcome, BlockOutcome, ReorgOutcome, PoolOutcome
  <1>9. IInv'
    BY FaultIInv DEF NodeInv
  <1> QED BY <1>5, <1>6, <1>7, <1>8, <1>9 DEF NodeInv

\* Every step of the node, its failures and its restarts keep the invariant.
LEMMA NodeStep == NodeInv /\ [Next]_vars => NodeInv'
  <1> SUFFICES ASSUME NodeInv, [Next]_vars PROVE NodeInv'
    OBVIOUS
  <1>1. CASE UNCHANGED vars
    <2>1. UNCHANGED <<block_log, pool_log, torn, up, chain, pending, confirmed, poisoned, step,
                      candidate, recovery, retained, old, new>>
      BY <1>1 DEF vars, disk, memory, work
    <2>2. IInv'
      BY <2>1 DEF NodeInv, IInv, Quiescent, LogInStep, QueueInStep, CandidateRanks
    <2>3. FilesSound' /\ ChainExact' /\ CandidateExact' /\ Shapes'
      BY <2>1 DEF NodeInv, FilesSound, ChainExact, CandidateExact, Shapes
    <2>4. QueueExact' /\ TransferOutcome' /\ BlockOutcome' /\ ReorgOutcome' /\ PoolOutcome'
      BY <2>1 DEF NodeInv, QueueExact, TransferOutcome, BlockOutcome, ReorgOutcome, PoolOutcome
    <2> QED BY <2>2, <2>3, <2>4 DEF NodeInv
  <1>2. CASE \E t \in Envelopes : SubmitTransfer(t)
    BY <1>2, SubmitTransferKeeps
  <1>3. CASE \E b \in Blocks : SubmitBlock(b)
    BY <1>3, SubmitBlockKeeps
  <1>4. CASE \/ \E tip \in Blocks : AdoptChain(tip)
             \/ \E tip \in Blocks, h \in 0 .. MaxHistoryBlocks : AdoptRecentSuffix(h, tip)
             \/ \E tip \in Blocks : AdoptReplayedChain(tip)
    <2>1. PICK tip \in Blocks, h \in Nat :
             AdoptChain(tip) \/ AdoptRecentSuffix(h, tip) \/ AdoptReplayedChain(tip)
      <3>1. 0 \in Nat /\ \A h \in 0 .. MaxHistoryBlocks : h \in Nat
        OBVIOUS
      <3> QED BY <1>4, <3>1
    <2> QED BY <2>1, AdoptKeeps
  <1>5. CASE AppendTransfer \/ AppendBlock \/ WriteRecovery \/ WriteBlocks \/ WritePool
    BY <1>5, AppendTransferKeeps, AppendBlockKeeps, WriteRecoveryKeeps, WriteBlocksKeeps,
       WritePoolKeeps
  <1>6. CASE WriteFails \/ Crash \/ Open \/ OpenInterrupted
    BY <1>6, WriteFailsKeeps, CrashKeeps, OpenKeeps, OpenInterruptedKeeps
  <1> QED BY <1>1, <1>2, <1>3, <1>4, <1>5, <1>6 DEF Next

\* The inductive invariant of the node.
THEOREM NodeInvariant == Spec => []NodeInv
  BY InitNodeInv, NodeStep, PTL DEF Spec

\* Wherever the process ended, in the middle of any publication, of any failed
\* write or of a restart, the next boot accepts both files and finds the promise
\* before the publication or the promise after it.
THEOREM RestartIsSound == Spec => []RestartSound
  <1>1. NodeInv => RestartSound
    <2> SUFFICES ASSUME NodeInv PROVE RestartSound
      OBVIOUS
    <2>1. FilesSound
      BY DEF NodeInv
    <2>2. CrashAtomic
      BY <2>1 DEF FilesSound, CrashAtomic, Recovered, Kept
    <2>3. Recoverable
      BY <2>1 DEF FilesSound, Stored, Restorable, Recoverable, Openable
    <2> QED BY <2>2, <2>3 DEF RestartSound
  <1> QED BY <1>1, NodeInvariant, PTL

\* Between two operations the limits of memory hold, a block with the whole queue
\* is accepted from any producer, and the reservations and the index are those a
\* restart derives from the files.
THEOREM MemoryIsSound == Spec => []MemorySound
  <1>1. NodeInv => MemorySound
    <2> SUFFICES ASSUME NodeInv PROVE MemorySound
      OBVIOUS
    <2> DEFINE c == chain.blocks
    <2>1. /\ Stored(c) /\ c \in Seq(Blocks) /\ confirmed = ConfirmedIndex(c)
          /\ Fits(pending) /\ pending.transfers \in Seq(Envelopes)
      BY FitsQueue DEF NodeInv, ChainExact, Stored, Shapes
    <2>2. TypeOK
      <3>1. confirmed \subseteq Envelopes \X Nat
        BY <2>1 DEF ConfirmedIndex, IndexAbove
      <3>2. block_log \in Seq(Blocks) /\ pool_log \in Seq(Envelopes) /\ torn \subseteq Files
        BY DEF NodeInv, FilesSound, Stored, Restorable
      <3> QED BY <3>1, <3>2 DEF NodeInv, ChainExact, CandidateExact, Shapes, Fits, TypeOK
    <2>3. ViewExact
      BY DEF NodeInv, QueueExact, ViewExact, Idle, Kept
    <2>4. ConfirmedExact
      BY <2>1 DEF ConfirmedExact
    <2>5. PendingMineable
      <3> SUFFICES ASSUME Idle, NEW pk \in Accounts
                   PROVE  ApplyBlock(LedgerOf(c), Len(c) + 1, pk, pending.transfers) # None
        BY DEF PendingMineable
      <3>1. pending = RetainPending(c, ConfirmedIndex(c), pending.transfers)
        BY DEF NodeInv, QueueExact, Idle, Kept
      <3>2. Len(c) \in Nat /\ SoundAt(LedgerOf(c), Len(c), Len(c))
        BY <2>1, StoredSound
      <3> DEFINE q == pending.transfers
                 i == ConfirmedIndex(c)
      <3>3. ApplyBlock(LedgerOf(c), Len(c) + 1, pk, RetainPending(c, i, q).transfers) # None
        <4> HIDE DEF c, i, q
        <4> QED BY <2>1, <3>2, QueueMineable DEF q
      <3> QED BY <3>1, <3>3
    <2> QED BY <2>2, <2>3, <2>4, <2>5 DEF MemorySound
  <1> QED BY <1>1, NodeInvariant, PTL

\* Whatever a node answers is already on disk: at every moment between two
\* publications its chain and its queue are exactly those of the two files.
THEOREM VisibleIsDurable == Spec => []DurableBeforeVisible
  <1>1. IInv => DurableBeforeVisible
    BY DEF IInv, LogInStep, QueueInStep, DurableBeforeVisible, Idle
  <1> QED BY <1>1, WriteOrder, PTL

\* No failure, crash or restart makes the canonical log regress.
THEOREM LogNeverRegresses == Spec => LogRankGrows
  <1> DEFINE Moves == block_log' # block_log =>
                         \/ Preferred(block_log', block_log)
                         \/ \E b \in Blocks : block_log' = Append(block_log, b)
  <1>1. IInv /\ [Next]_vars => [Moves]_vars
    <2> SUFFICES ASSUME IInv, Next, block_log' # block_log
                 PROVE  Moves
      BY DEF vars
    <2>1. /\ up /\ ~ poisoned
          /\ step \in {"append block", "write blocks"}
          /\ block_log' = candidate.blocks
      <3>1. WriteLeaves => /\ step \in {"append block", "write blocks"}
                           /\ block_log' = candidate.blocks
        BY DEF WriteLeaves, AppendLeaves, ReplaceLeaves, disk
      <3>2. \/ AppendBlock \/ WriteBlocks \/ WriteFails \/ Crash
        BY DEF Next, SubmitTransfer, SubmitBlock, AdoptChain, AdoptRecentSuffix,
               AdoptReplayedChain, PublishCandidate, AppendTransfer, WriteRecovery,
               WritePool, Open, OpenInterrupted, disk
      <3>3. up /\ step # "none"
        BY <3>1, <3>2 DEF AppendBlock, WriteBlocks, WriteFails, Crash, disk
      <3>4. ~ poisoned
        BY <3>3 DEF IInv, Quiescent
      <3> QED
        BY <3>1, <3>2, <3>3, <3>4 DEF AppendBlock, WriteBlocks, WriteFails, Crash, disk
    <2>2. block_log = chain.blocks
      BY <2>1 DEF IInv, LogInStep
    <2> QED BY <2>1, <2>2 DEF IInv, CandidateRanks
  <1> QED BY <1>1, WriteOrder, PTL DEF LogRankGrows, Spec

=============================================================================
