-------------------------- MODULE ArithmeticLemmas --------------------------
(***************************************************************************)
(* The arithmetic that the proofs about several components rest on: the    *)
(* token bucket, for any capacity, rate and unit, and sums of counters     *)
(* over any finite set.                                                    *)
(***************************************************************************)
EXTENDS TokenBucket, Functions, FiniteSetTheorems, WellFoundedInduction, TLAPS

-----------------------------------------------------------------------------
(* The token bucket.                                                        *)

\* The product of two naturals is a natural (stated once for the provers).
LEMMA ProductNat == ASSUME NEW a \in Nat, NEW b \in Nat PROVE a * b \in Nat
  OBVIOUS

\* Time never counts negatively (math.max(0, now - last_refill)).
LEMMA ElapsedNat ==
    ASSUME NEW last \in Int, NEW now \in Int
    PROVE  Elapsed(last, now) \in Nat
  BY DEF Elapsed

\* A refill leaves a level between the old one and the capacity.
LEMMA RefilledRange ==
    ASSUME NEW tokens \in 0..Capacity, NEW last \in Int, NEW now \in Int
    PROVE  /\ Refilled(tokens, last, now) \in 0..Capacity
           /\ Refilled(tokens, last, now) >= tokens
  <1>1. Rate * Elapsed(last, now) \in Nat
    BY ElapsedNat, ProductNat, BucketAssumption
  <1> QED
    BY <1>1, BucketAssumption DEF Refilled

\* Spending a token never takes a level below zero or above the capacity.
LEMMA SpendRange ==
    ASSUME NEW level \in 0..Capacity
    PROVE  Spend(level) \in 0..Capacity
  BY BucketAssumption DEF Spend, HasToken

\* The reply's truncated level is a natural number.
LEMMA WholeTokensNat ==
    ASSUME NEW level \in 0..Capacity
    PROVE  WholeTokens(level) \in Nat
  <1>1. /\ level \in Nat
        /\ Unit \in Nat
        /\ Unit > 0
    BY BucketAssumption
  <1> QED
    BY <1>1 DEF WholeTokens

\* Time counted forward less time counted backward is the difference of the
\* stamps.
LEMMA ElapsedBalance ==
    ASSUME NEW a \in Int, NEW b \in Int
    PROVE  b + Elapsed(b, a) = a + Elapsed(a, b)
  BY DEF Elapsed

\* The refill of a time and of a later time add up.
LEMMA Distribute ==
    ASSUME NEW k \in Int, NEW a \in Int, NEW b \in Int
    PROVE  k * (a + b) = k * a + k * b
  OBVIOUS

\* Products with the constants stay integers, or naturals.
LEMMA RateProduct == ASSUME NEW a \in Int PROVE Rate * a \in Int
  BY BucketAssumption

\* The same for tokens in fractions.
LEMMA UnitProduct == ASSUME NEW a \in Nat PROVE a * Unit \in Nat
  BY BucketAssumption, ProductNat

\* A refill adds no more than the rate times the elapsed time.
LEMMA RefilledBound ==
    ASSUME NEW tokens \in 0..Capacity, NEW last \in Int, NEW now \in Int
    PROVE  /\ Refilled(tokens, last, now) <= tokens + Rate * Elapsed(last, now)
           /\ \/ Refilled(tokens, last, now) = tokens + Rate * Elapsed(last, now)
              \/ Refilled(tokens, last, now) = Capacity
  <1>1. Rate * Elapsed(last, now) \in Nat
    BY ElapsedNat, ProductNat, BucketAssumption
  <1> QED
    BY <1>1, BucketAssumption DEF Refilled

-----------------------------------------------------------------------------
(* Sums of counters: SumFunction(f) for a function f with a finite domain.  *)
(* A fold is the recursive function PartialSums below, applied to the whole *)
(* domain; it exists because the domain is finite, and a property of its    *)
(* values is proved by looking at a smallest subset that breaks it.         *)

Pick(s) == CHOOSE x \in s : TRUE

OneMore(f, g) ==
    [s \in SUBSET DOMAIN f |-> IF s = {} THEN 0 ELSE f[Pick(s)] + g[s \ {Pick(s)}]]

PartialSums(f) == CHOOSE g : g = OneMore(f, g)

\* The fold as it is defined in the community modules is the last partial sum.
LEMMA FoldIsPartialSum ==
    ASSUME NEW f
    PROVE  SumFunction(f) = PartialSums(f)[DOMAIN f]
  BY DEF SumFunction, SumFunctionOnSet, FoldFunctionOnSet, MapThenFoldSet, PartialSums, OneMore, Pick

\* A set of naturals that is not empty has a least element.
LEMMA LeastNat ==
    ASSUME NEW T, T \subseteq Nat, T # {}
    PROVE  \E n \in T : \A m \in Nat : m < n => m \notin T
  <1>1. PICK n \in T : \A m \in T : ~(<<m, n>> \in OpToRel(<, Nat))
    BY NatLessThanWellFounded, WFMin
  <1> QED
    BY <1>1 DEF OpToRel

\* What is taken out of a finite set was in it, and leaves a smaller one.
LEMMA PickLeavesLess ==
    ASSUME NEW D, IsFiniteSet(D), NEW s \in SUBSET D, s # {}
    PROVE  /\ Pick(s) \in s
           /\ IsFiniteSet(s)
           /\ s \ {Pick(s)} \in SUBSET D
           /\ Cardinality(s) \in Nat
           /\ Cardinality(s \ {Pick(s)}) = Cardinality(s) - 1
  <1>1. Pick(s) \in s
    BY DEF Pick
  <1>2. IsFiniteSet(s)
    BY FS_Subset
  <1>3. Cardinality(s) \in Nat
    BY <1>2, FS_CardinalityType
  <1>4. Cardinality(s \ {Pick(s)}) = Cardinality(s) - 1
    BY <1>1, <1>2, FS_RemoveElement
  <1> QED
    BY <1>1, <1>2, <1>3, <1>4

\* Among sets of elements of a finite set, one is the empty set or loses an
\* element by which it leaves the collection.
LEMMA SmallestSubset ==
    ASSUME NEW D, IsFiniteSet(D), NEW Bad \in SUBSET SUBSET D, Bad # {}
    PROVE  \E s \in Bad : s = {} \/ s \ {Pick(s)} \notin Bad
  <1> DEFINE Sizes == {Cardinality(s) : s \in Bad}
  <1>1. \A s \in Bad : Cardinality(s) \in Nat
    BY FS_Subset, FS_CardinalityType
  <1>2. Sizes \subseteq Nat /\ Sizes # {}
    BY <1>1
  <1>3. PICK n \in Sizes : \A m \in Nat : m < n => m \notin Sizes
    BY <1>2, LeastNat
  <1>4. PICK s \in Bad : Cardinality(s) = n
    BY <1>3
  <1>5. CASE s # {}
    <2>1. /\ Cardinality(s \ {Pick(s)}) = n - 1
          /\ n \in Nat
      BY <1>4, <1>5, PickLeavesLess
    <2>2. Cardinality(s \ {Pick(s)}) \notin Sizes \/ ~(n - 1 \in Nat)
      BY <2>1, <1>3
    <2>3. ASSUME s \ {Pick(s)} \in Bad PROVE FALSE
      BY <2>1, <2>2, <2>3, <1>1
    <2> QED
      BY <2>3
  <1> QED
    BY <1>4, <1>5

\* The recursion has a solution: functions that solve it for the sets of up to n
\* elements exist for every n, the next one from the one before.
LEMMA PartialSumsUnfold ==
    ASSUME NEW f, IsFiniteSet(DOMAIN f)
    PROVE  PartialSums(f) = OneMore(f, PartialSums(f))
  <1> DEFINE D == DOMAIN f
             Solves(g, n) == \A s \in SUBSET D :
                               Cardinality(s) <= n => g[s] = OneMore(f, g)[s]
             Unsolved == {n \in Nat : ~\E g : Solves(g, n)}
  <1>1. Unsolved = {}
    <2> SUFFICES ASSUME Unsolved # {} PROVE FALSE
      OBVIOUS
    <2>1. PICK n \in Unsolved : \A m \in Nat : m < n => m \notin Unsolved
      BY LeastNat
    <2>2. CASE n = 0
      <3> DEFINE zero == [s \in SUBSET D |-> 0]
      <3>1. ASSUME NEW s \in SUBSET D, Cardinality(s) <= n
            PROVE  zero[s] = OneMore(f, zero)[s]
        <4>1. IsFiniteSet(s) /\ Cardinality(s) \in Nat
          BY FS_Subset, FS_CardinalityType
        <4>2. s = {}
          BY <2>2, <3>1, <4>1, FS_EmptySet
        <4> QED
          BY <4>2 DEF OneMore
      <3> QED
        BY <3>1
    <2>3. CASE n # 0
      <3>1. n - 1 \in Nat /\ n - 1 < n
        BY <2>3
      <3>2. PICK g : Solves(g, n - 1)
        BY <2>1, <3>1
      <3>3. ASSUME NEW s \in SUBSET D, Cardinality(s) <= n
            PROVE  OneMore(f, g)[s] = OneMore(f, OneMore(f, g))[s]
        <4>1. CASE s = {}
          BY <4>1 DEF OneMore
        <4>2. CASE s # {}
          <5>1. /\ s \ {Pick(s)} \in SUBSET D
                /\ Cardinality(s \ {Pick(s)}) <= n - 1
            BY <3>3, <4>2, PickLeavesLess
          <5>2. g[s \ {Pick(s)}] = OneMore(f, g)[s \ {Pick(s)}]
            BY <3>2, <5>1
          <5> QED
            BY <4>2, <5>2 DEF OneMore
        <4> QED
          BY <4>1, <4>2
      <3> QED
        BY <3>3
    <2> QED
      BY <2>2, <2>3
  <1>2. Cardinality(D) \in Nat
    BY FS_CardinalityType
  <1>3. PICK g : Solves(g, Cardinality(D))
    BY <1>1, <1>2
  <1>4. ASSUME NEW s \in SUBSET D
        PROVE  g[s] = OneMore(f, g)[s]
    BY <1>3, FS_Subset
  <1>5. ASSUME NEW s \in SUBSET D
        PROVE  OneMore(f, g)[s] = OneMore(f, OneMore(f, g))[s]
    <2>1. CASE s = {}
      BY <2>1 DEF OneMore
    <2>2. CASE s # {}
      <3>1. s \ {Pick(s)} \in SUBSET D
        OBVIOUS
      <3> QED
        BY <2>2, <3>1, <1>4 DEF OneMore
    <2> QED
      BY <2>1, <2>2
  <1>6. OneMore(f, g) = OneMore(f, OneMore(f, g))
    BY <1>5 DEF OneMore
  <1> QED
    BY <1>6 DEF PartialSums

\* The two cases of the recursion.
LEMMA PartialSumOf ==
    ASSUME NEW f, IsFiniteSet(DOMAIN f), NEW s \in SUBSET DOMAIN f
    PROVE  PartialSums(f)[s] =
             IF s = {} THEN 0 ELSE f[Pick(s)] + PartialSums(f)[s \ {Pick(s)}]
  BY PartialSumsUnfold DEF OneMore

\* Partial sums of counters are naturals: a smallest subset whose sum is none
\* would be one element more than a subset whose sum is one.
LEMMA PartialSumNat ==
    ASSUME NEW D, IsFiniteSet(D), NEW f \in [D -> Nat], NEW s \in SUBSET D
    PROVE  PartialSums(f)[s] \in Nat
  <1> DEFINE Bad == {t \in SUBSET D : PartialSums(f)[t] \notin Nat}
  <1>1. SUFFICES ASSUME Bad # {} PROVE FALSE
    OBVIOUS
  <1>2. PICK t \in Bad : t = {} \/ t \ {Pick(t)} \notin Bad
    BY <1>1, SmallestSubset
  <1>3. PartialSums(f)[t] = IF t = {} THEN 0 ELSE f[Pick(t)] + PartialSums(f)[t \ {Pick(t)}]
    BY PartialSumOf
  <1>4. CASE t # {}
    <2>1. Pick(t) \in D /\ f[Pick(t)] \in Nat
      BY <1>4, PickLeavesLess
    <2>2. PartialSums(f)[t \ {Pick(t)}] \in Nat
      BY <1>2, <1>4
    <2> QED
      BY <1>3, <1>4, <2>1, <2>2
  <1> QED
    BY <1>3, <1>4

\* A sum of counters is a natural number.
LEMMA SumNat ==
    ASSUME NEW D, IsFiniteSet(D), NEW f \in [D -> Nat]
    PROVE  SumFunction(f) \in Nat
  BY PartialSumNat, FoldIsPartialSum

\* A sum of smaller counters is smaller.
LEMMA SumMonotone ==
    ASSUME NEW D, IsFiniteSet(D), NEW f \in [D -> Nat], NEW g \in [D -> Nat],
           \A d \in D : f[d] <= g[d]
    PROVE  SumFunction(f) <= SumFunction(g)
  <1> DEFINE Bad == {t \in SUBSET D : ~(PartialSums(f)[t] <= PartialSums(g)[t])}
  <1>1. ASSUME Bad # {} PROVE FALSE
    <2>1. PICK t \in Bad : t = {} \/ t \ {Pick(t)} \notin Bad
      BY <1>1, SmallestSubset
    <2>2. /\ PartialSums(f)[t] =
               IF t = {} THEN 0 ELSE f[Pick(t)] + PartialSums(f)[t \ {Pick(t)}]
          /\ PartialSums(g)[t] =
               IF t = {} THEN 0 ELSE g[Pick(t)] + PartialSums(g)[t \ {Pick(t)}]
      BY PartialSumOf
    <2>3. CASE t # {}
      <3>1. Pick(t) \in D
        BY <2>3, PickLeavesLess
      <3>2. /\ f[Pick(t)] \in Nat
            /\ g[Pick(t)] \in Nat
            /\ f[Pick(t)] <= g[Pick(t)]
        BY <3>1
      <3>3. /\ PartialSums(f)[t \ {Pick(t)}] <= PartialSums(g)[t \ {Pick(t)}]
            /\ PartialSums(f)[t \ {Pick(t)}] \in Nat
            /\ PartialSums(g)[t \ {Pick(t)}] \in Nat
        BY <2>1, <2>3, PartialSumNat
      <3> QED
        BY <2>1, <2>2, <2>3, <3>2, <3>3
    <2> QED
      BY <2>1, <2>2, <2>3
  <1> QED
    BY <1>1, FoldIsPartialSum

\* Changing one counter changes the sum by as much.
LEMMA SumUpdate ==
    ASSUME NEW D, IsFiniteSet(D), NEW f \in [D -> Nat], NEW g \in [D -> Nat], NEW d \in D,
           \A e \in D : e # d => g[e] = f[e]
    PROVE  SumFunction(g) - g[d] = SumFunction(f) - f[d]
  <1> DEFINE Share(h, t) == IF d \in t THEN h[d] ELSE 0
             Bad == {t \in SUBSET D :
                       PartialSums(g)[t] + Share(f, t) # PartialSums(f)[t] + Share(g, t)}
  <1>1. ASSUME Bad # {} PROVE FALSE
    <2>1. PICK t \in Bad : t = {} \/ t \ {Pick(t)} \notin Bad
      BY <1>1, SmallestSubset
    <2>2. /\ PartialSums(f)[t] =
               IF t = {} THEN 0 ELSE f[Pick(t)] + PartialSums(f)[t \ {Pick(t)}]
          /\ PartialSums(g)[t] =
               IF t = {} THEN 0 ELSE g[Pick(t)] + PartialSums(g)[t \ {Pick(t)}]
      BY PartialSumOf
    <2>3. CASE t # {}
      <3>1. Pick(t) \in D /\ Pick(t) \in t
        BY <2>3, PickLeavesLess
      <3>2. /\ f[Pick(t)] \in Nat /\ g[Pick(t)] \in Nat
            /\ Pick(t) # d => g[Pick(t)] = f[Pick(t)]
        BY <3>1
      <3>3. /\ PartialSums(g)[t \ {Pick(t)}] + Share(f, t \ {Pick(t)}) =
                 PartialSums(f)[t \ {Pick(t)}] + Share(g, t \ {Pick(t)})
            /\ PartialSums(f)[t \ {Pick(t)}] \in Nat
            /\ PartialSums(g)[t \ {Pick(t)}] \in Nat
        BY <2>1, <2>3, PartialSumNat
      <3>4. ASSUME NEW h \in [D -> Nat]
            PROVE  /\ Share(h, t \ {Pick(t)}) \in Nat
                   /\ Share(h, t) = IF Pick(t) = d THEN h[Pick(t)] ELSE Share(h, t \ {Pick(t)})
                   /\ Pick(t) = d => Share(h, t \ {Pick(t)}) = 0
        BY <3>1
      <3>5. /\ Share(f, t \ {Pick(t)}) \in Nat /\ Share(g, t \ {Pick(t)}) \in Nat
            /\ Share(f, t) = IF Pick(t) = d THEN f[Pick(t)] ELSE Share(f, t \ {Pick(t)})
            /\ Share(g, t) = IF Pick(t) = d THEN g[Pick(t)] ELSE Share(g, t \ {Pick(t)})
            /\ Pick(t) = d => /\ Share(f, t \ {Pick(t)}) = 0
                              /\ Share(g, t \ {Pick(t)}) = 0
        BY <3>4
      <3>6. PartialSums(g)[t] + Share(f, t) # PartialSums(f)[t] + Share(g, t)
        BY <2>1
      <3> HIDE DEF Share, Bad
      <3> QED
        BY <2>2, <2>3, <3>2, <3>3, <3>5, <3>6
    <2> QED
      BY <2>1, <2>2, <2>3
  <1>2. PartialSums(g)[D] + f[d] = PartialSums(f)[D] + g[d]
    BY <1>1
  <1>3. PartialSums(f)[D] \in Nat /\ PartialSums(g)[D] \in Nat /\ f[d] \in Nat /\ g[d] \in Nat
    BY PartialSumNat
  <1>4. DOMAIN f = D /\ DOMAIN g = D
    OBVIOUS
  <1> QED
    BY <1>2, <1>3, <1>4, FoldIsPartialSum

\* Counting one more in one place adds one to the sum.
LEMMA SumIncrement ==
    ASSUME NEW D, IsFiniteSet(D), NEW f \in [D -> Nat], NEW d \in D, NEW n \in Nat
    PROVE  SumFunction([f EXCEPT ![d] = @ + n]) = SumFunction(f) + n
  <1>1. PICK g : g = [f EXCEPT ![d] = @ + n]
    OBVIOUS
  <1>2. /\ f[d] \in Nat /\ g \in [D -> Nat] /\ g[d] = f[d] + n
        /\ \A e \in D : e # d => g[e] = f[e]
    BY <1>1
  <1>3. SumFunction(g) - g[d] = SumFunction(f) - f[d]
    BY <1>2, SumUpdate
  <1>4. SumFunction(f) \in Nat /\ SumFunction(g) \in Nat
    BY <1>2, SumNat
  <1> QED
    BY <1>1, <1>2, <1>3, <1>4

\* No counter exceeds the sum.
LEMMA SumTerm ==
    ASSUME NEW D, IsFiniteSet(D), NEW f \in [D -> Nat], NEW d \in D
    PROVE  f[d] <= SumFunction(f)
  <1>1. PICK g : g = [f EXCEPT ![d] = 0]
    OBVIOUS
  <1>2. /\ f[d] \in Nat /\ g \in [D -> Nat] /\ g[d] = 0
        /\ \A e \in D : e # d => g[e] = f[e]
    BY <1>1
  <1>3. SumFunction(g) - g[d] = SumFunction(f) - f[d]
    BY <1>2, SumUpdate
  <1>4. SumFunction(f) \in Nat /\ SumFunction(g) \in Nat
    BY <1>2, SumNat
  <1> QED
    BY <1>2, <1>3, <1>4

\* Nothing counted, nothing summed.
LEMMA SumZero ==
    ASSUME NEW D, IsFiniteSet(D), NEW f, f = [d \in D |-> 0]
    PROVE  SumFunction(f) = 0
  <1> DEFINE Bad == {t \in SUBSET D : PartialSums(f)[t] # 0}
  <1>1. ASSUME Bad # {} PROVE FALSE
    <2>1. PICK t \in Bad : t = {} \/ t \ {Pick(t)} \notin Bad
      BY <1>1, SmallestSubset
    <2>2. PartialSums(f)[t] =
               IF t = {} THEN 0 ELSE f[Pick(t)] + PartialSums(f)[t \ {Pick(t)}]
      BY PartialSumOf
    <2>3. CASE t # {}
      BY <2>1, <2>2, <2>3, PickLeavesLess
    <2> QED
      BY <2>1, <2>2, <2>3
  <1> QED
    BY <1>1, FoldIsPartialSum

=============================================================================
