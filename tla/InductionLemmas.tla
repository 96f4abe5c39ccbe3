-------------------------- MODULE InductionLemmas --------------------------
(***************************************************************************)
(* Induction for proofs about folds and recursive functions.  A statement  *)
(* about all numbers, or all finite sets, that has a counterexample has a  *)
(* least one; the lemmas give it, and what they yield for the sums that    *)
(* the models take with SumFunctionOnSet.                                  *)
(***************************************************************************)
EXTENDS Integers, FiniteSets, Functions, FiniteSetTheorems, WellFoundedInduction, TLAPS

\* Among numbers there is a least one.
LEMMA MinimalNumber ==
  ASSUME NEW C \in SUBSET Nat, C # {}
  PROVE  \E i \in C : \A j \in C : i <= j
<1>1. PICK i \in C : \A j \in C : ~(<<j, i>> \in OpToRel(<, Nat))
  BY NatLessThanWellFounded, WFMin
<1>2. ASSUME NEW j \in C  PROVE i <= j
  <2>1. ~(j < i)  BY <1>1 DEF OpToRel
  <2> QED  BY <2>1
<1> QED  BY <1>2

\* Among subsets of a finite set there is one that leaves the class with each element.
LEMMA MinimalSubset ==
  ASSUME NEW S, IsFiniteSet(S), NEW C \in SUBSET SUBSET S, C # {}
  PROVE  \E s \in C : \A x \in s : s \ {x} \notin C
<1>1. C \subseteq FiniteSubsetsOf(S)
  BY FS_Subset DEF FiniteSubsetsOf
<1>2. PICK s \in C : \A t \in C : ~(<<t, s>> \in StrictSubsetOrdering(S))
  BY <1>1, FS_StrictSubsetOrderingWellFounded, WFMin
<1>3. ASSUME NEW x \in s, s \ {x} \in C  PROVE FALSE
  <2>1. <<s \ {x}, s>> \in StrictSubsetOrdering(S)
    BY <1>3 DEF StrictSubsetOrdering
  <2> QED  BY <2>1, <1>2, <1>3
<1> QED  BY <1>3

\* A sum whose parts are nothing or all the same is counted.
LEMMA SumOfShares ==
  ASSUME NEW S, IsFiniteSet(S), NEW f, NEW c \in Nat, \A x \in S : f[x] \in {0, c}, c # 0
  PROVE  SumFunctionOnSet(f, S) = c * Cardinality({x \in S : f[x] = c})
<1> DEFINE holders(s) == {x \in s : f[x] = c}
           W == [s \in SUBSET S |-> c * Cardinality(holders(s))]
           first(s) == CHOOSE x \in s : TRUE
           step(g, s) == IF s = {} THEN 0 ELSE f[first(s)] + g[s \ {first(s)}]
           sums(g) == g = [s \in SUBSET S |-> step(g, s)]
           iter == CHOOSE g : sums(g)
<1>1. SumFunctionOnSet(f, S) = iter[S]
  BY DEF SumFunctionOnSet, FoldFunctionOnSet, MapThenFoldSet
<1>2. ASSUME NEW s \in SUBSET S, s # {}
      PROVE  /\ first(s) \in s /\ s \ {first(s)} \in SUBSET S
             /\ W[s] = f[first(s)] + W[s \ {first(s)}]
  <2>1. first(s) \in s /\ s \ {first(s)} \in SUBSET S
    BY <1>2
  <2>2. IsFiniteSet(holders(s)) /\ IsFiniteSet(holders(s \ {first(s)}))
    BY FS_Subset
  <2>3. Cardinality(holders(s)) \in Nat /\ Cardinality(holders(s \ {first(s)})) \in Nat
    BY <2>2, FS_CardinalityType
  <2>4. CASE f[first(s)] = c
    <3>1. holders(s \ {first(s)}) = holders(s) \ {first(s)} /\ first(s) \in holders(s)
      BY <2>1, <2>4
    <3>2. Cardinality(holders(s \ {first(s)})) = Cardinality(holders(s)) - 1
      <4> HIDE DEF holders, first
      <4>1. Cardinality(holders(s) \ {first(s)}) = Cardinality(holders(s)) - 1
        BY <2>2, <3>1, FS_RemoveElement
      <4> QED  BY <3>1, <4>1
    <3>3. c * Cardinality(holders(s)) = c + c * Cardinality(holders(s \ {first(s)}))
      <4> HIDE DEF holders, first
      <4> QED  BY <2>3, <3>2
    <3> QED  BY <2>1, <2>4, <3>3
  <2>5. CASE f[first(s)] = 0
    <3>1. holders(s \ {first(s)}) = holders(s)
      BY <2>1, <2>5
    <3>2. c * Cardinality(holders(s)) \in Nat
      BY <2>3
    <3> QED  BY <2>1, <2>5, <3>1, <3>2
  <2> QED  BY <2>1, <2>4, <2>5
<1>3. W[{}] = 0
  <2>1. holders({}) = {}
    OBVIOUS
  <2> QED  BY <2>1, FS_EmptySet
<1>4. sums(W)
  BY <1>2, <1>3
<1>5. iter = [s \in SUBSET S |-> step(iter, s)]
  BY <1>4
<1> DEFINE C == {s \in SUBSET S : iter[s] # W[s]}
<1> HIDE DEF W, iter, first
<1>6. C = {}
  <2> SUFFICES ASSUME C # {}  PROVE FALSE
    OBVIOUS
  <2>1. PICK s \in C : \A x \in s : s \ {x} \notin C
    BY MinimalSubset
  <2>2. iter[s] = step(iter, s)
    BY <1>5
  <2>3. CASE s = {}
    BY <2>1, <2>2, <2>3, <1>3
  <2>4. CASE s # {}
    BY <2>1, <2>2, <2>4, <1>2
  <2> QED  BY <2>3, <2>4
<1>7. iter[S] = W[S]
  BY <1>6
<1> QED  BY <1>1, <1>7 DEF W
=============================================================================
