-------------------------------- MODULE Sums --------------------------------
(***************************************************************************)
(* Sums of natural numbers over finite sets, as the community modules      *)
(* define them: by taking the elements one after another.                  *)
(***************************************************************************)
EXTENDS Naturals, FiniteSets, Functions, FiniteSetTheorems,
        WellFoundedInduction, TLAPS

\* The recursion by which a sum takes away one element after another.
Adds(f, S, g) ==
  g = [s \in SUBSET S |->
         IF s = {} THEN 0
         ELSE LET x == CHOOSE x \in s : TRUE IN f[x] + g[s \ {x}]]

\* As many units for every element as it counts.
Units(f, s) == UNION {{x} \X (1 .. f[x]) : x \in s}

\* Among subsets of a finite set one has no smaller one beside it.
LEMMA LeastSubset ==
  ASSUME NEW S, IsFiniteSet(S), NEW T \in SUBSET SUBSET S, T # {}
  PROVE  \E t \in T : \A u \in SUBSET t : u # t => u \notin T
<1>1. IsWellFoundedOn(StrictSubsetOrdering(S), SUBSET S)
  BY FS_StrictSubsetOrderingWellFounded, FS_FiniteSubsetsOfFinite
<1>2. PICK t \in T : \A u \in T : <<u, t>> \notin StrictSubsetOrdering(S)
  BY <1>1, WFMin
<1> QED
  BY <1>2 DEF StrictSubsetOrdering

LEMMA UnitsOfOne ==
  ASSUME NEW f, NEW x, f[x] \in Nat
  PROVE  IsFiniteSet({x} \X (1 .. f[x])) /\ Cardinality({x} \X (1 .. f[x])) = f[x]
<1>1. IsFiniteSet(1 .. f[x]) /\ Cardinality(1 .. f[x]) = f[x]
  BY FS_Interval
<1>2. IsFiniteSet({x}) /\ Cardinality({x}) = 1
  BY FS_Singleton
<1>3. Cardinality({x} \X (1 .. f[x])) = 1 * f[x] /\ IsFiniteSet({x} \X (1 .. f[x]))
  BY <1>1, <1>2, FS_Product
<1> QED
  BY <1>3

\* Without an element its units are missing, and no others.
LEMMA UnitsSplit ==
  ASSUME NEW f, NEW s, NEW x \in s
  PROVE  /\ Units(f, s) = Units(f, s \ {x}) \union ({x} \X (1 .. f[x]))
         /\ Units(f, s \ {x}) \intersect ({x} \X (1 .. f[x])) = {}
  BY DEF Units

LEMMA UnitsFinite ==
  ASSUME NEW S, IsFiniteSet(S), NEW f, \A x \in S : f[x] \in Nat
  PROVE  \A s \in SUBSET S : IsFiniteSet(Units(f, s))
<1> SUFFICES ASSUME {s \in SUBSET S : ~IsFiniteSet(Units(f, s))} # {} PROVE FALSE
  OBVIOUS
<1> DEFINE T == {s \in SUBSET S : ~IsFiniteSet(Units(f, s))}
<1>1. PICK s \in T : \A u \in SUBSET s : u # s => u \notin T
  <2>1. T \in SUBSET SUBSET S /\ T # {}
    OBVIOUS
  <2> HIDE DEF T
  <2> QED
    BY <2>1, LeastSubset
<1>2. Units(f, {}) = {}
  BY DEF Units
<1>3. PICK x : x \in s
  BY <1>1, <1>2, FS_EmptySet
<1>4. IsFiniteSet(Units(f, s \ {x}))
  BY <1>1, <1>3
<1>5. IsFiniteSet({x} \X (1 .. f[x]))
  BY <1>3, UnitsOfOne
<1>6. IsFiniteSet(Units(f, s \ {x}) \union ({x} \X (1 .. f[x])))
  BY <1>4, <1>5, FS_Union
<1>7. Units(f, s) = Units(f, s \ {x}) \union ({x} \X (1 .. f[x]))
  BY <1>3, UnitsSplit
<1> QED
  BY <1>1, <1>6, <1>7

LEMMA UnitsCount ==
  ASSUME NEW S, IsFiniteSet(S), NEW f, \A x \in S : f[x] \in Nat
  PROVE  \A s \in SUBSET S : \A x \in s :
           Cardinality(Units(f, s)) = f[x] + Cardinality(Units(f, s \ {x}))
<1> TAKE s \in SUBSET S
<1> TAKE x \in s
<1> DEFINE A == Units(f, s \ {x})   B == {x} \X (1 .. f[x])
<1>1. IsFiniteSet(A) /\ IsFiniteSet(B) /\ Cardinality(B) = f[x]
  BY UnitsFinite, UnitsOfOne
<1>2. Units(f, s) = A \union B /\ A \intersect B = {}
  BY UnitsSplit
<1>3. Cardinality(A) \in Nat /\ f[x] \in Nat
  BY <1>1, FS_CardinalityType
<1>4. Cardinality(A \union B) = Cardinality(A) + Cardinality(B) - Cardinality(A \intersect B)
  BY <1>1, FS_Union
<1> HIDE DEF A, B
<1>5. Cardinality(A \intersect B) = 0
  BY <1>2, FS_EmptySet
<1>6. Cardinality(Units(f, s)) = f[x] + Cardinality(A)
  BY <1>1, <1>2, <1>3, <1>4, <1>5
<1> QED
  BY <1>6 DEF A

\* The sum of finitely many natural numbers is the number of their units.
LEMMA SumCountsUnits ==
  ASSUME NEW S, IsFiniteSet(S), NEW f, \A x \in S : f[x] \in Nat
  PROVE  SumFunctionOnSet(f, S) = Cardinality(Units(f, S))
<1> DEFINE count == [s \in SUBSET S |-> Cardinality(Units(f, s))]
           sum == CHOOSE g : Adds(f, S, g)
<1>1. \A s \in SUBSET S : count[s] = IF s = {} THEN 0
         ELSE LET x == CHOOSE x \in s : TRUE IN f[x] + count[s \ {x}]
  <2> TAKE s \in SUBSET S
  <2>1. CASE s = {}
    BY <2>1, FS_EmptySet DEF Units
  <2>2. CASE s # {}
    <3> DEFINE x == CHOOSE x \in s : TRUE
    <3>1. x \in s
      BY <2>2
    <3> HIDE DEF x
    <3>2. Cardinality(Units(f, s)) = f[x] + Cardinality(Units(f, s \ {x}))
      BY <3>1, UnitsCount
    <3>3. count[s] = f[x] + count[s \ {x}]
      BY <3>2
    <3> QED
      BY <2>2, <3>3 DEF x
  <2> QED
    BY <2>1, <2>2
<1>2. Adds(f, S, count)
  <2> DEFINE body(s) == IF s = {} THEN 0
               ELSE LET x == CHOOSE x \in s : TRUE IN f[x] + count[s \ {x}]
  <2>1. \A s \in SUBSET S : count[s] = body(s)
    BY <1>1
  <2>2. count = [s \in SUBSET S |-> count[s]]
    OBVIOUS
  <2> HIDE DEF count
  <2>3. [s \in SUBSET S |-> count[s]] = [s \in SUBSET S |-> body(s)]
    <3> HIDE DEF body
    <3> QED BY <2>1
  <2> QED
    BY <2>2, <2>3 DEF Adds
<1>3. Adds(f, S, sum)
  BY <1>2
<1>4. SumFunctionOnSet(f, S) = sum[S]
  BY DEF SumFunctionOnSet, FoldFunctionOnSet, MapThenFoldSet, Adds
<1> HIDE DEF sum, count
<1>5. \A s \in SUBSET S : sum[s] = IF s = {} THEN 0
         ELSE LET x == CHOOSE x \in s : TRUE IN f[x] + sum[s \ {x}]
  <2> DEFINE body(s) == IF s = {} THEN 0
               ELSE LET x == CHOOSE x \in s : TRUE IN f[x] + sum[s \ {x}]
  <2>1. sum = [s \in SUBSET S |-> body(s)]
    BY <1>3 DEF Adds
  <2>2. \A s \in SUBSET S : sum[s] = body(s)
    <3> HIDE DEF body
    <3> QED BY <2>1
  <2> QED
    BY <2>2
<1>6. \A s \in SUBSET S : sum[s] = count[s]
  <2> SUFFICES ASSUME {s \in SUBSET S : sum[s] # count[s]} # {} PROVE FALSE
    OBVIOUS
  <2> DEFINE T == {s \in SUBSET S : sum[s] # count[s]}
  <2>1. PICK t \in T : \A u \in SUBSET t : u # t => u \notin T
    <3>1. T \in SUBSET SUBSET S /\ T # {}
      OBVIOUS
    <3> HIDE DEF T
    <3> QED
      BY <3>1, LeastSubset
  <2> DEFINE x == CHOOSE x \in t : TRUE
  <2>2. t # {}
    BY <1>1, <1>5
  <2>3. x \in t
    BY <2>2
  <2> HIDE DEF x
  <2>4. sum[t \ {x}] = count[t \ {x}]
    BY <2>1, <2>3
  <2> QED
    BY <1>1, <1>5, <2>2, <2>4 DEF x
<1> QED
  BY <1>4, <1>6 DEF count

\* A sum of natural numbers is one, nothing is none, and fewer are no more.
THEOREM SumMonotone ==
  ASSUME NEW S, IsFiniteSet(S), NEW f, \A x \in S : f[x] \in Nat
  PROVE  /\ SumFunctionOnSet(f, S) \in Nat
         /\ SumFunctionOnSet(f, {}) = 0
         /\ \A s \in SUBSET S : SumFunctionOnSet(f, s) <= SumFunctionOnSet(f, S)
<1>1. \A s \in SUBSET S : /\ IsFiniteSet(s)
                          /\ SumFunctionOnSet(f, s) = Cardinality(Units(f, s))
  BY FS_Subset, SumCountsUnits
<1>2. IsFiniteSet(Units(f, S))
  BY UnitsFinite
<1>3. Units(f, {}) = {} /\ \A s \in SUBSET S : Units(f, s) \subseteq Units(f, S)
  BY DEF Units
<1> QED
  BY <1>1, <1>2, <1>3, FS_EmptySet, FS_CardinalityType, FS_Subset
=============================================================================
