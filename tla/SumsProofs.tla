------------------------------- MODULE SumsProofs -------------------------------
(***************************************************************************)
(* What SumOver does with the empty set, with one member more or less, and  *)
(* with another function of the same values.                                *)
(*                                                                         *)
(* The recursion takes the members out in an order that CHOOSE fixes, so     *)
(* the sum is first shown to be the number of its units, where an amount n   *)
(* of x is n pairs of x: the unit count satisfies the equation of the         *)
(* recursion, hence the equation has a solution, and two solutions do not     *)
(* differ at a subset of least cardinality.  Everything else is then said    *)
(* of cardinalities.                                                        *)
(***************************************************************************)
EXTENDS Sums, FiniteSetTheorems, WellFoundedInduction, TLAPS

UnitsOf(f, S) == UNION {{x} \X (1..f[x]) : x \in S}
UnitCount(f, S) == Cardinality(UnitsOf(f, S))

\* A finite set with an amount for each of its members.
Summable(f, S) == IsFiniteSet(S) /\ \A x \in S : f[x] \in Nat

-----------------------------------------------------------------------------
\* The units of one member, as many as its amount.
LEMMA OneUnits ==
  ASSUME NEW x, NEW n \in Nat
  PROVE  IsFiniteSet({x} \X (1..n)) /\ Cardinality({x} \X (1..n)) = n
<1>1. IsFiniteSet({x}) /\ Cardinality({x}) = 1
  BY FS_Singleton
<1>2. IsFiniteSet(1..n) /\ Cardinality(1..n) = n
  BY FS_Interval
<1>3. IsFiniteSet({x} \X (1..n)) /\ Cardinality({x} \X (1..n)) = 1 * n
  <2>1. \A A, B : IsFiniteSet(A) /\ IsFiniteSet(B) =>
          IsFiniteSet(A \X B) /\ Cardinality(A \X B) = Cardinality(A) * Cardinality(B)
    BY FS_Product
  <2> QED BY <1>1, <1>2, <2>1
<1> QED BY <1>3

LEMMA UnitsFinite == ASSUME NEW f, NEW S, Summable(f, S) PROVE IsFiniteSet(UnitsOf(f, S))
<1> DEFINE T == {{x} \X (1..f[x]) : x \in S}
           g == [x \in S |-> {x} \X (1..f[x])]
<1>1. g \in Surjection(S, T)
  BY DEF Surjection
<1>2. IsFiniteSet(T)
  BY <1>1, FS_Surjection DEF Summable
<1>3. \A u \in T : IsFiniteSet(u)
  <2> SUFFICES ASSUME NEW x \in S PROVE IsFiniteSet({x} \X (1..f[x]))
    OBVIOUS
  <2> QED BY OneUnits DEF Summable
<1>4. IsFiniteSet(UNION T)
  <2> HIDE DEF T
  <2> QED BY <1>2, <1>3, FS_UNION
<1> QED BY <1>4 DEF UnitsOf

LEMMA CountEmpty == \A f : UnitCount(f, {}) = 0
<1>1. \A f : UnitsOf(f, {}) = {}
  BY DEF UnitsOf
<1> QED BY <1>1, FS_EmptySet DEF UnitCount

LEMMA CountAdd ==
  ASSUME NEW f, NEW S, Summable(f, S), NEW x, x \notin S, f[x] \in Nat
  PROVE  UnitCount(f, S \cup {x}) = UnitCount(f, S) + f[x]
<1> DEFINE U == UnitsOf(f, S)
           V == {x} \X (1..f[x])
<1>1. UnitsOf(f, S \cup {x}) = U \cup V
  BY DEF UnitsOf
<1>2. U \cap V = {}
  BY DEF UnitsOf
<1>3. IsFiniteSet(U) /\ IsFiniteSet(V) /\ Cardinality(V) = f[x]
  BY UnitsFinite, OneUnits
<1>4. Cardinality(U \cup V) = Cardinality(U) + Cardinality(V) - Cardinality(U \cap V)
  <2> HIDE DEF U, V
  <2> QED BY <1>3, FS_Union
<1>5. Cardinality(U) \in Nat /\ Cardinality(U \cap V) = 0
  BY <1>2, <1>3, FS_CardinalityType, FS_EmptySet
<1>6. Cardinality(U \cup V) = Cardinality(U) + f[x]
  <2> HIDE DEF U, V
  <2> QED BY <1>3, <1>4, <1>5
<1> QED BY <1>1, <1>6 DEF UnitCount

LEMMA PartSummable == ASSUME NEW f, NEW S, Summable(f, S), NEW T \in SUBSET S PROVE Summable(f, T)
BY FS_Subset DEF Summable

\* A solution of the recursion.
IsSum(f, S, g) ==
  g = [T \in SUBSET S |-> IF T = {} THEN 0
                          ELSE f[CHOOSE x \in T : TRUE] + g[T \ {CHOOSE x \in T : TRUE}]]

LEMMA CountSolves ==
  ASSUME NEW f, NEW S, Summable(f, S) PROVE IsSum(f, S, [T \in SUBSET S |-> UnitCount(f, T)])
<1> DEFINE g == [T \in SUBSET S |-> UnitCount(f, T)]
<1>1. ASSUME NEW T \in SUBSET S, T # {}
      PROVE  g[T] = f[CHOOSE x \in T : TRUE] + g[T \ {CHOOSE x \in T : TRUE}]
  <2> DEFINE x == CHOOSE x \in T : TRUE
  <2>1. x \in T
    BY <1>1
  <2> HIDE DEF x
  <2>2. Summable(f, T \ {x}) /\ f[x] \in Nat /\ (T \ {x}) \cup {x} = T
    BY <2>1, PartSummable DEF Summable
  <2>3. UnitCount(f, (T \ {x}) \cup {x}) = UnitCount(f, T \ {x}) + f[x]
    BY <2>2, CountAdd
  <2>4. UnitCount(f, T \ {x}) \in Nat
    BY <2>2, UnitsFinite, FS_CardinalityType DEF UnitCount
  <2>5. g[T] = UnitCount(f, T) /\ g[T \ {x}] = UnitCount(f, T \ {x})
    OBVIOUS
  <2>6. UnitCount(f, T) = f[x] + UnitCount(f, T \ {x})
    <3>1. UnitCount(f, T) = UnitCount(f, T \ {x}) + f[x]
      BY <2>2, <2>3
    <3> QED BY <2>2, <2>4, <3>1
  <2> QED BY <2>5, <2>6 DEF x
<1>2. \A T \in SUBSET S : T = {} => g[T] = 0
  BY CountEmpty
<1>3. \A T \in SUBSET S : g[T] = IF T = {} THEN 0
         ELSE f[CHOOSE x \in T : TRUE] + g[T \ {CHOOSE x \in T : TRUE}]
  BY <1>1, <1>2
<1> QED BY <1>3 DEF IsSum

\* A set of naturals that is not empty has a least member.
LEMMA LeastNatural ==
  ASSUME NEW N \in SUBSET Nat, N # {} PROVE \E n \in N : \A m \in N : n <= m
<1> DEFINE Less == OpToRel(<, Nat)
<1>1. \A m, n \in Nat : <<m, n>> \in Less <=> m < n
  BY DEF OpToRel
<1>2. IsWellFoundedOn(Less, Nat)
  BY NatLessThanWellFounded
<1> HIDE DEF Less
<1>3. PICK n \in N : \A m \in N : ~(<<m, n>> \in Less)
  BY <1>2, WFMin
<1>4. ASSUME NEW m \in N PROVE n <= m
  <2>1. m \in Nat /\ n \in Nat
    OBVIOUS
  <2>2. ~(m < n)
    BY <1>1, <1>3, <2>1
  <2> QED BY <2>1, <2>2
<1> QED BY <1>4

\* Two solutions of the equation agree.
LEMMA SolutionUnique ==
  ASSUME NEW f, NEW S, Summable(f, S), NEW g, IsSum(f, S, g), NEW h, IsSum(f, S, h)
  PROVE  g[S] = h[S]
<1> DEFINE Bad == {T \in SUBSET S : g[T] # h[T]}
           Sizes == {n \in Nat : \E T \in Bad : Cardinality(T) = n}
<1>1. SUFFICES ASSUME Bad # {} PROVE FALSE
  OBVIOUS
<1>2. \A T \in SUBSET S : IsFiniteSet(T) /\ Cardinality(T) \in Nat
  BY FS_Subset, FS_CardinalityType DEF Summable
<1>3. Sizes # {}
  BY <1>1, <1>2
<1>4. PICK n \in Sizes : \A m \in Sizes : n <= m
  <2> HIDE DEF Sizes
  <2>1. Sizes \in SUBSET Nat
    BY DEF Sizes
  <2> QED BY <1>3, <2>1, LeastNatural
<1>5. PICK T \in Bad : Cardinality(T) = n
  OBVIOUS
<1>6. T \in SUBSET S /\ g[T] # h[T]
  OBVIOUS
<1>7. T # {}
  BY <1>6 DEF IsSum
<1> DEFINE x == CHOOSE x \in T : TRUE
<1>8. x \in T
  BY <1>7
<1>9. g[T] = f[x] + g[T \ {x}] /\ h[T] = f[x] + h[T \ {x}]
  BY <1>6, <1>7 DEF IsSum
<1> HIDE DEF x
<1>10. g[T \ {x}] = h[T \ {x}]
  <2>1. Cardinality(T \ {x}) = n - 1 /\ T \ {x} \in SUBSET S
    BY <1>2, <1>5, <1>6, <1>8, FS_RemoveElement
  <2>2. n - 1 \notin Sizes
    BY <1>4
  <2> QED BY <1>2, <2>1, <2>2
<1> QED BY <1>6, <1>9, <1>10

\* The sum is the number of units.
LEMMA SumCounts == ASSUME NEW f, NEW S, Summable(f, S) PROVE SumOver(f, S) = UnitCount(f, S)
<1> DEFINE g == CHOOSE g : IsSum(f, S, g)
           h == [T \in SUBSET S |-> UnitCount(f, T)]
<1>1. SumOver(f, S) = g[S]
  BY DEF SumOver, IsSum
<1>2. IsSum(f, S, h)
  BY CountSolves
<1>3. IsSum(f, S, g)
  <2> HIDE DEF h
  <2> QED BY <1>2
<1>4. g[S] = h[S]
  <2> HIDE DEF g, h
  <2> QED BY <1>2, <1>3, SolutionUnique
<1> QED BY <1>1, <1>4

-----------------------------------------------------------------------------
\* The sum over the empty set.
LEMMA SumEmpty == \A f : SumOver(f, {}) = 0
<1>1. \A f : Summable(f, {})
  BY FS_EmptySet DEF Summable
<1> QED BY <1>1, SumCounts, CountEmpty

\* A sum of naturals is a natural.
LEMMA SumType == ASSUME NEW f, NEW S, Summable(f, S) PROVE SumOver(f, S) \in Nat
BY SumCounts, UnitsFinite, FS_CardinalityType DEF UnitCount

\* One member more adds its amount.
LEMMA SumAdd ==
  ASSUME NEW f, NEW S, Summable(f, S), NEW x, x \notin S, f[x] \in Nat
  PROVE  SumOver(f, S \cup {x}) = SumOver(f, S) + f[x]
<1>1. Summable(f, S \cup {x})
  BY FS_AddElement DEF Summable
<1> QED BY <1>1, SumCounts, CountAdd

\* One member less takes its amount away.
LEMMA SumRemove ==
  ASSUME NEW f, NEW S, Summable(f, S), NEW x \in S
  PROVE  SumOver(f, S) = SumOver(f, S \ {x}) + f[x]
<1>1. Summable(f, S \ {x}) /\ f[x] \in Nat
  BY PartSummable DEF Summable
<1>2. (S \ {x}) \cup {x} = S
  OBVIOUS
<1>3. SumOver(f, (S \ {x}) \cup {x}) = SumOver(f, S \ {x}) + f[x]
  BY <1>1, SumAdd
<1> QED BY <1>2, <1>3

\* Only the values on the set matter.
LEMMA SumSame ==
  ASSUME NEW f, NEW S, Summable(f, S), NEW g, \A x \in S : g[x] = f[x]
  PROVE  SumOver(g, S) = SumOver(f, S)
<1>1. UnitsOf(g, S) = UnitsOf(f, S)
  BY DEF UnitsOf
<1>2. Summable(g, S)
  BY DEF Summable
<1> QED BY <1>1, <1>2, SumCounts DEF UnitCount
=============================================================================
