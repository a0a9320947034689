---------------------------------- MODULE Sums ----------------------------------
(***************************************************************************)
(* The sum of amounts over a set of records, for the conservation           *)
(* properties of the money modules: a recursive function over the subsets,  *)
(* which takes out one member after the other.                              *)
(***************************************************************************)
EXTENDS Integers, FiniteSets

\* The sum of the naturals f[x] for x in the finite set S.
SumOver(f, S) ==
  LET sum[T \in SUBSET S] ==
        IF T = {} THEN 0
        ELSE LET x == CHOOSE x \in T : TRUE IN f[x] + sum[T \ {x}]
  IN  sum[S]
=============================================================================
