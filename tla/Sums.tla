---------------------------------- MODULE Sums ----------------------------------
(***************************************************************************)
(* Sums of charges.  A sum is a count of units, one for each unit charged: *)
(* unlike a fold it can be reasoned about without induction over the set.  *)
(***************************************************************************)
EXTENDS Integers, FiniteSets

UnitsOf(S, f) == UNION {{x} \X (1 .. f[x]) : x \in S}

\* The sum of f[x] over S.
Total(S, f) == Cardinality(UnitsOf(S, f))

\* The sum of a sequence of numbers.
SumOf(s) == Total(DOMAIN s, s)
================================================================================
