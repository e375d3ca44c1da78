-------------------------------- MODULE Listing --------------------------------
(***************************************************************************)
(* The members of a set of numbers, by their rank.                         *)
(***************************************************************************)
EXTENDS Naturals, FiniteSets

\* The n-th of them, the least first.
Nth(S, n) == CHOOSE x \in S : Cardinality({y \in S : y < x}) = n - 1

=============================================================================
