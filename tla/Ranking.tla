-------------------------------- MODULE Ranking --------------------------------
(***************************************************************************)
(* Sorting by rank: what a comparison makes of the elements of an array,   *)
(* where no two of them compare equal (Array.prototype.sort is stable, so  *)
(* ties are broken by the place in the array).                             *)
(***************************************************************************)
EXTENDS Integers, FiniteSets

\* The elements of S in the order R, a set of pairs: the i-th is the one that
\* i - 1 others come before.
Ranked(S, R) ==
    [i \in 1..Cardinality(S) |->
        CHOOSE r \in S : Cardinality({q \in S : <<q, r>> \in R}) = i - 1]

=============================================================================
