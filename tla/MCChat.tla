------------------------------- MODULE MCChat -------------------------------
(***************************************************************************)
(* Small instances of Chat for TLC.                                        *)
(***************************************************************************)
EXTENDS Chat, TLC

CONSTANTS t1, t2

\* The tasks differ in nothing but their names; used where no liveness is checked.
AnyTaskFirst == Permutations(Tasks)
=============================================================================
