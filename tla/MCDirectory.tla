------------------------------ MODULE MCDirectory ------------------------------
(***************************************************************************)
(* Small instances of the Registry with the Bridge.                        *)
(***************************************************************************)
EXTENDS AgentDirectory, TLC

CONSTANTS a1, a2, c1, running, stopped

Alike == Permutations(Agents) \cup Permutations(Statuses)
=============================================================================
