-------------------------- MODULE MCTaskDelivery --------------------------
(***************************************************************************)
(* Small instances of TaskDelivery for TLC.  The .cfg files choose tasks,  *)
(* groups and agents; the functions over them are defined here.            *)
(***************************************************************************)
EXTENDS TaskDelivery, TLC

CONSTANTS t1, t2, t3, a, b, w1, w2

\* every task goes to capability a, every agent has capability a
CapOfSame == [t \in Tasks |-> a]
CapsOfSame == [w \in Workers |-> {a}]

\* t1 goes to a, the others to b; w1 serves both capabilities, w2 only b
CapOfMixed == [t \in Tasks |-> IF t = t1 THEN a ELSE b]
CapsOfMixed == [w \in Workers |-> IF w = w1 THEN {a, b} ELSE {b}]

\* sound for the safety runs in which all tasks and all agents are alike
Alike == Permutations({t1, t2, t3}) \cup Permutations({w1, w2})
=============================================================================
