------------------------------ MODULE TaskQueue ------------------------------
(***************************************************************************)
(* What the broker and the agents promise together about a dispatched      *)
(* task, without streams, groups, agents or a reaper.                      *)
(*                                                                         *)
(* A submitted task is live, that is, still to be handed to an agent,      *)
(* until it is closed.  It may only be closed when it has an outcome, a    *)
(* result or a place in the dead letter queue, or when a failure excuses   *)
(* the loss.  Outcomes may come early (before the task is closed), late    *)
(* and more than once; they are not taken back.                            *)
(***************************************************************************)
CONSTANT Tasks

VARIABLES
    status,     \* status[t]: "unsent", "live" or "closed"
    outcome,    \* outcome[t]: subset of {"result", "dead"}
    excused     \* tasks whose loss a failure excuses

qvars == <<status, outcome, excused>>

Init ==
    /\ status = [t \in Tasks |-> "unsent"]
    /\ outcome = [t \in Tasks |-> {}]
    /\ excused = {}

Submit(t) ==
    /\ status[t] = "unsent"
    /\ status' = [status EXCEPT ![t] = "live"]
    /\ UNCHANGED outcome

Answer(t, o) ==
    /\ status[t] # "unsent"
    /\ outcome' = [outcome EXCEPT ![t] = @ \cup {o}]
    /\ UNCHANGED status

\* Several tasks may be closed at once.
Close(S) ==
    /\ \A t \in S : status[t] = "live" /\ (outcome[t] # {} \/ t \in excused')
    /\ status' = [t \in Tasks |-> IF t \in S THEN "closed" ELSE status[t]]
    /\ UNCHANGED outcome

\* Failures come from outside: excused may grow in any step.
Next ==
    /\ excused' \in SUBSET Tasks
    /\ excused \subseteq excused'
    /\ \/ \E t \in Tasks : Submit(t)
       \/ \E t \in Tasks, o \in {"result", "dead"} : Answer(t, o)
       \/ \E S \in SUBSET Tasks : Close(S)

Spec == Init /\ [][Next]_qvars
=============================================================================
