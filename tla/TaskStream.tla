----------------------------- MODULE TaskStream -----------------------------
(***************************************************************************)
(* How the outcome of a task reaches a browser: the worker posts a final   *)
(* progress message, which the Gateway publishes on the Redis channel of   *)
(* the task, and stores the result; each connection to                     *)
(* GET /tasks/{task_id}/stream is a generator that looks for a stored      *)
(* result, subscribes to the channel and passes on what it hears.          *)
(* (receive_progress and stream_task_progress of services/gateway, and the *)
(* ends of a task in agents/_base/kubex_harness.)                          *)
(*                                                                         *)
(* Pub/sub keeps nothing: who subscribes late has missed it.  Messages     *)
(* before the final one are left out.                                      *)
(***************************************************************************)
EXTENDS Naturals, Sequences

CONSTANTS
    Tasks,
    NoTask,
    Conns,
    StoreFirst,  \* the worker stores the result before it posts the final
                 \* message (CLI runtime), or after (standalone, MCP bridge)
    Reachable,   \* connections to the Gateway can be made
    MaxFaults    \* bound: failed posts, failed Redis calls, connections
                 \* that break or cannot be made

ASSUME NoTaskAssumption == NoTask \notin Tasks
ASSUME StoreFirstAssumption == StoreFirst \in BOOLEAN
ASSUME ReachableAssumption == Reachable \in BOOLEAN
ASSUME MaxFaultsAssumption == MaxFaults \in Nat

VARIABLES
    work,    \* work[t]: how far the worker of t has come
    result,  \* result[t]: Redis key task:result:{t}
    conn,    \* conn[c]: the generator that serves connection c
    wire,    \* wire[c]: events sent to the browser and not yet handled there
    faults

streamVars == <<work, result, conn, wire, faults>>

Stored == {"completed", "failed"}

\* "final" is a progress message with final = True and no type; a member of
\* Stored is a message of type "result" with that status; "end" is what the
\* browser sees when the connection closes.
Events == {"open", "final", "end"} \cup Stored

NoConn == [task |-> NoTask, at |-> "off"]

StreamTypeOK ==
    /\ work \in [Tasks -> {"unsent", "running", "half", "done"}]
    /\ result \in [Tasks -> {"none"} \cup Stored]
    /\ conn \in [Conns -> [task : Tasks \cup {NoTask},
                           at : {"off", "check", "subscribe", "listen", "over"}]]
    /\ wire \in [Conns -> Seq(Events)]
    /\ \A c \in Conns : Len(wire[c]) <= 3
    /\ faults \in 0..MaxFaults

StreamInit ==
    /\ work = [t \in Tasks |-> "unsent"]
    /\ result = [t \in Tasks |-> "none"]
    /\ conn = [c \in Conns |-> NoConn]
    /\ wire = [c \in Conns |-> <<>>]
    /\ faults = 0

Fault == faults < MaxFaults /\ faults' = faults + 1

-----------------------------------------------------------------------------
(* Connections                                                             *)

\* Connection c is opened for task t, and the browser closes those of cs.  The
\* headers are sent before the generator runs; a connection that cannot be
\* made ends at once.
Opened(c, t, cs) ==
    \E up \in BOOLEAN :
        /\ up => Reachable
        /\ IF Reachable /\ ~up THEN Fault ELSE UNCHANGED faults
        /\ conn' = [d \in Conns |-> IF d = c THEN [task |-> t, at |-> IF up THEN "check" ELSE "over"]
                                    ELSE IF d \in cs THEN NoConn ELSE conn[d]]
        /\ wire' = [d \in Conns |-> IF d = c THEN IF up THEN <<"open">> ELSE <<"end">>
                                    ELSE IF d \in cs THEN <<>> ELSE wire[d]]

\* The generator of c returns after it has sent the events of es.
Return(c, es) ==
    /\ conn' = [conn EXCEPT ![c].at = "over"]
    /\ wire' = [wire EXCEPT ![c] = @ \o es \o <<"end">>]

\* A result that is stored already is sent as a message of type "result",
\* whatever its status; an error of Redis counts as no result.
CheckResult(c) ==
    /\ conn[c].at = "check"
    /\ \/ /\ result[conn[c].task] \in Stored
          /\ Return(c, <<result[conn[c].task]>>)
          /\ UNCHANGED faults
       \/ /\ IF result[conn[c].task] \in Stored THEN Fault ELSE UNCHANGED faults
          /\ conn' = [conn EXCEPT ![c].at = "subscribe"]
          /\ UNCHANGED wire
    /\ UNCHANGED <<work, result>>

Subscribe(c) ==
    /\ conn[c].at = "subscribe"
    /\ conn' = [conn EXCEPT ![c].at = "listen"]
    /\ UNCHANGED <<work, result, wire, faults>>

\* The connection breaks, or the Gateway is restarted.
Break(c) ==
    /\ conn[c].at \in {"check", "subscribe", "listen"}
    /\ Fault
    /\ Return(c, <<>>)
    /\ UNCHANGED <<work, result>>

Generator(c) == CheckResult(c) \/ Subscribe(c)

-----------------------------------------------------------------------------
(* The worker                                                              *)

Listeners(t) == {c \in Conns : conn[c] = [task |-> t, at |-> "listen"]}

\* Mutant: the generator does not end on final = True (BUG-001).
PublishEndless(t) ==
    /\ wire' = [c \in Conns |-> IF c \in Listeners(t) THEN wire[c] \o <<"final">> ELSE wire[c]]
    /\ UNCHANGED conn

\* The final message reaches those who listen, and ends their generators.
Publish(t) ==
    /\ wire' = [c \in Conns |-> IF c \in Listeners(t) THEN wire[c] \o <<"final", "end">>
                                                      ELSE wire[c]]
    /\ conn' = [c \in Conns |-> IF c \in Listeners(t) THEN [conn[c] EXCEPT !.at = "over"]
                                                      ELSE conn[c]]

\* The worker goes on whether its posts succeed or not.
Final(t) ==
    /\ work[t] = IF StoreFirst THEN "half" ELSE "running"
    /\ work' = [work EXCEPT ![t] = IF StoreFirst THEN "done" ELSE "half"]
    /\ \/ Publish(t) /\ UNCHANGED faults
       \/ Fault /\ UNCHANGED <<conn, wire>>
    /\ UNCHANGED result

Store(t) ==
    /\ work[t] = IF StoreFirst THEN "running" ELSE "half"
    /\ work' = [work EXCEPT ![t] = IF StoreFirst THEN "half" ELSE "done"]
    /\ \/ \E s \in Stored : result' = [result EXCEPT ![t] = s] /\ UNCHANGED faults
       \/ Fault /\ UNCHANGED result
    /\ UNCHANGED <<conn, wire>>

Worker(t) == Final(t) \/ Store(t)

\* The broker hands the task to its worker.
Dispatch(t) ==
    /\ work[t] = "unsent"
    /\ work' = [work EXCEPT ![t] = "running"]
    /\ UNCHANGED <<result, conn, wire, faults>>
=============================================================================
