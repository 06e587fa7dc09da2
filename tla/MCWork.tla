-------------------------------- MODULE MCWork --------------------------------
(***************************************************************************)
(* A small instance of where the work is done: the tables, the wizard, the *)
(* page of one agent, and the forms that dispatch.  They have no state in  *)
(* common, so a behavior is about one of them.  The page of an agent is    *)
(* looked at twice, for its lifecycle and for what is asked meanwhile, and *)
(* the forms three times: each by itself, with all that may be typed, and  *)
(* both together.                                                          *)
(***************************************************************************)
EXTENDS Tables, Spawn, AgentDetail, Dispatch, TLC

CONSTANTS a, b

VARIABLE part

vars == <<part, tableVars, spawnVars, detailVars, dispatchVars>>

Symmetry == Permutations(Agents)

RowsUsed == {1, 2, 3}
RowSetsUsed == {RowsUsed, {3}}
FoundUsed == [s \in {"", "a"} |-> IF s = "" THEN RowsUsed ELSE {2}]
OfStatusUsed == [s \in {"running"} |-> {1, 2}]

Init ==
    /\ part \in {"table", "spawn", "live", "detail", "tab", "dialog", "both"}
    /\ TableInit /\ SpawnInit /\ DetailInit /\ DispatchInit
    /\ part # "table" => kind = "agents" /\ rows = {3}
    /\ registry = [x \in Agents |-> "running"]

\* The lifecycle is followed while nothing changes; otherwise what is waited
\* for is bounded, and an agent goes by itself or changes when it is told to.
DetailStep ==
    /\ DetailNext
    /\ part = "live" => patches' = {} /\ registry' = registry
    /\ part = "detail" =>
           /\ page'.tab # "live"
           /\ Cardinality(patches') + Len(get'.waiting) <= 2
           /\ \E x \in Agents : registry'[x] # "gone"
           /\ \A x \in Agents : registry'[x] \in {registry[x], "gone"} \/ patches' # patches

DispatchStep ==
    /\ DispatchNext
    /\ part = "tab" => ~forms'["dialog"].open
    /\ part = "dialog" => ~forms'["tab"].open /\ log'.sent < MaxDispatches
    /\ part = "both" => /\ ~hints'.known /\ log'.sent < MaxDispatches
                        /\ \A f \in {"tab", "dialog"} : /\ forms'[f].text["cap"] \in {"", "good"}
                                                        /\ forms'[f].text["msg"] \in {"", "good"}
                                                        /\ "msg" \notin forms'[f].errors

Next ==
    /\ UNCHANGED part
    /\ \/ part = "table" /\ TableNext /\ UNCHANGED <<spawnVars, detailVars, dispatchVars>>
       \/ part = "spawn" /\ SpawnNext /\ UNCHANGED <<tableVars, detailVars, dispatchVars>>
       \/ /\ part \in {"live", "detail"} /\ DetailStep
          /\ UNCHANGED <<tableVars, spawnVars, dispatchVars>>
       \/ /\ part \in {"tab", "dialog", "both"} /\ DispatchStep
          /\ UNCHANGED <<tableVars, spawnVars, detailVars>>

Spec == Init /\ [][Next]_vars

(***************************************************************************)
(* Whatever is clicked, typed or answered, what each of these places keeps *)
(* stays of the kinds its components declare; the log of an agent's stream *)
(* never outgrows the lines the page keeps of it.                          *)
(***************************************************************************)
WorkTypeOK == TableTypeOK /\ SpawnTypeOK /\ DetailTypeOK /\ DispatchTypeOK
=============================================================================
