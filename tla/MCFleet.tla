------------------------------- MODULE MCFleet -------------------------------
(***************************************************************************)
(* A small instance of the pages of the kubexes and the agents: two ids    *)
(* that run at first, and two clicks that call the service.  The pages     *)
(* share no state that is not read again when one is entered, so a         *)
(* behavior is one of: the page of the kubexes, that of the agents, its    *)
(* dialog, the menu of the header, one row.                                *)
(***************************************************************************)
EXTENDS ContainersPanel, AgentsPanel, QuickActions, KubexRow, TLC

CONSTANTS i1, i2

VARIABLE part

pageVars == <<agentsVars, menu>>

vars == <<part, pageVars, rowVars>>

Symmetry == Permutations(Ids)

\* The parts a behavior is not about are in one of their initial states.
Init ==
    /\ part \in {"containers", "agents", "register", "quick", "row"}
    /\ IF part = "quick" THEN QuickInit /\ row = NoId /\ form = ClosedForm /\ posts = {}
       ELSE AgentsInit /\ menu = FALSE
    /\ part # "quick" => \A i \in Ids : server[i] = "running"
    /\ RowInit /\ (part # "row" => agent = "ready")

\* The agents appear in the part of the dialog, and go in the other.  The page
\* of the kubexes is left while it waits for a call; to restart a kubex has the
\* effect of respawning one.
Next ==
    /\ UNCHANGED part
    /\ \/ /\ UNCHANGED rowVars
          /\ \/ /\ part = "containers" /\ ContainersNext /\ UNCHANGED <<row, form, posts, menu>>
                /\ ui'.asking.op # "restart"
                /\ Remount => \E c \in calls : c.answer = "pending"
             \/ /\ part = "agents" /\ AgentsNext /\ UNCHANGED menu
                /\ row' = NoId /\ form' = ClosedForm
                /\ \A i \in Ids : server'[i] = "running" => server[i] = "running"
             \/ part = "register" /\ AgentsNext /\ ui' = ClosedUi /\ UNCHANGED menu
             \/ part = "quick" /\ QuickNext /\ UNCHANGED <<row, form, posts>>
       \/ part = "row" /\ RowNext /\ UNCHANGED pageVars

Spec == Init /\ [][Next]_vars

FleetTypeOK == ListTypeOK /\ AgentsTypeOK /\ menu \in BOOLEAN /\ RowTypeOK

\* What the pages report as done the service has done, each call and, on the
\* page of the agents, each of many; a bulk action on kubexes reports success
\* for calls that were refused too (BulkSuccessIsTrue).
ReportsAreTrue ==
    /\ PanelReportsTruly
    /\ part \in {"agents", "register"} => SuccessIsTrue
=============================================================================
