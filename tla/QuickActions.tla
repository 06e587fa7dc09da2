---------------------------- MODULE QuickActions ----------------------------
(***************************************************************************)
(* The menu of the header that kills and starts kubexes: it reads the list *)
(* when it is opened, and from then on shows what its own calls did.       *)
(* (QuickActionsMenu.tsx)                                                  *)
(***************************************************************************)
EXTENDS ManagedList

VARIABLE menu   \* the menu is open

QuickInit ==
    /\ server \in [Ids -> {"running", "stopped"}]
    /\ list = [shown |-> Nothing, get |-> "none", snap |-> Nothing,
               waiting |-> FALSE, polling |-> FALSE]
    /\ ui = ClosedUi
    /\ calls = {}
    /\ told = NothingTold
    /\ menu = FALSE

\* The effect that loads: a GET of before may still be in flight.
OpenMenu ==
    /\ ~menu
    /\ menu' = TRUE
    /\ list' = Load(list)
    /\ UNCHANGED <<server, ui, calls, told>>

\* A click on the button or outside, or Escape: the answer is not looked at.
CloseQuickMenu ==
    /\ menu
    /\ menu' = FALSE
    /\ list' = [list EXCEPT !.waiting = FALSE]
    /\ UNCHANGED <<server, ui, calls, told>>

\* The rows are there when the list is; a row is locked while it is the one
\* that was clicked last.
QuickOffers(i) ==
    IF ~menu \/ list.waiting \/ ui.busy = i \/ list.shown[i] = "gone" THEN {}
    ELSE IF list.shown[i] = "running" THEN {"kill"} ELSE {"start"}

\* handleKill and handleStart.
QuickClick(i, op) ==
    /\ op \in QuickOffers(i)
    /\ Called({i}, op, FALSE)
    /\ ui' = [ui EXCEPT !.busy = i]
    /\ UNCHANGED <<server, list, menu>>

\* The rest: the row shows what was done, and the list is not loaded.
QuickAnswered(c) ==
    /\ c \in calls /\ c.waited
    /\ \E ok \in Heard({c}) :
          /\ Settle({c}, ok, FALSE)
          /\ list' = IF ok /\ list.shown[c.id] # "gone"
                     THEN [list EXCEPT !.shown[c.id] = c.to] ELSE list
    /\ ui' = [ui EXCEPT !.busy = NoId]
    /\ UNCHANGED <<server, menu>>

QuickNext ==
    \/ OpenMenu \/ CloseQuickMenu
    \/ (ServeGet \/ GetAnswered \/ GetFailed \/ \E c \in calls : Serve(c)) /\ UNCHANGED menu
    \/ \E i \in Ids : \E op \in {"kill", "start"} : QuickClick(i, op)
    \/ \E c \in calls : QuickAnswered(c)

=============================================================================
