--------------------------- MODULE ContainersPanel ---------------------------
(***************************************************************************)
(* The page of the kubexes: what its rows and its selection offer, and     *)
(* what their handlers do.  (ContainersPanel.tsx)                          *)
(***************************************************************************)
EXTENDS ManagedList

\* The buttons of a row by the status shown; they are disabled while the row
\* is the one marked busy.
RowOffers(status) ==
    CASE status = "running"             -> {"stop", "restart", "kill", "delete"}
      [] status \in {"created", "stopped", "error"} -> {"start", "respawn", "delete"}
      [] OTHER                          -> {}

Offered(i) == IF ui.busy = i THEN {} ELSE RowOffers(list.shown[i])

Confirmed == {"kill", "restart", "respawn", "delete"}

\* requestKill, requestRestart, requestRespawn and requestDelete.
Ask(i, op) ==
    /\ Free
    /\ op \in Offered(i) \cap Confirmed
    /\ ui' = [ui EXCEPT !.asking = [id |-> i, op |-> op]]
    /\ UNCHANGED <<server, list, calls, told>>

\* handleConfirmedAction: the row may have changed since it was asked.
Confirm ==
    /\ ui.asking # NoAsk
    /\ Called({ui.asking.id}, ui.asking.op, FALSE)
    /\ ui' = [ui EXCEPT !.asking = NoAsk, !.busy = ui.asking.id]
    /\ UNCHANGED <<server, list>>

\* handleStart and handleStop.
StartOrStop(i, op) ==
    /\ Free
    /\ op \in Offered(i) \ Confirmed
    /\ Called({i}, op, FALSE)
    /\ ui' = [ui EXCEPT !.busy = i]
    /\ UNCHANGED <<server, list>>

\* The rest of those handlers: the mark is taken away, whichever row has it,
\* the toast added and the list loaded.
RowAnswered(c) ==
    /\ c \in calls /\ ~c.bulk /\ c.waited
    /\ \E ok \in Heard({c}) : Settle({c}, ok, FALSE)
    /\ ui' = IF c.mine THEN [ui EXCEPT !.busy = NoId] ELSE ui
    /\ list' = LoadAfter({c})
    /\ UNCHANGED server

\* The selection bar offers to kill if a selected row runs, to start if one
\* does not.
BulkOffers ==
    {op \in {"kill", "start"} : \E i \in ui.selected : op \in RowOffers(list.shown[i])}

AskBulkKill ==
    /\ Free /\ ~ui.bulkBusy /\ "kill" \in BulkOffers
    /\ ui' = [ui EXCEPT !.bulkAsking = TRUE]
    /\ UNCHANGED <<server, list, calls, told>>

\* handleBulkKill and handleBulkStart: all that is selected, whatever its
\* status is by now and whether the list still shows it.
BulkKill ==
    /\ ui.bulkAsking
    /\ Called(ui.selected, "kill", TRUE)
    /\ ui' = [ui EXCEPT !.bulkAsking = FALSE, !.bulkBusy = TRUE]
    /\ UNCHANGED <<server, list>>

BulkStart ==
    /\ Free /\ ~ui.bulkBusy /\ "start" \in BulkOffers
    /\ Called(ui.selected, "start", TRUE)
    /\ ui' = [ui EXCEPT !.bulkBusy = TRUE]
    /\ UNCHANGED <<server, list>>

\* The calls that belong together: those of this page or of the one before.
Bulk(mine) == {c \in calls : c.bulk /\ c.waited /\ c.mine = mine}

\* The rest: no call rejects, so allSettled counts every one a success.
BulkAnswered(mine) ==
    /\ Bulk(mine) # {}
    /\ Settle(Bulk(mine), TRUE, TRUE)
    /\ ui' = IF mine THEN [ui EXCEPT !.selected = {}, !.bulkBusy = FALSE] ELSE ui
    /\ list' = LoadAfter(Bulk(mine))
    /\ UNCHANGED server

ContainersNext ==
    \/ ListNext \/ Remount
    \/ \E i \in Ids, op \in Ops : Ask(i, op) \/ StartOrStop(i, op)
    \/ Confirm \/ AskBulkKill \/ BulkKill \/ BulkStart
    \/ \E c \in calls : RowAnswered(c)
    \/ \E m \in BOOLEAN : BulkAnswered(m)

ContainersSpec == ListInit /\ [][ContainersNext]_listVars

-----------------------------------------------------------------------------

\* What a toast says of a row's action to have succeeded the service has done,
\* whatever else was called, given up or served late in between, and also when
\* the page that called was left (handleConfirmedAction, handleStart,
\* handleStop); and a page is busy with one selection exactly until its calls
\* have ended (handleBulkKill, handleBulkStart).
PanelReportsTruly ==
    /\ told.ok /\ ~told.bulk => AllWasDone
    /\ ui.bulkBusy <=> Bulk(TRUE) # {}

\* The message "Killed N kubexes": N of them were (handleBulkKill).
BulkSuccessIsTrue == told.ok => AllWasDone

=============================================================================
