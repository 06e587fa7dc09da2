----------------------------- MODULE AgentsPanel -----------------------------
(***************************************************************************)
(* The page of the registered agents: a row, or all that is selected, is   *)
(* deregistered; a row is opened; and a dialog registers an agent.         *)
(* (AgentsPanel.tsx, AgentRegisterModal.tsx)                               *)
(***************************************************************************)
EXTENDS ManagedList

VARIABLES
    row,    \* the row that is opened, or NoId
    form,   \* the dialog: closed, or where its submission is; its fields and errors
    posts   \* the registrations in flight

agentsVars == <<listVars, row, form, posts>>

Fields == {"id", "caps", "meta"}
\* What a field holds is empty, well formed or not; only metadata may be empty.
Texts == {"empty", "good", "bad"}
Valid(f, text) == text = "good" \/ (f = "meta" /\ text = "empty")
EmptyFields == [f \in Fields |-> "empty"]
ClosedForm == [at |-> "closed", text |-> EmptyFields, errors |-> {}]

AgentsTypeOK ==
    /\ row \in Ids \cup {NoId}
    /\ form \in [at : {"closed", "idle", "submitting", "success", "error"},
                 text : [Fields -> Texts], errors : SUBSET Fields]
    /\ posts \subseteq [n : 1..MaxCalls, text : [Fields -> Texts],
                        answer : {"pending", "done", "refused"}, mine : BOOLEAN]

AgentsInit == ListInit /\ row = NoId /\ form = ClosedForm /\ posts = {}

PageFree == Free /\ form.at = "closed"

\* A row is offered for deregistration unless it is the one marked.
AskDeregister(i) ==
    /\ PageFree
    /\ list.shown[i] # "gone" /\ ui.busy # i
    /\ ui' = [ui EXCEPT !.asking = [id |-> i, op |-> "delete"]]
    /\ UNCHANGED <<server, list, calls, told, row, form, posts>>

\* handleDeregister.
Deregister ==
    /\ ui.asking # NoAsk
    /\ Called({ui.asking.id}, "delete", FALSE)
    /\ ui' = [ui EXCEPT !.asking = NoAsk, !.busy = ui.asking.id]
    /\ UNCHANGED <<server, list, row, form, posts>>

Deregistered(c) ==
    /\ c \in calls /\ ~c.bulk /\ c.waited
    /\ \E ok \in Heard({c}) : Settle({c}, ok, FALSE)
    /\ ui' = IF c.mine THEN [ui EXCEPT !.busy = NoId] ELSE ui
    /\ list' = LoadAfter({c})
    /\ UNCHANGED <<server, row, form, posts>>

\* The button of the selection bar, which is there while the list is not empty.
AskBulkDeregister ==
    /\ PageFree /\ ~ui.bulkBusy
    /\ ui.selected # {} /\ list.shown # Nothing
    /\ ui' = [ui EXCEPT !.bulkAsking = TRUE]
    /\ UNCHANGED <<server, list, calls, told, row, form, posts>>

\* handleBulkDeregister.
BulkDeregister ==
    /\ ui.bulkAsking
    /\ Called(ui.selected, "delete", TRUE)
    /\ ui' = [ui EXCEPT !.bulkAsking = FALSE, !.bulkBusy = TRUE]
    /\ UNCHANGED <<server, list, row, form, posts>>

BulkCalls(mine) == {c \in calls : c.bulk /\ c.waited /\ c.mine = mine}

\* Mutant of BulkDeregistered: one that succeeded is enough.
BulkDeregisteredAny(mine) ==
    /\ BulkCalls(mine) # {}
    /\ Settle(BulkCalls(mine), \E c \in BulkCalls(mine) : c.answer = "done", TRUE)
    /\ ui' = IF mine THEN [ui EXCEPT !.selected = {}, !.bulkBusy = FALSE] ELSE ui
    /\ list' = LoadAfter(BulkCalls(mine))
    /\ UNCHANGED <<server, row, form, posts>>

\* The rest of it, when all have ended: it succeeded if none failed.
BulkDeregistered(mine) ==
    /\ BulkCalls(mine) # {}
    /\ \E ok \in Heard(BulkCalls(mine)) : Settle(BulkCalls(mine), ok, TRUE)
    /\ ui' = IF mine THEN [ui EXCEPT !.selected = {}, !.bulkBusy = FALSE] ELSE ui
    /\ list' = LoadAfter(BulkCalls(mine))
    /\ UNCHANGED <<server, row, form, posts>>

\* A click on a row opens it, or closes it if it is the one opened.
ToggleRow(i) ==
    /\ PageFree /\ list.shown[i] # "gone"
    /\ row' = IF row = i THEN NoId ELSE i
    /\ UNCHANGED <<listVars, form, posts>>

-----------------------------------------------------------------------------

\* The dialog opens with nothing in it.
OpenForm ==
    /\ PageFree
    /\ form' = [ClosedForm EXCEPT !.at = "idle"]
    /\ UNCHANGED <<listVars, row, posts>>

\* Mutant of CloseForm: Escape is not looked at twice.
CloseFormAnyway ==
    /\ form.at # "closed"
    /\ form' = [form EXCEPT !.at = "closed"]
    /\ UNCHANGED <<listVars, row, posts>>

\* Escape, the cross, the backdrop, Cancel and Done; none while it submits.
CloseForm ==
    /\ form.at \notin {"closed", "submitting"}
    /\ form' = [form EXCEPT !.at = "closed"]
    /\ UNCHANGED <<listVars, row, posts>>

Editable == form.at \in {"idle", "error"}

\* Typing clears the error of a field; that of the id is computed at once.
TypeField(f, text) ==
    /\ Editable /\ form.text[f] # text
    /\ form' = [form EXCEPT !.text[f] = text,
                            !.errors = IF f = "id" /\ text = "bad" THEN @ \cup {f} ELSE @ \ {f}]
    /\ UNCHANGED <<listVars, row, posts>>

\* Leaving the field of the capabilities or the metadata.
LeaveField(f) ==
    /\ Editable /\ f # "id"
    /\ form' = [form EXCEPT !.errors = IF Valid(f, form.text[f]) THEN @ \ {f} ELSE @ \cup {f}]
    /\ UNCHANGED <<listVars, row, posts>>

Invalid == {f \in Fields : ~Valid(f, form.text[f])}

\* handleSubmit: all fields are validated again.
Submit ==
    /\ Editable
    /\ IF Invalid # {}
       THEN form' = [form EXCEPT !.errors = Invalid] /\ UNCHANGED <<posts, told>>
       ELSE /\ told.clicks < MaxCalls
            /\ told' = [told EXCEPT !.clicks = @ + 1]
            /\ form' = [form EXCEPT !.at = "submitting", !.errors = {}]
            /\ posts' = posts \cup {[n |-> told.clicks + 1, text |-> form.text,
                                     answer |-> "pending", mine |-> TRUE]}
    /\ UNCHANGED <<server, list, ui, calls, row>>

\* The registry takes the agent in, or refuses it.
ServePost(p) ==
    /\ p \in posts /\ p.answer = "pending"
    /\ \/ \E i \in Ids :
             /\ server' = [server EXCEPT ![i] = "running"]
             /\ posts' = (posts \ {p}) \cup {[p EXCEPT !.answer = "done"]}
             /\ told' = [told EXCEPT !.served = @ \cup {<<p.n, NoId>>}]
       \/ /\ posts' = (posts \ {p}) \cup {[p EXCEPT !.answer = "refused"]}
          /\ UNCHANGED <<server, told>>
    /\ UNCHANGED <<list, ui, calls, row, form>>

\* The rest of handleSubmit: only a success loads the list again.
Submitted(p) ==
    /\ p \in posts
    /\ posts' = posts \ {p}
    /\ \E ok \in Heard({p}) :
       /\ form' = IF p.mine THEN [form EXCEPT !.at = IF ok THEN "success" ELSE "error"] ELSE form
       /\ told' = [told EXCEPT !.ok = ok, !.bulk = FALSE, !.about = {<<p.n, NoId>>}]
       /\ list' = IF ~ok THEN list ELSE LoadAfter({p})
    /\ UNCHANGED <<server, ui, calls, row>>

\* An agent registers itself when it starts, or is registered by a call the
\* page no longer waits for.
Appears(i) ==
    /\ server[i] = "gone"
    /\ server' = [server EXCEPT ![i] = "running"]
    /\ UNCHANGED <<list, ui, calls, told, row, form, posts>>

\* The page is left and entered again.
RemountAgents ==
    /\ Remount
    /\ row' = NoId /\ form' = ClosedForm
    /\ posts' = {[p EXCEPT !.mine = FALSE] : p \in posts}

AgentsNext ==
    \/ ListNext /\ UNCHANGED <<row, form, posts>>
    \/ RemountAgents
    \/ \E i \in Ids : AskDeregister(i) \/ ToggleRow(i) \/ Appears(i)
    \/ Deregister \/ AskBulkDeregister \/ BulkDeregister
    \/ \E c \in calls : Deregistered(c)
    \/ \E m \in BOOLEAN : BulkDeregistered(m)
    \/ OpenForm \/ CloseForm \/ Submit
    \/ \E f \in Fields : LeaveField(f) \/ \E text \in Texts : TypeField(f, text)
    \/ \E p \in posts : ServePost(p) \/ Submitted(p)

AgentsSpec == AgentsInit /\ [][AgentsNext]_agentsVars

-----------------------------------------------------------------------------

\* What a toast says to have been deregistered or registered the registry has
\* deregistered or registered, for one agent and for each of many, whatever was
\* given up, refused or served late in between (handleDeregister,
\* handleBulkDeregister, handleSubmit).
SuccessIsTrue == told.ok => AllWasDone

\* A registration the dialog shows is under way is the only one of it, and the
\* dialog does not show another outcome until it has ended (handleSubmit).
FormWaitsForPost ==
    /\ form.at = "submitting" <=> \E p \in posts : p.mine
    /\ \A p, r \in posts : p.mine /\ r.mine => p = r

\* What is sent has no field that is wrong, whichever of them was edited after
\* its error had been shown, and no error is of a text that is no longer there
\* (validateAgentId, validateCapabilities, validateMetadata).
PostsAreValid ==
    /\ \A p \in posts : \A f \in Fields : Valid(f, p.text[f])
    /\ \A f \in form.errors : ~Valid(f, form.text[f])

\* The dialog shows the registration it waits for, and nothing wrong is sent,
\* however it is edited, closed and opened again around a request.
RegistrationIsSound == FormWaitsForPost /\ PostsAreValid

=============================================================================
