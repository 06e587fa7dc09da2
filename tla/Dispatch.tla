------------------------------ MODULE Dispatch ------------------------------
(***************************************************************************)
(* The two forms that dispatch a task to an agent, that of the agent's     *)
(* page (ActionsTab of AgentDetailPage) and that of the dialog which opens *)
(* over any page (QuickDispatchModal), and the traffic log both write to   *)
(* (addTrafficEntry of AppContext).  The gateway is external.              *)
(***************************************************************************)
EXTENDS Naturals, Sequences, FiniteSets

CONSTANTS
    MaxLog,         \* the log keeps so many entries: the code 500
    MaxDispatches   \* bounds the dispatches of a behavior

ASSUME MaxLogAssumption == MaxLog \in Nat \ {0}
ASSUME MaxDispatchesAssumption == MaxDispatches \in Nat

VARIABLES
    forms,      \* the two forms
    hints,      \* the capabilities the dialog proposes
    actions,    \* the requests in flight
    accepted,   \* the dispatches the gateway has accepted
    log         \* the traffic log, newest first, and how many were added to it

dispatchVars == <<forms, hints, actions, accepted, log>>

\* What a field holds; "go" is the beginning of a capability that is known.
Texts == {"", "go", "good", "bad"}
Valid(text) == text \in {"go", "good"}
\* How many of the known capabilities contain it.
Matches(text) == IF hints.known THEN CASE text = "go" -> 2 [] text = "good" -> 1 [] OTHER -> 0 ELSE 0

FormFields == {"cap", "msg"}
EmptyForm == [open |-> FALSE, text |-> [f \in FormFields |-> ""], errors |-> {}, sending |-> FALSE,
              result |-> "none", own |-> TRUE]

DispatchTypeOK ==
    /\ forms \in [{"tab", "dialog"} ->
                  [open : BOOLEAN, text : [FormFields -> Texts], errors : SUBSET FormFields,
                   sending : BOOLEAN, result : {"none", "ok", "error"}, own : BOOLEAN]]
    /\ hints \in [known : BOOLEAN, shown : BOOLEAN, at : 0..2]
    /\ actions \subseteq [n : 1..MaxDispatches, form : {"tab", "dialog"}, text : [FormFields -> Texts],
                          mine : BOOLEAN, answer : {"pending", "accepted", "refused"}]
    /\ accepted \subseteq 1..MaxDispatches
    /\ log \in [entries : Seq([n : 1..MaxDispatches, allowed : BOOLEAN]),
                sent : 0..MaxDispatches, ended : 0..MaxDispatches]

DispatchInit ==
    /\ forms = [f \in {"tab", "dialog"} |-> EmptyForm]
    /\ hints = [known |-> FALSE, shown |-> FALSE, at |-> 0]
    /\ actions = {} /\ accepted = {}
    /\ log = [entries |-> <<>>, sent |-> 0, ended |-> 0]

Forgotten(form) == {IF c.form = form THEN [c EXCEPT !.mine = FALSE] ELSE c : c \in actions}

\* The tab proposes the first capability of its agent.
OpenTab ==
    /\ ~forms["tab"].open
    /\ forms' = [forms EXCEPT !["tab"] = [EmptyForm EXCEPT !.open = TRUE, !.text["cap"] = "good"]]
    /\ UNCHANGED <<hints, actions, accepted, log>>

LeaveTab ==
    /\ forms["tab"].open
    /\ forms' = [forms EXCEPT !["tab"] = EmptyForm]
    /\ actions' = Forgotten("tab")
    /\ UNCHANGED <<hints, accepted, log>>

\* Mutant of OpenDialog: it is reset altogether.
OpenDialogFree ==
    /\ ~forms["dialog"].open
    /\ forms' = [forms EXCEPT !["dialog"] = [EmptyForm EXCEPT !.open = TRUE]]
    /\ hints' = [hints EXCEPT !.shown = FALSE, !.at = 0]
    /\ actions' = Forgotten("dialog")
    /\ UNCHANGED <<accepted, log>>

\* The dialog is reset when it opens, but for what it waits for.
OpenDialog ==
    /\ ~forms["dialog"].open
    /\ forms' = [forms EXCEPT !["dialog"] =
                     [EmptyForm EXCEPT !.open = TRUE, !.sending = forms["dialog"].sending]]
    /\ hints' = [hints EXCEPT !.shown = FALSE, !.at = 0]
    /\ actions' = Forgotten("dialog")
    /\ UNCHANGED <<accepted, log>>

\* handleClose, or Escape and Ctrl+D, which the frame handles.
CloseDialog(reset) ==
    /\ forms["dialog"].open
    /\ forms' = [forms EXCEPT !["dialog"].open = FALSE,
                              !["dialog"].result = IF reset THEN "none" ELSE @]
    /\ UNCHANGED <<hints, actions, accepted, log>>

\* The agents are loaded, or an agent is chosen: the proposals are made again.
HintsChange ==
    /\ forms["dialog"].open /\ ~hints.known
    /\ hints' = [known |-> TRUE, at |-> 0, shown |-> forms["dialog"].text["cap"] \in {"go", "good"}]
    /\ UNCHANGED <<forms, actions, accepted, log>>

\* The tab validates while one types, and is locked while it sends.
TypeTab(f, text) ==
    /\ forms["tab"].open /\ ~forms["tab"].sending /\ text # forms["tab"].text[f]
    /\ forms' = [forms EXCEPT !["tab"].text[f] = text,
                     !["tab"].errors = IF text = "" \/ Valid(text) THEN @ \ {f} ELSE @ \cup {f}]
    /\ UNCHANGED <<hints, actions, accepted, log>>

\* The chips are not locked.
PickChip ==
    /\ forms["tab"].open
    /\ forms' = [forms EXCEPT !["tab"].text["cap"] = "good", !["tab"].errors = @ \ {"cap"}]
    /\ UNCHANGED <<hints, actions, accepted, log>>

\* The proposals follow the capability.
Proposed(text) == [hints EXCEPT !.shown = Matches(text) > 0, !.at = 0]

TypeDialog(f, text) ==
    /\ forms["dialog"].open /\ text # forms["dialog"].text[f]
    /\ forms' = [forms EXCEPT !["dialog"].text[f] = text, !["dialog"].errors = @ \ {f}]
    /\ hints' = IF f = "cap" THEN Proposed(text) ELSE hints
    /\ UNCHANGED <<actions, accepted, log>>

\* handleCapBlur and handleMsgBlur.
LeaveDialogField(f) ==
    /\ forms["dialog"].open /\ forms["dialog"].text[f] # ""
    /\ forms' = [forms EXCEPT !["dialog"].errors =
                     IF Valid(forms["dialog"].text[f]) THEN @ \ {f} ELSE @ \cup {f}]
    /\ UNCHANGED <<hints, actions, accepted, log>>

\* handleCapKeyDown; position 0 is none.
MoveHint(down) ==
    /\ forms["dialog"].open /\ hints.shown
    /\ hints' = [hints EXCEPT !.at =
           IF down THEN IF @ < Matches(forms["dialog"].text["cap"]) THEN @ + 1 ELSE @
           ELSE IF @ > 0 THEN @ - 1 ELSE 0]
    /\ UNCHANGED <<forms, actions, accepted, log>>

\* Enter on a proposal, or a click: the list is hidden, and shown again by the
\* effect if the field has changed, for what was picked matches itself.
PickHint(i) ==
    /\ forms["dialog"].open /\ hints.shown /\ i \in 1..Matches(forms["dialog"].text["cap"])
    /\ forms' = [forms EXCEPT !["dialog"].text["cap"] = "good", !["dialog"].errors = @ \ {"cap"}]
    /\ hints' = IF forms["dialog"].text["cap"] = "good" THEN [hints EXCEPT !.shown = FALSE, !.at = 0]
                ELSE Proposed("good")
    /\ UNCHANGED <<actions, accepted, log>>

Invalid(form) == {f \in FormFields : ~Valid(forms[form].text[f])}

\* What the button of the tab is locked by, but not Ctrl+Enter; that of the
\* dialog is locked while it sends.
MaySubmit(form) == forms[form].open /\ ~forms[form].sending

\* handleDispatch of either.
Submit(form) ==
    /\ MaySubmit(form)
    /\ IF Invalid(form) # {}
       THEN /\ forms' = [forms EXCEPT ![form].errors = Invalid(form)]
            /\ UNCHANGED <<actions, log>>
       ELSE /\ log.sent < MaxDispatches
            /\ forms' = [forms EXCEPT ![form].errors = {}, ![form].sending = TRUE, ![form].result = "none"]
            /\ log' = [log EXCEPT !.sent = @ + 1]
            /\ actions' = actions \cup {[n |-> log.sent + 1, form |-> form, text |-> forms[form].text,
                                         mine |-> TRUE, answer |-> "pending"]}
    /\ UNCHANGED <<hints, accepted>>

\* The gateway accepts the task or refuses it.
ServeAction(c) ==
    /\ c \in actions /\ c.answer = "pending"
    /\ \E answer \in {"accepted", "refused"} :
          /\ actions' = (actions \ {c}) \cup {[c EXCEPT !.answer = answer]}
          /\ accepted' = IF answer = "accepted" THEN accepted \cup {c.n} ELSE accepted
    /\ UNCHANGED <<forms, hints, log>>

Least(a, b) == IF a < b THEN a ELSE b

\* addTrafficEntry.
Logged(n, allowed) ==
    [log EXCEPT !.ended = @ + 1,
                !.entries = SubSeq(<<[n |-> n, allowed |-> allowed]>> \o @, 1, Least(MaxLog, Len(@) + 1))]

\* Mutant of Answered: a tab that was left does not log.
AnsweredIfOpen(c, arrives) ==
    /\ c \in actions /\ (arrives => c.answer # "pending")
    /\ actions' = actions \ {c}
    /\ LET ok == arrives /\ c.answer = "accepted" IN
       /\ log' = IF c.form = "tab" /\ ~c.mine THEN [log EXCEPT !.ended = @ + 1] ELSE Logged(c.n, ok)
       /\ forms' = IF c.form = "tab" /\ ~c.mine THEN forms
                   ELSE [forms EXCEPT ![c.form].sending = FALSE, ![c.form].own = c.mine,
                             ![c.form].result = IF ok THEN "ok" ELSE "error",
                             ![c.form].text["msg"] = IF ok /\ c.form = "tab" THEN "" ELSE @]
    /\ UNCHANGED <<hints, accepted>>

\* The rest of it, also if the tab was left; an answer that is lost, or comes
\* too late, is as good as a refusal.  The dialog is there when it is closed.
Answered(c, arrives) ==
    /\ c \in actions /\ (arrives => c.answer # "pending")
    /\ actions' = actions \ {c}
    /\ LET ok == arrives /\ c.answer = "accepted" IN
       /\ log' = Logged(c.n, ok)
       /\ forms' = IF c.form = "tab" /\ ~c.mine THEN forms
                   ELSE [forms EXCEPT ![c.form].sending = FALSE, ![c.form].own = c.mine,
                             ![c.form].result = IF ok THEN "ok" ELSE "error",
                             ![c.form].text["msg"] = IF ok /\ c.form = "tab" THEN "" ELSE @]
    /\ UNCHANGED <<hints, accepted>>

\* Five seconds later, in the tab.
HideResult ==
    /\ forms["tab"].result # "none"
    /\ forms' = [forms EXCEPT !["tab"].result = "none"]
    /\ UNCHANGED <<hints, actions, accepted, log>>

DispatchNext ==
    \/ OpenTab \/ LeaveTab \/ OpenDialog \/ HintsChange \/ PickChip \/ HideResult
    \/ \E b \in BOOLEAN : CloseDialog(b) \/ MoveHint(b)
    \/ \E f \in FormFields : LeaveDialogField(f) \/ \E text \in Texts : TypeTab(f, text) \/ TypeDialog(f, text)
    \/ \E i \in 1..2 : PickHint(i)
    \/ \E form \in {"tab", "dialog"} : Submit(form)
    \/ \E c \in actions : ServeAction(c) \/ \E arrives \in BOOLEAN : Answered(c, arrives)

DispatchSpec == DispatchInit /\ [][DispatchNext]_dispatchVars

-----------------------------------------------------------------------------

\* Every dispatch is logged once, when it has ended and not before, whichever
\* form sent it and whether that is still there; the log loses the oldest
\* entries alone; and what it calls allowed the gateway has accepted.
LoggedOnce ==
    LET logged == {log.entries[i].n : i \in DOMAIN log.entries} IN
    /\ log.ended = log.sent - Cardinality(actions)
    /\ Len(log.entries) = Least(MaxLog, log.ended)
    /\ Cardinality(logged) = Len(log.entries)
    /\ \A c \in actions : c.n \notin logged
    /\ \A i \in DOMAIN log.entries : log.entries[i].allowed => log.entries[i].n \in accepted

\* A form sends one task at a time, although the dialog can be closed and
\* opened while it waits (sending of handleDispatch).
OneAtATime ==
    /\ forms["dialog"].sending <=> \E c \in actions : c.form = "dialog"
    /\ forms["tab"].sending <=> \E c \in actions : c.form = "tab" /\ c.mine
    /\ Cardinality({c \in actions : c.form = "dialog"}) <= 1

\* "full reset of all form state (capability, message, priority, errors,
\* result, suggestions) on each open": a result shown is of this opening.
ResultIsOfOpening == forms["dialog"].open /\ forms["dialog"].result # "none" => forms["dialog"].own

\* An entry "denied" is of a task that was refused.
DeniedWasRefused ==
    \A i \in DOMAIN log.entries : ~log.entries[i].allowed => log.entries[i].n \notin accepted

=============================================================================
