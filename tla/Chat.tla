-------------------------------- MODULE Chat --------------------------------
(***************************************************************************)
(* The chat of the command center: it dispatches a task, follows its       *)
(* stream, and polls for the result where the stream may have missed it.   *)
(* (OrchestratorChat.tsx and the hook useSSE; the server is TaskStream.)   *)
(*                                                                         *)
(* JavaScript runs one callback at a time; what interleaves is the         *)
(* callbacks, the renders of React and the effects they run.  A state set  *)
(* by a callback (q) is what the component sees (ui) after the next        *)
(* render; a ref is seen at once.  Left out: the recovery of a task when   *)
(* the component is mounted, HITL requests, phases, terminal lines, and    *)
(* the request to cancel with its own bubble.                              *)
(***************************************************************************)
EXTENDS TaskStream, FiniteSets

CONSTANTS
    MaxRetries,   \* maxRetries of useSSE: 3
    MaxAttempts,  \* MAX_ATTEMPTS of handleSSEComplete: 4
    MayMistype,   \* the user may enter a capability that is not valid
    MayCancel     \* the user may cancel

\* The url of a task is opened by one effect, so one connection per task is
\* enough: connection t is the one for task t.
ASSUME ConnsAssumption == Conns = Tasks
ASSUME MaxRetriesAssumption == MaxRetries \in Nat
ASSUME MaxAttemptsAssumption == MaxAttempts \in Nat \ {0}
ASSUME MayAssumption == {MayMistype, MayCancel} \subseteq BOOLEAN

VARIABLES
    q,        \* React state as set: sending, streamUrl and the status of useSSE
    ui,       \* the same as rendered
    ref,      \* refs: activeTaskIdRef, sendingRef, esRef and retriesRef
    saved,    \* localStorage "kubex-active-task"
    later,    \* what is yet to run: dispatches and polls in flight, guard
              \* timers, retry[t] the delay of a retry timer, waited[t] how
              \* long retries have waited since the stream of t was open,
              \* fallback[t] the attempts left
    bubbles,  \* the outcomes shown: label, as "result" or "error", whose
              \* result it is and its number among those of that task
    cancelled

chatVars == <<q, ui, ref, saved, later, bubbles, cancelled>>
vars == <<streamVars, chatVars>>

\* The delays of retries are counted in units of retryDelayMs, 2 seconds; the
\* guard fires after one of them, and a poll is over after four more.
GuardOver == 5

MaybeTask == Tasks \cup {NoTask}

ReactState == [sending : BOOLEAN, url : MaybeTask,
               status : {"idle", "connecting", "open", "closed", "error"}]

ChatTypeOK ==
    /\ StreamTypeOK
    /\ {q, ui} \subseteq ReactState
    /\ ref \in [active : MaybeTask, sending : BOOLEAN, es : MaybeTask, retries : 0..MaxRetries]
    /\ saved \in MaybeTask
    /\ later \in [dispatching : SUBSET Tasks, guard : SUBSET Tasks,
                  retry : [Tasks -> 0..MaxRetries], waited : [Tasks -> 0..GuardOver],
                  polls : SUBSET ({"open", "guard"} \X Tasks),
                  fallback : [Tasks -> 0..MaxAttempts]]
    /\ bubbles \subseteq [label : MaybeTask, of : Tasks, as : {"result", "error"},
                          status : {"none"} \cup Stored, nth : Nat]
    /\ cancelled \subseteq Tasks

Init ==
    /\ StreamInit
    /\ q = [sending |-> FALSE, url |-> NoTask, status |-> "idle"]
    /\ ui = q
    /\ ref = [active |-> NoTask, sending |-> FALSE, es |-> NoTask, retries |-> 0]
    /\ saved = NoTask
    /\ later = [dispatching |-> {}, guard |-> {}, polls |-> {},
                retry |-> [t \in Tasks |-> 0], waited |-> [t \in Tasks |-> 0],
                fallback |-> [t \in Tasks |-> 0]]
    /\ bubbles = {}
    /\ cancelled = {}

\* The browser closes the connections of cs.
Close(cs) ==
    /\ conn' = [c \in Conns |-> IF c \in cs THEN NoConn ELSE conn[c]]
    /\ wire' = [c \in Conns |-> IF c \in cs THEN <<>> ELSE wire[c]]

Show(t, label, as, status) ==
    bubbles' = bubbles \cup
        {[label |-> label, of |-> t, as |-> as, status |-> status,
          nth |-> Cardinality({b \in bubbles : b.of = t}) + 1]}

\* What a poll for the result of t may answer: it may have been under way
\* when the result was stored.
Answers(t) == {"none", result[t]}

RoleOf(status) == IF status = "completed" THEN "result" ELSE "error"

-----------------------------------------------------------------------------
(* The user                                                                *)

MaySend == ~ui.sending /\ ~ref.sending

Send(t) ==
    /\ MaySend
    /\ work[t] = "unsent" /\ t \notin later.dispatching
    /\ ref' = [ref EXCEPT !.sending = TRUE]
    /\ q' = [q EXCEPT !.sending = TRUE]
    /\ later' = [later EXCEPT !.dispatching = @ \cup {t}]
    /\ UNCHANGED <<streamVars, ui, saved, bubbles, cancelled>>

\* The input is refused after sendingRef was set.
SendInvalid ==
    /\ MayMistype
    /\ MaySend
    /\ ref' = [ref EXCEPT !.sending = TRUE]
    /\ UNCHANGED <<streamVars, q, ui, saved, later, bubbles, cancelled>>

Cancel ==
    /\ MayCancel
    /\ ui.sending
    /\ ref.active # NoTask
    /\ cancelled' = cancelled \cup {ref.active}
    /\ Close({ref.es})
    /\ ref' = [ref EXCEPT !.active = NoTask, !.sending = FALSE, !.es = NoTask]
    /\ q' = [sending |-> FALSE, url |-> NoTask, status |-> "closed"]
    /\ saved' = NoTask
    /\ UNCHANGED <<work, result, faults, ui, later, bubbles>>

-----------------------------------------------------------------------------
(* The answer to the dispatch                                              *)

\* Mutant: the task is not written to localStorage (BUG-004).
DispatchedUnsaved(t) ==
    /\ t \in later.dispatching
    /\ work[t] # "unsent"
    /\ ref' = [ref EXCEPT !.active = t]
    /\ q' = [q EXCEPT !.url = t]
    /\ later' = [later EXCEPT !.dispatching = @ \ {t}, !.guard = @ \cup {t}]
    /\ UNCHANGED <<streamVars, ui, saved, bubbles, cancelled>>

Dispatched(t) ==
    /\ t \in later.dispatching
    /\ work[t] # "unsent"
    /\ ref' = [ref EXCEPT !.active = t]
    /\ saved' = t
    /\ q' = [q EXCEPT !.url = t]
    /\ later' = [later EXCEPT !.dispatching = @ \ {t}, !.guard = @ \cup {t}]
    /\ UNCHANGED <<streamVars, ui, bubbles, cancelled>>

\* The dispatch failed, or its answer is lost.
DispatchFailed(t) ==
    /\ t \in later.dispatching
    /\ Fault
    /\ ref' = [ref EXCEPT !.sending = FALSE]
    /\ q' = [q EXCEPT !.sending = FALSE]
    /\ later' = [later EXCEPT !.dispatching = @ \ {t}]
    /\ UNCHANGED <<work, result, conn, wire, ui, saved, bubbles, cancelled>>

-----------------------------------------------------------------------------
(* Renders and their effects                                               *)

\* The effect of useSSE on the url closes the connection in esRef, whichever
\* that is, and opens the one of the new url.
Follow ==
    IF q.url = NoTask
    THEN /\ Close({ref.es})
         /\ ref' = [ref EXCEPT !.es = NoTask]
         /\ q' = [q EXCEPT !.status = "idle"]
         /\ UNCHANGED faults
    ELSE /\ Opened(q.url, q.url, {ref.es})
         /\ ref' = [ref EXCEPT !.es = q.url, !.retries = 0]
         /\ q' = [q EXCEPT !.status = "connecting"]

\* The effect of the chat on [sseStatus, sending]: a stream that has opened is
\* backed by a poll, for it may have opened too late.
PollOnOpen ==
    IF /\ <<q.status, q.sending>> # <<ui.status, ui.sending>>
       /\ q.status = "open" /\ q.sending
       /\ ref.active # NoTask
    THEN later' = [later EXCEPT !.polls = @ \cup {<<"open", ref.active>>}]
    ELSE UNCHANGED later

Render ==
    /\ q # ui
    /\ ui' = q
    /\ IF q.url # ui.url THEN Follow ELSE UNCHANGED <<conn, wire, faults, ref, q>>
    /\ PollOnOpen
    /\ UNCHANGED <<work, result, saved, bubbles, cancelled>>

-----------------------------------------------------------------------------
(* The stream                                                              *)

Opens(t) ==
    /\ q' = [q EXCEPT !.status = "open"]
    /\ ref' = [ref EXCEPT !.retries = 0]
    /\ later' = [later EXCEPT !.waited[t] = 0]
    /\ wire' = [wire EXCEPT ![t] = Tail(@)]
    /\ UNCHANGED <<conn, saved, bubbles>>

\* A message without a type ends nothing here.
Ignores(t) ==
    /\ wire' = [wire EXCEPT ![t] = Tail(@)]
    /\ UNCHANGED <<conn, q, ref, saved, later, bubbles>>

\* The result is shown under the label of the active task.
Delivers(t) ==
    /\ Show(t, ref.active, "result", Head(wire[t]))
    /\ saved' = NoTask
    /\ q' = [sending |-> FALSE, url |-> NoTask, status |-> "closed"]
    /\ ref' = [ref EXCEPT !.sending = FALSE, !.es = NoTask]
    /\ Close({t})
    /\ UNCHANGED later

\* Mutant: one attempt too many.
GivesUpLate ==
    IF ref.active # NoTask /\ q.sending
    THEN /\ q' = [q EXCEPT !.status = "error", !.sending = FALSE]
         /\ later' = [later EXCEPT !.fallback[ref.active] = MaxAttempts + 1]
    ELSE /\ q' = [q EXCEPT !.status = "error"]
         /\ UNCHANGED later

\* After the last retry handleSSEComplete starts the fallback polls for the
\* active task, if the chat is still sending.
GivesUp ==
    IF ref.active # NoTask /\ q.sending
    THEN /\ q' = [q EXCEPT !.status = "error", !.sending = FALSE]
         /\ later' = [later EXCEPT !.fallback[ref.active] = MaxAttempts]
    ELSE /\ q' = [q EXCEPT !.status = "error"]
         /\ UNCHANGED later

\* The stream ended or broke; the retry timer is never cleared.
Ends(t) ==
    /\ IF ref.retries < MaxRetries
       THEN /\ ref' = [ref EXCEPT !.es = NoTask, !.retries = @ + 1]
            /\ q' = [q EXCEPT !.status = "connecting"]
            /\ later' = [later EXCEPT !.retry[t] = ref.retries + 1]
       ELSE /\ ref' = [ref EXCEPT !.es = NoTask]
            /\ GivesUp
    /\ Close({t})
    /\ UNCHANGED <<saved, bubbles>>

Receive(t) ==
    /\ wire[t] # <<>>
    /\ \/ Head(wire[t]) = "open" /\ Opens(t)
       \/ Head(wire[t]) = "final" /\ Ignores(t)
       \/ Head(wire[t]) \in Stored /\ Delivers(t)
       \/ Head(wire[t]) = "end" /\ Ends(t)
    /\ UNCHANGED <<work, result, faults, ui, cancelled>>

\* A render is a matter of milliseconds; a timer of two seconds finds it done.
TimerTime == ui = q

\* Mutant: connect() closes the connection in esRef first, whose ever that is.
RetryConnectClosing(t) ==
    /\ TimerTime
    /\ later.retry[t] > 0
    /\ later' = [later EXCEPT !.retry[t] = 0]
    /\ Opened(t, t, {ref.es})
    /\ ref' = [ref EXCEPT !.es = t]
    /\ UNCHANGED <<work, result, q, ui, saved, bubbles, cancelled>>

\* connect() of the effect that opened the url of t, whatever the url is now.
\* A poll takes at most 8 seconds, so those of t that were started by then are
\* over when its retries have waited for 10.
RetryConnect(t) ==
    /\ TimerTime
    /\ later.retry[t] > 0
    /\ LET waited == later.waited[t] + later.retry[t]
       IN  /\ waited >= GuardOver => t \notin later.guard /\ \A p \in later.polls : p[2] # t
           /\ later' = [later EXCEPT !.retry[t] = 0,
                                     !.waited[t] = IF waited < GuardOver THEN waited ELSE GuardOver]
    /\ Opened(t, t, {})
    /\ ref' = [ref EXCEPT !.es = t]
    /\ UNCHANGED <<work, result, q, ui, saved, bubbles, cancelled>>

-----------------------------------------------------------------------------
(* The polls                                                               *)

\* Mutant: the settled task stays in localStorage.
SettleSaved(t, status) ==
    /\ Show(t, t, RoleOf(status), status)
    /\ Close({ref.es})
    /\ ref' = [ref EXCEPT !.active = NoTask, !.sending = FALSE, !.es = NoTask]
    /\ q' = [sending |-> FALSE, url |-> NoTask, status |-> "closed"]
    /\ UNCHANGED saved

\* A poll has found the result of t.
Settle(t, status) ==
    /\ Show(t, t, RoleOf(status), status)
    /\ saved' = NoTask
    /\ Close({ref.es})
    /\ ref' = [ref EXCEPT !.active = NoTask, !.sending = FALSE, !.es = NoTask]
    /\ q' = [sending |-> FALSE, url |-> NoTask, status |-> "closed"]

\* The guard of handleSend, two seconds after the dispatch.
Guarded(t) == ref.active = t /\ ref.sending

GuardFires(t) ==
    /\ TimerTime
    /\ t \in later.guard
    /\ later' = [later EXCEPT !.guard = @ \ {t},
                              !.polls = IF Guarded(t) THEN @ \cup {<<"guard", t>>} ELSE @]
    /\ UNCHANGED <<streamVars, q, ui, ref, saved, bubbles, cancelled>>

\* The poll on open asks only whether some task is active.
StillWanted(by, t) == IF by = "guard" THEN Guarded(t) ELSE ref.active # NoTask

PollReply(by, t) ==
    /\ <<by, t>> \in later.polls
    /\ later' = [later EXCEPT !.polls = @ \ {<<by, t>>}]
    /\ \E status \in Answers(t) :
           IF status \in Stored /\ StillWanted(by, t)
           THEN Settle(t, status)
           ELSE UNCHANGED <<conn, wire, q, ref, saved, bubbles>>
    /\ UNCHANGED <<work, result, faults, ui, cancelled>>

\* One attempt of the fallback; the last one gives up with an error bubble.
\* sendingRef stays as it was.
FallbackReply(t) ==
    /\ later.fallback[t] > 0
    /\ \E status \in Answers(t) :
           IF status \in Stored \/ later.fallback[t] = 1
           THEN /\ Show(t, t, RoleOf(status), status)
                /\ saved' = NoTask
                /\ ref' = [ref EXCEPT !.active = NoTask]
                /\ q' = [q EXCEPT !.url = NoTask]
                /\ later' = [later EXCEPT !.fallback[t] = 0]
           ELSE /\ later' = [later EXCEPT !.fallback[t] = @ - 1]
                /\ UNCHANGED <<bubbles, saved, ref, q>>
    /\ UNCHANGED <<streamVars, ui, cancelled>>

-----------------------------------------------------------------------------
Callbacks(t) ==
    \/ Dispatched(t) \/ Receive(t) \/ RetryConnect(t)
    \/ GuardFires(t) \/ FallbackReply(t)
    \/ \E by \in {"open", "guard"} : PollReply(by, t)

Server(t) ==
    /\ (Dispatch(t) /\ t \in later.dispatching) \/ Worker(t) \/ Generator(t) \/ Break(t)
    /\ UNCHANGED chatVars

Next ==
    \/ \E t \in Tasks : Send(t) \/ DispatchFailed(t) \/ Callbacks(t) \/ Server(t)
    \/ SendInvalid \/ Cancel \/ Render

\* The event loop of the browser and the server go on; the user need not.
Fairness ==
    /\ WF_vars(Render)
    /\ \A t \in Tasks :
        /\ WF_vars(Dispatched(t)) /\ WF_vars(Receive(t)) /\ WF_vars(RetryConnect(t))
        /\ WF_vars(GuardFires(t)) /\ WF_vars(FallbackReply(t))
        /\ \A by \in {"open", "guard"} : WF_vars(PollReply(by, t))
        /\ WF_vars(Dispatch(t) /\ t \in later.dispatching /\ UNCHANGED chatVars)
        /\ WF_vars(Worker(t) /\ UNCHANGED chatVars)
        /\ WF_vars(Generator(t) /\ UNCHANGED chatVars)

Spec == Init /\ [][Next]_vars /\ Fairness

-----------------------------------------------------------------------------
(* Properties                                                              *)

\* BUG-004: while the chat follows a task, localStorage names that task, so
\* that leaving the page and coming back recovers it.
SavedWhileSending ==
    q.sending /\ ref.active # NoTask /\ later.dispatching = {} => saved = ref.active

\* A task whose outcome was shown is not the one a remount would recover.
ShownIsNotSaved == \A b \in bubbles : saved # b.of

\* The final message of t has been posted, or its post has failed.
FinalOut(t) == work[t] \in IF StoreFirst THEN {"done"} ELSE {"half", "done"}

\* The connection for t brings something: it has yet to look for the result or
\* to hear the final message, or its end is on the wire.
Brings(t) ==
    \/ conn[t].at = "check"
    \/ conn[t].at \in {"subscribe", "listen"} /\ ~FinalOut(t)
    \/ conn[t].at = "over" /\ wire[t] # <<>> /\ wire[t][Len(wire[t])] = "end"

\* It has found no result and hears no final message: that one went out before
\* it listened, or was not posted.  Only the polls are left then.
Overlooked(t) == conn[t].at \in {"subscribe", "listen"} /\ FinalOut(t)

\* While the chat waits for a task, something is to come of it: its url is about
\* to be opened by a render, a retry waits for its delay, or its connection
\* brings an event that ends the wait or leads to a retry.  None of this is lost
\* to the retries, polls and fallbacks of other tasks, or to a cancellation
\* before.  The one exception is a final message that was overlooked.
FollowedIsServed ==
    q.sending /\ later.dispatching = {} /\ ref.active # NoTask =>
        \/ q.url = ref.active /\ ui.url # ref.active
        \/ later.retry[ref.active] > 0
        \/ Brings(ref.active)
        \/ Overlooked(ref.active)

\* OrchestratorChat.tsx: the check of sendingRef "prevents a duplicate bubble".
OneBubble == \A b \in bubbles : b.nth = 1

\* OrchestratorChat.tsx: "Only act if we are still in the sending state for this
\* task": the poll on open of one task does not settle the chat for another.
OpenPollOfActive ==
    [][\A t \in Tasks : PollReply("open", t) /\ bubbles' # bubbles => ref.active = t]_vars

\* BUG-008: a task that failed is not shown as a result.
FailedIsError == \A b \in bubbles : b.status = "failed" => b.as = "error"

\* handleCancel: "so the UI stops waiting for events".  A cancelled task shows
\* no outcome any more.
CancelIsFinal ==
    [][\A b \in bubbles' \ bubbles : b.of \notin cancelled]_vars

\* sendingRef is a guard for the time of one dispatch: when nothing is left to
\* run and the chat is not sending, the user can send.
NotLocked ==
    /\ ~q.sending /\ ui = q
    /\ later.dispatching = {} /\ later.polls = {} /\ later.guard = {}
    /\ \A t \in Tasks : later.retry[t] = 0 /\ later.fallback[t] = 0 /\ conn[t] = NoConn
    => ~ref.sending

\* A final message that the chat's stream received ends the wait, though the
\* message itself is ignored: the stream closes and is opened again, and the
\* result is in the store by then.  (With a worker that stores first, and no
\* faults.)
FinalReceived ==
    ref.active # NoTask /\ \E i \in DOMAIN wire[ref.active] : wire[ref.active][i] = "final"
FinalSettles == q.sending /\ FinalReceived ~> ~q.sending

\* When the Gateway cannot be reached the chat gives up.
StopsSending == q.sending ~> ~q.sending
=============================================================================
