------------------------------ MODULE MCConsole ------------------------------
(***************************************************************************)
(* A small instance of what surrounds the pages of the command center.     *)
(* Signing in, the preferences, what is announced and the frame do not act *)
(* on each other but for the settings the toasts depend on, and neither    *)
(* does the polling of a list, so a behavior moves one of them.            *)
(***************************************************************************)
EXTENDS Session, Feedback, Shell, ContainersPanel, ChatRoom

CONSTANTS a1, i1, success, error, p1, txt, c1

VARIABLE part

vars == <<part, sessionVars, preferenceVars, feedbackVars, shellVars, listVars, roomVars>>

PathsUsed == {"/", "/chat", "/agents"}

\* Three commands of the palette, and the scores of what may be typed: "d" is
\* in "Dashboard" and "Dispatch", and in the description of the agents.
CommandsUsed == << [category |-> "Navigation", path |-> "/"],
                   [category |-> "Navigation", path |-> "/agents"],
                   [category |-> "Actions", path |-> "none"] >>
NoQuery == <<0, 0, 0>>
DifferingQuery == <<2, 1, 2>>
AgreeingQueries == {NoQuery, <<-1, -1, 3>>, <<-1, 2, -1>>, <<-1, -1, -1>>}
AllQueries == AgreeingQueries \cup {DifferingQuery}

Parts == {"session", "preferences", "toasts", "health", "shell", "list", "input", "follow", "people"}

NotList == <<sessionVars, preferenceVars, feedbackVars, shellVars, roomVars>>

\* The chat: as it is typed into, as it follows what is sent, and as those who
\* take part come and go.
Typing == \E text \in Texts : TypeMessage(text)
ChatStep ==
    \/ part = "input" /\ (InputNext \/ Send \/ Dispatching \/ Cancel \/ Cancelled)
    \/ part = "follow" /\ (FollowNext \/ ScrollNext \/ Typing)
    \/ /\ part = "people"
       /\ \/ PeopleNext \/ Typing \/ Send \/ Dispatching \/ Looking(pending.looks)
          \/ Cancel \/ StreamOver \/ StrayOver \/ ClearChat

Init ==
    /\ part \in Parts
    /\ SessionInit /\ PreferencesInit /\ FeedbackInit /\ ShellInit /\ ListInit /\ RoomInit
    /\ part # "session" => ~tab.oauth /\ ~tab.env
    /\ part # "preferences" => page = "settings"
    /\ part # "shell" => at.path = "/"
    /\ part # "list" => \A i \in Ids : server[i] = "running"

\* What the page of the kubexes does while it stays open, and its tab visible.
Listed(A) == part = "list" /\ A /\ UNCHANGED <<part, NotList>>
ListStep == ContainersNext /\ ~Remount

Next ==
    \/ Listed(ListStep)
    \/ /\ UNCHANGED <<part, sessionVars, preferenceVars, feedbackVars, shellVars, listVars>>
       /\ ChatStep
    \/ /\ UNCHANGED <<part, listVars, roomVars>>
       /\ \/ /\ part = "session"
             /\ SessionNext
             /\ UNCHANGED <<preferenceVars, feedbackVars, shellVars>>
          \/ /\ part = "preferences"
             /\ PreferencesNext
             /\ UNCHANGED <<sessionVars, feedbackVars, shellVars>>
          \/ /\ part = "toasts"
             /\ UNCHANGED <<sessionVars, shellVars>>
             /\ \/ ToastsNext /\ UNCHANGED preferenceVars
                \/ UpdateSettings /\ UNCHANGED feedbackVars
                \/ ReloadConsole /\ ReloadFeedback
          \/ /\ part = "health"
             /\ HealthNext
             /\ UNCHANGED <<sessionVars, preferenceVars, shellVars>>
          \/ /\ part = "shell"
             /\ ShellNext
             /\ UNCHANGED <<sessionVars, preferenceVars, feedbackVars>>

\* The timer of usePolling goes off, and the service does not fail to answer for
\* ever.
Fairness ==
    /\ WF_vars(Listed(Poll)) /\ SF_vars(Listed(ServeGet)) /\ SF_vars(Listed(GetAnswered))

Spec == Init /\ [][Next]_vars /\ Fairness

ConsoleTypeOK == SessionTypeOK /\ PreferencesTypeOK /\ FeedbackTypeOK /\ ShellTypeOK /\ RoomTypeOK

\* The list of the page that stays open, see ListCatchesUp.
OpenListCatchesUp == part = "list" => ListCatchesUp
=============================================================================
