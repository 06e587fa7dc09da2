------------------------------ MODULE Feedback ------------------------------
(***************************************************************************)
(* What the command center tells the user from any page: toasts, the       *)
(* history of notifications and its bell, the health of the services, and  *)
(* the progress bar.  (ToastContext, NotificationContext,                  *)
(* NotificationCenter, useHealthCheck, AppContext, GlobalProgressBar.)     *)
(*                                                                         *)
(* Toasts are numbered in the order in which they are added.               *)
(***************************************************************************)
EXTENDS Preferences, Sequences

CONSTANTS
    MaxNotifications,   \* MAX_NOTIFICATIONS: 100
    MaxToasts           \* bounds the toasts of a behavior

ASSUME MaxNotificationsAssumption == MaxNotifications \in Nat \ {0}
ASSUME MaxToastsAssumption == MaxToasts \in Nat

VARIABLES
    toasts,   \* the toasts on the screen, with what they say
    history,  \* notifications, the latest first
    bell,     \* the dropdown, the delayed markAllRead, the toasts added, and
              \* how many of them when the history was last emptied
    health    \* services, whether a check runs, and the state of the bar

feedbackVars == <<toasts, history, bell, health>>

Services == {"Gateway", "Registry", "Manager", "Broker", "Redis"}
Asked == Services \ {"Broker", "Redis"}
Answer == {"healthy", "degraded", "down"}

FeedbackTypeOK ==
    /\ toasts \subseteq (1..MaxToasts) \X ToastTypes
    /\ history \in Seq([id : 1..MaxToasts, type : ToastTypes, read : BOOLEAN])
    /\ bell \in [open : BOOLEAN, marking : BOOLEAN, added : 0..MaxToasts,
                 floor : 0..MaxToasts]
    /\ health \in [services : [Services -> Answer \cup {"loading"}], checking : BOOLEAN,
                   bar : {"hidden", "loading", "completing", "fading"}]

FeedbackInit ==
    /\ toasts = {}
    /\ history = <<>>
    /\ bell = [open |-> FALSE, marking |-> FALSE, added |-> 0, floor |-> 0]
    /\ health = [services |-> [s \in Services |-> "loading"], checking |-> FALSE, bar |-> "hidden"]

\* toastFilter of ToastBridge.
Shows(type) == held.settings.toasts /\ type \in held.settings.shown

Latest(s) == SubSeq(s, 1, IF Len(s) < MaxNotifications THEN Len(s) ELSE MaxNotifications)

\* addNotification.
Record(entry) == Latest(<<entry>> \o history)

\* Mutant of AddToast: the filter comes first.
AddToastFiltered(type) ==
    /\ bell.added < MaxToasts
    /\ bell' = [bell EXCEPT !.added = @ + 1]
    /\ history' = IF Shows(type)
                  THEN Record([id |-> bell.added + 1, type |-> type, read |-> FALSE]) ELSE history
    /\ toasts' = IF Shows(type) THEN toasts \cup {<<bell.added + 1, type>>} ELSE toasts
    /\ UNCHANGED health

\* addToast: recorded whether it is shown or not.
AddToast(type) ==
    /\ bell.added < MaxToasts
    /\ LET n == bell.added + 1 IN
          /\ history' = Record([id |-> n, type |-> type, read |-> FALSE])
          /\ toasts' = IF Shows(type) THEN toasts \cup {<<n, type>>} ELSE toasts
          /\ bell' = [bell EXCEPT !.added = n]
    /\ UNCHANGED health

\* removeToast, by its timer or by a click.
RemoveToast(t) ==
    /\ t \in toasts
    /\ toasts' = toasts \ {t}
    /\ UNCHANGED <<history, bell, health>>

\* handleToggle: opening with something unread marks all read 300 ms later.
ToggleBell ==
    /\ bell' = [bell EXCEPT
                  !.open = ~@,
                  !.marking = @ \/ (~bell.open /\ \E i \in DOMAIN history : ~history[i].read)]
    /\ UNCHANGED <<toasts, history, health>>

\* A click outside the dropdown, or Escape.
CloseBell ==
    /\ bell.open
    /\ bell' = [bell EXCEPT !.open = FALSE]
    /\ UNCHANGED <<toasts, history, health>>

\* markAllRead, by its timer or by its button.
MarkAllRead ==
    /\ bell.marking \/ (bell.open /\ history # <<>>)
    /\ history' = [i \in DOMAIN history |-> [history[i] EXCEPT !.read = TRUE]]
    /\ bell' = [bell EXCEPT !.marking = FALSE]
    /\ UNCHANGED <<toasts, health>>

ClearAll ==
    /\ bell.open /\ history # <<>>
    /\ history' = <<>>
    /\ bell' = [bell EXCEPT !.floor = bell.added]
    /\ UNCHANGED <<toasts, health>>

\* checkHealth begins: usePolling starts it anew only when it has ended.
StartCheck ==
    /\ ~health.checking
    /\ health' = [health EXCEPT !.checking = TRUE, !.bar = "loading"]
    /\ UNCHANGED <<toasts, history, bell>>

\* The answers, all at once.  The broker's is that of the gateway, whose GET it
\* joins; Redis is taken for healthy if that is.
EndCheck ==
    /\ health.checking
    /\ \E a \in [Asked -> Answer] :
          health' = [health EXCEPT
             !.checking = FALSE, !.bar = "completing",
             !.services = [s \in Services |->
                IF s \in Asked THEN a[s]
                ELSE IF s = "Broker" \/ a["Gateway"] = "healthy" THEN a["Gateway"] ELSE "down"]]
    /\ UNCHANGED <<toasts, history, bell>>

\* The timers of the progress bar; a change of the count clears them.
BarTimer ==
    /\ health.bar \in {"completing", "fading"}
    /\ health' = [health EXCEPT !.bar = IF @ = "completing" THEN "fading" ELSE "hidden"]
    /\ UNCHANGED <<toasts, history, bell>>

\* Loading the page anew loses all of it.
ReloadFeedback ==
    /\ toasts' = {}
    /\ history' = <<>>
    /\ bell' = [bell EXCEPT !.open = FALSE, !.marking = FALSE, !.floor = bell.added]
    /\ health' = [services |-> [s \in Services |-> "loading"], checking |-> FALSE, bar |-> "hidden"]

ToastsNext ==
    \/ \E t \in ToastTypes : AddToast(t)
    \/ \E t \in toasts : RemoveToast(t)
    \/ ToggleBell \/ CloseBell \/ MarkAllRead \/ ClearAll

HealthNext == StartCheck \/ EndCheck \/ BarTimer

\* Whatever becomes of the settings meanwhile.
FeedbackSpec == FeedbackInit /\ [][ToastsNext \/ HealthNext \/ ReloadFeedback]_feedbackVars

-----------------------------------------------------------------------------

\* The history holds the latest of the toasts added since it was cleared,
\* shown or not: the settings mute what pops up, never what is recorded, and a
\* full history drops its oldest entry (addToast, addNotification).
HistoryIsLatest ==
    LET n == bell.added - bell.floor IN
    /\ Len(history) = IF n < MaxNotifications THEN n ELSE MaxNotifications
    /\ \A i \in DOMAIN history : history[i].id = bell.added - (i - 1)

=============================================================================
