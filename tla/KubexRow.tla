------------------------------ MODULE KubexRow ------------------------------
(***************************************************************************)
(* One row of the kubexes: it follows the lifecycle of its agent over a    *)
(* stream that it opens again when it ends (useAgentLifecycle), tells that *)
(* the agent needs credentials, and has panels to inject them, to install  *)
(* a package and to show the configuration.                                *)
(*                                                                         *)
(* The agent is external: its state changes at any time (CliRuntime), and  *)
(* the gateway sends a change to those who are connected at the time.      *)
(***************************************************************************)
EXTENDS Naturals

CONSTANT MaxRetries

ASSUME MaxRetriesAssumption == MaxRetries \in Nat

VARIABLES
    agent,   \* the state the agent published last
    stream,  \* the hook: the connection, the timer, what it reports
    kubex,   \* panels and banners of the row
    inject,  \* the credential panel
    install, \* the package panel
    config   \* the configuration panel

rowVars == <<agent, stream, kubex, inject, install, config>>

AgentStates == {"booting", "credential_wait", "ready", "busy"}
Resumed == {"ready", "running", "busy"}
Runtimes == {"claude-code", "gemini-cli"}

FreshInject == [open |-> FALSE, text |-> "", error |-> FALSE, steps |-> TRUE, loading |-> FALSE,
                runtime |-> "claude-code"]
FreshInstall == [open |-> FALSE, text |-> "", loading |-> FALSE]

RowTypeOK ==
    /\ agent \in AgentStates
    /\ stream \in [on : BOOLEAN, conn : {"none", "connecting", "connected"},
                   timer : BOOLEAN, tries : 0..MaxRetries, aborted : BOOLEAN,
                   status : {"idle", "connecting", "connected", "error", "closed"}]
    /\ kubex \in [state : AgentStates \cup {"null"}, authorized : BOOLEAN, hide : BOOLEAN]
    /\ inject \in [open : BOOLEAN, text : {"", "bad", "good"}, error : BOOLEAN,
                   steps : BOOLEAN, loading : BOOLEAN, runtime : Runtimes]
    /\ install \in [open : BOOLEAN, text : {"", "package"}, loading : BOOLEAN]
    /\ config \in {"closed", "loading", "error", "shown"}

RowInit ==
    /\ agent \in AgentStates
    /\ stream = [on |-> FALSE, conn |-> "none", timer |-> FALSE, tries |-> 0,
                 aborted |-> FALSE, status |-> "idle"]
    /\ kubex = [state |-> "null", authorized |-> FALSE, hide |-> FALSE]
    /\ inject = FreshInject /\ install = FreshInstall /\ config = "closed"

-----------------------------------------------------------------------------

\* disconnect: the timer is cleared, and a connection aborted, whose error is
\* handled before any other event.
Disconnect(s) ==
    [s EXCEPT !.timer = FALSE, !.conn = "none", !.aborted = s.conn # "none"]

\* connect.
Connect(s) == [Disconnect(s) EXCEPT !.conn = "connecting", !.status = "connecting"]

\* Mutant of ScheduleRetry: the retries are not counted out.
ScheduleRetryOn(s) == [s EXCEPT !.tries = @ + 1, !.timer = TRUE]

\* scheduleRetry: 2, 4, 8 ... seconds, and no more than so many times in a row.
ScheduleRetry(s) ==
    IF s.tries >= MaxRetries THEN [s EXCEPT !.status = "error"]
    ELSE [s EXCEPT !.tries = @ + 1, !.timer = TRUE]

\* The effect on a change of the lifecycle state: what the effect of before
\* returned is called first, and takes its timer away.
Changed(new) ==
    LET resumes == kubex.state = "credential_wait" /\ new \in Resumed
        waits   == kubex.state # "credential_wait" /\ new = "credential_wait"
    IN  /\ kubex' = [state |-> new, authorized |-> kubex.authorized \/ resumes, hide |-> resumes]
        /\ inject' = IF resumes THEN FreshInject
                     ELSE IF waits /\ ~inject.open THEN [FreshInject EXCEPT !.open = TRUE] ELSE inject

\* A poll of the page shows that the kubex runs: the effect of the hook.
Starts ==
    /\ ~stream.on /\ ~stream.aborted
    /\ stream' = Connect([stream EXCEPT !.on = TRUE, !.tries = 0])
    /\ UNCHANGED <<agent, kubex, inject, install, config>>

\* That it does not: the effect is cleaned up and run for no agent.  Panels
\* other than the configuration are not rendered, and lose what they hold.
Stops ==
    /\ stream.on /\ ~stream.aborted
    /\ stream' = [Disconnect(stream) EXCEPT !.on = FALSE, !.status = "idle", !.tries = 0]
    /\ IF kubex.state = "null" THEN kubex' = kubex
       ELSE kubex' = [kubex EXCEPT !.state = "null", !.hide = FALSE]
    /\ inject' = [FreshInject EXCEPT !.open = inject.open]
    /\ install' = [FreshInstall EXCEPT !.open = install.open]
    /\ UNCHANGED <<agent, config>>

\* The AbortError.
Aborted ==
    /\ stream.aborted
    /\ stream' = [stream EXCEPT !.aborted = FALSE, !.status = "closed"]
    /\ UNCHANGED <<agent, kubex, inject, install, config>>

\* The response has come.
Connected ==
    /\ stream.conn = "connecting" /\ ~stream.aborted
    /\ stream' = [stream EXCEPT !.conn = "connected", !.status = "connected", !.tries = 0]
    /\ UNCHANGED <<agent, kubex, inject, install, config>>

\* Mutant of StreamEnds: what ends as it should is not opened again.
StreamEndsForGood(how) ==
    /\ stream.conn # "none" /\ ~stream.aborted
    /\ how = "closed" => stream.conn = "connected"
    /\ LET s == [stream EXCEPT !.conn = "none", !.status = how] IN
       stream' = IF how = "closed" THEN s ELSE ScheduleRetry(s)
    /\ UNCHANGED <<agent, kubex, inject, install, config>>

\* It is an error, or the stream breaks off or is closed by the gateway.
StreamEnds(how) ==
    /\ stream.conn # "none" /\ ~stream.aborted
    /\ how = "closed" => stream.conn = "connected"
    /\ stream' = ScheduleRetry([stream EXCEPT !.conn = "none", !.status = how])
    /\ UNCHANGED <<agent, kubex, inject, install, config>>

\* A response without a body is not asked for again.
NoBody ==
    /\ stream.conn = "connecting" /\ ~stream.aborted
    /\ stream' = [stream EXCEPT !.conn = "none", !.status = "error"]
    /\ UNCHANGED <<agent, kubex, inject, install, config>>

\* The timer of scheduleRetry.
Retry ==
    /\ stream.timer
    /\ stream' = Connect(stream)
    /\ UNCHANGED <<agent, kubex, inject, install, config>>

\* The agent changes its state, which is seen if the stream is open.
AgentMoves(new) ==
    /\ new # agent /\ ~stream.aborted
    /\ agent' = new
    /\ IF stream.conn = "connected" /\ kubex.state # new THEN Changed(new) ELSE UNCHANGED <<kubex, inject>>
    /\ UNCHANGED <<stream, install, config>>

\* Four seconds after the banner was shown.
HideAuthorized ==
    /\ kubex.hide
    /\ kubex' = [kubex EXCEPT !.authorized = FALSE, !.hide = FALSE]
    /\ UNCHANGED <<agent, stream, inject, install, config>>

-----------------------------------------------------------------------------

\* "Creds" is there while the kubex runs, "Authorize" while it waits.
ToggleCreds ==
    /\ stream.on
    /\ inject' = [FreshInject EXCEPT !.open = ~inject.open]
    /\ UNCHANGED <<agent, stream, kubex, install, config>>

Authorize ==
    /\ kubex.state = "credential_wait" /\ ~inject.open
    /\ inject' = [FreshInject EXCEPT !.open = TRUE]
    /\ UNCHANGED <<agent, stream, kubex, install, config>>

Injecting == inject.open /\ stream.on

\* handleJsonChange: the field is disabled while credentials are injected.
PasteJson(text) ==
    /\ Injecting /\ ~inject.loading /\ text # inject.text
    /\ inject' = [inject EXCEPT !.text = text, !.error = text = "bad"]
    /\ UNCHANGED <<agent, stream, kubex, install, config>>

\* handleRuntimeChange, which nothing disables.
SelectRuntime(r) ==
    /\ Injecting
    /\ inject' = [inject EXCEPT !.runtime = r, !.text = "", !.error = FALSE, !.steps = TRUE]
    /\ UNCHANGED <<agent, stream, kubex, install, config>>

\* The instructions are put away and shown again.
ToggleInstructions ==
    /\ Injecting
    /\ inject' = [inject EXCEPT !.steps = ~@]
    /\ UNCHANGED <<agent, stream, kubex, install, config>>

\* handleInject.
Inject ==
    /\ Injecting /\ ~inject.loading /\ inject.text # "" /\ ~inject.error
    /\ inject' = [inject EXCEPT !.loading = TRUE]
    /\ UNCHANGED <<agent, stream, kubex, install, config>>

\* Its rest; what a panel that was closed had called for is not looked at.
Injected(ok) ==
    /\ inject.loading
    /\ inject' = IF ok THEN [inject EXCEPT !.loading = FALSE, !.text = "", !.error = FALSE]
                 ELSE [inject EXCEPT !.loading = FALSE]
    /\ UNCHANGED <<agent, stream, kubex, install, config>>

ToggleInstall ==
    /\ stream.on
    /\ install' = [FreshInstall EXCEPT !.open = ~install.open]
    /\ UNCHANGED <<agent, stream, kubex, inject, config>>

TypePackage(text) ==
    /\ install.open /\ stream.on /\ ~install.loading /\ text # install.text
    /\ install' = [install EXCEPT !.text = text]
    /\ UNCHANGED <<agent, stream, kubex, inject, config>>

\* handleInstall.
Install ==
    /\ install.open /\ stream.on /\ ~install.loading /\ install.text # ""
    /\ install' = [install EXCEPT !.loading = TRUE]
    /\ UNCHANGED <<agent, stream, kubex, inject, config>>

Installed(ok) ==
    /\ install.loading
    /\ install' = [install EXCEPT !.loading = FALSE, !.text = IF ok THEN "" ELSE @]
    /\ UNCHANGED <<agent, stream, kubex, inject, config>>

\* The configuration is read when its panel is opened.
ToggleConfig ==
    /\ config' = IF config = "closed" THEN "loading" ELSE "closed"
    /\ UNCHANGED <<agent, stream, kubex, inject, install>>

ConfigAnswered(as) ==
    /\ config = "loading"
    /\ config' = as
    /\ UNCHANGED <<agent, stream, kubex, inject, install>>

RowNext ==
    \/ Starts \/ Stops \/ Aborted \/ Connected \/ NoBody \/ Retry \/ HideAuthorized
    \/ \E how \in {"closed", "error"} : StreamEnds(how)
    \/ \E s \in AgentStates : AgentMoves(s)
    \/ ToggleCreds \/ Authorize \/ ToggleInstructions \/ Inject
    \/ \E text \in {"", "bad", "good"} : PasteJson(text)
    \/ \E r \in Runtimes : SelectRuntime(r)
    \/ \E ok \in BOOLEAN : Injected(ok) \/ Installed(ok)
    \/ ToggleInstall \/ Install
    \/ \E text \in {"", "package"} : TypePackage(text)
    \/ ToggleConfig
    \/ \E as \in {"shown", "error"} : ConfigAnswered(as)

RowSpec == RowInit /\ [][RowNext]_rowVars

-----------------------------------------------------------------------------

\* A kubex that runs is followed, or will be, unless the hook says that it has
\* failed; and never by two streams, or by one and a timer that would open
\* another (useAgentLifecycle).
FollowedOrFailed ==
    /\ stream.on /\ stream.conn = "none" /\ ~stream.timer => stream.status = "error"
    /\ stream.timer => stream.on /\ stream.conn = "none"
    /\ stream.conn # "none" => stream.on

\* "Brief confirmation" (KubexRow): the banner has a timer to hide it.
AuthorizedIsBrief == kubex.authorized => kubex.hide

=============================================================================
