----------------------------- MODULE CliRuntime -----------------------------
(***************************************************************************)
(* The supervisor of a CLI agent: class CLIRuntime of                      *)
(* agents/_base/kubex_harness/cli_runtime.py.                              *)
(*                                                                         *)
(* One coroutine boots, waits for credentials, polls the broker and runs   *)
(* one CLI process per task, twice if the first run fails.  Around it, at  *)
(* any await: the CLI process ends, the credential file comes and goes,    *)
(* SIGTERM calls stop() and its _graceful_shutdown coroutine, and the      *)
(* container is killed and started again.                                  *)
(*                                                                         *)
(* The broker is what the runtime sees of it: inbox holds the messages     *)
(* that are not acknowledged, and a poll returns one of them (consume      *)
(* re-delivers pending messages).  TaskDelivery models it in full.         *)
(* Left out: hooks, progress posts, the registry.                          *)
(***************************************************************************)
EXTENDS Naturals

CONSTANTS
    Tasks,
    NoTask,
    CliInstalled,   \* the CLI binary can be executed in the container
    MaxMishaps      \* bound: kills, stops, lost credentials, failed requests

ASSUME CliInstalledAssumption == CliInstalled \in BOOLEAN
ASSUME MaxMishapsAssumption == MaxMishaps \in Nat
ASSUME NoTaskAssumption == NoTask \notin Tasks

VARIABLES
    \* the runtime's process
    pc,         \* the await the main coroutine is at; "off": no process
    after,      \* what _credential_gate returns to
    state,      \* self._state
    running,    \* self._running
    task,       \* self._current_task_id
    attempt,    \* first or second CLI process of the task
    child,      \* self._child and whether it lives
    exit,       \* how the last CLI process ended
    grace,      \* the _graceful_shutdown coroutine
    target,     \* the attempt whose process it terminates
    noticed,    \* awatch has seen a change of the credential directory
    \* outside
    creds,      \* the credential file exists and is not empty
    published,  \* Redis key agent:state:{agent_id}, and whether the last
                \* write of it failed
    inbox,      \* tasks with an unacknowledged message
    result,     \* result[t]: stored result of t; "unsent" before its dispatch
    lost,       \* tasks of which a post to the broker failed
    mishaps

coVars  == <<pc, after, state, task, attempt, exit>>
extVars == <<inbox, result, lost>>
vars == <<coVars, running, child, grace, target, noticed, creds, published,
          extVars, mishaps>>

States == {"booting", "credential_wait", "ready", "busy"}
Exits  == {"zero", "auth", "error", "signal"}
Shows  == [at : States \cup {"none"}, missed : BOOLEAN]

Flags == running \in BOOLEAN /\ noticed \in BOOLEAN /\ creds \in BOOLEAN

Ranges ==
    /\ pc \in {"off", "gate", "hitl", "watch", "loop", "poll", "check", "spawn",
               "drain", "report", "ack"}
    /\ after \in {"boot", "loop", "task", "ack"}
    /\ state \in States
    /\ task \in Tasks \cup {NoTask}
    /\ attempt \in {1, 2}
    /\ child \in {"none", "alive", "exited"}
    /\ exit \in Exits
    /\ grace \in {"none", "scheduled", "waiting"}
    /\ target \in {1, 2}
    /\ published \in Shows
    /\ inbox \subseteq Tasks
    /\ result \in [Tasks -> {"unsent", "none", "completed", "failed"}]
    /\ lost \subseteq Tasks
    /\ mishaps \in 0..MaxMishaps

TypeOK == Flags /\ Ranges

Init ==
    /\ pc = "off" /\ after = "boot" /\ state = "booting" /\ running = TRUE
    /\ task = NoTask /\ attempt = 1 /\ child = "none" /\ exit = "zero"
    /\ grace = "none" /\ target = 1 /\ noticed = FALSE
    /\ creds \in BOOLEAN
    /\ published = [at |-> "none", missed |-> FALSE]
    /\ inbox = {}
    /\ result = [t \in Tasks |-> "unsent"]
    /\ lost = {}
    /\ mishaps = 0

Mishap == mishaps < MaxMishaps /\ mishaps' = mishaps + 1

\* self._state = s; _publish_state(s), whose failure is only logged: the key
\* then keeps its value.
Show(s) ==
    /\ state' = s
    /\ published' \in {[at |-> s, missed |-> FALSE], [published EXCEPT !.missed = TRUE]}

\* The state others read is s, unless it could not be written.
Shown(s) == published.at = s \/ published.missed

-----------------------------------------------------------------------------
(* Boot and credential gate                                                *)

\* run: the first _publish_state comes before the Redis connection is made
\* and is skipped.
Start ==
    /\ pc = "off"
    /\ pc' = "gate" /\ after' = "boot" /\ state' = "booting" /\ running' = TRUE
    /\ UNCHANGED <<task, attempt, exit, child, grace, target, noticed, creds,
                   published, extVars, mishaps>>

\* Mutant: the task goes on without being marked BUSY again.
ResumeIdle ==
    \/ after = "boot" /\ pc' = "loop"  /\ Show("ready")
    \/ after = "loop" /\ pc' = "poll"  /\ Show("ready")
    \/ after = "task" /\ pc' = "spawn" /\ UNCHANGED <<state, published>>
    \/ after = "ack"  /\ pc' = "ack"   /\ UNCHANGED <<state, published>>

\* _credential_gate returns to its caller, which says what the state is now,
\* except after a failed task.
Resume ==
    \/ after = "boot" /\ pc' = "loop"  /\ Show("ready")
    \/ after = "loop" /\ pc' = "poll"  /\ Show("ready")
    \/ after = "task" /\ pc' = "spawn" /\ Show("busy")
    \/ after = "ack"  /\ pc' = "ack"   /\ UNCHANGED <<state, published>>

\* The credentials are there.
GatePasses ==
    /\ pc = "gate"
    /\ creds
    /\ Resume
    /\ UNCHANGED <<after, task, attempt, exit, running, child, grace, target,
                   noticed, creds, extVars, mishaps>>

\* They are not: ask the operator (an await), then watch the directory.
GateCloses ==
    /\ pc = "gate"
    /\ ~creds
    /\ Show("credential_wait")
    /\ pc' = "hitl"
    /\ UNCHANGED <<after, task, attempt, exit, running, child, grace, target,
                   noticed, creds, extVars, mishaps>>

\* awatch reports only changes made after it was started.
StartWatch ==
    /\ pc = "hitl"
    /\ pc' = "watch"
    /\ noticed' = FALSE
    /\ UNCHANGED <<after, state, task, attempt, exit, running, child, grace,
                   target, creds, published, extVars, mishaps>>

\* A change was seen: go on if the file is there and nobody called stop.
Noticed ==
    /\ pc = "watch"
    /\ noticed
    /\ running
    /\ noticed' = FALSE
    /\ IF creds THEN Resume ELSE UNCHANGED <<pc, state, published>>
    /\ UNCHANGED <<after, task, attempt, exit, running, child, grace, target,
                   creds, extVars, mishaps>>

\* The process ends; nothing of it is left but what others have stored.
Gone ==
    /\ pc' = "off" /\ child' = "none" /\ grace' = "none" /\ noticed' = FALSE
    /\ task' = NoTask /\ attempt' = 1 /\ target' = 1

\* stop() or one hour without credentials: SystemExit.
WatchEnds ==
    /\ pc = "watch"
    /\ running => ~noticed
    /\ Gone
    /\ UNCHANGED <<after, state, exit, running, creds, published, extVars, mishaps>>

-----------------------------------------------------------------------------
(* _task_loop                                                              *)

\* The head of the loop: stop, re-gate, or poll.
Loop ==
    /\ pc = "loop"
    /\ \/ /\ ~running
          /\ Gone
          /\ UNCHANGED <<after, state, published>>
       \/ /\ running
          /\ creds
          /\ pc' = "poll"
          /\ UNCHANGED <<after, state, published, task, attempt, child, grace,
                         target, noticed>>
       \/ /\ running
          /\ ~creds
          /\ Show("credential_wait")
          /\ pc' = "gate" /\ after' = "loop"
          /\ UNCHANGED <<task, attempt, child, grace, target, noticed>>
    /\ UNCHANGED <<exit, running, creds, extVars, mishaps>>

\* The reply to the poll: nothing (or an error), or a task to be executed.
Polled ==
    /\ pc = "poll"
    /\ \/ /\ inbox = {}
          /\ pc' = "loop"
          /\ UNCHANGED <<state, published, task, attempt>>
       \/ /\ task' \in inbox
          /\ Show("busy")
          /\ attempt' = 1
          /\ pc' = "check"
    /\ UNCHANGED <<after, exit, running, child, grace, target, noticed, creds,
                   extVars, mishaps>>

\* _execute_task_inner: the credentials are checked once more.
Check ==
    /\ pc = "check"
    /\ IF creds
       THEN pc' = "spawn" /\ UNCHANGED <<after, state, published>>
       ELSE Show("credential_wait") /\ pc' = "gate" /\ after' = "task"
    /\ UNCHANGED <<task, attempt, exit, running, child, grace, target, noticed,
                   creds, extVars, mishaps>>

\* Mutant: the message is acknowledged when the spawn has failed.
SpawnOrAck ==
    /\ pc = "spawn"
    /\ IF CliInstalled /\ attempt = 1
       THEN pc' = "drain" /\ child' = "alive"
       ELSE pc' = "ack" /\ UNCHANGED child
    /\ UNCHANGED <<after, state, task, attempt, exit, running, grace, target, noticed,
                   creds, published, extVars, mishaps>>

\* pexpect.spawn; it raises if the binary cannot be executed, and the exception
\* ends this iteration of the loop.
Spawn ==
    /\ pc = "spawn"
    /\ IF CliInstalled
       THEN pc' = "drain" /\ child' = "alive" /\ UNCHANGED task
       ELSE pc' = "loop" /\ task' = NoTask /\ UNCHANGED child
    /\ UNCHANGED <<after, state, attempt, exit, running, grace, target, noticed,
                   creds, published, extVars, mishaps>>

\* The exit code the runtime sees: exitstatus is None for a process that died
\* from a signal, and None counts as 0.
ExitZero == exit \in {"zero", "signal"}

\* Mutant: a failed first run is not tried again, nor reported.
DrainedNoRetry ==
    /\ pc = "drain"
    /\ child = "exited"
    /\ child' = "none"
    /\ pc' = IF ExitZero THEN "report" ELSE "ack"
    /\ UNCHANGED <<after, state, task, attempt, exit, running, grace, target,
                   noticed, creds, published, extVars, mishaps>>

\* The output is drained and the process closed: retry once, unless it went
\* well or the login has expired.
Drained ==
    /\ pc = "drain"
    /\ child = "exited"
    /\ child' = "none"
    /\ IF exit = "error" /\ attempt = 1
       THEN pc' = "spawn" /\ attempt' = 2
       ELSE pc' = "report" /\ UNCHANGED attempt
    /\ UNCHANGED <<after, state, task, exit, running, grace, target, noticed,
                   creds, published, extVars, mishaps>>

\* _post_result_success or _post_result_failed; a failed post is only logged.
\* A login that has expired on the first run goes to the credential gate before
\* the message is acknowledged.
Report ==
    /\ pc = "report"
    /\ \/ /\ result' = [result EXCEPT ![task] = IF ExitZero THEN "completed" ELSE "failed"]
          /\ UNCHANGED <<lost, mishaps>>
       \/ lost' = lost \cup {task} /\ Mishap /\ UNCHANGED result
    /\ IF exit = "auth" /\ attempt = 1
       THEN Show("credential_wait") /\ pc' = "gate" /\ after' = "ack"
       ELSE pc' = "ack" /\ UNCHANGED <<state, published, after>>
    /\ UNCHANGED <<task, attempt, exit, running, child, grace, target, noticed,
                   creds, inbox>>

\* Acknowledge, or fail to; then READY, unless the state is CREDENTIAL_WAIT.
Ack ==
    /\ pc = "ack"
    /\ \/ inbox' = inbox \ {task} /\ UNCHANGED mishaps
       \/ Mishap /\ UNCHANGED inbox
    /\ IF state # "credential_wait" THEN Show("ready") ELSE UNCHANGED <<state, published>>
    /\ pc' = "loop" /\ task' = NoTask
    /\ UNCHANGED <<after, attempt, exit, running, child, grace, target, noticed,
                   creds, result, lost>>

Main ==
    \/ Start \/ GatePasses \/ GateCloses \/ StartWatch \/ Noticed \/ WatchEnds
    \/ Loop \/ Polled \/ Check \/ Spawn \/ Drained \/ Report \/ Ack

-----------------------------------------------------------------------------
(* Shutdown                                                                *)

\* SIGTERM: stop() schedules _graceful_shutdown if there is a process.
Stop ==
    /\ pc # "off"
    /\ running
    /\ Mishap
    /\ running' = FALSE
    /\ grace' = IF child # "none" THEN "scheduled" ELSE grace
    /\ UNCHANGED <<coVars, child, target, noticed, creds, published, extVars>>

\* It takes the process there is by now and sends SIGTERM, ...
GraceTerm ==
    /\ grace = "scheduled"
    /\ IF child = "none" THEN grace' = "none" /\ UNCHANGED target
                         ELSE grace' = "waiting" /\ target' = attempt
    /\ UNCHANGED <<coVars, running, child, noticed, creds, published, extVars, mishaps>>

\* Mutant: no SIGKILL follows.
GraceNoKill ==
    /\ grace = "waiting"
    /\ grace' = "none"
    /\ UNCHANGED <<coVars, running, child, target, noticed, creds, published, extVars, mishaps>>

\* ... and SIGKILL if that process is still alive 5 seconds later.
GraceKill ==
    /\ grace = "waiting"
    /\ grace' = "none"
    /\ IF child = "alive" /\ attempt = target
       THEN child' = "exited" /\ exit' = "signal"
       ELSE UNCHANGED <<child, exit>>
    /\ UNCHANGED <<pc, after, state, task, attempt, running, target, noticed,
                   creds, published, extVars, mishaps>>

Grace == GraceTerm \/ GraceKill

-----------------------------------------------------------------------------
(* Outside                                                                 *)

\* The CLI process ends with a code, or by a signal: SIGTERM, the out-of-memory
\* killer, or the runtime closing its terminal after 1 MB of output.
ChildExits ==
    /\ child = "alive"
    /\ child' = "exited"
    /\ exit' \in Exits
    /\ UNCHANGED <<pc, after, state, task, attempt, running, grace, target,
                   noticed, creds, published, extVars, mishaps>>

\* The operator logs in, or the Kubex Manager injects the credentials.
Login ==
    /\ ~creds
    /\ creds' = TRUE
    /\ noticed' = (pc = "watch" \/ noticed)
    /\ UNCHANGED <<coVars, running, child, grace, target, published, extVars, mishaps>>

CredentialsVanish ==
    /\ creds
    /\ Mishap
    /\ creds' = FALSE
    /\ noticed' = (pc = "watch" \/ noticed)
    /\ UNCHANGED <<coVars, running, child, grace, target, published, extVars>>

\* The container is killed; its file system, and so the credentials, stay.
Kill ==
    /\ pc # "off"
    /\ Mishap
    /\ Gone
    /\ UNCHANGED <<after, state, exit, running, creds, published, extVars>>

Dispatch(t) ==
    /\ result[t] = "unsent"
    /\ result' = [result EXCEPT ![t] = "none"]
    /\ inbox' = inbox \cup {t}
    /\ UNCHANGED <<coVars, running, child, grace, target, noticed, creds,
                   published, lost, mishaps>>

Next ==
    \/ Main \/ Stop \/ Grace
    \/ ChildExits \/ Login \/ CredentialsVanish \/ Kill
    \/ \E t \in Tasks : Dispatch(t)

Spec == Init /\ [][Next]_vars

\* The event loop runs every coroutine that can go on, and the container is
\* started again when it has ended (restart policy or operator).
RuntimeFairness == WF_vars(Main) /\ WF_vars(Grace)

\* In addition the operator logs in.  That CLI processes end is not assumed: the
\* runtime gives them no time limit.
LiveSpec == Spec /\ RuntimeFairness /\ WF_vars(Login)

-----------------------------------------------------------------------------
(* Properties                                                              *)

\* A CLI process exists only while the agent is BUSY, to itself and, if the
\* state could be written, to those who read it: through retries, credential
\* gates inside a task, and stops.
ProcessOnlyWhenBusy == child # "none" => state = "busy" /\ Shown("busy")

\* A message is acknowledged only when the task has a result, or the post of
\* the result failed: on no way through retry, gate or exception is it lost.
AnsweredBeforeAck ==
    \A t \in Tasks :
        \/ result[t] # "none"
        \/ t \in lost
        \/ t \in inbox

\* The inductive invariant behind the two: where the coroutine is says what its
\* state is, what it works on, and what it has already posted; what it works on
\* was dispatched.
AtGate == pc \in {"gate", "hitl", "watch"}
BusyAt == pc \in {"check", "spawn", "drain"} => state = "busy" /\ Shown("busy")
ProcessAt == child # "none" => pc = "drain"
TaskAt ==
    pc \in {"check", "spawn", "drain", "report", "ack"} \/ (AtGate /\ after \in {"task", "ack"})
        => task \in Tasks
PostedAt ==
    pc = "ack" \/ (AtGate /\ after = "ack")
        => result[task] \in {"completed", "failed"} \/ task \in lost

\* Only tasks that were dispatched have a message or are worked on.
DispatchedAt ==
    /\ \A t \in inbox : result[t] # "unsent"
    /\ task # NoTask => result[task] # "unsent"

IInv ==
    /\ TypeOK
    /\ BusyAt
    /\ ProcessAt
    /\ TaskAt
    /\ PostedAt
    /\ DispatchedAt
    /\ AnsweredBeforeAck

\* What the broker sees of a task: it is live as long as it has a message.
Status(t) ==
    IF result[t] = "unsent" THEN "unsent" ELSE IF t \in inbox THEN "live" ELSE "closed"

Outcomes(t) == IF result[t] \in {"completed", "failed"} THEN {"result"} ELSE {}

Queue == INSTANCE TaskQueue WITH
    status  <- [t \in Tasks |-> Status(t)],
    outcome <- [t \in Tasks |-> Outcomes(t)],
    excused <- lost

\* One runtime in front of its messages keeps the promise that the broker and
\* the agents make together: a task is closed when it has a result or the post
\* of one has failed, and a result is not taken back.
ImplementsQueue == Queue!Spec

\* Every dispatched task is answered, whatever kills, stops, lost logins and
\* failed runs come in between, if no CLI process runs for ever.
ProcessesEnd == []<>(child # "alive")
TaskSettles ==
    ProcessesEnd => \A t \in Tasks : result[t] = "none" ~> result[t] # "none" \/ t \in lost

\* The process there is is the one a shutdown will terminate.
Attended == grace = "scheduled" \/ (grace = "waiting" /\ attempt = target)

\* "SIGTERM -> 5s grace -> SIGKILL" (cli_runtime.py, stop): a process that
\* SIGTERM finds does not outlive the shutdown, even if it never ends by itself;
\* and the stopped runtime ends, through every gate, watch and poll, unless it
\* waits for a process that no shutdown attends to: one spawned after stop()
\* had looked, or after the shutdown had chosen the process before it.
StopEndsWhatItFinds ==
    /\ child = "alive" /\ Attended ~> child # "alive"
    /\ ~running ~> pc = "off" \/ (child = "alive" /\ ~Attended)

\* docs/AGENT-SYSTEM.md: "Failure is classified from exit code": a task is
\* completed only by a process that exited with code 0.
CompletedByExitZero ==
    [][\A t \in Tasks :
          result'[t] = "completed" /\ result[t] # "completed" => exit = "zero"]_vars

\* docs/AGENT-SYSTEM.md: "auth_expired goes directly to CREDENTIAL_WAIT".
AuthExpiredWaits == [][Report /\ exit = "auth" => state' = "credential_wait"]_vars

\* docs/HANDOFF-phase12-oauth-fe.md: "credential_wait: Agent is waiting for
\* OAuth credentials to be injected".
WaitingIsWaiting ==
    published = [at |-> "credential_wait", missed |-> FALSE] /\ pc # "off" => pc \in {"gate", "hitl", "watch"}

\* run: "Publishes BOOTING"; while the runtime boots its published state is
\* BOOTING.
BootingIsPublished == state = "booting" /\ pc # "off" => Shown("booting")

\* stop: "Signal the runtime to stop gracefully" and "unblock any waiting
\* loops": after SIGTERM the process ends, however long its CLI would run.
StopTerminates == ~running ~> pc = "off"

\* _wait_for_credentials: "True when credentials appear, False on timeout": a
\* runtime that has not been stopped gives up only if there are none.
GivesUpWithoutCredentials ==
    [][WatchEnds /\ running => ~creds]_vars
=============================================================================
