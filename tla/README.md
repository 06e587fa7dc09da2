# KubexClaw in TLA+

KubexClaw runs AI agents ("Kubexes") as containers.  A user's request enters
through the Gateway, which checks it against policies and publishes a task on a
Redis stream through the Broker.  Agents poll the Broker, work on the task with
an LLM or a CLI program, and store the result.  A Registry knows which agents
serve which capability, and the Kubex Manager creates and destroys their
containers.  The services are Python asyncio programs over Redis; the Command
Center is a React application.

This directory holds TLA+ models of those parts whose correctness depends on
interleavings, failures and order, the TLC configurations that check them on
small instances, and proofs of what matters most for every instance.  Paths are
relative to the repository.  `PROJECT.json` lists, for machines, what this file
says in words: which definition stands for which lines (`map`), the runs, the
mutants, the hazards and the theorems.

1. [The system](#1-the-system)
2. [The modules](#2-the-modules)
3. [The runs](#3-the-runs)
4. [Fairness](#4-fairness)
5. [What is proved](#5-what-is-proved)
6. [Where code and documents differ](#6-where-code-and-documents-differ)
7. [What is not modelled](#7-what-is-not-modelled)
8. [Plan](#8-plan)


## 1. The system

### How a task travels

    browser --POST /actions--> Gateway --POST /messages--> Broker --XADD--> Redis
       ^                          ^                           ^
       | SSE, polls               | progress                  | poll, result, ack
       +------------------------- + ---------- agent ---------+
                                                 |
                     CLI process, LLM  <---------+

The Gateway publishes progress messages with Redis pub/sub to whoever is
listening at that moment; the result itself is a Redis key the Broker writes.
Nobody holds a lock across two requests: every interaction below is a sequence
of separate Redis or HTTP calls, with an `await` and so another coroutine, or
another process, in between.

### Components

The services (`S/` stands for `services/`, `H/` for `agents/_base/kubex_harness/`):

| Component | State | Operations | What makes it correct |
|---|---|---|---|
| **Broker** `S/broker` | Redis stream `boundary:default`, a consumer group per capability with cursor and pending list, dead letter stream, result keys; no memory of its own | publish, consume (pending entries, then new ones, then drop what belongs to others), acknowledge, store result, the reaper every minute | no task is lost in silence; a task goes only to agents of its capability; what is acknowledged stays acknowledged; every task ends |
| **Standalone agent** `H/standalone.py` | loop position, current task | poll each capability, run LLM, post progress, store, acknowledge | a message is acknowledged only when its task is answered |
| **CLI runtime** `H/cli_runtime.py` | state BOOTING, CREDENTIAL_WAIT, READY, BUSY; child process; current task | boot, credential gate, poll, spawn, retry once, classify the failure, shut down | a process runs only while BUSY; every task is answered; SIGTERM ends the process it finds; the published state is true |
| **Gateway: task stream** `S/gateway` `main.py` | one SSE generator per connection | look for a stored result, subscribe, forward, end | a client that waits learns the outcome |
| **Gateway: actions** `main.py`, `policy.py`, `ratelimit.py`, `budget.py`, `identity.py` | counters in Redis, identity cache | identity, budget, policy, reviewer, rate limit, route | limits hold under concurrency; refusal on doubt |
| **Registry** `S/registry` | agents in memory; hash and capability sets in Redis | register, deregister, update status, resolve, restore, notify | memory and Redis agree; subscribers end up with the current list |
| **MCP Bridge** `H/mcp_bridge.py` | tools per capability, subtasks and their capability and depth | refresh on notification, delegate, poll, forward answers, cancel | every capability there is has a tool; joined and left events match |
| **Kubex Manager** `S/kubex-manager` | records in memory and Redis; containers; configuration files | create with rollback, start, stop, kill, restart, remove, reload | records, containers and registrations agree |
| **OpenClaw harness** `H/harness.py` | process, cancelled flag | run, stream output, listen for cancel, escalate | it always reports; a cancellation hits its own task only |
| **Hook server** `H/hook_server.py` | none (calls CLIRuntime) | receive hook events | an event is attributed to its own task |

The Command Center (`command-center/src`), which the documents call the console:

| Component | State | Operations | What makes it correct |
|---|---|---|---|
| **Chat** `OrchestratorChat.tsx`, `useSSE.ts` | React state, refs, timers, localStorage | send, cancel, follow the stream, retry, poll, fall back, recover | the wait ends; localStorage names the task under way; who is said to leave has joined |
| **Sign-in** `services/auth.ts`, `AuthContext.tsx`, `App.tsx` | sessionStorage, React state, the url | login by redirect, callback, sign-out, a token entered by hand, reload, the browser's back | only the last attempt becomes a session; the console is shown only with one |
| **Preferences** `useLocalStorage.ts` and its users | localStorage, and a copy in each component | toggle, add, save, reset, clear | the copies that are shown do not undo each other |
| **Feedback** toasts, notifications, health, progress | lists with limits and timers | add, dismiss, read, clear, check services | the history is that of what was said |
| **Frame** `Layout.tsx`, palette, kill-all dialog | path, overlays, keys, query, dialog | navigate, open and close, move, run, confirm | all containers are killed once per confirmation |
| **Panels** of kubexes and agents | the polled list, selection, calls in flight, forms; per row a lifecycle stream | start, stop, kill, restart, delete, deregister, register, bulk actions, credentials, packages, configuration | what is reported was done; the list catches up; a running kubex is followed |
| **Tables** | rows, filters, order, page, keys, selection, address | search, filter, sort, page, select, go back | what is shown is what the filters leave, page by page |
| **Spawn wizard** `SpawnWizard.tsx` | step, fields, errors, known capabilities, the call | next, back, choose, spawn, start over | what is sent is valid, and once |
| **Agent's page and dispatch** | agent, tab, buttons, lifecycle stream; two forms, the traffic log | load, change status, follow, dispatch | what it waits for is under way; each dispatch is logged once |

The rest (LLM proxy, vault operations, skill resolution, configuration,
kubex-common, the dashboard and displays of the console, scripts) keeps no state
that several actors change; see section 7.

### What is hard in it

- **Shared pending list.**  All instances of a capability read under one
  consumer name, so each poll re-delivers what any of them is working on.
- **Unchecked calls.**  Agents post the result and acknowledge without looking
  at the answers; the Broker logs a failed group creation and a failed copy to
  the dead letter queue and goes on; the Registry logs a failed write and
  answers as if it had been made.
- **Snapshots.**  The reaper works off a list of pending entries that is old by
  the time it gets to them; the chat compares refs before and after an `await`;
  a load of the console joins a GET that was served before the action it follows.
- **Several ways to one outcome.**  A result reaches the chat through the
  stream, the cached result on reconnection, the poll on open, the guard timer
  and the fallback, in any order, and while another task may be under way.
- **Kill at any await.**  Nothing an agent knows survives it; only the pending
  list of the Broker brings its task back.
- **Two copies of one truth**: memory and Redis in the Registry, React state and
  refs, React state and storage, the page and the address in the console,
  published and real state in the CLI runtime.
- **Users do not wait.**  Dialogs are closed and opened again, steps taken back
  and pages left while a request is under way, and its answer comes all the same.

`PROJECT.json` "hazards" lists the gravest of these at their lines, each with the
properties that would catch them going wrong; section 6 has those that do go wrong.


## 2. The modules

| Module | Role |
|---|---|
| `BrokerStreams` | the Broker's state and operations; no `Next` of its own |
| `TaskDelivery` | the Broker composed with publishers, agents and reaper; a specification |
| `TaskQueue` | abstract specification: what Broker and agents promise together; `TaskDelivery` and `CliRuntime` implement it |
| `CliRuntime` | the supervisor of a CLI agent |
| `AgentDirectory` | the Registry composed with the tools of the MCP Bridge |
| `TaskStream` | the Gateway's SSE generator and the worker's last posts; no `Next` of its own |
| `Chat` | the browser composed with `TaskStream`: how a task is followed |
| `ChatRoom` | the chat as it is used: input, history, feed, participants, scrolling |
| `Session`, `Preferences`, `Feedback`, `Shell` | sign-in, localStorage, what is announced, the frame |
| `ManagedList` | a page that polls a list and acts on it; extended by `ContainersPanel`, `AgentsPanel`, `QuickActions` |
| `KubexRow` | one row of the kubexes, with its stream and panels |
| `Tables`, `Spawn`, `AgentDetail`, `Dispatch` | the tables, the wizard, the page of an agent, the forms that dispatch |
| `Ranking` | sorting by a comparison; used by `Tables` and `Shell` |
| `TaskDelivery_proofs`, `CliRuntime_proofs`, `Chat_proofs`, `AgentDirectory_proofs`, `Console_proofs`, `Fleet_proofs`, `Work_proofs`, `Ranking_proofs` | theorems, of the module or the instance of that name |
| `MCTaskDelivery`, `MCCliRuntime`, `MCChat`, `MCDirectory` | small instances for TLC |
| `MCConsole`, `MCFleet`, `MCWork` | small instances of several parts of the console, see below |

### BrokerStreams and TaskDelivery

*State.*  The stream is an append-only log: `pos[t]` is the place of the message
of task `t`, `floor` how far MAXLEN has trimmed it.  Per group there are the
cursor `last`, the pending list `pel`, the delivery counts `tries` and, for time,
the set `stale` of entries idle long enough to be claimed.  `dlq` and `result`
are the outcomes.  The Broker process itself only has requests under way:
`sending` (publish between its two calls), `call` (consume between its two
reads, and the reply until it is worked off) and `reap` (the reaper's snapshot).
Agents have a position in their loop (`pass`, `phase`, `cur`, `outcome`).
`hit` is a history of calls that failed and `runs` of tasks taken up.

*Actions.*  An action is what happens between two awaits.

| Code | Actions |
|---|---|
| `publish` (streams.py:62) | `PublishEnsure` creates the group, or fails and logs; `PublishAdd` adds and trims |
| `consume` (streams.py:98) | `ConsumePending` reads the pending list, `ConsumeNew` the new messages, drops and acknowledges those of other capabilities; `ConsumeFails` |
| `acknowledge`, `store_result` | `Acknowledge`, `StoreResult`, each with the failure nobody looks at |
| `handle_pending` (streams.py:176) | `ReaperScan`, then per entry `ReaperDeadLetter` and `ReaperAck`, or `ReaperClaim`; `ReaperFails` |
| `_poll_and_process`, `_handle_message`, `_task_loop` | `Poll`, `Receive`, `Take`, `Finish`, `Store`, `Ack` |
| environment | `Crash`, `Restart`, `LoseReply`, `FailRequest`, `FailReaper`, `Ageing` |

Two details of Redis are part of the model because the code depends on them:
XREADGROUP with an explicit id returns the consumer's pending entries, and
counts a delivery and restarts the idle clock; an entry whose message was
trimmed comes back without fields, passes the capability filter and is run as
task "unknown" (`blank`).

*Abstract specification.*  `TaskQueue` has a status and a set of outcomes per
task: a task may be closed only when it has an outcome or a failure excuses the
loss, and never opens again.  `TaskDelivery` refines it (`ImplementsQueue`):
a task is live while its message is ahead of its group's cursor or pending.

### CliRuntime

`pc` is the await at which the main coroutine of `CLIRuntime` stands: gate,
operator question, watch, head of the loop, poll, check, spawn, drain, report,
acknowledge.  `after` is the call site `_credential_gate` returns to, for it is
called from four places and each sets a different state afterwards.  `child`
and `exit` are the process, `grace` and `target` the shutdown coroutine with
the process it took, `noticed` the change that `awatch` has seen (it reports only
changes after it was started).  `published` is the Redis key others read, with whether the
latest state failed to reach it (`missed`): `_publish_state` logs such a failure and goes on (`Show`).  The
Broker is reduced to `inbox`, the unacknowledged messages.

SIGTERM, SIGKILL, the end of a process, logging in and losing the credentials
may fall between any two steps.  Exit statuses are what the code tells apart:
zero, expired login, other error, and death by a signal, which the code takes
for zero (`ExitZero`).

The runtime, too, implements `TaskQueue` (`ImplementsQueue`), with the Broker it sees: a task is
live while its message is in `inbox`, its outcome is the result that was posted, and a task whose post
failed (`lost`) is excused.

### AgentDirectory

`memory` is `CapabilityStore._agents` and `hash` the Redis hash a restart reads.
A request (`Register`, `Deregister`, `UpdateStatus`) changes memory at once and
leaves an element of `writes` that waits for Redis: `Written` or `WriteFails`
(which may or may not have reached Redis), and then, if the handler tells anyone,
`Publish` or `PublishFails`.  Requests have connections of their own, so writes
may be made in any order.  `RegistryRestarts` is `restore_from_redis`; `RestoreFails`
starts with some of the agents, those that were loaded before the failure.

The Bridge has its `tools`, a `listener` that is off, on or dead, and the news it
has been sent and not worked off (`heard`).  `looks` are its requests for the list:
one at start and one of the listener, which may overlap and be answered in either
order (`Listed`, `Installed`, `LookFails`).  `Installed` adds the capabilities of the list to the
tools, as `_register_worker_tool` adds functions to the MCP server, whose list is what the LLM is
offered in either mode; nothing is ever taken from it, and `_tool_cache` is only counted in a log.

`marred` and `bridge.excused` are histories.  They name the ways in which Redis
may differ from memory (two writes of one agent overlapped, the last one failed) and
in which a tool may be missing (news published while nobody listened or not at all,
a look that failed, a Registry that started again), so that the
properties say that there is no other.

### TaskStream and Chat

`TaskStream` models `stream_task_progress` (look at the stored result, then
subscribe, then forward), with connections and the events on their way to the
browser (`wire`), and the two last posts of a worker, which `StoreFirst` orders:
the CLI runtime stores the result first, the standalone agent posts the final
message first.

`Chat` keeps apart what JavaScript keeps apart: React state as set (`q`), as
rendered (`ui`), refs (`ref`), localStorage (`saved`), and all that is yet to
run (`later`: dispatches, guard timers, polls in flight, retry timers, fallback
loops).  A callback sees its component's rendered state but the present refs.
`Render` commits the state and runs the effects: `useSSE` closes the connection in
`esRef`, whichever that is, and opens the new one.

Time enters as two constraints, both from constants of the code: a timer of two
seconds finds the renders done (`TimerTime`), and polls, which `api.ts` aborts after
eight seconds, are over before a chain of retries has waited for ten (`GuardOver`).
A poll may have been answered before the result was stored (`Answers`).

### ChatRoom

What `Chat` abstracts from: the input with its history and the draft it restores,
favorites, the feed with the notices of who joins and leaves (`present` is
`activeParticipantsRef`), the question of a human in the loop, the scroll lock and
`groupedMessages`.  Here a stream brings any events and ends at any time, and the
looks at the result are answered at any time; what is kept is what each clears and
shows.  `Texts` are valid ones.

### The console

Each module has a `...Init`, a `...Next` and a `...Spec` of its own over its own
variables.  The three MC modules put several of them in one instance: `part`
says which of them a behavior moves, because they share no state (in
`MCConsole` the settings, which toasts read, are the exception, and their parts
move together).  This is one TLC run over the union of their state spaces.

| Module | State and actions |
|---|---|
| `Session` | `store` is sessionStorage, `tab` the url, the build's mode and the attempts begun, `view` React's state, `awaiting` what `handleCallback` awaits.  Attempts are numbered, and a number stands for verifier, state, code, tokens and profile alike.  The provider answers any attempt, in any order, and exchanges a code once.  `SignOut` clears the storage and calls `setUser(null)`, which alone renders the gate again: without a profile it changes nothing, and the console stays until the page is gone.  `TokenSet` is the other way to render it: a token set or cleared by hand |
| `Preferences` | `kept` is localStorage, `held` the copy of each component that calls a hook, `applied` the theme of the document; pages are opened and left |
| `Feedback` | toasts with their timers, the history of notifications with its limit, the bell and its delayed `markAllRead`, the health of the services and the progress bar |
| `Shell` | path and remembered path, overlays, the two-key sequences, the palette with scores of what may be typed, the dialog that kills all |
| `ManagedList` | `server` is what the service has, `list` the loaded list with the GET in flight and who waits for it (`apiFetch` shares GETs), `calls` the actions in flight, `told` the last toast with the calls it is about, and, kept by the service's own steps, the calls it has done (`served`).  A call ends after eight seconds for the page (`waited`) and may still be served; an answer may be lost (`Heard`) |
| `ContainersPanel`, `AgentsPanel`, `QuickActions` | what rows, selection, dialogs and the form of registration offer, and what their handlers do with the answers |
| `KubexRow` | `stream` is `useAgentLifecycle` (connection, retry timer, tries, abort), the rest the panels of a row; the agent publishes its states as in `CliRuntime` |
| `Tables` | `view` is the component's state and `url` the query, each written by its own handlers; the rows come and go |
| `Spawn` | the form, what is known of capabilities and whether they are asked for, the calls in flight |
| `AgentDetail` | the list read for the agent of the address, by loads of which some are silent; the calls that change its status; the lifecycle tab with its connection |
| `Dispatch` | both forms, the requests in flight, what the Gateway has accepted, the traffic log |

Fields of forms hold what validation tells apart: nothing, something valid,
something not.  Rows, agents and kubexes are model values.


## 3. The runs

    tlc -workers 2 -config MCTaskDelivery_shared.cfg MCTaskDelivery

| Run | Instance | Shows |
|---|---|---|
| `shared` | 2 tasks, 2 agents, 1 capability, 1 failed call, 1 mishap, MAX_RETRIES 2; symmetric in tasks and agents | `IInv`, the inductive invariant; `NotReadAgain`: what a group is done with no request reads again; `ImplementsQueue`, refinement of `TaskQueue` |
| `lanes` | 2 tasks of 2 capabilities, one agent serving both and one serving one, MAXLEN 1, 1 mishap | `CapabilityIsolation`, `NoSilentLoss`, while messages are trimmed away unread and pending |
| `settles` | 2 tasks, a standalone and a CLI agent, 1 mishap | `EveryTaskSettles`: every published task ends with a result or in the dead letter queue |
| `abandoned` | 2 tasks, 1 agent that may never come back, MAX_RETRIES 3, 1 failed call, 1 mishap | `AbandonedTasksAreReaped`: the reaper alone empties the pending list |
| `cli_runtime` | 2 tasks, 3 mishaps | `ProcessOnlyWhenBusy`; `IInv`, of which `AnsweredBeforeAck` is a part; `ImplementsQueue`, refinement of `TaskQueue`; `TaskSettles`; `StopEndsWhatItFinds`: SIGTERM ends the process it finds, however long that would run, and the runtime, unless a process was spawned that no shutdown attends to |
| `directory` | 2 agents, 1 capability, 2 statuses, 3 requests, 1 fault; symmetric | `RestartKeeps`: Redis has what memory has once nothing waits; `EveryToolIsOffered`: each capability of the agents there are has a tool |
| `chat_served` | 2 tasks, 1 fault, 1 retry, 2 attempts of the fallback, cancellation, mistyped input, worker that posts first; symmetric | `FollowedIsServed`: something is to come of the task that is waited for, unless its final message was overlooked; `SavedWhileSending`, `ShownIsNotSaved`: localStorage names the task that is followed, and no other |
| `chat_two` | 2 tasks, no faults, cancellation | `FinalSettles`: a final message ends the wait, through the reconnection and the stored result |
| `console` | parts of `Session` (2 attempts), `Preferences`, `Feedback` (3 toasts, history of 2), `Shell` (3 commands), `ContainersPanel` (1 id, 2 calls), `ChatRoom` (2 tasks, feed of 4) | `LastAttemptWins`, `ConsoleIsSignedIn`, `CopiesAgree`, `HistoryIsLatest`, `KillAllOnce`, `OpenListCatchesUp`, `NoticesAreTrue` |
| `fleet` | parts of `ContainersPanel`, `AgentsPanel`, `QuickActions` (2 ids, 2 calls), `KubexRow` (2 retries); symmetric | `ReportsAreTrue`: what a page reports as done the service has done, but for bulk actions on kubexes; `RegistrationIsSound`; `FollowedOrFailed` |
| `work` | parts of `Tables` (3 rows, 4 tables), `Spawn` (2 calls), `AgentDetail` (2 agents, 2 waiting), `Dispatch` (3 dispatches, log of 2); symmetric | `ViewIsSound`, `SpawnsAreValid`, `SpawningIsTrue`, `WaitsAreTrue`, `LiveIsConnected`, `LoggedOnce`, `OneAtATime` |

and one in which the code does not do what the repository says:

| Run | Statement | Counterexample |
|---|---|---|
| `cli_exit_code` | AGENT-SYSTEM.md:230 "Failure is classified from exit code" | a CLI that dies from a signal has `exitstatus` None, which counts as 0: its task is stored as completed |

`ChatTypeOK`, `DirectoryTypeOK`, `ConsoleTypeOK`, `FleetTypeOK` and `WorkTypeOK` are the
type invariants, also that of every list cut at its limit; in `TaskDelivery` and `CliRuntime` they are part of `IInv`.  `IInv` is what the proofs of section 5 rest on, and TLC is the cheap way
to find out that it holds.

Some properties join what belongs together: `ViewIsSound` (pages, search, order),
`WaitsAreTrue` (the page's spinner and the locked buttons), `CopiesAgree` (theme and
favorites), `RegistrationIsSound` (`FormWaitsForPost` and `PostsAreValid`),
`ReportsAreTrue` (`PanelReportsTruly` on all panels, `SuccessIsTrue` on that of the
agents).  The conjuncts are named or commented where they are defined.

### Bounds

- *Tasks and agents.*  Two tasks and two agents are the least with which one
  agent is re-delivered what another is running, a reply holds two messages, and
  one message is trimmed by another.  The safety properties are proved for any
  number (section 5).
- *Mishaps and faults* (`MaxMishaps`, `MaxFaults`).  Each is a crash, restart, lost reply
  or failed call at any point.  In `BrokerStreams`, `FaultKinds` names the four calls whose
  failure is only logged; a kind hits a task at most once.
- *MaxRetries* of the Broker is the code's 3 in `abandoned`, and 2 elsewhere: the counter
  saturates there, and one claim before the limit is enough for the two
  branches of `handle_pending`.
- *MaxRuns* bounds the history `runs`, used by one further configuration only.
- *MaxAttempts* and *MaxRetries* of the chat are 2 and 1 in `chat_served`, so that there is a
  last one, and with two tasks the fallback of one goes on while the other is followed;
  proved for any number.  `chat_two` has the code's 3 retries; its instance without
  faults never reaches the fallback.
- *MaxWrites* (`AgentDirectory`): with three requests two of one agent overlap and a third
  follows, or one agent takes over the capability of another and goes.
- *Calls, dispatches, spawns* (`MaxCalls`, `MaxDispatches`, `MaxSpawns`): two are the least
  with which an answer comes while another request is under way; the third dispatch pushes one
  out of the log.
- *Histories and logs* (`MaxNotifications`, `MaxLog`, `MaxEvents`, `SentLimit`) are 2
  instead of 50 to 500: what the code does at the limit depends on the limit alone.
  `MaxFeed` ends a behavior of the chat room.
- *Rows*: three rows on pages of one or two give up to three pages, a full one and
  one that is not.
- *Sign-in attempts*: with two, the answer to an earlier one comes back after a later one
  was begun.  Proved for any number.
- *MaxRetries* of `KubexRow` is 2, so that there is a retry that is not the last; proved for
  any number.
- *Deadlock* is checked for the Broker, the CLI runtime and the console.  The chat
  may really stop, when all tasks are done, and the directory, when all requests and faults are
  used up; their configurations say so.

### What each property can see

For each property of a passing run, `PROJECT.json` "mutants" names a variant of a
modelled definition that breaks it, such as a dropped guard or a missing reset; the variant
stands in the module before the definition it replaces (`CloseFormAnyway`,
`RegisterToldOnce`).


## 4. Fairness

- *Agents* (`AgentFairness`, used by `settles`): each keeps taking steps of its
  loop and is started again after a crash; docker-compose.yml says
  `restart: unless-stopped` for its agents.  For containers made by the Manager,
  which have no restart policy, an operator has to do it.
- *Reaper* (`ReaperFairness`, used by `abandoned`): `_pending_reaper_loop` catches
  every exception and sleeps for a minute at a time, and time passes (`Ageing`).
  No fairness for agents: they may be gone for good.
- *CLI runtime*: the event loop runs every coroutine that can go on
  (`RuntimeFairness`), the container is started again, and the operator logs in when asked
  (`LiveSpec`).  That a CLI process ends by itself is not assumed, as the code sets it no time
  limit: `TaskSettles` has it as a premise (`ProcessesEnd`, there is no process for ever),
  and `StopEndsWhatItFinds` has no such premise.
- *Chat*: each pending callback, the renderer, and the server's steps are weakly
  fair.  The user need not do anything, and messages need not arrive unless sent.
- *Console* (`Fairness` of `MCConsole`, for `OpenListCatchesUp`): the interval of `usePolling`
  goes off (weak fairness of `Poll`), and a GET that is asked for again and again is served
  and answered at some time (strong fairness of `ServeGet` and `GetAnswered`): each may
  fail or run into its eight seconds any number of times, but not for ever.  The page stays
  open and its tab visible, without which nothing is polled.

Fairness is on single actions, never on the mishaps, which are free to occur or
not.


## 5. What is proved

For any values of the constants (tasks, capabilities, agents, attempts, limits, numbers
of failures), from the assumptions on them alone (`ASSUME` in the modules):

| Theorem | States |
|---|---|
| `TaskDelivery_proofs!Invariance` | `Spec => []IInv` |
| `TypeCorrect` | `Spec => []TypeOK` |
| `NothingLost` | `Spec => []NoSilentLoss` |
| `Isolation` | `Spec => []CapabilityIsolation` |
| `NothingReadAgain` | `Spec => NotReadAgain` |
| `Refinement` | `Spec => ImplementsQueue`: Broker and agents implement `TaskQueue` |
| `ClosedForGood` | `Spec => [][...]_vars`: closed tasks stay closed, outcomes are not taken back |
| `CliRuntime_proofs!CliInvariance` | `Spec => []IInv` |
| `BusyProcesses` | `Spec => []ProcessOnlyWhenBusy` |
| `Answered` | `Spec => []AnsweredBeforeAck` |
| `RuntimeRefinement` | `Spec => ImplementsQueue`: the CLI runtime implements `TaskQueue` |
| `ClosedForGood` | as of `TaskDelivery`, of the messages and results of the runtime |
| `Chat_proofs!ChatTyped` | `Spec => []ChatTypeOK` |
| `ShownIsForgotten` | `Spec => []ShownIsNotSaved` |
| `FollowedIsSaved` | `Spec => []SavedWhileSending` |
| `FollowedServed` | `Spec => []FollowedIsServed` |
| `AgentDirectory_proofs!Persistent` | `DirectorySpec => []RestartKeeps` |
| `DirectoryTyped` | `DirectorySpec => []DirectoryTypeOK` |
| `AllToolsOffered` | `DirectorySpec => []EveryToolIsOffered` |
| `Console_proofs!SignedIn` | `SessionSpec => []ConsoleIsSignedIn` |
| `LastOneWins` | `SessionSpec => LastAttemptWins` |
| `AgreeingCopies` | `PreferencesSpec => []CopiesAgree` |
| `LatestHistory` | `FeedbackSpec => []HistoryIsLatest` |
| `KillsAllOnce` | `ShellSpec => []KillAllOnce` |
| `RowsAreMatches` | the rows of the palette are the matches, each once |
| `SelectedIsRun` | `FlatList(q) = Filtered(q) <=> Together(q)`: when Enter runs what is selected |
| `UntypedIsRun` | equal scores and contiguous categories give `FlatList(q) = Filtered(q)` |
| `TrueNotices` | `RoomSpec => []NoticesAreTrue` |
| `ConsoleIsItsParts` | `Spec` of `MCConsole` implies the specification of each of these five |
| `ConsoleTypes` | `Spec => []ConsoleTypeOK` |
| `ConsoleKeepsPromises` | `Spec => []` of the five invariants above, for the parts put together |
| `Fleet_proofs!TrueReports` | `Spec => []ReportsAreTrue`, from `TruePanel` and `TrueSuccess` of the pages |
| `SoundRegistration` | `AgentsSpec => []RegistrationIsSound` |
| `Followed` | `RowSpec => []FollowedOrFailed` |
| `FleetTypes` | `Spec => []FleetTypeOK` |
| `FleetKeepsPromises` | `Spec => [](RegistrationIsSound /\ FollowedOrFailed)` |
| `Work_proofs!SoundView` | `TableSpec => []ViewIsSound` |
| `ValidSpawns` | `SpawnSpec => []SpawnsAreValid` |
| `TrueSpawning` | `SpawnSpec => []SpawningIsTrue` |
| `TrueWaits` | `DetailSpec => []WaitsAreTrue` |
| `TrueLive` | `DetailSpec => []LiveIsConnected` |
| `LogsOnce` | `DispatchSpec => []LoggedOnce` |
| `SendsOneAtATime` | `DispatchSpec => []OneAtATime` |
| `WorkIsItsParts` | `Spec` of `MCWork` implies the specification of each of these four |
| `WorkTypes` | `Spec => []WorkTypeOK` |
| `WorkKeepsPromises` | `Spec => []` of the seven invariants above, for the parts put together |
| `Ranking_proofs!RankedIsSorted` | `Ranked(S, R)` has every element of a finite `S` once, in the strict order `R` |

Most theorems of the console are about a part by itself.  `ConsoleIsItsParts` and `WorkIsItsParts`
carry them to the instances that the runs check: a step of an instance is a step of each part
or leaves it alone, the settings that toasts read included; `ConsoleKeepsPromises`
and `WorkKeepsPromises` are what follows.  They add nothing to the theorems about the parts but that
the instance is made of these parts: a behavior of it moves those that `part` selects.  Of `MCFleet`, whose parts share
the variables of `ManagedList`, the invariant is proved as a whole (`FleetInvariance`); its other
two parts are carried to it by `FleetKeepsPromises`.

The assumptions are those a reader would make of the code: limits are natural numbers,
`NoTask`, `NoId` and their like are no tasks and ids, the rows of a table are finitely many and
may be taken for numbers (`TablesAssumption`; a number stands for the place of a row in what
was loaded), a command of the palette leads to a path there is (`CommandsAssumption`), and no
participant of the chat is called "no one" (`NoOneAssumption`).  A search box that is empty and a
notice about nobody are constants or definitions (`NoSearch`, `NoOne`), not strings of their own.

**Task delivery: why the inductive invariant.**  `NoSilentLoss` says that a published task can
still be delivered, or has an outcome, or is excused.  A step breaks it when it
removes a message from a pending list or moves a cursor past it, and whether that is
harmless was decided earlier, in another process:

- an agent acknowledges after it has stored: `StoredBeforeAck`;
- the reaper acknowledges after it has copied: `CopiedBeforeAck`;
- a group created at "$" starts past the messages there are, which is harmless
  only if none of them is its own: `GroupOrFault`;
- the filter acknowledges what is foreign: for `CapabilityIsolation`, a reply
  holds nothing else, `FilteredReplies`;
- an open request and an open walk are about some group, and a busy agent is
  working off a reply: `OpenCallsHaveGroup`, `WalkHasGroup`, `BusyAgents`;
- cursors never run ahead of the stream, and only published messages circulate:
  `WithinStream`, `OnlyPublished`.

The proof has a lemma per action for the types and one for the other conjuncts.
Facts that only grow (results, the dead letter queue, trimming, failures) are
collected once, in `GrowsStep`, so that most conjuncts survive a step by one
citation.

**Refinement.**  `ForwardStep` shows that cursors move forward and that a message
enters a pending list only when the cursor passes it, and a request's hands only from that
list, from which `NothingReadAgain` follows.  `QueueStep` then maps each step: `PublishAdd` to
`Submit`, `StoreResult` and `ReaperDeadLetter` to `Answer`, whatever takes messages
out of a pending list to `Close` of a set of tasks, which may be empty, and
everything else to a stutter.  `ClosedForGood` is then a theorem about the queue (`QueueOnward`), carried
over by the refinement; so it is for `CliRuntime`.

**CLI runtime.**  `AnsweredBeforeAck` needs to know at `pc = "ack"` that the
result was posted (`PostedAt`), also while the runtime waits for a login there,
and that there is a task at all (`TaskAt`); `ProcessOnlyWhenBusy` needs `BusyAt` and `ProcessAt`.
For the refinement `DispatchedAt` is added, that no message is of a task that was not sent, or else
`Ack` would close what was never submitted.  `QueueStep` maps `Dispatch` to `Submit`, a `Report` that
arrives to `Answer`, one that fails to a growth of what is excused, `Ack` to `Close` of what it takes out of
`inbox`, and whatever the process, the login or a signal does to a stutter: none of it touches what
the Broker has.

**Chat.**  Whoever shows an outcome clears localStorage, of whatever task; what could bring a
shown task back is the answer to a dispatch, which writes localStorage and looks at nothing.
`FreshIsUntouched` says that before that answer no connection, url, timer, poll, fallback or
outcome is of the task, while all of them may be of others.  `SavedWhileSending` is inductive by itself: whoever writes the one writes
or clears the other in the same callback.

`FollowedIsServed` says that the wait is handed on: a connection that ends leaves its end on the wire,
which arms a retry, a retry opens a connection, a url that was set is opened by the next render, and
who gives up stops sending.  `ServedInv` adds that the chat follows the url of its active task (or else
the render would open that of another), `EndsAreSent` that a generator that has returned has sent the
end, last.  Two things end it.  A fallback loop of an earlier task drops the task that is active when it
ends; the chat is then sending and follows none, which the property does not speak of and
`SendingCanBeCancelled` in section 6 shows.  And a final message may go out between the Gateway's look
at the store and its subscription (`Overlooked`): the connection stays open and brings nothing more, which
is `StopsSending` there.  The theorem says that there is no third.

**Registry.**  `RestartKeeps` speaks of an agent only when nothing of it waits for Redis;
when the last write arrives, Redis has what that write holds.  `OneWrite` adds that an agent
without overlap or failure has one write at most, and that it holds what memory has.  A
request that finds another under way marks its agent, and so preserves `OneWrite` by its premise;
one that finds none makes the only write, of what it has just put into memory.

**Tools of the Bridge.**  `EveryToolIsOffered` speaks of a Bridge with nothing under way.  Before
that, `OnItsWay` says, either news is still to be heard, or a look is still to be served, or every
capability there is has its tool already or is in a list that was answered.  As nothing is taken from
the tools, a list that is installed over a newer one does no harm; that is why no look that was
overtaken is excused.

**Sign-in.**  The exchange uses the code and the verifier that `handleCallback` took from
the url and the storage one step earlier.  `StoredIsLast` says that verifier and state are
stored together and belong to the last attempt, `UrlIsOfOne` that a code in the url has come
with its own state, `WaitsOnPage` that while an answer is awaited the page is one from which
no new attempt begins; so `ExchangeIsLast`.

**Wizard.**  A step validates its own fields, when it is left forwards, and the review sends
all of them.  `StepsAreValid` says which fields have been validated from which step on: a field
can be changed only on the step that validates it.  `WaitsForItsOwn` relates the flag to the
call, of which a wizard that was started over has none.

**Lifecycle stream.**  `AbortsWhenOff` is what `FollowedOrFailed` needs in addition: an
aborted connection, whose end would otherwise be taken for a failure and retried, exists only
after the row has stopped following.

**Sorting.**  What `Array.prototype.sort` makes of an array is stated once, in `Ranking`: the i-th
element is the one that i - 1 others come before.  That this is an element at all needs that
each rank is taken exactly once, which `RankedIsSorted` shows by counting: what comes before an
element is a proper subset of what comes before the next.  `RankedHasFirst` finds the first of any
nonempty part.

**Tables.**  `ViewIsSound` follows the page number through every change of rows, filters and
page sizes: `PageBounds` says what the code's clamping leaves of it, `PagesOf` that a page
within those bounds shows something while anything passes the filters.  Two more conjuncts are
needed: `InputIsTrue`, that what the search box holds is what the table is filtered by, but
while one types, and `OrderIsInUrl`, that the agents' order is in the address and no step back
leads away from it.  That the comparison of a table is a strict order, pinned rows and ties
included, is `FirstIsOrder`.

**Palette.**  The matches are ordered by score, then grouped by category, and a row's index is
that of the groups one after the other, while Enter looks it up among the matches in the order of
their scores.  `SoonerPairsIsStrict` shows that the grouping is an order: the first match of a category
exists (`FirstIsFirst`) and is the same for all commands of it (`FirstsAgree`).  So both are
sortings of the same commands, and `RowsAreMatches` holds.  They are the same *sequence* exactly when
no match of another category scores between two of one (`Together`): `TogetherStays` shows that
the grouping then orders as the scores do, `GroupingAgrees` that two equal sequences have the same
first elements of each category, so that what lies between two of one is of it too.  A query for
which this is not so is in section 6.

**Preferences.**  A hook that is mounted before a step and after it keeps what it holds, one that
is mounted by it reads the storage (`HooksHold`, `HooksRead`).  So `CopiesAgree` is preserved where
the component that changes a setting is the one that holds it, and by every change of the page.

**History.**  `LatestOf` speaks of the history as the toasts from some number on, latest
first, cut at the limit.  Emptying it raises the number from which on to that of the last toast, and
the invariant says that it is never beyond (`bell.floor <= bell.added`).

**Kill switch.**  The dialog may be closed and opened while the request is out; `KillAllOnce` holds as
the flag outlives the dialog, and a request is made only while it is not set.  The invariant is
inductive with the types of the frame.

**Participants of the chat.**  `NoticesAreTrue` is about every notice of the feed and about all that
were before it.  `OneMore` treats a message that says who joins or leaves, `OneMoreOfNoOne` any
other: a message at the end changes what was said last for its own participant only.

**Pages of kubexes and agents.**  `PanelReportsTruly` needs that a dialog, and the selection of
a bulk action, is about some id while it is open (`AsksOfOne`, `AsksOfSome`), and that a call
answered as done is among those the service has done (`DoneIsServed`, `TakenIsServed`).  `CalledAdds`,
`ServeKeeps` and `SettleEnds` are the three moments of a call: made, served by the service, and
answered or given up, which need not come in this order.  The toast is written in the last, what was
done in the second, and `ToldGrows` says that nothing done is taken back.  `SuccessIsTrue` of the agents is
preserved as their page reports success only when every call of a selection was answered so, and
the menu of quick actions makes no call that is one of many (`FleetIInv`).

**Page of an agent.**  `WaitsAreTrue` holds for any number of components that share one GET, as
each that is not silent keeps the page loading until the one GET ends for all (`LoadingIsTrue`).
The buttons wait for one call at most, which is forgotten when the overview is left
(`BusyIsTrue`, `LeftBusy`).  `LiveIsConnected` needs that what was aborted is not open (`Truthful`).

**Dispatch.**  Requests are numbered (`Numbered`), so that as many are in flight as numbers are
(`NumbersCount`).  `LogIsTrue` says of the log what `LoggedOnce` does, in numbers, and that no number
is in it twice; `LoggedEntries` what an entry more makes of a log that is cut at its limit.
`FormsAreTrue` says that a form waits for one request at most.  A form that is left forgets
its own: the request stays in flight, under its number (`ForgottenType`), and the other form does not
notice (`ForgottenForms`).

**Model-checked only.**  All liveness (`EveryTaskSettles`,
`AbandonedTasksAreReaped`, `TaskSettles`, `StopEndsWhatItFinds`, `FinalSettles`,
`OpenListCatchesUp`), since the prover does not handle fairness and ENABLED.  Every invariant and
action property of a run has a theorem.  What a recursive definition computes is
not proved of every input, as the library's induction theorems take an operator as parameter;
where a proof needs induction over numbers it takes the least counterexample instead (`LeastNat`,
`GreatestNat`, from the well-foundedness of the natural numbers).


## 6. Where code and documents differ

### Further configurations

These statements of the repository do not hold in the models, and each ends in a
counterexample; the last one holds.  The property stands in its module.  The configuration is
that of the run named, with the property in the place of its properties and the
constants given.

| Property | Configuration | What happens |
|---|---|---|
| `DeadLetteredWereRetried` | `shared`, 1 task and agent, no faults, MaxRetries 3, MaxRuns 3, no symmetry | claims of the reaper and the first delivery count: a task reaches the dead letter queue after one run (streams.py:180 "exceeding MAX_RETRIES", broker.md:400 "3 retries") |
| `OnlyPendingDeadLettered` | the same, MaxRuns 0 | the agent acknowledges between the reaper's snapshot and its copy: a completed task lands in the dead letter queue (streams.py:177) |
| `SharedWorkload` | the same, 2 agents | two instances run one task at once (broker.md:352) |
| `AuthExpiredWaits` | `cli_exit_code` | a login that expires on the second run does not lead to CREDENTIAL_WAIT (AGENT-SYSTEM.md:230) |
| `WaitingIsWaiting` | `cli_exit_code` | CREDENTIAL_WAIT stays published while the agent polls (cli_runtime.py:513) |
| `BootingIsPublished` | `cli_exit_code` | BOOTING is published before there is a connection, so never (cli_runtime.py:212) |
| `GivesUpWithoutCredentials` | `cli_exit_code` | a login before the watch starts is not noticed; after an hour the agent gives up (cli_runtime.py:381) |
| `TaskSettles` | `cli_runtime`, 1 task, no mishaps, CliInstalled FALSE | a missing CLI binary fails the task again and again, and is never reported (cli_runtime.py:720, 835) |
| `StopTerminates` | `cli_runtime`, 1 task and mishap | SIGTERM comes between a check and a spawn, or between two runs of a task: the loop goes on to spawn a process that nobody terminates, and the runtime ends only when that process does by itself (cli_runtime.py:10, 254) |
| `ToolsAreCurrent` | `directory` | the tool of an agent that was deregistered is offered still, as nothing is taken from the MCP server (mcp_bridge.py:895 "rebuild worker delegation tools") |
| `OneBubble` | `chat_served`, 1 task, StoreFirst, no faults, no mistyping, no cancellation, no symmetry | the cached result arrives while the poll on open is under way; both show a bubble (OrchestratorChat.tsx:806 "prevents a duplicate bubble") |
| `FailedIsError` | the same | a stored failure is sent as type "result" and shown as one (SERVICES-API.md:153, BUG-008) |
| `StopsSending` | the same | the result is stored and the final message published between the Gateway's look at the store and its subscription, and both polls were answered before that: the chat waits for ever |
| `NotLocked` | the same, Reachable FALSE; or MayMistype | after the fallback, or a mistyped capability, `sendingRef` stays set; nothing can be sent any more (OrchestratorChat.tsx:119) |
| `OpenPollOfActive` | the same, 2 tasks and connections | a poll on open for one task ends the wait for the next (OrchestratorChat.tsx:516) |
| `CancelIsFinal` | the same, 1 fault, cancellation | the retry timer outlives the cancellation and reopens the stream (OrchestratorChat.tsx:878) |
| `ShownTokensAreValid` | `console` | tokens expire, or are refused a refresh, and the console stays: what is shown is decided when the user changes, not when the tokens do (AuthContext.tsx:7) |
| `SendingCanBeCancelled` | `console` | a fallback loop that ends after another look has found its result clears the task sent since, and its stream |
| `PairedWithItsResponse` | `console` | a prompt sent while the answer to another is awaited is grouped with that answer (OrchestratorChat.tsx:1031) |
| `CallbackIsLeft` | `console` | the url becomes "/" by `replaceState`, which React does not see: the callback page stays (AuthCallbackPage.tsx:5) |
| `EnteredTokenIsSent` | `console` | a token entered by hand is not what requests carry (Layout.tsx:679) |
| `EnterRunsSelected` | `console`, Queries also `DifferingQuery` | the list is shown by category and run by score: Enter runs another command than the one shown as selected (CommandPalette.tsx:208) |
| `BulkSuccessIsTrue` | `fleet` | "Killed N kubexes" counts calls that were refused (CHANGELOG.md:582) |
| `AuthorizedIsBrief` | `fleet` | the next change of the state clears the timer that would hide the banner, and the banner stays |
| `HistorySortIsInUrl`, `PageIsInUrl` | `work` | the order of the history, and the page of any table, are not restored from a link |
| `PrevGoesBack` | `work` | "previous" goes back from the page turned to, which may lie beyond the last one that is shown |
| `AskedOnEntering` | `work` | an empty or failed answer leaves nothing known, so that its end starts the next request: the step says "loading" as long as that lasts (SpawnWizard.tsx:627 "when entering step 2") |
| `SpawnedIsReviewed` | `work` | fields changed while the manager is asked are not those that were spawned, though they are reported as such |
| `AgentIsOfAddress`, `NotFoundIsLooked` | `work` | the answer for an earlier address is shown under the next; a refresh that fails replaces the page by "Agent not found" |
| `ResultIsOfOpening` | `work` | a result shown by the dialog is of its earlier opening (CHANGELOG.md:513) |
| `DeniedWasRefused` | `work` | a dispatch whose answer was lost is logged as denied, and runs |
| `StopsSending` | `chat_served`, 1 task, StoreFirst, Reachable FALSE, 2 faults, no symmetry | holds: with the Gateway out of reach the chat gives up |

### Seen while reading, without a property

*Registry and Bridge.*  The docstring of `_listen_registry_changes` (mcp_bridge.py:1014) has
the listener restart after the timeout of its socket; it ends for good, which `ListenerEnds`
models and `EveryToolIsOffered` excuses.  Overlapping writes of one
agent leave in Redis whichever came last (`marred`).

*Gateway.*  policy.py names a boundary policy and a daily cost limit per agent that are never
evaluated.  POLICY-SECURITY.md:300 says that only an explicit ALLOW of the reviewer passes; the code
passes whatever is not DENY or ESCALATE, and, as the result of a standalone reviewer
has no "decision" at its top level, answers every escalated action with DENY.

*Chat.*  The comment on `handleRetry` has it dispatch again; it fills the input, and only
failures of the dispatch offer it.  Groups of one task may appear twice.  Leaving the page forgets
who takes part while the feed stays.  A cancellation during a dispatch cancels the earlier
task.  A draft restored with Arrow-down keeps the recalled capability.

*Console.*  `refreshToken` and `setPendingApprovalCount` are called by nothing, and the tour is
never started.  The settings for polling, refresh and page size are read by no component.
The instances of the theme toggle may disagree until a reload, and the favorites of the quick
dispatch are those of when it was mounted.  "?" needs Shift, with which the shortcut never matches.
Escape closes the overlay below too.  The dialog that kills all opens after the requests it
waits for.  The priority chosen in a form is not sent: `dispatchTask` says "normal".  Approvals
are resolved in the browser only.


## 7. What is not modelled

- *Left out of the modelled parts.*  Broker: the audit stream, the expiry of
  results after 24 hours, the value of a result that is written twice (the
  last write wins).  Idle time is a flag, so whether the clock of an entry
  is restarted in time by polls that keep re-delivering it (streams.py:126) is not decided.
  CLI runtime: hooks, progress posts, registration.  Registry: the sets of
  agents per capability, which are written and never read.  MCP Bridge: delegation,
  polling of subtasks, forwarded answers.  Gateway stream: messages before the final
  one.  Chat: the recovery of a task when the component is mounted
  (OrchestratorChat.tsx:648, whose timer clears whatever task is active thirty seconds later),
  validation of the text, export and copying, the audit trail and ratings.  Tables: the time
  window of the history and the exports.
- *MCP Bridge: delegation* (mcp_bridge.py:142, 451).  An LLM calls the tools in any order it likes;
  a forwarded answer is stored as the subtask's result, so that whichever of answer and
  worker's result comes last is what every poller sees, and no document says which
  should be.
- *Kubex Manager* (lifecycle.py).  Its documents promise that a failed create is rolled back, that a
  stopped kubex is deregistered and that a restart finds the kubexes again.  None holds
  beyond single calls made one after the other: start, stop, kill and restart change the
  record in memory only (639), remove leaves it in Redis (782), rollback deletes a configuration file
  named after the agent, which a running kubex may use (589), stopping an old kubex deregisters the
  agent a newer one uses (647), and a stop within a start leaves a stopped agent
  registered (622).  A model whose properties exclude all of these would say nothing that the
  tests do not.
- *OpenClaw harness* (harness.py).  AGENT-SYSTEM.md:241 calls it a legacy mode that no
  deployed agent uses.  Its listener looks at the process only after a message, so that without
  one a finished task is never reported (199); a cancellation may hit a task that has
  completed (214), or another than it names (326), and the Gateway publishes it on the
  channel of the requesting agent (main.py:1032).
- *Gateway actions.*  `handle_action` puts one request through one check after another, and `policy.py` is a
  pure function whose rules its unit tests enumerate.  Rate limit (ratelimit.py:107) and
  budget (budget.py:57) read and write in several awaits, so that concurrent requests pass
  the one and lose updates of the other; the identity behind an address is cached (identity.py:51).
  They promise nothing under concurrency that a property could state.  A dispatch that timed out after
  the message was added (main.py:377) is answered 502, and repeated under a new id.
- *Hook server*: passes events on; an event handled late is attributed to the task that runs by
  then (cli_runtime.py:639).
- *Not worth modelling*: the LLM proxy, vault operations and skill tools handle
  one request at a time; configuration, prompts and skills are read once at
  start; the skill resolver makes an ordered union, without state; kubex-common is data definitions;
  the dashboard, approvals, policy check and displays of the console show what one request
  returned; `workflow/`, `pipeline/`, `cancel/` and `security/` exist for the
  imports of tests and do nothing of their own.


## 8. Plan

Done, in this order: `BrokerStreams`, `TaskDelivery`, `TaskQueue` and their proofs, since every
other part relies on tasks being delivered; `CliRuntime` and its proofs; `TaskStream` and
`Chat`, and its proofs; the console, as it holds most of the
program's lines and of its interleavings; `AgentDirectory` and its proofs; and the proofs of every
part of the console (`Ranking_proofs`, `Work_proofs`, `Fleet_proofs`, `Console_proofs`); the
refinement of `TaskQueue` by `CliRuntime`, and the last invariants of `Chat`.  Of what the passing runs check only
liveness has no theorem.

Left, should the code change so that more can be said:

1. The composition of `TaskDelivery` and `CliRuntime` (the inbox of the latter as the pending
   list of the former).  Both implement `TaskQueue`; what is missing is that `CliRuntime`'s
   `Polled` and `Ack` are `TaskDelivery`'s steps of a CLI agent, so that the failures of
   either are those of the whole.
2. The Kubex Manager with `AgentDirectory` as what it calls, once its records are
   written where they are changed.
3. The recovery of the chat on mount.
