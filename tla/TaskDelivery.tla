--------------------------- MODULE TaskDelivery ---------------------------
(***************************************************************************)
(* Delivery of dispatched tasks: the broker of BrokerStreams, its          *)
(* publishers, and the agents that poll it.                                *)
(*                                                                         *)
(* An agent is the loop of StandaloneAgent                                 *)
(* (agents/_base/kubex_harness/standalone.py, _poll_and_process and        *)
(* _handle_message) or, for the agents in CliWorkers, of CLIRuntime        *)
(* (cli_runtime.py, _task_loop and _execute_task): poll a capability, run  *)
(* the tasks of the reply one by one, and for each store the result and    *)
(* then acknowledge the message.  Neither call is checked: a failed one is *)
(* only logged.  An agent may be killed at any point and start again; all  *)
(* it remembers is in the broker.                                          *)
(***************************************************************************)
EXTENDS BrokerStreams

CONSTANTS
    Workers,        \* agents
    CliWorkers,     \* those that run a CLI runtime
    CapsOf,         \* CapsOf[w]: the capabilities in agent w's configuration
    NoTask,         \* "no task"
    ConsumeCount,   \* count of a standalone agent's consume request
    MaxMishaps,     \* bound: crashes, lost replies and aborted reaper walks
    MaxRuns         \* bound: the history counter runs stops here

ASSUME WorkersAssumption == Workers = Consumers /\ CliWorkers \subseteq Workers
ASSUME CapsOfAssumption == CapsOf \in [Workers -> SUBSET Groups]
ASSUME NoTaskAssumption == NoTask \notin Tasks
ASSUME ConsumeCountAssumption == ConsumeCount \in Nat \ {0}
ASSUME MaxRunsAssumption == MaxRuns \in Nat

VARIABLES
    up,         \* up[w]: the agent process runs
    pass,       \* pass[w]: capabilities still to poll in this pass of its loop
    phase,      \* phase[w]: what the agent does with cur[w]
    cur,        \* cur[w]: the task being handled
    outcome,    \* outcome[w]: how the run of cur[w] ended, until it is stored
    mishaps,    \* number of crashes, lost replies and aborted walks so far
    runs        \* history, runs[t]: times an agent took t up, up to MaxRuns

workerVars == <<up, pass, phase, cur, outcome>>
vars == <<brokerVars, workerVars, mishaps, runs>>

Phases == {"idle", "running", "finished", "stored"}

TypeOK ==
    /\ BrokerTypeOK
    /\ up \in [Workers -> BOOLEAN]
    /\ pass \in [Workers -> SUBSET Groups]
    /\ phase \in [Workers -> Phases]
    /\ cur \in [Workers -> Tasks \cup {NoTask}]
    /\ outcome \in [Workers -> Statuses]
    /\ mishaps \in Nat
    /\ runs \in [Tasks -> 0..MaxRuns]

Init ==
    /\ BrokerInit
    /\ up = [w \in Workers |-> TRUE]
    /\ pass = CapsOf
    /\ phase = [w \in Workers |-> "idle"]
    /\ cur = [w \in Workers |-> NoTask]
    /\ outcome = [w \in Workers |-> "completed"]
    /\ mishaps = 0
    /\ runs = [t \in Tasks |-> 0]

-----------------------------------------------------------------------------
(* The agent loop                                                          *)

CountOf(w) == IF w \in CliWorkers THEN 1 ELSE ConsumeCount

\* The task was read without its fields: the agent sees a task "unknown".
Blank(w, t) == t \in call[w].blank

\* The agent has worked off its last reply.
Free(w) ==
    /\ up[w]
    /\ phase[w] = "idle"
    /\ \/ call[w].stage = "none"
       \/ call[w].stage \in {"replied", "taken"} /\ call[w].got = {}

\* _consume: poll the next capability of the pass; a pass covers them all.
Poll(w, g) ==
    /\ Free(w)
    /\ g \in pass[w]
    /\ ConsumePending(w, g, CountOf(w))
    /\ pass' = [pass EXCEPT ![w] = IF @ = {g} THEN CapsOf[w] ELSE @ \ {g}]
    /\ UNCHANGED <<up, phase, cur, outcome, mishaps, runs>>

\* The rest of the request, and its reply.
Receive(w) ==
    /\ up[w]
    /\ ConsumeNew(w, CountOf(w))
    /\ UNCHANGED <<workerVars, mishaps, runs>>

\* The next message of the reply is taken up.  The list is in stream order:
\* pending entries were delivered before any new one.  A CLI agent takes
\* messages[0] and forgets the others.
Take(w, t) ==
    /\ up[w]
    /\ phase[w] = "idle"
    /\ call[w].stage \in {"replied", "taken"}
    /\ t \in call[w].got
    /\ \A u \in call[w].got : pos[t] <= pos[u]
    /\ phase' = [phase EXCEPT ![w] = "running"]
    /\ cur' = [cur EXCEPT ![w] = t]
    /\ call' = [call EXCEPT ![w] =
                   [stage |-> "taken", group |-> @.group, blank |-> @.blank,
                    got |-> IF w \in CliWorkers THEN {} ELSE @.got \ {t}]]
    /\ runs' = [runs EXCEPT ![t] =
                   IF Blank(w, t) \/ @ = MaxRuns THEN @ ELSE @ + 1]
    /\ UNCHANGED <<redisVars, sending, reap, hit, up, pass, outcome, mishaps>>

\* The LLM or CLI run ends, well or not; an exception is a failed task.
Finish(w, s) ==
    /\ up[w]
    /\ phase[w] = "running"
    /\ phase' = [phase EXCEPT ![w] = "finished"]
    /\ outcome' = [outcome EXCEPT ![w] = s]
    /\ UNCHANGED <<brokerVars, up, pass, cur, mishaps, runs>>

\* Mutant: only a successful run posts its result.
StoreSuccess(w) ==
    /\ up[w]
    /\ phase[w] = "finished"
    /\ IF Blank(w, cur[w]) \/ outcome[w] = "failed" THEN UNCHANGED brokerVars
                           ELSE StoreResult(cur[w], outcome[w])
    /\ phase' = [phase EXCEPT ![w] = "stored"]
    /\ outcome' = [outcome EXCEPT ![w] = "completed"]
    /\ UNCHANGED <<up, pass, cur, mishaps, runs>>

\* POST /tasks/{id}/result.  The result of a blank message is not stored under
\* the task's key.
Store(w) ==
    /\ up[w]
    /\ phase[w] = "finished"
    /\ IF Blank(w, cur[w]) THEN UNCHANGED brokerVars
                           ELSE StoreResult(cur[w], outcome[w])
    /\ phase' = [phase EXCEPT ![w] = "stored"]
    /\ outcome' = [outcome EXCEPT ![w] = "completed"]
    /\ UNCHANGED <<up, pass, cur, mishaps, runs>>

\* POST /messages/{id}/ack.
Ack(w) ==
    /\ up[w]
    /\ phase[w] = "stored"
    /\ Acknowledge(call[w].group, cur[w])
    /\ phase' = [phase EXCEPT ![w] = "idle"]
    /\ cur' = [cur EXCEPT ![w] = NoTask]
    /\ UNCHANGED <<call, up, pass, outcome, mishaps, runs>>

AgentStep(w) ==
    \/ \E g \in Groups : Poll(w, g)
    \/ Receive(w)
    \/ \E t \in Tasks : Take(w, t)
    \/ \E s \in Statuses : Finish(w, s)
    \/ Store(w)
    \/ Ack(w)

-----------------------------------------------------------------------------
(* Mishaps                                                                 *)

Mishap ==
    /\ mishaps < MaxMishaps
    /\ mishaps' = mishaps + 1

\* The agent's container stops: the loop's local state is gone.
Crash(w) ==
    /\ up[w]
    /\ Mishap
    /\ up' = [up EXCEPT ![w] = FALSE]
    /\ pass' = [pass EXCEPT ![w] = CapsOf[w]]
    /\ phase' = [phase EXCEPT ![w] = "idle"]
    /\ cur' = [cur EXCEPT ![w] = NoTask]
    /\ outcome' = [outcome EXCEPT ![w] = "completed"]
    /\ call' = [call EXCEPT ![w] = NoCall]
    /\ UNCHANGED <<redisVars, sending, reap, hit, runs>>

\* Docker (restart: unless-stopped) or an operator starts it again.
Restart(w) ==
    /\ ~up[w]
    /\ up' = [up EXCEPT ![w] = TRUE]
    /\ UNCHANGED <<brokerVars, pass, phase, cur, outcome, mishaps, runs>>

\* The reply to a consume request does not arrive: _consume returns [].
LoseReply(w) ==
    /\ call[w].stage = "replied"
    /\ call[w].got # {}
    /\ Mishap
    /\ call' = [call EXCEPT ![w] = NoCall]
    /\ UNCHANGED <<redisVars, sending, reap, hit, workerVars, runs>>

\* The request fails in the broker: _consume returns [].
FailRequest(w) ==
    /\ Mishap
    /\ ConsumeFails(w)
    /\ UNCHANGED <<workerVars, runs>>

FailReaper ==
    /\ Mishap
    /\ ReaperFails
    /\ UNCHANGED <<workerVars, runs>>

-----------------------------------------------------------------------------
(* The specification                                                       *)

DispatchTask ==
    \E t \in Tasks :
        /\ PublishEnsure(t) \/ PublishAdd(t)
        /\ UNCHANGED <<workerVars, mishaps, runs>>

Reaper ==
    /\ (\E g \in Groups : ReaperScan(g)) \/ ReaperStep
    /\ UNCHANGED <<workerVars, mishaps, runs>>

Ageing ==
    \E g \in Groups, t \in Tasks :
        Age(g, t) /\ UNCHANGED <<workerVars, mishaps, runs>>

Next ==
    \/ DispatchTask
    \/ \E w \in Workers : AgentStep(w)
    \/ \E w \in Workers : Crash(w) \/ Restart(w) \/ LoseReply(w) \/ FailRequest(w)
    \/ Reaper
    \/ FailReaper
    \/ Ageing

Spec == Init /\ [][Next]_vars

\* Agents keep running their loop and are restarted.
AgentFairness == \A w \in Workers : WF_vars(AgentStep(w)) /\ WF_vars(Restart(w))

\* The reaper loop never ends, and time passes.
ReaperFairness == WF_vars(Reaper) /\ WF_vars(Ageing)

LiveSpec == Spec /\ AgentFairness
ReaperSpec == Spec /\ ReaperFairness

-----------------------------------------------------------------------------
(* Properties                                                              *)

\* The message can still reach an agent of its capability.
Live(t) ==
    /\ Published(t)
    /\ pos[t] > last[CapOf[t]] \/ t \in pel[CapOf[t]]

HasOutcome(t) == result[t] # "none" \/ t \in dlq

\* A failure the code only logs hit the task, or its message was trimmed.
Excused(t) ==
    \/ Trimmed(t)
    \/ \E k \in {"group", "store", "dlq"} : <<k, t>> \in hit

\* No task is lost in silence (streams.py consume: "messages are never lost if
\* a consumer crashes between delivery and acknowledgement").  Whatever agents,
\* reaper and publishers interleave and wherever agents crash, a published task
\* can still be delivered, or has a result, or is in the dead letter queue;
\* only a trimmed message or a failed call of the logged-only kinds takes one
\* away without a trace.
NoSilentLoss ==
    \A t \in Tasks : Published(t) => Live(t) \/ HasOutcome(t) \/ Excused(t)

\* An agent only ever runs tasks of the capability it polled, although every
\* group reads the one stream all capabilities share (the filter of consume).
\* Messages whose fields were trimmed away pass the filter and are excluded.
CapabilityIsolation ==
    \A w \in Workers :
        cur[w] # NoTask /\ ~Blank(w, cur[w]) => CapOf[cur[w]] = call[w].group

\* Once a group is done with a message (acknowledged, dead-lettered or never
\* delivered to it), no request reads it any more: it never comes back to the
\* pending list, neither by the reaper's XCLAIM from a stale snapshot nor by a
\* re-created group, and no consume request gets to hold it, whichever of its
\* two reads it is at.  Only a request that had read the message while it was
\* pending may still hand it out, and its agent then runs it once more.
Done(g, t) == Published(t) /\ pos[t] <= last[g] /\ t \notin pel[g]
Holds(c, g, t) == call[c].group = g /\ t \in call[c].got
NotReadAgain ==
    [][\A g \in Groups, t \in Tasks : Done(g, t) =>
          /\ Done(g, t)'
          /\ \A c \in Consumers : Holds(c, g, t)' => Holds(c, g, t)]_vars

\* Every published task ends with a result or in the dead letter queue, as
\* long as agents are restarted and no call fails: crashes and lost replies
\* are made up for by re-delivery of the shared pending list.
EveryTaskSettles == \A t \in Tasks : Published(t) ~> HasOutcome(t)

\* When the agents of a group are gone for good, the reaper alone empties its
\* pending list into the dead letter queue (MAX_RETRIES claims, then the DLQ).
AllDown == \A w \in Workers : ~up[w]
AbandonedTasksAreReaped ==
    <>[]AllDown => <>[](\A g \in Groups : pel[g] = {})

-----------------------------------------------------------------------------
(* The inductive invariant.  NoSilentLoss alone is not inductive: removing  *)
(* a message from a pending list is harmless only because of what happened  *)
(* before, in another process.                                              *)

\* A consume request that is open, or answered, is about some group.
OpenCallsHaveGroup ==
    \A c \in Consumers : call[c].stage # "none" => call[c].group \in Groups

\* A walk of the reaper with entries to go is over some group.
WalkHasGroup == reap.todo # {} => reap.group \in Groups

\* Positions and cursors stay within the stream.
WithinStream ==
    /\ \A t \in Tasks : pos[t] <= top
    /\ \A g \in Groups : last[g] <= top

\* Only published messages circulate, and none is published twice.
OnlyPublished ==
    /\ \A g \in Groups : \A t \in pel[g] : Published(t)
    /\ \A g \in Groups : stale[g] \subseteq pel[g]
    /\ \A c \in Consumers : \A t \in call[c].got : Published(t)
    /\ \A c \in Consumers : \A t \in call[c].blank : Trimmed(t)
    /\ \A w \in Workers : cur[w] # NoTask => Published(cur[w])
    /\ \A e \in reap.todo : Published(e[1])
    /\ \A t \in sending : ~Published(t)

\* A task whose group does not exist has been hit by the failure to create it.
GroupOrFault ==
    \A t \in Tasks : t \in sending \/ Published(t) =>
        CapOf[t] \in groups \/ <<"group", t>> \in hit

\* A busy agent has a task, from a reply it is still working off.
BusyAgents ==
    \A w \in Workers :
        /\ phase[w] # "idle" <=> cur[w] # NoTask
        /\ phase[w] # "idle" => call[w].stage = "taken"

\* Between the two unchecked calls of an agent, store and acknowledge, the
\* result is there or the store failed.
StoredBeforeAck ==
    \A w \in Workers : phase[w] = "stored" =>
        result[cur[w]] # "none" \/ Excused(cur[w])

\* Between the two calls of the reaper, likewise.
CopiedBeforeAck == \A t \in reap.sent : t \in dlq \/ Excused(t)

\* A reply holds only messages of the capability that was polled.
FilteredReplies ==
    \A c \in Consumers : call[c].stage \in {"replied", "taken"} =>
        \A t \in call[c].got \ call[c].blank : CapOf[t] = call[c].group

IInv ==
    /\ TypeOK
    /\ OpenCallsHaveGroup
    /\ WalkHasGroup
    /\ WithinStream
    /\ OnlyPublished
    /\ GroupOrFault
    /\ BusyAgents
    /\ StoredBeforeAck
    /\ CopiedBeforeAck
    /\ FilteredReplies
    /\ CapabilityIsolation
    /\ NoSilentLoss

-----------------------------------------------------------------------------
(* The abstract queue this implements.                                     *)

Status(t) == IF ~Published(t) THEN "unsent" ELSE IF Live(t) THEN "live" ELSE "closed"

Outcomes(t) == (IF result[t] # "none" THEN {"result"} ELSE {})
                \cup (IF t \in dlq THEN {"dead"} ELSE {})

Queue == INSTANCE TaskQueue WITH
    status  <- [t \in Tasks |-> Status(t)],
    outcome <- [t \in Tasks |-> Outcomes(t)],
    excused <- {t \in Tasks : Excused(t)}

\* Broker and agents together implement the task queue of TaskQueue: a task is
\* closed only after it has an outcome or an excuse, outcomes are never taken
\* back, and a closed task is never open again.
ImplementsQueue == Queue!Spec

-----------------------------------------------------------------------------
(* What comments and documents say and the code does not do                *)

\* streams.py handle_pending: "Messages exceeding MAX_RETRIES go to the DLQ":
\* a dead-lettered task was given to an agent MAX_RETRIES times.
DeadLetteredWereRetried == \A t \in dlq : runs[t] >= MaxRetries

\* streams.py handle_pending: "Process pending (unacknowledged) messages": only
\* a message that is still pending is moved to the dead letter queue.
OnlyPendingDeadLettered ==
    [][\A t \in dlq' \ dlq : t \in pel[reap.group]]_vars

\* docs/broker.md 18.2: instances of one consumer "share the workload via the
\* consumer group": no task is run by two agents at once.
SharedWorkload ==
    \A v, w \in Workers :
        v # w /\ cur[v] # NoTask /\ ~Blank(v, cur[v]) => cur[v] # cur[w]
=============================================================================
