--------------------------- MODULE BrokerStreams ---------------------------
(***************************************************************************)
(* The Kubex Broker's transport layer: services/broker/broker/streams.py   *)
(* (class BrokerStreams) over one Redis stream, 'boundary:default', and    *)
(* the pending reaper of services/broker/broker/main.py.                   *)
(*                                                                         *)
(* The stream is an append-only log: pos[t] is the place of the message of *)
(* task t in it.  A consumer group exists per capability; every consumer   *)
(* of a group reads under the SAME consumer name (groupname =              *)
(* consumername = capability), so a group has one pending entries list     *)
(* (PEL) that all its consumers share.                                     *)
(*                                                                         *)
(* This module holds the broker's state and one action per operation; it   *)
(* has no Next of its own.  TaskDelivery composes it with the agents that  *)
(* call it.                                                                *)
(*                                                                         *)
(* Abstractions:                                                           *)
(*  - a message is its task (task ids are unique: one message per task);   *)
(*  - time is a flag: an entry idle for RETRY_AFTER_MS or more is stale;   *)
(*  - delivery counts saturate at MaxRetries, the only value they are      *)
(*    compared with;                                                       *)
(*  - the audit stream and the 24 h expiry of results are left out.        *)
(***************************************************************************)
EXTENDS Integers, FiniteSets

CONSTANTS
    Tasks,          \* task ids, one published message each
    Groups,         \* consumer groups, i.e. capabilities
    CapOf,          \* the capability a task is dispatched to
    Consumers,      \* clients that call /messages/consume
    NoGroup,        \* "no group": the reaper is asleep, or no call is open
    MaxRetries,     \* MAX_RETRIES
    StreamMaxLen,   \* STREAM_MAXLEN
    MaxFaults       \* bound: failed Redis or HTTP calls that hit a task

\* The kinds of call that may fail for a task.
FaultKinds == {"group", "dlq", "store", "ack"}

ASSUME CapOfAssumption == CapOf \in [Tasks -> Groups]
ASSUME NoGroupAssumption == NoGroup \notin Groups
ASSUME MaxRetriesAssumption == MaxRetries \in Nat \ {0}
ASSUME StreamMaxLenAssumption == StreamMaxLen \in Nat \ {0}

VARIABLES
    \* Redis
    pos,        \* pos[t]: place of t's message in the stream, 0 if not published
    top,        \* place of the last message
    floor,      \* messages at or below this place have been trimmed away
    groups,     \* consumer groups that exist
    last,       \* last[g]: last-delivered-id of group g
    pel,        \* pel[g]: pending entries list of group g
    tries,      \* tries[g][t]: times_delivered of t in pel[g]
    stale,      \* stale[g]: the entries of pel[g] idle for RETRY_AFTER_MS
    dlq,        \* tasks copied to the dead letter stream
    result,     \* result[t]: the value of key task:result:t
    \* broker process
    sending,    \* tasks whose publish has ensured the group, not yet added
    call,       \* call[c]: the consume request of client c and its reply
    reap,       \* the reaper's walk over one group
    \* history
    hit         \* <<kind, t>>: a call of that kind failed for task t

redisVars  == <<pos, top, floor, groups, last, pel, tries, stale, dlq, result>>
brokerVars == <<redisVars, sending, call, reap, hit>>

Statuses == {"completed", "failed"}

NoCall == [stage |-> "none", group |-> NoGroup, got |-> {}, blank |-> {}]
Asleep == [group |-> NoGroup, todo |-> {}, sent |-> {}]

BrokerTypeOK ==
    /\ pos \in [Tasks -> Nat]
    /\ top \in Nat
    /\ floor \in Nat
    /\ groups \subseteq Groups
    /\ last \in [Groups -> Nat]
    /\ pel \in [Groups -> SUBSET Tasks]
    /\ tries \in [Groups -> [Tasks -> 0..MaxRetries]]
    /\ stale \in [Groups -> SUBSET Tasks]
    /\ dlq \subseteq Tasks
    /\ result \in [Tasks -> Statuses \cup {"none"}]
    /\ sending \subseteq Tasks
    /\ call \in [Consumers -> [stage : {"none", "pending", "replied", "taken"},
                               group : Groups \cup {NoGroup},
                               got   : SUBSET Tasks,
                               blank : SUBSET Tasks]]
    /\ reap \in [group : Groups \cup {NoGroup},
                 todo  : SUBSET (Tasks \X (0..MaxRetries)),
                 sent  : SUBSET Tasks]
    /\ hit \subseteq FaultKinds \X Tasks

BrokerInit ==
    /\ pos = [t \in Tasks |-> 0]
    /\ top = 0
    /\ floor = 0
    /\ groups = {}
    /\ last = [g \in Groups |-> 0]
    /\ pel = [g \in Groups |-> {}]
    /\ tries = [g \in Groups |-> [t \in Tasks |-> 0]]
    /\ stale = [g \in Groups |-> {}]
    /\ dlq = {}
    /\ result = [t \in Tasks |-> "none"]
    /\ sending = {}
    /\ call = [c \in Consumers |-> NoCall]
    /\ reap = Asleep
    /\ hit = {}

-----------------------------------------------------------------------------
(* Helpers *)

\* A call of kind k fails for task t.  Bound: each kind hits a task once, and
\* MaxFaults calls fail in all.
Fault(k, t) ==
    /\ <<k, t>> \notin hit
    /\ Cardinality(hit) < MaxFaults
    /\ hit' = hit \cup {<<k, t>>}

Published(t) == pos[t] > 0
Trimmed(t)   == Published(t) /\ pos[t] <= floor

\* Entries a read of new messages (id ">") of group g can return.
Unread(g) == {t \in Tasks : pos[t] > last[g] /\ pos[t] > floor}
ReadTo(g, p) == {t \in Unread(g) : pos[t] <= p}

\* Where the last-delivered-id of g ends after XREADGROUP > COUNT n: past the
\* oldest n unread entries, or past all of them if there are fewer.
CursorAfter(g, n) ==
    {p \in {last[g]} \cup {pos[t] : t \in Unread(g)} :
        \/ Cardinality(ReadTo(g, p)) = n
        \/ Cardinality(ReadTo(g, p)) < n /\ ReadTo(g, p) = Unread(g)}

\* Mutant: step 1 of consume reads ">" and so no pending entry (BUG-009).
OldestSkipped(S, n) == {}

\* The n oldest entries of S.
Oldest(S, n) == {t \in S : Cardinality({u \in S : pos[u] < pos[t]}) < n}

\* Mutant: XCLAIM ... JUSTID, which does not count a delivery.
BumpedNot(g, S) == tries

\* times_delivered goes up by one for the entries of S.
Bumped(g, S) ==
    [tries EXCEPT ![g] = [t \in Tasks |->
        IF t \in S /\ tries[g][t] < MaxRetries THEN tries[g][t] + 1
                                               ELSE tries[g][t]]]

\* Mutant: no filter on the capability.
ForeignNone(c, S) == {}

\* Entries of a reply that are for another capability.  A message without
\* fields has none and is kept.
Foreign(c, S) == {t \in S \ call[c].blank : CapOf[t] # call[c].group}

\* XACK of the entries S of group g: nothing happens to one not in the PEL.
Xack(g, S) ==
    /\ pel' = [pel EXCEPT ![g] = @ \ S]
    /\ stale' = [stale EXCEPT ![g] = @ \ S]
    /\ tries' = [tries EXCEPT ![g] = [t \in Tasks |->
                                        IF t \in S THEN 0 ELSE tries[g][t]]]

-----------------------------------------------------------------------------
(* Operations *)

\* ensure_stream_and_group: XGROUP CREATE g "$" MKSTREAM; BUSYGROUP is fine.
EnsureGroup(g) ==
    /\ groups' = groups \cup {g}
    /\ last' = IF g \in groups THEN last ELSE [last EXCEPT ![g] = top]

\* Mutant: publish does not ensure the group.
PublishEnsureNot(t) ==
    /\ ~Published(t)
    /\ t \notin sending
    /\ sending' = sending \cup {t}
    /\ UNCHANGED <<pos, top, floor, groups, last, pel, tries, stale, dlq, result, call, reap, hit>>

\* publish, first call: ensure the group of the task's capability.  If that
\* fails the failure is only logged and publish goes on.
PublishEnsure(t) ==
    /\ ~Published(t)
    /\ t \notin sending
    /\ \/ EnsureGroup(CapOf[t]) /\ UNCHANGED hit
       \/ /\ CapOf[t] \notin groups
          /\ Fault("group", t)
          /\ UNCHANGED <<groups, last>>
    /\ sending' = sending \cup {t}
    /\ UNCHANGED <<pos, top, floor, pel, tries, stale, dlq, result, call, reap>>

\* publish, second call: XADD with MAXLEN ~, which may trim any number of the
\* oldest entries as long as StreamMaxLen are left.
PublishAdd(t) ==
    /\ t \in sending
    /\ sending' = sending \ {t}
    /\ top' = top + 1
    /\ pos' = [pos EXCEPT ![t] = top + 1]
    /\ \E f \in floor..top :
          /\ f = floor \/ top + 1 - f >= StreamMaxLen
          /\ floor' = f
    /\ UNCHANGED <<groups, last, pel, tries, stale, dlq, result, call, reap, hit>>

\* consume, step 1: re-deliver the oldest n pending entries (id "0").  Redis
\* counts the delivery and restarts the idle clock, except for an entry whose
\* message has been trimmed: that one comes back without fields.
ConsumePending(c, g, n) ==
    LET seen  == Oldest(pel[g], n)
        blank == {t \in seen : Trimmed(t)}
    IN  /\ call[c].stage # "pending"
        /\ EnsureGroup(g)
        /\ tries' = Bumped(g, seen \ blank)
        /\ stale' = [stale EXCEPT ![g] = @ \ (seen \ blank)]
        /\ call' = [call EXCEPT ![c] = [stage |-> "pending", group |-> g,
                                        got |-> seen, blank |-> blank]]
        /\ UNCHANGED <<pos, top, floor, pel, dlq, result, sending, reap, hit>>

\* consume, step 2 and the reply: deliver the oldest n new entries (id ">"),
\* then acknowledge and drop what was read for another capability.  A failed
\* auto-ack is ignored.
ConsumeNew(c, n) ==
    LET g == call[c].group
    IN  /\ call[c].stage = "pending"
        /\ \E p \in CursorAfter(g, n) :
              LET fresh   == ReadTo(g, p)
                  read    == call[c].got \cup fresh
                  foreign == Foreign(c, read)
              IN  \E acked \in SUBSET foreign :
                    /\ \/ acked = foreign /\ UNCHANGED hit
                       \/ \E t \in foreign \ acked :
                             acked = foreign \ {t} /\ Fault("ack", t)
                    /\ last' = [last EXCEPT ![g] = p]
                    /\ pel' = [pel EXCEPT ![g] = (@ \cup fresh) \ acked]
                    /\ stale' = [stale EXCEPT ![g] = @ \ acked]
                    /\ tries' = [tries EXCEPT ![g] = [t \in Tasks |->
                                    IF t \in acked THEN 0
                                    ELSE IF t \in fresh THEN 1 ELSE tries[g][t]]]
                    /\ call' = [call EXCEPT ![c] =
                                  [stage |-> "replied", group |-> g,
                                   got |-> read \ foreign, blank |-> @.blank]]
        /\ UNCHANGED <<pos, top, floor, groups, dlq, result, sending, reap>>

\* acknowledge: XACK by a client, or a request that fails on the way.
Acknowledge(g, t) ==
    /\ \/ Xack(g, {t}) /\ UNCHANGED hit
       \/ Fault("ack", t) /\ UNCHANGED <<pel, stale, tries>>
    /\ UNCHANGED <<pos, top, floor, groups, last, dlq, result, sending, reap>>

\* store_result: SET task:result:t, last write wins, or a request that fails.
StoreResult(t, s) ==
    /\ \/ result' = [result EXCEPT ![t] = s] /\ UNCHANGED hit
       \/ Fault("store", t) /\ UNCHANGED result
    /\ UNCHANGED <<pos, top, floor, groups, last, pel, tries, stale, dlq, sending, call, reap>>

\* RETRY_AFTER_MS pass without a delivery of t in group g.
Age(g, t) ==
    /\ t \in pel[g] \ stale[g]
    /\ stale' = [stale EXCEPT ![g] = @ \cup {t}]
    /\ UNCHANGED <<pos, top, floor, groups, last, pel, tries, dlq, result, sending, call, reap, hit>>

-----------------------------------------------------------------------------
(* The pending reaper: handle_pending(g) for each existing group in turn.   *)

\* xpending_range: a snapshot of the stale entries and their counts.
ReaperScan(g) ==
    /\ reap = Asleep
    /\ g \in groups
    /\ stale[g] # {}
    /\ reap' = [group |-> g,
                todo |-> {<<t, tries[g][t]>> : t \in stale[g]},
                sent |-> {}]
    /\ UNCHANGED <<redisVars, sending, call, hit>>

\* The entry of the snapshot the loop has reached.
ReapNext(t, n) ==
    /\ <<t, n>> \in reap.todo
    /\ \A e \in reap.todo : pos[t] <= pos[e[1]]

\* The loop is done with the entry; the walk ends with the last one.
ReapDone(t, n) ==
    reap' = IF reap.todo = {<<t, n>>} THEN Asleep
            ELSE [reap EXCEPT !.todo = @ \ {<<t, n>>}, !.sent = @ \ {t}]

\* Mutant: the dead letter never reaches the DLQ.
ReaperDeadLetterNot(t, n) ==
    /\ ReapNext(t, n)
    /\ n >= MaxRetries
    /\ t \notin reap.sent
    /\ reap' = [reap EXCEPT !.sent = @ \cup {t}]
    /\ UNCHANGED <<redisVars, sending, call, hit>>

\* _send_to_dlq: copy the message to the DLQ; a trimmed one has nothing to
\* copy, and a failure is only logged.
ReaperDeadLetter(t, n) ==
    /\ ReapNext(t, n)
    /\ n >= MaxRetries
    /\ t \notin reap.sent
    /\ \/ dlq' = (IF Trimmed(t) THEN dlq ELSE dlq \cup {t}) /\ UNCHANGED hit
       \/ Fault("dlq", t) /\ UNCHANGED dlq
    /\ reap' = [reap EXCEPT !.sent = @ \cup {t}]
    /\ UNCHANGED <<pos, top, floor, groups, last, pel, tries, stale, result, sending, call>>

\* acknowledge after _send_to_dlq, whatever became of the copy.
ReaperAck(t, n) ==
    /\ ReapNext(t, n)
    /\ t \in reap.sent
    /\ Xack(reap.group, {t})
    /\ ReapDone(t, n)
    /\ UNCHANGED <<pos, top, floor, groups, last, dlq, result, sending, call, hit>>

\* Mutant: XCLAIM ... FORCE, which makes a pending entry if there is none.
ReaperClaimForce(t, n) ==
    LET g == reap.group
    IN  /\ ReapNext(t, n)
        /\ n < MaxRetries
        /\ pel' = [pel EXCEPT ![g] = @ \cup {t}]
        /\ tries' = Bumped(g, {t})
        /\ stale' = [stale EXCEPT ![g] = @ \ {t}]
        /\ ReapDone(t, n)
        /\ UNCHANGED <<pos, top, floor, groups, last, dlq, result, sending, call, hit>>

\* xclaim with min_idle_time=0: one more delivery, idle clock restarted.  An
\* entry acknowledged since the snapshot is left alone; Redis 7 drops one whose
\* message has been trimmed from the PEL.
ReaperClaim(t, n) ==
    LET g == reap.group
    IN  /\ ReapNext(t, n)
        /\ n < MaxRetries
        /\ IF Trimmed(t)
           THEN Xack(g, {t})
           ELSE /\ tries' = Bumped(g, {t} \cap pel[g])
                /\ stale' = [stale EXCEPT ![g] = @ \ {t}]
                /\ UNCHANGED pel
        /\ ReapDone(t, n)
        /\ UNCHANGED <<pos, top, floor, groups, last, dlq, result, sending, call, hit>>

ReaperStep ==
    \E t \in Tasks, n \in 0..MaxRetries :
        ReaperDeadLetter(t, n) \/ ReaperAck(t, n) \/ ReaperClaim(t, n)

\* A Redis call raises inside handle_pending: the walk is abandoned.  A broker
\* restart is this and the failure of the consume requests in progress.
ReaperFails ==
    /\ reap # Asleep
    /\ reap' = Asleep
    /\ UNCHANGED <<redisVars, sending, call, hit>>

\* The second read of a consume request fails, or its broker restarts.
ConsumeFails(c) ==
    /\ call[c].stage = "pending"
    /\ call' = [call EXCEPT ![c] = NoCall]
    /\ UNCHANGED <<redisVars, sending, reap, hit>>
=============================================================================
