------------------------ MODULE TaskDelivery_proofs ------------------------
(***************************************************************************)
(* Proofs about TaskDelivery, for any tasks, capabilities, agents and      *)
(* bounds.                                                                 *)
(***************************************************************************)
EXTENDS TaskDelivery, TLAPS

USE CapOfAssumption, NoGroupAssumption, MaxRetriesAssumption,
    StreamMaxLenAssumption, WorkersAssumption, CapsOfAssumption, NoTaskAssumption,
    MaxRunsAssumption

-----------------------------------------------------------------------------
(* Type correctness                                                        *)

LEMMA FaultType ==
    ASSUME hit \subseteq FaultKinds \X Tasks, NEW k \in FaultKinds, NEW t \in Tasks,
           Fault(k, t)
    PROVE  hit' \subseteq FaultKinds \X Tasks /\ hit \subseteq hit'
BY DEF Fault

LEMMA EnsureGroupType ==
    ASSUME BrokerTypeOK, NEW g \in Groups, EnsureGroup(g)
    PROVE  /\ groups' \subseteq Groups
           /\ last' \in [Groups -> Nat]
BY DEF BrokerTypeOK, EnsureGroup

LEMMA BumpedType ==
    ASSUME BrokerTypeOK, NEW g \in Groups, NEW S
    PROVE  Bumped(g, S) \in [Groups -> [Tasks -> 0..MaxRetries]]
BY DEF BrokerTypeOK, Bumped

LEMMA XackType ==
    ASSUME BrokerTypeOK, NEW g \in Groups, NEW S, Xack(g, S)
    PROVE  /\ pel' \in [Groups -> SUBSET Tasks]
           /\ stale' \in [Groups -> SUBSET Tasks]
           /\ tries' \in [Groups -> [Tasks -> 0..MaxRetries]]
BY DEF BrokerTypeOK, Xack

LEMMA PublishEnsureType ==
    ASSUME BrokerTypeOK, NEW t \in Tasks, PublishEnsure(t)
    PROVE  BrokerTypeOK'
<1>1. CapOf[t] \in Groups
  OBVIOUS
<1>2. groups' \subseteq Groups /\ last' \in [Groups -> Nat]
  BY <1>1, EnsureGroupType DEF PublishEnsure, BrokerTypeOK
<1>3. hit' \subseteq FaultKinds \X Tasks
  BY FaultType DEF PublishEnsure, BrokerTypeOK, FaultKinds
<1> QED
  BY <1>2, <1>3 DEF PublishEnsure, BrokerTypeOK

LEMMA PublishAddType ==
    ASSUME BrokerTypeOK, NEW t \in Tasks, PublishAdd(t)
    PROVE  BrokerTypeOK'
BY DEF PublishAdd, BrokerTypeOK

LEMMA ConsumePendingType ==
    ASSUME BrokerTypeOK, NEW c \in Consumers, NEW g \in Groups, NEW n \in Nat,
           ConsumePending(c, g, n)
    PROVE  BrokerTypeOK'
<1> DEFINE seen == Oldest(pel[g], n)
           blank == {t \in seen : Trimmed(t)}
<1>1. seen \subseteq Tasks /\ blank \subseteq Tasks
  BY DEF Oldest, BrokerTypeOK
<1>2. groups' \subseteq Groups /\ last' \in [Groups -> Nat]
  BY EnsureGroupType DEF ConsumePending
<1>3. tries' \in [Groups -> [Tasks -> 0..MaxRetries]]
  BY BumpedType DEF ConsumePending
<1>4. call' = [call EXCEPT ![c] = [stage |-> "pending", group |-> g,
                                   got |-> seen, blank |-> blank]]
  BY DEF ConsumePending
<1>5. call' \in [Consumers -> [stage : {"none", "pending", "replied", "taken"},
                               group : Groups \cup {NoGroup},
                               got   : SUBSET Tasks,
                               blank : SUBSET Tasks]]
  <2> HIDE DEF seen, blank
  <2> QED BY <1>1, <1>4 DEF BrokerTypeOK
<1>6. stale' \in [Groups -> SUBSET Tasks]
  BY DEF ConsumePending, BrokerTypeOK
<1> QED
  BY <1>2, <1>3, <1>5, <1>6 DEF ConsumePending, BrokerTypeOK

LEMMA CallGroup ==
    ASSUME BrokerTypeOK, NEW c \in Consumers, OpenCallsHaveGroup,
           call[c].stage # "none"
    PROVE  call[c].group \in Groups
BY DEF OpenCallsHaveGroup, BrokerTypeOK

\* What step 2 of consume does, with its local definitions out of the way.
ForeignRead(c, p) == Foreign(c, call[c].got \cup ReadTo(call[c].group, p))

ReadsNew(c, p, acked) ==
    LET g == call[c].group
    IN  /\ last' = [last EXCEPT ![g] = p]
        /\ pel' = [pel EXCEPT ![g] = (@ \cup ReadTo(g, p)) \ acked]
        /\ stale' = [stale EXCEPT ![g] = @ \ acked]
        /\ tries' = [tries EXCEPT ![g] = [t \in Tasks |->
                        IF t \in acked THEN 0
                        ELSE IF t \in ReadTo(g, p) THEN 1 ELSE tries[g][t]]]
        /\ call' = [call EXCEPT ![c] =
                      [stage |-> "replied", group |-> g,
                       got |-> (call[c].got \cup ReadTo(g, p)) \ ForeignRead(c, p),
                       blank |-> call[c].blank]]

LEMMA ConsumeNewStep ==
    ASSUME BrokerTypeOK, NEW c \in Consumers, NEW n \in Nat, ConsumeNew(c, n)
    PROVE  \E p \in CursorAfter(call[c].group, n) : \E acked \in SUBSET ForeignRead(c, p) :
              /\ ReadsNew(c, p, acked)
              /\ hit \subseteq hit'
              /\ hit' \subseteq FaultKinds \X Tasks
<1> DEFINE g == call[c].group
<1>1. PICK p \in CursorAfter(g, n) : \E acked \in SUBSET ForeignRead(c, p) :
        /\ \/ acked = ForeignRead(c, p) /\ UNCHANGED hit
           \/ \E t \in ForeignRead(c, p) \ acked :
                 acked = ForeignRead(c, p) \ {t} /\ Fault("ack", t)
        /\ ReadsNew(c, p, acked)
  BY Zenon DEF ConsumeNew, ForeignRead, Foreign, ReadsNew
<1>2. PICK acked \in SUBSET ForeignRead(c, p) :
        /\ \/ acked = ForeignRead(c, p) /\ UNCHANGED hit
           \/ \E t \in ForeignRead(c, p) \ acked :
                 acked = ForeignRead(c, p) \ {t} /\ Fault("ack", t)
        /\ ReadsNew(c, p, acked)
  BY <1>1
<1>3. ForeignRead(c, p) \subseteq Tasks
  BY DEF ForeignRead, Foreign, ReadTo, Unread, BrokerTypeOK
<1>4. hit \subseteq hit' /\ hit' \subseteq FaultKinds \X Tasks
  BY <1>2, <1>3, FaultType DEF BrokerTypeOK, FaultKinds
<1> QED
  BY <1>2, <1>4

LEMMA ConsumeNewType ==
    ASSUME BrokerTypeOK, OpenCallsHaveGroup, NEW c \in Consumers, NEW n \in Nat,
           ConsumeNew(c, n)
    PROVE  BrokerTypeOK'
<1> DEFINE g == call[c].group
<1>1. g \in Groups
  BY CallGroup DEF ConsumeNew
<1>2. PICK p \in CursorAfter(g, n) : \E acked \in SUBSET ForeignRead(c, p) :
        ReadsNew(c, p, acked) /\ hit' \subseteq FaultKinds \X Tasks
  BY ConsumeNewStep
<1>3. PICK acked \in SUBSET ForeignRead(c, p) :
        ReadsNew(c, p, acked) /\ hit' \subseteq FaultKinds \X Tasks
  BY <1>2
<1> DEFINE fresh == ReadTo(g, p)
           kept  == (call[c].got \cup fresh) \ ForeignRead(c, p)
           new   == [stage |-> "replied", group |-> g, got |-> kept,
                     blank |-> call[c].blank]
<1>4. fresh \subseteq Tasks /\ kept \subseteq Tasks
  BY DEF ReadTo, Unread, BrokerTypeOK
<1>5. p \in Nat
  BY <1>1 DEF CursorAfter, Unread, BrokerTypeOK
<1>6. /\ last' = [last EXCEPT ![g] = p]
      /\ pel' = [pel EXCEPT ![g] = (@ \cup fresh) \ acked]
      /\ stale' = [stale EXCEPT ![g] = @ \ acked]
      /\ tries' = [tries EXCEPT ![g] = [t \in Tasks |->
                      IF t \in acked THEN 0
                      ELSE IF t \in fresh THEN 1 ELSE tries[g][t]]]
      /\ call' = [call EXCEPT ![c] = new]
  BY <1>3 DEF ReadsNew
<1>7. new \in [stage : {"none", "pending", "replied", "taken"},
               group : Groups \cup {NoGroup},
               got   : SUBSET Tasks,
               blank : SUBSET Tasks]
  BY <1>1, <1>4 DEF BrokerTypeOK
<1> HIDE DEF fresh, kept, new, g
<1>8. /\ last' \in [Groups -> Nat]
      /\ pel' \in [Groups -> SUBSET Tasks]
      /\ stale' \in [Groups -> SUBSET Tasks]
      /\ tries' \in [Groups -> [Tasks -> 0..MaxRetries]]
  BY <1>1, <1>4, <1>5, <1>6 DEF BrokerTypeOK
<1>9. call' \in [Consumers -> [stage : {"none", "pending", "replied", "taken"},
                               group : Groups \cup {NoGroup},
                               got   : SUBSET Tasks,
                               blank : SUBSET Tasks]]
  BY <1>6, <1>7 DEF BrokerTypeOK
<1> QED
  BY <1>3, <1>8, <1>9 DEF ConsumeNew, BrokerTypeOK

LEMMA AcknowledgeType ==
    ASSUME BrokerTypeOK, NEW g \in Groups, NEW t \in Tasks,
           Acknowledge(g, t), UNCHANGED call
    PROVE  BrokerTypeOK'
BY XackType, FaultType DEF Acknowledge, BrokerTypeOK, FaultKinds

LEMMA StoreResultType ==
    ASSUME BrokerTypeOK, NEW t \in Tasks, NEW s \in Statuses, StoreResult(t, s)
    PROVE  BrokerTypeOK'
<1>1. result' \in [Tasks -> Statuses \cup {"none"}]
  BY DEF StoreResult, BrokerTypeOK
<1>2. hit' \subseteq FaultKinds \X Tasks
  BY FaultType DEF StoreResult, BrokerTypeOK, FaultKinds
<1> QED
  BY <1>1, <1>2 DEF StoreResult, BrokerTypeOK

LEMMA AgeType ==
    ASSUME BrokerTypeOK, NEW g \in Groups, NEW t \in Tasks, Age(g, t)
    PROVE  BrokerTypeOK'
BY DEF Age, BrokerTypeOK

LEMMA ReaperScanType ==
    ASSUME BrokerTypeOK, NEW g \in Groups, ReaperScan(g)
    PROVE  BrokerTypeOK'
<1>1. reap' \in [group : Groups \cup {NoGroup},
                 todo  : SUBSET (Tasks \X (0..MaxRetries)),
                 sent  : SUBSET Tasks]
  BY DEF ReaperScan, BrokerTypeOK
<1> QED
  BY <1>1 DEF ReaperScan, BrokerTypeOK, redisVars

LEMMA ReapDoneType ==
    ASSUME BrokerTypeOK, NEW t \in Tasks, NEW n \in 0..MaxRetries, ReapDone(t, n)
    PROVE  reap' \in [group : Groups \cup {NoGroup},
                      todo  : SUBSET (Tasks \X (0..MaxRetries)),
                      sent  : SUBSET Tasks]
BY DEF ReapDone, BrokerTypeOK, Asleep

LEMMA ReaperDeadLetterType ==
    ASSUME BrokerTypeOK, NEW t \in Tasks, NEW n \in 0..MaxRetries,
           ReaperDeadLetter(t, n)
    PROVE  BrokerTypeOK'
<1>1. reap' \in [group : Groups \cup {NoGroup},
                 todo  : SUBSET (Tasks \X (0..MaxRetries)),
                 sent  : SUBSET Tasks]
  BY DEF ReaperDeadLetter, BrokerTypeOK
<1>2. hit' \subseteq FaultKinds \X Tasks
  BY FaultType DEF ReaperDeadLetter, BrokerTypeOK, FaultKinds
<1> QED
  BY <1>1, <1>2 DEF ReaperDeadLetter, BrokerTypeOK

LEMMA ReaperAckType ==
    ASSUME BrokerTypeOK, WalkHasGroup, NEW t \in Tasks, NEW n \in 0..MaxRetries,
           ReaperAck(t, n)
    PROVE  BrokerTypeOK'
<1>1. reap.group \in Groups
  BY DEF ReaperAck, ReapNext, WalkHasGroup
<1> QED
  BY <1>1, XackType, ReapDoneType DEF ReaperAck, BrokerTypeOK

LEMMA ReaperClaimType ==
    ASSUME BrokerTypeOK, WalkHasGroup, NEW t \in Tasks, NEW n \in 0..MaxRetries,
           ReaperClaim(t, n)
    PROVE  BrokerTypeOK'
<1>1. reap.group \in Groups
  BY DEF ReaperClaim, ReapNext, WalkHasGroup
<1>2. CASE Trimmed(t)
  BY <1>1, <1>2, XackType, ReapDoneType DEF ReaperClaim, BrokerTypeOK
<1>3. CASE ~Trimmed(t)
  <2>1. tries' \in [Groups -> [Tasks -> 0..MaxRetries]]
    BY <1>1, <1>3, BumpedType DEF ReaperClaim
  <2>2. stale' \in [Groups -> SUBSET Tasks] /\ pel' = pel
    BY <1>1, <1>3 DEF ReaperClaim, BrokerTypeOK
  <2> QED
    BY <2>1, <2>2, ReapDoneType DEF ReaperClaim, BrokerTypeOK
<1> QED
  BY <1>2, <1>3

LEMMA ReaperFailsType ==
    ASSUME BrokerTypeOK, ReaperFails
    PROVE  BrokerTypeOK'
BY DEF ReaperFails, BrokerTypeOK, Asleep, redisVars

LEMMA CallResetType ==
    ASSUME BrokerTypeOK, NEW c \in Consumers, call' = [call EXCEPT ![c] = NoCall],
           UNCHANGED <<redisVars, sending, reap, hit>>
    PROVE  BrokerTypeOK'
<1>1. NoCall \in [stage : {"none", "pending", "replied", "taken"},
                  group : Groups \cup {NoGroup},
                  got   : SUBSET Tasks,
                  blank : SUBSET Tasks]
  BY DEF NoCall
<1> QED
  BY <1>1 DEF BrokerTypeOK, redisVars

LEMMA InitType == Init => TypeOK
<1> SUFFICES ASSUME Init PROVE TypeOK
  OBVIOUS
<1>1. NoCall \in [stage : {"none", "pending", "replied", "taken"},
                  group : Groups \cup {NoGroup},
                  got   : SUBSET Tasks,
                  blank : SUBSET Tasks]
  BY DEF NoCall
<1>2. call \in [Consumers -> [stage : {"none", "pending", "replied", "taken"},
                              group : Groups \cup {NoGroup},
                              got   : SUBSET Tasks,
                              blank : SUBSET Tasks]]
  <2> HIDE DEF NoCall
  <2> QED BY <1>1 DEF Init, BrokerInit
<1>3. reap \in [group : Groups \cup {NoGroup},
                todo  : SUBSET (Tasks \X (0..MaxRetries)),
                sent  : SUBSET Tasks]
  BY DEF Init, BrokerInit, Asleep
<1>4. BrokerTypeOK
  BY <1>2, <1>3 DEF Init, BrokerInit, BrokerTypeOK
<1> QED
  BY <1>4 DEF TypeOK, Init, Phases, Statuses

\* The cursor of CountOf is a number of messages.
LEMMA CountOfType == \A w \in Workers : CountOf(w) \in Nat
BY ConsumeCountAssumption DEF CountOf

LEMMA AgentStepType ==
    ASSUME TypeOK, OpenCallsHaveGroup, BusyAgents, NEW w \in Workers, AgentStep(w)
    PROVE  TypeOK'
<1>1. ASSUME NEW g \in Groups, Poll(w, g) PROVE TypeOK'
  <2>1. BrokerTypeOK'
    BY <1>1, ConsumePendingType, CountOfType DEF Poll, TypeOK
  <2> QED
    BY <1>1, <2>1 DEF Poll, TypeOK
<1>2. CASE Receive(w)
  <2>1. BrokerTypeOK'
    BY <1>2, ConsumeNewType, CountOfType DEF Receive, TypeOK
  <2> QED
    BY <1>2, <2>1 DEF Receive, TypeOK, workerVars
<1>3. ASSUME NEW t \in Tasks, Take(w, t) PROVE TypeOK'
  <2> DEFINE left == IF w \in CliWorkers THEN {} ELSE call[w].got \ {t}
             new == [stage |-> "taken", group |-> call[w].group,
                     got |-> left, blank |-> call[w].blank]
  <2>1. new \in [stage : {"none", "pending", "replied", "taken"},
                 group : Groups \cup {NoGroup},
                 got   : SUBSET Tasks,
                 blank : SUBSET Tasks]
    BY DEF TypeOK, BrokerTypeOK
  <2>2. call' = [call EXCEPT ![w] = new]
    BY <1>3 DEF Take
  <2>3. BrokerTypeOK'
    <3> HIDE DEF new
    <3> QED BY <1>3, <2>1, <2>2 DEF Take, TypeOK, BrokerTypeOK, redisVars
  <2> QED
    BY <1>3, <2>3 DEF Take, TypeOK, Phases
<1>4. ASSUME NEW s \in Statuses, Finish(w, s) PROVE TypeOK'
  BY <1>4 DEF Finish, TypeOK, Phases, brokerVars, redisVars, BrokerTypeOK
<1>5. CASE Store(w)
  <2>1. cur[w] \in Tasks /\ outcome[w] \in Statuses
    BY <1>5 DEF Store, BusyAgents, TypeOK
  <2>2. BrokerTypeOK'
    <3>1. CASE Blank(w, cur[w])
      BY <1>5, <3>1 DEF Store, TypeOK, BrokerTypeOK, brokerVars, redisVars
    <3>2. CASE ~Blank(w, cur[w])
      BY <1>5, <2>1, <3>2, StoreResultType DEF Store, TypeOK
    <3> QED BY <3>1, <3>2
  <2> QED
    BY <1>5, <2>2 DEF Store, TypeOK, Phases, Statuses
<1>6. CASE Ack(w)
  <2>1. cur[w] \in Tasks /\ call[w].group \in Groups
    BY <1>6 DEF Ack, BusyAgents, OpenCallsHaveGroup, TypeOK
  <2>2. BrokerTypeOK'
    BY <1>6, <2>1, AcknowledgeType DEF Ack, TypeOK
  <2> QED
    BY <1>6, <2>2 DEF Ack, TypeOK, Phases
<1> QED
  BY <1>1, <1>2, <1>3, <1>4, <1>5, <1>6 DEF AgentStep

LEMMA MishapType ==
    ASSUME TypeOK, NEW w \in Workers,
           Crash(w) \/ Restart(w) \/ LoseReply(w) \/ FailRequest(w)
    PROVE  TypeOK'
<1>1. CASE Crash(w)
  <2>1. BrokerTypeOK'
    BY <1>1, CallResetType DEF Crash, TypeOK
  <2> QED
    BY <1>1, <2>1 DEF Crash, Mishap, TypeOK, Phases, Statuses
<1>2. CASE Restart(w)
  BY <1>2 DEF Restart, TypeOK, brokerVars, redisVars, BrokerTypeOK
<1>3. CASE LoseReply(w)
  <2>1. BrokerTypeOK'
    BY <1>3, CallResetType DEF LoseReply, TypeOK
  <2> QED
    BY <1>3, <2>1 DEF LoseReply, Mishap, TypeOK, workerVars
<1>4. CASE FailRequest(w)
  <2>1. BrokerTypeOK'
    BY <1>4, CallResetType DEF FailRequest, ConsumeFails, TypeOK
  <2> QED
    BY <1>4, <2>1 DEF FailRequest, Mishap, TypeOK, workerVars
<1> QED
  BY <1>1, <1>2, <1>3, <1>4

LEMMA ReaperStepType ==
    ASSUME TypeOK, WalkHasGroup, Reaper \/ FailReaper
    PROVE  TypeOK'
<1>1. ASSUME Reaper PROVE TypeOK'
  <2>1. BrokerTypeOK'
    <3>1. ASSUME NEW g \in Groups, ReaperScan(g) PROVE BrokerTypeOK'
      BY <3>1, ReaperScanType DEF TypeOK
    <3>2. ASSUME NEW t \in Tasks, NEW n \in 0..MaxRetries,
                 ReaperDeadLetter(t, n) \/ ReaperAck(t, n) \/ ReaperClaim(t, n)
          PROVE  BrokerTypeOK'
      BY <3>2, ReaperDeadLetterType, ReaperAckType, ReaperClaimType DEF TypeOK
    <3> QED
      BY <1>1, <3>1, <3>2 DEF Reaper, ReaperStep
  <2> QED
    BY <1>1, <2>1 DEF Reaper, TypeOK, workerVars
<1>2. ASSUME FailReaper PROVE TypeOK'
  BY <1>2, ReaperFailsType DEF FailReaper, Mishap, TypeOK, workerVars
<1> QED
  BY <1>1, <1>2

LEMMA TypeStep == TypeOK /\ OpenCallsHaveGroup /\ WalkHasGroup /\ BusyAgents /\ [Next]_vars => TypeOK'
<1> SUFFICES ASSUME TypeOK, OpenCallsHaveGroup, WalkHasGroup, BusyAgents, [Next]_vars
             PROVE  TypeOK'
  OBVIOUS
<1>1. ASSUME DispatchTask PROVE TypeOK'
  <2>1. BrokerTypeOK'
    BY <1>1, PublishEnsureType, PublishAddType DEF DispatchTask, TypeOK
  <2> QED
    BY <1>1, <2>1 DEF DispatchTask, TypeOK, workerVars
<1>2. ASSUME Ageing PROVE TypeOK'
  <2>1. BrokerTypeOK'
    BY <1>2, AgeType DEF Ageing, TypeOK
  <2> QED
    BY <1>2, <2>1 DEF Ageing, TypeOK, workerVars
<1>3. CASE UNCHANGED vars
  BY <1>3 DEF vars, workerVars, brokerVars, redisVars, TypeOK, BrokerTypeOK
<1> QED
  BY <1>1, <1>2, <1>3, AgentStepType, MishapType, ReaperStepType DEF Next

-----------------------------------------------------------------------------
(* What only grows                                                         *)

\* A step of any process leaves published messages where they are and takes
\* back no failure, trim, dead letter or result.
Grows ==
    /\ hit \subseteq hit'
    /\ floor <= floor'
    /\ dlq \subseteq dlq'
    /\ \A t \in Tasks : Published(t) => pos'[t] = pos[t]
    /\ \A t \in Tasks : result[t] # "none" => result'[t] # "none"

LEMMA Kept ==
    ASSUME TypeOK, TypeOK', Grows
    PROVE  \A t \in Tasks :
              /\ Published(t) => Published(t)'
              /\ Trimmed(t) => Trimmed(t)'
              /\ Excused(t) => Excused(t)'
              /\ HasOutcome(t) => HasOutcome(t)'
BY DEF Grows, Published, Trimmed, Excused, HasOutcome, TypeOK, BrokerTypeOK

\* A step that leaves the log of messages, the failures, the dead letters and
\* the results alone.
LEMMA QuietGrows ==
    ASSUME TypeOK, UNCHANGED <<pos, floor, hit, dlq, result>>
    PROVE  Grows
BY DEF Grows, TypeOK, BrokerTypeOK

LEMMA AgentGrows ==
    ASSUME TypeOK, BusyAgents, OpenCallsHaveGroup, NEW w \in Workers, AgentStep(w)
    PROVE  Grows
<1>1. ASSUME NEW g \in Groups, Poll(w, g) PROVE Grows
  BY <1>1, QuietGrows DEF Poll, ConsumePending
<1>2. CASE Receive(w)
  <2>1. hit \subseteq hit'
    BY <1>2, ConsumeNewStep, CountOfType DEF Receive, TypeOK
  <2> QED
    BY <1>2, <2>1 DEF Receive, ConsumeNew, Grows, TypeOK, BrokerTypeOK
<1>3. ASSUME NEW t \in Tasks, Take(w, t) PROVE Grows
  BY <1>3, QuietGrows DEF Take, redisVars
<1>4. ASSUME NEW s \in Statuses, Finish(w, s) PROVE Grows
  BY <1>4, QuietGrows DEF Finish, brokerVars, redisVars
<1>5. CASE Store(w)
  <2>1. CASE Blank(w, cur[w])
    BY <1>5, <2>1, QuietGrows DEF Store, brokerVars, redisVars
  <2>2. CASE ~Blank(w, cur[w])
    <3>1. outcome[w] # "none"
      BY DEF TypeOK, Statuses
    <3> QED
      BY <1>5, <2>2, <3>1 DEF Store, StoreResult, Fault, Grows, TypeOK, BrokerTypeOK
  <2> QED BY <2>1, <2>2
<1>6. CASE Ack(w)
  BY <1>6 DEF Ack, Acknowledge, Fault, Grows, TypeOK, BrokerTypeOK
<1> QED
  BY <1>1, <1>2, <1>3, <1>4, <1>5, <1>6 DEF AgentStep

LEMMA OthersGrow ==
    ASSUME IInv, Next, \A w \in Workers : ~AgentStep(w)
    PROVE  Grows
<1> USE DEF IInv
<1>1. ASSUME NEW t \in Tasks, PublishEnsure(t) PROVE Grows
  BY <1>1 DEF PublishEnsure, Fault, Grows, TypeOK, BrokerTypeOK
<1>2. ASSUME NEW t \in Tasks, PublishAdd(t) PROVE Grows
  BY <1>2 DEF PublishAdd, Grows, OnlyPublished, TypeOK, BrokerTypeOK
<1>3. ASSUME NEW w \in Workers, Crash(w) \/ Restart(w) \/ LoseReply(w) \/ FailRequest(w)
      PROVE  Grows
  BY <1>3, QuietGrows
     DEF Crash, Restart, LoseReply, FailRequest, ConsumeFails, brokerVars, redisVars
<1>4. CASE FailReaper
  BY <1>4, QuietGrows DEF FailReaper, ReaperFails, redisVars
<1>5. ASSUME NEW g \in Groups, ReaperScan(g) PROVE Grows
  BY <1>5, QuietGrows DEF ReaperScan, redisVars
<1>6. ASSUME NEW t \in Tasks, NEW n \in 0..MaxRetries, ReaperDeadLetter(t, n) PROVE Grows
  BY <1>6 DEF ReaperDeadLetter, Fault, Grows, TypeOK, BrokerTypeOK
<1>7. ASSUME NEW t \in Tasks, NEW n \in 0..MaxRetries, ReaperAck(t, n) \/ ReaperClaim(t, n)
      PROVE  Grows
  BY <1>7, QuietGrows DEF ReaperAck, ReaperClaim
<1>8. ASSUME NEW g \in Groups, NEW t \in Tasks, Age(g, t) PROVE Grows
  BY <1>8, QuietGrows DEF Age
<1> QED
  BY <1>1, <1>2, <1>3, <1>4, <1>5, <1>6, <1>7, <1>8
     DEF Next, DispatchTask, Reaper, ReaperStep, Ageing

LEMMA GrowsStep == IInv /\ [Next]_vars => Grows
<1>1. ASSUME IInv, UNCHANGED vars PROVE Grows
  BY <1>1, QuietGrows DEF IInv, vars, brokerVars, redisVars
<1> QED
  BY <1>1, AgentGrows, OthersGrow DEF IInv

-----------------------------------------------------------------------------
(* The steps of the inductive invariant                                    *)

\* Creating a group moves only its own cursor, to the end of the stream; an
\* existing group is left alone.
LEMMA EnsureGroupCursor ==
    ASSUME BrokerTypeOK, WithinStream, NEW g \in Groups, EnsureGroup(g)
    PROVE  /\ groups \subseteq groups' /\ g \in groups'
           /\ \A h \in Groups : last[h] <= last'[h] /\ last'[h] <= top
           /\ \A h \in Groups : last'[h] # last[h] => h \notin groups
<1>1. CASE g \in groups
  BY <1>1 DEF EnsureGroup, WithinStream, BrokerTypeOK
<1>2. CASE g \notin groups
  BY <1>2 DEF EnsureGroup, WithinStream, BrokerTypeOK
<1> QED
  BY <1>1, <1>2

LEMMA PublishEnsureInv ==
    ASSUME IInv, TypeOK', Grows, NEW t \in Tasks, PublishEnsure(t),
           UNCHANGED <<workerVars, mishaps, runs>>
    PROVE  IInv'
<1> USE DEF IInv, PublishEnsure, workerVars
<1>1. /\ OpenCallsHaveGroup' /\ WalkHasGroup' /\ BusyAgents'
      /\ FilteredReplies' /\ CapabilityIsolation'
  BY DEF OpenCallsHaveGroup, WalkHasGroup, BusyAgents, FilteredReplies, CapabilityIsolation, Blank
<1>2. /\ groups \subseteq groups'
      /\ \A h \in Groups : last[h] <= last'[h] /\ last'[h] <= top
      /\ \A h \in Groups : last'[h] # last[h] => h \notin groups
  <2>1. CASE EnsureGroup(CapOf[t])
    BY <2>1, EnsureGroupCursor DEF TypeOK
  <2>2. CASE UNCHANGED <<groups, last>>
    BY <2>2 DEF WithinStream, TypeOK, BrokerTypeOK
  <2> QED BY <2>1, <2>2
<1>3. WithinStream'
  BY <1>2 DEF WithinStream
<1>4. OnlyPublished'
  BY DEF OnlyPublished, Published, Trimmed
<1>5. GroupOrFault'
  BY DEF GroupOrFault, EnsureGroup, Fault, Published
<1>6. StoredBeforeAck' /\ CopiedBeforeAck'
  BY Kept DEF StoredBeforeAck, CopiedBeforeAck, TypeOK, BrokerTypeOK, BusyAgents
<1>7. NoSilentLoss'
  BY <1>2, Kept DEF NoSilentLoss, Live, Published, GroupOrFault, Excused, TypeOK, BrokerTypeOK
<1> QED
  BY <1>1, <1>3, <1>4, <1>5, <1>6, <1>7

LEMMA PublishAddInv ==
    ASSUME IInv, TypeOK', Grows, NEW t \in Tasks, PublishAdd(t),
           UNCHANGED <<workerVars, mishaps, runs>>
    PROVE  IInv'
<1> USE DEF IInv, PublishAdd, workerVars
<1>1. /\ OpenCallsHaveGroup' /\ WalkHasGroup' /\ BusyAgents'
      /\ FilteredReplies' /\ CapabilityIsolation'
  BY DEF OpenCallsHaveGroup, WalkHasGroup, BusyAgents, FilteredReplies,
         CapabilityIsolation, Blank
<1>2. WithinStream'
  BY DEF WithinStream, TypeOK, BrokerTypeOK
<1>3. OnlyPublished'
  BY Kept DEF OnlyPublished, TypeOK, BrokerTypeOK, Published
<1>4. GroupOrFault'
  BY DEF GroupOrFault, Published, TypeOK, BrokerTypeOK
<1>5. StoredBeforeAck' /\ CopiedBeforeAck'
  BY Kept DEF StoredBeforeAck, CopiedBeforeAck, TypeOK, BrokerTypeOK, BusyAgents
<1>6. NoSilentLoss'
  <2> SUFFICES ASSUME NEW u \in Tasks, Published(u)'
               PROVE  (Live(u) \/ HasOutcome(u) \/ Excused(u))'
    BY DEF NoSilentLoss
  <2>1. CASE u = t
    BY <2>1 DEF Live, Published, WithinStream, TypeOK, BrokerTypeOK
  <2>2. CASE u # t
    BY <2>2, Kept DEF NoSilentLoss, Live, Published, TypeOK, BrokerTypeOK
  <2> QED BY <2>1, <2>2
<1> QED
  BY <1>1, <1>2, <1>3, <1>4, <1>5, <1>6

LEMMA PollInv ==
    ASSUME IInv, TypeOK', Grows, NEW w \in Workers, NEW g \in Groups, Poll(w, g)
    PROVE  IInv'
<1> USE DEF IInv
<1> DEFINE seen == Oldest(pel[g], CountOf(w))
           blank == {t \in seen : Trimmed(t)}
<1>1. /\ phase[w] = "idle"
      /\ call' = [call EXCEPT ![w] = [stage |-> "pending", group |-> g,
                                      got |-> seen, blank |-> blank]]
      /\ stale' = [stale EXCEPT ![g] = @ \ (seen \ blank)]
      /\ EnsureGroup(g)
      /\ UNCHANGED <<pos, top, floor, pel, dlq, result, sending, reap, hit>>
      /\ UNCHANGED <<up, phase, cur, outcome, mishaps, runs>>
  BY DEF Poll, ConsumePending, Free
<1>2. seen \subseteq pel[g] /\ blank = {t \in seen : Trimmed(t)}
  BY DEF Oldest
<1>3. /\ groups \subseteq groups'
      /\ \A h \in Groups : last[h] <= last'[h] /\ last'[h] <= top
      /\ \A h \in Groups : last'[h] # last[h] => h \notin groups
  BY <1>1, EnsureGroupCursor DEF TypeOK
<1> HIDE DEF seen, blank
<1>4. \A v \in Workers : v # w => call'[v] = call[v]
  BY <1>1 DEF TypeOK, BrokerTypeOK
<1>5. /\ call'[w].stage = "pending" /\ call'[w].group = g
      /\ call'[w].got = seen /\ call'[w].blank = blank
  BY <1>1 DEF TypeOK, BrokerTypeOK
<1>6. OpenCallsHaveGroup' /\ FilteredReplies'
  BY <1>4, <1>5 DEF OpenCallsHaveGroup, FilteredReplies
<1>7. WalkHasGroup' /\ WithinStream'
  BY <1>1, <1>3 DEF WalkHasGroup, WithinStream
<1>8. OnlyPublished'
  <2>1. \A t \in seen : Published(t)
    BY <1>2 DEF OnlyPublished
  <2>2. \A h \in Groups : stale'[h] \subseteq pel'[h]
    BY <1>1 DEF OnlyPublished, TypeOK, BrokerTypeOK
  <2> QED
    BY <1>1, <1>2, <1>4, <1>5, <2>1, <2>2 DEF OnlyPublished, Published, Trimmed
<1>9. BusyAgents' /\ CapabilityIsolation'
  BY <1>1, <1>4 DEF BusyAgents, CapabilityIsolation, Blank
<1>10. GroupOrFault'
  BY <1>1, <1>3 DEF GroupOrFault, Published
<1>11. StoredBeforeAck' /\ CopiedBeforeAck'
  BY <1>1, Kept DEF StoredBeforeAck, CopiedBeforeAck, TypeOK, BrokerTypeOK, BusyAgents
<1>12. NoSilentLoss'
  BY <1>1, <1>3, Kept DEF NoSilentLoss, Live, Published, GroupOrFault, Excused,
                           TypeOK, BrokerTypeOK
<1> QED
  BY <1>6, <1>7, <1>8, <1>9, <1>10, <1>11, <1>12

LEMMA ReceiveInv ==
    ASSUME IInv, TypeOK', Grows, NEW w \in Workers, Receive(w)
    PROVE  IInv'
<1> USE DEF IInv
<1> DEFINE g == call[w].group
           n == CountOf(w)
<1>1. /\ call[w].stage = "pending"
      /\ ConsumeNew(w, n)
      /\ UNCHANGED <<pos, top, floor, groups, dlq, result, sending, reap>>
      /\ UNCHANGED <<workerVars, mishaps, runs>>
  BY DEF Receive, ConsumeNew
<1>2. g \in Groups
  BY <1>1, CallGroup DEF TypeOK
<1>3. PICK p \in CursorAfter(g, n) : \E acked \in SUBSET ForeignRead(w, p) :
        ReadsNew(w, p, acked) /\ hit \subseteq hit'
  BY <1>1, ConsumeNewStep, CountOfType DEF TypeOK
<1>4. PICK acked \in SUBSET ForeignRead(w, p) :
        ReadsNew(w, p, acked) /\ hit \subseteq hit'
  BY <1>3
<1> DEFINE fresh == ReadTo(g, p)
           kept  == (call[w].got \cup fresh) \ ForeignRead(w, p)
<1>5. \A t \in Tasks : t \in fresh <=> pos[t] > last[g] /\ pos[t] > floor /\ pos[t] <= p
  BY DEF ReadTo, Unread
<1>6. p \in Nat /\ last[g] <= p /\ p <= top
  BY <1>2 DEF CursorAfter, Unread, WithinStream, TypeOK, BrokerTypeOK
<1>7. \A t \in acked : t \in Tasks /\ CapOf[t] # g
  BY <1>2 DEF ForeignRead, Foreign, ReadTo, Unread, TypeOK, BrokerTypeOK
<1>8. \A t \in kept \ call[w].blank : CapOf[t] = g
  BY DEF ForeignRead, Foreign
<1>9. /\ last' = [last EXCEPT ![g] = p]
      /\ pel' = [pel EXCEPT ![g] = (@ \cup fresh) \ acked]
      /\ stale' = [stale EXCEPT ![g] = @ \ acked]
      /\ call' = [call EXCEPT ![w] = [stage |-> "replied", group |-> g, got |-> kept,
                                      blank |-> call[w].blank]]
  BY <1>4 DEF ReadsNew
<1>10. /\ fresh \subseteq Tasks
       /\ kept \subseteq call[w].got \cup fresh
  BY DEF ReadTo, Unread
<1> HIDE DEF fresh, kept, g, n
<1>11. \A v \in Workers : v # w => call'[v] = call[v]
  BY <1>9 DEF TypeOK, BrokerTypeOK
<1>12. /\ call'[w].stage = "replied" /\ call'[w].group = g
       /\ call'[w].got = kept /\ call'[w].blank = call[w].blank
  BY <1>9 DEF TypeOK, BrokerTypeOK
<1>13. OpenCallsHaveGroup' /\ FilteredReplies'
  BY <1>2, <1>8, <1>11, <1>12 DEF OpenCallsHaveGroup, FilteredReplies
<1>14. WalkHasGroup' /\ WithinStream'
  BY <1>1, <1>6, <1>9 DEF WalkHasGroup, WithinStream, TypeOK, BrokerTypeOK
<1>15. OnlyPublished'
  <2>1. \A t \in fresh : Published(t)
    BY <1>2, <1>5, <1>10 DEF Published, TypeOK, BrokerTypeOK
  <2>2. \A h \in Groups : stale'[h] \subseteq pel'[h]
    BY <1>9 DEF OnlyPublished, TypeOK, BrokerTypeOK
  <2>3. \A h \in Groups : \A t \in pel'[h] : Published(t)
    BY <1>9, <2>1 DEF OnlyPublished, TypeOK, BrokerTypeOK
  <2>4. \A v \in Workers : \A t \in call'[v].got : Published(t)
    BY <1>10, <1>11, <1>12, <2>1 DEF OnlyPublished
  <2>5. \A v \in Workers : call'[v].blank = call[v].blank
    BY <1>11, <1>12
  <2> QED
    BY <1>1, <2>2, <2>3, <2>4, <2>5 DEF OnlyPublished, Published, Trimmed, workerVars
<1>16. BusyAgents' /\ CapabilityIsolation'
  BY <1>1, <1>11 DEF BusyAgents, CapabilityIsolation, Blank, workerVars
<1>17. GroupOrFault'
  BY <1>1, <1>4 DEF GroupOrFault, Published
<1>18. StoredBeforeAck' /\ CopiedBeforeAck'
  BY <1>1, Kept DEF StoredBeforeAck, CopiedBeforeAck, TypeOK, BrokerTypeOK, BusyAgents,
                    workerVars
<1>19. NoSilentLoss'
  <2> SUFFICES ASSUME NEW t \in Tasks, Published(t)'
               PROVE  (Live(t) \/ HasOutcome(t) \/ Excused(t))'
    BY DEF NoSilentLoss
  <2>0. Published(t)
    BY <1>1 DEF Published
  <2>1. CASE HasOutcome(t) \/ Excused(t)
    BY <2>1, Kept
  <2>2. CASE Live(t) /\ CapOf[t] # g
    BY <1>1, <1>9, <2>2 DEF Live, Published, TypeOK, BrokerTypeOK
  <2>3. CASE Live(t) /\ CapOf[t] = g /\ t \in pel[g]
    BY <1>1, <1>2, <1>7, <1>9, <2>3 DEF Live, Published, TypeOK, BrokerTypeOK
  <2>4. CASE Live(t) /\ CapOf[t] = g /\ t \notin pel[g]
    <3>1. pos[t] > last[g]
      BY <2>4 DEF Live
    <3>2. CASE pos[t] > p
      BY <1>1, <1>2, <1>9, <2>0, <2>4, <3>2 DEF Live, Published, TypeOK, BrokerTypeOK
    <3>3. CASE pos[t] <= p /\ pos[t] <= floor
      <4>1. Excused(t)
        BY <2>0, <3>3 DEF Trimmed, Excused
      <4> QED BY <4>1, Kept
    <3>4. CASE pos[t] <= p /\ pos[t] > floor
      <4>1. t \in fresh /\ t \notin acked
        BY <1>5, <1>7, <2>4, <3>1, <3>4
      <4> QED
        BY <1>1, <1>2, <1>9, <2>0, <2>4, <4>1 DEF Live, Published, TypeOK, BrokerTypeOK
    <3> QED
      BY <1>6, <3>2, <3>3, <3>4 DEF TypeOK, BrokerTypeOK
  <2> QED
    BY <2>0, <2>1, <2>2, <2>3, <2>4 DEF NoSilentLoss
<1> QED
  BY <1>13, <1>14, <1>15, <1>16, <1>17, <1>18, <1>19

LEMMA TakeInv ==
    ASSUME IInv, TypeOK', Grows, NEW w \in Workers, NEW t \in Tasks, Take(w, t)
    PROVE  IInv'
<1> USE DEF IInv
<1> DEFINE left == IF w \in CliWorkers THEN {} ELSE call[w].got \ {t}
<1>1. /\ phase[w] = "idle" /\ call[w].stage \in {"replied", "taken"} /\ t \in call[w].got
      /\ phase' = [phase EXCEPT ![w] = "running"]
      /\ cur' = [cur EXCEPT ![w] = t]
      /\ call' = [call EXCEPT ![w] = [stage |-> "taken", group |-> @.group,
                                      blank |-> @.blank, got |-> left]]
      /\ UNCHANGED <<pos, top, floor, groups, last, pel, tries, stale, dlq, result,
                     sending, reap, hit>>
  BY DEF Take, redisVars
<1>2. left \subseteq call[w].got
  OBVIOUS
<1> HIDE DEF left
<1>3. \A v \in Workers : v # w => call'[v] = call[v] /\ phase'[v] = phase[v] /\ cur'[v] = cur[v]
  BY <1>1 DEF TypeOK, BrokerTypeOK
<1>4. /\ call'[w].stage = "taken" /\ call'[w].group = call[w].group
      /\ call'[w].got = left /\ call'[w].blank = call[w].blank
      /\ phase'[w] = "running" /\ cur'[w] = t
  BY <1>1 DEF TypeOK, BrokerTypeOK
<1>5. t # NoTask
  OBVIOUS
<1>6. OpenCallsHaveGroup' /\ FilteredReplies'
  BY <1>1, <1>2, <1>3, <1>4 DEF OpenCallsHaveGroup, FilteredReplies
<1>7. WalkHasGroup' /\ WithinStream' /\ GroupOrFault'
  BY <1>1 DEF WalkHasGroup, WithinStream, GroupOrFault, Published
<1>8. OnlyPublished'
  <2>1. \A v \in Workers : call'[v].blank = call[v].blank /\ call'[v].got \subseteq call[v].got
    BY <1>2, <1>3, <1>4
  <2>2. \A v \in Workers : cur'[v] # NoTask => Published(cur'[v])
    BY <1>1, <1>3, <1>4 DEF OnlyPublished
  <2> QED
    BY <1>1, <2>1, <2>2 DEF OnlyPublished, Published, Trimmed
<1>9. BusyAgents'
  BY <1>3, <1>4, <1>5 DEF BusyAgents
<1>10. CapabilityIsolation'
  BY <1>1, <1>3, <1>4 DEF CapabilityIsolation, FilteredReplies, Blank
<1>11. StoredBeforeAck' /\ CopiedBeforeAck'
  BY <1>1, <1>3, <1>4 DEF StoredBeforeAck, CopiedBeforeAck, Excused, Trimmed, Published
<1>12. NoSilentLoss'
  BY <1>1 DEF NoSilentLoss, Live, HasOutcome, Excused, Trimmed, Published
<1> QED
  BY <1>6, <1>7, <1>8, <1>9, <1>10, <1>11, <1>12

LEMMA FinishInv ==
    ASSUME IInv, NEW w \in Workers, NEW s \in Statuses, Finish(w, s), TypeOK'
    PROVE  IInv'
<1> USE DEF IInv, Finish, brokerVars, redisVars
<1>1. \A v \in Workers : v # w => phase'[v] = phase[v]
  BY DEF TypeOK
<1>2. phase'[w] = "finished"
  BY DEF TypeOK
<1>3. /\ OpenCallsHaveGroup' /\ FilteredReplies' /\ WalkHasGroup' /\ WithinStream'
      /\ GroupOrFault' /\ OnlyPublished' /\ CapabilityIsolation' /\ NoSilentLoss'
      /\ CopiedBeforeAck'
  BY DEF OpenCallsHaveGroup, FilteredReplies, WalkHasGroup, WithinStream, GroupOrFault,
         OnlyPublished, CapabilityIsolation, Blank, NoSilentLoss, Live, HasOutcome, Excused,
         Trimmed, Published, CopiedBeforeAck
<1>4. BusyAgents' /\ StoredBeforeAck'
  BY <1>1, <1>2 DEF BusyAgents, StoredBeforeAck, Excused, Trimmed, Published
<1> QED
  BY <1>3, <1>4

LEMMA StoreInv ==
    ASSUME IInv, TypeOK', Grows, NEW w \in Workers, Store(w)
    PROVE  IInv'
<1> USE DEF IInv
<1>1. /\ phase[w] = "finished" /\ phase' = [phase EXCEPT ![w] = "stored"]
      /\ UNCHANGED <<pos, top, floor, groups, last, pel, tries, stale, dlq, sending, call,
                     reap, up, pass, cur>>
  BY DEF Store, StoreResult, brokerVars, redisVars
<1>2. PICK t \in Tasks : t = cur[w]
  BY <1>1 DEF BusyAgents, TypeOK
<1>3. result'[t] # "none" \/ Excused(t)'
  <2>1. CASE Blank(w, t)
    <3>1. Excused(t)
      BY <2>1 DEF Blank, OnlyPublished, Excused
    <3> QED BY <3>1, Kept
  <2>2. CASE ~Blank(w, t)
    <3>1. StoreResult(t, outcome[w]) /\ outcome[w] # "none"
      BY <1>2, <2>2 DEF Store, TypeOK, Statuses
    <3>2. CASE result' = [result EXCEPT ![t] = outcome[w]]
      BY <3>1, <3>2 DEF TypeOK, BrokerTypeOK
    <3>3. CASE Fault("store", t)
      BY <3>3 DEF Fault, Excused
    <3> QED BY <3>1, <3>2, <3>3 DEF StoreResult
  <2> QED BY <2>1, <2>2
<1>4. OpenCallsHaveGroup' /\ FilteredReplies' /\ WalkHasGroup' /\ WithinStream'
  BY <1>1 DEF OpenCallsHaveGroup, FilteredReplies, WalkHasGroup, WithinStream
<1>5. OnlyPublished' /\ CapabilityIsolation'
  BY <1>1 DEF OnlyPublished, CapabilityIsolation, Blank, Trimmed, Published
<1>6. GroupOrFault'
  BY <1>1 DEF GroupOrFault, Published, Grows
<1>7. BusyAgents'
  BY <1>1 DEF BusyAgents, TypeOK
<1>8. StoredBeforeAck'
  <2> SUFFICES ASSUME NEW v \in Workers, phase'[v] = "stored"
               PROVE  (result[cur[v]] # "none" \/ Excused(cur[v]))'
    BY DEF StoredBeforeAck
  <2>1. PICK u \in Tasks : u = cur[v] /\ (v # w => phase[v] = "stored")
    BY <1>1, <1>2 DEF TypeOK, BusyAgents
  <2>2. result'[u] # "none" \/ Excused(u)'
    <3>1. CASE v = w
      BY <1>2, <1>3, <2>1, <3>1
    <3>2. CASE v # w
      <4>1. result[u] # "none" \/ Excused(u)
        BY <2>1, <3>2 DEF StoredBeforeAck
      <4> QED BY <4>1, Kept DEF Grows
    <3> QED BY <3>1, <3>2
  <2> QED BY <1>1, <2>1, <2>2
<1>9. CopiedBeforeAck'
  BY <1>1, Kept DEF CopiedBeforeAck, TypeOK, BrokerTypeOK
<1>10. NoSilentLoss'
  BY <1>1, Kept DEF NoSilentLoss, Live, Published
<1> QED
  BY <1>4, <1>5, <1>6, <1>7, <1>8, <1>9, <1>10

LEMMA XackShrinks ==
    ASSUME BrokerTypeOK, OnlyPublished, NEW g \in Groups, NEW S, Xack(g, S)
    PROVE  /\ \A h \in Groups : pel'[h] \subseteq pel[h]
           /\ \A h \in Groups : stale'[h] \subseteq pel'[h]
BY DEF Xack, OnlyPublished, BrokerTypeOK

\* XACK of a message of another group, or of one that has an outcome or an
\* excuse, loses nothing.
LEMMA XackLosesNothing ==
    ASSUME IInv, NEW g \in Groups, NEW t \in Tasks,
           pel' = [pel EXCEPT ![g] = @ \ {t}], UNCHANGED <<pos, last>>,
           TypeOK', Grows,
           CapOf[t] = g => HasOutcome(t) \/ Excused(t)
    PROVE  NoSilentLoss'
<1> SUFFICES ASSUME NEW u \in Tasks, Published(u)
             PROVE  (Live(u) \/ HasOutcome(u) \/ Excused(u))'
  BY DEF NoSilentLoss, Published
<1>1. CASE HasOutcome(u) \/ Excused(u)
  BY <1>1, Kept DEF IInv
<1>2. CASE Live(u) /\ ~HasOutcome(u) /\ ~Excused(u)
  <2>1. u # t \/ CapOf[u] # g
    BY <1>2
  <2> QED
    BY <1>2, <2>1 DEF Live, Published, IInv, TypeOK, BrokerTypeOK
<1> QED
  BY <1>1, <1>2 DEF NoSilentLoss, IInv

LEMMA AckInv ==
    ASSUME IInv, TypeOK', Grows, NEW w \in Workers, Ack(w)
    PROVE  IInv'
<1> USE DEF IInv
<1> DEFINE g == call[w].group
           t == cur[w]
<1>1. /\ phase[w] = "stored" /\ phase' = [phase EXCEPT ![w] = "idle"]
      /\ cur' = [cur EXCEPT ![w] = NoTask]
      /\ UNCHANGED <<pos, top, floor, groups, last, dlq, result, sending, reap, call, up, pass>>
      /\ Xack(g, {t}) \/ UNCHANGED <<pel, stale, tries>>
  BY DEF Ack, Acknowledge
<1>2. t \in Tasks /\ g \in Groups
  BY <1>1 DEF BusyAgents, OpenCallsHaveGroup, TypeOK
<1>3. HasOutcome(t) \/ Excused(t)
  BY <1>1 DEF StoredBeforeAck, HasOutcome
<1> HIDE DEF g, t
<1>4. OpenCallsHaveGroup' /\ FilteredReplies' /\ WalkHasGroup' /\ WithinStream'
  BY <1>1 DEF OpenCallsHaveGroup, FilteredReplies, WalkHasGroup, WithinStream
<1>5. /\ \A h \in Groups : pel'[h] \subseteq pel[h]
      /\ \A h \in Groups : stale'[h] \subseteq pel'[h]
  <2>1. CASE Xack(g, {t})
    BY <1>2, <2>1, XackShrinks DEF TypeOK
  <2>2. CASE UNCHANGED <<pel, stale, tries>>
    BY <2>2 DEF OnlyPublished
  <2> QED BY <1>1, <2>1, <2>2
<1>6. \A v \in Workers : v # w => cur'[v] = cur[v] /\ phase'[v] = phase[v]
  BY <1>1 DEF TypeOK
<1>7. cur'[w] = NoTask /\ phase'[w] = "idle"
  BY <1>1 DEF TypeOK
<1>8. OnlyPublished'
  BY <1>1, <1>5, <1>6, <1>7 DEF OnlyPublished, Trimmed, Published
<1>9. BusyAgents' /\ CapabilityIsolation'
  BY <1>1, <1>6, <1>7 DEF BusyAgents, CapabilityIsolation, Blank
<1>10. GroupOrFault'
  BY <1>1 DEF GroupOrFault, Published, Grows
<1>11. StoredBeforeAck' /\ CopiedBeforeAck'
  BY <1>1, <1>6, <1>7, Kept DEF StoredBeforeAck, CopiedBeforeAck, TypeOK, BrokerTypeOK, BusyAgents
<1>12. NoSilentLoss'
  <2>1. CASE Xack(g, {t})
    BY <1>1, <1>2, <1>3, <2>1, XackLosesNothing DEF Xack
  <2>2. CASE UNCHANGED pel
    BY <1>1, <2>2, Kept DEF NoSilentLoss, Live, Published
  <2> QED BY <1>1, <2>1, <2>2
<1> QED
  BY <1>4, <1>8, <1>9, <1>10, <1>11, <1>12

LEMMA CrashInv ==
    ASSUME IInv, TypeOK', NEW w \in Workers,
           Crash(w) \/ LoseReply(w) \/ FailRequest(w)
    PROVE  IInv'
<1> USE DEF IInv
<1>1. /\ call' = [call EXCEPT ![w] = NoCall]
      /\ UNCHANGED <<pos, top, floor, groups, last, pel, tries, stale, dlq, result,
                     sending, reap, hit>>
  BY DEF Crash, LoseReply, FailRequest, ConsumeFails, redisVars
<1>2. /\ call'[w] = NoCall
      /\ \A v \in Workers : v # w => call'[v] = call[v]
  BY <1>1 DEF TypeOK, BrokerTypeOK
<1>3. /\ phase'[w] = "idle" /\ cur'[w] = NoTask
      /\ \A v \in Workers : v # w => phase'[v] = phase[v] /\ cur'[v] = cur[v]
  <2>1. CASE Crash(w)
    BY <2>1 DEF Crash, TypeOK
  <2>2. CASE LoseReply(w) \/ FailRequest(w)
    <3>1. call[w].stage # "taken" /\ UNCHANGED <<phase, cur>>
      BY <2>2 DEF LoseReply, FailRequest, ConsumeFails, workerVars
    <3> QED BY <3>1 DEF BusyAgents
  <2> QED BY <2>1, <2>2
<1>4. OpenCallsHaveGroup' /\ FilteredReplies'
  BY <1>2 DEF OpenCallsHaveGroup, FilteredReplies, NoCall
<1>5. OnlyPublished'
  BY <1>1, <1>2, <1>3 DEF OnlyPublished, NoCall, Published, Trimmed
<1>6. BusyAgents' /\ CapabilityIsolation'
  BY <1>2, <1>3 DEF BusyAgents, CapabilityIsolation, Blank
<1>7. StoredBeforeAck'
  BY <1>1, <1>3 DEF StoredBeforeAck, Excused, Trimmed, Published
<1>8. /\ WalkHasGroup' /\ WithinStream' /\ GroupOrFault' /\ CopiedBeforeAck'
      /\ NoSilentLoss'
  BY <1>1 DEF WalkHasGroup, WithinStream, GroupOrFault, CopiedBeforeAck, NoSilentLoss, Live,
              HasOutcome, Excused, Trimmed, Published
<1> QED
  BY <1>4, <1>5, <1>6, <1>7, <1>8

\* Steps that change nothing IInv speaks about but the pending lists' clocks
\* and counts, and the walk of the reaper.
LEMMA ReaperQuietInv ==
    ASSUME IInv, TypeOK',
           UNCHANGED <<pos, top, floor, groups, last, pel, dlq, result, sending, call, hit,
                       phase, cur>>,
           \A g \in Groups : stale'[g] \subseteq pel[g],
           reap'.todo # {} => reap'.group \in Groups,
           \A e \in reap'.todo : Published(e[1]),
           \A t \in reap'.sent : t \in reap.sent
    PROVE  IInv'
<1> USE DEF IInv
<1>1. OpenCallsHaveGroup' /\ FilteredReplies' /\ WalkHasGroup' /\ WithinStream' /\ GroupOrFault'
  BY DEF OpenCallsHaveGroup, FilteredReplies, WalkHasGroup, WithinStream, GroupOrFault, Published
<1>2. OnlyPublished'
  BY DEF OnlyPublished, Published, Trimmed
<1>3. BusyAgents' /\ CapabilityIsolation'
  BY DEF BusyAgents, CapabilityIsolation, Blank
<1>4. StoredBeforeAck' /\ CopiedBeforeAck' /\ NoSilentLoss'
  BY DEF StoredBeforeAck, CopiedBeforeAck, NoSilentLoss, Live, HasOutcome, Excused, Trimmed,
         Published
<1> QED
  BY <1>1, <1>2, <1>3, <1>4

LEMMA ReapDoneKeeps ==
    ASSUME IInv, NEW t \in Tasks, NEW n \in 0..MaxRetries, ReapDone(t, n), ReapNext(t, n)
    PROVE  /\ reap'.todo # {} => reap'.group \in Groups
           /\ reap'.todo \subseteq reap.todo
           /\ reap'.sent \subseteq reap.sent
BY DEF ReapDone, ReapNext, Asleep, IInv, WalkHasGroup, TypeOK, BrokerTypeOK

LEMMA ReaperScanInv ==
    ASSUME IInv, TypeOK', NEW g \in Groups, ReaperScan(g),
           UNCHANGED <<workerVars, mishaps, runs>>
    PROVE  IInv'
<1>1. /\ reap'.group = g /\ reap'.sent = {}
      /\ reap'.todo = {<<t, tries[g][t]>> : t \in stale[g]}
      /\ UNCHANGED <<pos, top, floor, groups, last, pel, stale, dlq, result, sending, call,
                     hit, phase, cur>>
  BY DEF ReaperScan, redisVars, workerVars
<1>2. \A e \in reap'.todo : Published(e[1])
  BY <1>1 DEF IInv, OnlyPublished
<1> QED
  BY <1>1, <1>2, ReaperQuietInv DEF IInv, OnlyPublished

LEMMA ReaperFailsInv ==
    ASSUME IInv, TypeOK', FailReaper
    PROVE  IInv'
BY ReaperQuietInv DEF FailReaper, ReaperFails, Asleep, redisVars, workerVars, IInv, OnlyPublished

LEMMA AgeInv ==
    ASSUME IInv, TypeOK', NEW g \in Groups, NEW t \in Tasks, Age(g, t),
           UNCHANGED <<workerVars, mishaps, runs>>
    PROVE  IInv'
<1>1. \A h \in Groups : stale'[h] \subseteq pel[h]
  BY DEF Age, IInv, OnlyPublished, TypeOK, BrokerTypeOK
<1> QED
  BY <1>1, ReaperQuietInv DEF Age, workerVars, IInv, OnlyPublished, WalkHasGroup

LEMMA ReaperDeadLetterInv ==
    ASSUME IInv, TypeOK', Grows, NEW t \in Tasks, NEW n \in 0..MaxRetries,
           ReaperDeadLetter(t, n), UNCHANGED <<workerVars, mishaps, runs>>
    PROVE  IInv'
<1> USE DEF IInv
<1>1. /\ UNCHANGED <<pos, top, floor, groups, last, pel, tries, stale, result, sending, call>>
      /\ UNCHANGED <<up, pass, phase, cur, outcome>>
      /\ reap' = [reap EXCEPT !.sent = @ \cup {t}]
  BY DEF ReaperDeadLetter, workerVars
<1>2. /\ reap'.group = reap.group /\ reap'.todo = reap.todo
      /\ reap'.sent = reap.sent \cup {t}
  BY <1>1 DEF TypeOK, BrokerTypeOK
<1>3. t \in dlq' \/ Excused(t)'
  <2>1. CASE Trimmed(t)
    <3>1. Excused(t)
      BY <2>1 DEF Excused
    <3> QED BY <3>1, Kept
  <2>2. CASE ~Trimmed(t)
    BY <2>2 DEF ReaperDeadLetter, Fault, Excused
  <2> QED BY <2>1, <2>2
<1>4. OpenCallsHaveGroup' /\ FilteredReplies' /\ WalkHasGroup' /\ WithinStream'
  BY <1>1, <1>2 DEF OpenCallsHaveGroup, FilteredReplies, WalkHasGroup, WithinStream
<1>5. OnlyPublished' /\ BusyAgents' /\ CapabilityIsolation'
  BY <1>1, <1>2 DEF OnlyPublished, BusyAgents, CapabilityIsolation, Blank, Published, Trimmed
<1>6. GroupOrFault'
  BY <1>1 DEF GroupOrFault, Published, Grows
<1>7. StoredBeforeAck'
  BY <1>1, Kept DEF StoredBeforeAck, TypeOK, BrokerTypeOK, BusyAgents
<1>8. CopiedBeforeAck'
  <2> SUFFICES ASSUME NEW u \in Tasks, u \in reap'.sent
               PROVE  (u \in dlq \/ Excused(u))'
    BY DEF CopiedBeforeAck, TypeOK, BrokerTypeOK
  <2> QED
    BY <1>2, <1>3, Kept DEF CopiedBeforeAck, Grows
<1>9. NoSilentLoss'
  BY <1>1, Kept DEF NoSilentLoss, Live, Published
<1> QED
  BY <1>4, <1>5, <1>6, <1>7, <1>8, <1>9

\* The reaper removes an entry from a pending list: after the copy to the DLQ,
\* or because Redis finds its message trimmed.
LEMMA ReaperXackInv ==
    ASSUME IInv, TypeOK', Grows, NEW t \in Tasks, NEW n \in 0..MaxRetries,
           ReapNext(t, n), ReapDone(t, n), Xack(reap.group, {t}),
           HasOutcome(t) \/ Excused(t),
           UNCHANGED <<pos, top, floor, groups, last, dlq, result, sending, call, hit>>,
           UNCHANGED <<workerVars, mishaps, runs>>
    PROVE  IInv'
<1> USE DEF IInv, workerVars
<1>1. reap.group \in Groups
  BY DEF ReapNext, WalkHasGroup
<1>2. /\ reap'.todo # {} => reap'.group \in Groups
      /\ reap'.todo \subseteq reap.todo
      /\ reap'.sent \subseteq reap.sent
  BY ReapDoneKeeps
<1>3. /\ \A h \in Groups : pel'[h] \subseteq pel[h]
      /\ \A h \in Groups : stale'[h] \subseteq pel'[h]
  BY <1>1, XackShrinks DEF TypeOK
<1>4. OpenCallsHaveGroup' /\ FilteredReplies' /\ WalkHasGroup' /\ WithinStream' /\ GroupOrFault'
  BY <1>2 DEF OpenCallsHaveGroup, FilteredReplies, WalkHasGroup, WithinStream, GroupOrFault,
              Published
<1>5. OnlyPublished'
  BY <1>2, <1>3 DEF OnlyPublished, Published, Trimmed
<1>6. BusyAgents' /\ CapabilityIsolation'
  BY DEF BusyAgents, CapabilityIsolation, Blank
<1>7. StoredBeforeAck' /\ CopiedBeforeAck'
  BY <1>2 DEF StoredBeforeAck, CopiedBeforeAck, Excused, Trimmed, Published
<1>8. NoSilentLoss'
  BY <1>1, XackLosesNothing DEF Xack
<1> QED
  BY <1>2, <1>4, <1>5, <1>6, <1>7, <1>8

LEMMA ReaperAckInv ==
    ASSUME IInv, TypeOK', Grows, NEW t \in Tasks, NEW n \in 0..MaxRetries,
           ReaperAck(t, n), UNCHANGED <<workerVars, mishaps, runs>>
    PROVE  IInv'
<1>1. HasOutcome(t) \/ Excused(t)
  BY DEF ReaperAck, IInv, CopiedBeforeAck, HasOutcome
<1> QED
  BY <1>1, ReaperXackInv DEF ReaperAck

LEMMA ReaperClaimInv ==
    ASSUME IInv, TypeOK', Grows, NEW t \in Tasks, NEW n \in 0..MaxRetries,
           ReaperClaim(t, n), UNCHANGED <<workerVars, mishaps, runs>>
    PROVE  IInv'
<1>1. CASE Trimmed(t)
  <2>1. Excused(t)
    BY <1>1 DEF Excused
  <2> QED
    BY <1>1, <2>1, ReaperXackInv DEF ReaperClaim
<1>2. CASE ~Trimmed(t)
  <2>1. /\ reap'.todo # {} => reap'.group \in Groups
        /\ reap'.todo \subseteq reap.todo
        /\ reap'.sent \subseteq reap.sent
    BY ReapDoneKeeps DEF ReaperClaim
  <2>2. \A g \in Groups : stale'[g] \subseteq pel[g]
    <3>1. stale' = [stale EXCEPT ![reap.group] = @ \ {t}]
      BY <1>2 DEF ReaperClaim
    <3> QED BY <3>1 DEF IInv, OnlyPublished, TypeOK, BrokerTypeOK
  <2>3. \A e \in reap'.todo : Published(e[1])
    BY <2>1 DEF IInv, OnlyPublished
  <2>4. UNCHANGED <<pos, top, floor, groups, last, pel, dlq, result, sending, call, hit,
                    phase, cur>>
    BY <1>2 DEF ReaperClaim, workerVars
  <2> QED
    BY <2>1, <2>2, <2>3, <2>4, ReaperQuietInv
<1> QED
  BY <1>1, <1>2

-----------------------------------------------------------------------------
(* Theorems                                                                *)

LEMMA InitInv == Init => IInv
<1> SUFFICES ASSUME Init PROVE IInv
  OBVIOUS
<1> USE DEF Init, BrokerInit
<1>1. TypeOK
  BY InitType
<1>2. OpenCallsHaveGroup /\ FilteredReplies /\ WalkHasGroup /\ WithinStream /\ GroupOrFault
  BY DEF OpenCallsHaveGroup, FilteredReplies, WalkHasGroup, WithinStream, GroupOrFault, NoCall,
         Asleep, Published
<1>3. OnlyPublished
  BY DEF OnlyPublished, NoCall, Asleep, Published
<1>4. BusyAgents /\ CapabilityIsolation /\ StoredBeforeAck /\ CopiedBeforeAck /\ NoSilentLoss
  BY DEF BusyAgents, CapabilityIsolation, StoredBeforeAck, CopiedBeforeAck, NoSilentLoss, Asleep,
         Published
<1> QED
  BY <1>1, <1>2, <1>3, <1>4 DEF IInv

LEMMA StepInv == IInv /\ [Next]_vars => IInv'
<1> SUFFICES ASSUME IInv, [Next]_vars PROVE IInv'
  OBVIOUS
<1>1. TypeOK'
  BY TypeStep DEF IInv
<1>2. Grows
  BY GrowsStep
<1>3. ASSUME NEW w \in Workers, AgentStep(w) PROVE IInv'
  BY <1>1, <1>2, <1>3, PollInv, ReceiveInv, TakeInv, FinishInv, StoreInv, AckInv DEF AgentStep
<1>4. ASSUME DispatchTask PROVE IInv'
  BY <1>1, <1>2, <1>4, PublishEnsureInv, PublishAddInv DEF DispatchTask
<1>5. ASSUME NEW w \in Workers, Restart(w) PROVE IInv'
  BY <1>1, <1>5
     DEF Restart, brokerVars, redisVars, IInv, OpenCallsHaveGroup, WalkHasGroup, WithinStream,
         OnlyPublished, GroupOrFault, BusyAgents, StoredBeforeAck, CopiedBeforeAck,
         FilteredReplies, CapabilityIsolation, NoSilentLoss, Live, HasOutcome, Excused, Trimmed,
         Published, Blank
<1>6. ASSUME Reaper PROVE IInv'
  <2>1. UNCHANGED <<workerVars, mishaps, runs>>
    BY <1>6 DEF Reaper
  <2>2. ASSUME NEW g \in Groups, ReaperScan(g) PROVE IInv'
    BY <1>1, <2>1, <2>2, ReaperScanInv
  <2>3. ASSUME NEW t \in Tasks, NEW n \in 0..MaxRetries,
               ReaperDeadLetter(t, n) \/ ReaperAck(t, n) \/ ReaperClaim(t, n)
        PROVE  IInv'
    BY <1>1, <1>2, <2>1, <2>3, ReaperDeadLetterInv, ReaperAckInv, ReaperClaimInv
  <2> QED
    BY <1>6, <2>2, <2>3 DEF Reaper, ReaperStep
<1>7. ASSUME Ageing PROVE IInv'
  BY <1>1, <1>7, AgeInv DEF Ageing
<1>8. CASE UNCHANGED vars
  BY <1>1, <1>8
     DEF vars, workerVars, brokerVars, redisVars, IInv, OpenCallsHaveGroup, WalkHasGroup,
         WithinStream, OnlyPublished, GroupOrFault, BusyAgents, StoredBeforeAck, CopiedBeforeAck,
         FilteredReplies, CapabilityIsolation, NoSilentLoss, Live, HasOutcome, Excused, Trimmed,
         Published, Blank
<1> QED
  BY <1>1, <1>3, <1>4, <1>5, <1>6, <1>7, <1>8, CrashInv, ReaperFailsInv DEF Next

\* The inductive invariant holds in every reachable state.
THEOREM Invariance == Spec => []IInv
BY InitInv, StepInv, PTL DEF Spec

\* Every variable keeps its type.
THEOREM TypeCorrect == Spec => []TypeOK
<1>1. IInv => TypeOK
  BY DEF IInv
<1> QED
  BY <1>1, Invariance, PTL

\* No interleaving of publishers, agents and reaper, and no crash, loses a task
\* in silence.
THEOREM NothingLost == Spec => []NoSilentLoss
<1>1. IInv => NoSilentLoss
  BY DEF IInv
<1> QED
  BY <1>1, Invariance, PTL

\* Agents run only tasks of the capability they polled.
THEOREM Isolation == Spec => []CapabilityIsolation
<1>1. IInv => CapabilityIsolation
  BY DEF IInv
<1> QED
  BY <1>1, Invariance, PTL

-----------------------------------------------------------------------------
(* Cursors only advance, and a pending list gains only what is read past    *)
(* the cursor.                                                              *)

OnlyForward ==
    /\ \A g \in Groups : last[g] <= last'[g]
    /\ \A g \in Groups : \A t \in pel'[g] : t \in pel[g] \/ pos[t] > last[g]

LEMMA QuietForward ==
    ASSUME TypeOK, UNCHANGED last, \A g \in Groups : pel'[g] \subseteq pel[g]
    PROVE  OnlyForward
BY DEF OnlyForward, TypeOK, BrokerTypeOK

LEMMA AgentForward ==
    ASSUME IInv, NEW w \in Workers, AgentStep(w)
    PROVE  OnlyForward
<1> USE DEF IInv
<1>1. ASSUME NEW g \in Groups, Poll(w, g) PROVE OnlyForward
  BY <1>1, EnsureGroupCursor DEF Poll, ConsumePending, OnlyForward, TypeOK
<1>2. CASE Receive(w)
  <2> DEFINE g == call[w].group
  <2>1. g \in Groups
    BY <1>2, CallGroup DEF Receive, ConsumeNew, TypeOK
  <2>2. PICK p \in CursorAfter(g, CountOf(w)) : \E acked \in SUBSET ForeignRead(w, p) :
          ReadsNew(w, p, acked)
    BY <1>2, ConsumeNewStep, CountOfType DEF Receive, TypeOK
  <2>3. /\ last' = [last EXCEPT ![g] = p]
        /\ \E acked : pel' = [pel EXCEPT ![g] = (@ \cup ReadTo(g, p)) \ acked]
    BY <2>2 DEF ReadsNew
  <2>4. p \in Nat /\ last[g] <= p
    BY <2>1, <2>2 DEF CursorAfter, ReadTo, Unread, TypeOK, BrokerTypeOK
  <2>5. \A t \in ReadTo(g, p) : pos[t] > last[g]
    BY DEF ReadTo, Unread
  <2> HIDE DEF g
  <2>6. \A h \in Groups : last[h] <= last'[h]
    BY <2>1, <2>3, <2>4 DEF TypeOK, BrokerTypeOK
  <2>7. \A h \in Groups : \A t \in pel'[h] : t \in pel[h] \/ pos[t] > last[h]
    BY <2>1, <2>3, <2>5 DEF TypeOK, BrokerTypeOK
  <2> QED BY <2>6, <2>7 DEF OnlyForward
<1>3. ASSUME NEW t \in Tasks, Take(w, t) PROVE OnlyForward
  BY <1>3, QuietForward DEF Take, redisVars
<1>4. ASSUME NEW s \in Statuses, Finish(w, s) PROVE OnlyForward
  BY <1>4, QuietForward DEF Finish, brokerVars, redisVars
<1>5. CASE Store(w)
  BY <1>5, QuietForward DEF Store, StoreResult, brokerVars, redisVars
<1>6. CASE Ack(w)
  <2>1. call[w].group \in Groups
    BY <1>6 DEF Ack, BusyAgents, OpenCallsHaveGroup
  <2>2. \A g \in Groups : pel'[g] \subseteq pel[g]
    BY <1>6, <2>1, XackShrinks DEF Ack, Acknowledge, TypeOK
  <2> QED
    BY <1>6, <2>2, QuietForward DEF Ack, Acknowledge
<1> QED
  BY <1>1, <1>2, <1>3, <1>4, <1>5, <1>6 DEF AgentStep

LEMMA ReaperForward ==
    ASSUME IInv, NEW t \in Tasks, NEW n \in 0..MaxRetries,
           ReaperDeadLetter(t, n) \/ ReaperAck(t, n) \/ ReaperClaim(t, n)
    PROVE  OnlyForward
<1>1. CASE ReaperDeadLetter(t, n)
  BY <1>1, QuietForward DEF ReaperDeadLetter, IInv
<1>2. CASE ReaperAck(t, n) \/ ReaperClaim(t, n)
  <2>1. reap.group \in Groups
    BY <1>2 DEF ReaperAck, ReaperClaim, ReapNext, IInv, WalkHasGroup
  <2>2. Xack(reap.group, {t}) \/ UNCHANGED pel
    BY <1>2 DEF ReaperAck, ReaperClaim
  <2>3. \A g \in Groups : pel'[g] \subseteq pel[g]
    BY <2>1, <2>2, XackShrinks DEF IInv, TypeOK
  <2> QED
    BY <1>2, <2>3, QuietForward DEF ReaperAck, ReaperClaim, IInv
<1> QED
  BY <1>1, <1>2

LEMMA ForwardStep == IInv /\ [Next]_vars => OnlyForward
<1> SUFFICES ASSUME IInv, [Next]_vars PROVE OnlyForward
  OBVIOUS
<1>1. ASSUME NEW t \in Tasks, PublishEnsure(t) PROVE OnlyForward
  <2>1. CASE EnsureGroup(CapOf[t])
    BY <1>1, <2>1, EnsureGroupCursor DEF PublishEnsure, OnlyForward, IInv, TypeOK
  <2>2. CASE UNCHANGED last
    BY <1>1, <2>2, QuietForward DEF PublishEnsure, IInv
  <2> QED BY <1>1, <2>1, <2>2 DEF PublishEnsure
<1>2. ASSUME NEW t \in Tasks, PublishAdd(t) PROVE OnlyForward
  BY <1>2, QuietForward DEF PublishAdd, IInv
<1>3. ASSUME NEW w \in Workers, Crash(w) \/ Restart(w) \/ LoseReply(w) \/ FailRequest(w)
      PROVE  OnlyForward
  BY <1>3, QuietForward
     DEF Crash, Restart, LoseReply, FailRequest, ConsumeFails, brokerVars, redisVars, IInv
<1>4. CASE FailReaper
  BY <1>4, QuietForward DEF FailReaper, ReaperFails, redisVars, IInv
<1>5. ASSUME NEW g \in Groups, ReaperScan(g) PROVE OnlyForward
  BY <1>5, QuietForward DEF ReaperScan, redisVars, IInv
<1>6. ASSUME NEW g \in Groups, NEW t \in Tasks, Age(g, t) PROVE OnlyForward
  BY <1>6, QuietForward DEF Age, IInv
<1>7. CASE UNCHANGED vars
  BY <1>7, QuietForward DEF vars, brokerVars, redisVars, IInv
<1> QED
  BY <1>1, <1>2, <1>3, <1>4, <1>5, <1>6, <1>7, AgentForward, ReaperForward
     DEF Next, DispatchTask, Reaper, ReaperStep, Ageing

LEMMA DoneStays ==
    ASSUME IInv, [Next]_vars, NEW g \in Groups, NEW t \in Tasks, Done(g, t)
    PROVE  Done(g, t)'
<1>1. Grows /\ OnlyForward /\ TypeOK'
  BY GrowsStep, ForwardStep, TypeStep DEF IInv
<1>2. pos'[t] = pos[t] /\ Published(t)'
  BY <1>1 DEF Grows, Done, Published
<1>3. t \notin pel'[g]
  BY <1>1 DEF OnlyForward, Done, IInv, TypeOK, BrokerTypeOK
<1>4. pos[t] <= last'[g]
  BY <1>1 DEF OnlyForward, Done, IInv, TypeOK, BrokerTypeOK
<1> QED
  BY <1>2, <1>3, <1>4 DEF Done

\* A consume request gets to hold only what is pending or new to its group.
ReadsOnly ==
    \A c \in Consumers, g \in Groups, t \in Tasks :
        Holds(c, g, t)' => Holds(c, g, t) \/ t \in pel[g] \/ pos[t] > last[g]

LEMMA AgentReads ==
    ASSUME IInv, NEW w \in Workers, AgentStep(w)
    PROVE  ReadsOnly
<1> USE DEF ReadsOnly, Holds
<1>1. w \in Consumers /\ TypeOK /\ BrokerTypeOK
  BY WorkersAssumption DEF IInv, TypeOK
<1>2. ASSUME NEW g \in Groups, Poll(w, g) PROVE ReadsOnly
  BY <1>1, <1>2 DEF Poll, ConsumePending, Oldest, BrokerTypeOK
<1>3. CASE Receive(w)
  <2>1. PICK p \in CursorAfter(call[w].group, CountOf(w)) :
          call' = [call EXCEPT ![w] =
                     [stage |-> "replied", group |-> call[w].group,
                      got |-> (call[w].got \cup ReadTo(call[w].group, p))
                              \ Foreign(w, call[w].got \cup ReadTo(call[w].group, p)),
                      blank |-> @.blank]]
    BY <1>3 DEF Receive, ConsumeNew
  <2> QED
    BY <1>1, <2>1 DEF ReadTo, Unread, BrokerTypeOK
<1>4. ASSUME NEW t \in Tasks, Take(w, t) PROVE ReadsOnly
  BY <1>1, <1>4 DEF Take, BrokerTypeOK
<1>5. ASSUME NEW s \in Statuses, Finish(w, s) PROVE ReadsOnly
  BY <1>5 DEF Finish, brokerVars
<1>6. CASE Store(w) \/ Ack(w)
  BY <1>6 DEF Store, StoreResult, Ack, brokerVars
<1> QED
  BY <1>2, <1>3, <1>4, <1>5, <1>6 DEF AgentStep

LEMMA ReadsStep == IInv /\ [Next]_vars => ReadsOnly
<1> SUFFICES ASSUME IInv, [Next]_vars PROVE ReadsOnly
  OBVIOUS
<1>1. ASSUME UNCHANGED call PROVE ReadsOnly
  BY <1>1 DEF ReadsOnly, Holds
<1>2. ASSUME NEW w \in Workers, call' = [call EXCEPT ![w] = NoCall] PROVE ReadsOnly
  BY <1>2, WorkersAssumption DEF ReadsOnly, Holds, NoCall, IInv, TypeOK, BrokerTypeOK
<1>3. ASSUME NEW w \in Workers, Crash(w) \/ Restart(w) \/ LoseReply(w) \/ FailRequest(w)
      PROVE  ReadsOnly
  BY <1>1, <1>2, <1>3 DEF Crash, Restart, LoseReply, FailRequest, ConsumeFails, brokerVars
<1>4. ASSUME DispatchTask \/ Ageing \/ FailReaper PROVE UNCHANGED call
  BY <1>4 DEF DispatchTask, PublishEnsure, PublishAdd, Ageing, Age, FailReaper, ReaperFails
<1>5. ASSUME Reaper PROVE UNCHANGED call
  BY <1>5 DEF Reaper, ReaperScan, ReaperStep, ReaperDeadLetter, ReaperAck, ReaperClaim
<1>6. CASE UNCHANGED vars
  BY <1>1, <1>6 DEF vars, brokerVars
<1> QED
  BY <1>1, <1>3, <1>4, <1>5, <1>6, AgentReads DEF Next

LEMMA DoneNotRead ==
    ASSUME IInv, [Next]_vars, NEW g \in Groups, NEW t \in Tasks, Done(g, t)
    PROVE  \A c \in Consumers : Holds(c, g, t)' => Holds(c, g, t)
BY ReadsStep DEF ReadsOnly, Done, IInv, TypeOK, BrokerTypeOK

-----------------------------------------------------------------------------
(* The refinement of TaskQueue                                             *)

\* A step that publishes nothing and answers nothing closes the tasks that
\* stop being live.
LEMMA ClosingStep ==
    ASSUME IInv, IInv', [Next]_vars, UNCHANGED <<pos, dlq, result>>
    PROVE  Queue!Next
<1> DEFINE S == {t \in Tasks : Status(t) = "live" /\ Status(t)' = "closed"}
<1>1. Grows
  BY GrowsStep
<1>2. \A t \in Tasks : Excused(t) => Excused(t)'
  BY <1>1, Kept DEF IInv
<1>3. \A t \in Tasks : Outcomes(t)' = Outcomes(t) /\ HasOutcome(t)' = HasOutcome(t)
                        /\ Published(t)' = Published(t)
  BY DEF Outcomes, HasOutcome, Published
<1>4. \A t \in Tasks : Status(t)' = IF t \in S THEN "closed" ELSE Status(t)
  <2> TAKE t \in Tasks
  <2>1. CASE Status(t) = "closed"
    <3>1. Done(CapOf[t], t)
      BY <2>1 DEF Status, Live, Done, IInv, TypeOK, BrokerTypeOK
    <3>2. Done(CapOf[t], t)' /\ TypeOK'
      BY <3>1, DoneStays DEF IInv
    <3> QED BY <2>1, <3>2 DEF Status, Live, Done, Published, TypeOK, BrokerTypeOK
  <2>2. CASE Status(t) # "closed"
    BY <1>3, <2>2 DEF Status
  <2> QED BY <2>1, <2>2
<1>5. \A t \in S : Outcomes(t) # {} \/ Excused(t)'
  <2> TAKE t \in S
  <2>1. HasOutcome(t)' \/ Excused(t)'
    BY DEF Status, NoSilentLoss, IInv
  <2> QED BY <1>3, <2>1 DEF HasOutcome, Outcomes
<1> HIDE DEF S
<1>6. S \subseteq Tasks /\ \A t \in S : Status(t) = "live"
  BY DEF S
<1>7. Queue!Close(S)
  BY <1>3, <1>4, <1>5, <1>6 DEF Queue!Close
<1> QED
  BY <1>2, <1>6, <1>7 DEF Queue!Next

\* A step that adds outcome o to task t, and nothing else the queue sees.
LEMMA AnswerStep ==
    ASSUME IInv, IInv', Grows, NEW t \in Tasks, Published(t), NEW o \in {"result", "dead"},
           UNCHANGED <<pos, last, pel>>,
           \A u \in Tasks : Outcomes(u)' = IF u = t THEN Outcomes(u) \cup {o} ELSE Outcomes(u)
    PROVE  Queue!Next
<1>1. \A u \in Tasks : Excused(u) => Excused(u)'
  BY Kept DEF IInv
<1>2. \A u \in Tasks : Status(u)' = Status(u)
  BY DEF Status, Live, Published
<1>3. Status(t) # "unsent"
  BY DEF Status
<1>4. Queue!Answer(t, o)
  BY <1>2, <1>3 DEF Queue!Answer
<1> QED
  BY <1>1, <1>4 DEF Queue!Next

LEMMA SubmitStep ==
    ASSUME IInv, IInv', Grows, NEW t \in Tasks, PublishAdd(t)
    PROVE  Queue!Next
<1> USE DEF IInv
<1>1. \A u \in Tasks : Excused(u) => Excused(u)'
  BY Kept
<1>2. \A u \in Tasks : Outcomes(u)' = Outcomes(u)
  BY DEF PublishAdd, Outcomes
<1>3. Status(t) = "unsent"
  BY DEF PublishAdd, OnlyPublished, Status
<1>4. Status(t)' = "live"
  BY DEF PublishAdd, Status, Live, Published, WithinStream, TypeOK, BrokerTypeOK
<1>5. \A u \in Tasks : u # t => Status(u)' = Status(u)
  BY DEF PublishAdd, Status, Live, Published, TypeOK, BrokerTypeOK
<1>6. Queue!Submit(t)
  BY <1>2, <1>3, <1>4, <1>5 DEF Queue!Submit
<1> QED
  BY <1>1, <1>6 DEF Queue!Next

LEMMA StoreAnswers ==
    ASSUME IInv, IInv', [Next]_vars, NEW w \in Workers, Store(w)
    PROVE  Queue!Next
<1> USE DEF IInv
<1>1. Grows
  BY GrowsStep
<1>2. PICK t \in Tasks : t = cur[w] /\ Published(t)
  BY DEF Store, BusyAgents, TypeOK, OnlyPublished
<1>3. CASE UNCHANGED result
  BY <1>3, ClosingStep DEF Store, StoreResult, brokerVars, redisVars
<1>4. CASE result' # result
  <2>1. StoreResult(t, outcome[w]) /\ outcome[w] # "none"
    BY <1>2, <1>4 DEF Store, brokerVars, redisVars, TypeOK, Statuses
  <2>2. result' = [result EXCEPT ![t] = outcome[w]] /\ UNCHANGED <<pos, last, pel, dlq>>
    BY <1>4, <2>1 DEF StoreResult
  <2>3. \A u \in Tasks :
           Outcomes(u)' = IF u = t THEN Outcomes(u) \cup {"result"} ELSE Outcomes(u)
    <3>1. \A u \in Tasks : result'[u] # "none" <=> result[u] # "none" \/ u = t
      BY <2>1, <2>2 DEF TypeOK, BrokerTypeOK
    <3> QED BY <2>2, <3>1 DEF Outcomes
  <2> QED
    BY <1>1, <1>2, <2>2, <2>3, AnswerStep
<1> QED
  BY <1>3, <1>4

LEMMA DeadLetterAnswers ==
    ASSUME IInv, IInv', [Next]_vars, NEW t \in Tasks, NEW n \in 0..MaxRetries,
           ReaperDeadLetter(t, n)
    PROVE  Queue!Next
<1> USE DEF IInv
<1>1. Grows
  BY GrowsStep
<1>2. Published(t)
  BY DEF ReaperDeadLetter, ReapNext, OnlyPublished
<1>3. CASE UNCHANGED dlq
  BY <1>3, ClosingStep DEF ReaperDeadLetter
<1>4. CASE dlq' # dlq
  <2>1. dlq' = dlq \cup {t} /\ UNCHANGED <<pos, last, pel, result>>
    BY <1>4 DEF ReaperDeadLetter
  <2>2. \A u \in Tasks :
           Outcomes(u)' = IF u = t THEN Outcomes(u) \cup {"dead"} ELSE Outcomes(u)
    <3>1. \A u \in Tasks : u \in dlq' <=> u \in dlq \/ u = t
      BY <2>1
    <3> QED BY <2>1, <3>1 DEF Outcomes
  <2> QED
    BY <1>1, <1>2, <2>1, <2>2, AnswerStep
<1> QED
  BY <1>3, <1>4

LEMMA QueueStep == IInv /\ IInv' /\ [Next]_vars => Queue!Next
<1> SUFFICES ASSUME IInv, IInv', [Next]_vars PROVE Queue!Next
  OBVIOUS
<1>1. CASE UNCHANGED <<pos, dlq, result>>
  BY <1>1, ClosingStep
<1>2. ASSUME NEW t \in Tasks, PublishEnsure(t) PROVE UNCHANGED <<pos, dlq, result>>
  BY <1>2 DEF PublishEnsure
<1>3. ASSUME NEW w \in Workers, AgentStep(w), ~Store(w) PROVE UNCHANGED <<pos, dlq, result>>
  BY <1>3 DEF AgentStep, Poll, ConsumePending, Receive, ConsumeNew, Take, Finish, Ack,
              Acknowledge, brokerVars, redisVars
<1>4. ASSUME NEW w \in Workers, Crash(w) \/ Restart(w) \/ LoseReply(w) \/ FailRequest(w)
      PROVE  UNCHANGED <<pos, dlq, result>>
  BY <1>4 DEF Crash, Restart, LoseReply, FailRequest, ConsumeFails, brokerVars, redisVars
<1>5. ASSUME FailReaper \/ Ageing PROVE UNCHANGED <<pos, dlq, result>>
  BY <1>5 DEF FailReaper, ReaperFails, Ageing, Age, redisVars
<1>6. ASSUME Reaper, ~(\E t \in Tasks, n \in 0..MaxRetries : ReaperDeadLetter(t, n))
      PROVE  UNCHANGED <<pos, dlq, result>>
  BY <1>6 DEF Reaper, ReaperScan, ReaperStep, ReaperAck, ReaperClaim, redisVars
<1>7. CASE UNCHANGED vars
  BY <1>1, <1>7 DEF vars, brokerVars, redisVars
<1>8. CASE DispatchTask
  <2>1. PICK t \in Tasks : PublishEnsure(t) \/ PublishAdd(t)
    BY <1>8 DEF DispatchTask
  <2> QED
    BY <1>1, <1>2, <2>1, SubmitStep, GrowsStep
<1>9. CASE Reaper
  BY <1>1, <1>6, <1>9, DeadLetterAnswers
<1>10. ASSUME NEW w \in Workers, AgentStep(w) PROVE Queue!Next
  BY <1>1, <1>3, <1>10, StoreAnswers
<1> QED
  BY <1>1, <1>4, <1>5, <1>7, <1>8, <1>9, <1>10 DEF Next

LEMMA QueueInit == Init => Queue!Init
BY DEF Init, BrokerInit, Queue!Init, Status, Outcomes, Excused, Trimmed, Published

\* A message a group is done with never comes back to its pending list, and no
\* consume request reads it any more.
THEOREM NothingReadAgain == Spec => NotReadAgain
<1>1. IInv /\ [Next]_vars =>
          [\A g \in Groups, t \in Tasks : Done(g, t) =>
              /\ Done(g, t)'
              /\ \A c \in Consumers : Holds(c, g, t)' => Holds(c, g, t)]_vars
  BY DoneStays, DoneNotRead
<1> QED
  BY <1>1, Invariance, PTL DEF Spec, NotReadAgain

\* Broker and agents implement the task queue of TaskQueue.
THEOREM Refinement == Spec => ImplementsQueue
<1>1. IInv /\ IInv' /\ [Next]_vars => [Queue!Next]_Queue!qvars
  BY QueueStep
<1> QED
  BY <1>1, QueueInit, Invariance, PTL DEF Spec, ImplementsQueue, Queue!Spec

\* A step of the task queue opens nothing that was closed, and takes no outcome
\* back.
LEMMA QueueOnward ==
    ASSUME [Queue!Next]_Queue!qvars, NEW t \in Tasks
    PROVE  /\ Status(t) = "closed" => Status(t)' = "closed"
           /\ Outcomes(t) \subseteq Outcomes(t)'
<1> DEFINE standing  == [u \in Tasks |-> Status(u)]
           outcomes == [u \in Tasks |-> Outcomes(u)]
<1>1. /\ standing[t] = Status(t) /\ standing'[t] = Status(t)'
      /\ outcomes[t] = Outcomes(t) /\ outcomes'[t] = Outcomes(t)'
  OBVIOUS
<1>2. DOMAIN standing = Tasks /\ DOMAIN outcomes = Tasks
  OBVIOUS
<1>3. CASE standing' = standing /\ outcomes' = outcomes
  BY <1>1, <1>3
<1>4. ASSUME NEW u \in Tasks, standing[u] = "unsent", standing' = [standing EXCEPT ![u] = "live"], outcomes' = outcomes
      PROVE  /\ standing[t] = "closed" => standing'[t] = "closed"
             /\ outcomes[t] \subseteq outcomes'[t]
  BY <1>2, <1>4
<1>5. ASSUME NEW u \in Tasks, NEW o, outcomes' = [outcomes EXCEPT ![u] = @ \cup {o}], standing' = standing
      PROVE  /\ standing[t] = "closed" => standing'[t] = "closed"
             /\ outcomes[t] \subseteq outcomes'[t]
  BY <1>2, <1>5
<1>6. ASSUME NEW S, standing' = [u \in Tasks |-> IF u \in S THEN "closed" ELSE standing[u]], outcomes' = outcomes
      PROVE  /\ standing[t] = "closed" => standing'[t] = "closed"
             /\ outcomes[t] \subseteq outcomes'[t]
  BY <1>6
<1>7. \/ standing' = standing /\ outcomes' = outcomes
      \/ \E u \in Tasks : standing[u] = "unsent" /\ standing' = [standing EXCEPT ![u] = "live"] /\ outcomes' = outcomes
      \/ \E u \in Tasks, o \in {"result", "dead"} : outcomes' = [outcomes EXCEPT ![u] = @ \cup {o}] /\ standing' = standing
      \/ \E S \in SUBSET Tasks :
            standing' = [u \in Tasks |-> IF u \in S THEN "closed" ELSE standing[u]] /\ outcomes' = outcomes
  BY DEF Queue!Next, Queue!Submit, Queue!Answer, Queue!Close, Queue!qvars
<1> HIDE DEF standing, outcomes
<1> QED
  BY <1>1, <1>3, <1>4, <1>5, <1>6, <1>7

\* What broker and agents inherit from the queue: whatever groups are created,
\* claimed from and trimmed later, a task that is done with never becomes
\* deliverable again, and neither a result nor a place in the dead letter queue is
\* taken back.
THEOREM ClosedForGood ==
    Spec => [][\A t \in Tasks : /\ Status(t) = "closed" => Status(t)' = "closed"
                                /\ Outcomes(t) \subseteq Outcomes(t)']_vars
<1>1. [Queue!Next]_Queue!qvars =>
          \A t \in Tasks : /\ Status(t) = "closed" => Status(t)' = "closed"
                           /\ Outcomes(t) \subseteq Outcomes(t)'
  BY QueueOnward
<1> QED
  BY <1>1, Refinement, PTL DEF ImplementsQueue, Queue!Spec
=============================================================================
