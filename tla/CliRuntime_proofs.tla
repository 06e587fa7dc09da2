-------------------------- MODULE CliRuntime_proofs --------------------------
(***************************************************************************)
(* Proofs about CliRuntime, for any tasks and any number of mishaps.       *)
(***************************************************************************)
EXTENDS CliRuntime, TLAPS

USE CliInstalledAssumption, MaxMishapsAssumption, NoTaskAssumption

-----------------------------------------------------------------------------
(* Type correctness                                                        *)

LEMMA MainFlags == Flags /\ Main => Flags'
BY DEF Flags, Main, Start, GatePasses, GateCloses, StartWatch, Noticed, WatchEnds, Gone, Loop,
       Polled, Check, Spawn, Drained, Report, Ack

LEMMA OutsideFlags ==
    ASSUME Flags,
           \/ Stop \/ Grace \/ ChildExits \/ Login \/ CredentialsVanish \/ Kill
           \/ \E t \in Tasks : Dispatch(t)
    PROVE  Flags'
BY DEF Flags, Stop, Grace, GraceTerm, GraceKill, ChildExits, Login, CredentialsVanish, Kill, Gone,
       Dispatch

\* What is shown is a state, and so is what the key keeps.
LEMMA ShowRange ==
    ASSUME NEW s \in States, published \in Shows, Show(s)
    PROVE  state' \in States /\ published' \in Shows
<1>1. [at |-> s, missed |-> FALSE] \in Shows /\ [published EXCEPT !.missed = TRUE] \in Shows
  BY DEF Shows
<1> QED
  BY <1>1 DEF Show

LEMMA ShowsRange ==
    ASSUME published \in Shows, Show("ready") \/ Show("busy") \/ Show("credential_wait")
    PROVE  state' \in States /\ published' \in Shows
BY ShowRange DEF States

LEMMA ResumeRanges ==
    ASSUME Ranges, Resume,
           UNCHANGED <<after, task, attempt, exit, child, grace, target, extVars, mishaps>>
    PROVE  Ranges'
BY ShowsRange DEF Ranges, Resume, extVars

LEMMA GateRanges ==
    ASSUME Ranges, GatePasses \/ GateCloses \/ StartWatch \/ Noticed \/ WatchEnds
    PROVE  Ranges'
<1> USE DEF Ranges, Exits, Gone, extVars
<1>1. CASE GatePasses
  BY <1>1, ResumeRanges DEF GatePasses
<1>2. CASE GateCloses
  BY <1>2, ShowsRange DEF GateCloses
<1>3. CASE StartWatch
  BY <1>3 DEF StartWatch
<1>4. CASE Noticed
  BY <1>4, ResumeRanges DEF Noticed
<1>5. CASE WatchEnds
  BY <1>5 DEF WatchEnds
<1> QED
  BY <1>1, <1>2, <1>3, <1>4, <1>5

LEMMA LoopRanges ==
    ASSUME Ranges, TaskAt,
           Start \/ Loop \/ Polled \/ Check \/ Spawn \/ Drained \/ Report \/ Ack
    PROVE  Ranges'
<1> USE DEF Ranges, Exits, Gone, extVars, Mishap
<1>1. CASE Start
  BY <1>1 DEF Start, States
<1>2. CASE Loop
  BY <1>2, ShowsRange DEF Loop
<1>3. CASE Polled
  BY <1>3, ShowsRange DEF Polled
<1>4. CASE Check \/ Spawn
  BY <1>4, ShowsRange DEF Check, Spawn
<1>5. CASE Drained
  BY <1>5 DEF Drained
<1>6. CASE Report
  BY <1>6, ShowsRange DEF Report, TaskAt
<1>7. CASE Ack
  BY <1>7, ShowsRange DEF Ack
<1> QED
  BY <1>1, <1>2, <1>3, <1>4, <1>5, <1>6, <1>7

LEMMA OutsideRanges ==
    ASSUME Ranges,
           \/ Stop \/ Grace \/ ChildExits \/ Login \/ CredentialsVanish \/ Kill
           \/ \E t \in Tasks : Dispatch(t)
    PROVE  Ranges'
<1> USE DEF Ranges, States, Exits, Mishap, coVars, extVars
<1>1. CASE Stop
  BY <1>1 DEF Stop
<1>2. CASE Grace \/ ChildExits
  BY <1>2 DEF Grace, GraceTerm, GraceKill, ChildExits
<1>3. CASE Login \/ CredentialsVanish
  BY <1>3 DEF Login, CredentialsVanish
<1>4. CASE Kill
  BY <1>4 DEF Kill, Gone
<1>5. ASSUME NEW t \in Tasks, Dispatch(t) PROVE Ranges'
  BY <1>5 DEF Dispatch
<1> QED
  BY <1>1, <1>2, <1>3, <1>4, <1>5

LEMMA TypeStep == TypeOK /\ TaskAt /\ [Next]_vars => TypeOK'
<1>1. ASSUME TypeOK, UNCHANGED vars PROVE TypeOK'
  BY <1>1 DEF vars, coVars, extVars, TypeOK, Flags, Ranges
<1> QED
  BY <1>1, MainFlags, OutsideFlags, GateRanges, LoopRanges, OutsideRanges DEF Next, Main, TypeOK

-----------------------------------------------------------------------------
(* The inductive invariant                                                 *)

LEMMA InitInv == Init => IInv
<1> SUFFICES ASSUME Init PROVE IInv
  OBVIOUS
<1>1. Flags
  BY DEF Init, Flags
<1>2. Ranges
  BY DEF Init, Ranges, States, Shows, Exits
<1>3. BusyAt /\ ProcessAt /\ TaskAt /\ PostedAt /\ DispatchedAt /\ AnsweredBeforeAck
  BY DEF Init, BusyAt, ProcessAt, TaskAt, PostedAt, DispatchedAt, AtGate, AnsweredBeforeAck
<1> QED
  BY <1>1, <1>2, <1>3 DEF IInv, TypeOK

\* What the steps below have to show besides the types.
Parts == BusyAt /\ ProcessAt /\ TaskAt /\ PostedAt /\ DispatchedAt /\ AnsweredBeforeAck

\* What is shown last is what others see, unless it could not be written.
LEMMA ShowBusy ==
    ASSUME published \in Shows, Show("busy")
    PROVE  state' = "busy" /\ Shown("busy")'
BY DEF Show, Shown, Shows

\* Leaving the credential gate, for whatever caller.
LEMMA ResumeParts ==
    ASSUME Ranges, Parts, AtGate, Resume,
           UNCHANGED <<after, task, child, extVars>>
    PROVE  Parts'
BY ShowBusy DEF Ranges, Resume, extVars, Parts, BusyAt, ProcessAt, TaskAt, PostedAt, DispatchedAt, AtGate,
       AnsweredBeforeAck

LEMMA GateParts ==
    ASSUME Ranges, Parts, GatePasses \/ GateCloses \/ StartWatch \/ Noticed \/ WatchEnds
    PROVE  Parts'
<1> USE DEF Parts, BusyAt, ProcessAt, TaskAt, PostedAt, DispatchedAt, AtGate, AnsweredBeforeAck, Show, Shown, Gone,
            extVars
<1>1. CASE GatePasses
  BY <1>1, ResumeParts DEF GatePasses
<1>2. CASE GateCloses
  BY <1>2 DEF GateCloses
<1>3. CASE StartWatch
  BY <1>3 DEF StartWatch
<1>4. CASE Noticed
  <2>1. CASE Resume
    BY <1>4, <2>1, ResumeParts DEF Noticed
  <2>2. CASE UNCHANGED <<pc, state, published>>
    BY <1>4, <2>2 DEF Noticed
  <2> QED BY <1>4, <2>1, <2>2 DEF Noticed
<1>5. CASE WatchEnds
  BY <1>5 DEF WatchEnds
<1> QED
  BY <1>1, <1>2, <1>3, <1>4, <1>5

LEMMA LoopParts ==
    ASSUME Ranges, Parts,
           Start \/ Loop \/ Polled \/ Check \/ Spawn \/ Drained \/ Report \/ Ack
    PROVE  Parts'
<1> USE DEF Parts, BusyAt, ProcessAt, TaskAt, PostedAt, DispatchedAt, AtGate, AnsweredBeforeAck, Shown, Gone,
            extVars, Ranges
<1>1. CASE Start
  BY <1>1 DEF Start
<1>2. CASE Loop
  BY <1>2 DEF Loop, Show
<1>3. CASE Polled
  BY <1>3, ShowBusy DEF Polled
<1>4. CASE Check
  BY <1>4 DEF Check, Show
<1>5. CASE Spawn
  BY <1>5 DEF Spawn
<1>6. CASE Drained
  BY <1>6 DEF Drained
<1>7. CASE Report
  BY <1>7 DEF Report, Show, ExitZero
<1>8. CASE Ack
  BY <1>8 DEF Ack, Show
<1> QED
  BY <1>1, <1>2, <1>3, <1>4, <1>5, <1>6, <1>7, <1>8

LEMMA OutsideParts ==
    ASSUME Ranges, Parts,
           \/ Stop \/ Grace \/ ChildExits \/ Login \/ CredentialsVanish \/ Kill
           \/ \E t \in Tasks : Dispatch(t)
    PROVE  Parts'
<1> USE DEF Parts, BusyAt, ProcessAt, TaskAt, PostedAt, DispatchedAt, AtGate, AnsweredBeforeAck, coVars,
            extVars, Shown
<1>1. CASE Stop
  BY <1>1 DEF Stop
<1>2. CASE Grace \/ ChildExits
  BY <1>2 DEF Grace, GraceTerm, GraceKill, ChildExits
<1>3. CASE Login \/ CredentialsVanish
  BY <1>3 DEF Login, CredentialsVanish
<1>4. CASE Kill
  <2>1. pc' = "off" /\ child' = "none" /\ task' = NoTask /\ UNCHANGED <<inbox, result, lost>>
    BY <1>4 DEF Kill, Gone
  <2>2. AnsweredBeforeAck'
    BY <2>1
  <2>3. BusyAt' /\ ProcessAt' /\ TaskAt' /\ PostedAt' /\ DispatchedAt'
    BY <2>1
  <2> QED
    BY <2>2, <2>3
<1>5. ASSUME NEW t \in Tasks, Dispatch(t) PROVE Parts'
  BY <1>5 DEF Dispatch, Ranges
<1> QED
  BY <1>1, <1>2, <1>3, <1>4, <1>5

LEMMA StepInv == IInv /\ [Next]_vars => IInv'
<1> SUFFICES ASSUME IInv, [Next]_vars PROVE IInv'
  OBVIOUS
<1>1. TypeOK'
  BY TypeStep DEF IInv
<1>2. Parts'
  <2>1. Ranges /\ Parts
    BY DEF IInv, TypeOK, Parts
  <2>2. CASE UNCHANGED vars
    BY <2>1, <2>2 DEF vars, coVars, extVars, Parts, BusyAt, ProcessAt, TaskAt, PostedAt, DispatchedAt, AtGate,
                      AnsweredBeforeAck, Shown
  <2> QED
    BY <2>1, <2>2, GateParts, LoopParts, OutsideParts DEF Next, Main
<1> QED
  BY <1>1, <1>2 DEF IInv, Parts

-----------------------------------------------------------------------------
(* Theorems                                                                *)

\* The inductive invariant holds in every reachable state.
THEOREM CliInvariance == Spec => []IInv
BY InitInv, StepInv, PTL DEF Spec

\* A CLI process exists only while the agent is BUSY, to itself and to others.
THEOREM BusyProcesses == Spec => []ProcessOnlyWhenBusy
<1>1. IInv => ProcessOnlyWhenBusy
  BY DEF IInv, ProcessAt, BusyAt, ProcessOnlyWhenBusy
<1> QED
  BY <1>1, CliInvariance, PTL

\* A message is acknowledged only when its task is answered.
THEOREM Answered == Spec => []AnsweredBeforeAck
<1>1. IInv => AnsweredBeforeAck
  BY DEF IInv
<1> QED
  BY <1>1, CliInvariance, PTL

-----------------------------------------------------------------------------
(* The task queue                                                          *)

LEMMA QueueInit == Init => Queue!Init
BY DEF Init, Queue!Init, Status, Outcomes

\* A step that leaves the messages and the results alone, and at most fails to
\* post: nothing is closed.
LEMMA Stutters ==
    ASSUME TypeOK', UNCHANGED <<inbox, result>>, lost \subseteq lost'
    PROVE  Queue!Next
<1>1. /\ [t \in Tasks |-> Status(t)]' = [t \in Tasks |-> Status(t)]
      /\ [t \in Tasks |-> Outcomes(t)]' = [t \in Tasks |-> Outcomes(t)]
  BY DEF Status, Outcomes
<1>2. Queue!Close({})
  BY <1>1 DEF Queue!Close
<1>3. lost' \in SUBSET Tasks
  BY DEF TypeOK, Ranges
<1> QED
  BY <1>2, <1>3 DEF Queue!Next

\* A dispatch submits the task.
LEMMA DispatchSubmits ==
    ASSUME TypeOK, NEW t \in Tasks, Dispatch(t)
    PROVE  Queue!Next
<1>1. /\ result[t] = "unsent" /\ result' = [result EXCEPT ![t] = "none"]
      /\ inbox' = inbox \cup {t} /\ lost' = lost
      /\ result \in [Tasks -> {"unsent", "none", "completed", "failed"}] /\ lost \in SUBSET Tasks
  BY DEF Dispatch, TypeOK, Ranges
<1>2. Status(t) = "unsent" /\ Status(t)' = "live" /\ \A u \in Tasks \ {t} : Status(u)' = Status(u)
  BY <1>1 DEF Status
<1>3. \A u \in Tasks : Outcomes(u)' = Outcomes(u)
  BY <1>1 DEF Outcomes
<1>4. Queue!Submit(t)
  BY <1>2, <1>3 DEF Queue!Submit
<1> QED
  BY <1>1, <1>4 DEF Queue!Next

\* A result that is posted answers the task, which was dispatched.
LEMMA ReportAnswers ==
    ASSUME IInv, TypeOK', Report
    PROVE  Queue!Next
<1> PICK t : t = task
  OBVIOUS
<1>1. t \in Tasks /\ result[t] # "unsent" /\ inbox' = inbox
  BY NoTaskAssumption DEF Report, IInv, TaskAt, DispatchedAt
<1>2. CASE result' = [result EXCEPT ![t] = IF ExitZero THEN "completed" ELSE "failed"] /\ lost' = lost
  <2>1. result \in [Tasks -> {"unsent", "none", "completed", "failed"}] /\ lost \in SUBSET Tasks
    BY DEF IInv, TypeOK, Ranges
  <2>2. /\ result'[t] \in {"completed", "failed"}
        /\ \A u \in Tasks \ {t} : result'[u] = result[u]
    BY <1>1, <1>2, <2>1
  <2>3. /\ Status(t) # "unsent" /\ \A u \in Tasks : Status(u)' = Status(u)
    BY <1>1, <2>2 DEF Status
  <2>4. Outcomes(t)' = Outcomes(t) \cup {"result"}
    <3>1. Outcomes(t)' = {"result"}
      BY <2>2 DEF Outcomes
    <3>2. Outcomes(t) \subseteq {"result"}
      BY DEF Outcomes
    <3> QED
      BY <3>1, <3>2
  <2>5. \A u \in Tasks \ {t} : Outcomes(u)' = Outcomes(u)
    BY <2>2 DEF Outcomes
  <2>6. [u \in Tasks |-> Outcomes(u)]' = [[u \in Tasks |-> Outcomes(u)] EXCEPT ![t] = @ \cup {"result"}]
    BY <1>1, <2>4, <2>5
  <2>7. [u \in Tasks |-> Status(u)]' = [u \in Tasks |-> Status(u)] /\ [u \in Tasks |-> Status(u)][t] # "unsent"
    BY <1>1, <2>3
  <2>8. Queue!Answer(t, "result")
    BY <2>6, <2>7 DEF Queue!Answer
  <2> QED
    BY <1>1, <1>2, <2>1, <2>8 DEF Queue!Next
<1>3. CASE lost' = lost \cup {t} /\ result' = result
  BY <1>1, <1>3, Stutters
<1> QED
  BY <1>2, <1>3 DEF Report

\* An acknowledgement closes the task, if it was not closed before.
LEMMA AckCloses ==
    ASSUME IInv, TypeOK', Ack
    PROVE  Queue!Next
<1>1. /\ result' = result /\ lost' = lost /\ lost \in SUBSET Tasks
      /\ inbox \subseteq Tasks /\ \A t \in inbox : result[t] # "unsent"
      /\ result[task] \in {"completed", "failed"} \/ task \in lost
  BY DEF Ack, IInv, TypeOK, Ranges, PostedAt, DispatchedAt
<1>2. CASE inbox' = inbox
  BY <1>1, <1>2, Stutters
<1>3. CASE inbox' = inbox \ {task}
  <2> DEFINE closed == inbox \cap {task}
  <2>1. \A t \in closed : t \in Tasks /\ Status(t) = "live" /\ (Outcomes(t) # {} \/ t \in lost')
    BY <1>1 DEF Status, Outcomes
  <2>2. \A t \in Tasks : Status(t)' = IF t \in closed THEN "closed" ELSE Status(t)
    BY <1>1, <1>3 DEF Status
  <2>3. \A t \in Tasks : Outcomes(t)' = Outcomes(t)
    BY <1>1 DEF Outcomes
  <2>4. closed \in SUBSET Tasks
    BY <1>1
  <2> HIDE DEF closed
  <2>5. Queue!Close(closed)
    BY <2>1, <2>2, <2>3, <2>4 DEF Queue!Close
  <2> QED
    BY <1>1, <2>4, <2>5 DEF Queue!Next
<1> QED
  BY <1>2, <1>3 DEF Ack

LEMMA QueueStep == IInv /\ IInv' /\ [Next]_vars => [Queue!Next]_Queue!qvars
<1> SUFFICES ASSUME IInv, IInv', [Next]_vars PROVE Queue!Next
  OBVIOUS
<1>1. TypeOK /\ TypeOK'
  BY DEF IInv
<1>2. CASE UNCHANGED extVars
  BY <1>1, <1>2, Stutters DEF extVars
<1>3. Report \/ Ack \/ (\E t \in Tasks : Dispatch(t)) \/ UNCHANGED extVars
  <2>1. ASSUME Main PROVE Report \/ Ack \/ UNCHANGED extVars
    BY <2>1 DEF Main, Start, GatePasses, GateCloses, StartWatch, Noticed, WatchEnds, Loop, Polled, Check,
                Spawn, Drained
  <2>2. ASSUME Stop \/ Grace \/ ChildExits \/ Login \/ CredentialsVanish \/ Kill PROVE UNCHANGED extVars
    BY <2>2 DEF Stop, Grace, GraceTerm, GraceKill, ChildExits, Login, CredentialsVanish, Kill
  <2> QED
    BY <2>1, <2>2 DEF Next, vars
<1> QED
  BY <1>1, <1>2, <1>3, ReportAnswers, AckCloses, DispatchSubmits

\* One runtime keeps the promise of TaskQueue through retries, credential gates,
\* stops and kills: no task is closed without a result or a failed post.
THEOREM RuntimeRefinement == Spec => ImplementsQueue
<1>1. IInv /\ IInv' /\ [Next]_vars => [Queue!Next]_Queue!qvars
  BY QueueStep
<1> QED
  BY <1>1, QueueInit, CliInvariance, PTL DEF Spec, ImplementsQueue, Queue!Spec

\* A step of the task queue opens nothing that was closed, and takes no outcome
\* back.
LEMMA QueueOnward ==
    ASSUME [Queue!Next]_Queue!qvars, NEW t \in Tasks
    PROVE  /\ Status(t) = "closed" => Status(t)' = "closed"
           /\ Outcomes(t) \subseteq Outcomes(t)'
<1> DEFINE standing  == [u \in Tasks |-> Status(u)]
           outcomes == [u \in Tasks |-> Outcomes(u)]
<1>1. /\ standing[t] = Status(t) /\ standing'[t] = Status(t)'
      /\ outcomes[t] = Outcomes(t) /\ outcomes'[t] = Outcomes(t)'
  OBVIOUS
<1>2. DOMAIN standing = Tasks /\ DOMAIN outcomes = Tasks
  OBVIOUS
<1>3. CASE standing' = standing /\ outcomes' = outcomes
  BY <1>1, <1>3
<1>4. ASSUME NEW u \in Tasks, standing[u] = "unsent", standing' = [standing EXCEPT ![u] = "live"], outcomes' = outcomes
      PROVE  /\ standing[t] = "closed" => standing'[t] = "closed"
             /\ outcomes[t] \subseteq outcomes'[t]
  BY <1>2, <1>4
<1>5. ASSUME NEW u \in Tasks, NEW o, outcomes' = [outcomes EXCEPT ![u] = @ \cup {o}], standing' = standing
      PROVE  /\ standing[t] = "closed" => standing'[t] = "closed"
             /\ outcomes[t] \subseteq outcomes'[t]
  BY <1>2, <1>5
<1>6. ASSUME NEW S, standing' = [u \in Tasks |-> IF u \in S THEN "closed" ELSE standing[u]], outcomes' = outcomes
      PROVE  /\ standing[t] = "closed" => standing'[t] = "closed"
             /\ outcomes[t] \subseteq outcomes'[t]
  BY <1>6
<1>7. \/ standing' = standing /\ outcomes' = outcomes
      \/ \E u \in Tasks : standing[u] = "unsent" /\ standing' = [standing EXCEPT ![u] = "live"] /\ outcomes' = outcomes
      \/ \E u \in Tasks, o \in {"result", "dead"} : outcomes' = [outcomes EXCEPT ![u] = @ \cup {o}] /\ standing' = standing
      \/ \E S \in SUBSET Tasks :
            standing' = [u \in Tasks |-> IF u \in S THEN "closed" ELSE standing[u]] /\ outcomes' = outcomes
  BY DEF Queue!Next, Queue!Submit, Queue!Answer, Queue!Close, Queue!qvars
<1> HIDE DEF standing, outcomes
<1> QED
  BY <1>1, <1>3, <1>4, <1>5, <1>6, <1>7

\* What the runtime inherits from the queue: a message that was acknowledged does
\* not come back, and a result, once posted, stays a result.
THEOREM ClosedForGood ==
    Spec => [][\A t \in Tasks : /\ Status(t) = "closed" => Status(t)' = "closed"
                                /\ Outcomes(t) \subseteq Outcomes(t)']_vars
<1>1. [Queue!Next]_Queue!qvars =>
          \A t \in Tasks : /\ Status(t) = "closed" => Status(t)' = "closed"
                           /\ Outcomes(t) \subseteq Outcomes(t)'
  BY QueueOnward
<1> QED
  BY <1>1, RuntimeRefinement, PTL DEF ImplementsQueue, Queue!Spec
=============================================================================
