----------------------------- MODULE Chat_proofs -----------------------------
(***************************************************************************)
(* What the chat keeps for any number of tasks, retries, attempts and      *)
(* failures.                                                               *)
(*                                                                         *)
(* Whoever shows an outcome clears localStorage; the danger is the answer  *)
(* to a dispatch, which writes it and looks at nothing.  FreshIsUntouched  *)
(* says that nothing at all of a task is under way or shown before that    *)
(* answer, although streams, timers and polls of other tasks are.          *)
(*                                                                         *)
(* What serves a chat that is sending, ServedInv, is the url it follows:   *)
(* a render opens it, an end leaves a retry, and a retry opens it again.   *)
(* Of a connection that is closed by the server, the end is on the wire.   *)
(***************************************************************************)
EXTENDS Chat, FiniteSetTheorems, TLAPS

\* The dispatch of t has not been answered.
Fresh(t) == t \in later.dispatching \/ work[t] = "unsent"

Silent(t) == conn[t] = NoConn /\ wire[t] = <<>>

Untouched(t) ==
    /\ q.url # t /\ ui.url # t /\ ref.active # t /\ saved # t
    /\ t \notin later.guard /\ later.retry[t] = 0 /\ later.fallback[t] = 0
    /\ \A p \in later.polls : p[2] # t
    /\ \A b \in bubbles : b.of # t

FreshIsUntouched == \A t \in Tasks : Fresh(t) => Silent(t) /\ Untouched(t)

\* A generator that has not returned has sent at most that it is open.
ShortWires == \A c \in Conns : conn[c].at \in {"check", "subscribe", "listen"} => Len(wire[c]) <= 1

StreamInv == StreamTypeOK /\ ShortWires

Refs == [active : MaybeTask, sending : BOOLEAN, es : MaybeTask, retries : 0..MaxRetries]
Laters == [dispatching : SUBSET Tasks, guard : SUBSET Tasks,
           retry : [Tasks -> 0..MaxRetries], waited : [Tasks -> 0..GuardOver],
           polls : SUBSET ({"open", "guard"} \X Tasks),
           fallback : [Tasks -> 0..MaxAttempts]]
Bubbles == [label : MaybeTask, of : Tasks, as : {"result", "error"},
            status : {"none"} \cup Stored, nth : Nat]

\* The types of what is in the browser.
PageInv ==
    /\ q \in ReactState /\ ui \in ReactState /\ ref \in Refs /\ saved \in MaybeTask
    /\ later \in Laters
    /\ bubbles \subseteq Bubbles /\ IsFiniteSet(bubbles) /\ cancelled \subseteq Tasks

ChatInv == StreamInv /\ PageInv /\ FreshIsUntouched /\ ShownIsNotSaved

LEMMA InvTypes == StreamInv /\ PageInv => ChatTypeOK
BY DEF StreamInv, PageInv, ChatTypeOK, Refs, Laters, Bubbles

-----------------------------------------------------------------------------
(* The stream                                                              *)

Connections == [task : Tasks \cup {NoTask}, at : {"off", "check", "subscribe", "listen", "over"}]

\* A failure is counted.
LEMMA FaultType == ASSUME faults \in 0..MaxFaults, Fault \/ UNCHANGED faults PROVE faults' \in 0..MaxFaults
BY MaxFaultsAssumption DEF Fault

\* A connection that is closed is off, and what was on its way is lost.
LEMMA Closed ==
    ASSUME StreamInv, NEW cs, Close(cs), UNCHANGED <<work, result>>, Fault \/ UNCHANGED faults
    PROVE  StreamInv' /\ \A t \in Tasks : Silent(t) => Silent(t)'
<1>1. NoConn \in Connections
  BY DEF NoConn, Connections
<1>2. conn \in [Conns -> Connections] /\ wire \in [Conns -> Seq(Events)] /\ <<>> \in Seq(Events)
  BY DEF StreamInv, StreamTypeOK, Connections
<1>3. conn' \in [Conns -> Connections] /\ wire' \in [Conns -> Seq(Events)]
  BY <1>1, <1>2 DEF Close
<1>4. \A c \in Conns : \/ conn'[c] = NoConn /\ wire'[c] = <<>>
                       \/ conn'[c] = conn[c] /\ wire'[c] = wire[c]
  BY DEF Close
<1>5. ShortWires' /\ \A c \in Conns : Len(wire'[c]) <= 3
  BY <1>4 DEF StreamInv, StreamTypeOK, ShortWires
<1>6. faults' \in 0..MaxFaults
  BY FaultType DEF StreamInv, StreamTypeOK
<1>7. StreamInv'
  BY <1>3, <1>5, <1>6 DEF StreamInv, StreamTypeOK, Connections
<1> QED
  BY <1>4, <1>7, ConnsAssumption DEF Silent

\* A connection that is opened is the only one that is no longer silent.
LEMMA OpenedOne ==
    ASSUME StreamInv, NEW t \in Tasks, NEW cs, Opened(t, t, cs), UNCHANGED <<work, result>>
    PROVE  StreamInv' /\ \A u \in Tasks \ {t} : Silent(u) => Silent(u)'
<1> PICK up \in BOOLEAN :
        /\ IF Reachable /\ ~up THEN Fault ELSE UNCHANGED faults
        /\ conn' = [d \in Conns |-> IF d = t THEN [task |-> t, at |-> IF up THEN "check" ELSE "over"]
                                    ELSE IF d \in cs THEN NoConn ELSE conn[d]]
        /\ wire' = [d \in Conns |-> IF d = t THEN IF up THEN <<"open">> ELSE <<"end">>
                                    ELSE IF d \in cs THEN <<>> ELSE wire[d]]
  BY DEF Opened
<1>1. NoConn \in Connections /\ [task |-> t, at |-> IF up THEN "check" ELSE "over"] \in Connections
  BY DEF NoConn, Connections
<1>2. conn \in [Conns -> Connections] /\ wire \in [Conns -> Seq(Events)] /\ <<>> \in Seq(Events)
  BY DEF StreamInv, StreamTypeOK, Connections
<1>3. <<"open">> \in Seq(Events) /\ <<"end">> \in Seq(Events) /\ Len(<<"open">>) = 1 /\ Len(<<"end">>) = 1
  BY DEF Events
<1>4. conn' \in [Conns -> Connections] /\ wire' \in [Conns -> Seq(Events)]
  BY <1>1, <1>2, <1>3
<1>5. \A c \in Conns : \/ c = t
                       \/ conn'[c] = NoConn /\ wire'[c] = <<>>
                       \/ conn'[c] = conn[c] /\ wire'[c] = wire[c]
  OBVIOUS
<1>6. t \in Conns => Len(wire'[t]) = 1
  BY <1>3
<1>7. ShortWires' /\ \A c \in Conns : Len(wire'[c]) <= 3
  BY <1>5, <1>6 DEF StreamInv, StreamTypeOK, ShortWires
<1>8. faults' \in 0..MaxFaults
  BY FaultType DEF StreamInv, StreamTypeOK
<1>9. StreamInv'
  BY <1>4, <1>7, <1>8 DEF StreamInv, StreamTypeOK, Connections
<1> QED
  BY <1>5, <1>9, ConnsAssumption DEF Silent

\* An event is handled.
LEMMA Handled ==
    ASSUME StreamInv, NEW t \in Tasks, wire[t] # <<>>, wire' = [wire EXCEPT ![t] = Tail(@)],
           UNCHANGED <<work, result, conn, faults>>
    PROVE  StreamInv' /\ \A u \in Tasks : Silent(u) => Silent(u)'
<1>1. wire[t] \in Seq(Events) /\ wire \in [Tasks -> Seq(Events)]
  BY ConnsAssumption DEF StreamInv, StreamTypeOK
<1>2. Tail(wire[t]) \in Seq(Events) /\ Len(Tail(wire[t])) = Len(wire[t]) - 1 /\ Len(wire[t]) \in Nat
  BY <1>1
<1>3. wire' \in [Tasks -> Seq(Events)] /\ wire'[t] = Tail(wire[t]) /\ \A u \in Tasks \ {t} : wire'[u] = wire[u]
  BY <1>1, <1>2
<1>4. \A u \in Tasks : Len(wire'[u]) <= Len(wire[u]) /\ Len(wire[u]) \in Nat /\ Len(wire'[u]) \in Nat
  BY <1>1, <1>2, <1>3
<1>5. ShortWires' /\ \A u \in Tasks : Len(wire'[u]) <= 3
  BY <1>4, ConnsAssumption DEF StreamInv, StreamTypeOK, ShortWires
<1>6. StreamInv'
  BY <1>3, <1>5, ConnsAssumption DEF StreamInv, StreamTypeOK
<1> QED
  BY <1>3, <1>6 DEF Silent

\* A generator returns: it was not off, and had sent one event at most.
LEMMA Returned ==
    ASSUME StreamInv, NEW c \in Tasks, conn[c].at \in {"check", "subscribe", "listen"},
           NEW es \in Seq(Events), Len(es) <= 1, Return(c, es),
           UNCHANGED <<work, result>>, Fault \/ UNCHANGED faults
    PROVE  StreamInv' /\ \A u \in Tasks : Silent(u) => Silent(u)'
<1>1. wire \in [Tasks -> Seq(Events)] /\ conn \in [Tasks -> Connections] /\ Len(wire[c]) <= 1
  BY ConnsAssumption DEF StreamInv, StreamTypeOK, ShortWires, Connections
<1>2. <<"end">> \in Seq(Events) /\ Len(<<"end">>) = 1
  BY DEF Events
<1> DEFINE sent == wire[c] \o es \o <<"end">>
<1>3. sent \in Seq(Events) /\ Len(sent) <= 3
  <2>1. wire[c] \in Seq(Events) /\ Len(wire[c]) \in Nat /\ Len(es) \in Nat
    BY <1>1
  <2>2. wire[c] \o es \in Seq(Events) /\ Len(wire[c] \o es) = Len(wire[c]) + Len(es)
    BY <2>1
  <2>3. sent \in Seq(Events) /\ Len(sent) = Len(wire[c]) + Len(es) + 1
    BY <1>2, <2>1, <2>2
  <2> QED
    BY <1>1, <2>1, <2>3
<1>4. wire' = [wire EXCEPT ![c] = sent] /\ conn' = [conn EXCEPT ![c].at = "over"]
  BY DEF Return
<1> HIDE DEF sent
<1>5. /\ wire' \in [Tasks -> Seq(Events)] /\ wire'[c] = sent
      /\ \A u \in Tasks \ {c} : wire'[u] = wire[u] /\ conn'[u] = conn[u]
  BY <1>1, <1>3, <1>4
<1>6. conn' \in [Tasks -> Connections] /\ conn'[c].at = "over"
  BY <1>1, <1>4 DEF Connections
<1>7. ShortWires' /\ \A u \in Tasks : Len(wire'[u]) <= 3
  BY <1>3, <1>5, <1>6, ConnsAssumption DEF StreamInv, StreamTypeOK, ShortWires
<1>8. faults' \in 0..MaxFaults
  BY FaultType DEF StreamInv, StreamTypeOK
<1>9. StreamInv'
  BY <1>5, <1>6, <1>7, <1>8, ConnsAssumption DEF StreamInv, StreamTypeOK, Connections
<1>10. ~Silent(c)
  BY DEF Silent, NoConn
<1> QED
  BY <1>5, <1>9, <1>10 DEF Silent

\* The server: what it does concerns connections that are not off.
LEMMA ServerStream ==
    ASSUME StreamInv, NEW t \in Tasks, Server(t)
    PROVE  /\ StreamInv' /\ \A u \in Tasks : Silent(u) => Silent(u)'
           /\ \A u \in Tasks : work'[u] = "unsent" => work[u] = "unsent"
<1>1. /\ conn \in [Tasks -> Connections] /\ wire \in [Tasks -> Seq(Events)]
      /\ work \in [Tasks -> {"unsent", "running", "half", "done"}]
      /\ result \in [Tasks -> {"none"} \cup Stored] /\ faults \in 0..MaxFaults
  BY ConnsAssumption DEF StreamInv, StreamTypeOK, Connections
<1>2. CASE CheckResult(t)
  <2>1. CASE result[conn[t].task] \in Stored /\ Return(t, <<result[conn[t].task]>>) /\ UNCHANGED faults
    <3> DEFINE es == <<result[conn[t].task]>>
    <3>1. es \in Seq(Events) /\ Len(es) <= 1
      BY <2>1 DEF Events
    <3> HIDE DEF es
    <3> QED
      BY <3>1, <1>2, <2>1, Returned DEF CheckResult, es
  <2>2. CASE (Fault \/ UNCHANGED faults) /\ conn' = [conn EXCEPT ![t].at = "subscribe"] /\ UNCHANGED wire
    <3>1. conn[t].at = "check" /\ UNCHANGED <<work, result>>
      BY <1>2 DEF CheckResult
    <3>2. conn' \in [Tasks -> Connections] /\ \A u \in Tasks \ {t} : conn'[u] = conn[u]
      BY <1>1, <2>2 DEF Connections
    <3>3. ShortWires'
      BY <3>1, <3>2, <2>2, ConnsAssumption DEF StreamInv, ShortWires
    <3>4. faults' \in 0..MaxFaults
      BY <1>1, <2>2, FaultType
    <3>5. StreamInv'
      BY <3>1, <3>2, <3>3, <3>4, <2>2, ConnsAssumption DEF StreamInv, StreamTypeOK, Connections
    <3> QED
      BY <3>1, <3>2, <3>5, <2>2 DEF Silent, NoConn
  <2> QED
    BY <1>2, <2>1, <2>2 DEF CheckResult
<1>3. CASE Subscribe(t)
  <2>1. /\ conn[t].at = "subscribe" /\ conn' = [conn EXCEPT ![t].at = "listen"]
        /\ UNCHANGED <<work, result, wire, faults>>
    BY <1>3 DEF Subscribe
  <2>2. conn' \in [Tasks -> Connections] /\ \A u \in Tasks \ {t} : conn'[u] = conn[u]
    BY <1>1, <2>1 DEF Connections
  <2>3. ShortWires'
    BY <2>1, <2>2, ConnsAssumption DEF StreamInv, ShortWires
  <2>4. StreamInv'
    BY <2>1, <2>2, <2>3, ConnsAssumption DEF StreamInv, StreamTypeOK, Connections
  <2> QED
    BY <2>1, <2>2, <2>4 DEF Silent, NoConn
<1>4. CASE Break(t)
  <2>1. <<>> \in Seq(Events) /\ Len(<<>>) <= 1
    OBVIOUS
  <2> QED
    BY <1>4, <2>1, Returned DEF Break
<1>5. CASE Final(t)
  <2>1. /\ work' \in [Tasks -> {"unsent", "running", "half", "done"}] /\ result' = result
        /\ \A u \in Tasks : work'[u] = "unsent" => work[u] = "unsent"
    BY <1>1, <1>5 DEF Final
  <2>2. CASE Publish(t) /\ UNCHANGED faults
    <3>1. \A c \in Listeners(t) : c \in Tasks /\ conn[c].at = "listen" /\ ~Silent(c)
      BY ConnsAssumption DEF Listeners, Silent, NoConn
    <3>2. \A c \in Listeners(t) : wire[c] \o <<"final", "end">> \in Seq(Events) /\ Len(wire[c] \o <<"final", "end">>) <= 3
      <4> TAKE c \in Listeners(t)
      <4>0. c \in Tasks /\ conn[c].at = "listen"
        BY <3>1
      <4>1. wire[c] \in Seq(Events) /\ Len(wire[c]) <= 1 /\ Len(wire[c]) \in Nat
        BY <1>1, <4>0, ConnsAssumption DEF StreamInv, ShortWires
      <4>2. <<"final", "end">> \in Seq(Events) /\ Len(<<"final", "end">>) = 2
        BY DEF Events
      <4>3. Len(wire[c] \o <<"final", "end">>) = Len(wire[c]) + 2
        BY <4>1, <4>2
      <4> QED
        BY <4>1, <4>2, <4>3
    <3>3. \A c \in Tasks : wire'[c] = IF c \in Listeners(t) THEN wire[c] \o <<"final", "end">> ELSE wire[c]
      BY <2>2, ConnsAssumption DEF Publish
    <3>4. wire' \in [Tasks -> Seq(Events)] /\ \A c \in Tasks : Len(wire'[c]) <= 3
      <4>1. wire' = [c \in Tasks |-> wire'[c]]
        BY <2>2, ConnsAssumption DEF Publish
      <4>2. \A c \in Tasks : wire'[c] \in Seq(Events) /\ Len(wire'[c]) <= 3
        BY <1>1, <3>2, <3>3, ConnsAssumption DEF StreamInv, StreamTypeOK
      <4> QED
        BY <4>1, <4>2
    <3>5. \A c \in Listeners(t) : [conn[c] EXCEPT !.at = "over"] \in Connections /\ [conn[c] EXCEPT !.at = "over"].at = "over"
      BY <1>1, <3>1 DEF Connections
    <3>6. /\ conn' \in [Tasks -> Connections]
          /\ \A c \in Tasks : conn'[c] = IF c \in Listeners(t) THEN [conn[c] EXCEPT !.at = "over"] ELSE conn[c]
      BY <1>1, <2>2, <3>5, ConnsAssumption DEF Publish
    <3>7. ShortWires'
      BY <3>3, <3>5, <3>6, ConnsAssumption DEF StreamInv, ShortWires
    <3>8. StreamInv'
      BY <1>1, <2>1, <2>2, <3>4, <3>6, <3>7, ConnsAssumption DEF StreamInv, StreamTypeOK, Connections
    <3>9. \A u \in Tasks : Silent(u) => Silent(u)'
      <4> SUFFICES ASSUME NEW u \in Tasks, Silent(u) PROVE Silent(u)'
        OBVIOUS
      <4>1. u \notin Listeners(t)
        BY <3>1
      <4> QED
        BY <4>1, <3>3, <3>6 DEF Silent
    <3> QED
      BY <2>1, <3>8, <3>9
  <2>3. CASE Fault /\ UNCHANGED <<conn, wire>>
    <3>1. faults' \in 0..MaxFaults
      BY <1>1, <2>3, FaultType
    <3> QED
      BY <2>1, <2>3, <3>1 DEF StreamInv, StreamTypeOK, ShortWires, Silent
  <2> QED
    BY <1>5, <2>2, <2>3 DEF Final
<1>6. CASE Store(t)
  <2>1. /\ work' \in [Tasks -> {"unsent", "running", "half", "done"}]
        /\ \A u \in Tasks : work'[u] = "unsent" => work[u] = "unsent"
        /\ conn' = conn /\ wire' = wire
    BY <1>1, <1>6 DEF Store
  <2>2. result' \in [Tasks -> {"none"} \cup Stored] /\ (Fault \/ UNCHANGED faults)
    BY <1>1, <1>6 DEF Store
  <2>3. faults' \in 0..MaxFaults
    BY <1>1, <2>2, FaultType
  <2> QED
    BY <2>1, <2>2, <2>3 DEF StreamInv, StreamTypeOK, ShortWires, Silent
<1>7. CASE Dispatch(t)
  BY <1>1, <1>7 DEF Dispatch, StreamInv, StreamTypeOK, ShortWires, Silent
<1> QED
  BY <1>2, <1>3, <1>4, <1>5, <1>6, <1>7 DEF Server, Worker, Generator, CheckResult, Subscribe, Break

-----------------------------------------------------------------------------
(* The page                                                                *)

\* An outcome that is shown is one more of its task.
LEMMA Shown ==
    ASSUME bubbles \subseteq Bubbles, IsFiniteSet(bubbles), NEW t \in Tasks, NEW label \in MaybeTask,
           NEW as \in {"result", "error"}, NEW status \in {"none"} \cup Stored, Show(t, label, as, status)
    PROVE  /\ bubbles' \subseteq Bubbles /\ IsFiniteSet(bubbles)'
           /\ \A b \in bubbles' : b \in bubbles \/ b.of = t
<1> DEFINE n == Cardinality({b \in bubbles : b.of = t}) + 1
           new == [label |-> label, of |-> t, as |-> as, status |-> status, nth |-> n]
<1>1. n \in Nat
  <2>1. IsFiniteSet({b \in bubbles : b.of = t})
    BY FS_Subset
  <2> QED
    BY <2>1, FS_CardinalityType
<1>2. bubbles' = bubbles \cup {new}
  BY DEF Show
<1> HIDE DEF n
<1>3. new \in Bubbles /\ new.of = t
  BY <1>1 DEF Bubbles
<1> HIDE DEF new
<1>4. IsFiniteSet(bubbles \cup {new})
  BY FS_AddElement
<1> QED
  BY <1>2, <1>3, <1>4

\* The fields of the page's records, and what is assumed of the bounds.
LEMMA LaterFields ==
    ASSUME PageInv
    PROVE  /\ later.dispatching \subseteq Tasks /\ later.guard \subseteq Tasks
           /\ later.retry \in [Tasks -> 0..MaxRetries] /\ later.waited \in [Tasks -> 0..GuardOver]
           /\ later.polls \subseteq {"open", "guard"} \X Tasks
           /\ later.fallback \in [Tasks -> 0..MaxAttempts]
           /\ ref.active \in MaybeTask /\ ref.es \in MaybeTask /\ ref.retries \in 0..MaxRetries
           /\ q.url \in MaybeTask /\ ui.url \in MaybeTask /\ NoTask \notin Tasks
           /\ MaxRetries \in Nat /\ MaxAttempts \in Nat /\ MaxAttempts > 0
BY NoTaskAssumption, MaxRetriesAssumption, MaxAttemptsAssumption DEF PageInv, Laters, Refs, ReactState

\* When localStorage is cleared it names no task that was shown.
LEMMA ClearedIsNotShown ==
    ASSUME saved' = NoTask, bubbles' \subseteq Bubbles
    PROVE  ShownIsNotSaved'
BY NoTaskAssumption DEF ShownIsNotSaved, Bubbles

\* The user sends a task that was not dispatched before, or types what is none.
LEMMA SendKeeps ==
    ASSUME ChatInv, (\E t \in Tasks : Send(t)) \/ SendInvalid
    PROVE  ChatInv'
<1>1. UNCHANGED <<streamVars, ui, saved, bubbles, cancelled>>
  BY DEF Send, SendInvalid
<1>2. UNCHANGED <<work, result, conn, wire, faults, ui, saved, bubbles, cancelled>>
  BY <1>1 DEF streamVars
<1>3. /\ ref' \in Refs /\ ref'.active = ref.active
      /\ q' \in ReactState /\ q'.url = q.url
  BY DEF ChatInv, PageInv, Refs, ReactState, Send, SendInvalid
<1>4. /\ later' \in Laters
      /\ later'.guard = later.guard /\ later'.retry = later.retry /\ later'.fallback = later.fallback
      /\ later'.polls = later.polls
      /\ \A u \in Tasks : u \in later'.dispatching => Fresh(u)
  BY DEF ChatInv, PageInv, Laters, Send, SendInvalid, Fresh
<1>5. PageInv'
  BY <1>2, <1>3, <1>4 DEF ChatInv, PageInv
<1>6. FreshIsUntouched'
  <2> SUFFICES ASSUME NEW u \in Tasks, Fresh(u)' PROVE Silent(u)' /\ Untouched(u)'
    BY DEF FreshIsUntouched
  <2>1. Fresh(u)
    BY <1>2, <1>4 DEF Fresh
  <2> QED
    BY <2>1, <1>2, <1>3, <1>4 DEF ChatInv, FreshIsUntouched, Silent, Untouched
<1> QED
  BY <1>2, <1>5, <1>6 DEF ChatInv, StreamInv, StreamTypeOK, ShortWires, ShownIsNotSaved

\* After a cancellation the chat follows nothing.
LEMMA CancelKeeps ==
    ASSUME ChatInv, Cancel
    PROVE  ChatInv'
<1>1. StreamInv' /\ \A t \in Tasks : Silent(t) => Silent(t)'
  BY Closed DEF Cancel, ChatInv
<1>2. UNCHANGED <<work, ui, later, bubbles>> /\ saved' = NoTask /\ NoTask \notin Tasks
  BY NoTaskAssumption DEF Cancel
<1>3. /\ ref' \in Refs /\ ref'.active = NoTask
      /\ q' \in ReactState /\ q'.url = NoTask
  BY DEF ChatInv, PageInv, Refs, ReactState, MaybeTask, Cancel
<1>4. cancelled' \subseteq Tasks
  BY LaterFields DEF Cancel, ChatInv, PageInv, MaybeTask
<1>5. PageInv'
  BY <1>2, <1>3, <1>4 DEF ChatInv, PageInv, MaybeTask
<1>6. FreshIsUntouched'
  BY <1>1, <1>2, <1>3 DEF ChatInv, FreshIsUntouched, Fresh, Untouched
<1> QED
  BY <1>1, <1>2, <1>5, <1>6, ClearedIsNotShown DEF ChatInv, PageInv

\* The answer to a dispatch: nothing of the task was shown.
LEMMA DispatchedKeeps ==
    ASSUME ChatInv, NEW t \in Tasks, Dispatched(t)
    PROVE  ChatInv'
<1>1. UNCHANGED <<work, result, conn, wire, faults, ui, bubbles, cancelled>>
  BY DEF Dispatched, streamVars
<1>2. /\ ref' \in Refs /\ ref'.active = t /\ saved' = t
      /\ q' \in ReactState /\ q'.url = t
  BY DEF ChatInv, PageInv, Refs, ReactState, MaybeTask, Dispatched
<1>3. /\ later' \in Laters /\ later'.dispatching = later.dispatching \ {t}
      /\ later'.guard = later.guard \cup {t} /\ later'.retry = later.retry
      /\ later'.fallback = later.fallback /\ later'.polls = later.polls
  BY DEF ChatInv, PageInv, Laters, Dispatched
<1>4. PageInv'
  BY <1>1, <1>2, <1>3 DEF ChatInv, PageInv, MaybeTask
<1>5. Fresh(t) /\ ~Fresh(t)'
  BY <1>1, <1>3 DEF Dispatched, Fresh
<1>6. FreshIsUntouched'
  <2> SUFFICES ASSUME NEW u \in Tasks, Fresh(u)' PROVE Silent(u)' /\ Untouched(u)'
    BY DEF FreshIsUntouched
  <2>1. Fresh(u) /\ u # t
    BY <1>1, <1>3, <1>5 DEF Fresh
  <2> QED
    BY <2>1, <1>1, <1>2, <1>3 DEF ChatInv, FreshIsUntouched, Silent, Untouched
<1>7. ShownIsNotSaved'
  BY <1>1, <1>2, <1>5 DEF ChatInv, FreshIsUntouched, Untouched, ShownIsNotSaved
<1> QED
  BY <1>1, <1>4, <1>6, <1>7 DEF ChatInv, StreamInv, StreamTypeOK, ShortWires

LEMMA DispatchFailedKeeps ==
    ASSUME ChatInv, NEW t \in Tasks, DispatchFailed(t)
    PROVE  ChatInv'
<1>1. UNCHANGED <<work, result, conn, wire, ui, saved, bubbles, cancelled>>
  BY DEF DispatchFailed
<1>2. faults' \in 0..MaxFaults
  BY FaultType DEF DispatchFailed, ChatInv, StreamInv, StreamTypeOK
<1>3. ref' \in Refs /\ ref'.active = ref.active /\ q' \in ReactState /\ q'.url = q.url
  BY DEF ChatInv, PageInv, Refs, ReactState, DispatchFailed
<1>4. /\ later' \in Laters /\ later'.dispatching = later.dispatching \ {t}
      /\ later'.guard = later.guard /\ later'.retry = later.retry
      /\ later'.fallback = later.fallback /\ later'.polls = later.polls
  BY DEF ChatInv, PageInv, Laters, DispatchFailed
<1>5. PageInv'
  BY <1>1, <1>3, <1>4 DEF ChatInv, PageInv
<1>6. FreshIsUntouched'
  BY <1>1, <1>3, <1>4 DEF ChatInv, FreshIsUntouched, Fresh, Silent, Untouched
<1> QED
  BY <1>1, <1>2, <1>5, <1>6 DEF ChatInv, StreamInv, StreamTypeOK, ShortWires, ShownIsNotSaved

\* The effects of a render concern the task whose url is set.
LEMMA RenderKeeps ==
    ASSUME ChatInv, Render
    PROVE  ChatInv'
<1>1. UNCHANGED <<work, result, saved, bubbles, cancelled>> /\ ui' = q
  BY DEF Render
<1>2. /\ StreamInv' /\ \A u \in Tasks : u # q.url /\ Silent(u) => Silent(u)'
      /\ ref' \in Refs /\ ref'.active = ref.active /\ q' \in ReactState /\ q'.url = q.url
  <2>0. q \in ReactState /\ ref \in Refs /\ MaxRetries \in Nat
    BY MaxRetriesAssumption DEF ChatInv, PageInv
  <2>1. CASE q.url # ui.url /\ q.url = NoTask
    <3>1. /\ Close({ref.es}) /\ ref' = [ref EXCEPT !.es = NoTask] /\ q' = [q EXCEPT !.status = "idle"]
          /\ UNCHANGED faults
      BY <2>1 DEF Render, Follow
    <3>2. StreamInv' /\ \A u \in Tasks : Silent(u) => Silent(u)'
      BY <3>1, <1>1, Closed DEF ChatInv
    <3>3. ref' \in Refs /\ ref'.active = ref.active /\ q' \in ReactState /\ q'.url = q.url
      BY <2>0, <3>1 DEF Refs, ReactState, MaybeTask
    <3> QED
      BY <3>2, <3>3
  <2>2. CASE q.url # ui.url /\ q.url # NoTask
    <3>1. /\ Opened(q.url, q.url, {ref.es}) /\ ref' = [ref EXCEPT !.es = q.url, !.retries = 0]
          /\ q' = [q EXCEPT !.status = "connecting"]
      BY <2>2 DEF Render, Follow
    <3>2. q.url \in Tasks
      BY <2>0, <2>2 DEF ReactState, MaybeTask
    <3>3. StreamInv' /\ \A u \in Tasks \ {q.url} : Silent(u) => Silent(u)'
      BY <3>1, <3>2, <1>1, OpenedOne DEF ChatInv
    <3>4. 0 \in 0..MaxRetries /\ q.url \in MaybeTask
      BY <2>0, <3>2 DEF MaybeTask
    <3>5. ref' \in Refs /\ ref'.active = ref.active
      BY <2>0, <3>1, <3>4 DEF Refs
    <3>6. q' \in ReactState /\ q'.url = q.url
      BY <2>0, <3>1 DEF ReactState
    <3> QED
      BY <3>3, <3>5, <3>6
  <2>3. CASE q.url = ui.url
    <3>1. UNCHANGED <<conn, wire, faults, ref, q>>
      BY <2>3 DEF Render
    <3> QED
      BY <2>0, <3>1, <1>1 DEF ChatInv, StreamInv, StreamTypeOK, ShortWires, Silent
  <2> QED
    BY <2>1, <2>2, <2>3
<1>3. /\ later' \in Laters /\ later'.dispatching = later.dispatching
      /\ later'.guard = later.guard /\ later'.retry = later.retry /\ later'.fallback = later.fallback
      /\ \A p \in later'.polls : p \in later.polls \/ p[2] = ref.active
  <2>1. CASE UNCHANGED later
    BY <2>1 DEF ChatInv, PageInv
  <2>2. CASE ref.active # NoTask /\ later' = [later EXCEPT !.polls = @ \cup {<<"open", ref.active>>}]
    <3>1. ref.active \in Tasks
      BY <2>2, LaterFields DEF ChatInv, MaybeTask
    <3>2. later.polls \cup {<<"open", ref.active>>} \in SUBSET ({"open", "guard"} \X Tasks)
      BY <3>1, LaterFields DEF ChatInv
    <3> QED
      BY <2>2, <3>2 DEF ChatInv, PageInv, Laters
  <2> QED
    BY <2>1, <2>2 DEF Render, PollOnOpen
<1>4. PageInv'
  BY <1>1, <1>2, <1>3 DEF ChatInv, PageInv
<1>5. FreshIsUntouched'
  <2> SUFFICES ASSUME NEW u \in Tasks, Fresh(u)' PROVE Silent(u)' /\ Untouched(u)'
    BY DEF FreshIsUntouched
  <2>1. Fresh(u)
    BY <1>1, <1>3 DEF Fresh
  <2>2. Silent(u) /\ Untouched(u)
    BY <2>1 DEF ChatInv, FreshIsUntouched
  <2> QED
    BY <2>2, <1>1, <1>2, <1>3 DEF Untouched
<1> QED
  BY <1>1, <1>2, <1>4, <1>5 DEF ChatInv, ShownIsNotSaved

\* A callback of a task that is not fresh does nothing to one that is.
LEMMA OthersUntouched ==
    ASSUME ChatInv, NEW t \in Tasks, ~Fresh(t),
           work' = work, ui' = ui, later'.dispatching = later.dispatching,
           \A u \in Tasks \ {t} : Silent(u) => Silent(u)',
           q'.url \in {q.url, NoTask}, ref'.active \in {ref.active, NoTask}, saved' \in {saved, NoTask},
           later'.guard \subseteq later.guard,
           \A u \in Tasks \ {t} : later'.retry[u] = later.retry[u],
           \A u \in Tasks \ {t} : later'.fallback[u] = later.fallback[u] \/ u = ref.active,
           \A p \in later'.polls : p \in later.polls \/ p[2] = t,
           \A b \in bubbles' : b \in bubbles \/ b.of = t
    PROVE  FreshIsUntouched'
<1> SUFFICES ASSUME NEW u \in Tasks, Fresh(u)' PROVE Silent(u)' /\ Untouched(u)'
  BY DEF FreshIsUntouched
<1>1. Fresh(u) /\ u # t
  BY DEF Fresh
<1>2. Silent(u) /\ Untouched(u) /\ u # NoTask
  BY <1>1, NoTaskAssumption DEF ChatInv, FreshIsUntouched
<1> QED
  BY <1>1, <1>2 DEF Untouched

\* The stream of t has opened.
LEMMA OpensKeeps ==
    ASSUME ChatInv, NEW t \in Tasks, wire[t] # <<>>, Opens(t),
           UNCHANGED <<work, result, faults, ui, cancelled>>
    PROVE  ChatInv'
<1>1. StreamInv' /\ \A u \in Tasks : Silent(u) => Silent(u)'
  BY Handled DEF ChatInv, Opens
<1>2. ~Fresh(t)
  BY DEF ChatInv, FreshIsUntouched, Silent
<1>3. /\ q' \in ReactState /\ q'.url = q.url
      /\ ref' \in Refs /\ ref'.active = ref.active
  BY MaxRetriesAssumption DEF ChatInv, PageInv, Opens, ReactState, Refs
<1>4. /\ later' \in Laters /\ later'.dispatching = later.dispatching /\ later'.guard = later.guard
      /\ later'.retry = later.retry /\ later'.fallback = later.fallback /\ later'.polls = later.polls
  <2>1. 0 \in 0..GuardOver
    BY DEF GuardOver
  <2>2. later \in Laters /\ later' = [later EXCEPT !.waited[t] = 0]
    BY DEF ChatInv, PageInv, Opens
  <2> QED
    BY <2>1, <2>2 DEF Laters
<1>5. UNCHANGED <<saved, bubbles>>
  BY DEF Opens
<1>6. PageInv'
  BY <1>3, <1>4, <1>5 DEF ChatInv, PageInv
<1>7. FreshIsUntouched'
  BY <1>1, <1>2, <1>3, <1>4, <1>5, OthersUntouched
<1> QED
  BY <1>1, <1>5, <1>6, <1>7 DEF ChatInv, ShownIsNotSaved

LEMMA IgnoresKeeps ==
    ASSUME ChatInv, NEW t \in Tasks, wire[t] # <<>>, Ignores(t),
           UNCHANGED <<work, result, faults, ui, cancelled>>
    PROVE  ChatInv'
<1>1. StreamInv' /\ \A u \in Tasks : Silent(u) => Silent(u)'
  BY Handled DEF ChatInv, Ignores
<1>2. UNCHANGED <<q, ref, saved, later, bubbles>>
  BY DEF Ignores
<1> QED
  BY <1>1, <1>2 DEF ChatInv, PageInv, FreshIsUntouched, Fresh, Untouched, ShownIsNotSaved

\* The result of t is shown, under whatever label, and localStorage cleared.
LEMMA DeliversKeeps ==
    ASSUME ChatInv, NEW t \in Tasks, wire[t] # <<>>, Head(wire[t]) \in Stored, Delivers(t),
           UNCHANGED <<work, result, faults, ui, cancelled>>
    PROVE  ChatInv'
<1>1. StreamInv' /\ \A u \in Tasks : Silent(u) => Silent(u)'
  BY Closed DEF ChatInv, Delivers
<1>2. ~Fresh(t)
  BY DEF ChatInv, FreshIsUntouched, Silent
<1>3. /\ bubbles' \subseteq Bubbles /\ IsFiniteSet(bubbles)'
      /\ \A b \in bubbles' : b \in bubbles \/ b.of = t
  BY Shown, LaterFields DEF ChatInv, PageInv, Delivers
<1>4. /\ q' \in ReactState /\ q'.url = NoTask
      /\ ref' \in Refs /\ ref'.active = ref.active
      /\ saved' = NoTask /\ NoTask \in MaybeTask /\ later' = later
  BY DEF ChatInv, PageInv, Delivers, ReactState, Refs, MaybeTask
<1>5. PageInv'
  BY <1>3, <1>4 DEF ChatInv, PageInv
<1>6. FreshIsUntouched'
  BY <1>1, <1>2, <1>3, <1>4, OthersUntouched
<1> QED
  BY <1>1, <1>3, <1>4, <1>5, <1>6, ClearedIsNotShown DEF ChatInv

\* The stream of t has ended: a retry of its own, or the fallback of the active
\* task.
LEMMA EndsKeeps ==
    ASSUME ChatInv, NEW t \in Tasks, wire[t] # <<>>, Ends(t),
           UNCHANGED <<work, result, faults, ui, cancelled>>
    PROVE  ChatInv'
<1>1. StreamInv' /\ \A u \in Tasks : Silent(u) => Silent(u)'
  BY Closed DEF ChatInv, Ends
<1>2. ~Fresh(t)
  BY DEF ChatInv, FreshIsUntouched, Silent
<1>3. UNCHANGED <<saved, bubbles>>
  BY DEF Ends
<1>4. /\ q' \in ReactState /\ q'.url = q.url
      /\ ref' \in Refs /\ ref'.active = ref.active
      /\ later' \in Laters /\ later'.dispatching = later.dispatching /\ later'.guard = later.guard
      /\ later'.polls = later.polls
      /\ \A u \in Tasks \ {t} : later'.retry[u] = later.retry[u]
      /\ \A u \in Tasks : later'.fallback[u] = later.fallback[u] \/ u = ref.active
  <2>0. q \in ReactState /\ ref \in Refs /\ later \in Laters /\ NoTask \in MaybeTask
    BY DEF ChatInv, PageInv, MaybeTask
  <2>1. CASE ref.retries < MaxRetries
    <3>1. /\ ref' = [ref EXCEPT !.es = NoTask, !.retries = @ + 1]
          /\ q' = [q EXCEPT !.status = "connecting"]
          /\ later' = [later EXCEPT !.retry[t] = ref.retries + 1]
      BY <2>1 DEF Ends
    <3>2. ref.retries + 1 \in 0..MaxRetries
      BY <2>1, LaterFields DEF ChatInv
    <3>3. ref' \in Refs /\ ref'.active = ref.active
      BY <2>0, <3>1, <3>2 DEF Refs
    <3>4. q' \in ReactState /\ q'.url = q.url
      BY <2>0, <3>1 DEF ReactState
    <3> DEFINE r == ref.retries + 1
    <3>5. later' = [later EXCEPT !.retry[t] = r] /\ r \in 0..MaxRetries
      BY <3>1, <3>2
    <3> HIDE DEF r
    <3>6. /\ later' \in Laters /\ later'.dispatching = later.dispatching /\ later'.guard = later.guard
          /\ later'.polls = later.polls /\ later'.fallback = later.fallback
          /\ \A u \in Tasks \ {t} : later'.retry[u] = later.retry[u]
      BY <2>0, <3>5 DEF Laters
    <3> QED
      BY <3>3, <3>4, <3>6
  <2>2. CASE ~(ref.retries < MaxRetries)
    <3>1. ref' = [ref EXCEPT !.es = NoTask] /\ GivesUp
      BY <2>2 DEF Ends
    <3>2. ref' \in Refs /\ ref'.active = ref.active
      BY <2>0, <3>1 DEF Refs
    <3>3. q' \in ReactState /\ q'.url = q.url
      BY <2>0, <3>1 DEF GivesUp, ReactState
    <3>4. CASE ref.active # NoTask /\ later' = [later EXCEPT !.fallback[ref.active] = MaxAttempts]
      <4>1. ref.active \in Tasks /\ MaxAttempts \in 0..MaxAttempts
        BY <3>4, LaterFields DEF ChatInv, MaybeTask
      <4>2. /\ later' \in Laters /\ later'.dispatching = later.dispatching /\ later'.guard = later.guard
            /\ later'.polls = later.polls /\ later'.retry = later.retry
            /\ \A u \in Tasks \ {ref.active} : later'.fallback[u] = later.fallback[u]
        BY <2>0, <3>4, <4>1 DEF Laters
      <4> QED
        BY <3>2, <3>3, <4>2
    <3>5. CASE UNCHANGED later
      BY <2>0, <3>2, <3>3, <3>5
    <3> QED
      BY <3>1, <3>4, <3>5 DEF GivesUp
  <2> QED
    BY <2>1, <2>2
<1>5. PageInv'
  BY <1>3, <1>4 DEF ChatInv, PageInv
<1>6. FreshIsUntouched'
  BY <1>1, <1>2, <1>3, <1>4, OthersUntouched
<1> QED
  BY <1>1, <1>3, <1>5, <1>6 DEF ChatInv, ShownIsNotSaved

LEMMA ReceiveKeeps ==
    ASSUME ChatInv, NEW t \in Tasks, Receive(t)
    PROVE  ChatInv'
BY OpensKeeps, IgnoresKeeps, DeliversKeeps, EndsKeeps DEF Receive

\* A retry opens the stream of its own task again.
LEMMA RetryKeeps ==
    ASSUME ChatInv, NEW t \in Tasks, RetryConnect(t)
    PROVE  ChatInv'
<1>1. UNCHANGED <<work, result, q, ui, saved, bubbles, cancelled>> /\ later.retry[t] > 0
  BY DEF RetryConnect
<1>2. StreamInv' /\ \A u \in Tasks \ {t} : Silent(u) => Silent(u)'
  BY <1>1, OpenedOne DEF ChatInv, RetryConnect
<1>3. ~Fresh(t)
  BY <1>1 DEF ChatInv, FreshIsUntouched, Untouched
<1>4. ref' \in Refs /\ ref'.active = ref.active
  BY DEF ChatInv, PageInv, RetryConnect, Refs, MaybeTask
<1>5. /\ later' \in Laters /\ later'.dispatching = later.dispatching /\ later'.guard = later.guard
      /\ later'.polls = later.polls /\ later'.fallback = later.fallback
      /\ \A u \in Tasks \ {t} : later'.retry[u] = later.retry[u]
  <2> DEFINE waited == later.waited[t] + later.retry[t]
             w == IF waited < GuardOver THEN waited ELSE GuardOver
  <2>1. w \in 0..GuardOver /\ 0 \in 0..MaxRetries
    BY LaterFields DEF ChatInv, GuardOver
  <2>2. later' = [later EXCEPT !.retry[t] = 0, !.waited[t] = w]
    BY DEF RetryConnect
  <2> HIDE DEF w
  <2> QED
    BY <2>1, <2>2 DEF ChatInv, PageInv, Laters
<1>6. PageInv'
  BY <1>1, <1>4, <1>5 DEF ChatInv, PageInv
<1>7. FreshIsUntouched'
  BY <1>1, <1>2, <1>3, <1>4, <1>5, OthersUntouched
<1> QED
  BY <1>1, <1>2, <1>6, <1>7 DEF ChatInv, ShownIsNotSaved

\* What a poll that has found the result of t leaves behind.
LEMMA Settled ==
    ASSUME ChatInv, NEW t \in Tasks, NEW status \in Stored, Settle(t, status),
           UNCHANGED <<work, result, faults>>
    PROVE  /\ StreamInv' /\ \A u \in Tasks : Silent(u) => Silent(u)'
           /\ q' \in ReactState /\ q'.url = NoTask
           /\ ref' \in Refs /\ ref'.active = NoTask /\ saved' = NoTask
           /\ bubbles' \subseteq Bubbles /\ IsFiniteSet(bubbles)'
           /\ \A b \in bubbles' : b \in bubbles \/ b.of = t
<1>1. StreamInv' /\ \A u \in Tasks : Silent(u) => Silent(u)'
  BY Closed DEF ChatInv, Settle
<1>2. t \in MaybeTask /\ RoleOf(status) \in {"result", "error"} /\ status \in {"none"} \cup Stored
  BY DEF MaybeTask, RoleOf
<1>3. /\ bubbles' \subseteq Bubbles /\ IsFiniteSet(bubbles)'
      /\ \A b \in bubbles' : b \in bubbles \/ b.of = t
  BY <1>2, Shown DEF ChatInv, PageInv, Settle
<1>4. q' \in ReactState /\ q'.url = NoTask /\ saved' = NoTask
  BY DEF Settle, ReactState, MaybeTask
<1>5. ref' \in Refs /\ ref'.active = NoTask
  BY DEF ChatInv, PageInv, Settle, Refs, MaybeTask
<1> QED
  BY <1>1, <1>3, <1>4, <1>5

LEMMA GuardKeeps ==
    ASSUME ChatInv, NEW t \in Tasks, GuardFires(t)
    PROVE  ChatInv'
<1>1. UNCHANGED <<work, result, conn, wire, faults, q, ui, ref, saved, bubbles, cancelled>> /\ t \in later.guard
  BY DEF GuardFires, streamVars
<1>2. ~Fresh(t)
  BY <1>1 DEF ChatInv, FreshIsUntouched, Untouched
<1>3. /\ later' \in Laters /\ later'.dispatching = later.dispatching /\ later'.guard = later.guard \ {t}
      /\ later'.retry = later.retry /\ later'.fallback = later.fallback
      /\ \A p \in later'.polls : p \in later.polls \/ p[2] = t
  <2> DEFINE polls == IF Guarded(t) THEN later.polls \cup {<<"guard", t>>} ELSE later.polls
  <2>1. later' = [later EXCEPT !.guard = @ \ {t}, !.polls = polls]
    BY DEF GuardFires
  <2>2. polls \in SUBSET ({"open", "guard"} \X Tasks) /\ \A p \in polls : p \in later.polls \/ p[2] = t
    BY LaterFields DEF ChatInv
  <2> HIDE DEF polls
  <2>3. later' \in Laters /\ later'.polls = polls
    BY <2>1, <2>2 DEF ChatInv, PageInv, Laters
  <2> QED
    BY <2>1, <2>2, <2>3 DEF ChatInv, PageInv, Laters
<1>4. PageInv'
  BY <1>1, <1>3 DEF ChatInv, PageInv
<1>5. \A u \in Tasks : Silent(u) => Silent(u)'
  BY <1>1 DEF Silent
<1>6. FreshIsUntouched'
  BY <1>1, <1>2, <1>3, <1>5, OthersUntouched
<1> QED
  BY <1>1, <1>4, <1>6 DEF ChatInv, StreamInv, StreamTypeOK, ShortWires, ShownIsNotSaved

\* A poll was started of a task that had been dispatched.
LEMMA PollKeeps ==
    ASSUME ChatInv, NEW t \in Tasks, NEW by \in {"open", "guard"}, PollReply(by, t)
    PROVE  ChatInv'
<1>1. UNCHANGED <<work, result, faults, ui, cancelled>> /\ <<by, t>> \in later.polls
  BY DEF PollReply
<1>2. ~Fresh(t)
  BY <1>1 DEF ChatInv, FreshIsUntouched, Untouched
<1>3. /\ later' \in Laters /\ later'.dispatching = later.dispatching /\ later'.guard = later.guard
      /\ later'.retry = later.retry /\ later'.fallback = later.fallback /\ later'.polls \subseteq later.polls
  BY DEF ChatInv, PageInv, PollReply, Laters
<1>4. PICK status \in Answers(t) :
          IF status \in Stored /\ StillWanted(by, t)
          THEN Settle(t, status)
          ELSE UNCHANGED <<conn, wire, q, ref, saved, bubbles>>
  BY DEF PollReply
<1>5. CASE status \in Stored /\ Settle(t, status)
  <2>1. /\ StreamInv' /\ \A u \in Tasks : Silent(u) => Silent(u)'
        /\ q' \in ReactState /\ q'.url = NoTask
        /\ ref' \in Refs /\ ref'.active = NoTask /\ saved' = NoTask
        /\ bubbles' \subseteq Bubbles /\ IsFiniteSet(bubbles)'
        /\ \A b \in bubbles' : b \in bubbles \/ b.of = t
    BY <1>1, <1>5, Settled
  <2>2. PageInv'
    BY <1>1, <1>3, <2>1 DEF ChatInv, PageInv, MaybeTask
  <2>3. FreshIsUntouched'
    BY <1>1, <1>2, <1>3, <2>1, OthersUntouched
  <2> QED
    BY <2>1, <2>2, <2>3, ClearedIsNotShown DEF ChatInv
<1>6. CASE UNCHANGED <<conn, wire, q, ref, saved, bubbles>>
  <2>1. PageInv'
    BY <1>1, <1>3, <1>6 DEF ChatInv, PageInv
  <2>2. \A u \in Tasks : Silent(u) => Silent(u)'
    BY <1>6 DEF Silent
  <2>3. FreshIsUntouched'
    BY <1>1, <1>2, <1>3, <1>6, <2>2, OthersUntouched
  <2> QED
    BY <1>1, <1>6, <2>1, <2>3 DEF ChatInv, StreamInv, StreamTypeOK, ShortWires, ShownIsNotSaved
<1> QED
  BY <1>4, <1>5, <1>6

\* The fallback shows an outcome, if only that there is none, or goes on.
LEMMA FallbackKeeps ==
    ASSUME ChatInv, NEW t \in Tasks, FallbackReply(t)
    PROVE  ChatInv'
<1>1. UNCHANGED <<work, result, conn, wire, faults, ui, cancelled>> /\ later.fallback[t] > 0
  BY DEF FallbackReply, streamVars
<1>2. ~Fresh(t)
  BY <1>1 DEF ChatInv, FreshIsUntouched, Untouched
<1>3. \A u \in Tasks : Silent(u) => Silent(u)'
  BY <1>1 DEF Silent
<1>4. PICK status \in Answers(t) :
          \/ /\ Show(t, t, RoleOf(status), status)
             /\ saved' = NoTask
             /\ ref' = [ref EXCEPT !.active = NoTask]
             /\ q' = [q EXCEPT !.url = NoTask]
             /\ later' = [later EXCEPT !.fallback[t] = 0]
          \/ /\ later' = [later EXCEPT !.fallback[t] = @ - 1]
             /\ UNCHANGED <<bubbles, saved, ref, q>>
  BY DEF FallbackReply
<1>5. later.fallback[t] - 1 \in 0..MaxAttempts /\ 0 \in 0..MaxAttempts
  BY <1>1, LaterFields DEF ChatInv
<1>6. /\ later' \in Laters /\ later'.dispatching = later.dispatching /\ later'.guard = later.guard
      /\ later'.retry = later.retry /\ later'.polls = later.polls
      /\ \A u \in Tasks \ {t} : later'.fallback[u] = later.fallback[u]
  BY <1>4, <1>5 DEF ChatInv, PageInv, Laters
<1>7. CASE /\ Show(t, t, RoleOf(status), status)
           /\ saved' = NoTask
           /\ ref' = [ref EXCEPT !.active = NoTask]
           /\ q' = [q EXCEPT !.url = NoTask]
  <2>1. t \in MaybeTask /\ RoleOf(status) \in {"result", "error"} /\ status \in {"none"} \cup Stored
    BY ConnsAssumption DEF MaybeTask, RoleOf, Answers, ChatInv, StreamInv, StreamTypeOK
  <2>2. /\ bubbles' \subseteq Bubbles /\ IsFiniteSet(bubbles)'
        /\ \A b \in bubbles' : b \in bubbles \/ b.of = t
    BY <1>7, <2>1, Shown DEF ChatInv, PageInv
  <2>3. /\ ref' \in Refs /\ ref'.active = NoTask
        /\ q' \in ReactState /\ q'.url = NoTask
    BY <1>7 DEF ChatInv, PageInv, Refs, ReactState, MaybeTask
  <2>4. PageInv'
    BY <1>1, <1>6, <1>7, <2>2, <2>3 DEF ChatInv, PageInv, MaybeTask
  <2>5. FreshIsUntouched'
    BY <1>1, <1>2, <1>3, <1>6, <1>7, <2>2, <2>3, OthersUntouched
  <2> QED
    BY <1>1, <1>7, <2>2, <2>4, <2>5, ClearedIsNotShown DEF ChatInv, StreamInv, StreamTypeOK, ShortWires
<1>8. CASE UNCHANGED <<bubbles, saved, ref, q>>
  <2>1. PageInv'
    BY <1>1, <1>6, <1>8 DEF ChatInv, PageInv
  <2>2. FreshIsUntouched'
    BY <1>1, <1>2, <1>3, <1>6, <1>8, OthersUntouched
  <2> QED
    BY <1>1, <1>8, <2>1, <2>2 DEF ChatInv, StreamInv, StreamTypeOK, ShortWires, ShownIsNotSaved
<1> QED
  BY <1>4, <1>7, <1>8

LEMMA ServerKeeps ==
    ASSUME ChatInv, NEW t \in Tasks, Server(t)
    PROVE  ChatInv'
<1>1. /\ StreamInv' /\ \A u \in Tasks : Silent(u) => Silent(u)'
      /\ \A u \in Tasks : work'[u] = "unsent" => work[u] = "unsent"
  BY ServerStream DEF ChatInv
<1>2. UNCHANGED <<q, ui, ref, saved, later, bubbles, cancelled>>
  BY DEF Server, chatVars
<1> QED
  BY <1>1, <1>2 DEF ChatInv, PageInv, FreshIsUntouched, Fresh, Untouched, ShownIsNotSaved

-----------------------------------------------------------------------------

LEMMA ChatStarts == Init => ChatInv
<1> SUFFICES ASSUME Init PROVE ChatInv
  OBVIOUS
<1>1. /\ work = [t \in Tasks |-> "unsent"] /\ result = [t \in Tasks |-> "none"]
      /\ conn = [c \in Conns |-> NoConn] /\ wire = [c \in Conns |-> <<>>] /\ faults = 0
  BY DEF Init, StreamInit
<1>2. StreamInv
  <2>1. conn \in [Conns -> Connections] /\ \A c \in Conns : conn[c].at = "off"
    BY <1>1 DEF NoConn, Connections
  <2>2. wire \in [Conns -> Seq(Events)] /\ \A c \in Conns : Len(wire[c]) <= 3
    BY <1>1
  <2> QED
    BY <1>1, <2>1, <2>2, MaxFaultsAssumption DEF StreamInv, StreamTypeOK, ShortWires, Connections
<1>3. /\ q = [sending |-> FALSE, url |-> NoTask, status |-> "idle"] /\ ui = q
      /\ ref = [active |-> NoTask, sending |-> FALSE, es |-> NoTask, retries |-> 0]
      /\ saved = NoTask /\ bubbles = {} /\ cancelled = {}
      /\ later = [dispatching |-> {}, guard |-> {}, polls |-> {},
                  retry |-> [t \in Tasks |-> 0], waited |-> [t \in Tasks |-> 0],
                  fallback |-> [t \in Tasks |-> 0]]
  BY DEF Init
<1>4. PageInv
  <2>1. later \in Laters
    <3>1. 0 \in 0..MaxRetries /\ 0 \in 0..GuardOver /\ 0 \in 0..MaxAttempts
      BY MaxRetriesAssumption, MaxAttemptsAssumption DEF GuardOver
    <3> QED
      BY <1>3, <3>1 DEF Laters
  <2>2. ref \in Refs /\ q \in ReactState
    BY <1>3, MaxRetriesAssumption DEF Refs, ReactState, MaybeTask
  <2>3. IsFiniteSet(bubbles)
    BY <1>3, FS_EmptySet
  <2> QED
    BY <1>3, <2>1, <2>2, <2>3 DEF PageInv, MaybeTask
<1>5. FreshIsUntouched
  BY <1>1, <1>3, ConnsAssumption, NoTaskAssumption DEF FreshIsUntouched, Silent, Untouched
<1>6. ShownIsNotSaved
  BY <1>3 DEF ShownIsNotSaved
<1> QED
  BY <1>2, <1>4, <1>5, <1>6 DEF ChatInv

LEMMA ChatStep == ChatInv /\ [Next]_vars => ChatInv'
<1> SUFFICES ASSUME ChatInv, [Next]_vars PROVE ChatInv'
  OBVIOUS
<1>1. ASSUME NEW t \in Tasks, Callbacks(t) PROVE ChatInv'
  BY <1>1, DispatchedKeeps, ReceiveKeeps, RetryKeeps, GuardKeeps, FallbackKeeps, PollKeeps DEF Callbacks
<1>2. CASE UNCHANGED vars
  <2>1. UNCHANGED <<work, result, conn, wire, faults, q, ui, ref, saved, later, bubbles, cancelled>>
    BY <1>2 DEF vars, streamVars, chatVars
  <2> QED
    BY <2>1 DEF ChatInv, StreamInv, StreamTypeOK, ShortWires, PageInv, FreshIsUntouched, Fresh, Silent,
                Untouched, ShownIsNotSaved
<1> QED
  BY <1>1, <1>2, SendKeeps, DispatchFailedKeeps, ServerKeeps, CancelKeeps, RenderKeeps DEF Next

\* The chat and its streams stay within their types: no stream holds more than
\* three events, no retry waits longer and no fallback tries more often than
\* configured.
THEOREM ChatTyped == Spec => []ChatTypeOK
<1>1. ChatInv => ChatTypeOK
  BY InvTypes DEF ChatInv
<1> QED
  BY ChatStarts, ChatStep, <1>1, PTL DEF Spec

\* A task whose outcome was shown, by its stream, by a poll or by the fallback,
\* is not the one a remount would recover, however many are sent and cancelled.
THEOREM ShownIsForgotten == Spec => []ShownIsNotSaved
<1>1. ChatInv => ShownIsNotSaved
  BY DEF ChatInv
<1> QED
  BY ChatStarts, ChatStep, <1>1, PTL DEF Spec
-----------------------------------------------------------------------------
(* What recovers the page, and what serves it                              *)

\* A step that leaves the active task and localStorage alone and starts no
\* sending, or that stops it.
LEMMA SavedKeeps == SavedWhileSending /\ [Next]_vars /\ ChatInv => SavedWhileSending'
<1> SUFFICES ASSUME SavedWhileSending, [Next]_vars, ChatInv PROVE SavedWhileSending'
  OBVIOUS
<1>0. q \in ReactState /\ ref \in Refs /\ later \in Laters
  BY DEF ChatInv, PageInv
<1>1. ASSUME NEW t \in Tasks, Send(t) PROVE SavedWhileSending'
  <2>1. t \in later'.dispatching
    BY <1>0, <1>1 DEF Send, Laters
  <2> QED
    BY <2>1 DEF SavedWhileSending
<1>2. CASE SendInvalid
  BY <1>0, <1>2 DEF SendInvalid, SavedWhileSending, Refs
<1>3. CASE Cancel
  BY <1>0, <1>3 DEF Cancel, SavedWhileSending, Refs
<1>4. ASSUME NEW t \in Tasks, Dispatched(t) PROVE SavedWhileSending'
  BY <1>0, <1>4 DEF Dispatched, SavedWhileSending, Refs
<1>5. ASSUME NEW t \in Tasks, DispatchFailed(t) PROVE SavedWhileSending'
  BY <1>0, <1>5 DEF DispatchFailed, SavedWhileSending, ReactState
<1>6. CASE Render
  <2>1. saved' = saved /\ q'.sending = q.sending /\ ref'.active = ref.active
    BY <1>0, <1>6 DEF Render, Follow, ReactState, Refs
  <2>2. later'.dispatching = later.dispatching
    BY <1>0, <1>6 DEF Render, PollOnOpen, Laters
  <2> QED
    BY <2>1, <2>2 DEF SavedWhileSending
<1>7. ASSUME NEW t \in Tasks, Receive(t) PROVE SavedWhileSending'
  <2>1. CASE Opens(t) \/ Ignores(t)
    BY <1>0, <2>1 DEF Opens, Ignores, SavedWhileSending, ReactState, Refs, Laters
  <2>2. CASE Delivers(t)
    BY <2>2 DEF Delivers, SavedWhileSending
  <2>3. CASE Ends(t)
    <3>1. saved' = saved /\ ref'.active = ref.active
      BY <1>0, <2>3 DEF Ends, Refs
    <3>2. q'.sending => q.sending /\ later'.dispatching = later.dispatching
      BY <1>0, <2>3 DEF Ends, GivesUp, ReactState, Laters
    <3> QED
      BY <3>1, <3>2 DEF SavedWhileSending
  <2> QED
    BY <1>7, <2>1, <2>2, <2>3 DEF Receive
<1>8. ASSUME NEW t \in Tasks, RetryConnect(t) PROVE SavedWhileSending'
  <2>1. UNCHANGED <<saved, q>> /\ ref'.active = ref.active /\ later'.dispatching = later.dispatching
    BY <1>0, <1>8 DEF RetryConnect, Refs, Laters
  <2> QED
    BY <2>1 DEF SavedWhileSending
<1>9. ASSUME NEW t \in Tasks, GuardFires(t) PROVE SavedWhileSending'
  <2>1. UNCHANGED <<saved, q, ref>> /\ later'.dispatching = later.dispatching
    BY <1>0, <1>9 DEF GuardFires, Laters
  <2> QED
    BY <2>1 DEF SavedWhileSending
<1>10. ASSUME NEW t \in Tasks, NEW by \in {"open", "guard"}, PollReply(by, t) PROVE SavedWhileSending'
  <2>1. later'.dispatching = later.dispatching
    BY <1>0, <1>10 DEF PollReply, Laters
  <2>2. ~q'.sending \/ UNCHANGED <<q, ref, saved>>
    BY <1>10 DEF PollReply, Settle
  <2> QED
    BY <2>1, <2>2 DEF SavedWhileSending
<1>11. ASSUME NEW t \in Tasks, FallbackReply(t) PROVE SavedWhileSending'
  <2>1. later'.dispatching = later.dispatching
    BY <1>0, <1>11 DEF FallbackReply, Laters
  <2>2. ref'.active = NoTask \/ UNCHANGED <<q, ref, saved>>
    BY <1>0, <1>11 DEF FallbackReply, Refs
  <2> QED
    BY <2>1, <2>2 DEF SavedWhileSending
<1>12. ASSUME NEW t \in Tasks, Server(t) PROVE SavedWhileSending'
  BY <1>12 DEF Server, chatVars, SavedWhileSending
<1>13. CASE UNCHANGED vars
  BY <1>13 DEF vars, chatVars, SavedWhileSending
<1> QED
  BY <1>1, <1>2, <1>3, <1>4, <1>5, <1>6, <1>7, <1>8, <1>9, <1>10, <1>11, <1>12, <1>13 DEF Next, Callbacks

\* BUG-004: while the chat follows a task, localStorage names it, whatever
\* other tasks were sent, cancelled or given up before.
THEOREM FollowedIsSaved == Spec => []SavedWhileSending
<1>1. Init => SavedWhileSending
  BY DEF Init, SavedWhileSending
<1> QED
  BY ChatStarts, ChatStep, SavedKeeps, <1>1, PTL DEF Spec

\* The last event on the wire of c is its end.
Ending(c) == wire[c] # <<>> /\ wire[c][Len(wire[c])] = "end"

\* A generator that has returned has closed its connection.
EndsAreSent == \A c \in Tasks : conn[c].at = "over" => Ending(c)

\* What serves the chat while it follows the active task.
Served ==
    \/ conn[ref.active].at # "off"
    \/ ui.url # ref.active
    \/ later.retry[ref.active] > 0

\* The chat that sends follows the url of its active task.
ServedInv ==
    q.sending /\ later.dispatching = {} /\ ref.active # NoTask => q.url = ref.active /\ Served

\* The browser closes connections, and no end gets lost on the others.
LEMMA ClosedEnds == ASSUME EndsAreSent, NEW cs, Close(cs) PROVE EndsAreSent'
<1> SUFFICES ASSUME NEW c \in Tasks, conn'[c].at = "over" PROVE Ending(c)'
  BY DEF EndsAreSent
<1>1. conn'[c] = conn[c] /\ wire'[c] = wire[c]
  BY ConnsAssumption DEF Close, NoConn
<1> QED
  BY <1>1 DEF EndsAreSent, Ending

\* A connection that cannot be made ends at once.
LEMMA OpenedEnds == ASSUME EndsAreSent, NEW t \in Tasks, NEW cs, Opened(t, t, cs) PROVE EndsAreSent'
<1> SUFFICES ASSUME NEW c \in Tasks, conn'[c].at = "over" PROVE Ending(c)'
  BY DEF EndsAreSent
<1> PICK up \in BOOLEAN :
        /\ conn' = [d \in Conns |-> IF d = t THEN [task |-> t, at |-> IF up THEN "check" ELSE "over"]
                                    ELSE IF d \in cs THEN NoConn ELSE conn[d]]
        /\ wire' = [d \in Conns |-> IF d = t THEN IF up THEN <<"open">> ELSE <<"end">>
                                    ELSE IF d \in cs THEN <<>> ELSE wire[d]]
  BY DEF Opened
<1>1. CASE c = t
  <2>1. CASE up
    BY <1>1, <2>1, ConnsAssumption
  <2>2. CASE ~up
    <3>1. wire'[c] = <<"end">>
      BY <1>1, <2>2, ConnsAssumption
    <3>2. <<"end">> # <<>> /\ <<"end">>[Len(<<"end">>)] = "end"
      OBVIOUS
    <3> QED
      BY <3>1, <3>2 DEF Ending
  <2> QED
    BY <2>1, <2>2
<1>2. CASE c # t
  <2>1. conn'[c] = conn[c] /\ wire'[c] = wire[c]
    BY <1>2, ConnsAssumption DEF NoConn
  <2> QED
    BY <2>1 DEF EndsAreSent, Ending
<1> QED
  BY <1>1, <1>2

\* A sequence of events that ends with the end.
LEMMA EndsWith ==
    ASSUME NEW es \in Seq(Events), NEW sent, sent = es \o <<"end">>
    PROVE  sent # <<>> /\ sent[Len(sent)] = "end"
<1>1. <<"end">> \in Seq(Events) /\ Len(<<"end">>) = 1 /\ Len(es) \in Nat
  BY DEF Events
<1>2. Len(sent) = Len(es) + 1 /\ sent[Len(es) + 1] = "end"
  BY <1>1
<1> QED
  BY <1>1, <1>2

\* An event that is not the end is handled, and the end stays.
LEMMA HandledEnds ==
    ASSUME StreamInv, EndsAreSent, NEW t \in Tasks, wire[t] # <<>>, Head(wire[t]) # "end",
           conn' = conn, wire' = [wire EXCEPT ![t] = Tail(@)]
    PROVE  EndsAreSent'
<1> SUFFICES ASSUME NEW c \in Tasks, conn[c].at = "over" PROVE Ending(c)'
  BY DEF EndsAreSent
<1>1. wire \in [Tasks -> Seq(Events)] /\ Ending(c)
  BY ConnsAssumption DEF StreamInv, StreamTypeOK, EndsAreSent
<1>2. CASE c = t
  <2>1. /\ wire[t] \in Seq(Events) /\ wire[t] # <<>> /\ Len(wire[t]) \in Nat
        /\ Head(wire[t]) = wire[t][1] /\ wire'[t] = Tail(wire[t])
    BY <1>1, <1>2 DEF Ending
  <2>2. Len(wire[t]) > 1
    BY <1>1, <1>2, <2>1 DEF Ending
  <2> DEFINE s == wire[t]
             n == Len(s) - 1
  <2>3. s \in Seq(Events) /\ Len(s) > 1 /\ Len(s) \in Nat /\ s[Len(s)] = "end"
    BY <1>1, <1>2, <2>1, <2>2 DEF Ending
  <2> HIDE DEF s
  <2>4. Tail(s) \in Seq(Events) /\ Len(Tail(s)) = n /\ n \in Nat \ {0}
    BY <2>3
  <2>5. Tail(s)[n] = s[n + 1] /\ n + 1 = Len(s)
    BY <2>3, <2>4
  <2>6. Tail(s) # <<>>
    BY <2>4
  <2>7. Tail(s)[Len(Tail(s))] = "end"
    BY <2>3, <2>4, <2>5
  <2>8. wire'[c] = Tail(s)
    BY <1>2, <2>1 DEF s
  <2> QED
    BY <2>6, <2>7, <2>8 DEF Ending
<1>3. CASE c # t
  <2>1. wire'[c] = wire[c]
    BY <1>1, <1>3
  <2> QED
    BY <1>1, <2>1 DEF Ending
<1> QED
  BY <1>2, <1>3

\* A generator that returns closes its connection.
LEMMA ReturnedEnds ==
    ASSUME StreamInv, EndsAreSent, NEW t \in Tasks, NEW es \in Seq(Events), Return(t, es)
    PROVE  EndsAreSent'
<1>1. wire \in [Tasks -> Seq(Events)] /\ conn \in [Tasks -> Connections]
  BY ConnsAssumption DEF StreamInv, StreamTypeOK, Connections
<1> DEFINE sent == wire[t] \o es \o <<"end">>
<1>2. sent # <<>> /\ sent[Len(sent)] = "end"
  <2>1. wire[t] \o es \in Seq(Events)
    BY <1>1
  <2> QED
    BY <2>1, EndsWith
<1>3. wire' = [wire EXCEPT ![t] = sent] /\ conn' = [conn EXCEPT ![t].at = "over"]
  BY DEF Return
<1> HIDE DEF sent
<1>4. wire'[t] = sent /\ \A u \in Tasks \ {t} : wire'[u] = wire[u] /\ conn'[u] = conn[u]
  BY <1>1, <1>3
<1> QED
  BY <1>2, <1>4 DEF EndsAreSent, Ending

\* So do those that hear the final message, and nothing else the server does
\* ends one.
LEMMA ServerEnds == ASSUME StreamInv, EndsAreSent, NEW t \in Tasks, Server(t) PROVE EndsAreSent'
<1>1. wire \in [Tasks -> Seq(Events)] /\ conn \in [Tasks -> Connections]
  BY ConnsAssumption DEF StreamInv, StreamTypeOK, Connections
<1>2. CASE Publish(t)
  <2> SUFFICES ASSUME NEW c \in Tasks, conn'[c].at = "over" PROVE Ending(c)'
    BY DEF EndsAreSent
  <2>1. CASE c \in Listeners(t)
    <3>1. wire'[c] = wire[c] \o <<"final", "end">> /\ wire[c] \in Seq(Events)
      BY <1>1, <1>2, <2>1, ConnsAssumption DEF Publish
    <3>2. <<"final", "end">> \in Seq(Events) /\ Len(<<"final", "end">>) = 2 /\ <<"final", "end">>[2] = "end"
      BY DEF Events
    <3>3. Len(wire'[c]) = Len(wire[c]) + 2 /\ wire'[c][Len(wire[c]) + 2] = "end" /\ Len(wire[c]) \in Nat
      BY <3>1, <3>2
    <3> QED
      BY <3>3 DEF Ending
  <2>2. CASE c \notin Listeners(t)
    <3>1. conn'[c] = conn[c] /\ wire'[c] = wire[c]
      BY <1>2, <2>2, ConnsAssumption DEF Publish
    <3> QED
      BY <3>1 DEF EndsAreSent, Ending
  <2> QED
    BY <2>1, <2>2
<1>3. CASE UNCHANGED <<conn, wire>>
  BY <1>3 DEF EndsAreSent, Ending
<1>4. ASSUME NEW at \in {"subscribe", "listen"}, conn' = [conn EXCEPT ![t].at = at], wire' = wire
      PROVE  EndsAreSent'
  <2>1. conn'[t].at # "over" /\ \A u \in Tasks \ {t} : conn'[u] = conn[u]
    BY <1>1, <1>4 DEF Connections
  <2> QED
    BY <1>4, <2>1 DEF EndsAreSent, Ending
<1>5. ASSUME NEW es \in Seq(Events), Return(t, es) PROVE EndsAreSent'
  BY <1>5, ReturnedEnds
<1>6. CASE CheckResult(t)
  <2>1. CASE result[conn[t].task] \in Stored /\ Return(t, <<result[conn[t].task]>>)
    <3> DEFINE es == <<result[conn[t].task]>>
    <3>1. es \in Seq(Events)
      BY <2>1 DEF Events
    <3> HIDE DEF es
    <3>2. Return(t, es)
      BY <2>1 DEF es
    <3> QED
      BY <1>5, <3>1, <3>2
  <2>2. CASE conn' = [conn EXCEPT ![t].at = "subscribe"] /\ UNCHANGED wire
    BY <1>4, <2>2
  <2> QED
    BY <1>6, <2>1, <2>2 DEF CheckResult
<1>7. CASE Break(t)
  <2>1. <<>> \in Seq(Events)
    OBVIOUS
  <2> QED
    BY <1>5, <1>7, <2>1 DEF Break
<1> QED
  BY <1>2, <1>3, <1>4, <1>6, <1>7 DEF Server, Worker, Final, Store, Dispatch, Generator, Subscribe

\* No end of a connection gets lost.
LEMMA EndsStep == EndsAreSent /\ [Next]_vars /\ ChatInv => EndsAreSent'
<1> SUFFICES ASSUME EndsAreSent, [Next]_vars, ChatInv PROVE EndsAreSent'
  OBVIOUS
<1>0. StreamInv /\ q \in ReactState
  BY DEF ChatInv, PageInv
<1>1. ASSUME UNCHANGED <<conn, wire>> PROVE EndsAreSent'
  BY <1>1 DEF EndsAreSent, Ending
<1>2. ASSUME NEW t \in Tasks, Send(t) \/ Dispatched(t) \/ DispatchFailed(t) \/ GuardFires(t) \/ FallbackReply(t)
      PROVE  EndsAreSent'
  BY <1>1, <1>2 DEF Send, Dispatched, DispatchFailed, GuardFires, FallbackReply, streamVars
<1>3. CASE SendInvalid \/ UNCHANGED vars
  BY <1>1, <1>3 DEF SendInvalid, vars, streamVars
<1>4. CASE Cancel
  BY <1>4, ClosedEnds DEF Cancel
<1>5. CASE Render
  <2>1. CASE q.url = ui.url
    BY <1>1, <1>5, <2>1 DEF Render
  <2>2. CASE q.url # ui.url /\ q.url = NoTask
    BY <1>5, <2>2, ClosedEnds DEF Render, Follow
  <2>3. CASE q.url # ui.url /\ q.url # NoTask
    <3>1. q.url \in Tasks /\ Opened(q.url, q.url, {ref.es})
      BY <1>0, <1>5, <2>3 DEF Render, Follow, ReactState, MaybeTask
    <3> QED
      BY <3>1, OpenedEnds
  <2> QED
    BY <2>1, <2>2, <2>3
<1>6. ASSUME NEW t \in Tasks, Receive(t) PROVE EndsAreSent'
  <2>1. CASE Delivers(t) \/ Ends(t)
    BY <2>1, ClosedEnds DEF Delivers, Ends
  <2>2. CASE Opens(t) /\ Head(wire[t]) = "open"
    BY <1>0, <1>6, <2>2, HandledEnds DEF Opens, Receive
  <2>3. CASE Ignores(t) /\ Head(wire[t]) = "final"
    BY <1>0, <1>6, <2>3, HandledEnds DEF Ignores, Receive
  <2> QED
    BY <1>6, <2>1, <2>2, <2>3 DEF Receive
<1>7. ASSUME NEW t \in Tasks, RetryConnect(t) PROVE EndsAreSent'
  BY <1>7, OpenedEnds DEF RetryConnect
<1>8. ASSUME NEW t \in Tasks, NEW by \in {"open", "guard"}, PollReply(by, t) PROVE EndsAreSent'
  <2>1. Close({ref.es}) \/ UNCHANGED <<conn, wire>>
    BY <1>8 DEF PollReply, Settle
  <2> QED
    BY <1>1, <2>1, ClosedEnds
<1>9. ASSUME NEW t \in Tasks, Server(t) PROVE EndsAreSent'
  BY <1>0, <1>9, ServerEnds
<1> QED
  BY <1>2, <1>3, <1>4, <1>5, <1>6, <1>7, <1>8, <1>9 DEF Next, Callbacks

\* The server takes no connection away.
LEMMA ServerConnects ==
    ASSUME StreamInv, NEW t \in Tasks, Server(t), NEW u \in Tasks, conn[u].at # "off"
    PROVE  conn'[u].at # "off"
<1>1. conn \in [Tasks -> Connections]
  BY ConnsAssumption DEF StreamInv, StreamTypeOK, Connections
<1>2. CASE Publish(t)
  BY <1>1, <1>2, ConnsAssumption DEF Publish, Connections
<1>3. CASE conn' = conn
  BY <1>3
<1>4. CASE \E at \in {"subscribe", "listen", "over"} : conn' = [conn EXCEPT ![t].at = at]
  BY <1>1, <1>4 DEF Connections
<1> QED
  BY <1>2, <1>3, <1>4 DEF Server, Worker, Final, Store, Dispatch, Generator, CheckResult, Subscribe, Break, Return

\* A step that takes nothing away from the task that is followed, or after
\* which the chat does not send.
LEMMA ServedOn ==
    ASSUME ServedInv, ref.active \in MaybeTask,
           q'.sending => q.sending /\ ref'.active = ref.active,
           later'.dispatching = later.dispatching,
           q'.sending /\ ref.active \in Tasks =>
               /\ q'.url = q.url /\ ui' = ui
               /\ conn[ref.active].at # "off" \/ later.retry[ref.active] > 0 =>
                      conn'[ref.active].at # "off" \/ later'.retry[ref.active] > 0
    PROVE  ServedInv'
<1> SUFFICES ASSUME q'.sending, later'.dispatching = {}, ref'.active # NoTask
             PROVE  q'.url = ref'.active /\ Served'
  BY DEF ServedInv
<1>1. ref.active \in Tasks
  BY DEF MaybeTask
<1>2. q.url = ref.active /\ Served
  BY DEF ServedInv
<1> QED
  BY <1>1, <1>2 DEF Served

\* Whatever other tasks do, the chat is served on.
LEMMA ServedStep == ChatInv /\ ServedInv /\ [Next]_vars => ServedInv'
<1> SUFFICES ASSUME ChatInv, ServedInv, [Next]_vars PROVE ServedInv'
  OBVIOUS
<1>0. /\ q \in ReactState /\ ref \in Refs /\ later \in Laters /\ ref.active \in MaybeTask
      /\ conn \in [Tasks -> Connections] /\ StreamInv /\ NoTask \notin Tasks
      /\ ref.active # NoTask => ref.active \in Tasks
  BY ConnsAssumption, NoTaskAssumption DEF ChatInv, PageInv, StreamInv, StreamTypeOK, Connections, Refs, MaybeTask
<1>1. ASSUME NEW t \in Tasks, Send(t) PROVE ServedInv'
  <2>1. t \in later'.dispatching
    BY <1>0, <1>1 DEF Send, Laters
  <2> QED
    BY <2>1 DEF ServedInv
<1>2. CASE SendInvalid
  <2>1. UNCHANGED <<conn, q, ui, later>> /\ ref'.active = ref.active
    BY <1>0, <1>2 DEF SendInvalid, Refs, streamVars
  <2> QED
    BY <1>0, <2>1, ServedOn
<1>3. CASE Cancel
  <2>1. ~q'.sending /\ UNCHANGED later
    BY <1>3 DEF Cancel
  <2> QED
    BY <1>0, <2>1, ServedOn
<1>4. ASSUME NEW t \in Tasks, Dispatched(t) PROVE ServedInv'
  <2>1. ref'.active = t /\ q'.url = t /\ ui' = ui /\ q'.sending = q.sending
    BY <1>0, <1>4 DEF Dispatched, Refs, ReactState, Laters
  <2>2. ui.url # t
    BY <1>4 DEF ChatInv, FreshIsUntouched, Fresh, Untouched, Dispatched
  <2> QED
    BY <1>0, <2>1, <2>2 DEF ServedInv, Served
<1>5. ASSUME NEW t \in Tasks, DispatchFailed(t) PROVE ServedInv'
  <2>1. ~q'.sending
    BY <1>0, <1>5 DEF DispatchFailed, ReactState
  <2> QED
    BY <2>1 DEF ServedInv
<1>6. CASE Render
  <2>1. ui' = q /\ q'.sending = q.sending /\ q'.url = q.url /\ ref'.active = ref.active
    BY <1>0, <1>6 DEF Render, Follow, ReactState, Refs
  <2>2. later'.dispatching = later.dispatching /\ later'.retry = later.retry
    BY <1>0, <1>6 DEF Render, PollOnOpen, Laters
  <2>3. ASSUME q.sending, later.dispatching = {}, q.url = ref.active, ref.active # NoTask, Served PROVE Served'
    <3>1. CASE q.url # ui.url
      <4>1. Opened(q.url, q.url, {ref.es}) /\ q.url \in Conns
        BY <1>0, <1>6, <2>3, <3>1, ConnsAssumption DEF Render, Follow
      <4>2. conn'[q.url].at # "off"
        BY <4>1 DEF Opened
      <4> QED
        BY <2>1, <2>3, <4>2 DEF Served
    <3>2. CASE q.url = ui.url
      BY <1>6, <2>1, <2>2, <2>3, <3>2 DEF Render, Served
    <3> QED
      BY <3>1, <3>2
  <2> QED
    BY <2>1, <2>2, <2>3 DEF ServedInv
<1>7. ASSUME NEW t \in Tasks, Receive(t) PROVE ServedInv'
  <2>0. ui' = ui
    BY <1>7 DEF Receive
  <2>1. CASE Opens(t)
    <3>1. /\ conn' = conn /\ ref'.active = ref.active /\ q'.sending = q.sending /\ q'.url = q.url
          /\ later'.dispatching = later.dispatching /\ later'.retry = later.retry
      BY <1>0, <2>1 DEF Opens, ReactState, Refs, Laters
    <3> QED
      BY <1>0, <2>0, <3>1, ServedOn
  <2>2. CASE Ignores(t)
    <3>1. UNCHANGED <<conn, q, ref, later>>
      BY <2>2 DEF Ignores
    <3> QED
      BY <1>0, <2>0, <3>1, ServedOn
  <2>3. CASE Delivers(t)
    <3>1. ~q'.sending /\ UNCHANGED later
      BY <2>3 DEF Delivers
    <3> QED
      BY <1>0, <3>1, ServedOn
  <2>4. CASE Ends(t)
    <3>1. ref'.active = ref.active /\ \A u \in Tasks \ {t} : conn'[u] = conn[u]
      BY <1>0, <2>4, ConnsAssumption DEF Ends, Close, Refs
    <3>2. CASE ref.retries < MaxRetries
      <4>1. /\ q'.sending = q.sending /\ q'.url = q.url /\ later' = [later EXCEPT !.retry[t] = ref.retries + 1]
        BY <1>0, <2>4, <3>2 DEF Ends, ReactState
      <4>2. ref.retries + 1 > 0
        BY <1>0 DEF Refs
      <4> DEFINE r == ref.retries + 1
      <4>3. later' = [later EXCEPT !.retry[t] = r] /\ r > 0
        BY <4>1, <4>2
      <4> HIDE DEF r
      <4>4. /\ later'.dispatching = later.dispatching /\ later'.retry[t] > 0
            /\ \A u \in Tasks \ {t} : later'.retry[u] = later.retry[u]
        BY <1>0, <4>3 DEF Laters
      <4> QED
        BY <1>0, <2>0, <3>1, <4>1, <4>4, ServedOn
    <3>3. CASE ~(ref.retries < MaxRetries)
      <4>1. GivesUp
        BY <2>4, <3>3 DEF Ends
      <4>2. CASE ref.active # NoTask /\ q.sending
        <5>1. ~q'.sending
          BY <1>0, <4>1, <4>2 DEF GivesUp, ReactState
        <5> QED
          BY <5>1 DEF ServedInv
      <4>3. CASE ~(ref.active # NoTask /\ q.sending)
        <5>1. q'.sending = q.sending /\ UNCHANGED later
          BY <1>0, <4>1, <4>3 DEF GivesUp, ReactState
        <5>2. q'.sending => ref.active \notin Tasks
          BY <1>0, <4>3, <5>1
        <5> QED
          BY <1>0, <3>1, <5>1, <5>2, ServedOn
      <4> QED
        BY <4>2, <4>3
    <3> QED
      BY <3>2, <3>3
  <2> QED
    BY <1>7, <2>1, <2>2, <2>3, <2>4 DEF Receive
<1>8. ASSUME NEW t \in Tasks, RetryConnect(t) PROVE ServedInv'
  <2>1. UNCHANGED <<q, ui>> /\ ref'.active = ref.active
    BY <1>0, <1>8 DEF RetryConnect, Refs
  <2>2. conn'[t].at # "off" /\ \A u \in Tasks \ {t} : conn'[u] = conn[u]
    BY <1>8, ConnsAssumption DEF RetryConnect, Opened
  <2>3. /\ later'.dispatching = later.dispatching
        /\ \A u \in Tasks \ {t} : later'.retry[u] = later.retry[u]
    <3> DEFINE waited == later.waited[t] + later.retry[t]
               w == IF waited < GuardOver THEN waited ELSE GuardOver
    <3>1. later' = [later EXCEPT !.retry[t] = 0, !.waited[t] = w]
      BY <1>8 DEF RetryConnect
    <3> HIDE DEF w
    <3> QED
      BY <1>0, <3>1 DEF Laters
  <2> QED
    BY <1>0, <2>1, <2>2, <2>3, ServedOn
<1>9. ASSUME NEW t \in Tasks, GuardFires(t) PROVE ServedInv'
  <2> DEFINE polls == IF Guarded(t) THEN later.polls \cup {<<"guard", t>>} ELSE later.polls
  <2>1. UNCHANGED <<conn, q, ui, ref>> /\ later' = [later EXCEPT !.guard = @ \ {t}, !.polls = polls]
    BY <1>9 DEF GuardFires, streamVars
  <2> HIDE DEF polls
  <2>2. later'.dispatching = later.dispatching /\ later'.retry = later.retry
    BY <1>0, <2>1 DEF Laters
  <2> QED
    BY <1>0, <2>1, <2>2, ServedOn
<1>10. ASSUME NEW t \in Tasks, NEW by \in {"open", "guard"}, PollReply(by, t) PROVE ServedInv'
  <2>1. later'.dispatching = later.dispatching /\ later'.retry = later.retry
    BY <1>0, <1>10 DEF PollReply, Laters
  <2>2. ~q'.sending \/ UNCHANGED <<conn, q, ui, ref>>
    BY <1>10 DEF PollReply, Settle
  <2> QED
    BY <1>0, <2>1, <2>2, ServedOn
<1>11. ASSUME NEW t \in Tasks, FallbackReply(t) PROVE ServedInv'
  <2>1. CASE ref'.active = NoTask
    BY <2>1 DEF ServedInv
  <2>2. CASE ref'.active # NoTask
    <3>1. UNCHANGED <<conn, q, ui, ref>>
      BY <1>0, <1>11, <2>2 DEF FallbackReply, Refs, streamVars
    <3>2. later'.dispatching = later.dispatching /\ later'.retry = later.retry
      BY <1>0, <1>11 DEF FallbackReply, Laters
    <3> QED
      BY <1>0, <3>1, <3>2, ServedOn
  <2> QED
    BY <2>1, <2>2
<1>12. ASSUME NEW t \in Tasks, Server(t) PROVE ServedInv'
  <2>1. UNCHANGED <<q, ui, ref, later>>
    BY <1>12 DEF Server, chatVars
  <2>2. \A u \in Tasks : conn[u].at # "off" => conn'[u].at # "off"
    BY <1>0, <1>12, ServerConnects
  <2> QED
    BY <1>0, <2>1, <2>2, ServedOn
<1>13. CASE UNCHANGED vars
  BY <1>13 DEF vars, streamVars, chatVars, ServedInv, Served
<1> QED
  BY <1>1, <1>2, <1>3, <1>4, <1>5, <1>6, <1>7, <1>8, <1>9, <1>10, <1>11, <1>12, <1>13 DEF Next, Callbacks

LEMMA ServedStarts == Init => ServedInv
BY DEF Init, ServedInv

LEMMA EndsStart == Init => EndsAreSent
BY ConnsAssumption DEF Init, StreamInit, EndsAreSent, NoConn

LEMMA ServedIsServed == ChatInv /\ ServedInv /\ EndsAreSent => FollowedIsServed
<1> SUFFICES ASSUME ChatInv, ServedInv, EndsAreSent,
                    q.sending, later.dispatching = {}, ref.active # NoTask,
                    ~(q.url = ref.active /\ ui.url # ref.active), ~(later.retry[ref.active] > 0)
             PROVE  Brings(ref.active) \/ Overlooked(ref.active)
  BY DEF FollowedIsServed
<1>1. ref.active \in Tasks /\ conn \in [Tasks -> Connections]
  BY ConnsAssumption DEF ChatInv, PageInv, StreamInv, StreamTypeOK, Connections, Refs, MaybeTask
<1>2. conn[ref.active].at \in {"check", "subscribe", "listen", "over"}
  BY <1>1 DEF ServedInv, Served, Connections
<1>3. conn[ref.active].at = "over" => Ending(ref.active)
  BY <1>1 DEF EndsAreSent
<1> QED
  BY <1>2, <1>3 DEF Brings, Overlooked, Ending

\* A chat that follows a task is waiting for something that will come of it,
\* however many tasks were sent, cancelled or given up before and whatever timers
\* and polls of theirs are left, unless the final message went out unheard.
THEOREM FollowedServed == Spec => []FollowedIsServed
BY ChatStarts, ChatStep, ServedStarts, ServedStep, EndsStart, EndsStep, ServedIsServed, PTL DEF Spec
=============================================================================
