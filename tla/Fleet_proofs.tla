----------------------------- MODULE Fleet_proofs -----------------------------
(***************************************************************************)
(* That the pages of the kubexes and the agents report truly what they     *)
(* did, that the dialog that registers an agent shows the registration it  *)
(* waits for, and that a row follows its kubex or says that it failed to:  *)
(* for any ids, and any number of clicks and of retries.                   *)
(*                                                                         *)
(* What is missing to an induction: that a dialog that asks about one id   *)
(* asks for an operation on it, and one that asks about a selection has    *)
(* one and was not opened while another was under way; that what is        *)
(* answered as done has been served; that the menu of the header makes no  *)
(* calls in bulk; and that nothing is aborted while                        *)
(* the kubex runs, as the error of an aborted connection overwrites the    *)
(* status and would hide a failure (useAgentLifecycle).                    *)
(***************************************************************************)
EXTENDS MCFleet, TLAPS

-----------------------------------------------------------------------------
(* A row                                                                   *)

\* Nothing is aborted while the kubex runs.
AbortsWhenOff == stream.aborted => ~stream.on

RowIInv == RowTypeOK /\ FollowedOrFailed /\ AbortsWhenOff

Streams == [on : BOOLEAN, conn : {"none", "connecting", "connected"},
            timer : BOOLEAN, tries : 0..MaxRetries, aborted : BOOLEAN,
            status : {"idle", "connecting", "connected", "error", "closed"}]

\* The part of the invariant about the stream, of a stream s.
Follows(s) ==
    /\ s.on /\ s.conn = "none" /\ ~s.timer => s.status = "error"
    /\ s.timer => s.on /\ s.conn = "none"
    /\ s.conn # "none" => s.on
    /\ s.aborted => ~s.on

-----------------------------------------------------------------------------

LEMMA ConnectFollows ==
    ASSUME NEW s \in Streams, s.on, s.conn = "none"
    PROVE  Connect(s) \in Streams /\ Follows(Connect(s))
<1>1. Disconnect(s) = [s EXCEPT !.timer = FALSE, !.conn = "none", !.aborted = FALSE]
    BY DEF Disconnect
<1> QED
    BY <1>1 DEF Connect, Streams, Follows

LEMMA RetryFollows ==
    ASSUME NEW s \in Streams, s.on, s.conn = "none", ~s.timer, ~s.aborted
    PROVE  ScheduleRetry(s) \in Streams /\ Follows(ScheduleRetry(s))
<1>1. CASE s.tries >= MaxRetries
    BY <1>1 DEF ScheduleRetry, Streams, Follows
<1>2. CASE ~(s.tries >= MaxRetries)
    <2>1. s.tries + 1 \in 0..MaxRetries
        BY <1>2, MaxRetriesAssumption DEF Streams
    <2>2. ScheduleRetry(s) = [s EXCEPT !.tries = s.tries + 1, !.timer = TRUE]
        BY <1>2 DEF ScheduleRetry
    <2> QED
        BY <2>1, <2>2 DEF Streams, Follows
<1> QED
    BY <1>1, <1>2

LEMMA StreamStep ==
    ASSUME RowIInv,
           \/ Starts \/ Stops \/ Aborted \/ Connected \/ NoBody \/ Retry
           \/ \E how \in {"closed", "error"} : StreamEnds(how)
    PROVE  stream' \in Streams /\ Follows(stream')
<1>0. stream \in Streams /\ Follows(stream)
    BY DEF RowIInv, RowTypeOK, FollowedOrFailed, AbortsWhenOff, Streams, Follows
<1>a. 0 \in 0..MaxRetries
    BY MaxRetriesAssumption
<1>1. CASE Starts
    <2> DEFINE s == [stream EXCEPT !.on = TRUE, !.tries = 0]
    <2>1. s \in Streams /\ s.on /\ s.conn = "none"
        BY <1>0, <1>1, <1>a DEF Starts, Streams, Follows
    <2>2. stream' = Connect(s)
        BY <1>1 DEF Starts
    <2> HIDE DEF s
    <2> QED
        BY <2>1, <2>2, ConnectFollows
<1>2. CASE Stops
    <2>1. stream' = [[stream EXCEPT !.timer = FALSE, !.conn = "none",
                                    !.aborted = stream.conn # "none"]
                     EXCEPT !.on = FALSE, !.status = "idle", !.tries = 0]
        BY <1>2 DEF Stops, Disconnect
    <2>2. (stream.conn # "none") \in BOOLEAN
        OBVIOUS
    <2>3. stream' \in Streams
        BY <1>0, <1>a, <2>1, <2>2 DEF Streams
    <2>4. ~stream'.on /\ ~stream'.timer /\ stream'.conn = "none"
        BY <1>0, <2>1 DEF Streams
    <2> QED
        BY <2>3, <2>4 DEF Follows
<1>3. CASE Aborted
    BY <1>0, <1>3 DEF Aborted, Streams, Follows
<1>4. CASE Connected
    BY <1>0, <1>4, <1>a DEF Connected, Streams, Follows
<1>5. CASE NoBody
    BY <1>0, <1>5 DEF NoBody, Streams, Follows
<1>6. CASE Retry
    BY <1>0, <1>6, ConnectFollows DEF Retry, Follows
<1>7. ASSUME NEW how \in {"closed", "error"}, StreamEnds(how)
      PROVE  stream' \in Streams /\ Follows(stream')
    <2> DEFINE s == [stream EXCEPT !.conn = "none", !.status = how]
    <2>1. s \in Streams /\ s.on /\ s.conn = "none" /\ ~s.timer /\ ~s.aborted
        BY <1>0, <1>7 DEF StreamEnds, Streams, Follows
    <2>2. stream' = ScheduleRetry(s)
        BY <1>7 DEF StreamEnds
    <2> HIDE DEF s
    <2> QED
        BY <2>1, <2>2, RetryFollows
<1> QED
    BY <1>1, <1>2, <1>3, <1>4, <1>5, <1>6, <1>7

\* Panels, banners and the agent, whose types the other actions keep.
PanelsTypeOK ==
    /\ agent \in AgentStates
    /\ kubex \in [state : AgentStates \cup {"null"}, authorized : BOOLEAN, hide : BOOLEAN]
    /\ inject \in [open : BOOLEAN, text : {"", "bad", "good"}, error : BOOLEAN,
                   steps : BOOLEAN, loading : BOOLEAN, runtime : Runtimes]
    /\ install \in [open : BOOLEAN, text : {"", "package"}, loading : BOOLEAN]
    /\ config \in {"closed", "loading", "error", "shown"}

LEMMA FreshTypes ==
    /\ FreshInject \in [open : BOOLEAN, text : {"", "bad", "good"}, error : BOOLEAN,
                        steps : BOOLEAN, loading : BOOLEAN, runtime : Runtimes]
    /\ FreshInstall \in [open : BOOLEAN, text : {"", "package"}, loading : BOOLEAN]
BY DEF FreshInject, FreshInstall, Runtimes

LEMMA PanelsStep ==
    ASSUME PanelsTypeOK, [RowNext]_rowVars
    PROVE  PanelsTypeOK'
<1>1. CASE Starts \/ Aborted \/ Connected \/ NoBody \/ Retry
           \/ (\E how \in {"closed", "error"} : StreamEnds(how)) \/ UNCHANGED rowVars
    BY <1>1
    DEF Starts, Aborted, Connected, NoBody, Retry, StreamEnds, rowVars, PanelsTypeOK
<1>2. CASE Stops
    <2>1. kubex' \in [state : AgentStates \cup {"null"}, authorized : BOOLEAN, hide : BOOLEAN]
        BY <1>2 DEF Stops, PanelsTypeOK
    <2>2. inject' \in [open : BOOLEAN, text : {"", "bad", "good"}, error : BOOLEAN,
                       steps : BOOLEAN, loading : BOOLEAN, runtime : Runtimes]
        BY <1>2, FreshTypes DEF Stops, PanelsTypeOK
    <2>3. install' \in [open : BOOLEAN, text : {"", "package"}, loading : BOOLEAN]
        BY <1>2, FreshTypes DEF Stops, PanelsTypeOK
    <2> QED
        BY <1>2, <2>1, <2>2, <2>3 DEF Stops, PanelsTypeOK
<1>3. ASSUME NEW new \in AgentStates, AgentMoves(new) PROVE PanelsTypeOK'
    <2>1. CASE UNCHANGED <<kubex, inject>>
        BY <1>3, <2>1 DEF AgentMoves, PanelsTypeOK
    <2>2. CASE Changed(new)
        <3> DEFINE resumes == kubex.state = "credential_wait" /\ new \in Resumed
        <3>1. /\ kubex' = [state |-> new, authorized |-> kubex.authorized \/ resumes,
                           hide |-> resumes]
              /\ inject' \in {FreshInject, [FreshInject EXCEPT !.open = TRUE], inject}
            BY <2>2 DEF Changed
        <3>2. resumes \in BOOLEAN /\ (kubex.authorized \/ resumes) \in BOOLEAN
            OBVIOUS
        <3> HIDE DEF resumes
        <3>3. kubex' \in [state : AgentStates \cup {"null"}, authorized : BOOLEAN,
                          hide : BOOLEAN]
            BY <3>1, <3>2
        <3>4. [FreshInject EXCEPT !.open = TRUE] \in
                  [open : BOOLEAN, text : {"", "bad", "good"}, error : BOOLEAN,
                   steps : BOOLEAN, loading : BOOLEAN, runtime : Runtimes]
            BY FreshTypes
        <3> QED
            BY <1>3, <3>1, <3>3, <3>4, FreshTypes DEF AgentMoves, PanelsTypeOK
    <2> QED
        BY <1>3, <2>1, <2>2 DEF AgentMoves
<1>4. CASE HideAuthorized
    BY <1>4 DEF HideAuthorized, PanelsTypeOK
<1>5. CASE \/ ToggleCreds \/ Authorize \/ ToggleInstructions \/ Inject
           \/ \E text \in {"", "bad", "good"} : PasteJson(text)
           \/ \E r \in Runtimes : SelectRuntime(r)
           \/ \E ok \in BOOLEAN : Injected(ok)
    <2>1. inject' \in [open : BOOLEAN, text : {"", "bad", "good"}, error : BOOLEAN,
                       steps : BOOLEAN, loading : BOOLEAN, runtime : Runtimes]
        <3>1. CASE ToggleCreds \/ Authorize
            BY <3>1, FreshTypes DEF ToggleCreds, Authorize, PanelsTypeOK
        <3>2. CASE ToggleInstructions \/ Inject
            BY <3>2 DEF ToggleInstructions, Inject, PanelsTypeOK
        <3>3. ASSUME NEW text \in {"", "bad", "good"}, PasteJson(text)
              PROVE  inject' \in [open : BOOLEAN, text : {"", "bad", "good"}, error : BOOLEAN,
                                  steps : BOOLEAN, loading : BOOLEAN, runtime : Runtimes]
            <4>1. (text = "bad") \in BOOLEAN /\ inject' = [inject EXCEPT !.text = text, !.error = text = "bad"]
                BY <3>3 DEF PasteJson
            <4> QED
                BY <4>1 DEF PanelsTypeOK
        <3>4. ASSUME NEW r \in Runtimes, SelectRuntime(r)
              PROVE  inject' \in [open : BOOLEAN, text : {"", "bad", "good"}, error : BOOLEAN,
                                  steps : BOOLEAN, loading : BOOLEAN, runtime : Runtimes]
            BY <3>4 DEF SelectRuntime, PanelsTypeOK
        <3>5. ASSUME NEW ok \in BOOLEAN, Injected(ok)
              PROVE  inject' \in [open : BOOLEAN, text : {"", "bad", "good"}, error : BOOLEAN,
                                  steps : BOOLEAN, loading : BOOLEAN, runtime : Runtimes]
            BY <3>5 DEF Injected, PanelsTypeOK
        <3> QED
            BY <1>5, <3>1, <3>2, <3>3, <3>4, <3>5
    <2>2. UNCHANGED <<agent, kubex, install, config>>
        BY <1>5
        DEF ToggleCreds, Authorize, ToggleInstructions, Inject, PasteJson, SelectRuntime, Injected
    <2> QED
        BY <2>1, <2>2 DEF PanelsTypeOK
<1>6. CASE \/ ToggleInstall \/ Install
           \/ \E text \in {"", "package"} : TypePackage(text)
           \/ \E ok \in BOOLEAN : Installed(ok)
    <2>1. install' \in [open : BOOLEAN, text : {"", "package"}, loading : BOOLEAN]
        BY <1>6, FreshTypes DEF ToggleInstall, Install, TypePackage, Installed, PanelsTypeOK
    <2>2. UNCHANGED <<agent, kubex, inject, config>>
        BY <1>6 DEF ToggleInstall, Install, TypePackage, Installed
    <2> QED
        BY <2>1, <2>2 DEF PanelsTypeOK
<1>7. CASE ToggleConfig \/ \E as \in {"shown", "error"} : ConfigAnswered(as)
    BY <1>7 DEF ToggleConfig, ConfigAnswered, PanelsTypeOK
<1> QED
    BY <1>1, <1>2, <1>3, <1>4, <1>5, <1>6, <1>7 DEF RowNext

-----------------------------------------------------------------------------

LEMMA IInvParts == RowIInv <=> PanelsTypeOK /\ stream \in Streams /\ Follows(stream)
BY DEF RowIInv, RowTypeOK, PanelsTypeOK, Streams, Follows, FollowedOrFailed, AbortsWhenOff

\* A row that is mounted satisfies the invariant.
THEOREM RowStarts == RowInit => RowIInv
<1> SUFFICES ASSUME RowInit PROVE RowIInv
    OBVIOUS
<1>1. PanelsTypeOK
    BY FreshTypes DEF RowInit, PanelsTypeOK
<1>2. stream \in Streams /\ Follows(stream)
    BY MaxRetriesAssumption DEF RowInit, Streams, Follows
<1> QED
    BY <1>1, <1>2, IInvParts

\* No step of its stream or of its panels leaves it.
THEOREM RowStep == RowIInv /\ [RowNext]_rowVars => RowIInv'
<1> SUFFICES ASSUME RowIInv, [RowNext]_rowVars PROVE RowIInv'
    OBVIOUS
<1>1. PanelsTypeOK'
    BY IInvParts, PanelsStep
<1>2. stream' \in Streams /\ Follows(stream')
    <2>1. CASE \/ Starts \/ Stops \/ Aborted \/ Connected \/ NoBody \/ Retry
               \/ \E how \in {"closed", "error"} : StreamEnds(how)
        BY <2>1, StreamStep
    <2>2. CASE UNCHANGED stream
        BY <2>2, IInvParts
    <2> QED
        BY <2>1, <2>2
        DEF RowNext, rowVars, AgentMoves, HideAuthorized, ToggleCreds, Authorize,
            ToggleInstructions, Inject, PasteJson, SelectRuntime, Injected, ToggleInstall,
            Install, TypePackage, Installed, ToggleConfig, ConfigAnswered
<1> QED
    <2>1. (PanelsTypeOK /\ stream \in Streams /\ Follows(stream))' => RowIInv'
        BY DEF RowIInv, RowTypeOK, PanelsTypeOK, Streams, Follows, FollowedOrFailed,
               AbortsWhenOff
    <2>2. Follows(stream)' = Follows(stream')
        BY DEF Follows
    <2> QED
        BY <1>1, <1>2, <2>1, <2>2 DEF Streams

\* The invariant holds in every reachable state, for any number of retries.
THEOREM RowInvariance == RowSpec => []RowIInv
BY RowStarts, RowStep, PTL DEF RowSpec

\* A kubex that runs is followed, or will be, unless the hook says that it has
\* failed; and never by two streams.
THEOREM Followed == RowSpec => []FollowedOrFailed
<1>1. RowIInv => FollowedOrFailed
    BY DEF RowIInv
<1> QED
    BY <1>1, RowInvariance, PTL

-----------------------------------------------------------------------------
(* A page that lists and acts                                              *)

Lists == [shown : [Ids -> Status], get : {"none", "sent", "served"},
          snap : [Ids -> Status], waiting : BOOLEAN, polling : BOOLEAN]
Uis == [asking : [id : Ids \cup {NoId}, op : Ops \cup {"none"}],
        busy : Ids \cup {NoId}, selected : SUBSET Ids,
        bulkAsking : BOOLEAN, bulkBusy : BOOLEAN]
Calls == [n : 1..MaxCalls, id : Ids, to : Status, bulk : BOOLEAN,
          answer : {"pending", "done", "refused"}, waited : BOOLEAN, mine : BOOLEAN]
Toasts == [ok : BOOLEAN, bulk : BOOLEAN, about : SUBSET CallNames,
           served : SUBSET CallNames, clicks : 0..MaxCalls]

\* The dialog of a row is about an id and asks for an operation.
AsksOfOne == ui.asking = NoAsk \/ ui.asking \in [id : Ids, op : Ops]

\* That of a selection is about one, and is not opened while another is acted on.
AsksOfSome == ui.bulkAsking => ui.selected # {} /\ ~ui.bulkBusy

\* What is answered as done has been served.
DoneIsServed == \A c \in calls : c.answer = "done" => <<c.n, c.id>> \in told.served

PageIInv == ListTypeOK /\ AsksOfOne /\ AsksOfSome /\ PanelReportsTruly /\ DoneIsServed

\* The toast stays, and more has been served.
ToldGrows ==
    /\ told' \in Toasts
    /\ told'.ok = told.ok /\ told'.bulk = told.bulk /\ told'.about = told.about
    /\ told.served \subseteq told'.served

LEMMA ListTypes ==
    ListTypeOK <=> /\ server \in [Ids -> Status] /\ list \in Lists /\ ui \in Uis
                   /\ calls \subseteq Calls /\ told \in Toasts
BY DEF ListTypeOK, Lists, Uis, Calls, Toasts

LEMMA ClosedUiType == ClosedUi \in Uis /\ Nothing \in [Ids -> Status]
BY DEF ClosedUi, NoAsk, Uis, Nothing, Status

LEMMA LoadType ==
    ASSUME NEW l \in Lists
    PROVE  Load(l) \in Lists /\ Ended(l) \in Lists /\ Mount(l) \in Lists
<1>0. Nothing \in [Ids -> Status]
    BY ClosedUiType
<1>1. ASSUME NEW m \in Lists PROVE Load(m) \in Lists
    BY DEF Load, Lists
<1>2. Ended(l) \in Lists
    BY <1>0 DEF Ended, Lists
<1>3. [l EXCEPT !.shown = Nothing, !.polling = TRUE] \in Lists
    BY <1>0 DEF Lists
<1> QED
    BY <1>1, <1>2, <1>3 DEF Mount

LEMMA LoadAfterType ==
    ASSUME list \in Lists, NEW ended
    PROVE  LoadAfter(ended) \in Lists
<1>1. Load(list) \in Lists
    BY LoadType
<1>2. [list EXCEPT !.get = IF list.get = "none" THEN "sent" ELSE list.get] \in Lists
    BY DEF Lists
<1> QED
    BY <1>1, <1>2 DEF LoadAfter

\* What was true of the toast remains so.
LEMMA GrowsKeepsTrue == ASSUME ToldGrows, AllWasDone PROVE AllWasDone'
BY DEF ToldGrows, AllWasDone

LEMMA SameGrows == ASSUME told \in Toasts, UNCHANGED told PROVE ToldGrows
BY DEF ToldGrows

\* A success is heard of only if everything was done.
LEMMA HeardTrue ==
    ASSUME NEW cs, NEW ok \in Heard(cs)
    PROVE  ok \in BOOLEAN /\ (ok => \A c \in cs : c.answer = "done")
BY DEF Heard

LEMMA EffectType == \A op \in Ops : Effect(op) \in Status
BY DEF Ops, Effect, Status

\* A click adds its calls to those in flight.
LEMMA CalledAdds ==
    ASSUME ListTypeOK, DoneIsServed,
           NEW ids \in SUBSET Ids, NEW op \in Ops, NEW bulk \in BOOLEAN,
           Called(ids, op, bulk)
    PROVE  /\ calls' \subseteq Calls /\ ToldGrows /\ DoneIsServed'
           /\ Bulk(TRUE)' # {} <=> Bulk(TRUE) # {} \/ (bulk /\ ids # {})
<1> DEFINE New(i) == [n |-> told.clicks + 1, id |-> i, to |-> Effect(op), bulk |-> bulk,
                      answer |-> "pending", waited |-> TRUE, mine |-> TRUE]
<1>1. told \in Toasts /\ calls \subseteq Calls
    BY ListTypes
<1>2. told.clicks + 1 \in 1..MaxCalls
    BY <1>1, MaxCallsAssumption DEF Called, Toasts
<1>3. \A i \in ids : New(i) \in Calls
    BY <1>2, EffectType DEF Calls
<1>4. calls' = calls \cup {New(i) : i \in ids}
    BY DEF Called
<1>5. told' = [told EXCEPT !.clicks = told.clicks + 1]
    BY DEF Called
<1>6. ToldGrows
    BY <1>1, <1>2, <1>5, MaxCallsAssumption DEF Toasts, ToldGrows
<1>7. calls' \subseteq Calls
    BY <1>1, <1>3, <1>4
<1>8. \A i \in ids : New(i).bulk = bulk /\ New(i).waited = TRUE /\ New(i).mine = TRUE
                     /\ New(i).answer = "pending"
    OBVIOUS
<1> HIDE DEF New
<1>9. Bulk(TRUE)' # {} <=> Bulk(TRUE) # {} \/ (bulk /\ ids # {})
    BY <1>4, <1>8 DEF Bulk
<1>10. DoneIsServed'
    BY <1>4, <1>6, <1>8 DEF DoneIsServed, ToldGrows
<1> QED
    BY <1>6, <1>7, <1>9, <1>10

\* The calls that have ended are no longer in flight, or are not waited for; a
\* success the toast speaks of is one of calls that have been served.
LEMMA SettleEnds ==
    ASSUME ListTypeOK, DoneIsServed,
           NEW ended \in SUBSET calls, NEW ok \in BOOLEAN, NEW bulk \in BOOLEAN,
           Settle(ended, ok, bulk)
    PROVE  /\ calls' \subseteq Calls /\ told' \in Toasts
           /\ told'.ok = ok /\ told'.bulk = bulk /\ told'.served = told.served
           /\ DoneIsServed'
           /\ (\A c \in ended : c.answer = "done") => AllWasDone'
           /\ \A m \in BOOLEAN : Bulk(m)' = Bulk(m) \ ended
<1> DEFINE Late(c) == [c EXCEPT !.waited = FALSE, !.mine = FALSE, !.bulk = FALSE]
           Given == {d \in ended : d.answer = "pending"}
           names == {<<c.n, c.id>> : c \in ended}
<1>1. told \in Toasts /\ calls \subseteq Calls
    BY ListTypes
<1>2. \A c \in Calls : /\ Late(c) \in Calls /\ ~Late(c).bulk
                       /\ Late(c).answer = c.answer
    BY DEF Calls
<1>3. calls' = (calls \ ended) \cup {Late(c) : c \in Given}
    BY DEF Settle
<1>4. told' = [told EXCEPT !.ok = ok, !.bulk = bulk, !.about = names]
    BY DEF Settle
<1>5. names \in SUBSET CallNames
    BY <1>1 DEF Calls, CallNames
<1>6. (\A c \in ended : c.answer = "done") => names \subseteq told.served
    BY DEF DoneIsServed
<1> HIDE DEF Late, names
<1>7. calls' \subseteq Calls
    BY <1>1, <1>2, <1>3
<1>8. /\ told' \in Toasts /\ told'.ok = ok /\ told'.bulk = bulk
      /\ told'.about = names /\ told'.served = told.served
    BY <1>1, <1>4, <1>5 DEF Toasts
<1>9. \A m \in BOOLEAN : Bulk(m)' = Bulk(m) \ ended
    BY <1>1, <1>2, <1>3 DEF Bulk
<1>10. DoneIsServed'
    BY <1>1, <1>2, <1>3, <1>8 DEF DoneIsServed
<1>11. (\A c \in ended : c.answer = "done") => AllWasDone'
    BY <1>6, <1>8 DEF AllWasDone
<1> QED
    BY <1>7, <1>8, <1>9, <1>10, <1>11

\* Serving a call, the rest keeps what belongs together.
LEMMA ServeKeeps ==
    ASSUME ListTypeOK, DoneIsServed, NEW c \in calls, Serve(c)
    PROVE  /\ server' \in [Ids -> Status] /\ calls' \subseteq Calls
           /\ \A m \in BOOLEAN : Bulk(m)' # {} <=> Bulk(m) # {}
           /\ ToldGrows /\ DoneIsServed'
           /\ UNCHANGED <<list, ui>>
<1>1. /\ c \in Calls /\ calls \subseteq Calls /\ server \in [Ids -> Status]
      /\ told \in Toasts
    BY ListTypes
<1>2. PICK answer \in {"done", "refused"} :
          /\ server' = IF answer = "done" THEN [server EXCEPT ![c.id] = c.to] ELSE server
          /\ calls' = (calls \ {c}) \cup (IF c.waited THEN {[c EXCEPT !.answer = answer]} ELSE {})
          /\ told' = IF answer = "done"
                     THEN [told EXCEPT !.served = told.served \cup {<<c.n, c.id>>}] ELSE told
    BY DEF Serve
<1> DEFINE d == [c EXCEPT !.answer = answer]
<1>3. /\ d \in Calls /\ d.bulk = c.bulk /\ d.waited = c.waited /\ d.mine = c.mine
      /\ d.answer = answer /\ d.n = c.n /\ d.id = c.id
    BY <1>1 DEF Calls
<1>4. calls' = (calls \ {c}) \cup (IF c.waited THEN {d} ELSE {})
    BY <1>2
<1>5. <<c.n, c.id>> \in CallNames
    BY <1>1 DEF Calls, CallNames
<1> HIDE DEF d
<1>6. calls' \subseteq Calls
    BY <1>1, <1>3, <1>4
<1>7. server' \in [Ids -> Status]
    BY <1>1, <1>2 DEF Calls
<1>8. \A m \in BOOLEAN : Bulk(m)' # {} <=> Bulk(m) # {}
    BY <1>3, <1>4 DEF Bulk
<1>9. ToldGrows /\ (answer = "done" => <<c.n, c.id>> \in told'.served)
    <2>1. CASE answer = "done"
        <3> DEFINE now == told.served \cup {<<c.n, c.id>>}
        <3>1. now \in SUBSET CallNames
            BY <1>1, <1>5 DEF Toasts
        <3>2. told' = [told EXCEPT !.served = now]
            BY <1>2, <2>1
        <3>3. told.served \subseteq now /\ <<c.n, c.id>> \in now
            OBVIOUS
        <3> HIDE DEF now
        <3> QED
            BY <1>1, <3>1, <3>2, <3>3 DEF Toasts, ToldGrows
    <2>2. CASE answer = "refused"
        BY <1>1, <1>2, <2>2, SameGrows
    <2> QED
        BY <2>1, <2>2
<1>10. DoneIsServed'
    BY <1>3, <1>4, <1>9 DEF DoneIsServed, ToldGrows
<1> QED
    BY <1>6, <1>7, <1>8, <1>9, <1>10 DEF Serve

\* What a page has in its dialogs and its selection.
PageUi(u, busy) ==
    /\ u \in Uis
    /\ u.asking = NoAsk \/ u.asking \in [id : Ids, op : Ops]
    /\ u.bulkAsking => u.selected # {} /\ ~u.bulkBusy
    /\ u.bulkBusy <=> busy

LEMMA PageParts ==
    PageIInv <=> /\ server \in [Ids -> Status] /\ list \in Lists
                 /\ calls \subseteq Calls /\ told \in Toasts
                 /\ PageUi(ui, Bulk(TRUE) # {})
                 /\ (told.ok /\ ~told.bulk => AllWasDone)
                 /\ DoneIsServed
BY ListTypes DEF PageIInv, AsksOfOne, AsksOfSome, PanelReportsTruly, PageUi

\* It is enough to look at what has changed.
LEMMA PageKept ==
    ASSUME PageIInv,
           server' \in [Ids -> Status], list' \in Lists,
           calls' \subseteq Calls, told' \in Toasts,
           PageUi(ui', Bulk(TRUE)' # {}),
           told'.ok /\ ~told'.bulk => AllWasDone',
           DoneIsServed'
    PROVE  PageIInv'
BY DEF PageIInv, AsksOfOne, AsksOfSome, PanelReportsTruly, PageUi, ListTypeOK,
       Lists, Uis, Calls, Toasts, Bulk

\* The same, when what has become of the toast is that more has been served.
LEMMA PageGrows ==
    ASSUME PageIInv,
           server' \in [Ids -> Status], list' \in Lists,
           calls' \subseteq Calls, ToldGrows, DoneIsServed',
           PageUi(ui', Bulk(TRUE)' # {})
    PROVE  PageIInv'
<1>1. told' \in Toasts /\ (told'.ok /\ ~told'.bulk => AllWasDone')
    BY PageParts, GrowsKeepsTrue DEF ToldGrows
<1> QED
    BY <1>1, PageKept

\* A page of which only the list, or only what is shown of it, has changed.
LEMMA PageStill ==
    ASSUME PageIInv, UNCHANGED <<calls, told>>, server' \in [Ids -> Status], list' \in Lists,
           PageUi(ui', Bulk(TRUE) # {})
    PROVE  PageIInv'
<1>1. Bulk(TRUE)' = Bulk(TRUE)
    BY DEF Bulk
<1>2. DoneIsServed' /\ ToldGrows /\ calls' \subseteq Calls
    BY PageParts, SameGrows DEF DoneIsServed
<1> QED
    BY <1>1, <1>2, PageGrows

\* Reading the list, selecting and cancelling keep a page in order.
LEMMA ListNextKeeps ==
    ASSUME PageIInv, ListNext
    PROVE  PageIInv'
<1>0. /\ server \in [Ids -> Status] /\ list \in Lists
      /\ calls \subseteq Calls /\ told \in Toasts
      /\ PageUi(ui, Bulk(TRUE) # {})
    BY PageParts
<1>1. CASE Poll \/ Refresh
    <2>1. Load(list) \in Lists
        BY <1>0, LoadType
    <2>2. list' \in Lists
        BY <1>1, <2>1 DEF Poll, Refresh, Lists
    <2> QED
        BY <1>0, <1>1, <2>2, PageStill DEF Poll, Refresh
<1>2. CASE ServeGet
    <2>1. list' \in Lists
        BY <1>0, <1>2 DEF ServeGet, Lists
    <2> QED
        BY <1>0, <1>2, <2>1, PageStill DEF ServeGet
<1>3. CASE GetAnswered \/ GetFailed
    <2>1. [list EXCEPT !.shown = IF list.waiting THEN list.snap ELSE list.shown] \in Lists
        BY <1>0 DEF Lists
    <2>2. list' \in Lists
        BY <1>0, <1>3, <2>1, LoadType DEF GetAnswered, GetFailed
    <2> QED
        BY <1>0, <1>3, <2>2, PageStill DEF GetAnswered, GetFailed
<1>4. ASSUME NEW c \in calls, Serve(c) PROVE PageIInv'
    <2>1. ListTypeOK /\ DoneIsServed
        BY DEF PageIInv
    <2>2. /\ server' \in [Ids -> Status] /\ calls' \subseteq Calls
          /\ \A m \in BOOLEAN : Bulk(m)' # {} <=> Bulk(m) # {}
          /\ ToldGrows /\ DoneIsServed'
          /\ UNCHANGED <<list, ui>>
        BY <1>4, <2>1, ServeKeeps
    <2>3. PageUi(ui', Bulk(TRUE)' # {})
        BY <1>0, <2>2 DEF PageUi
    <2> QED
        BY <1>0, <2>2, <2>3, PageGrows
<1>5. CASE Free /\ (ToggleAll \/ ClearSelection \/ \E i \in Ids : ToggleOne(i))
    <2>1. PICK some \in SUBSET Ids : ui' = [ui EXCEPT !.selected = some]
        <3>1. CASE ToggleAll
            BY <3>1 DEF ToggleAll
        <3>2. CASE ClearSelection
            BY <3>2 DEF ClearSelection
        <3>3. ASSUME NEW i \in Ids, ToggleOne(i)
              PROVE  \E some \in SUBSET Ids : ui' = [ui EXCEPT !.selected = some]
            <4>1. ui.selected \subseteq Ids
                BY <1>0 DEF PageUi, Uis
            <4>2. ui.selected \ {i} \in SUBSET Ids /\ ui.selected \cup {i} \in SUBSET Ids
                BY <4>1
            <4> QED
                BY <3>3, <4>2 DEF ToggleOne
        <3> QED
            BY <1>5, <3>1, <3>2, <3>3
    <2>2. PageUi(ui', Bulk(TRUE) # {})
        BY <1>0, <1>5, <2>1 DEF PageUi, Uis, Free
    <2>3. UNCHANGED <<server, list, calls, told>>
        BY <1>5 DEF ToggleAll, ClearSelection, ToggleOne
    <2> QED
        BY <1>0, <2>2, <2>3, PageStill
<1>6. CASE CancelDialog
    <2>1. ui' = [ui EXCEPT !.asking = NoAsk, !.bulkAsking = FALSE]
        BY <1>6 DEF CancelDialog
    <2>2. NoAsk \in [id : Ids \cup {NoId}, op : Ops \cup {"none"}]
        BY DEF NoAsk
    <2>3. PageUi(ui', Bulk(TRUE) # {})
        BY <1>0, <2>1, <2>2 DEF PageUi, Uis
    <2> QED
        BY <1>0, <1>6, <2>3, PageStill DEF CancelDialog
<1> QED
    BY <1>1, <1>2, <1>3, <1>4, <1>5, <1>6 DEF ListNext

\* And the toast, though more may have been served.
LEMMA ListNextGrows ==
    ASSUME PageIInv, ListNext
    PROVE  ToldGrows
<1>0. told \in Toasts
    BY PageParts
<1>1. ASSUME NEW c \in calls, Serve(c) PROVE ToldGrows
    BY <1>1, ServeKeeps DEF PageIInv
<1>2. CASE UNCHANGED told
    BY <1>0, <1>2, SameGrows
<1> QED
    BY <1>1, <1>2
    DEF ListNext, Poll, ServeGet, GetAnswered, GetFailed, Refresh, ToggleAll, ClearSelection,
        ToggleOne, CancelDialog

LEMMA RemountKeeps ==
    ASSUME PageIInv, Remount
    PROVE  PageIInv'
<1>0. /\ server \in [Ids -> Status] /\ list \in Lists
      /\ calls \subseteq Calls /\ told \in Toasts /\ DoneIsServed
    BY PageParts
<1> DEFINE Left(c) == [c EXCEPT !.mine = FALSE]
<1>1. \A c \in Calls : /\ Left(c) \in Calls /\ ~Left(c).mine
                       /\ Left(c).n = c.n /\ Left(c).id = c.id /\ Left(c).answer = c.answer
    BY DEF Calls
<1>2. calls' = {Left(c) : c \in calls}
    BY DEF Remount
<1> HIDE DEF Left
<1>3. calls' \subseteq Calls /\ Bulk(TRUE)' = {}
    BY <1>0, <1>1, <1>2 DEF Bulk
<1>4. list' \in Lists
    BY <1>0, LoadType DEF Remount
<1>5. PageUi(ui', Bulk(TRUE)' # {})
    BY <1>3, ClosedUiType DEF Remount, PageUi, ClosedUi
<1>6. DoneIsServed' /\ ToldGrows
    BY <1>0, <1>1, <1>2, SameGrows DEF DoneIsServed, Remount
<1> QED
    BY <1>0, <1>3, <1>4, <1>5, <1>6, PageGrows DEF Remount

\* A click that calls for one id, or for a selection.
LEMMA ClickKeeps ==
    ASSUME PageIInv, NEW ids \in SUBSET Ids, NEW op \in Ops, NEW bulk \in BOOLEAN,
           Called(ids, op, bulk), UNCHANGED <<server, list>>,
           PageUi(ui', Bulk(TRUE) # {} \/ (bulk /\ ids # {}))
    PROVE  PageIInv' /\ ToldGrows
<1>1. ListTypeOK /\ DoneIsServed
    BY DEF PageIInv
<1>2. /\ calls' \subseteq Calls /\ ToldGrows /\ DoneIsServed'
      /\ Bulk(TRUE)' # {} <=> Bulk(TRUE) # {} \/ (bulk /\ ids # {})
    BY <1>1, CalledAdds
<1>3. PageUi(ui', Bulk(TRUE)' # {})
    BY <1>2 DEF PageUi
<1> QED
    BY <1>2, <1>3, PageParts, PageGrows

\* What follows a call for one id: the row is no longer marked.
LEMMA OneEndsKeeps ==
    ASSUME PageIInv, NEW c \in calls, ~c.bulk,
           NEW ok \in BOOLEAN, ok => c.answer = "done", Settle({c}, ok, FALSE),
           list' \in Lists, server' = server,
           ui' = ui \/ ui' = [ui EXCEPT !.busy = NoId]
    PROVE  /\ PageIInv' /\ told'.served = told.served
           /\ told'.ok => AllWasDone'
<1>1. ListTypeOK /\ DoneIsServed
    BY DEF PageIInv
<1>2. ok => \A d \in {c} : d.answer = "done"
    OBVIOUS
<1>3. /\ calls' \subseteq Calls /\ told' \in Toasts /\ told'.ok = ok
      /\ DoneIsServed' /\ told'.served = told.served
      /\ (\A d \in {c} : d.answer = "done") => AllWasDone'
      /\ \A m \in BOOLEAN : Bulk(m)' = Bulk(m) \ {c}
    <2> DEFINE ended == {c}
    <2>1. FALSE \in BOOLEAN /\ ended \in SUBSET calls /\ Settle(ended, ok, FALSE)
        OBVIOUS
    <2> HIDE DEF ended
    <2>2. /\ calls' \subseteq Calls /\ told' \in Toasts /\ told'.ok = ok
          /\ DoneIsServed' /\ told'.served = told.served
          /\ (\A d \in ended : d.answer = "done") => AllWasDone'
          /\ \A m \in BOOLEAN : Bulk(m)' = Bulk(m) \ ended
        BY <1>1, <2>1, SettleEnds
    <2> QED
        BY <2>2 DEF ended
<1>4. Bulk(TRUE)' = Bulk(TRUE)
    BY <1>3 DEF Bulk
<1>5. PageUi(ui', Bulk(TRUE)' # {})
    BY <1>4, PageParts DEF PageUi, Uis
<1>6. told'.ok => AllWasDone'
    BY <1>2, <1>3
<1> QED
    BY <1>3, <1>5, <1>6, PageParts, PageKept

\* What follows the calls for a selection: it is empty, and nothing is under way.
LEMMA ManyEndKeeps ==
    ASSUME PageIInv, NEW m \in BOOLEAN, Bulk(m) # {}, NEW ok \in BOOLEAN,
           Settle(Bulk(m), ok, TRUE), list' \in Lists, server' = server,
           ui' = IF m THEN [ui EXCEPT !.selected = {}, !.bulkBusy = FALSE] ELSE ui
    PROVE  PageIInv' /\ told'.ok = ok /\ told'.served = told.served
                     /\ ((\A c \in Bulk(m) : c.answer = "done") => AllWasDone')
<1>1. ListTypeOK /\ DoneIsServed
    BY DEF PageIInv
<1>2. Bulk(m) \in SUBSET calls /\ TRUE \in BOOLEAN
    BY DEF Bulk
<1>3. /\ calls' \subseteq Calls /\ told' \in Toasts
      /\ told'.ok = ok /\ told'.bulk = TRUE
      /\ DoneIsServed' /\ told'.served = told.served
      /\ (\A c \in Bulk(m) : c.answer = "done") => AllWasDone'
      /\ \A b \in BOOLEAN : Bulk(b)' = Bulk(b) \ Bulk(m)
    BY <1>1, <1>2, SettleEnds
<1>4. PageUi(ui', Bulk(TRUE)' # {})
    <2>1. CASE m = TRUE
        BY <1>3, <2>1, PageParts DEF PageUi, Uis
    <2>2. CASE m = FALSE
        <3>1. Bulk(TRUE)' = Bulk(TRUE)
            BY <1>3, <2>2 DEF Bulk
        <3> QED
            BY <2>2, <3>1, PageParts
    <2> QED
        BY <2>1, <2>2
<1> QED
    BY <1>3, <1>4, PageParts, PageKept

-----------------------------------------------------------------------------
(* The page of the kubexes                                                 *)

LEMMA OffersAreOps == \A status : RowOffers(status) \subseteq Ops
BY DEF RowOffers, Ops

\* No step of the page of the kubexes leaves the invariant.
THEOREM ContainersStep == PageIInv /\ [ContainersNext]_listVars => PageIInv'
<1> SUFFICES ASSUME PageIInv, [ContainersNext]_listVars PROVE PageIInv'
    OBVIOUS
<1>0. /\ server \in [Ids -> Status] /\ list \in Lists
      /\ PageUi(ui, Bulk(TRUE) # {})
    BY PageParts
<1>1. CASE ListNext \/ Remount
    BY <1>1, ListNextKeeps, RemountKeeps
<1>2. ASSUME NEW i \in Ids, NEW op \in Ops, Ask(i, op) PROVE PageIInv'
    <2>1. ui' = [ui EXCEPT !.asking = [id |-> i, op |-> op]]
        BY <1>2 DEF Ask
    <2>2. PageUi(ui', Bulk(TRUE) # {})
        BY <1>0, <2>1 DEF PageUi, Uis
    <2> QED
        BY <1>0, <1>2, <2>2, PageStill DEF Ask
<1>3. ASSUME NEW i \in Ids, NEW op \in Ops, StartOrStop(i, op) PROVE PageIInv'
    <2>1. PageUi(ui', Bulk(TRUE) # {} \/ (FALSE /\ {i} # {}))
        BY <1>0, <1>3 DEF StartOrStop, PageUi, Uis
    <2>2. {i} \in SUBSET Ids /\ FALSE \in BOOLEAN /\ Called({i}, op, FALSE)
        BY <1>3 DEF StartOrStop
    <2> QED
        BY <1>3, <2>1, <2>2, ClickKeeps DEF StartOrStop
<1>4. CASE Confirm
    <2>1. ui.asking \in [id : Ids, op : Ops]
        BY <1>0, <1>4 DEF Confirm, PageUi
    <2>2. {ui.asking.id} \in SUBSET Ids /\ ui.asking.op \in Ops /\ FALSE \in BOOLEAN
          /\ Called({ui.asking.id}, ui.asking.op, FALSE)
        BY <1>4, <2>1 DEF Confirm
    <2>3. NoAsk \in [id : Ids \cup {NoId}, op : Ops \cup {"none"}]
        BY DEF NoAsk
    <2>4. ui' = [ui EXCEPT !.asking = NoAsk, !.busy = ui.asking.id]
        BY <1>4 DEF Confirm
    <2>5. PageUi(ui', Bulk(TRUE) # {} \/ (FALSE /\ {ui.asking.id} # {}))
        BY <1>0, <2>1, <2>3, <2>4 DEF PageUi, Uis
    <2> QED
        BY <1>4, <2>2, <2>5, ClickKeeps DEF Confirm
<1>5. CASE AskBulkKill
    <2>1. ui.selected # {}
        BY <1>5 DEF AskBulkKill, BulkOffers
    <2>2. PageUi(ui', Bulk(TRUE) # {})
        BY <1>0, <1>5, <2>1 DEF AskBulkKill, PageUi, Uis
    <2> QED
        BY <1>0, <1>5, <2>2, PageStill DEF AskBulkKill
<1>6. CASE BulkKill \/ BulkStart
    <2>1. PICK op \in Ops : Called(ui.selected, op, TRUE)
        BY <1>6 DEF BulkKill, BulkStart, Ops
    <2>2. ui.selected \in SUBSET Ids /\ ui.selected # {} /\ TRUE \in BOOLEAN
        BY <1>0, <1>6 DEF BulkKill, BulkStart, BulkOffers, PageUi, Uis
    <2>3. ui' \in {[ui EXCEPT !.bulkAsking = FALSE, !.bulkBusy = TRUE], [ui EXCEPT !.bulkBusy = TRUE]}
        BY <1>6 DEF BulkKill, BulkStart
    <2>4. ui'.bulkAsking = FALSE
        BY <1>0, <1>6 DEF BulkKill, BulkStart, Free, PageUi, Uis
    <2>5. PageUi(ui', Bulk(TRUE) # {} \/ (TRUE /\ ui.selected # {}))
        BY <1>0, <2>2, <2>3, <2>4 DEF PageUi, Uis
    <2> QED
        BY <1>6, <2>1, <2>2, <2>5, ClickKeeps DEF BulkKill, BulkStart
<1>7. ASSUME NEW c \in calls, RowAnswered(c) PROVE PageIInv'
    <2>1. list' \in Lists
        BY <1>0, <1>7, LoadAfterType DEF RowAnswered
    <2>2. PICK ok \in Heard({c}) : Settle({c}, ok, FALSE)
        BY <1>7 DEF RowAnswered
    <2>x. ok \in BOOLEAN /\ (ok => c.answer = "done")
        BY HeardTrue
    <2> QED
        BY <1>7, <2>1, <2>2, <2>x, OneEndsKeeps DEF RowAnswered
<1>8. ASSUME NEW m \in BOOLEAN, BulkAnswered(m) PROVE PageIInv'
    <2>1. list' \in Lists /\ TRUE \in BOOLEAN
        BY <1>0, <1>8, LoadAfterType DEF BulkAnswered
    <2> QED
        BY <1>8, <2>1, ManyEndKeeps DEF BulkAnswered
<1>9. CASE UNCHANGED listVars
    BY <1>0, <1>9, PageStill DEF listVars
<1> QED
    BY <1>1, <1>2, <1>3, <1>4, <1>5, <1>6, <1>7, <1>8, <1>9 DEF ContainersNext

\* Nothing that was served is taken back.
LEMMA ContainersServes ==
    ASSUME PageIInv, ContainersNext
    PROVE  told.served \subseteq told'.served
<1>0. told \in Toasts
    BY PageParts
<1>1. CASE ListNext
    BY <1>1, ListNextGrows DEF ToldGrows
<1>2. ASSUME NEW ended, NEW ok, NEW bulk, Settle(ended, ok, bulk)
      PROVE  told.served \subseteq told'.served
    BY <1>0, <1>2 DEF Settle, Toasts
<1>3. ASSUME NEW ids, NEW op, NEW bulk, Called(ids, op, bulk)
      PROVE  told.served \subseteq told'.served
    BY <1>0, <1>3 DEF Called, Toasts
<1> QED
    BY <1>1, <1>2, <1>3
    DEF ContainersNext, Remount, Ask, StartOrStop, Confirm, AskBulkKill, BulkKill, BulkStart,
        RowAnswered, BulkAnswered

LEMMA ListStarts == ListInit => PageIInv
<1> SUFFICES ASSUME ListInit PROVE PageIInv
    OBVIOUS
<1> DEFINE l == [shown |-> Nothing, get |-> "none", snap |-> Nothing,
                 waiting |-> FALSE, polling |-> FALSE]
<1>1. l \in Lists
    BY ClosedUiType DEF Lists
<1>2. list = Mount(l)
    BY DEF ListInit
<1> HIDE DEF l
<1>3. list \in Lists
    BY <1>1, <1>2, LoadType
<1>4. server \in [Ids -> Status]
    BY DEF ListInit, Status
<1>5. calls = {} /\ Bulk(TRUE) = {}
    BY DEF ListInit, Bulk
<1>6. told \in Toasts /\ ~told.ok
    BY MaxCallsAssumption DEF ListInit, NothingTold, Toasts
<1>7. PageUi(ui, Bulk(TRUE) # {})
    BY <1>5, ClosedUiType DEF ListInit, PageUi, ClosedUi
<1>8. DoneIsServed
    BY <1>5 DEF DoneIsServed
<1> QED
    BY <1>3, <1>4, <1>5, <1>6, <1>7, <1>8, PageParts

\* The invariant of the page of the kubexes, for any ids and number of clicks.
THEOREM ContainersInvariance == ContainersSpec => []PageIInv
BY ListStarts, ContainersStep, PTL DEF ContainersSpec

\* The page reports truly what became of one kubex, and is busy with a selection
\* exactly until the calls for it have been answered.
THEOREM TruePanel == ContainersSpec => []PanelReportsTruly
<1>1. PageIInv => PanelReportsTruly
    BY DEF PageIInv
<1> QED
    BY <1>1, ContainersInvariance, PTL

-----------------------------------------------------------------------------
(* The page of the agents                                                  *)

Forms == [at : {"closed", "idle", "submitting", "success", "error"},
          text : [Fields -> Texts], errors : SUBSET Fields]
Posts == [n : 1..MaxCalls, text : [Fields -> Texts],
          answer : {"pending", "done", "refused"}, mine : BOOLEAN]

\* What the registry has answered to have taken in, it has.
TakenIsServed == \A p \in posts : p.answer = "done" => <<p.n, NoId>> \in told.served

\* A form that is edited, and the registrations in flight with it.
FormIInv ==
    /\ form \in Forms /\ posts \subseteq Posts
    /\ RegistrationIsSound
    /\ TakenIsServed

AgentsIInv == PageIInv /\ row \in Ids \cup {NoId} /\ FormIInv

LEMMA ClosedFormType == ClosedForm \in Forms /\ EmptyFields \in [Fields -> Texts]
<1>1. EmptyFields \in [Fields -> Texts]
    BY DEF EmptyFields, Texts
<1> QED
    BY <1>1 DEF ClosedForm, Forms

\* Neither the form nor a registration is touched by the rest of the page.
LEMMA FormStill ==
    ASSUME FormIInv, UNCHANGED <<form, posts>>, told.served \subseteq told'.served
    PROVE  FormIInv'
BY DEF FormIInv, RegistrationIsSound, FormWaitsForPost, PostsAreValid, TakenIsServed

\* Editing, opening and closing the form while nothing is submitted.
LEMMA FormEdited ==
    ASSUME FormIInv, posts' = posts, form' \in Forms, told' = told,
           form.at # "submitting", form'.at # "submitting",
           \A f \in form'.errors : ~Valid(f, form'.text[f])
    PROVE  FormIInv'
BY DEF FormIInv, RegistrationIsSound, FormWaitsForPost, PostsAreValid, TakenIsServed

\* Submitting sends one registration, and only one that is valid.
LEMMA SubmitKeeps ==
    ASSUME FormIInv, told \in Toasts, Submit
    PROVE  FormIInv' /\ ToldGrows
<1>0. form \in Forms /\ posts \subseteq Posts /\ form.at # "submitting"
    BY DEF FormIInv, Submit, Editable
<1>1. CASE Invalid # {}
    <2>1. form' = [form EXCEPT !.errors = Invalid] /\ posts' = posts /\ told' = told
        BY <1>1 DEF Submit
    <2>2. Invalid \in SUBSET Fields
        BY DEF Invalid
    <2>3. form' \in Forms /\ form'.at # "submitting" /\ form'.errors = Invalid
          /\ form'.text = form.text
        BY <1>0, <2>1, <2>2 DEF Forms
    <2>4. \A f \in form'.errors : ~Valid(f, form'.text[f])
        BY <2>3 DEF Invalid
    <2> QED
        BY <1>0, <2>1, <2>3, <2>4, FormEdited, SameGrows
<1>2. CASE Invalid = {}
    <2> DEFINE p == [n |-> told.clicks + 1, text |-> form.text, answer |-> "pending",
                     mine |-> TRUE]
    <2>1. /\ told.clicks < MaxCalls
          /\ told' = [told EXCEPT !.clicks = told.clicks + 1]
          /\ form' = [form EXCEPT !.at = "submitting", !.errors = {}]
          /\ posts' = posts \cup {p}
        BY <1>2 DEF Submit
    <2>2. told.clicks + 1 \in 1..MaxCalls
        BY <2>1, MaxCallsAssumption DEF Toasts
    <2>3. p \in Posts /\ p.mine /\ p.text = form.text /\ p.answer = "pending"
        BY <1>0, <2>2 DEF Forms, Posts
    <2>4. form' \in Forms /\ form'.at = "submitting" /\ form'.errors = {}
        BY <1>0, <2>1 DEF Forms
    <2>5. \A f \in Fields : Valid(f, form.text[f])
        BY <1>2 DEF Invalid
    <2> HIDE DEF p
    <2>6. \A r \in posts : ~r.mine
        BY <1>0 DEF FormIInv, RegistrationIsSound, FormWaitsForPost
    <2>7. FormWaitsForPost'
        BY <2>1, <2>3, <2>4, <2>6 DEF FormWaitsForPost
    <2>8. PostsAreValid'
        BY <2>1, <2>3, <2>4, <2>5 DEF FormIInv, RegistrationIsSound, PostsAreValid
    <2>9. ToldGrows
        BY <2>1, <2>2, MaxCallsAssumption DEF Toasts, ToldGrows
    <2>10. TakenIsServed'
        BY <2>1, <2>3, <2>9 DEF FormIInv, TakenIsServed, ToldGrows
    <2> QED
        BY <1>0, <2>1, <2>3, <2>4, <2>7, <2>8, <2>9, <2>10 DEF FormIInv, RegistrationIsSound
<1> QED
    BY <1>1, <1>2

\* The registry's answer is that of the registration it is given.
LEMMA ServePostKeeps ==
    ASSUME FormIInv, NEW p \in posts, ServePost(p), server \in [Ids -> Status],
           told \in Toasts
    PROVE  FormIInv' /\ server' \in [Ids -> Status] /\ ToldGrows
<1>0. form \in Forms /\ posts \subseteq Posts /\ p \in Posts
    BY DEF FormIInv
<1>1. PICK answer \in {"done", "refused"} :
          /\ posts' = (posts \ {p}) \cup {[p EXCEPT !.answer = answer]}
          /\ told' = IF answer = "done"
                     THEN [told EXCEPT !.served = told.served \cup {<<p.n, NoId>>}] ELSE told
    BY DEF ServePost
<1> DEFINE r == [p EXCEPT !.answer = answer]
<1>2. r \in Posts /\ r.mine = p.mine /\ r.text = p.text /\ r.n = p.n /\ r.answer = answer
    BY <1>0 DEF Posts
<1>3. posts' = (posts \ {p}) \cup {r} /\ form' = form
    BY <1>1 DEF ServePost
<1> HIDE DEF r
<1>4. FormWaitsForPost'
    <2>1. form.at = "submitting" <=> \E q \in posts : q.mine
        BY DEF FormIInv, RegistrationIsSound, FormWaitsForPost
    <2>2. \A q, s \in posts : q.mine /\ s.mine => q = s
        BY DEF FormIInv, RegistrationIsSound, FormWaitsForPost
    <2>3. (\E q \in posts' : q.mine) <=> \E q \in posts : q.mine
        BY <1>2, <1>3
    <2>4. \A q, s \in posts' : q.mine /\ s.mine => q = s
        BY <1>2, <1>3, <2>2
    <2> QED
        BY <1>3, <2>1, <2>3, <2>4 DEF FormWaitsForPost
<1>5. PostsAreValid'
    BY <1>2, <1>3 DEF FormIInv, RegistrationIsSound, PostsAreValid
<1>6. server' \in [Ids -> Status]
    BY DEF ServePost, Status
<1>7. ToldGrows /\ (answer = "done" => <<p.n, NoId>> \in told'.served)
    <2>1. CASE answer = "done"
        <3> DEFINE now == told.served \cup {<<p.n, NoId>>}
        <3>1. now \in SUBSET CallNames
            BY <1>0 DEF Toasts, Posts, CallNames
        <3>2. told' = [told EXCEPT !.served = now]
            BY <1>1, <2>1
        <3>3. told.served \subseteq now /\ <<p.n, NoId>> \in now
            OBVIOUS
        <3> HIDE DEF now
        <3> QED
            BY <3>1, <3>2, <3>3 DEF Toasts, ToldGrows
    <2>2. CASE answer = "refused"
        BY <1>1, <2>2, SameGrows
    <2> QED
        BY <2>1, <2>2
<1>8. TakenIsServed'
    BY <1>2, <1>3, <1>7 DEF FormIInv, TakenIsServed, ToldGrows
<1> QED
    BY <1>0, <1>2, <1>3, <1>4, <1>5, <1>6, <1>7, <1>8 DEF FormIInv, RegistrationIsSound

\* The rest of handleSubmit shows the outcome of the registration waited for.
LEMMA SubmittedKeeps ==
    ASSUME FormIInv, told \in Toasts, list \in Lists, NEW p \in posts, Submitted(p)
    PROVE  /\ FormIInv' /\ told' \in Toasts /\ list' \in Lists
           /\ told'.served = told.served
           /\ told'.ok => AllWasDone'
<1>0. form \in Forms /\ posts \subseteq Posts
    BY DEF FormIInv
<1>1. PICK ok \in Heard({p}) :
      /\ form' = IF p.mine THEN [form EXCEPT !.at = IF ok THEN "success" ELSE "error"] ELSE form
      /\ told' = [told EXCEPT !.ok = ok, !.bulk = FALSE, !.about = {<<p.n, NoId>>}]
      /\ list' = IF ~ok THEN list ELSE LoadAfter({p})
    BY DEF Submitted
<1>a. posts' = posts \ {p}
    BY DEF Submitted
<1>2. ok \in BOOLEAN /\ (ok => p.answer = "done")
    BY HeardTrue
<1>b. {<<p.n, NoId>>} \in SUBSET CallNames
    BY <1>0 DEF Posts, CallNames
<1>3. /\ told' \in Toasts /\ told'.served = told.served
      /\ told'.ok = ok /\ told'.about = {<<p.n, NoId>>}
    BY <1>1, <1>2, <1>b DEF Toasts
<1>c. told'.ok => AllWasDone'
    BY <1>2, <1>3 DEF FormIInv, TakenIsServed, AllWasDone
<1>4. list' \in Lists
    BY <1>1, LoadAfterType
<1>5. form' \in Forms /\ form'.text = form.text /\ form'.errors = form.errors
      /\ (p.mine => form'.at # "submitting") /\ (~p.mine => form' = form)
    BY <1>0, <1>1 DEF Forms
<1>6. FormWaitsForPost'
    <2>1. form.at = "submitting" <=> \E q \in posts : q.mine
        BY DEF FormIInv, RegistrationIsSound, FormWaitsForPost
    <2>2. \A q, s \in posts : q.mine /\ s.mine => q = s
        BY DEF FormIInv, RegistrationIsSound, FormWaitsForPost
    <2>3. form'.at = "submitting" <=> \E q \in posts' : q.mine
        BY <1>a, <1>5, <2>1, <2>2
    <2> QED
        BY <1>a, <2>2, <2>3 DEF FormWaitsForPost
<1>7. PostsAreValid'
    BY <1>a, <1>5 DEF FormIInv, RegistrationIsSound, PostsAreValid
<1>8. TakenIsServed'
    BY <1>a, <1>3 DEF FormIInv, TakenIsServed
<1> QED
    BY <1>0, <1>a, <1>c, <1>3, <1>4, <1>5, <1>6, <1>7, <1>8 DEF FormIInv, RegistrationIsSound

\* The page is left: its form is gone, and nothing is waited for.
LEMMA FormLeft ==
    ASSUME FormIInv, told' = told, form' = ClosedForm,
           posts' = {[p EXCEPT !.mine = FALSE] : p \in posts}
    PROVE  FormIInv'
<1> DEFINE Left(p) == [p EXCEPT !.mine = FALSE]
<1>0. posts \subseteq Posts
    BY DEF FormIInv
<1>1. \A p \in Posts : /\ Left(p) \in Posts /\ ~Left(p).mine /\ Left(p).text = p.text
                       /\ Left(p).n = p.n /\ Left(p).answer = p.answer
    BY DEF Posts
<1>2. posts' = {Left(p) : p \in posts}
    OBVIOUS
<1> HIDE DEF Left
<1>3. posts' \subseteq Posts /\ \A q \in posts' : ~q.mine
    BY <1>0, <1>1, <1>2
<1>4. ClosedForm.at = "closed" /\ ClosedForm.errors = {}
    BY DEF ClosedForm
<1>5. FormWaitsForPost'
    BY <1>3, <1>4 DEF FormWaitsForPost
<1>6. PostsAreValid'
    BY <1>0, <1>1, <1>2, <1>4 DEF FormIInv, RegistrationIsSound, PostsAreValid
<1>7. TakenIsServed'
    BY <1>0, <1>1, <1>2 DEF FormIInv, TakenIsServed
<1> QED
    BY <1>3, <1>5, <1>6, <1>7, ClosedFormType DEF FormIInv, RegistrationIsSound

\* No step of the page of the agents leaves the invariant, nor reports as done
\* what was not.
THEOREM AgentsStep ==
    /\ AgentsIInv /\ [AgentsNext]_agentsVars => AgentsIInv'
    /\ AgentsIInv /\ SuccessIsTrue /\ [AgentsNext]_agentsVars => SuccessIsTrue'
<1> SUFFICES ASSUME AgentsIInv, [AgentsNext]_agentsVars
             PROVE  AgentsIInv' /\ (SuccessIsTrue => SuccessIsTrue')
    OBVIOUS
<1> DEFINE Goal == AgentsIInv' /\ (SuccessIsTrue => SuccessIsTrue')
<1>0. /\ PageIInv /\ FormIInv /\ row \in Ids \cup {NoId}
      /\ server \in [Ids -> Status] /\ list \in Lists /\ told \in Toasts
      /\ calls \subseteq Calls /\ PageUi(ui, Bulk(TRUE) # {})
    BY PageParts DEF AgentsIInv
<1>a. ASSUME ToldGrows
      PROVE  told.served \subseteq told'.served /\ (SuccessIsTrue => SuccessIsTrue')
    BY <1>a, GrowsKeepsTrue DEF ToldGrows, SuccessIsTrue
<1>b. ASSUME told' = told PROVE ToldGrows /\ told.served \subseteq told'.served
    BY <1>0, <1>b, SameGrows
<1>1. CASE ListNext /\ UNCHANGED <<row, form, posts>>
    <2>1. ToldGrows /\ PageIInv'
        BY <1>0, <1>1, ListNextGrows, ListNextKeeps
    <2> QED
        BY <1>0, <1>1, <1>a, <2>1, FormStill DEF AgentsIInv
<1>2. CASE RemountAgents
    <2>1. told' = told /\ row' = NoId
        BY <1>2 DEF RemountAgents, Remount
    <2> QED
        BY <1>0, <1>2, <1>a, <1>b, <2>1, RemountKeeps, FormLeft DEF RemountAgents, AgentsIInv
<1>3. ASSUME NEW i \in Ids, AskDeregister(i) PROVE Goal
    <2>1. PageUi(ui', Bulk(TRUE) # {})
        BY <1>0, <1>3 DEF AskDeregister, PageUi, Uis, Ops
    <2> QED
        BY <1>0, <1>3, <1>a, <1>b, <2>1, PageStill, FormStill DEF AskDeregister, AgentsIInv
<1>4. ASSUME NEW i \in Ids, ToggleRow(i) PROVE Goal
    <2>1. UNCHANGED listVars /\ row' \in Ids \cup {NoId} /\ UNCHANGED <<form, posts>>
        BY <1>4 DEF ToggleRow
    <2> QED
        BY <1>0, <1>a, <1>b, <2>1, PageStill, FormStill DEF listVars, AgentsIInv
<1>5. ASSUME NEW i \in Ids, Appears(i) PROVE Goal
    <2>1. server' \in [Ids -> Status]
        BY <1>0, <1>5 DEF Appears, Status
    <2> QED
        BY <1>0, <1>5, <1>a, <1>b, <2>1, PageStill, FormStill DEF Appears, AgentsIInv
<1>6. CASE Deregister
    <2>1. ui.asking \in [id : Ids, op : Ops]
        BY <1>0, <1>6 DEF Deregister, PageUi
    <2>2. {ui.asking.id} \in SUBSET Ids /\ "delete" \in Ops /\ FALSE \in BOOLEAN
          /\ Called({ui.asking.id}, "delete", FALSE)
        BY <1>6, <2>1 DEF Deregister, Ops
    <2>3. NoAsk \in [id : Ids \cup {NoId}, op : Ops \cup {"none"}]
        BY DEF NoAsk
    <2>4. ui' = [ui EXCEPT !.asking = NoAsk, !.busy = ui.asking.id]
        BY <1>6 DEF Deregister
    <2>5. PageUi(ui', Bulk(TRUE) # {} \/ (FALSE /\ {ui.asking.id} # {}))
        BY <1>0, <2>1, <2>3, <2>4 DEF PageUi, Uis
    <2>6. PageIInv' /\ ToldGrows
        BY <1>0, <1>6, <2>2, <2>5, ClickKeeps DEF Deregister
    <2> QED
        BY <1>0, <1>6, <1>a, <2>6, FormStill DEF Deregister, AgentsIInv
<1>7. CASE AskBulkDeregister
    <2>1. PageUi(ui', Bulk(TRUE) # {})
        BY <1>0, <1>7 DEF AskBulkDeregister, PageUi, Uis
    <2> QED
        BY <1>0, <1>7, <1>a, <1>b, <2>1, PageStill, FormStill DEF AskBulkDeregister, AgentsIInv
<1>8. CASE BulkDeregister
    <2>1. ui.selected \in SUBSET Ids /\ ui.selected # {} /\ TRUE \in BOOLEAN /\ "delete" \in Ops
          /\ Called(ui.selected, "delete", TRUE)
        BY <1>0, <1>8 DEF BulkDeregister, PageUi, Uis, Ops
    <2>2. PageUi(ui', Bulk(TRUE) # {} \/ (TRUE /\ ui.selected # {}))
        BY <1>0, <1>8, <2>1 DEF BulkDeregister, PageUi, Uis
    <2>3. PageIInv' /\ ToldGrows
        BY <1>0, <1>8, <2>1, <2>2, ClickKeeps DEF BulkDeregister
    <2> QED
        BY <1>0, <1>8, <1>a, <2>3, FormStill DEF BulkDeregister, AgentsIInv
<1>9. ASSUME NEW c \in calls, Deregistered(c) PROVE Goal
    <2>1. list' \in Lists
        BY <1>0, <1>9, LoadAfterType DEF Deregistered
    <2>a. PICK ok \in Heard({c}) : Settle({c}, ok, FALSE)
        BY <1>9 DEF Deregistered
    <2>x. ok \in BOOLEAN /\ (ok => c.answer = "done")
        BY HeardTrue
    <2>2. PageIInv' /\ told'.served = told.served /\ (told'.ok => AllWasDone')
        BY <1>0, <1>9, <2>1, <2>a, <2>x, OneEndsKeeps DEF Deregistered
    <2> QED
        BY <1>0, <1>9, <2>2, FormStill DEF Deregistered, AgentsIInv, SuccessIsTrue
<1>10. ASSUME NEW m \in BOOLEAN, BulkDeregistered(m) PROVE Goal
    <2>1. BulkCalls(m) = Bulk(m)
        BY DEF BulkCalls, Bulk
    <2>2. list' \in Lists
        BY <1>0, <1>10, LoadAfterType DEF BulkDeregistered
    <2>a. PICK ok \in Heard(Bulk(m)) : Settle(Bulk(m), ok, TRUE)
        BY <1>10, <2>1 DEF BulkDeregistered
    <2>3. ok \in BOOLEAN /\ (ok => \A c \in Bulk(m) : c.answer = "done")
        BY HeardTrue
    <2>4. /\ Bulk(m) # {} /\ server' = server
          /\ ui' = IF m THEN [ui EXCEPT !.selected = {}, !.bulkBusy = FALSE] ELSE ui
          /\ UNCHANGED <<row, form, posts>>
        BY <1>10, <2>1 DEF BulkDeregistered
    <2>5. PageIInv' /\ told'.served = told.served /\ (told'.ok => AllWasDone')
        BY <1>0, <2>2, <2>a, <2>3, <2>4, ManyEndKeeps
    <2> QED
        BY <1>0, <2>4, <2>5, FormStill DEF AgentsIInv, SuccessIsTrue
<1>11. CASE \/ OpenForm \/ CloseForm
            \/ \E f \in Fields : LeaveField(f) \/ \E text \in Texts : TypeField(f, text)
    <2>1. UNCHANGED <<listVars, row, posts>>
        BY <1>11 DEF OpenForm, CloseForm, LeaveField, TypeField
    <2>2. form \in Forms /\ \A f \in form.errors : ~Valid(f, form.text[f])
        BY <1>0 DEF FormIInv, RegistrationIsSound, PostsAreValid
    <2>3. /\ form' \in Forms /\ form.at # "submitting" /\ form'.at # "submitting"
          /\ \A f \in form'.errors : ~Valid(f, form'.text[f])
        <3>1. CASE OpenForm
            BY <3>1, ClosedFormType DEF OpenForm, PageFree, ClosedForm, Forms
        <3>2. CASE CloseForm
            BY <2>2, <3>2 DEF CloseForm, Forms
        <3>3. ASSUME NEW f \in Fields, LeaveField(f)
              PROVE  /\ form' \in Forms /\ form.at # "submitting" /\ form'.at # "submitting"
                     /\ \A g \in form'.errors : ~Valid(g, form'.text[g])
            <4>1. PICK e \in {form.errors \ {f}, form.errors \cup {f}} :
                      /\ form' = [form EXCEPT !.errors = e]
                      /\ Valid(f, form.text[f]) => e = form.errors \ {f}
                BY <3>3 DEF LeaveField
            <4>2. e \in SUBSET Fields
                BY <2>2, <4>1 DEF Forms
            <4>3. form' \in Forms /\ form'.at = form.at /\ form'.text = form.text
                  /\ form'.errors = e
                BY <2>2, <4>1, <4>2 DEF Forms
            <4> QED
                BY <2>2, <3>3, <4>1, <4>3 DEF LeaveField, Editable
        <3>4. ASSUME NEW f \in Fields, NEW text \in Texts, TypeField(f, text)
              PROVE  /\ form' \in Forms /\ form.at # "submitting" /\ form'.at # "submitting"
                     /\ \A g \in form'.errors : ~Valid(g, form'.text[g])
            <4>1. PICK e \in {form.errors \ {f}, form.errors \cup {f}} :
                      /\ form' = [form EXCEPT !.text[f] = text, !.errors = e]
                      /\ f \in e => text = "bad"
                BY <3>4 DEF TypeField
            <4>2. e \in SUBSET Fields
                BY <2>2, <4>1 DEF Forms
            <4>3. form' \in Forms /\ form'.at = form.at /\ form'.errors = e
                  /\ form'.text = [form.text EXCEPT ![f] = text]
                BY <2>2, <4>1, <4>2 DEF Forms
            <4>4. ~Valid(f, "bad")
                BY DEF Valid
            <4>5. \A g \in e : g # f => g \in form.errors /\ form'.text[g] = form.text[g]
                BY <2>2, <4>1, <4>2, <4>3 DEF Forms
            <4>6. form'.text[f] = text
                BY <2>2, <4>3 DEF Forms
            <4> QED
                BY <2>2, <3>4, <4>1, <4>3, <4>4, <4>5, <4>6 DEF TypeField, Editable
        <3> QED
            BY <1>11, <3>1, <3>2, <3>3, <3>4
    <2>4. FormIInv' /\ PageIInv'
        BY <1>0, <2>1, <2>3, FormEdited, PageStill DEF listVars
    <2> QED
        BY <1>0, <1>a, <1>b, <2>1, <2>4 DEF listVars, AgentsIInv
<1>12. CASE Submit
    <2>1. FormIInv' /\ ToldGrows
        BY <1>0, <1>12, SubmitKeeps
    <2>2. UNCHANGED <<server, list, ui, calls, row>>
        BY <1>12 DEF Submit
    <2>3. Bulk(TRUE)' = Bulk(TRUE) /\ DoneIsServed'
        BY <1>0, <2>1, <2>2, PageParts DEF Bulk, DoneIsServed, ToldGrows
    <2>4. PageIInv'
        BY <1>0, <2>1, <2>2, <2>3, PageGrows
    <2> QED
        BY <1>0, <1>a, <2>1, <2>2, <2>4 DEF AgentsIInv
<1>13. ASSUME NEW p \in posts, ServePost(p) PROVE Goal
    <2>1. FormIInv' /\ server' \in [Ids -> Status] /\ ToldGrows
        BY <1>0, <1>13, ServePostKeeps
    <2>2. UNCHANGED <<list, ui, calls, row>>
        BY <1>13 DEF ServePost
    <2>3. Bulk(TRUE)' = Bulk(TRUE) /\ DoneIsServed'
        BY <1>0, <2>1, <2>2, PageParts DEF Bulk, DoneIsServed, ToldGrows
    <2>4. PageIInv'
        BY <1>0, <2>1, <2>2, <2>3, PageGrows
    <2> QED
        BY <1>0, <1>a, <2>1, <2>2, <2>4 DEF AgentsIInv
<1>14. ASSUME NEW p \in posts, Submitted(p) PROVE Goal
    <2>1. /\ FormIInv' /\ told' \in Toasts /\ list' \in Lists
          /\ told'.served = told.served /\ (told'.ok => AllWasDone')
        BY <1>0, <1>14, SubmittedKeeps
    <2>2. UNCHANGED <<server, ui, calls, row>>
        BY <1>14 DEF Submitted
    <2>3. Bulk(TRUE)' = Bulk(TRUE) /\ DoneIsServed'
        BY <1>0, <2>1, <2>2, PageParts DEF Bulk, DoneIsServed
    <2>4. PageIInv'
        BY <1>0, <2>1, <2>2, <2>3, PageKept
    <2> QED
        BY <1>0, <2>1, <2>2, <2>4 DEF AgentsIInv, SuccessIsTrue
<1>15. CASE UNCHANGED agentsVars
    <2>1. UNCHANGED <<server, list, ui, calls, told, row, form, posts>>
        BY <1>15 DEF agentsVars, listVars
    <2> QED
        BY <1>0, <1>a, <1>b, <2>1, PageStill, FormStill DEF AgentsIInv
<1> QED
    BY <1>1, <1>2, <1>3, <1>4, <1>5, <1>6, <1>7, <1>8, <1>9, <1>10, <1>11, <1>12, <1>13,
       <1>14, <1>15 DEF AgentsNext

LEMMA FormStarts == form = ClosedForm /\ posts = {} => FormIInv
BY ClosedFormType DEF FormIInv, RegistrationIsSound, FormWaitsForPost, PostsAreValid, ClosedForm,
                          TakenIsServed

\* The invariant of the page of the agents, for any ids and number of clicks.
THEOREM AgentsInvariance == AgentsSpec => [](AgentsIInv /\ SuccessIsTrue)
<1>1. AgentsInit => AgentsIInv /\ SuccessIsTrue
    BY ListStarts, FormStarts DEF AgentsInit, AgentsIInv, SuccessIsTrue, ListInit, NothingTold
<1> QED
    BY <1>1, AgentsStep, PTL DEF AgentsSpec

\* The dialog shows the registration it waits for, and nothing wrong is sent.
THEOREM SoundRegistration == AgentsSpec => []RegistrationIsSound
<1>1. AgentsIInv => RegistrationIsSound
    BY DEF AgentsIInv, FormIInv
<1> QED
    BY <1>1, AgentsInvariance, PTL

\* Whatever the page of the agents says was deregistered or registered was: one
\* agent, or each of many.
THEOREM TrueSuccess == AgentsSpec => []SuccessIsTrue
BY AgentsInvariance, PTL

-----------------------------------------------------------------------------
(* The menu of the header                                                  *)

\* No step of the menu leaves the invariant, as it makes no calls in bulk.
LEMMA QuickKeeps ==
    ASSUME PageIInv, \A c \in calls : ~c.bulk, menu \in BOOLEAN, QuickNext
    PROVE  /\ PageIInv' /\ (\A c \in calls : ~c.bulk)' /\ menu' \in BOOLEAN
           /\ told.served \subseteq told'.served
<1>0. /\ server \in [Ids -> Status] /\ list \in Lists /\ told \in Toasts
      /\ calls \subseteq Calls /\ PageUi(ui, Bulk(TRUE) # {})
    BY PageParts
<1>1. CASE OpenMenu \/ CloseQuickMenu
    <2>1. list' \in Lists
        <3>1. CASE OpenMenu
            BY <1>0, <3>1, LoadType DEF OpenMenu
        <3>2. CASE CloseQuickMenu
            BY <1>0, <3>2 DEF CloseQuickMenu, Lists
        <3> QED
            BY <1>1, <3>1, <3>2
    <2> QED
        BY <1>0, <1>1, <2>1, PageStill DEF OpenMenu, CloseQuickMenu
<1>2. CASE (ServeGet \/ GetAnswered \/ GetFailed) /\ UNCHANGED menu
    <2>1. calls' = calls
        BY <1>2 DEF ServeGet, GetAnswered, GetFailed
    <2> QED
        BY <1>2, <2>1, ListNextKeeps, ListNextGrows DEF ListNext, ToldGrows
<1>3. ASSUME NEW c \in calls, Serve(c), UNCHANGED menu
      PROVE  /\ PageIInv' /\ (\A d \in calls : ~d.bulk)' /\ menu' \in BOOLEAN
             /\ told.served \subseteq told'.served
    <2>1. PageIInv' /\ ToldGrows
        BY <1>3, ListNextKeeps, ListNextGrows DEF ListNext
    <2>2. PICK answer \in {"done", "refused"} :
              calls' = (calls \ {c}) \cup (IF c.waited THEN {[c EXCEPT !.answer = answer]} ELSE {})
        BY <1>3 DEF Serve
    <2>3. ~[c EXCEPT !.answer = answer].bulk
        BY <1>0 DEF Calls
    <2> QED
        BY <1>3, <2>1, <2>2, <2>3 DEF ToldGrows
<1>4. ASSUME NEW i \in Ids, NEW op \in {"kill", "start"}, QuickClick(i, op)
      PROVE  /\ PageIInv' /\ (\A d \in calls : ~d.bulk)' /\ menu' \in BOOLEAN
             /\ told.served \subseteq told'.served
    <2>1. {i} \in SUBSET Ids /\ op \in Ops /\ FALSE \in BOOLEAN /\ Called({i}, op, FALSE)
        BY <1>4 DEF QuickClick, Ops
    <2>2. PageUi(ui', Bulk(TRUE) # {} \/ (FALSE /\ {i} # {}))
        BY <1>0, <1>4 DEF QuickClick, PageUi, Uis
    <2>3. PageIInv' /\ ToldGrows
        BY <1>4, <2>1, <2>2, ClickKeeps DEF QuickClick
    <2>4. \A d \in calls' : ~d.bulk
        BY <2>1 DEF Called
    <2> QED
        BY <1>4, <2>3, <2>4 DEF QuickClick, ToldGrows
<1>5. ASSUME NEW c \in calls, QuickAnswered(c)
      PROVE  /\ PageIInv' /\ (\A d \in calls : ~d.bulk)' /\ menu' \in BOOLEAN
             /\ told.served \subseteq told'.served
    <2>1. list' \in Lists
        <3>1. c.id \in Ids /\ c.to \in Status
            BY <1>0 DEF Calls
        <3>2. [list EXCEPT !.shown[c.id] = c.to] \in Lists
            BY <1>0, <3>1 DEF Lists
        <3> QED
            BY <1>0, <1>5, <3>2 DEF QuickAnswered
    <2>a. PICK ok \in Heard({c}) : Settle({c}, ok, FALSE)
        BY <1>5 DEF QuickAnswered
    <2>x. ok \in BOOLEAN /\ (ok => c.answer = "done")
        BY HeardTrue
    <2>2. PageIInv' /\ told'.served = told.served
        BY <1>0, <1>5, <2>1, <2>a, <2>x, OneEndsKeeps DEF QuickAnswered
    <2>3. \A d \in calls' : ~d.bulk
        <3> DEFINE Late(d) == [d EXCEPT !.waited = FALSE, !.mine = FALSE, !.bulk = FALSE]
        <3>1. calls' = (calls \ {c}) \cup {Late(d) : d \in {e \in {c} : e.answer = "pending"}}
            BY <1>5 DEF QuickAnswered, Settle
        <3>2. ~Late(c).bulk
            BY <1>0 DEF Calls
        <3> HIDE DEF Late
        <3> QED
            BY <3>1, <3>2
    <2> QED
        BY <1>5, <2>2, <2>3 DEF QuickAnswered
<1> QED
    BY <1>1, <1>2, <1>3, <1>4, <1>5 DEF QuickNext

-----------------------------------------------------------------------------
(* All of them, as they are checked                                        *)

FleetIInv ==
    /\ part \in {"containers", "agents", "register", "quick", "row"}
    /\ AgentsIInv
    /\ menu \in BOOLEAN
    /\ RowIInv
    /\ part = "quick" => \A c \in calls : ~c.bulk
    /\ part \in {"agents", "register"} => SuccessIsTrue

LEMMA FleetStarts == Init => FleetIInv
<1> SUFFICES ASSUME Init PROVE FleetIInv
    OBVIOUS
<1>1. CASE part = "quick"
    <2>1. QuickInit /\ row = NoId /\ form = ClosedForm /\ posts = {}
        BY <1>1 DEF Init
    <2>2. list \in Lists /\ server \in [Ids -> Status]
        BY <2>1, ClosedUiType DEF QuickInit, Lists, Status
    <2>3. calls = {} /\ Bulk(TRUE) = {}
        BY <2>1 DEF QuickInit, Bulk
    <2>4. told \in Toasts /\ ~told.ok
        BY <2>1, MaxCallsAssumption DEF QuickInit, NothingTold, Toasts
    <2>5. PageUi(ui, Bulk(TRUE) # {})
        BY <2>1, <2>3, ClosedUiType DEF QuickInit, PageUi, ClosedUi
    <2>6. PageIInv
        BY <2>2, <2>3, <2>4, <2>5, PageParts DEF DoneIsServed
    <2> QED
        BY <1>1, <2>1, <2>3, <2>6, FormStarts, RowStarts DEF Init, QuickInit, FleetIInv, AgentsIInv
<1>2. CASE part # "quick"
    <2>1. AgentsInit /\ menu = FALSE
        BY <1>2 DEF Init
    <2>2. AgentsIInv /\ SuccessIsTrue
        BY <2>1, ListStarts, FormStarts
        DEF AgentsInit, AgentsIInv, SuccessIsTrue, ListInit, NothingTold
    <2> QED
        BY <1>2, <2>1, <2>2, RowStarts DEF Init, FleetIInv
<1> QED
    BY <1>1, <1>2

LEMMA FleetKeeps == FleetIInv /\ [Next]_vars => FleetIInv'
<1> SUFFICES ASSUME FleetIInv, [Next]_vars PROVE FleetIInv'
    OBVIOUS
<1>0. AgentsIInv /\ PageIInv /\ FormIInv /\ row \in Ids \cup {NoId} /\ RowIInv
    BY DEF FleetIInv, AgentsIInv
<1>1. CASE part = "containers" /\ ContainersNext
           /\ UNCHANGED <<part, row, form, posts, menu, rowVars>>
    <2>1. PageIInv' /\ RowIInv' /\ told.served \subseteq told'.served
        BY <1>0, <1>1, ContainersStep, ContainersServes, RowStep
    <2> QED
        BY <1>0, <1>1, <2>1, FormStill DEF FleetIInv, AgentsIInv
<1>2. CASE part \in {"agents", "register"} /\ AgentsNext /\ UNCHANGED <<part, menu, rowVars>>
    <2>1. AgentsIInv' /\ SuccessIsTrue' /\ RowIInv'
        BY <1>0, <1>2, AgentsStep, RowStep DEF FleetIInv
    <2> QED
        BY <1>2, <2>1 DEF FleetIInv
<1>3. CASE part = "quick" /\ QuickNext /\ UNCHANGED <<part, row, form, posts, rowVars>>
    <2>1. /\ PageIInv' /\ (\A c \in calls : ~c.bulk)' /\ menu' \in BOOLEAN
          /\ told.served \subseteq told'.served
        BY <1>0, <1>3, QuickKeeps DEF FleetIInv
    <2>2. RowIInv'
        BY <1>0, <1>3, RowStep
    <2> QED
        BY <1>0, <1>3, <2>1, <2>2, FormStill DEF FleetIInv, AgentsIInv
<1>4. CASE [RowNext]_rowVars /\ UNCHANGED <<part, pageVars>>
    <2>1. RowIInv'
        BY <1>0, <1>4, RowStep
    <2>2. AgentsIInv' /\ (SuccessIsTrue => SuccessIsTrue') /\ UNCHANGED <<menu, calls>>
        BY <1>0, <1>4, AgentsStep DEF pageVars, agentsVars, listVars
    <2> QED
        BY <1>4, <2>1, <2>2 DEF FleetIInv
<1>5. CASE UNCHANGED vars
    BY <1>4, <1>5 DEF vars
<1> QED
    BY <1>1, <1>2, <1>3, <1>4, <1>5 DEF Next

\* The pages, the menu and a row keep the invariant in every behavior that is
\* checked, for any ids and number of clicks and of retries.
THEOREM FleetInvariance == Spec => []FleetIInv
BY FleetStarts, FleetKeeps, PTL DEF Spec

\* Every variable of the pages and of the row has its type.
THEOREM FleetTypes == Spec => []FleetTypeOK
<1>1. FleetIInv => FleetTypeOK
    BY DEF FleetIInv, AgentsIInv, PageIInv, FormIInv, RowIInv, FleetTypeOK, AgentsTypeOK,
           Forms, Posts
<1> QED
    BY <1>1, FleetInvariance, PTL

\* What the pages report as done has been done, and a page is busy with one
\* selection exactly until the calls for it have been answered.
THEOREM TrueReports == Spec => []ReportsAreTrue
<1>1. FleetIInv => ReportsAreTrue
    BY DEF FleetIInv, AgentsIInv, PageIInv, ReportsAreTrue
<1> QED
    BY <1>1, FleetInvariance, PTL

\* And of the registration and the row, what is proved of each by itself.
THEOREM FleetKeepsPromises == Spec => [](RegistrationIsSound /\ FollowedOrFailed)
<1>1. FleetIInv => RegistrationIsSound /\ FollowedOrFailed
    BY DEF FleetIInv, AgentsIInv, FormIInv, RowIInv
<1> QED
    BY <1>1, FleetInvariance, PTL

===============================================================================
