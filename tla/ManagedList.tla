----------------------------- MODULE ManagedList -----------------------------
(***************************************************************************)
(* A page that lists what a service has and acts on it: the list is polled *)
(* every ten seconds (usePolling), read with requests that are shared      *)
(* while they are in flight (apiFetch) and end after eight seconds at the  *)
(* latest (doFetch), and loaded again after every action.                  *)
(* ContainersPanel and AgentsPanel are such pages.                         *)
(*                                                                         *)
(* The service is external: a call it is asked for has its effect or is    *)
(* refused, and may be served after the page has stopped waiting for it.   *)
(***************************************************************************)
EXTENDS Naturals

CONSTANTS
    Ids,        \* the ids the service may know
    NoId,
    MaxCalls    \* bounds the clicks of a behavior that call the service

ASSUME NoIdAssumption == NoId \notin Ids
ASSUME MaxCallsAssumption == MaxCalls \in Nat

VARIABLES
    server,   \* the status of each id, "gone" if the service does not have it
    list,     \* the list as loaded, who waits for it, and the GET in flight
    ui,       \* the page's state: dialogs, marks, the selection
    calls,    \* calls in flight, numbered
    told      \* the last toast: what it says, and of which calls; the clicks so
              \* far; and, to compare, the calls the service has done

listVars == <<server, list, ui, calls, told>>

Status == {"created", "running", "stopped", "error", "gone"}
Ops == {"start", "stop", "kill", "restart", "respawn", "delete"}

\* What an operation does to the status of its id.
Effect(op) ==
    CASE op \in {"start", "restart", "respawn"} -> "running"
      [] op \in {"stop", "kill"}                -> "stopped"
      [] op = "delete"                          -> "gone"

NoAsk == [id |-> NoId, op |-> "none"]

\* A call is named by its click and its id, a registration by its click alone.
CallNames == (1..MaxCalls) \X (Ids \cup {NoId})

ListTypeOK ==
    /\ server \in [Ids -> Status]
    /\ list \in [shown : [Ids -> Status], get : {"none", "sent", "served"},
                 snap : [Ids -> Status], waiting : BOOLEAN, polling : BOOLEAN]
    /\ ui \in [asking : [id : Ids \cup {NoId}, op : Ops \cup {"none"}],
               busy : Ids \cup {NoId}, selected : SUBSET Ids,
               bulkAsking : BOOLEAN, bulkBusy : BOOLEAN]
    /\ calls \subseteq [n : 1..MaxCalls, id : Ids, to : Status, bulk : BOOLEAN,
                        answer : {"pending", "done", "refused"},
                        waited : BOOLEAN, mine : BOOLEAN]
    /\ told \in [ok : BOOLEAN, bulk : BOOLEAN, about : SUBSET CallNames,
                 served : SUBSET CallNames, clicks : 0..MaxCalls]

NothingTold == [ok |-> FALSE, bulk |-> FALSE, about |-> {}, served |-> {}, clicks |-> 0]
Nothing == [i \in Ids |-> "gone"]
ClosedUi == [asking |-> NoAsk, busy |-> NoId, selected |-> {}, bulkAsking |-> FALSE, bulkBusy |-> FALSE]

\* load: a GET that is in flight is joined, else one is sent.
Load(l) == [l EXCEPT !.waiting = TRUE, !.get = IF @ = "none" THEN "sent" ELSE @]

\* The page is mounted and polls at once; a GET of before may be in flight.
Mount(l) == Load([l EXCEPT !.shown = Nothing, !.polling = TRUE])

ListInit ==
    /\ server \in [Ids -> {"running", "stopped"}]
    /\ list = Mount([shown |-> Nothing, get |-> "none", snap |-> Nothing,
                     waiting |-> FALSE, polling |-> FALSE])
    /\ ui = ClosedUi
    /\ calls = {}
    /\ told = NothingTold

\* The page is left and entered again; what was called goes on.
Remount ==
    /\ list' = Mount(list)
    /\ ui' = ClosedUi
    /\ calls' = {[c EXCEPT !.mine = FALSE] : c \in calls}
    /\ UNCHANGED <<server, told>>

\* The timer of usePolling, set anew when what it called has ended.
Poll ==
    /\ ~list.polling
    /\ list' = [Load(list) EXCEPT !.polling = TRUE]
    /\ UNCHANGED <<server, ui, calls, told>>

\* The refresh button.
Refresh == list' = Load(list) /\ UNCHANGED <<server, ui, calls, told>>

\* The service answers the GET.
ServeGet ==
    /\ list.get = "sent"
    /\ list' = [list EXCEPT !.get = "served", !.snap = server]
    /\ UNCHANGED <<server, ui, calls, told>>

\* Mutant of Ended: the next poll is not arranged for.
EndedForGood(l) == [l EXCEPT !.get = "none", !.snap = Nothing, !.waiting = FALSE]

Ended(l) == [l EXCEPT !.get = "none", !.snap = Nothing, !.waiting = FALSE, !.polling = FALSE]

\* The answer arrives at all who wait for it.
GetAnswered ==
    /\ list.get = "served"
    /\ list' = Ended([list EXCEPT !.shown = IF list.waiting THEN list.snap ELSE @])
    /\ UNCHANGED <<server, ui, calls, told>>

\* It is an error, or is not there in time.
GetFailed ==
    /\ list.get # "none"
    /\ list' = Ended(list)
    /\ UNCHANGED <<server, ui, calls, told>>

\* The service does what it is asked, or refuses; it does so for a call that is
\* no longer waited for, too.
Serve(c) ==
    /\ c \in calls /\ c.answer = "pending"
    /\ \E answer \in {"done", "refused"} :
          /\ answer = "done" => server[c.id] # "gone"
          /\ server' = IF answer = "done" THEN [server EXCEPT ![c.id] = c.to] ELSE server
          /\ calls' = (calls \ {c}) \cup (IF c.waited THEN {[c EXCEPT !.answer = answer]} ELSE {})
          /\ told' = IF answer = "done" THEN [told EXCEPT !.served = @ \cup {<<c.n, c.id>>}] ELSE told
    /\ UNCHANGED <<list, ui>>

\* A click that calls op for each of the ids.
Called(ids, op, bulk) ==
    /\ told.clicks < MaxCalls
    /\ told' = [told EXCEPT !.clicks = @ + 1]
    /\ calls' = calls \cup {[n |-> told.clicks + 1, id |-> i, to |-> Effect(op), bulk |-> bulk,
                             answer |-> "pending", waited |-> TRUE, mine |-> TRUE] : i \in ids}

\* What may be heard of the calls of cs: that all were done only if they were,
\* and the answers are there in time (doFetch).
Heard(cs) == {ok \in BOOLEAN : ok => \A c \in cs : c.answer = "done"}

\* The calls of ended are answered, or given up where the service has not
\* answered (doFetch); the toast says ok or not.
Settle(ended, ok, bulk) ==
    /\ calls' = (calls \ ended) \cup
           {[c EXCEPT !.waited = FALSE, !.mine = FALSE, !.bulk = FALSE] :
               c \in {d \in ended : d.answer = "pending"}}
    /\ told' = [told EXCEPT !.ok = ok, !.bulk = bulk,
                            !.about = {<<c.n, c.id>> : c \in ended}]

\* After the calls the page that made them loads again; one that is no longer
\* mounted sends the GET and does not look at the answer.
LoadAfter(ended) ==
    IF \E c \in ended : c.mine THEN Load(list)
    ELSE [list EXCEPT !.get = IF @ = "none" THEN "sent" ELSE @]

\* Selecting rows: the selection is not looked at when the list changes.
ToggleOne(i) ==
    /\ list.shown[i] # "gone"
    /\ ui' = [ui EXCEPT !.selected = IF i \in @ THEN @ \ {i} ELSE @ \cup {i}]
    /\ UNCHANGED <<server, list, calls, told>>

ToggleAll ==
    LET all == {i \in Ids : list.shown[i] # "gone"} IN
    /\ all # {}
    /\ ui' = [ui EXCEPT !.selected = IF all \subseteq @ THEN {} ELSE all]
    /\ UNCHANGED <<server, list, calls, told>>

\* Cancel of either dialog, and "Clear" of the selection bar.
CancelDialog ==
    /\ ui.asking # NoAsk \/ ui.bulkAsking
    /\ ui' = [ui EXCEPT !.asking = NoAsk, !.bulkAsking = FALSE]
    /\ UNCHANGED <<server, list, calls, told>>

ClearSelection ==
    /\ ui.selected # {}
    /\ ui' = [ui EXCEPT !.selected = {}]
    /\ UNCHANGED <<server, list, calls, told>>

\* A dialog covers the page.
Free == ui.asking = NoAsk /\ ~ui.bulkAsking

\* What the two pages share, but that a page is left.
ListNext ==
    \/ Poll \/ ServeGet \/ GetAnswered \/ GetFailed
    \/ \E c \in calls : Serve(c)
    \/ /\ Free
       /\ \/ Refresh \/ ToggleAll \/ ClearSelection
          \/ \E i \in Ids : ToggleOne(i)
    \/ CancelDialog

-----------------------------------------------------------------------------

\* The service has done everything the last toast is about.
AllWasDone == told.about \subseteq told.served

\* Once the last call has been served the list becomes what the service has,
\* and remains so: though the load after an action may join a GET that was
\* served before it, and fail, polling goes on (usePolling).
ListCatchesUp == <>[](list.shown = server)

=============================================================================
