----------------------------- MODULE AgentDetail -----------------------------
(***************************************************************************)
(* The page of one agent: it reads the list of the agents for the one in   *)
(* the address, changes its status and then reads the list again without   *)
(* saying so, and follows its lifecycle on a tab.  A GET that is in flight *)
(* is joined by whoever asks next (apiFetch), and all are answered in the  *)
(* order they asked.  (AgentDetailPage.tsx, Tabs.tsx)                      *)
(***************************************************************************)
EXTENDS Naturals, Sequences

CONSTANTS
    Agents, NoAgent,
    MaxWaiting,  \* bounds those who wait for one GET
    MaxEvents    \* the tab shows so many events: the code keeps 200

ASSUME NoAgentAssumption == NoAgent \notin Agents
ASSUME MaxEventsAssumption == MaxEvents \in Nat

VARIABLES
    registry,   \* the status of each agent, "gone" if it is not registered
    get,        \* the GET in flight and who waits for it
    page,       \* the component and the address
    controls,   \* the buttons that change the status
    patches,    \* their calls in flight
    live        \* the tab that follows the lifecycle

detailVars == <<registry, get, page, controls, patches, live>>

AgentStatus == {"running", "stopped", "gone"}
OfTabs == {"overview", "live", "other"}
NoGet == [at |-> "none", snap |-> [a \in Agents |-> "gone"], waiting |-> <<>>]
NoControls == [busy |-> FALSE, note |-> "none"]
NoLive == [conn |-> "none", aborted |-> FALSE, status |-> "idle", events |-> 0]

DetailTypeOK ==
    /\ registry \in [Agents -> AgentStatus]
    /\ get \in [at : {"none", "sent", "served"}, snap : [Agents -> AgentStatus],
                waiting : Seq([id : Agents, silent : BOOLEAN])]
    /\ page \in [url : Agents, agent : Agents \cup {NoAgent}, status : AgentStatus,
                 loading : BOOLEAN, error : BOOLEAN, tab : OfTabs]
    /\ controls \in [busy : BOOLEAN, note : {"none", "ok", "failed"}]
    /\ patches \subseteq [id : Agents, to : AgentStatus, url : Agents, page : BOOLEAN,
                          mine : BOOLEAN, answer : {"pending", "done", "refused"}]
    /\ live \in [conn : {"none", "connecting", "open"}, aborted : BOOLEAN,
                 status : {"idle", "connecting", "connected", "error", "closed"},
                 events : 0..MaxEvents]

\* Skeleton, "Agent not found", or the tabs.
Shown(p) == ~p.loading /\ ~p.error /\ p.agent # NoAgent
On(p, tab) == Shown(p) /\ p.tab = tab

\* connect: the connection of before is aborted, and handles its error before
\* anything else happens.
Connected(l) == [l EXCEPT !.conn = "connecting", !.status = "connecting", !.aborted = l.conn # "none"]

\* The tabs follow the page: what is no longer shown is unmounted, and the tab
\* of the lifecycle connects when it is mounted or its agent is another.
Show(p) ==
    /\ page' = p
    /\ live' = IF ~On(p, "live") THEN NoLive
               ELSE IF On(page, "live") /\ p.agent = page.agent THEN live
               ELSE Connected(live)

Left(p) == {IF On(p, "overview") THEN c ELSE [c EXCEPT !.mine = FALSE] : c \in patches}
StatusOf(p) == IF On(p, "overview") THEN controls ELSE NoControls

\* loadAgent of the given address.
Asked(g, id, silent) ==
    [g EXCEPT !.at = IF @ = "none" THEN "sent" ELSE @, !.waiting = Append(@, [id |-> id, silent |-> silent])]
Loading(p) == [p EXCEPT !.loading = TRUE, !.error = FALSE]

EmptyPage(id) == [url |-> id, agent |-> NoAgent, status |-> "gone", loading |-> FALSE,
                  error |-> FALSE, tab |-> "overview"]

DetailInit ==
    /\ registry \in [Agents -> {"running", "stopped"}]
    /\ \E id \in Agents : page = Loading(EmptyPage(id)) /\ get = Asked(NoGet, id, FALSE)
    /\ controls = NoControls /\ patches = {} /\ live = NoLive

Quiet == ~live.aborted

\* The address becomes that of another agent: the component remains.
Visit(id) ==
    /\ Quiet /\ id # page.url /\ Len(get.waiting) < MaxWaiting
    /\ LET p == Loading([page EXCEPT !.url = id])
       IN  Show(p) /\ controls' = NoControls /\ patches' = Left(p)
    /\ get' = Asked(get, id, FALSE)
    /\ UNCHANGED registry

\* The page is left and entered again: nothing of before has an effect on it.
Enter(id) ==
    /\ Quiet
    /\ Show(Loading(EmptyPage(id))) /\ controls' = NoControls
    /\ get' = Asked([get EXCEPT !.waiting = <<>>], id, FALSE)
    /\ patches' = {[c EXCEPT !.mine = FALSE, !.page = FALSE] : c \in patches}
    /\ UNCHANGED registry

ServeDetail ==
    /\ get.at = "sent"
    /\ get' = [get EXCEPT !.at = "served", !.snap = registry]
    /\ UNCHANGED <<registry, page, controls, patches, live>>

\* Mutant of Ends: what was asked for silently does not end the loading.
EndsSilently(p) ==
    [p EXCEPT !.loading = @ /\ \E i \in DOMAIN get.waiting : get.waiting[i].silent]

\* setLoading(false), unless all who waited did so silently.
Ends(p) == [p EXCEPT !.loading = @ /\ \A i \in DOMAIN get.waiting : get.waiting[i].silent]

Answer(p) ==
    /\ Show(p) /\ controls' = StatusOf(p) /\ patches' = Left(p)
    /\ get' = NoGet
    /\ UNCHANGED registry

\* Those whose agent is in the list show it, the last of them last; a single
\* one whose agent is not leaves its error to all.
DetailAnswered ==
    /\ Quiet /\ get.at = "served"
    /\ LET found == {i \in DOMAIN get.waiting : get.snap[get.waiting[i].id] # "gone"}
           id    == get.waiting[CHOOSE i \in found : \A j \in found : j <= i].id
           p     == [Ends(page) EXCEPT !.error = @ \/ found # DOMAIN get.waiting]
       IN  Answer(IF found = {} THEN p ELSE [p EXCEPT !.agent = id, !.status = get.snap[id]])

DetailFailed ==
    /\ Quiet /\ get.at # "none"
    /\ Answer([Ends(page) EXCEPT !.error = @ \/ get.waiting # <<>>])

\* An agent registers, deregisters or changes its status itself.
RegistryChanges(a, status) ==
    /\ registry[a] # status
    /\ registry' = [registry EXCEPT ![a] = status]
    /\ UNCHANGED <<get, page, controls, patches, live>>

-----------------------------------------------------------------------------

\* handleStatusChange: the buttons but that of the status shown.
SetStatus(to) ==
    /\ On(page, "overview") /\ ~controls.busy
    /\ to \in AgentStatus \ {"gone", page.status}
    /\ controls' = [busy |-> TRUE, note |-> "none"]
    /\ patches' = patches \cup {[id |-> page.agent, to |-> to, url |-> page.url, page |-> TRUE,
                                 mine |-> TRUE, answer |-> "pending"]}
    /\ UNCHANGED <<registry, get, page, live>>

ServePatch(c) ==
    /\ c \in patches /\ c.answer = "pending"
    /\ \/ /\ registry[c.id] # "gone"
          /\ registry' = [registry EXCEPT ![c.id] = c.to]
          /\ patches' = (patches \ {c}) \cup {[c EXCEPT !.answer = "done"]}
       \/ patches' = (patches \ {c}) \cup {[c EXCEPT !.answer = "refused"]} /\ UNCHANGED registry
    /\ UNCHANGED <<get, page, controls, live>>

\* The rest of it: silentRefresh is that of the address when it was clicked.
\* An error that is shown is taken away, which brings back the tabs.
Patched(c) ==
    /\ Quiet /\ c \in patches /\ Len(get.waiting) < MaxWaiting
    /\ IF c.answer # "done" \/ ~c.page
       THEN /\ controls' = IF c.mine
                           THEN [busy |-> FALSE, note |-> IF c.answer = "done" THEN "ok" ELSE "failed"]
                           ELSE controls
            /\ patches' = patches \ {c}
            /\ get' = IF c.answer = "done" /\ get.at = "none" THEN [get EXCEPT !.at = "sent"] ELSE get
            /\ UNCHANGED <<page, live>>
       ELSE /\ Show([page EXCEPT !.error = FALSE])
            /\ controls' = IF c.mine THEN [busy |-> FALSE, note |-> "ok"] ELSE controls
            /\ patches' = patches \ {c}
            /\ get' = Asked(get, c.url, TRUE)
    /\ UNCHANGED registry

\* Four seconds later.
HideNote ==
    /\ controls.note # "none"
    /\ controls' = [controls EXCEPT !.note = "none"]
    /\ UNCHANGED <<registry, get, page, patches, live>>

\* A tab is chosen: by a click, with the arrow keys, or with "Dispatch".
ChooseTab(tab) ==
    /\ Quiet /\ Shown(page) /\ tab # page.tab
    /\ LET p == [page EXCEPT !.tab = tab]
       IN  Show(p) /\ controls' = StatusOf(p) /\ patches' = Left(p)
    /\ UNCHANGED <<registry, get>>

-----------------------------------------------------------------------------

Live(l) == live' = l /\ UNCHANGED <<registry, get, page, controls, patches>>

\* The AbortError of the connection of before.
LiveAborted == live.aborted /\ Live([live EXCEPT !.aborted = FALSE, !.status = "closed"])

ClickConnect == Quiet /\ On(page, "live") /\ live.status # "connected" /\ Live(Connected(live))

ClickDisconnect ==
    /\ Quiet /\ live.status = "connected"
    /\ Live([live EXCEPT !.conn = "none", !.status = "closed", !.aborted = live.conn # "none"])

LiveOpens ==
    /\ Quiet /\ live.conn = "connecting"
    /\ Live([live EXCEPT !.conn = "open", !.status = "connected"])

\* It cannot be opened, or breaks.
LiveBreaks == Quiet /\ live.conn # "none" /\ Live([live EXCEPT !.conn = "none", !.status = "error"])

\* Mutant of LiveEnds: only an error is told.
LiveEndsUntold == Quiet /\ live.conn = "open" /\ Live([live EXCEPT !.conn = "none"])

LiveEnds == Quiet /\ live.conn = "open" /\ Live([live EXCEPT !.conn = "none", !.status = "closed"])

\* Mutant of LiveEvent: the oldest is kept.
LiveEventUncut == Quiet /\ live.conn = "open" /\ Live([live EXCEPT !.events = @ + 1])

LiveEvent ==
    /\ Quiet /\ live.conn = "open"
    /\ Live([live EXCEPT !.events = IF @ < MaxEvents THEN @ + 1 ELSE @])

ClearEvents == live.events > 0 /\ Live([live EXCEPT !.events = 0])

DetailNext ==
    \/ \E id \in Agents : Visit(id) \/ Enter(id)
    \/ ServeDetail \/ DetailAnswered \/ DetailFailed
    \/ \E a \in Agents, status \in AgentStatus : RegistryChanges(a, status)
    \/ \E to \in AgentStatus : SetStatus(to)
    \/ \E c \in patches : ServePatch(c) \/ Patched(c)
    \/ HideNote
    \/ \E tab \in OfTabs : ChooseTab(tab)
    \/ LiveAborted \/ ClickConnect \/ ClickDisconnect \/ LiveOpens \/ LiveBreaks \/ LiveEnds
    \/ LiveEvent \/ ClearEvents

DetailSpec == DetailInit /\ [][DetailNext]_detailVars

-----------------------------------------------------------------------------

\* While the page shows that it loads somebody waits who will end that, however
\* answers that were asked for silently come in between (loadAgent); and the
\* buttons are locked while their own call is in flight and no longer, be the
\* page reloaded or the tab left meanwhile (handleStatusChange).
WaitsAreTrue ==
    /\ page.loading <=> \E i \in DOMAIN get.waiting : ~get.waiting[i].silent
    /\ controls.busy <=> \E c \in patches : c.mine

\* The tab says "Live" exactly while events come in, and nothing that was
\* aborted says otherwise later (connect of LiveOutputTab).
LiveIsConnected == live.status = "connected" <=> live.conn = "open"

\* The page shows the agent of the address.
AgentIsOfAddress == Shown(page) => page.agent = page.url

\* "Agent not found": it was not when somebody last looked for it.
NotFoundIsLooked ==
    [][DetailAnswered /\ page'.error => get.snap[page.url] = "gone"]_detailVars

=============================================================================
