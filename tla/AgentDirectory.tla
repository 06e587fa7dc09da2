---------------------------- MODULE AgentDirectory ----------------------------
(***************************************************************************)
(* The Registry, and the tools the MCP Bridge makes of what it lists.      *)
(* (services/registry, agents/_base/kubex_harness/mcp_bridge.py)           *)
(*                                                                         *)
(* The Registry answers from its memory and writes each change to a hash   *)
(* in Redis, which it reads when it starts.  A change is made in memory at *)
(* once; its write, and the news of it that goes to the Bridge, are awaits *)
(* of the request, during which others are served.                         *)
(*                                                                         *)
(* Left out: the sets of agents per capability, which nothing reads, times *)
(* and descriptions, and the Bridge's own record, which it skips.          *)
(***************************************************************************)
EXTENDS Integers, FiniteSets

CONSTANTS
    Agents, Caps,
    Statuses,   \* of an agent
    NoRecord,   \* what is kept of an agent that is not registered
    MaxWrites,  \* bounds the changes asked for in a behavior,
    MaxFaults   \* and the failures and restarts

ASSUME NoRecordAssumption == NoRecord \notin [caps : SUBSET Caps, status : Statuses]
ASSUME BoundsAssumption == MaxWrites \in Nat /\ MaxFaults \in Nat

VARIABLES
    memory,  \* store._agents
    hash,    \* registry:agents in Redis
    writes,  \* the requests that wait for Redis
    marred,  \* history: agents of which two writes overlapped, or one failed
    counts,  \* how often memory was changed by a request, and what went wrong
    bridge,  \* the tools of the Bridge, its listener and the news it has not heard
    looks    \* its requests for the list: at start, and those of the listener

registryVars == <<memory, hash, writes, marred>>
bridgeVars == <<bridge, looks>>
directoryVars == <<registryVars, counts, bridgeVars>>

Records == [caps : SUBSET Caps, status : Statuses]
Entries == Records \cup {NoRecord}

\* A write of an entry: whether Redis has yet to be written, and whether the
\* Bridge is told.
Writes == [n : 1..MaxWrites, agent : Agents, entry : Entries, at : {"redis", "publish"}, told : BOOLEAN]

\* What the Bridge makes of a list: a tool for each capability of its agents.
Tools(list) == UNION {list[a].caps : a \in {x \in Agents : list[x] # NoRecord}}

Lookers == {"boot", "listener"}
NoLook == [at |-> "none", list |-> {}]

DirectoryTypeOK ==
    /\ memory \in [Agents -> Entries] /\ hash \in [Agents -> Entries]
    /\ writes \subseteq Writes /\ marred \subseteq Agents
    /\ counts \in [writes : 0..MaxWrites, faults : 0..MaxFaults]
    /\ bridge \in [at : {"off", "boot", "on"}, listener : {"off", "on", "dead"}, heard : Nat,
                   tools : SUBSET Caps, excused : BOOLEAN]
    /\ looks \in [Lookers -> [at : {"none", "asked", "answered"}, list : SUBSET Caps]]

BridgeOff == [at |-> "off", listener |-> "off", heard |-> 0, tools |-> {}, excused |-> FALSE]

DirectoryInit ==
    /\ memory = [a \in Agents |-> NoRecord] /\ hash = memory
    /\ writes = {} /\ marred = {}
    /\ counts = [writes |-> 0, faults |-> 0]
    /\ bridge = BridgeOff
    /\ looks = [by \in Lookers |-> NoLook]

-----------------------------------------------------------------------------
(* The requests of the Registry                                            *)

Writing(a) == {w \in writes : w.agent = a /\ w.at = "redis"}

\* A request changes memory and waits for Redis to write what it has made.  A
\* write that does not overlap another puts right what was wrong of its agent.
Write(a, entry, told) ==
    /\ counts.writes < MaxWrites
    /\ memory' = [memory EXCEPT ![a] = entry]
    /\ counts' = [counts EXCEPT !.writes = @ + 1]
    /\ writes' = writes \cup {[n |-> counts.writes + 1, agent |-> a, entry |-> entry,
                               at |-> "redis", told |-> told]}
    /\ marred' = IF Writing(a) = {} THEN marred \ {a} ELSE marred \cup {a}
    /\ UNCHANGED <<hash, bridgeVars>>

\* Mutant of Register: the Bridge is told of new agents only.
RegisterToldOnce(a, record) == Write(a, record, memory[a] = NoRecord)

\* register: a new agent, or a known one that is registered again.
Register(a, record) == Write(a, record, TRUE)

\* deregister: the request is refused if the agent is not known.
Deregister(a) == memory[a] # NoRecord /\ Write(a, NoRecord, TRUE)

\* Mutant of UpdateStatus: the status is kept in memory only.
UpdateStatusUnwritten(a, status) ==
    /\ memory[a] # NoRecord
    /\ counts.writes < MaxWrites
    /\ memory' = [memory EXCEPT ![a].status = status]
    /\ counts' = [counts EXCEPT !.writes = @ + 1]
    /\ UNCHANGED <<hash, writes, marred, bridgeVars>>

\* update_status, of which the Bridge is not told.
UpdateStatus(a, status) ==
    memory[a] # NoRecord /\ Write(a, [memory[a] EXCEPT !.status = status], FALSE)

\* The next await of a request whose write is over.
AfterWrite(w) ==
    writes' = (writes \ {w}) \cup (IF w.told THEN {[w EXCEPT !.at = "publish"]} ELSE {})

\* Redis writes: in any order, as each request has a connection of its own.
Written(w) ==
    /\ w \in writes /\ w.at = "redis"
    /\ hash' = [hash EXCEPT ![w.agent] = w.entry]
    /\ AfterWrite(w)
    /\ UNCHANGED <<memory, marred, counts, bridgeVars>>

Fault == counts.faults < MaxFaults /\ counts' = [counts EXCEPT !.faults = @ + 1]

\* A failure is logged, whether or not the hash was written before it.
WriteFails(w) ==
    /\ w \in writes /\ w.at = "redis"
    /\ Fault
    /\ hash' \in {hash, [hash EXCEPT ![w.agent] = w.entry]}
    /\ AfterWrite(w)
    /\ marred' = marred \cup {w.agent}
    /\ UNCHANGED <<memory, bridgeVars>>

\* The news goes to who listens at that moment.  Who asks for the list later
\* than that misses nothing.
Asked == looks["boot"].at = "asked"
Publish(w) ==
    /\ w \in writes /\ w.at = "publish"
    /\ writes' = writes \ {w}
    /\ bridge' = IF bridge.listener = "on" THEN [bridge EXCEPT !.heard = @ + 1]
                 ELSE [bridge EXCEPT !.excused = @ \/ bridge.at = "on" \/ ~Asked]
    /\ UNCHANGED <<memory, hash, marred, counts, looks>>

PublishFails(w) ==
    /\ w \in writes /\ w.at = "publish"
    /\ Fault
    /\ writes' = writes \ {w}
    /\ bridge' = [bridge EXCEPT !.excused = TRUE]
    /\ UNCHANGED <<memory, hash, marred, looks>>

\* The Registry is started again (restore_from_redis): what it was doing is
\* lost, and nobody is told of what has changed.
RegistryRestarts ==
    /\ Fault
    /\ memory' = hash /\ writes' = {} /\ marred' = {}
    /\ bridge' = [bridge EXCEPT !.excused = TRUE]
    /\ UNCHANGED <<hash, looks>>

\* It could not read the hash, or stopped at a record it could not read, and
\* starts with the agents it has read so far.
RestoreFails ==
    /\ Fault
    /\ \E S \in SUBSET Agents :
          /\ memory' = [a \in Agents |-> IF a \in S THEN hash[a] ELSE NoRecord]
          /\ marred' = {a \in Agents \ S : hash[a] # NoRecord}
    /\ writes' = {}
    /\ bridge' = [bridge EXCEPT !.excused = TRUE]
    /\ UNCHANGED <<hash, looks>>

-----------------------------------------------------------------------------
(* The Bridge                                                              *)

\* run: the listener is started, and the list asked for.
Boot ==
    /\ bridge.at = "off"
    /\ bridge' = [bridge EXCEPT !.at = "boot", !.excused = FALSE]
    /\ looks' = [looks EXCEPT !["boot"].at = "asked"]
    /\ UNCHANGED <<registryVars, counts>>

\* _listen_registry_changes: it has subscribed.
Subscribed ==
    /\ bridge.at # "off" /\ bridge.listener = "off"
    /\ bridge' = [bridge EXCEPT !.listener = "on"]
    /\ UNCHANGED <<registryVars, counts, looks>>

\* Mutant of Hear: it looks without news, and counts one off all the same.
HearOn ==
    /\ bridge.listener = "on" /\ looks["listener"].at = "none"
    /\ bridge' = [bridge EXCEPT !.heard = @ - 1]
    /\ looks' = [looks EXCEPT !["listener"].at = "asked"]
    /\ UNCHANGED <<registryVars, counts>>

\* It hears one piece of news, and waits for its look to end.
Hear ==
    /\ bridge.listener = "on" /\ bridge.heard > 0 /\ looks["listener"].at = "none"
    /\ bridge' = [bridge EXCEPT !.heard = @ - 1]
    /\ looks' = [looks EXCEPT !["listener"].at = "asked"]
    /\ UNCHANGED <<registryVars, counts>>

\* Nothing was heard for the timeout of its socket: it ends, and is not started
\* again.
ListenerEnds ==
    /\ Fault
    /\ bridge.listener = "on" /\ looks["listener"].at = "none"
    /\ bridge' = [bridge EXCEPT !.listener = "dead", !.excused = @ \/ bridge.heard > 0, !.heard = 0]
    /\ UNCHANGED <<registryVars, looks>>

\* GET /agents is served.
Listed(by) ==
    /\ looks[by].at = "asked"
    /\ looks' = [looks EXCEPT ![by] = [at |-> "answered", list |-> Tools(memory)]]
    /\ UNCHANGED <<registryVars, counts, bridge>>

\* refresh_worker_tools ends: each tool of the list is registered with the MCP
\* server, whose tools are what is offered and called; none is taken from it.
Installed(by) ==
    /\ looks[by].at = "answered"
    /\ bridge' = [bridge EXCEPT !.tools = @ \cup looks[by].list,
                                !.at = IF by = "boot" THEN "on" ELSE @]
    /\ looks' = [looks EXCEPT ![by] = NoLook]
    /\ UNCHANGED <<registryVars, counts>>

\* The answer is lost or an error: the tools stay as they are.
LookFails(by) ==
    /\ looks[by].at # "none"
    /\ Fault
    /\ looks' = [looks EXCEPT ![by] = NoLook]
    /\ bridge' = [bridge EXCEPT !.at = IF by = "boot" THEN "on" ELSE @, !.excused = TRUE]
    /\ UNCHANGED registryVars

BridgeRestarts ==
    /\ bridge.at # "off"
    /\ Fault
    /\ bridge' = BridgeOff /\ looks' = [by \in Lookers |-> NoLook]
    /\ UNCHANGED registryVars

RequestNext ==
    \E a \in Agents :
        \/ \E caps \in SUBSET Caps, status \in Statuses : Register(a, [caps |-> caps, status |-> status])
        \/ Deregister(a)
        \/ \E status \in Statuses : UpdateStatus(a, status)

StoreNext ==
    \/ \E w \in writes : Written(w) \/ WriteFails(w) \/ Publish(w) \/ PublishFails(w)
    \/ RegistryRestarts \/ RestoreFails

BridgeNext ==
    \/ Boot \/ Subscribed \/ Hear \/ ListenerEnds \/ BridgeRestarts
    \/ \E by \in Lookers : Listed(by) \/ Installed(by) \/ LookFails(by)

DirectoryNext == RequestNext \/ StoreNext \/ BridgeNext

DirectorySpec == DirectoryInit /\ [][DirectoryNext]_directoryVars

-----------------------------------------------------------------------------

\* "Redis provides persistence across restarts" (CapabilityStore): once nothing
\* of an agent waits to be written, Redis has what memory has, unless two writes
\* of it overlapped or one failed and none was made since.  It is what a restart
\* brings back.
RestartKeeps ==
    \A a \in Agents : Writing(a) = {} /\ a \notin marred => hash[a] = memory[a]

\* The Bridge offers every capability of the agents there are whenever it has
\* worked off the news, in whatever order its looks were served and ended, but
\* for the ways there are to miss some: published when nobody listened or not at
\* all, a look that failed, and a Registry that was started again
\* (refresh_worker_tools).
WorkedOff ==
    /\ bridge.at = "on" /\ ~bridge.excused /\ bridge.heard = 0 /\ writes = {}
    /\ \A by \in Lookers : looks[by].at = "none"
EveryToolIsOffered == WorkedOff => Tools(memory) \subseteq bridge.tools

\* refresh_worker_tools: "rebuild worker delegation tools": the tool of a
\* capability that no agent has any more is not offered.
ToolsAreCurrent == WorkedOff => bridge.tools \subseteq Tools(memory)
=============================================================================
