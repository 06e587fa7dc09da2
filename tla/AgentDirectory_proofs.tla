------------------------ MODULE AgentDirectory_proofs ------------------------
(***************************************************************************)
(* That a restart of the Registry brings back what it knew, and that the   *)
(* Bridge offers the tools of the agents there are, for any number of      *)
(* agents, capabilities, requests and failures.                            *)
(*                                                                         *)
(* RestartKeeps alone is not inductive: it says nothing of an agent while  *)
(* a write of it is under way, and Redis gets whatever that write holds.   *)
(* OneWrite adds that an agent which is not marred has one write at most,  *)
(* and that it holds what memory has.                                      *)
(*                                                                         *)
(* EveryToolIsOffered speaks of a Bridge that has nothing under way.  What *)
(* brings it there is news that is still to come, a look that has yet to   *)
(* be served, or lists that were served and not yet installed: until then  *)
(* the tools there are need only be in reach (OnItsWay).                   *)
(***************************************************************************)
EXTENDS AgentDirectory, TLAPS

OneWrite ==
    \A a \in Agents \ marred : \A v, w \in Writing(a) : v = w /\ v.entry = memory[a]

KeepsInv == DirectoryTypeOK /\ RestartKeeps /\ OneWrite

-----------------------------------------------------------------------------
(* Types                                                                   *)

\* What a request writes has the type of the writes.
LEMMA WriteType ==
    ASSUME DirectoryTypeOK, NEW a \in Agents, NEW entry \in Entries, NEW told \in BOOLEAN,
           Write(a, entry, told)
    PROVE  DirectoryTypeOK'
<1>1. counts.writes \in 0..MaxWrites /\ counts.faults \in 0..MaxFaults
  BY DEF DirectoryTypeOK
<1>2. counts.writes + 1 \in 1..MaxWrites
  BY <1>1, BoundsAssumption DEF Write
<1>3. [n |-> counts.writes + 1, agent |-> a, entry |-> entry, at |-> "redis", told |-> told] \in Writes
  BY <1>2 DEF Writes
<1>4. writes' \subseteq Writes /\ marred' \subseteq Agents
  BY <1>3 DEF DirectoryTypeOK, Write
<1>5. memory' \in [Agents -> Entries] /\ hash' \in [Agents -> Entries]
  BY DEF DirectoryTypeOK, Write, bridgeVars
<1>6. counts' \in [writes : 0..MaxWrites, faults : 0..MaxFaults]
  BY <1>2, BoundsAssumption DEF DirectoryTypeOK, Write
<1> QED
  BY <1>4, <1>5, <1>6 DEF DirectoryTypeOK, Write, bridgeVars

\* What is left of a write that is over has it too.
LEMMA AfterWriteType ==
    ASSUME DirectoryTypeOK, NEW w \in writes, AfterWrite(w)
    PROVE  /\ writes' \subseteq Writes
           /\ w.agent \in Agents /\ w.entry \in Entries
<1>1. w \in Writes
  BY DEF DirectoryTypeOK
<1>2. [w EXCEPT !.at = "publish"] \in Writes
  BY <1>1 DEF Writes
<1> QED
  BY <1>1, <1>2 DEF AfterWrite, DirectoryTypeOK, Writes

\* A failure is counted.
LEMMA FaultType ==
    ASSUME DirectoryTypeOK, Fault
    PROVE  counts' \in [writes : 0..MaxWrites, faults : 0..MaxFaults]
<1>1. counts.faults \in 0..MaxFaults
  BY DEF DirectoryTypeOK
<1>2. counts.faults + 1 \in 0..MaxFaults
  BY <1>1, BoundsAssumption DEF Fault
<1> QED
  BY <1>2 DEF Fault, DirectoryTypeOK

\* Lists are sets of capabilities.
LEMMA ToolsType ==
    ASSUME DirectoryTypeOK
    PROVE  Tools(memory) \in SUBSET Caps
<1>1. \A a \in Agents : memory[a] # NoRecord => memory[a] \in Records
  BY DEF DirectoryTypeOK, Entries
<1> QED
  BY <1>1 DEF Tools, Records

LEMMA InitKeeps == DirectoryInit => KeepsInv
<1> SUFFICES ASSUME DirectoryInit PROVE KeepsInv
  OBVIOUS
<1>1. DirectoryTypeOK
  BY BoundsAssumption DEF DirectoryInit, DirectoryTypeOK, BridgeOff, NoLook, Entries, Lookers
<1>2. RestartKeeps /\ OneWrite
  BY DEF DirectoryInit, RestartKeeps, OneWrite, Writing
<1> QED
  BY <1>1, <1>2 DEF KeepsInv

-----------------------------------------------------------------------------
(* The steps                                                               *)

\* A request that changes memory: its write is the only one of the agent, or
\* the agent is marred.
LEMMA WriteKeeps ==
    ASSUME KeepsInv, NEW a \in Agents, NEW entry \in Entries, NEW told \in BOOLEAN,
           Write(a, entry, told)
    PROVE  KeepsInv'
<1>1. DirectoryTypeOK'
  BY WriteType DEF KeepsInv
<1> DEFINE new == [n |-> counts.writes + 1, agent |-> a, entry |-> entry, at |-> "redis", told |-> told]
<1>2. Writing(a)' = Writing(a) \cup {new} /\ \A b \in Agents \ {a} : Writing(b)' = Writing(b)
  BY DEF Writing, Write
<1>3. memory'[a] = entry /\ hash' = hash /\ \A b \in Agents \ {a} : memory'[b] = memory[b]
  BY DEF Write, KeepsInv, DirectoryTypeOK
<1>4. \A b \in Agents \ {a} : b \in marred <=> b \in marred'
  BY DEF Write
<1>5. a \notin marred' => Writing(a) = {}
  BY DEF Write
<1>6. RestartKeeps'
  <2> SUFFICES ASSUME NEW b \in Agents, Writing(b)' = {}, b \notin marred' PROVE hash'[b] = memory'[b]
    BY DEF RestartKeeps, Writing
  <2>1. b # a
    BY <1>2
  <2> QED
    BY <2>1, <1>2, <1>3, <1>4 DEF KeepsInv, RestartKeeps
<1>7. OneWrite'
  <2> SUFFICES ASSUME NEW b \in Agents, b \notin marred', NEW v \in Writing(b)', NEW w \in Writing(b)'
               PROVE  v = w /\ v.entry = memory'[b]
    BY DEF OneWrite, Writing
  <2>1. CASE b = a
    <3>1. v = new /\ w = new
      BY <2>1, <1>2, <1>5
    <3> QED
      BY <3>1, <2>1, <1>3
  <2>2. CASE b # a
    BY <2>2, <1>2, <1>3, <1>4 DEF KeepsInv, OneWrite
  <2> QED
    BY <2>1, <2>2
<1> QED
  BY <1>1, <1>6, <1>7 DEF KeepsInv

\* A write that is over, or has failed, is no longer waited for.
LEMMA WritingAfter ==
    ASSUME NEW w \in writes, w.at = "redis", w \in Writes, AfterWrite(w)
    PROVE  \A b \in Agents : Writing(b)' = Writing(b) \ {w}
<1>1. [w EXCEPT !.at = "publish"].at = "publish"
  BY DEF Writes
<1> QED
  BY <1>1 DEF AfterWrite, Writing

\* Redis has what the only write of the agent held.
LEMMA WrittenKeeps ==
    ASSUME KeepsInv, NEW w \in writes, Written(w)
    PROVE  KeepsInv'
<1>1. w \in Writes /\ w.agent \in Agents /\ w.entry \in Entries /\ writes' \subseteq Writes
  BY AfterWriteType DEF KeepsInv, DirectoryTypeOK, Written
<1>2. DirectoryTypeOK'
  BY <1>1 DEF KeepsInv, DirectoryTypeOK, Written, bridgeVars
<1>3. \A b \in Agents : Writing(b)' = Writing(b) \ {w}
  BY <1>1, WritingAfter DEF Written
<1>4. \A b \in Agents : hash'[b] = IF b = w.agent THEN w.entry ELSE hash[b]
  BY DEF Written, KeepsInv, DirectoryTypeOK
<1>5. memory' = memory /\ marred' = marred
  BY DEF Written
<1>6. w \in Writing(w.agent)
  BY DEF Written, Writing
<1>7. RestartKeeps'
  <2> SUFFICES ASSUME NEW b \in Agents, Writing(b)' = {}, b \notin marred PROVE hash'[b] = memory[b]
    BY <1>5 DEF RestartKeeps, Writing
  <2>1. CASE b = w.agent
    BY <2>1, <1>4, <1>6 DEF KeepsInv, OneWrite
  <2>2. CASE b # w.agent
    <3>1. w \notin Writing(b)
      BY <2>2 DEF Writing
    <3> QED
      BY <3>1, <2>2, <1>3, <1>4 DEF KeepsInv, RestartKeeps
  <2> QED
    BY <2>1, <2>2
<1>8. OneWrite'
  BY <1>3, <1>5 DEF KeepsInv, OneWrite
<1> QED
  BY <1>2, <1>7, <1>8 DEF KeepsInv

\* A write that failed mars its agent.
LEMMA WriteFailsKeeps ==
    ASSUME KeepsInv, NEW w \in writes, WriteFails(w)
    PROVE  KeepsInv'
<1>1. w \in Writes /\ w.agent \in Agents /\ w.entry \in Entries /\ writes' \subseteq Writes
  BY AfterWriteType DEF KeepsInv, DirectoryTypeOK, WriteFails
<1>2. hash' \in [Agents -> Entries] /\ counts' \in [writes : 0..MaxWrites, faults : 0..MaxFaults]
  BY <1>1, FaultType DEF KeepsInv, DirectoryTypeOK, WriteFails
<1>3. DirectoryTypeOK'
  BY <1>1, <1>2 DEF KeepsInv, DirectoryTypeOK, WriteFails, bridgeVars
<1>4. \A b \in Agents : Writing(b)' = Writing(b) \ {w}
  BY <1>1, WritingAfter DEF WriteFails
<1>5. \A b \in Agents \ {w.agent} : w \notin Writing(b) /\ hash'[b] = hash[b]
  BY <1>1 DEF WriteFails, Writing, KeepsInv, DirectoryTypeOK
<1>6. memory' = memory /\ marred' = marred \cup {w.agent}
  BY DEF WriteFails
<1>7. RestartKeeps'
  BY <1>4, <1>5, <1>6 DEF KeepsInv, RestartKeeps
<1>8. OneWrite'
  BY <1>4, <1>6 DEF KeepsInv, OneWrite
<1> QED
  BY <1>3, <1>7, <1>8 DEF KeepsInv

\* News changes nothing of what is kept.
LEMMA NewsKeeps ==
    ASSUME KeepsInv, NEW w \in writes, Publish(w) \/ PublishFails(w)
    PROVE  KeepsInv'
<1>1. DirectoryTypeOK'
  <2>1. CASE Publish(w)
    <3>1. [bridge EXCEPT !.heard = @ + 1] \in [at : {"off", "boot", "on"}, listener : {"off", "on", "dead"},
              heard : Nat, tools : SUBSET Caps, excused : BOOLEAN]
      BY DEF KeepsInv, DirectoryTypeOK
    <3>2. [bridge EXCEPT !.excused = @ \/ bridge.at = "on" \/ ~Asked] \in [at : {"off", "boot", "on"},
              listener : {"off", "on", "dead"}, heard : Nat, tools : SUBSET Caps, excused : BOOLEAN]
      BY DEF KeepsInv, DirectoryTypeOK
    <3> QED
      BY <2>1, <3>1, <3>2 DEF KeepsInv, DirectoryTypeOK, Publish
  <2>2. CASE PublishFails(w)
    BY <2>2, FaultType DEF KeepsInv, DirectoryTypeOK, PublishFails
  <2> QED
    BY <2>1, <2>2
<1>2. memory' = memory /\ hash' = hash /\ marred' = marred
  BY DEF Publish, PublishFails
<1>3. \A b \in Agents : Writing(b)' = Writing(b)
  BY DEF Publish, PublishFails, Writing
<1>4. RestartKeeps' /\ OneWrite'
  BY <1>2, <1>3 DEF KeepsInv, RestartKeeps, OneWrite
<1> QED
  BY <1>1, <1>4 DEF KeepsInv

\* After a start nothing waits to be written.
LEMMA RestartsKeep ==
    ASSUME KeepsInv, RegistryRestarts \/ RestoreFails
    PROVE  KeepsInv'
<1>1. DirectoryTypeOK'
  <2>1. hash \in [Agents -> Entries] /\ NoRecord \in Entries
    BY DEF KeepsInv, DirectoryTypeOK, Entries
  <2>2. memory' \in [Agents -> Entries] /\ marred' \subseteq Agents
    BY <2>1 DEF RegistryRestarts, RestoreFails
  <2> QED
    BY <2>2, FaultType DEF KeepsInv, DirectoryTypeOK, RegistryRestarts, RestoreFails
<1>2. writes' = {} /\ hash' = hash
  BY DEF RegistryRestarts, RestoreFails
<1>3. OneWrite'
  BY <1>2 DEF OneWrite, Writing
<1>4. \A a \in Agents \ marred' : hash[a] = memory'[a]
  BY DEF RegistryRestarts, RestoreFails
<1>5. RestartKeeps'
  BY <1>2, <1>4 DEF RestartKeeps
<1> QED
  BY <1>1, <1>3, <1>5 DEF KeepsInv

\* The Bridge changes nothing of the Registry.
LEMMA BridgeKeeps ==
    ASSUME KeepsInv, BridgeNext
    PROVE  KeepsInv'
<1>1. UNCHANGED registryVars
  BY DEF BridgeNext, Boot, Subscribed, Hear, ListenerEnds, BridgeRestarts, Listed, Installed, LookFails, registryVars
<1>2. DirectoryTypeOK'
  <2> DEFINE B == [at : {"off", "boot", "on"}, listener : {"off", "on", "dead"}, heard : Nat,
                   tools : SUBSET Caps, excused : BOOLEAN]
             L == [at : {"none", "asked", "answered"}, list : SUBSET Caps]
  <2>1. bridge \in B /\ looks \in [Lookers -> L]
    BY DEF KeepsInv, DirectoryTypeOK
  <2>2. NoLook \in L /\ BridgeOff \in B
    BY BoundsAssumption DEF NoLook, BridgeOff
  <2>3. bridge' \in B /\ looks' \in [Lookers -> L] /\ counts' \in [writes : 0..MaxWrites, faults : 0..MaxFaults]
    <3>0. counts \in [writes : 0..MaxWrites, faults : 0..MaxFaults]
      BY DEF KeepsInv, DirectoryTypeOK
    <3>1. CASE Boot
      BY <3>0, <3>1, <2>1 DEF Boot, Lookers
    <3>2. CASE Subscribed
      BY <3>0, <3>2, <2>1 DEF Subscribed
    <3>3. CASE Hear
      BY <3>0, <3>3, <2>1 DEF Hear, Lookers
    <3>4. CASE ListenerEnds
      BY <3>4, <2>1, FaultType DEF ListenerEnds, KeepsInv
    <3>5. CASE BridgeRestarts
      BY <3>5, <2>1, <2>2, FaultType DEF BridgeRestarts, KeepsInv
    <3>6. ASSUME NEW by \in Lookers, Listed(by) PROVE bridge' \in B /\ looks' \in [Lookers -> L]
      <4>1. [at |-> "answered", list |-> Tools(memory)] \in L
        BY <3>0, ToolsType DEF KeepsInv
      <4> QED
        BY <4>1, <3>6, <2>1 DEF Listed
    <3>7. ASSUME NEW by \in Lookers, Installed(by) PROVE bridge' \in B /\ looks' \in [Lookers -> L]
      <4>1. looks[by].list \in SUBSET Caps
        BY <2>1
      <4>2. bridge' \in B
        BY <4>1, <3>7, <2>1 DEF Installed
      <4> QED
        BY <4>2, <3>7, <2>1, <2>2 DEF Installed
    <3>8. ASSUME NEW by \in Lookers, LookFails(by) PROVE bridge' \in B /\ looks' \in [Lookers -> L]
      <4>1. bridge' \in B
        BY <3>8, <2>1 DEF LookFails
      <4> QED
        BY <4>1, <3>8, <2>1, <2>2 DEF LookFails
    <3>9. ASSUME NEW by \in Lookers, Listed(by) \/ Installed(by) \/ LookFails(by)
          PROVE  counts' \in [writes : 0..MaxWrites, faults : 0..MaxFaults]
      BY <3>0, <3>9, FaultType DEF Listed, Installed, LookFails, KeepsInv
    <3> QED
      BY <3>1, <3>2, <3>3, <3>4, <3>5, <3>6, <3>7, <3>8, <3>9 DEF BridgeNext
  <2> QED
    BY <1>1, <2>3 DEF KeepsInv, DirectoryTypeOK, registryVars
<1>3. RestartKeeps' /\ OneWrite'
  BY <1>1 DEF KeepsInv, RestartKeeps, OneWrite, Writing, registryVars
<1> QED
  BY <1>2, <1>3 DEF KeepsInv

LEMMA StepKeeps == KeepsInv /\ [DirectoryNext]_directoryVars => KeepsInv'
<1> SUFFICES ASSUME KeepsInv, [DirectoryNext]_directoryVars PROVE KeepsInv'
  OBVIOUS
<1>1. CASE RequestNext
  <2>1. PICK a \in Agents :
            \/ \E caps \in SUBSET Caps, status \in Statuses : Register(a, [caps |-> caps, status |-> status])
            \/ Deregister(a)
            \/ \E status \in Statuses : UpdateStatus(a, status)
    BY <1>1 DEF RequestNext
  <2>2. ASSUME NEW caps \in SUBSET Caps, NEW status \in Statuses,
               Register(a, [caps |-> caps, status |-> status])
        PROVE  KeepsInv'
    <3>1. [caps |-> caps, status |-> status] \in Entries
      BY DEF Entries, Records
    <3> QED
      BY <3>1, <2>2, WriteKeeps DEF Register
  <2>3. CASE Deregister(a)
    BY <2>3, WriteKeeps DEF Deregister, Entries
  <2>4. ASSUME NEW status \in Statuses, UpdateStatus(a, status) PROVE KeepsInv'
    <3>1. memory[a] \in Records
      BY <2>4 DEF UpdateStatus, KeepsInv, DirectoryTypeOK, Entries
    <3>2. [memory[a] EXCEPT !.status = status] \in Entries
      BY <3>1 DEF Entries, Records
    <3> QED
      BY <3>2, <2>4, WriteKeeps DEF UpdateStatus
  <2> QED
    BY <2>1, <2>2, <2>3, <2>4
<1>2. CASE StoreNext
  BY <1>2, WrittenKeeps, WriteFailsKeeps, NewsKeeps, RestartsKeep DEF StoreNext
<1>3. CASE BridgeNext
  BY <1>3, BridgeKeeps
<1>4. CASE UNCHANGED directoryVars
  <2>1. UNCHANGED <<memory, hash, writes, marred, counts, bridge, looks>>
    BY <1>4 DEF directoryVars, registryVars, bridgeVars
  <2> QED
    BY <2>1 DEF KeepsInv, DirectoryTypeOK, RestartKeeps, OneWrite, Writing
<1> QED
  BY <1>1, <1>2, <1>3, <1>4 DEF DirectoryNext

-----------------------------------------------------------------------------

\* "Redis provides persistence across restarts" (CapabilityStore): whatever is
\* asked of the Registry and goes wrong, what is settled of an agent is what a
\* restart brings back.
THEOREM Persistent == DirectorySpec => []RestartKeeps
<1>1. KeepsInv => RestartKeeps
  BY DEF KeepsInv
<1> QED
  BY InitKeeps, StepKeeps, <1>1, PTL DEF DirectorySpec

\* The Registry and the Bridge stay within their types.
THEOREM DirectoryTyped == DirectorySpec => []DirectoryTypeOK
<1>1. KeepsInv => DirectoryTypeOK
  BY DEF KeepsInv
<1> QED
  BY InitKeeps, StepKeeps, <1>1, PTL DEF DirectorySpec

-----------------------------------------------------------------------------
(* The tools of the Bridge                                                 *)

\* The Bridge is there, and has missed nothing.
Follows == bridge.at # "off" /\ ~bridge.excused

NewsDue == bridge.heard > 0 \/ \E w \in writes : w.told

LookAsked == \E by \in Lookers : looks[by].at = "asked"

\* What is offered, or will be when the looks that were served end.
InReach == bridge.tools \cup UNION {looks[by].list : by \in {x \in Lookers : looks[x].at = "answered"}}

OffIsIdle ==
    bridge.at = "off" => bridge.listener = "off" /\ \A by \in Lookers : looks[by].at = "none"

OnItsWay == Follows => NewsDue \/ LookAsked \/ Tools(memory) \subseteq InReach

ToolsInv == DirectoryTypeOK /\ OffIsIdle /\ OnItsWay

-----------------------------------------------------------------------------

\* What the types say of the numbers and records of the Bridge.
LEMMA BridgeTypes ==
    ASSUME DirectoryTypeOK
    PROVE  /\ bridge.heard \in Nat
           /\ bridge \in [at : {"off", "boot", "on"}, listener : {"off", "on", "dead"}, heard : Nat,
                          tools : SUBSET Caps, excused : BOOLEAN]
           /\ looks \in [Lookers -> [at : {"none", "asked", "answered"}, list : SUBSET Caps]]
BY DEF DirectoryTypeOK

\* An agent's status is not in the tools.
LEMMA StatusIsNoTool ==
    ASSUME DirectoryTypeOK, NEW a \in Agents, NEW status \in Statuses, memory[a] # NoRecord,
           memory' = [memory EXCEPT ![a] = [memory[a] EXCEPT !.status = status]]
    PROVE  Tools(memory)' = Tools(memory)
<1>1. memory \in [Agents -> Entries] /\ memory[a] \in Records
  BY DEF DirectoryTypeOK, Entries
<1>2. [memory[a] EXCEPT !.status = status] \in Records /\ [memory[a] EXCEPT !.status = status].caps = memory[a].caps
  BY <1>1 DEF Records
<1>3. [memory[a] EXCEPT !.status = status] # NoRecord
  BY <1>2, NoRecordAssumption DEF Records
<1>4. \A x \in Agents : memory'[x] # NoRecord <=> memory[x] # NoRecord
  BY <1>1, <1>3
<1>5. \A x \in Agents : memory[x] # NoRecord => memory'[x].caps = memory[x].caps
  BY <1>1, <1>2
<1>6. {x \in Agents : memory'[x] # NoRecord} = {x \in Agents : memory[x] # NoRecord}
  BY <1>4
<1>7. {memory'[x].caps : x \in {y \in Agents : memory[y] # NoRecord}}
        = {memory[x].caps : x \in {y \in Agents : memory[y] # NoRecord}}
  BY <1>5
<1> QED
  BY <1>6, <1>7 DEF Tools

\* A step that leaves the looks and the tools alone, offered and in memory, and
\* takes no news away, keeps what is on its way.
LEMMA LeftAlone ==
    ASSUME ToolsInv, DirectoryTypeOK', looks' = looks,
           bridge'.tools = bridge.tools, bridge'.at = bridge.at, ~bridge'.excused => ~bridge.excused,
           bridge'.listener = bridge.listener \/ bridge.at # "off",
           Tools(memory)' = Tools(memory),
           Follows' => NewsDue' \/ LookAsked \/ ~NewsDue
    PROVE  ToolsInv'
<1>1. OffIsIdle'
  BY DEF ToolsInv, OffIsIdle
<1>2. LookAsked' <=> LookAsked
  BY DEF LookAsked
<1>3. InReach' = InReach /\ (Follows' => Follows)
  BY DEF InReach, Follows
<1> QED
  BY <1>1, <1>2, <1>3 DEF ToolsInv, OnItsWay

\* A request announces what it changes in the tools.
LEMMA WriteTools ==
    ASSUME ToolsInv, DirectoryTypeOK', NEW a \in Agents, NEW entry, NEW told \in BOOLEAN,
           Write(a, entry, told), told \/ Tools(memory)' = Tools(memory)
    PROVE  ToolsInv'
<1>1. bridge' = bridge /\ looks' = looks
  BY DEF Write, bridgeVars
<1>2. NewsDue \/ told => NewsDue'
  <2> DEFINE new == [n |-> counts.writes + 1, agent |-> a, entry |-> entry, at |-> "redis", told |-> told]
  <2>1. writes' = writes \cup {new}
    BY DEF Write
  <2>2. new \in writes' /\ new.told = told /\ writes \subseteq writes'
    BY <2>1
  <2> HIDE DEF new
  <2> QED
    BY <1>1, <2>2 DEF NewsDue
<1>3. CASE told
  BY <1>1, <1>2, <1>3 DEF ToolsInv, OffIsIdle, OnItsWay
<1>4. CASE Tools(memory)' = Tools(memory)
  BY <1>1, <1>2, <1>4, LeftAlone
<1> QED
  BY <1>3, <1>4

\* A write is over when its news is on the way, if it is told at all.
LEMMA WrittenTools ==
    ASSUME ToolsInv, DirectoryTypeOK', NEW w \in writes, Written(w) \/ WriteFails(w)
    PROVE  ToolsInv'
<1>1. UNCHANGED <<memory, bridge, looks>> /\ AfterWrite(w)
  BY DEF Written, WriteFails, bridgeVars
<1>2. w \in Writes
  BY DEF ToolsInv, DirectoryTypeOK
<1>3. NewsDue => NewsDue'
  <2>1. SUFFICES ASSUME NEW v \in writes, v.told PROVE \E u \in writes' : u.told
    BY <1>1 DEF NewsDue
  <2>2. CASE v = w
    <3>1. [w EXCEPT !.at = "publish"].told = w.told
      BY <1>2 DEF Writes
    <3> QED
      BY <2>1, <2>2, <3>1, <1>1 DEF AfterWrite
  <2>3. CASE v # w
    BY <2>1, <2>3, <1>1 DEF AfterWrite
  <2> QED
    BY <2>2, <2>3
<1> QED
  BY <1>1, <1>3, LeftAlone

\* News is heard, or was asked for, or is missed.
LEMMA NewsTools ==
    ASSUME ToolsInv, DirectoryTypeOK', NEW w \in writes, Publish(w) \/ PublishFails(w)
    PROVE  ToolsInv'
<1>1. looks' = looks /\ Tools(memory)' = Tools(memory)
  BY DEF Publish, PublishFails
<1>2. /\ bridge'.tools = bridge.tools /\ bridge'.at = bridge.at /\ bridge'.listener = bridge.listener
      /\ (~bridge'.excused => ~bridge.excused)
  BY BridgeTypes DEF Publish, PublishFails, ToolsInv
<1>3. Follows' => NewsDue' \/ LookAsked
  <2>1. CASE Publish(w) /\ bridge.listener = "on"
    <3>1. bridge'.heard = bridge.heard + 1 /\ bridge.heard \in Nat
      BY <2>1, BridgeTypes DEF Publish, ToolsInv
    <3> QED
      BY <3>1 DEF NewsDue
  <2>2. CASE Publish(w) /\ bridge.listener # "on"
    <3>1. ~bridge'.excused => Asked
      BY <2>2, BridgeTypes DEF Publish, ToolsInv
    <3> QED
      BY <3>1 DEF Follows, Asked, LookAsked, Lookers
  <2>3. CASE PublishFails(w)
    <3>1. bridge'.excused
      BY <2>3, BridgeTypes DEF PublishFails, ToolsInv
    <3> QED
      BY <3>1 DEF Follows
  <2> QED
    BY <2>1, <2>2, <2>3
<1> QED
  BY <1>1, <1>2, <1>3, LeftAlone

\* A Registry that is started again tells nobody.
LEMMA RestartTools ==
    ASSUME ToolsInv, DirectoryTypeOK', RegistryRestarts \/ RestoreFails
    PROVE  ToolsInv'
<1>1. looks' = looks /\ bridge'.at = bridge.at /\ bridge'.listener = bridge.listener /\ bridge'.excused
  BY BridgeTypes DEF RegistryRestarts, RestoreFails, ToolsInv
<1> QED
  BY <1>1 DEF ToolsInv, OffIsIdle, OnItsWay, Follows

\* What the Bridge does leaves the Registry as it is.
LEMMA BridgeOnly ==
    ASSUME BridgeNext
    PROVE  writes' = writes /\ Tools(memory)' = Tools(memory)
BY DEF BridgeNext, Boot, Subscribed, Hear, ListenerEnds, BridgeRestarts, Listed, Installed,
       LookFails, registryVars

\* It asks for the list when it starts; it listens, hears the news and stops
\* listening.
LEMMA ListenerTools ==
    ASSUME ToolsInv, DirectoryTypeOK', Boot \/ Subscribed \/ Hear \/ ListenerEnds
    PROVE  ToolsInv'
<1>1. writes' = writes /\ Tools(memory)' = Tools(memory)
  BY BridgeOnly DEF BridgeNext
<1>2. CASE Boot \/ Hear
  <2>1. bridge'.at # "off"
    BY <1>2, BridgeTypes DEF Boot, Hear, ToolsInv, OffIsIdle, Lookers
  <2>2. LookAsked'
    BY <1>2, BridgeTypes DEF Boot, Hear, LookAsked, Lookers, ToolsInv
  <2> QED
    BY <2>1, <2>2 DEF ToolsInv, OffIsIdle, OnItsWay
<1>3. CASE Subscribed \/ ListenerEnds
  <2>1. /\ looks' = looks /\ bridge'.tools = bridge.tools /\ bridge'.at = bridge.at
        /\ (~bridge'.excused => ~bridge.excused) /\ bridge.at # "off"
    BY <1>3, BridgeTypes DEF Subscribed, ListenerEnds, ToolsInv, OffIsIdle
  <2>2. Follows' => NewsDue' \/ ~NewsDue
    <3>1. CASE Subscribed
      <4>1. bridge'.heard = bridge.heard
        BY <3>1, BridgeTypes DEF Subscribed, ToolsInv
      <4> QED
        BY <1>1, <4>1 DEF NewsDue
    <3>2. CASE ListenerEnds
      <4>1. bridge.heard > 0 => bridge'.excused
        BY <3>2, BridgeTypes DEF ListenerEnds, ToolsInv
      <4> QED
        BY <1>1, <4>1 DEF NewsDue, Follows
    <3> QED
      BY <1>3, <3>1, <3>2
  <2> QED
    BY <1>1, <2>1, <2>2, LeftAlone
<1> QED
  BY <1>2, <1>3

\* The list that is served has all the tools there are.
LEMMA ListedTools ==
    ASSUME ToolsInv, DirectoryTypeOK', NEW by \in Lookers, Listed(by)
    PROVE  ToolsInv'
<1>1. Tools(memory)' = Tools(memory) /\ bridge' = bridge
  BY BridgeOnly DEF BridgeNext, Listed
<1>2. looks'[by].at = "answered" /\ looks'[by].list = Tools(memory)
  BY BridgeTypes DEF Listed, ToolsInv
<1>3. bridge.at # "off"
  BY DEF Listed, ToolsInv, OffIsIdle
<1>4. Tools(memory)' \subseteq InReach'
  BY <1>1, <1>2 DEF InReach
<1> QED
  BY <1>1, <1>3, <1>4 DEF ToolsInv, OffIsIdle, OnItsWay

\* What was in reach is installed or still in reach.
LEMMA InstalledTools ==
    ASSUME ToolsInv, DirectoryTypeOK', NEW by \in Lookers, Installed(by)
    PROVE  ToolsInv'
<1>1. writes' = writes /\ Tools(memory)' = Tools(memory)
  BY BridgeOnly DEF BridgeNext
<1>2. bridge.at # "off"
  BY DEF Installed, ToolsInv, OffIsIdle
<1>3. /\ bridge'.tools = bridge.tools \cup looks[by].list /\ bridge'.heard = bridge.heard
      /\ bridge'.at # "off" /\ bridge'.excused = bridge.excused
  BY <1>2, BridgeTypes DEF Installed, ToolsInv
<1>4. \A o \in Lookers \ {by} : looks'[o] = looks[o]
  BY BridgeTypes DEF Installed, ToolsInv
<1>5. LookAsked => LookAsked'
  BY <1>4 DEF LookAsked, Installed
<1>6. NewsDue => NewsDue'
  BY <1>1, <1>3 DEF NewsDue
<1>7. InReach \subseteq InReach'
  BY <1>3, <1>4 DEF InReach
<1> QED
  BY <1>1, <1>2, <1>3, <1>5, <1>6, <1>7 DEF ToolsInv, OffIsIdle, OnItsWay, Follows

\* A look that fails may be of news that is missed with it, and a Bridge that is
\* started again has neither tools nor looks.
LEMMA LostTools ==
    ASSUME ToolsInv, DirectoryTypeOK', (\E by \in Lookers : LookFails(by)) \/ BridgeRestarts
    PROVE  ToolsInv'
<1>1. CASE BridgeRestarts
  BY <1>1 DEF BridgeRestarts, BridgeOff, NoLook, ToolsInv, OffIsIdle, OnItsWay, Follows
<1>2. ASSUME NEW by \in Lookers, LookFails(by) PROVE ToolsInv'
  <2>1. bridge.at # "off"
    BY <1>2 DEF LookFails, ToolsInv, OffIsIdle
  <2>2. bridge'.excused /\ bridge'.at # "off"
    BY <1>2, <2>1, BridgeTypes DEF LookFails, ToolsInv
  <2> QED
    BY <2>2 DEF ToolsInv, OffIsIdle, OnItsWay, Follows
<1> QED
  BY <1>1, <1>2

LEMMA InitTools == DirectoryInit => ToolsInv
<1> SUFFICES ASSUME DirectoryInit PROVE ToolsInv
  OBVIOUS
<1>1. DirectoryTypeOK
  BY InitKeeps DEF KeepsInv
<1>2. bridge = BridgeOff /\ \A by \in Lookers : looks[by] = NoLook
  BY DEF DirectoryInit
<1> QED
  BY <1>1, <1>2 DEF ToolsInv, OffIsIdle, OnItsWay, Follows, BridgeOff, NoLook

LEMMA StepTools == KeepsInv /\ ToolsInv /\ [DirectoryNext]_directoryVars => ToolsInv'
<1> SUFFICES ASSUME KeepsInv, ToolsInv, [DirectoryNext]_directoryVars PROVE ToolsInv'
  OBVIOUS
<1>1. DirectoryTypeOK'
  BY StepKeeps DEF KeepsInv
<1>2. CASE RequestNext
  <2>1. PICK a \in Agents :
            \/ \E caps \in SUBSET Caps, status \in Statuses : Register(a, [caps |-> caps, status |-> status])
            \/ Deregister(a)
            \/ \E status \in Statuses : UpdateStatus(a, status)
    BY <1>2 DEF RequestNext
  <2>2. ASSUME NEW entry, Write(a, entry, TRUE) PROVE ToolsInv'
    BY <2>2, <1>1, WriteTools
  <2>3. ASSUME NEW status \in Statuses, UpdateStatus(a, status) PROVE ToolsInv'
    <3>1. Tools(memory)' = Tools(memory)
      BY <2>3, StatusIsNoTool DEF UpdateStatus, Write, ToolsInv
    <3> QED
      BY <3>1, <2>3, <1>1, WriteTools DEF UpdateStatus
  <2> QED
    BY <2>1, <2>2, <2>3 DEF Register, Deregister
<1>3. CASE StoreNext
  BY <1>1, <1>3, WrittenTools, NewsTools, RestartTools DEF StoreNext
<1>4. CASE BridgeNext
  BY <1>1, <1>4, ListenerTools, ListedTools, InstalledTools, LostTools DEF BridgeNext
<1>5. CASE UNCHANGED directoryVars
  <2>1. UNCHANGED <<memory, hash, writes, marred, counts, bridge, looks>>
    BY <1>5 DEF directoryVars, registryVars, bridgeVars
  <2>2. Tools(memory)' = Tools(memory) /\ (NewsDue' <=> NewsDue)
    BY <2>1 DEF NewsDue
  <2> QED
    BY <1>1, <2>1, <2>2, LeftAlone
<1> QED
  BY <1>2, <1>3, <1>4, <1>5 DEF DirectoryNext

\* With nothing under way, no news is due and no look is asked for or answered:
\* what is in reach is what is offered.
LEMMA NothingUnderWay == ToolsInv => EveryToolIsOffered
<1> SUFFICES ASSUME ToolsInv, WorkedOff PROVE Tools(memory) \subseteq bridge.tools
  BY DEF EveryToolIsOffered
<1>1. Follows /\ ~LookAsked /\ InReach = bridge.tools
  BY DEF WorkedOff, Follows, LookAsked, InReach
<1>2. ~NewsDue
  BY DEF WorkedOff, NewsDue
<1> QED
  BY <1>1, <1>2 DEF ToolsInv, OnItsWay

-----------------------------------------------------------------------------

\* The Bridge offers every capability of the agents there are whenever it has
\* worked off the news, but for the ways there are to miss some, whatever is
\* asked of the Registry, in whatever order the answers come.
THEOREM AllToolsOffered == DirectorySpec => []EveryToolIsOffered
<1>1. DirectoryInit => KeepsInv /\ ToolsInv
  BY InitKeeps, InitTools
<1>2. KeepsInv /\ ToolsInv /\ [DirectoryNext]_directoryVars => (KeepsInv /\ ToolsInv)'
  BY StepKeeps, StepTools
<1>3. KeepsInv /\ ToolsInv => EveryToolIsOffered
  BY NothingUnderWay
<1> QED
  BY <1>1, <1>2, <1>3, PTL DEF DirectorySpec

===============================================================================
