-------------------------------- MODULE Spawn --------------------------------
(***************************************************************************)
(* The wizard that spawns a kubex: identity, capabilities, resources and a *)
(* review from which it is sent; a step back is possible at any time, also *)
(* while the manager is asked.  (SpawnWizard.tsx)                          *)
(***************************************************************************)
EXTENDS Naturals, FiniteSets

CONSTANTS
    GoodNames,  \* names that validateAgentId accepts
    Listed,     \* capabilities the registry may list
    Custom,     \* capabilities a user may type
    MaxSpawns   \* bounds the calls of a behavior

ASSUME MaxSpawnsAssumption == MaxSpawns \in Nat

VARIABLES
    wizard,
    spawns,     \* the calls in flight
    made        \* the calls so far, and the configuration of the kubex reported

spawnVars == <<wizard, spawns, made>>

Caps == Listed \cup Custom
Names == GoodNames \cup {"", "-bad"}
Presets == {"medium", "custom"}

Start == [step |-> 1, name |-> "", nameError |-> FALSE, caps |-> {}, capsError |-> FALSE,
          typed |-> "", preset |-> "medium", spawning |-> FALSE, result |-> "none"]
Fresh == [form |-> Start, known |-> {}, asking |-> FALSE, asks |-> 0]

Config(form) == [name |-> form.name, caps |-> form.caps, preset |-> form.preset]
Configs == [name : Names, caps : SUBSET Caps, preset : Presets]

Forms == [step : 1..4, name : Names, nameError : BOOLEAN, caps : SUBSET Caps,
          capsError : BOOLEAN, typed : Custom \cup {""}, preset : Presets,
          spawning : BOOLEAN, result : {"none", "ok", "failed"}]
Wizards == [form : Forms, known : SUBSET Caps, asking : BOOLEAN, asks : 0..2]
Calls == [n : 1..MaxSpawns, config : Configs, mine : BOOLEAN,
          answer : {"pending", "done", "refused"}]

SpawnTypeOK ==
    /\ wizard \in Wizards
    /\ spawns \subseteq Calls
    /\ made \in [n : 0..MaxSpawns, config : Configs, done : BOOLEAN]

NothingMade == [n |-> 0, config |-> Config(Start), done |-> FALSE]

SpawnInit == wizard = Fresh /\ spawns = {} /\ made = NothingMade

-----------------------------------------------------------------------------

\* The effect of the second step, which runs after any of what it looks at has
\* changed: the registry is asked while nothing is known and no answer awaited.
\* asks counts to two how often it was since the step was entered.
Rendered(w) ==
    IF w.form.step = 2 /\ w.known = {} /\ ~w.asking
    THEN [w EXCEPT !.asking = TRUE, !.asks = IF @ < 2 THEN @ + 1 ELSE @] ELSE w

Fill(form) == wizard' = [wizard EXCEPT !.form = form]

\* The fields of the first step.
TypeName(name) ==
    /\ wizard.form.step = 1 /\ name # wizard.form.name
    /\ Fill([wizard.form EXCEPT !.name = name, !.nameError = FALSE])
    /\ UNCHANGED <<spawns, made>>

\* The second step shows nothing but that it loads while it does.
ChoosesCaps == wizard.form.step = 2 /\ ~wizard.asking

\* toggleCap: the chips of what is known, and the crosses of what is selected.
ToggleCap(c) ==
    /\ ChoosesCaps /\ c \in wizard.known \cup wizard.form.caps
    /\ Fill([wizard.form EXCEPT !.caps = IF c \in @ THEN @ \ {c} ELSE @ \cup {c}])
    /\ UNCHANGED <<spawns, made>>

TypeCap(text) ==
    /\ ChoosesCaps /\ text # wizard.form.typed
    /\ Fill([wizard.form EXCEPT !.typed = text])
    /\ UNCHANGED <<spawns, made>>

\* addCustomCap.
AddCap ==
    /\ ChoosesCaps /\ wizard.form.typed # ""
    /\ wizard' = [wizard EXCEPT !.form.caps = @ \cup {wizard.form.typed}, !.form.typed = "",
                                !.known = @ \cup ({wizard.form.typed} \ wizard.form.caps)]
    /\ UNCHANGED <<spawns, made>>

\* What getAgents answers, at whichever step the wizard is by then.
CapsAnswered(caps) ==
    /\ wizard.asking
    /\ wizard' = Rendered([wizard EXCEPT !.known = caps, !.asking = FALSE])
    /\ UNCHANGED <<spawns, made>>

CapsFailed ==
    /\ wizard.asking
    /\ wizard' = Rendered([wizard EXCEPT !.asking = FALSE])
    /\ UNCHANGED <<spawns, made>>

Choose(preset) ==
    /\ wizard.form.step = 3 /\ preset # wizard.form.preset
    /\ Fill([wizard.form EXCEPT !.preset = preset])
    /\ UNCHANGED <<spawns, made>>

\* Mutant of NextStep: the capabilities are looked at until there are some.
NextStepKnown ==
    /\ wizard.form.step < 4
    /\ LET f == wizard.form
           nameBad == f.step = 1 /\ f.name \notin GoodNames
           capsBad == f.step = 2 /\ f.caps = {} /\ wizard.known \cap Custom = {}
       IN  wizard' = Rendered([wizard EXCEPT
               !.form.nameError = IF f.step = 1 THEN nameBad ELSE @,
               !.form.capsError = IF f.step = 2 THEN capsBad ELSE @,
               !.form.step = IF nameBad \/ capsBad THEN @ ELSE @ + 1, !.asks = 0])
    /\ UNCHANGED <<spawns, made>>

\* handleNext.
NextStep ==
    /\ wizard.form.step < 4
    /\ LET f == wizard.form
           nameBad == f.step = 1 /\ f.name \notin GoodNames
           capsBad == f.step = 2 /\ f.caps = {}
       IN  wizard' = Rendered([wizard EXCEPT
               !.form.nameError = IF f.step = 1 THEN nameBad ELSE @,
               !.form.capsError = IF f.step = 2 THEN capsBad ELSE @,
               !.form.step = IF nameBad \/ capsBad THEN @ ELSE @ + 1, !.asks = 0])
    /\ UNCHANGED <<spawns, made>>

Done == wizard.form.step = 4 /\ wizard.form.result = "ok"

\* Mutant of BackStep: what has been called for is not waited for.
BackStepFree ==
    /\ wizard.form.step > 1 /\ ~Done
    /\ wizard' = Rendered([wizard EXCEPT !.form.step = @ - 1, !.form.spawning = FALSE, !.asks = 0])
    /\ UNCHANGED <<spawns, made>>

\* handleBack, which is offered until the kubex is there.
BackStep ==
    /\ wizard.form.step > 1 /\ ~Done
    /\ wizard' = Rendered([wizard EXCEPT !.form.step = @ - 1, !.asks = 0])
    /\ UNCHANGED <<spawns, made>>

\* handleSpawn; the review is not shown again once there is a kubex.
SpawnKubex ==
    /\ wizard.form.step = 4 /\ ~wizard.form.spawning /\ ~Done
    /\ made.n < MaxSpawns
    /\ Fill([wizard.form EXCEPT !.spawning = TRUE, !.result = "none"])
    /\ made' = [NothingMade EXCEPT !.n = made.n + 1]
    /\ spawns' = spawns \cup {[n |-> made.n + 1, config |-> Config(wizard.form), mine |-> TRUE,
                               answer |-> "pending"]}

\* The manager makes the kubex or refuses to.
ServeSpawn(c) ==
    /\ c \in spawns /\ c.answer = "pending"
    /\ \E answer \in {"done", "refused"} : spawns' = (spawns \ {c}) \cup {[c EXCEPT !.answer = answer]}
    /\ UNCHANGED <<wizard, made>>

\* The rest of handleSpawn; a call that is pending is given up (doFetch).
Spawned(c) ==
    /\ c \in spawns
    /\ spawns' = spawns \ {c}
    /\ IF c.mine
       THEN /\ Fill([wizard.form EXCEPT !.spawning = FALSE,
                         !.result = IF c.answer = "done" THEN "ok" ELSE "failed"])
            /\ made' = IF c.answer = "done" THEN [made EXCEPT !.config = c.config, !.done = TRUE]
                       ELSE made
       ELSE UNCHANGED <<wizard, made>>

\* handleSpawnAnother: the list of the capabilities is kept.
SpawnAnother ==
    /\ Done
    /\ Fill(Start)
    /\ made' = [NothingMade EXCEPT !.n = made.n]
    /\ UNCHANGED spawns

\* The page is left, with or without the warning of beforeunload, which counts
\* what was typed but not the resources, and entered again.
Reenter ==
    /\ wizard' = Fresh
    /\ spawns' = {[c EXCEPT !.mine = FALSE] : c \in spawns}
    /\ made' = [NothingMade EXCEPT !.n = made.n]

SpawnNext ==
    \/ \E name \in Names : TypeName(name)
    \/ \E c \in Caps : ToggleCap(c)
    \/ \E text \in Custom \cup {""} : TypeCap(text)
    \/ AddCap \/ CapsFailed \/ NextStep \/ BackStep \/ SpawnKubex \/ SpawnAnother \/ Reenter
    \/ \E caps \in SUBSET Listed : CapsAnswered(caps)
    \/ \E preset \in Presets : Choose(preset)
    \/ \E c \in spawns : ServeSpawn(c) \/ Spawned(c)

SpawnSpec == SpawnInit /\ [][SpawnNext]_spawnVars

-----------------------------------------------------------------------------

\* However the steps are walked, and whatever is changed while a call is in
\* flight, what is sent to the manager has a valid name and a capability: each
\* step validates only its own fields, when it is left forwards (handleNext).
SpawnsAreValid ==
    \A c \in spawns : c.config.name \in GoodNames /\ c.config.caps # {}

\* The wizard waits for one call at most, and for as long as there is one, also
\* if the user steps back and forth (handleBack, handleSpawn); what it reports
\* as spawned the manager has made.
SpawningIsTrue ==
    /\ wizard.form.spawning <=> \E c \in spawns : c.mine
    /\ Cardinality({c \in spawns : c.mine}) <= 1
    /\ wizard.form.result = "ok" => made.done

\* "Review the configuration below, then click Spawn Kubex to create the
\* worker": what is reported as spawned is the configuration of the wizard.
SpawnedIsReviewed == wizard.form.result = "ok" => made.config = Config(wizard.form)

\* "Fetch known capabilities when entering step 2": once.
AskedOnEntering == wizard.asks <= 1

=============================================================================
