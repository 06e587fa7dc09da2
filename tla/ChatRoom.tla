------------------------------- MODULE ChatRoom -------------------------------
(***************************************************************************)
(* What the chat shows and is typed into: the input with its history, the  *)
(* messages and who takes part, the question of a human in the loop, the   *)
(* lock of the scrolling and the groups of messages.                       *)
(* (OrchestratorChat.tsx)                                                  *)
(*                                                                         *)
(* How a task is followed, saved and recovered is in Chat: here a stream   *)
(* brings any events, ends at any time, may outlive its task, and the      *)
(* looks at the result are answered at any time; what is kept is what each *)
(* of these clears and shows.  Texts are valid ones.  The welcome message  *)
(* is left out of the feed, and the page stays open.                       *)
(***************************************************************************)
EXTENDS Integers, Sequences, FiniteSets

CONSTANTS
    Participants,  \* agents that join and leave, other than the orchestrator
    Texts,         \* what may be typed
    ChatCaps,      \* capabilities that may be chosen
    SentLimit,     \* how many sent messages are remembered
    MaxTasks,      \* bounds the messages sent in a behavior
    MaxFeed        \* and those shown when a stream brings another

ASSUME SentLimitAssumption == SentLimit \in Nat \ {0}
ASSUME MaxTasksAssumption == MaxTasks \in Nat
ASSUME NoOneAssumption == "no one" \notin Participants

VARIABLES
    composer,  \* the input: text, capability, place in the history, draft, panel
    sent,      \* what was sent, the latest first
    favorites, \* the starred capabilities
    feed,      \* the messages: role, task, who it is about, what a retry sends
    chat,      \* the task that is followed, its stream and its question
    pending,   \* the dispatches, loops, looks and cancellations that are awaited, and
               \* whether a stream is left that outlived its task
    present,   \* activeParticipantsRef
    scroll     \* whether it is locked to the bottom, and what is new

roomVars == <<composer, sent, favorites, feed, chat, pending, present, scroll>>

Task == 1..MaxTasks
NoOne == "no one"
Blank == ""   \* no text, no capability
NoInput == [text |-> Blank, cap |-> Blank]
Roles == {"user", "result", "error", "system"}
Sent == [text : Texts, cap : ChatCaps \cup {Blank}]
Input == [text : Texts \cup {Blank}, cap : ChatCaps \cup {Blank}]
Messages == [role : Roles, task : 0..MaxTasks, of : 0..MaxTasks,
             who : Participants \cup {NoOne}, joined : BOOLEAN, retry : Input]

RoomTypeOK ==
    /\ composer \in [text : Texts \cup {Blank}, cap : ChatCaps \cup {Blank},
                     index : -1..(SentLimit - 1), buffer : Texts \cup {Blank}, advanced : BOOLEAN]
    /\ sent \in Seq(Sent) /\ Len(sent) <= SentLimit /\ composer.index < Len(sent)
    /\ favorites \subseteq ChatCaps
    /\ feed \in Seq(Messages)
    /\ chat \in [sending : BOOLEAN, locked : BOOLEAN, made : 0..MaxTasks,
                 active : 0..MaxTasks, stream : 0..MaxTasks, hitl : 0..MaxTasks]
    /\ pending.dispatches \subseteq Task \X Sent
    /\ pending \in [dispatches : {pending.dispatches}, loops : SUBSET Task, stray : BOOLEAN,
                   looks : SUBSET ({"open", "guard"} \X Task), cancel : 0..MaxTasks]
    /\ present \subseteq Participants
    /\ scroll \in [auto : BOOLEAN, fresh : BOOLEAN]

Empty == [text |-> Blank, cap |-> Blank, index |-> -1, buffer |-> Blank, advanced |-> FALSE]

RoomInit ==
    /\ composer = Empty /\ sent = <<>> /\ favorites = {} /\ feed = <<>>
    /\ chat = [sending |-> FALSE, locked |-> FALSE, made |-> 0, active |-> 0, stream |-> 0, hitl |-> 0]
    /\ pending = [dispatches |-> {}, loops |-> {}, stray |-> FALSE, looks |-> {}, cancel |-> 0]
    /\ present = {}
    /\ scroll = [auto |-> TRUE, fresh |-> FALSE]

-----------------------------------------------------------------------------
(* The input                                                               *)

othersOfInput == <<sent, favorites, feed, chat, pending, present, scroll>>

\* The text is disabled while a task is sent.
TypeMessage(text) ==
    /\ ~chat.sending /\ text # composer.text
    /\ composer' = [composer EXCEPT !.text = text]
    /\ UNCHANGED othersOfInput

\* One of the prompts, which are offered while there is only the welcome.
Prompt(text) ==
    /\ feed = <<>> /\ text # composer.text
    /\ composer' = [composer EXCEPT !.text = text]
    /\ UNCHANGED othersOfInput

\* The field and the chips of the panel; the pills of the favorites without it.
ChooseCap(cap) ==
    /\ cap # composer.cap
    /\ \/ composer.advanced /\ (~chat.sending \/ cap # Blank)
       \/ ~composer.advanced /\ ~chat.sending /\ cap \in favorites
    /\ composer' = [composer EXCEPT !.cap = cap]
    /\ UNCHANGED othersOfInput

ToggleAdvanced ==
    /\ ~chat.sending
    /\ composer' = [composer EXCEPT !.advanced = ~@]
    /\ UNCHANGED othersOfInput

\* toggleFavoriteCap: the stars of the panel.
StarCap(cap) ==
    /\ composer.advanced
    /\ favorites' = IF cap \in favorites THEN favorites \ {cap} ELSE favorites \cup {cap}
    /\ UNCHANGED <<composer, sent, feed, chat, pending, present, scroll>>

EscapeInput ==
    /\ ~chat.sending
    /\ composer' = [composer EXCEPT !.text = Blank, !.index = -1, !.buffer = Blank]
    /\ UNCHANGED othersOfInput

\* What is sent again is put into the input with its capability, if it had one.
Recalled(input, entry) ==
    IF entry.cap = Blank THEN [input EXCEPT !.text = entry.text]
    ELSE [input EXCEPT !.text = entry.text, !.cap = entry.cap, !.advanced = TRUE]

\* Arrow up: an older message; the draft is kept when the first is recalled.
RecallOlder ==
    /\ ~chat.sending /\ composer.index + 1 < Len(sent)
    /\ LET i == composer.index + 1
           kept == IF composer.index = -1 THEN composer.text ELSE composer.buffer
       IN  composer' = Recalled([composer EXCEPT !.index = i, !.buffer = kept], sent[i + 1])
    /\ UNCHANGED othersOfInput

\* Arrow down: a newer one, or the draft.
RecallNewer ==
    /\ ~chat.sending /\ composer.index >= 0
    /\ LET i == composer.index - 1 IN
       composer' = IF i < 0 THEN [composer EXCEPT !.index = -1, !.text = composer.buffer, !.buffer = Blank]
                   ELSE Recalled([composer EXCEPT !.index = i], sent[i + 1])
    /\ UNCHANGED othersOfInput

\* handleRetry, of an error that has something to send again.
Retry(m) ==
    /\ ~chat.sending /\ m.retry.text # Blank
    /\ composer' = [composer EXCEPT !.text = m.retry.text, !.cap = m.retry.cap,
                                    !.advanced = @ \/ m.retry.cap # Blank]
    /\ UNCHANGED othersOfInput

-----------------------------------------------------------------------------
(* Sending and following                                                   *)

\* addMessage, of a role and, unless it is 0, a task.
Msg(role, t) == [role |-> role, task |-> t, of |-> t, who |-> NoOne, joined |-> FALSE,
                 retry |-> NoInput]
Notice(a, joined) == [Msg("system", chat.active) EXCEPT !.who = a, !.joined = joined]

\* The effect after a change of the messages or of what is shown of the task:
\* the view follows, or a button tells that there is something new.
FollowBottom == scroll' = [scroll EXCEPT !.fresh = ~scroll.auto]

ShowMessages(ms) == feed' = feed \o ms /\ FollowBottom

\* A stream that waits to connect again when its task is over does so all the
\* same (the timer of useSSE), and brings its messages to whatever is active.
Strays == {pending.stray, pending.stray \/ chat.stream # 0}
Bringing == chat.stream # 0 \/ pending.stray

\* handleSend, of a valid text.
Send ==
    /\ composer.text # Blank /\ ~chat.sending /\ ~chat.locked
    /\ chat.made < MaxTasks
    /\ LET entry == [text |-> composer.text, cap |-> composer.cap]
           n     == chat.made + 1
       IN  /\ sent' = SubSeq(<<entry>> \o sent, 1, IF Len(sent) < SentLimit THEN Len(sent) + 1 ELSE SentLimit)
           /\ chat' = [chat EXCEPT !.sending = TRUE, !.locked = TRUE, !.made = n, !.hitl = 0]
           /\ pending' = [pending EXCEPT !.dispatches = @ \cup {<<n, entry>>}]
           /\ feed' = Append(feed, [Msg("user", 0) EXCEPT !.of = n])
    /\ composer' = [Empty EXCEPT !.advanced = composer.advanced]
    /\ scroll' = [auto |-> TRUE, fresh |-> FALSE]
    /\ UNCHANGED <<favorites, present>>

\* Its rest: the gateway has refused, or has made a task of it, whether
\* or not something was cancelled or sent meanwhile.
DispatchFails(d) ==
    /\ d \in pending.dispatches
    /\ pending' = [pending EXCEPT !.dispatches = @ \ {d}]
    /\ chat' = [chat EXCEPT !.sending = FALSE, !.locked = FALSE]
    /\ ShowMessages(<<[Msg("error", 0) EXCEPT !.retry = d[2]]>>)
    /\ UNCHANGED <<composer, sent, favorites, present>>

DispatchOk(d) ==
    /\ d \in pending.dispatches
    /\ \E stray \in Strays :
          pending' = [pending EXCEPT !.dispatches = @ \ {d}, !.stray = stray,
                                     !.looks = @ \cup {<<"guard", d[1]>>}]
    /\ chat' = [chat EXCEPT !.active = d[1], !.stream = d[1]]
    /\ ShowMessages(<<Msg("system", d[1])>>)
    /\ UNCHANGED <<composer, sent, favorites, present>>

\* The stream opens: the result is looked for at once.
Opens ==
    /\ chat.stream # 0 /\ chat.sending /\ chat.active # 0
    /\ pending' = [pending EXCEPT !.looks = @ \cup {<<"open", chat.active>>}]
    /\ FollowBottom
    /\ UNCHANGED <<composer, sent, favorites, feed, chat, present>>

\* What the stream brings (handleSSEMessage): notices, output and a question.
\* It is taken for news of the active task.
Joins(a) ==
    /\ Bringing /\ a \notin present
    /\ Len(feed) < MaxFeed
    /\ present' = present \cup {a}
    /\ ShowMessages(<<Notice(a, TRUE)>>)
    /\ UNCHANGED <<composer, sent, favorites, chat, pending>>

Leaves(a) ==
    /\ Bringing /\ a \in present
    /\ present' = present \ {a}
    /\ ShowMessages(<<Notice(a, FALSE)>>)
    /\ UNCHANGED <<composer, sent, favorites, chat, pending>>

Outputs ==
    /\ Bringing
    /\ FollowBottom
    /\ UNCHANGED <<composer, sent, favorites, feed, chat, pending, present>>

Asks ==
    /\ Bringing /\ chat.active # 0
    /\ chat' = [chat EXCEPT !.hitl = chat.active]
    /\ FollowBottom
    /\ UNCHANGED <<composer, sent, favorites, feed, pending, present>>

\* handleHITLSubmit.
AnswerQuestion ==
    /\ chat.hitl # 0
    /\ chat' = [chat EXCEPT !.hitl = 0]
    /\ FollowBottom
    /\ UNCHANGED <<composer, sent, favorites, feed, pending, present>>

\* A final message of a stream, which may name who has ended.
Final(role, a) ==
    /\ Bringing /\ Len(feed) < MaxFeed
    /\ chat' = [chat EXCEPT !.sending = FALSE, !.locked = FALSE, !.stream = 0, !.hitl = 0]
    /\ \E stray \in {FALSE, pending.stray} : pending' = [pending EXCEPT !.stray = stray]
    /\ present' = present \ {a}
    /\ ShowMessages((IF a \in present THEN <<Notice(a, FALSE)>> ELSE <<>>) \o <<Msg(role, chat.active)>>)
    /\ UNCHANGED <<composer, sent, favorites>>

\* handleSSEComplete, after the retries of the stream or of one that is left:
\* the result is asked for some times, if it is still waited for.
Complete(over, left) ==
    /\ IF chat.sending /\ chat.active # 0
       THEN /\ chat' = [over EXCEPT !.sending = FALSE]
            /\ pending' = [left EXCEPT !.loops = @ \cup {chat.active}]
            /\ FollowBottom
       ELSE chat' = over /\ pending' = left /\ UNCHANGED scroll
    /\ UNCHANGED <<composer, sent, favorites, feed, present>>

StreamOver == chat.stream # 0 /\ Complete([chat EXCEPT !.stream = 0], pending)
StrayOver == pending.stray /\ Complete(chat, [pending EXCEPT !.stray = FALSE])

\* The task is over for the chat: nothing is active, and no stream open.
Over(c) == [c EXCEPT !.active = 0, !.stream = 0, !.hitl = 0]

LoopEnds(t, role) ==
    /\ t \in pending.loops
    /\ \E stray \in Strays : pending' = [pending EXCEPT !.loops = @ \ {t}, !.stray = stray]
    /\ chat' = Over(chat)
    /\ ShowMessages(<<Msg(role, t)>>)
    /\ UNCHANGED <<composer, sent, favorites, present>>

\* A look at the result finds one: that on opening is good for any task that is
\* active, the guard's for its own while it is sent.
Wanted(look) ==
    IF look[1] = "open" THEN chat.active # 0 ELSE chat.active = look[2] /\ chat.locked

LookFinds(look, role) ==
    /\ look \in pending.looks /\ Wanted(look)
    /\ \E stray \in Strays : pending' = [pending EXCEPT !.looks = @ \ {look}, !.stray = stray]
    /\ chat' = [Over(chat) EXCEPT !.sending = FALSE, !.locked = FALSE]
    /\ ShowMessages(<<Msg(role, look[2])>>)
    /\ UNCHANGED <<composer, sent, favorites, present>>

LookIsDropped(look) ==
    /\ look \in pending.looks
    /\ pending' = [pending EXCEPT !.looks = @ \ {look}]
    /\ UNCHANGED <<composer, sent, favorites, feed, chat, present, scroll>>

\* handleCancel.
Cancel ==
    /\ chat.sending /\ chat.active # 0 /\ pending.cancel = 0
    /\ \E stray \in Strays : pending' = [pending EXCEPT !.cancel = chat.active, !.stray = stray]
    /\ chat' = [Over(chat) EXCEPT !.sending = FALSE, !.locked = FALSE]
    /\ FollowBottom
    /\ UNCHANGED <<composer, sent, favorites, feed, present>>

\* Its rest, whether the gateway has cancelled the task or not.
Cancelled ==
    /\ pending.cancel # 0
    /\ pending' = [pending EXCEPT !.cancel = 0]
    /\ ShowMessages(<<Msg("error", pending.cancel)>>)
    /\ UNCHANGED <<composer, sent, favorites, chat, present>>

\* Mutant of ClearChat: who takes part is not forgotten.
ClearChatOnly ==
    /\ ~chat.sending
    /\ feed' = <<>> /\ FollowBottom
    /\ UNCHANGED <<composer, sent, favorites, chat, pending, present>>

\* handleClearChat: all but the welcome.
ClearChat ==
    /\ ~chat.sending
    /\ feed' = <<>> /\ present' = {} /\ FollowBottom
    /\ UNCHANGED <<composer, sent, favorites, chat, pending>>

\* The user scrolls up, or unlocks; and down, or locks again.
ScrollUp ==
    /\ scroll.auto
    /\ scroll' = [scroll EXCEPT !.auto = FALSE]
    /\ UNCHANGED <<composer, sent, favorites, feed, chat, pending, present>>

ScrollDown ==
    /\ ~scroll.auto
    /\ scroll' = [auto |-> TRUE, fresh |-> FALSE]
    /\ UNCHANGED <<composer, sent, favorites, feed, chat, pending, present>>

InputNext ==
    \/ \E text \in Texts \cup {Blank} : TypeMessage(text)
    \/ \E text \in Texts : Prompt(text)
    \/ \E cap \in ChatCaps \cup {Blank} : ChooseCap(cap)
    \/ \E cap \in ChatCaps : StarCap(cap)
    \/ ToggleAdvanced \/ EscapeInput \/ RecallOlder \/ RecallNewer
    \/ \E i \in DOMAIN feed : Retry(feed[i])

Dispatching == \E d \in pending.dispatches : DispatchFails(d) \/ DispatchOk(d)
Looking(looks) ==
    \E look \in looks, role \in {"result", "error"} : LookFinds(look, role) \/ LookIsDropped(look)

FollowNext ==
    \/ Send \/ Dispatching \/ Opens \/ Looking(pending.looks)
    \/ Outputs \/ Asks \/ AnswerQuestion \/ StreamOver \/ StrayOver
    \/ \E role \in {"result", "error"}, t \in pending.loops : LoopEnds(t, role)
    \/ Cancel \/ Cancelled \/ ClearChat

PeopleNext ==
    \/ \E a \in Participants : Joins(a) \/ Leaves(a)
    \/ \E role \in {"result", "error"}, a \in Participants \cup {NoOne} : Final(role, a)

ScrollNext == ScrollUp \/ ScrollDown

RoomNext == InputNext \/ FollowNext \/ PeopleNext \/ ScrollNext

RoomSpec == RoomInit /\ [][RoomNext]_roomVars

-----------------------------------------------------------------------------
(* The groups of messages                                                  *)

\* filteredMessages: system messages are shown when they are asked for.
FilteredMessages(role, system) ==
    SelectSeq(feed, LAMBDA m : /\ m.role = "system" => system \/ role = "system"
                               /\ role \in {"all", m.role})

\* The keys of groupedMessages: a message of the user is put into the group of
\* the message after it; what is next to each other with one key is one group.
GroupKey(ms, i) ==
    IF ms[i].task = 0 /\ ms[i].role = "user" /\ i < Len(ms) THEN ms[i + 1].task ELSE ms[i].task

-----------------------------------------------------------------------------

\* The first n messages say of a, in the end, that it takes part.
SaidToBeIn(a, n) ==
    \E i \in 1..n : /\ feed[i].who = a /\ feed[i].joined
                    /\ \A j \in i + 1..n : feed[j].who # a

\* Who is said to have left had joined before, and had not left since; who
\* takes part is who has joined: also if the chat is cleared in between, or the
\* final message says who has ended (maybeEmitJoin, maybeEmitLeave).
NoticesAreTrue ==
    \A a \in Participants :
        /\ \A n \in DOMAIN feed : feed[n].who = a => (feed[n].joined <=> ~SaidToBeIn(a, n - 1))
        /\ a \in present <=> SaidToBeIn(a, Len(feed))

\* What is sent can be cancelled, or is not yet a task, or will be told of: this
\* does not hold, as a loop that ends after another look has found its result
\* clears the task that was sent since, with its stream (handleSSEComplete).
SendingCanBeCancelled == chat.sending => pending.dispatches # {} \/ chat.active # 0

\* "This keeps the user prompt visually paired with its response"
\* (groupedMessages): a message is in the group of its own task or in none.
PairedWithItsResponse ==
    \A role \in {"all", "user"}, system \in BOOLEAN :
        LET ms == FilteredMessages(role, system) IN
        \A i \in DOMAIN ms : ms[i].role = "user" => GroupKey(ms, i) \in {0, ms[i].of}

=============================================================================
