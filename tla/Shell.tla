------------------------------- MODULE Shell -------------------------------
(***************************************************************************)
(* The frame of the command center: the page that is shown and the one     *)
(* that is restored, the overlays and the keys that open and close them,   *)
(* the command palette, and killing all kubexes.  (Layout, CommandPalette, *)
(* KillAllDialog, KeyboardShortcutsHelp, useKeyboardShortcuts.)            *)
(***************************************************************************)
EXTENDS Integers, Sequences, FiniteSets, Ranking

CONSTANTS
    Paths,        \* the paths of the pages, "/" among them
    Commands,     \* the commands of the palette in their order: category and
                  \* path, "none" for Quick Dispatch
    Queries,      \* what may be typed: a score for each command, -1 without a match
    EmptyQuery,   \* the query that matches every command
    MaxAsked      \* bounds the openings of the kill-all dialog in flight

ASSUME PathsAssumption == "/" \in Paths
ASSUME CommandsAssumption ==
    /\ Len(Commands) \in Nat /\ DOMAIN Commands = 1..Len(Commands)
    /\ \A i \in DOMAIN Commands : Commands[i].path \in Paths \cup {"none"}
ASSUME MaxAskedAssumption == MaxAsked \in Nat
ASSUME QueriesAssumption == EmptyQuery \in Queries /\ Queries \subseteq [DOMAIN Commands -> -1..3]

VARIABLES
    at,        \* the path, and the one kept in localStorage ("none" at first)
    open,      \* the overlays that are open
    keys,      \* whether G was pressed less than 1.5 s ago
    palette,   \* the query and the selected index, from 0 on
    kill       \* kill-all: asked, typed phrase, loading flag, requests in flight

shellVars == <<at, open, keys, palette, kill>>

Overlays == {"palette", "help", "dispatch", "killAll", "sidebar"}

ShellTypeOK ==
    /\ at \in [path : Paths, last : Paths \cup {"none"}]
    /\ open \subseteq Overlays
    /\ keys \in BOOLEAN
    /\ palette \in [query : Queries, selected : -1..Len(Commands)]
    /\ kill \in [asked : 0..MaxAsked, typed : BOOLEAN, loading : BOOLEAN, sent : Nat]

\* The commands that match.
Matching(q) == {i \in DOMAIN Commands : q[i] >= 0}

\* filtered: the best scores first, ties in the order of the array.
Better(q, i, j) == q[i] > q[j] \/ (q[i] = q[j] /\ i < j)
Filtered(q) == Ranked(Matching(q), {p \in Matching(q) \X Matching(q) : Better(q, p[1], p[2])})

\* The first match of the category of command i.
Akin(i, j) == Commands[i].category = Commands[j].category
First(q, i) ==
    CHOOSE j \in Matching(q) :
        Akin(i, j) /\ \A k \in Matching(q) : Akin(i, k) => k = j \/ Better(q, j, k)

\* flatList: the matches grouped by category, the categories in the order of
\* their first match; it gives a row its index.
Sooner(q, i, j) == IF Akin(i, j) THEN Better(q, i, j) ELSE Better(q, First(q, i), First(q, j))
FlatList(q) == Ranked(Matching(q), {p \in Matching(q) \X Matching(q) : Sooner(q, p[1], p[2])})

\* The effects of Layout when it is mounted at p: the path is saved unless it
\* is "/", which is left for the one that was saved before.
MountedAt(p, last) ==
    LET goal == IF p = "/" /\ last # "none" THEN last ELSE p IN
    [path |-> goal, last |-> IF goal = "/" THEN last ELSE goal]

ClosedPalette == [query |-> EmptyQuery, selected |-> 0]

ShellInit ==
    /\ \E p \in Paths : at = MountedAt(p, "none")
    /\ open = {}
    /\ keys = FALSE
    /\ palette = ClosedPalette
    /\ kill = [asked |-> 0, typed |-> FALSE, loading |-> FALSE, sent |-> 0]

ReloadShell ==
    /\ at' = MountedAt(at.path, at.last)
    /\ open' = {}
    /\ keys' = FALSE
    /\ palette' = ClosedPalette
    /\ kill' = [asked |-> 0, typed |-> FALSE, loading |-> FALSE, sent |-> 0]

\* A path is shown and, but for "/", saved; the sidebar of a narrow screen closes.
Show(p, overlays) ==
    /\ at' = [path |-> p, last |-> IF p = "/" THEN at.last ELSE p]
    /\ open' = IF p = at.path THEN overlays ELSE overlays \ {"sidebar"}

\* A link of the sidebar or of a page.
Follow(p) == Show(p, open) /\ UNCHANGED <<keys, palette, kill>>

\* The palette starts empty whenever it opens.
Reopened(overlays) ==
    IF "palette" \in overlays \ open THEN ClosedPalette ELSE palette

\* Buttons and shortcuts: Ctrl+K, Ctrl+D and ? toggle, the buttons open; the
\* hamburger toggles the sidebar.
Toggle(o) ==
    /\ o \in Overlays \ {"killAll"}
    /\ open' = IF o \in open THEN open \ {o} ELSE open \cup {o}
    /\ palette' = Reopened(open')
    /\ UNCHANGED <<at, keys, kill>>

\* The backdrop, the close button or Cancel of an overlay.
CloseOverlay(o) ==
    /\ o \in open
    /\ open' = open \ {o}
    /\ UNCHANGED <<at, keys, palette, kill>>

\* What Layout's shortcut closes for Escape.
FirstOf(overlays) ==
    IF \E i \in 1..5 : <<"palette", "help", "dispatch", "killAll", "sidebar">>[i] \in overlays
    THEN {SelectSeq(<<"palette", "help", "dispatch", "killAll", "sidebar">>,
                    LAMBDA o : o \in overlays)[1]}
    ELSE {}

\* Escape.  The palette's input closes it before the event reaches the window,
\* where the listener of the kill-all dialog comes before that of Layout and,
\* by the render it causes, takes its place.
Escape(inPalette) ==
    /\ open # {}
    /\ inPalette => "palette" \in open
    /\ LET rest == IF inPalette THEN open \ {"palette"} ELSE open IN
          open' = rest \ (IF "killAll" \in rest THEN {"killAll"} ELSE FirstOf(rest))
    /\ UNCHANGED <<at, keys, palette, kill>>

\* G, then within 1.5 s the key of a page; the timer forgets G.
PressG == ~keys /\ keys' = TRUE /\ UNCHANGED <<at, open, palette, kill>>
ForgetG == keys /\ keys' = FALSE /\ UNCHANGED <<at, open, palette, kill>>
PressPage(p) == keys /\ keys' = FALSE /\ Show(p, open) /\ UNCHANGED <<palette, kill>>

\* A change of the query selects the first row.
Type(q) ==
    /\ "palette" \in open
    /\ q # palette.query
    /\ palette' = [query |-> q, selected |-> 0]
    /\ UNCHANGED <<at, open, keys, kill>>

SmallerOf(a, b) == IF a < b THEN a ELSE b

\* Mutant of MoveSelection: down goes past the last row.
MoveSelectionOn(down) ==
    /\ "palette" \in open
    /\ palette' = [palette EXCEPT !.selected = IF down THEN @ + 1 ELSE IF @ > 0 THEN @ - 1 ELSE 0]
    /\ UNCHANGED <<at, open, keys, kill>>

\* ArrowDown and ArrowUp; with no match down goes to -1.
MoveSelection(down) ==
    /\ "palette" \in open
    /\ LET s == palette.selected IN
          palette' = [palette EXCEPT !.selected =
             IF down THEN SmallerOf(s + 1, Len(Filtered(palette.query)) - 1)
             ELSE IF s > 0 THEN s - 1 ELSE 0]
    /\ UNCHANGED <<at, open, keys, kill>>

\* Entering a row with the mouse selects it.
Hover(i) ==
    /\ "palette" \in open
    /\ i \in 0..Len(FlatList(palette.query)) - 1
    /\ palette' = [palette EXCEPT !.selected = i]
    /\ UNCHANGED <<at, open, keys, kill>>

\* A command runs and the palette closes.
RunCommand(i) ==
    /\ IF Commands[i].path = "none"
       THEN open' = (open \ {"palette"}) \cup {"dispatch"} /\ UNCHANGED at
       ELSE Show(Commands[i].path, open \ {"palette"})
    /\ UNCHANGED <<keys, palette, kill>>

Enter ==
    /\ "palette" \in open
    /\ palette.selected + 1 \in DOMAIN Filtered(palette.query)
    /\ RunCommand(Filtered(palette.query)[palette.selected + 1])

Click ==
    /\ "palette" \in open
    /\ palette.selected + 1 \in DOMAIN FlatList(palette.query)
    /\ RunCommand(FlatList(palette.query)[palette.selected + 1])

\* openKillAllDialog: the dialog opens when the kubexes have been counted, or
\* could not be; until then the button may be pressed again.
AskKillAll ==
    /\ kill.asked < MaxAsked
    /\ kill' = [kill EXCEPT !.asked = @ + 1]
    /\ UNCHANGED <<at, open, keys, palette>>

OpenKillAll ==
    /\ kill.asked > 0
    /\ open' = open \cup {"killAll"}
    /\ kill' = [kill EXCEPT !.asked = @ - 1, !.typed = @ /\ "killAll" \in open]
    /\ UNCHANGED <<at, keys, palette>>

\* The phrase of the confirmation is typed, or no longer.
TypePhrase ==
    /\ "killAll" \in open
    /\ kill' = [kill EXCEPT !.typed = ~@]
    /\ UNCHANGED <<at, open, keys, palette>>

\* Mutant of ConfirmKillAll: the button looks at the phrase only.
ConfirmKillAllAgain ==
    /\ "killAll" \in open /\ kill.typed
    /\ kill.sent < 2
    /\ kill' = [kill EXCEPT !.loading = TRUE, !.sent = @ + 1]
    /\ UNCHANGED <<at, open, keys, palette>>

\* handleKillAll, by the button or Enter.
ConfirmKillAll ==
    /\ "killAll" \in open /\ kill.typed /\ ~kill.loading
    /\ kill' = [kill EXCEPT !.loading = TRUE, !.sent = @ + 1]
    /\ UNCHANGED <<at, open, keys, palette>>

\* Its answer closes the dialog, the one it was asked in or a later one.
KilledAll ==
    /\ kill.sent > 0
    /\ open' = open \ {"killAll"}
    /\ kill' = [kill EXCEPT !.loading = FALSE, !.sent = @ - 1]
    /\ UNCHANGED <<at, keys, palette>>

ShellNext ==
    \/ ReloadShell
    \/ \E p \in Paths : Follow(p) \/ PressPage(p)
    \/ \E o \in Overlays : Toggle(o) \/ CloseOverlay(o)
    \/ \E b \in BOOLEAN : Escape(b) \/ MoveSelection(b)
    \/ PressG \/ ForgetG
    \/ \E q \in Queries : Type(q)
    \/ \E i \in 0..Len(Commands) - 1 : Hover(i)
    \/ Enter \/ Click
    \/ AskKillAll \/ OpenKillAll \/ TypePhrase \/ ConfirmKillAll \/ KilledAll

ShellSpec == ShellInit /\ [][ShellNext]_shellVars

-----------------------------------------------------------------------------

\* Closing the dialog while its request runs and opening it anew does not let
\* a second request out: the flag is Layout's, not the dialog's (handleKillAll).
KillAllOnce == kill.sent <= 1 /\ (kill.sent = 1 <=> kill.loading)

\* "Flat list for index tracking" (CommandPalette.tsx:208): the row that is
\* shown as selected is the one Enter runs.
EnterRunsSelected ==
    "palette" \in open => FlatList(palette.query) = Filtered(palette.query)

=============================================================================
