---------------------------- MODULE Preferences ----------------------------
(***************************************************************************)
(* What the command center keeps in localStorage, and the settings page:   *)
(* useLocalStorage and the hooks made of it.  Every component that calls a *)
(* hook has a state of its own, read from the storage when it is mounted   *)
(* and written to it with every change; it does not hear of the others.    *)
(* One tab, whose storage is never full.  The tour is left out: nothing    *)
(* calls startTour, so it never shows.                                     *)
(***************************************************************************)
EXTENDS Naturals, FiniteSets

CONSTANTS
    Favorable,   \* agents that may be marked as favorites
    ToastTypes   \* the types of toasts: success, error, warning and info

VARIABLES
    kept,      \* localStorage: theme, settings, favorites, and whether the
               \* traffic log and the chat have entries
    held,      \* what the components hold of it
    applied,   \* the data-theme attribute of the document
    page,      \* the page that is mounted
    confirm    \* the buttons of the settings page that ask for a confirmation

preferenceVars == <<kept, held, applied, page, confirm>>

Theme == {"dark", "light"}
Pages == {"dashboard", "agents", "detail", "chat", "settings"}

\* useTheme is called by Layout, ThemeToggle and SettingsPage; useFavorites by
\* QuickDispatchModal, which Layout always mounts, and by three pages.
ThemeUsers == {"layout", "toggle", "settings"}
FavoriteUsers == {"dispatch", "dashboard", "agents", "detail"}
Mounted == {"layout", "toggle", "dispatch", page}

\* AppSettings: whether something other than the notifications is changed, the
\* master switch of the toasts and the types that are shown.
Settings == [custom : BOOLEAN, toasts : BOOLEAN, shown : SUBSET ToastTypes]
DefaultSettings == [custom |-> FALSE, toasts |-> TRUE, shown |-> ToastTypes]

PreferencesTypeOK ==
    /\ kept \in [theme : Theme, settings : Settings, favorites : SUBSET Favorable,
                 traffic : BOOLEAN, chat : BOOLEAN]
    /\ held \in [theme : [ThemeUsers \cap Mounted -> Theme], settings : Settings,
                 favorites : [FavoriteUsers \cap Mounted -> SUBSET Favorable]]
    /\ applied \in Theme
    /\ page \in Pages
    /\ confirm \subseteq {"traffic", "chat", "reset"}

\* The hooks mounted with page p: those of before keep their state, the others
\* read k.
Hooks(users, p, before, read) ==
    [u \in users \cap {"layout", "toggle", "dispatch", p} |->
        IF u \in DOMAIN before THEN before[u] ELSE read]

ReadBy(k, p) ==
    [theme |-> Hooks(ThemeUsers, p, <<>>, k.theme), settings |-> k.settings,
     favorites |-> Hooks(FavoriteUsers, p, <<>>, k.favorites)]

PreferencesInit ==
    /\ kept = [theme |-> "dark", settings |-> DefaultSettings, favorites |-> {},
               traffic |-> FALSE, chat |-> FALSE]
    /\ page \in Pages
    /\ held = ReadBy(kept, page)
    /\ applied = kept.theme
    /\ confirm = {}

\* The page is loaded anew: React's state is read from the storage.
ReloadConsole ==
    /\ held' = ReadBy(kept, page)
    /\ applied' = kept.theme
    /\ confirm' = {}
    /\ UNCHANGED <<kept, page>>

\* Mutant of OpenPageAt: the favorites are not read anew.
OpenPageAtUnread(p) ==
    /\ p # page
    /\ page' = p
    /\ held' = [held EXCEPT !.theme = Hooks(ThemeUsers, p, @, kept.theme),
                            !.favorites = Hooks(FavoriteUsers, p, @, held.favorites["dispatch"])]
    /\ applied' = IF p = "settings" THEN kept.theme ELSE applied
    /\ confirm' = {}
    /\ UNCHANGED kept

\* Another page is mounted and reads the storage; useTheme applies what the
\* settings page has read.
OpenPageAt(p) ==
    /\ p # page
    /\ page' = p
    /\ held' = [held EXCEPT !.theme = Hooks(ThemeUsers, p, @, kept.theme),
                            !.favorites = Hooks(FavoriteUsers, p, @, kept.favorites)]
    /\ applied' = IF p = "settings" THEN kept.theme ELSE applied
    /\ confirm' = {}
    /\ UNCHANGED kept

OtherTheme(t) == CHOOSE o \in Theme : o # t

\* toggleTheme, by the button of the top bar or the selection of the settings
\* page: the other theme than the one its own hook holds.
ToggleTheme(u) ==
    /\ u \in {"toggle", "settings"} \cap Mounted
    /\ LET t == OtherTheme(held.theme[u]) IN
          /\ held' = [held EXCEPT !.theme[u] = t]
          /\ kept' = [kept EXCEPT !.theme = t]
          /\ applied' = t
    /\ UNCHANGED <<page, confirm>>

\* toggle of useFavorites, offered by AgentsPanel and AgentDetailPage.
ToggleFavorite(u, a) ==
    /\ u \in {"agents", "detail"} \cap Mounted
    /\ LET f == IF a \in held.favorites[u] THEN held.favorites[u] \ {a}
                                           ELSE held.favorites[u] \cup {a} IN
          /\ held' = [held EXCEPT !.favorites[u] = f]
          /\ kept' = [kept EXCEPT !.favorites = f]
    /\ UNCHANGED <<applied, page, confirm>>

SetSettings(s) ==
    /\ held' = [held EXCEPT !.settings = s]
    /\ kept' = [kept EXCEPT !.settings = s]
    /\ UNCHANGED <<applied, page>>

\* updateSettings, by the toggles and selections of the settings page; the
\* toggle of a type is disabled while the master switch is off.
UpdateSettings ==
    /\ page = "settings"
    /\ \/ SetSettings([held.settings EXCEPT !.custom = TRUE])
       \/ SetSettings([held.settings EXCEPT !.toasts = ~@])
       \/ \E t \in ToastTypes :
             /\ held.settings.toasts
             /\ SetSettings([held.settings EXCEPT !.shown = IF t \in @ THEN @ \ {t} ELSE @ \cup {t}])
    /\ UNCHANGED confirm

\* The first click on a button that clears asks for a second.
AskFirst(what) ==
    /\ page = "settings"
    /\ what \notin confirm
    /\ confirm' = confirm \cup {what}
    /\ UNCHANGED <<kept, held, applied, page>>

\* handleResetSettings, confirmed.  The theme and the favorites stay.
ResetSettings ==
    /\ page = "settings" /\ "reset" \in confirm
    /\ SetSettings(DefaultSettings)
    /\ confirm' = confirm \ {"reset"}

\* The chat adds to both logs (AppContext: addTrafficEntry, setChatMessages).
LogEntries ==
    /\ page = "chat"
    /\ kept' = [kept EXCEPT !.traffic = TRUE, !.chat = TRUE]
    /\ UNCHANGED <<held, applied, page, confirm>>

\* handleClearTraffic and handleClearChat, confirmed.
ClearLog(what) ==
    /\ page = "settings" /\ what \in confirm \ {"reset"}
    /\ kept' = IF what = "traffic" THEN [kept EXCEPT !.traffic = FALSE]
                                   ELSE [kept EXCEPT !.chat = FALSE]
    /\ confirm' = confirm \ {what}
    /\ UNCHANGED <<held, applied, page>>

PreferencesNext ==
    \/ ReloadConsole
    \/ \E p \in Pages : OpenPageAt(p)
    \/ \E u \in ThemeUsers : ToggleTheme(u)
    \/ \E u \in FavoriteUsers, a \in Favorable : ToggleFavorite(u, a)
    \/ UpdateSettings \/ ResetSettings \/ LogEntries
    \/ \E w \in {"traffic", "chat", "reset"} : AskFirst(w) \/ ClearLog(w)

PreferencesSpec == PreferencesInit /\ [][PreferencesNext]_preferenceVars

-----------------------------------------------------------------------------

\* Though three components hold a theme each and may differ, the one applied
\* to the document is the one a reload brings back (useTheme); and a page on
\* which favorites are changed shows the stored ones, so that a change made on
\* one of them is not undone by the next on another (useFavorites writes all
\* that its own instance holds).
CopiesAgree ==
    /\ applied = kept.theme
    /\ page \in {"agents", "detail"} => held.favorites[page] = kept.favorites

=============================================================================
