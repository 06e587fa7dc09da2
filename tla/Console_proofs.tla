---------------------------- MODULE Console_proofs ----------------------------
(***************************************************************************)
(* What surrounds the pages of the command center: that signing in keeps   *)
(* to the last attempt begun, that what the components hold of the         *)
(* preferences agrees with what is stored, that the history of the         *)
(* notifications is the latest of them, that all kubexes are killed once,  *)
(* and that the notices of the chat are true; for any number of attempts,  *)
(* toasts, commands, tasks and participants.                               *)
(*                                                                         *)
(* The first is not inductive: the exchange uses the code and the verifier *)
(* that handleCallback took from the url and the storage one step earlier. *)
(* The invariant says what those can be: verifier and state are stored and *)
(* removed together, and belong to the last attempt; a code in the url has *)
(* come with its own state; and while an answer is awaited the page is the *)
(* callback page, from which no new attempt begins.  The others are, given *)
(* the types and, for the history, that it is emptied at a toast that has  *)
(* been added; what takes work in them is that what is sorted in the       *)
(* palette is in an order, what a record of the history keeps, and what    *)
(* one more message makes of what was said before.                         *)
(***************************************************************************)
EXTENDS MCConsole, Ranking_proofs, SequenceTheorems

-----------------------------------------------------------------------------
(* Signing in                                                              *)

\* What login and handleCallback keep in the storage is that of the last attempt.
StoredIsLast ==
    /\ store.verifier = store.state
    /\ store.verifier \in {0, tab.begun}

\* A code and a state in the url are those of one attempt.
UrlIsOfOne == tab.code \in {0, tab.state}

\* An exchange that is awaited is that of the last attempt.
ExchangeIsLast ==
    awaiting.what = "tokens" =>
        awaiting.code # 0 /\ awaiting.code = tab.begun /\ awaiting.verifier = tab.begun

\* An answer is awaited on the callback page, the challenge on the login page.
WaitsOnPage ==
    /\ awaiting.what # "none" => view.gate = "callback"
    /\ view.loading => view.gate = "login" /\ tab.begun < MaxAttempts

SessionIInv ==
    /\ SessionTypeOK
    /\ StoredIsLast
    /\ UrlIsOfOne
    /\ ExchangeIsLast
    /\ WaitsOnPage
    /\ ConsoleIsSignedIn

\* What the gate shows of a page that is opened at the url of t.
LEMMA GateType ==
    ASSUME NEW t, NEW s, t.path \in {"/", "callback"}
    PROVE  /\ Gate(t, s) \in {"app", "login", "callback"}
           /\ t.path = "callback" => Gate(t, s) = "callback"
           /\ t.oauth /\ Gate(t, s) = "app" => s.tokens # 0
BY DEF Gate, IsAuthenticated

\* A console that is opened is in order: nothing is stored but a token of the
\* environment, and no code is exchanged.
THEOREM SessionStarts == SessionInit => SessionIInv
<1> SUFFICES ASSUME SessionInit PROVE SessionIInv
    OBVIOUS
<1>1. 0 \in Attempt
    BY MaxAttemptsAssumption DEF Attempt
<1>2. PICK o \in BOOLEAN, e \in BOOLEAN :
         tab = [oauth |-> o, env |-> e, at |-> "app", path |-> "/", code |-> 0,
                state |-> 0, begun |-> 0, spent |-> {}]
    BY DEF SessionInit
<1>3. store = NoStore /\ awaiting = NoRequest /\ view = Loaded(tab, store)
    BY DEF SessionInit
<1>4. SessionTypeOK
    BY <1>1, <1>2, <1>3, GateType DEF Loaded, SessionTypeOK, NoStore, NoRequest
<1>5. StoredIsLast /\ UrlIsOfOne /\ ExchangeIsLast
    BY <1>2, <1>3 DEF StoredIsLast, UrlIsOfOne, ExchangeIsLast, NoStore, NoRequest
<1>6. WaitsOnPage /\ ConsoleIsSignedIn
    BY <1>2, <1>3, GateType DEF WaitsOnPage, ConsoleIsSignedIn, Loaded, NoStore, NoRequest
<1> QED
    BY <1>4, <1>5, <1>6 DEF SessionIInv

\* A page that is opened at a url of one attempt asks for the tokens of the last.
LEMMA OpensRightly ==
    ASSUME SessionIInv, NEW t,
           t \in [oauth : BOOLEAN, env : BOOLEAN, at : {"app", "provider", "logout"},
                  path : {"/", "callback"}, code : Attempt, state : Attempt,
                  begun : Attempt, spent : SUBSET (1..MaxAttempts)],
           t.code \in {0, t.state}, t.begun = tab.begun,
           OpenPage(t, store)
    PROVE  SessionIInv'
<1> USE DEF SessionIInv, SessionTypeOK
<1>1. 0 \in Attempt
    BY MaxAttemptsAssumption DEF Attempt
<1>2. /\ Gate(t, store) \in {"app", "login", "callback"}
      /\ t.path = "callback" => Gate(t, store) = "callback"
      /\ t.oauth /\ Gate(t, store) = "app" => store.tokens # 0
    BY GateType
<1>3. store' = store /\ tab'.begun = tab.begun
    BY DEF OpenPage
<1>4. SessionTypeOK'
    <2>1. Loaded(t, store) \in
              [gate : {"app", "login", "callback"}, user : Attempt,
               token : {"none", "built"}, loading : BOOLEAN, error : BOOLEAN, menu : BOOLEAN]
        BY <1>1, <1>2 DEF Loaded
    <2>2. view' \in [gate : {"app", "login", "callback", "failed", "none"}, user : Attempt,
                     token : {"none", "built", "entered"}, loading : BOOLEAN,
                     error : BOOLEAN, menu : BOOLEAN]
        BY <2>1 DEF OpenPage
    <2>3. awaiting' \in [what : {"none", "tokens", "profile"}, code : Attempt,
                         verifier : Attempt]
        BY <1>1 DEF OpenPage, NoRequest
    <2>4. tab' \in [oauth : BOOLEAN, env : BOOLEAN, at : {"app", "provider", "logout"},
                    path : {"/", "callback"}, code : Attempt, state : Attempt,
                    begun : Attempt, spent : SUBSET (1..MaxAttempts)]
        BY <1>1 DEF OpenPage
    <2> QED
        BY <1>3, <2>2, <2>3, <2>4
<1>5. StoredIsLast' /\ UrlIsOfOne'
    BY <1>3 DEF OpenPage, StoredIsLast, UrlIsOfOne
<1>6. ExchangeIsLast'
    BY <1>3 DEF OpenPage, ExchangeIsLast, StoredIsLast, Refused, NoRequest
<1>7. WaitsOnPage'
    BY <1>2 DEF OpenPage, WaitsOnPage, Loaded, NoRequest
<1>8. ConsoleIsSignedIn'
    BY <1>2, <1>3 DEF OpenPage, ConsoleIsSignedIn, Loaded
<1> QED
    BY <1>4, <1>5, <1>6, <1>7, <1>8

\* No step of the console or of the browser leaves the invariant.
THEOREM SessionStep == SessionIInv /\ [SessionNext]_sessionVars => SessionIInv'
<1> SUFFICES ASSUME SessionIInv, [SessionNext]_sessionVars PROVE SessionIInv'
    OBVIOUS
<1>0. SessionTypeOK /\ StoredIsLast /\ UrlIsOfOne /\ ExchangeIsLast /\ WaitsOnPage
      /\ ConsoleIsSignedIn
    BY DEF SessionIInv
<1>a. 0 \in Attempt
    BY MaxAttemptsAssumption DEF Attempt
<1>1. CASE SignIn
    BY <1>0, <1>1
    DEF SignIn, SessionIInv, SessionTypeOK, StoredIsLast, UrlIsOfOne, ExchangeIsLast,
        WaitsOnPage, ConsoleIsSignedIn
<1>2. CASE Redirect
    <2>1. tab.begun + 1 \in Attempt
        BY <1>0, <1>2, MaxAttemptsAssumption DEF Redirect, SessionTypeOK, WaitsOnPage, Attempt
    <2>2. /\ tab.path \in {"/", "callback"}
          /\ Gate(tab, store) \in {"app", "login", "callback"}
        BY <1>0, GateType DEF SessionTypeOK
    <2>3. /\ store' = [store EXCEPT !.verifier = tab.begun + 1, !.state = tab.begun + 1]
          /\ tab' = [tab EXCEPT !.begun = tab.begun + 1, !.at = "provider"]
          /\ view' = [Loaded(tab, store) EXCEPT !.gate = "none"]
          /\ awaiting' = awaiting
        BY <1>2 DEF Redirect
    <2>4. awaiting.what = "none"
        BY <1>0, <1>2 DEF Redirect, WaitsOnPage, SessionTypeOK
    <2>5. SessionTypeOK'
        <3>1. Loaded(tab, store) \in
                  [gate : {"app", "login", "callback"}, user : Attempt, token : {"none", "built"},
                   loading : BOOLEAN, error : BOOLEAN, menu : BOOLEAN]
            BY <1>0, <1>a, <2>2 DEF Loaded, SessionTypeOK
        <3>2. view' \in [gate : {"none"}, user : Attempt, token : {"none", "built"},
                         loading : BOOLEAN, error : BOOLEAN, menu : BOOLEAN]
            BY <2>3, <3>1
        <3> QED
            BY <1>0, <2>1, <2>3, <3>2 DEF SessionTypeOK
    <2>6. StoredIsLast' /\ UrlIsOfOne' /\ ExchangeIsLast'
        BY <1>0, <2>3, <2>4 DEF SessionTypeOK, StoredIsLast, UrlIsOfOne, ExchangeIsLast
    <2>7. WaitsOnPage' /\ ConsoleIsSignedIn'
        BY <2>3, <2>4 DEF Loaded, WaitsOnPage, ConsoleIsSignedIn
    <2> QED
        BY <2>5, <2>6, <2>7 DEF SessionIInv
<1>3. CASE SignInFails
    BY <1>0, <1>3
    DEF SignInFails, SessionIInv, SessionTypeOK, StoredIsLast, UrlIsOfOne, ExchangeIsLast,
        WaitsOnPage, ConsoleIsSignedIn
<1>4. ASSUME NEW n \in 1..MaxAttempts, NEW ok \in BOOLEAN, Answered(n, ok) PROVE SessionIInv'
    <2> DEFINE t == [tab EXCEPT !.at = "app", !.path = "callback",
                                !.code = IF ok THEN n ELSE 0, !.state = n]
    <2>1. n \in Attempt
        BY MaxAttemptsAssumption DEF Attempt
    <2>2. /\ t \in [oauth : BOOLEAN, env : BOOLEAN, at : {"app", "provider", "logout"},
                    path : {"/", "callback"}, code : Attempt, state : Attempt,
                    begun : Attempt, spent : SUBSET (1..MaxAttempts)]
          /\ t.code \in {0, t.state} /\ t.begun = tab.begun
        BY <1>0, <1>a, <2>1 DEF SessionTypeOK
    <2>3. OpenPage(t, store)
        BY <1>4 DEF Answered
    <2> HIDE DEF t
    <2> QED
        BY <2>2, <2>3, OpensRightly
<1>5. CASE Home
    BY <1>0, <1>5, <1>a, OpensRightly DEF Home, SessionTypeOK
<1>6. CASE Reload
    BY <1>0, <1>6, <1>a, OpensRightly DEF Reload, SessionTypeOK, UrlIsOfOne
<1>7. CASE ExchangeOk
    <2>1. awaiting.code \in Attempt /\ awaiting.code # 0
        BY <1>0, <1>7 DEF ExchangeOk, SessionTypeOK, ExchangeIsLast
    <2>2. tab.spent \cup {awaiting.code} \subseteq 1..MaxAttempts
        BY <1>0, <2>1, MaxAttemptsAssumption DEF SessionTypeOK, Attempt
    <2> QED
        BY <1>0, <1>7, <1>a, <2>1, <2>2
        DEF ExchangeOk, SessionIInv, SessionTypeOK, StoredIsLast, UrlIsOfOne, ExchangeIsLast,
            WaitsOnPage, ConsoleIsSignedIn
<1>8. CASE ExchangeFails
    <2>1. awaiting.code \in Attempt /\ awaiting.code # 0
        BY <1>0, <1>8 DEF ExchangeFails, SessionTypeOK, ExchangeIsLast
    <2>2. tab.spent \cup {awaiting.code} \subseteq 1..MaxAttempts
        BY <1>0, <2>1, MaxAttemptsAssumption DEF SessionTypeOK, Attempt
    <2> QED
        BY <1>0, <1>8, <1>a, <2>1, <2>2
        DEF ExchangeFails, SessionIInv, SessionTypeOK, StoredIsLast, UrlIsOfOne,
            ExchangeIsLast, WaitsOnPage, ConsoleIsSignedIn, NoRequest
<1>9. CASE ProfileDone
    BY <1>0, <1>9, <1>a
    DEF ProfileDone, SessionIInv, SessionTypeOK, StoredIsLast, UrlIsOfOne, ExchangeIsLast,
        WaitsOnPage, ConsoleIsSignedIn, NoRequest
<1>10. CASE Expire
    <2>1. store' \in [tokens : Attempt, fresh : BOOLEAN, user : Attempt,
                      verifier : Attempt, state : Attempt]
        BY <1>0, <1>10 DEF Expire, SessionTypeOK
    <2>2. /\ UNCHANGED <<tab, view, awaiting>> /\ store'.tokens = store.tokens
          /\ store'.user = store.user /\ store'.verifier = store.verifier
          /\ store'.state = store.state
        BY <1>0, <1>10 DEF Expire, SessionTypeOK
    <2> QED
        BY <1>0, <2>1, <2>2
        DEF SessionIInv, SessionTypeOK, StoredIsLast, UrlIsOfOne, ExchangeIsLast,
            WaitsOnPage, ConsoleIsSignedIn
<1>11. CASE ToggleMenu \/ CloseMenu
    BY <1>0, <1>11
    DEF ToggleMenu, CloseMenu, SessionIInv, SessionTypeOK, StoredIsLast, UrlIsOfOne,
        ExchangeIsLast, WaitsOnPage, ConsoleIsSignedIn
<1>12. CASE SignOut
    BY <1>0, <1>12, <1>a
    DEF SignOut, MenuShown, NoStore, SessionIInv, SessionTypeOK, StoredIsLast, UrlIsOfOne,
        ExchangeIsLast, WaitsOnPage, ConsoleIsSignedIn
<1>13. CASE ClearToken \/ EnterToken
    <2>1. PICK token \in {"none", "entered"} : TokenSet(token)
        BY <1>13 DEF ClearToken, EnterToken
    <2>2. /\ Gate(tab, store) \in {"app", "login", "callback"}
          /\ tab.oauth /\ Gate(tab, store) = "app" => store.tokens # 0
        BY <1>0, GateType DEF SessionTypeOK
    <2>3. /\ view' = [view EXCEPT !.token = token, !.gate = Gate(tab, store), !.menu = FALSE]
          /\ UNCHANGED <<store, tab, awaiting>> /\ view.gate = "app"
        BY <2>1 DEF TokenSet
    <2> QED
        BY <1>0, <2>2, <2>3
        DEF SessionIInv, SessionTypeOK, StoredIsLast, UrlIsOfOne, ExchangeIsLast,
            WaitsOnPage, ConsoleIsSignedIn
<1>14. CASE UNCHANGED sessionVars
    BY <1>0, <1>14
    DEF sessionVars, SessionIInv, SessionTypeOK, StoredIsLast, UrlIsOfOne, ExchangeIsLast,
        WaitsOnPage, ConsoleIsSignedIn
<1> QED
    BY <1>1, <1>2, <1>3, <1>4, <1>5, <1>6, <1>7, <1>8, <1>9, <1>10, <1>11, <1>12, <1>13,
       <1>14 DEF SessionNext

\* The invariant holds in every reachable state, for any number of attempts.
THEOREM SessionInvariance == SessionSpec => []SessionIInv
BY SessionStarts, SessionStep, PTL DEF SessionSpec

\* Signed out of, or never signed in to, the console is not shown, unless the
\* browser is leaving for the logout, and the profile in its menu is the stored
\* one.
THEOREM SignedIn == SessionSpec => []ConsoleIsSignedIn
<1>1. SessionIInv => ConsoleIsSignedIn
    BY DEF SessionIInv
<1> QED
    BY <1>1, SessionInvariance, PTL

\* Whatever earlier answers the browser's history brings back, a code is
\* exchanged with the verifier of its own attempt, the last one, and the tokens
\* stored are that attempt's.
THEOREM LastOneWins == SessionSpec => LastAttemptWins
<1> DEFINE Wins == /\ store'.tokens \in {store.tokens, 0, tab.begun}
                   /\ awaiting'.what = "tokens" =>
                          awaiting'.code = tab'.begun /\ awaiting'.verifier = tab'.begun
<1>1. SessionIInv /\ SessionIInv' /\ [SessionNext]_sessionVars => Wins
    <2> SUFFICES ASSUME SessionIInv, SessionIInv', [SessionNext]_sessionVars PROVE Wins
        OBVIOUS
    <2>1. awaiting'.what = "tokens" =>
              awaiting'.code = tab'.begun /\ awaiting'.verifier = tab'.begun
        BY DEF SessionIInv, ExchangeIsLast
    <2>2. CASE ExchangeOk
        BY <2>1, <2>2 DEF ExchangeOk, SessionIInv, SessionTypeOK, ExchangeIsLast
    <2>3. CASE Redirect \/ ProfileDone \/ Expire
        BY <2>1, <2>3 DEF Redirect, ProfileDone, Expire, SessionIInv, SessionTypeOK
    <2>4. CASE SignOut
        BY <2>1, <2>4 DEF SignOut, NoStore
    <2>5. CASE ~(ExchangeOk \/ Redirect \/ ProfileDone \/ Expire \/ SignOut)
        <3>1. store' = store
            BY <2>5
            DEF SessionNext, sessionVars, SignIn, SignInFails, Answered, Home, Reload, OpenPage,
                ExchangeFails, ToggleMenu, CloseMenu, ClearToken, EnterToken, TokenSet
        <3> QED
            BY <2>1, <3>1
    <2> QED
        BY <2>2, <2>3, <2>4, <2>5
<1>2. SessionIInv /\ SessionIInv' /\ [SessionNext]_sessionVars => [Wins]_sessionVars
    BY <1>1
<1> QED
    BY <1>2, SessionInvariance, PTL DEF SessionSpec, LastAttemptWins

-----------------------------------------------------------------------------
(* Preferences                                                             *)

PreferencesIInv == PreferencesTypeOK /\ CopiesAgree

Kepts == [theme : Theme, settings : Settings, favorites : SUBSET Favorable,
          traffic : BOOLEAN, chat : BOOLEAN]

\* What the hooks of the users hold while page p is mounted.
Held(users, p, values) == [users \cap {"layout", "toggle", "dispatch", p} -> values]

Helds(p) == [theme : Held(ThemeUsers, p, Theme), settings : Settings,
             favorites : Held(FavoriteUsers, p, SUBSET Favorable)]

LEMMA PreferenceTypes ==
    PreferencesTypeOK <=> /\ kept \in Kepts /\ held \in Helds(page)
                          /\ applied \in Theme /\ page \in Pages
                          /\ confirm \subseteq {"traffic", "chat", "reset"}
BY DEF PreferencesTypeOK, Kepts, Helds, Held, Mounted

LEMMA PreferenceTypesNext ==
    PreferencesTypeOK' <=> /\ kept' \in Kepts /\ held' \in Helds(page')
                           /\ applied' \in Theme /\ page' \in Pages
                           /\ confirm' \subseteq {"traffic", "chat", "reset"}
BY DEF PreferencesTypeOK, Kepts, Helds, Held, Mounted, Theme, Settings, Pages

\* Hooks that are mounted keep what they hold; the others hold what they read.
LEMMA HooksHold ==
    ASSUME NEW users, NEW p, NEW q, NEW values, NEW read \in values,
           NEW before, before = <<>> \/ before \in Held(users, q, values)
    PROVE  Hooks(users, p, before, read) \in Held(users, p, values)
<1> DEFINE S == users \cap {"layout", "toggle", "dispatch", p}
           T == users \cap {"layout", "toggle", "dispatch", q}
<1>1. \A u \in DOMAIN before : before[u] \in values
    <2>1. CASE before = <<>>
        <3>1. DOMAIN <<>> = {}
            OBVIOUS
        <3>2. DOMAIN before = {}
            BY <2>1, <3>1, Zenon
        <3> QED
            BY <3>2, Zenon
    <2>2. CASE before \in [T -> values]
        BY <2>2
    <2> QED
        BY <2>1, <2>2 DEF Held
<1> DEFINE after == [u \in S |-> IF u \in DOMAIN before THEN before[u] ELSE read]
<1>2. after \in [S -> values]
    BY <1>1, Zenon
<1> QED
    BY <1>2 DEF Hooks, Held

LEMMA HooksRead ==
    ASSUME NEW users, NEW p, NEW before, NEW read,
           NEW u \in users \cap {"layout", "toggle", "dispatch", p}, u \notin DOMAIN before
    PROVE  Hooks(users, p, before, read)[u] = read
BY DEF Hooks

LEMMA DefaultType == DefaultSettings \in Settings
BY DEF DefaultSettings, Settings

\* A page that reads the storage holds what is stored.
LEMMA ReadByHolds ==
    ASSUME NEW k \in Kepts, NEW p \in Pages
    PROVE  /\ ReadBy(k, p) \in Helds(p)
           /\ p \in {"agents", "detail"} => ReadBy(k, p).favorites[p] = k.favorites
<1>1. k.theme \in Theme /\ k.settings \in Settings /\ k.favorites \in SUBSET Favorable
    BY DEF Kepts
<1>2. Hooks(ThemeUsers, p, <<>>, k.theme) \in Held(ThemeUsers, p, Theme)
    BY <1>1, HooksHold
<1>3. Hooks(FavoriteUsers, p, <<>>, k.favorites) \in Held(FavoriteUsers, p, SUBSET Favorable)
    BY <1>1, HooksHold
<1>4. ASSUME p \in {"agents", "detail"}
      PROVE  Hooks(FavoriteUsers, p, <<>>, k.favorites)[p] = k.favorites
    <2>1. p \in FavoriteUsers \cap {"layout", "toggle", "dispatch", p}
        BY <1>4 DEF FavoriteUsers
    <2>2. p \notin DOMAIN <<>>
        OBVIOUS
    <2> QED
        BY <2>1, <2>2, HooksRead
<1> QED
    BY <1>1, <1>2, <1>3, <1>4 DEF ReadBy, Helds

LEMMA PreferencesStart == PreferencesInit => PreferencesIInv
<1> SUFFICES ASSUME PreferencesInit PROVE PreferencesIInv
    OBVIOUS
<1>1. kept \in Kepts /\ applied = kept.theme /\ applied \in Theme
    BY DefaultType DEF PreferencesInit, Kepts, Theme
<1>2. page \in Pages /\ held = ReadBy(kept, page) /\ confirm = {}
    BY DEF PreferencesInit
<1> QED
    BY <1>1, <1>2, ReadByHolds, PreferenceTypes DEF PreferencesIInv, CopiesAgree

LEMMA SetSettingsKeeps ==
    ASSUME PreferencesIInv, NEW s \in Settings, SetSettings(s),
           confirm' \subseteq {"traffic", "chat", "reset"}
    PROVE  PreferencesIInv'
<1>1. /\ kept' = [kept EXCEPT !.settings = s] /\ held' = [held EXCEPT !.settings = s]
      /\ UNCHANGED <<applied, page>>
    BY DEF SetSettings
<1>2. /\ kept \in Kepts /\ held \in Helds(page) /\ applied \in Theme /\ page \in Pages
      /\ CopiesAgree
    BY PreferenceTypes DEF PreferencesIInv
<1>3. kept' \in Kepts /\ kept'.theme = kept.theme /\ kept'.favorites = kept.favorites
    BY <1>1, <1>2 DEF Kepts
<1>4. held' \in Helds(page) /\ held'.favorites = held.favorites
    BY <1>1, <1>2 DEF Helds
<1> QED
    BY <1>1, <1>2, <1>3, <1>4, PreferenceTypesNext DEF PreferencesIInv, CopiesAgree

\* No change of a preference, and no page that is opened, lets the copies that
\* matter differ.
THEOREM PreferencesStep == PreferencesIInv /\ [PreferencesNext]_preferenceVars => PreferencesIInv'
<1> SUFFICES ASSUME PreferencesIInv, [PreferencesNext]_preferenceVars PROVE PreferencesIInv'
    OBVIOUS
<1>0. /\ kept \in Kepts /\ held \in Helds(page) /\ applied \in Theme /\ page \in Pages
      /\ confirm \subseteq {"traffic", "chat", "reset"} /\ CopiesAgree
    BY PreferenceTypes DEF PreferencesIInv
<1>1. CASE ReloadConsole
    <2>1. kept.theme \in Theme
        BY <1>0 DEF Kepts
    <2> QED
        BY <1>0, <1>1, <2>1, ReadByHolds, PreferenceTypesNext
        DEF ReloadConsole, PreferencesIInv, CopiesAgree
<1>2. ASSUME NEW p \in Pages, OpenPageAt(p) PROVE PreferencesIInv'
    <2> DEFINE themes == Hooks(ThemeUsers, p, held.theme, kept.theme)
               favorites1 == Hooks(FavoriteUsers, p, held.favorites, kept.favorites)
    <2>1. /\ held.theme \in Held(ThemeUsers, page, Theme)
          /\ held.favorites \in Held(FavoriteUsers, page, SUBSET Favorable)
          /\ kept.theme \in Theme /\ kept.favorites \in SUBSET Favorable
        BY <1>0 DEF Helds, Kepts
    <2>2. themes \in Held(ThemeUsers, p, Theme)
        BY <2>1, HooksHold
    <2>3. favorites1 \in Held(FavoriteUsers, p, SUBSET Favorable)
        BY <2>1, HooksHold
    <2>4. p # page /\ page' = p /\ kept' = kept /\ confirm' = {}
          /\ held' = [held EXCEPT !.theme = themes, !.favorites = favorites1]
          /\ applied' = IF p = "settings" THEN kept.theme ELSE applied
        BY <1>2 DEF OpenPageAt
    <2>6. ASSUME p \in {"agents", "detail"} PROVE favorites1[p] = kept.favorites
        <3>1. DOMAIN held.favorites = FavoriteUsers \cap {"layout", "toggle", "dispatch", page}
            BY <2>1 DEF Held
        <3>2. p \notin DOMAIN held.favorites
            BY <2>4, <2>6, <3>1
        <3>3. p \in FavoriteUsers \cap {"layout", "toggle", "dispatch", p}
            BY <2>6 DEF FavoriteUsers
        <3> QED
            BY <3>2, <3>3, HooksRead
    <2> HIDE DEF themes, favorites1
    <2>5. held' \in Helds(p) /\ held'.favorites = favorites1
        BY <1>0, <2>2, <2>3, <2>4 DEF Helds
    <2> QED
        BY <1>0, <2>1, <2>4, <2>5, <2>6, PreferenceTypesNext DEF PreferencesIInv, CopiesAgree
<1>3. ASSUME NEW u \in ThemeUsers, ToggleTheme(u) PROVE PreferencesIInv'
    <2> DEFINE t == OtherTheme(held.theme[u])
    <2>1. t \in Theme
        <3>1. \E o \in Theme : o # held.theme[u]
            BY DEF Theme
        <3> QED
            BY <3>1 DEF OtherTheme
    <2>2. /\ u \in Mounted /\ held' = [held EXCEPT !.theme[u] = t]
          /\ kept' = [kept EXCEPT !.theme = t] /\ applied' = t
          /\ UNCHANGED <<page, confirm>>
        BY <1>3 DEF ToggleTheme
    <2> HIDE DEF t
    <2>3. kept' \in Kepts /\ kept'.theme = t /\ kept'.favorites = kept.favorites
        BY <1>0, <2>1, <2>2 DEF Kepts
    <2>4. held' \in Helds(page) /\ held'.favorites = held.favorites
        BY <1>0, <2>1, <2>2 DEF Helds, Held
    <2> QED
        BY <1>0, <2>1, <2>2, <2>3, <2>4, PreferenceTypesNext DEF PreferencesIInv, CopiesAgree
<1>4. ASSUME NEW u \in FavoriteUsers, NEW x \in Favorable, ToggleFavorite(u, x)
      PROVE  PreferencesIInv'
    <2> DEFINE f == IF x \in held.favorites[u] THEN held.favorites[u] \ {x}
                                               ELSE held.favorites[u] \cup {x}
    <2>1. u = page /\ u \in {"agents", "detail"}
        BY <1>4 DEF ToggleFavorite, Mounted
    <2>2. u \in FavoriteUsers \cap {"layout", "toggle", "dispatch", page}
        BY <2>1
    <2>3. held.favorites[u] \subseteq Favorable
        BY <1>0, <2>2 DEF Helds, Held
    <2>4. f \in SUBSET Favorable
        BY <2>3
    <2>5. /\ held' = [held EXCEPT !.favorites[u] = f]
          /\ kept' = [kept EXCEPT !.favorites = f]
          /\ UNCHANGED <<applied, page, confirm>>
        BY <1>4 DEF ToggleFavorite
    <2> HIDE DEF f
    <2>6. kept' \in Kepts /\ kept'.theme = kept.theme /\ kept'.favorites = f
        BY <1>0, <2>4, <2>5 DEF Kepts
    <2>7. held' \in Helds(page) /\ held'.favorites[u] = f
        BY <1>0, <2>2, <2>4, <2>5 DEF Helds, Held
    <2> QED
        BY <1>0, <2>1, <2>5, <2>6, <2>7, PreferenceTypesNext DEF PreferencesIInv, CopiesAgree
<1>5. CASE UpdateSettings
    <2>0. held.settings \in Settings
        BY <1>0 DEF Helds
    <2>1. [held.settings EXCEPT !.custom = TRUE] \in Settings
        BY <2>0 DEF Settings
    <2>2. [held.settings EXCEPT !.toasts = ~held.settings.toasts] \in Settings
        BY <2>0 DEF Settings
    <2>3. \A t \in ToastTypes :
              [held.settings EXCEPT !.shown = IF t \in held.settings.shown
                                              THEN held.settings.shown \ {t}
                                              ELSE held.settings.shown \cup {t}] \in Settings
        BY <2>0 DEF Settings
    <2>4. PICK s \in Settings : SetSettings(s)
        BY <1>5, <2>1, <2>2, <2>3 DEF UpdateSettings
    <2> QED
        BY <1>0, <1>5, <2>4, SetSettingsKeeps DEF UpdateSettings
<1>6. CASE ResetSettings
    <2>1. confirm' \subseteq {"traffic", "chat", "reset"}
        BY <1>0, <1>6 DEF ResetSettings
    <2> QED
        BY <1>6, <2>1, DefaultType, SetSettingsKeeps DEF ResetSettings
<1>7. CASE LogEntries \/ \E w \in {"traffic", "chat", "reset"} : AskFirst(w) \/ ClearLog(w)
    <2>1. kept' \in Kepts /\ kept'.theme = kept.theme /\ kept'.favorites = kept.favorites
        BY <1>0, <1>7 DEF LogEntries, AskFirst, ClearLog, Kepts
    <2>2. UNCHANGED <<held, applied, page>> /\ confirm' \subseteq {"traffic", "chat", "reset"}
        BY <1>0, <1>7 DEF LogEntries, AskFirst, ClearLog
    <2> QED
        BY <1>0, <2>1, <2>2, PreferenceTypesNext DEF PreferencesIInv, CopiesAgree
<1>8. CASE UNCHANGED preferenceVars
    BY <1>0, <1>8, PreferenceTypesNext DEF preferenceVars, PreferencesIInv, CopiesAgree
<1> QED
    BY <1>1, <1>2, <1>3, <1>4, <1>5, <1>6, <1>7, <1>8 DEF PreferencesNext

\* The invariant holds in every reachable state, for any agents and toasts.
THEOREM PreferencesInvariance == PreferencesSpec => []PreferencesIInv
BY PreferencesStart, PreferencesStep, PTL DEF PreferencesSpec

\* What a reload would bring back is what is shown, though every component that
\* calls a hook has a copy of its own.
THEOREM AgreeingCopies == PreferencesSpec => []CopiesAgree
<1>1. PreferencesIInv => CopiesAgree
    BY DEF PreferencesIInv
<1> QED
    BY <1>1, PreferencesInvariance, PTL
-----------------------------------------------------------------------------
(* What is announced                                                       *)

Entries == [id : 1..MaxToasts, type : ToastTypes, read : BOOLEAN]

\* The history of which the toasts up to n were added since it was emptied,
\* when there had been m.
LatestOf(s, n, m) ==
    /\ m \in 0..n
    /\ Len(s) = IF n - m < MaxNotifications THEN n - m ELSE MaxNotifications
    /\ \A i \in 1..Len(s) : s[i].id = n - (i - 1)

Health == [services : [Services -> Answer \cup {"loading"}], checking : BOOLEAN,
           bar : {"hidden", "loading", "completing", "fading"}]
Bell == [open : BOOLEAN, marking : BOOLEAN, added : 0..MaxToasts, floor : 0..MaxToasts]

\* The history is emptied at a toast that has been added.
FeedbackIInv == FeedbackTypeOK /\ HistoryIsLatest /\ bell.floor <= bell.added

LEMMA FeedbackParts ==
    FeedbackIInv <=> /\ toasts \subseteq (1..MaxToasts) \X ToastTypes
                     /\ history \in Seq(Entries) /\ bell \in Bell /\ health \in Health
                     /\ LatestOf(history, bell.added, bell.floor)
<1>1. FeedbackTypeOK <=> /\ toasts \subseteq (1..MaxToasts) \X ToastTypes
                        /\ history \in Seq(Entries) /\ bell \in Bell /\ health \in Health
    BY DEF FeedbackTypeOK, Entries, Bell, Health
<1>2. ASSUME FeedbackTypeOK
      PROVE  LatestOf(history, bell.added, bell.floor)
                 <=> HistoryIsLatest /\ bell.floor <= bell.added
    <2>1. DOMAIN history = 1..Len(history)
        BY <1>1, <1>2, LenProperties
    <2>2. bell.floor \in Nat /\ bell.added \in Nat
        BY <1>1, <1>2, MaxToastsAssumption DEF Bell
    <2>3. bell.floor \in 0..bell.added <=> bell.floor <= bell.added
        BY <2>2
    <2> QED
        BY <2>1, <2>3 DEF HistoryIsLatest, LatestOf
<1> QED
    BY <1>1, <1>2 DEF FeedbackIInv

LEMMA FeedbackPartsNext ==
    FeedbackIInv' <=> /\ toasts' \subseteq (1..MaxToasts) \X ToastTypes
                      /\ history' \in Seq(Entries) /\ bell' \in Bell /\ health' \in Health
                      /\ LatestOf(history', bell'.added, bell'.floor)
<1>1. FeedbackTypeOK' <=> /\ toasts' \subseteq (1..MaxToasts) \X ToastTypes
                         /\ history' \in Seq(Entries) /\ bell' \in Bell /\ health' \in Health
    BY DEF FeedbackTypeOK, Entries, Bell, Health, Services, Answer
<1>2. ASSUME FeedbackTypeOK'
      PROVE  LatestOf(history', bell'.added, bell'.floor)
                 <=> HistoryIsLatest' /\ bell'.floor <= bell'.added
    <2>1. DOMAIN history' = 1..Len(history')
        BY <1>1, <1>2, LenProperties
    <2>2. bell'.floor \in Nat /\ bell'.added \in Nat
        BY <1>1, <1>2, MaxToastsAssumption DEF Bell
    <2>3. bell'.floor \in 0..bell'.added <=> bell'.floor <= bell'.added
        BY <2>2
    <2> QED
        BY <2>1, <2>3 DEF HistoryIsLatest, LatestOf
<1> QED
    BY <1>1, <1>2 DEF FeedbackIInv

\* What is recorded comes first; the rest moves on, and the oldest drops out.
LEMMA RecordIsLatest ==
    ASSUME history \in Seq(Entries), NEW n \in 0..MaxToasts, NEW m, n + 1 <= MaxToasts,
           LatestOf(history, n, m), NEW e \in Entries, e.id = n + 1
    PROVE  Record(e) \in Seq(Entries) /\ LatestOf(Record(e), n + 1, m)
<1> DEFINE s == <<e>> \o history
           k == IF Len(s) < MaxNotifications THEN Len(s) ELSE MaxNotifications
<1>1. <<e>> \in Seq(Entries) /\ Len(<<e>>) = 1 /\ <<e>>[1] = e
    OBVIOUS
<1>2. /\ Len(history) \in Nat
      /\ s \in Seq(Entries) /\ Len(s) = 1 + Len(history)
      /\ \A i \in 1..1 + Len(history) : s[i] = IF i <= 1 THEN <<e>>[i] ELSE history[i - 1]
    <2> HIDE DEF s
    <2>1. Len(history) \in Nat
        BY LenProperties
    <2> QED
        BY <1>1, <2>1, ConcatProperties DEF s
<1>3. s[1] = e /\ \A i \in 2..Len(s) : s[i] = history[i - 1]
    <2> HIDE DEF s
    <2> QED
        BY <1>1, <1>2
<1> HIDE DEF s
<1>4. MaxNotifications \in Nat /\ MaxNotifications >= 1 /\ n \in Nat /\ MaxToasts \in Nat
    BY MaxNotificationsAssumption, MaxToastsAssumption
<1>5. k \in Nat /\ k >= 1 /\ k <= Len(s)
    BY <1>2, <1>4
<1>6. Record(e) = SubSeq(s, 1, k)
    BY DEF Record, Latest, s
<1>7. k = IF n + 1 - m < MaxNotifications THEN n + 1 - m ELSE MaxNotifications
    BY <1>2, <1>4 DEF LatestOf
<1> HIDE DEF k
<1>8. \A i \in 1..k : s[i] \in Entries
    <2> TAKE i \in 1..k
    <2>1. i \in 1..Len(s)
        BY <1>2, <1>5
    <2> QED
        BY <1>2, <2>1, ElementOfSeq
<1>9. /\ SubSeq(s, 1, k) \in Seq(Entries) /\ Len(SubSeq(s, 1, k)) = k
      /\ \A i \in 1..k : SubSeq(s, 1, k)[i] = s[i]
    <2>1. 1 \in Int /\ k \in Int
        BY <1>5
    <2>2. /\ SubSeq(s, 1, k) \in Seq(Entries)
          /\ Len(SubSeq(s, 1, k)) = IF 1 <= k THEN k - 1 + 1 ELSE 0
          /\ \A i \in 1..k - 1 + 1 : SubSeq(s, 1, k)[i] = s[1 + i - 1]
        BY <1>8, <2>1, SubSeqProperties
    <2> QED
        BY <1>5, <2>2
<1>10. \A i \in 1..k : s[i].id = n + 1 - (i - 1)
    <2> TAKE i \in 1..k
    <2>1. CASE i = 1
        BY <1>3, <1>4, <2>1
    <2>2. CASE i # 1
        <3>1. i \in 2..Len(s) /\ i - 1 \in 1..Len(history)
            BY <1>2, <1>5, <2>2
        <3>2. s[i] = history[i - 1] /\ history[i - 1].id = n - (i - 1 - 1)
            BY <1>3, <3>1 DEF LatestOf
        <3> QED
            BY <1>4, <3>1, <3>2
    <2> QED
        BY <2>1, <2>2
<1>11. m \in 0..n + 1
    BY <1>4 DEF LatestOf
<1> QED
    BY <1>6, <1>7, <1>9, <1>10, <1>11 DEF LatestOf

\* Sequences of one domain have one length.
LEMMA SameInterval ==
    ASSUME NEW m \in Nat, NEW n \in Nat, 1..m = 1..n
    PROVE  m = n
<1>1. \A i \in Nat : i \in 1..m <=> i \in 1..n
    OBVIOUS
<1>2. ~(m < n)
    <2>1. n >= 1 => n \in 1..m
        BY <1>1
    <2> QED
        BY <2>1
<1>3. ~(n < m)
    <2>1. m >= 1 => m \in 1..n
        BY <1>1
    <2> QED
        BY <2>1
<1>4. m \in Nat /\ n \in Nat
    OBVIOUS
<1> QED
    BY <1>2, <1>3, <1>4

MarkedRead(s) == [i \in DOMAIN s |-> [s[i] EXCEPT !.read = TRUE]]

\* Reading the history changes none of what it says.
LEMMA ReadIsLatest ==
    ASSUME NEW s \in Seq(Entries), NEW n, NEW m, LatestOf(s, n, m)
    PROVE  MarkedRead(s) \in Seq(Entries) /\ LatestOf(MarkedRead(s), n, m)
<1> DEFINE r == MarkedRead(s)
<1>1. Len(s) \in Nat /\ DOMAIN s = 1..Len(s) /\ \A i \in 1..Len(s) : s[i] \in Entries
    BY LenProperties, ElementOfSeq
<1>2. \A i \in 1..Len(s) : [s[i] EXCEPT !.read = TRUE] \in Entries
                           /\ [s[i] EXCEPT !.read = TRUE].id = s[i].id
    BY <1>1 DEF Entries
<1>3. r \in [1..Len(s) -> Entries] /\ \A i \in 1..Len(s) : r[i].id = s[i].id
    BY <1>1, <1>2 DEF MarkedRead
<1> HIDE DEF r
<1>4. r \in Seq(Entries)
    BY <1>1, <1>3
<1>5. Len(r) \in Nat /\ DOMAIN r = 1..Len(r) /\ DOMAIN r = 1..Len(s)
    BY <1>3, <1>4, LenProperties
<1>6. Len(r) = Len(s)
    BY <1>1, <1>5, SameInterval
<1>7. LatestOf(r, n, m)
    BY <1>3, <1>6 DEF LatestOf
<1> QED
    BY <1>4, <1>7 DEF r

LEMMA NoneIsLatest ==
    ASSUME NEW n \in Nat
    PROVE  <<>> \in Seq(Entries) /\ LatestOf(<<>>, n, n)
BY MaxNotificationsAssumption DEF LatestOf

LEMMA FeedbackStart == FeedbackInit => FeedbackIInv
<1> SUFFICES ASSUME FeedbackInit PROVE FeedbackIInv
    OBVIOUS
<1>1. toasts = {} /\ history = <<>> /\ bell \in Bell /\ bell.added = 0 /\ bell.floor = 0
    BY MaxToastsAssumption DEF FeedbackInit, Bell
<1>2. health \in Health
    BY DEF FeedbackInit, Health
<1> QED
    BY <1>1, <1>2, NoneIsLatest, FeedbackParts

\* Adding, reading and emptying keep the history the latest; whether a toast
\* pops up does not matter to it.
THEOREM FeedbackStep ==
    FeedbackIInv /\ [ToastsNext \/ HealthNext \/ ReloadFeedback]_feedbackVars => FeedbackIInv'
<1> SUFFICES ASSUME FeedbackIInv, [ToastsNext \/ HealthNext \/ ReloadFeedback]_feedbackVars
             PROVE  FeedbackIInv'
    OBVIOUS
<1>0. /\ toasts \subseteq (1..MaxToasts) \X ToastTypes /\ history \in Seq(Entries)
      /\ bell \in Bell /\ health \in Health
      /\ LatestOf(history, bell.added, bell.floor)
      /\ bell.added \in 0..MaxToasts /\ bell.added \in Nat /\ bell.floor \in Nat
    BY FeedbackParts, MaxToastsAssumption DEF Bell
<1>1. ASSUME NEW t \in ToastTypes, AddToast(t) PROVE FeedbackIInv'
    <2> DEFINE n == bell.added + 1
               e == [id |-> n, type |-> t, read |-> FALSE]
    <2>1. /\ n \in 1..MaxToasts /\ n <= MaxToasts
          /\ history' = Record(e) /\ bell' = [bell EXCEPT !.added = n] /\ health' = health
          /\ toasts' \subseteq toasts \cup {<<n, t>>}
        BY <1>0, <1>1, MaxToastsAssumption DEF AddToast
    <2>2. e \in Entries /\ e.id = n
        BY <2>1 DEF Entries
    <2>3. Record(e) \in Seq(Entries) /\ LatestOf(Record(e), n, bell.floor)
        <3> HIDE DEF e
        <3> QED
            BY <1>0, <2>1, <2>2, RecordIsLatest
    <2> HIDE DEF n, e
    <2>4. bell' \in Bell /\ bell'.added = n /\ bell'.floor = bell.floor
        BY <1>0, <2>1 DEF Bell
    <2>5. toasts' \subseteq (1..MaxToasts) \X ToastTypes
        BY <1>0, <2>1
    <2> QED
        BY <1>0, <2>1, <2>3, <2>4, <2>5, FeedbackPartsNext
<1>2. ASSUME NEW t \in toasts, RemoveToast(t) PROVE FeedbackIInv'
    BY <1>0, <1>2, FeedbackPartsNext DEF RemoveToast
<1>3. CASE ToggleBell \/ CloseBell
    <2>1. bell' \in Bell /\ bell'.added = bell.added /\ bell'.floor = bell.floor
        <3>1. CASE ToggleBell
            <4> DEFINE unread == \E i \in DOMAIN history : ~history[i].read
            <4>1. bell' = [bell EXCEPT !.open = ~bell.open,
                                       !.marking = bell.marking \/ (~bell.open /\ unread)]
                BY <3>1 DEF ToggleBell
            <4>2. unread \in BOOLEAN
                OBVIOUS
            <4> HIDE DEF unread
            <4> QED
                BY <1>0, <4>1, <4>2 DEF Bell
        <3>2. CASE CloseBell
            BY <1>0, <3>2 DEF CloseBell, Bell
        <3> QED
            BY <1>3, <3>1, <3>2
    <2>2. UNCHANGED <<toasts, history, health>>
        BY <1>3 DEF ToggleBell, CloseBell
    <2> QED
        BY <1>0, <2>1, <2>2, FeedbackPartsNext
<1>4. CASE MarkAllRead
    <2>1. history' = MarkedRead(history) /\ UNCHANGED <<toasts, health>>
        BY <1>4 DEF MarkAllRead, MarkedRead
    <2>2. bell' \in Bell /\ bell'.added = bell.added /\ bell'.floor = bell.floor
        BY <1>0, <1>4 DEF MarkAllRead, Bell
    <2>3. history' \in Seq(Entries) /\ LatestOf(history', bell.added, bell.floor)
        BY <1>0, <2>1, ReadIsLatest
    <2> QED
        BY <1>0, <2>1, <2>2, <2>3, FeedbackPartsNext
<1>5. CASE ClearAll
    <2>1. history' = <<>> /\ UNCHANGED <<toasts, health>>
        BY <1>5 DEF ClearAll
    <2>2. bell' \in Bell /\ bell'.added = bell.added /\ bell'.floor = bell.added
        BY <1>0, <1>5 DEF ClearAll, Bell
    <2> QED
        BY <1>0, <2>1, <2>2, NoneIsLatest, FeedbackPartsNext
<1>6. CASE HealthNext
    <2>1. UNCHANGED <<toasts, history, bell>>
        BY <1>6 DEF HealthNext, StartCheck, EndCheck, BarTimer
    <2>2. health' \in Health
        <3>1. CASE StartCheck
            BY <1>0, <3>1 DEF StartCheck, Health
        <3>2. CASE EndCheck
            <4> DEFINE Found(a) ==
                    [s \in Services |->
                        IF s \in Asked THEN a[s]
                        ELSE IF s = "Broker" \/ a["Gateway"] = "healthy" THEN a["Gateway"]
                        ELSE "down"]
            <4>1. PICK a \in [Asked -> Answer] :
                      health' = [health EXCEPT !.checking = FALSE, !.bar = "completing",
                                               !.services = Found(a)]
                BY <3>2 DEF EndCheck
            <4>2. a["Gateway"] \in Answer /\ "down" \in Answer
                BY DEF Asked, Services, Answer
            <4>3. Found(a) \in [Services -> Answer \cup {"loading"}]
                BY <4>2
            <4> HIDE DEF Found
            <4> QED
                BY <1>0, <4>1, <4>3 DEF Health
        <3>3. CASE BarTimer
            BY <1>0, <3>3 DEF BarTimer, Health
        <3> QED
            BY <1>6, <3>1, <3>2, <3>3 DEF HealthNext
    <2> QED
        BY <1>0, <2>1, <2>2, FeedbackPartsNext
<1>7. CASE ReloadFeedback
    <2>1. toasts' = {} /\ history' = <<>>
        BY <1>7 DEF ReloadFeedback
    <2>2. bell' \in Bell /\ bell'.added = bell.added /\ bell'.floor = bell.added
        BY <1>0, <1>7 DEF ReloadFeedback, Bell
    <2>3. health' \in Health
        BY <1>7 DEF ReloadFeedback, Health
    <2> QED
        BY <1>0, <2>1, <2>2, <2>3, NoneIsLatest, FeedbackPartsNext
<1>8. CASE UNCHANGED feedbackVars
    BY <1>0, <1>8, FeedbackPartsNext DEF feedbackVars
<1> QED
    BY <1>1, <1>2, <1>3, <1>4, <1>5, <1>6, <1>7, <1>8 DEF ToastsNext

\* The invariant holds in every reachable state, for any number of toasts.
THEOREM FeedbackInvariance == FeedbackSpec => []FeedbackIInv
BY FeedbackStart, FeedbackStep, PTL DEF FeedbackSpec

\* The history is the latest of what was announced, whatever the settings let
\* pop up.
THEOREM LatestHistory == FeedbackSpec => []HistoryIsLatest
<1>1. FeedbackIInv => HistoryIsLatest
    BY DEF FeedbackIInv
<1> QED
    BY <1>1, FeedbackInvariance, PTL

-----------------------------------------------------------------------------
(* The palette and killing all kubexes                                     *)

LEMMA SeqOfFunction ==
    ASSUME NEW S, NEW n \in Nat, NEW f \in [1..n -> S]
    PROVE  f \in Seq(S) /\ Len(f) = n /\ DOMAIN f = 1..n
<1>1. f \in Seq(S) /\ DOMAIN f = 1..n
    OBVIOUS
<1>2. Len(f) \in Nat /\ DOMAIN f = 1..Len(f)
    BY <1>1, LenProperties
<1>3. Len(f) = n
    BY <1>1, <1>2, SameInterval
<1> QED
    BY <1>1, <1>3

\* The commands that match are finitely many, at most all of them.
LEMMA FewMatch ==
    ASSUME NEW q \in Queries
    PROVE  /\ Matching(q) \subseteq DOMAIN Commands /\ IsFiniteSet(Matching(q))
           /\ Cardinality(Matching(q)) \in Nat
           /\ Cardinality(Matching(q)) <= Len(Commands)
<1> DEFINE n == Len(Commands)
<1>1. n \in Nat /\ DOMAIN Commands = 1..n
    BY CommandsAssumption
<1> HIDE DEF n
<1>2. IsFiniteSet(1..n) /\ Cardinality(1..n) = n
    <2>1. 1 \in Int /\ n \in Int
        BY <1>1
    <2>2. Cardinality(1..n) = IF 1 > n THEN 0 ELSE n - 1 + 1
        BY <2>1, FS_Interval
    <2> QED
        BY <1>1, <2>1, <2>2, FS_Interval
<1>3. Matching(q) \subseteq 1..n
    BY <1>1 DEF Matching
<1> QED
    BY <1>1, <1>2, <1>3, FS_Subset, FS_CardinalityType DEF n

\* The scores, and the places where they are the same, put the commands into one
\* order.
LEMMA BetterIsStrict ==
    ASSUME NEW q \in Queries
    PROVE  /\ \A i \in Matching(q) : ~Better(q, i, i)
           /\ \A i, j, k \in Matching(q) : Better(q, i, j) /\ Better(q, j, k) => Better(q, i, k)
           /\ \A i, j \in Matching(q) : i # j => Better(q, i, j) \/ Better(q, j, i)
<1>1. \A i \in Matching(q) : i \in Int /\ q[i] \in Int
    BY CommandsAssumption, QueriesAssumption DEF Matching
<1>2. \A i \in Matching(q) : ~Better(q, i, i)
    BY <1>1 DEF Better
<1>3. \A i, j, k \in Matching(q) : Better(q, i, j) /\ Better(q, j, k) => Better(q, i, k)
    BY <1>1 DEF Better
<1>4. \A i, j \in Matching(q) : i # j => Better(q, i, j) \/ Better(q, j, i)
    BY <1>1 DEF Better
<1> QED
    BY <1>2, <1>3, <1>4

BetterPairs(q) == {p \in Matching(q) \X Matching(q) : Better(q, p[1], p[2])}
SoonerPairs(q) == {p \in Matching(q) \X Matching(q) : Sooner(q, p[1], p[2])}

LEMMA BetterPairsIsStrict ==
    ASSUME NEW q \in Queries
    PROVE  /\ StrictOrder(BetterPairs(q), Matching(q))
           /\ \A i, j \in Matching(q) : <<i, j>> \in BetterPairs(q) <=> Better(q, i, j)
<1>1. \A i, j \in Matching(q) : <<i, j>> \in BetterPairs(q) <=> Better(q, i, j)
    BY DEF BetterPairs
<1> QED
    BY <1>1, BetterIsStrict DEF StrictOrder

\* Every category that has a match has a first one.
LEMMA FirstIsFirst ==
    ASSUME NEW q \in Queries, NEW i \in Matching(q)
    PROVE  /\ First(q, i) \in Matching(q) /\ Akin(i, First(q, i))
           /\ \A k \in Matching(q) : Akin(i, k) => k = First(q, i) \/ Better(q, First(q, i), k)
<1> DEFINE T == {k \in Matching(q) : Akin(i, k)}
<1>1. T \in SUBSET Matching(q) /\ i \in T
    BY DEF Akin
<1>2. PICK r \in T : \A k \in T : k = r \/ <<r, k>> \in BetterPairs(q)
    <2> DEFINE S == Matching(q)
               R == BetterPairs(q)
    <2>1. IsFiniteSet(S) /\ StrictOrder(R, S) /\ T \in SUBSET S /\ T # {}
        BY <1>1, FewMatch, BetterPairsIsStrict
    <2> HIDE DEF S, R, T
    <2>2. \E r \in T : \A k \in T : k = r \/ <<r, k>> \in R
        BY <2>1, RankedHasFirst
    <2> QED
        BY <2>2 DEF R
<1>3. /\ r \in Matching(q) /\ Akin(i, r)
      /\ \A k \in Matching(q) : Akin(i, k) => k = r \/ Better(q, r, k)
    BY <1>2, BetterPairsIsStrict
<1> QED
    BY <1>3 DEF First

\* Commands have the same first match just when they are of one category.
LEMMA FirstsAgree ==
    ASSUME NEW q \in Queries, NEW i \in Matching(q), NEW j \in Matching(q)
    PROVE  First(q, i) = First(q, j) <=> Akin(i, j)
<1>1. /\ First(q, i) \in Matching(q) /\ Akin(i, First(q, i))
      /\ \A k \in Matching(q) : Akin(i, k) => k = First(q, i) \/ Better(q, First(q, i), k)
    BY FirstIsFirst
<1>2. /\ First(q, j) \in Matching(q) /\ Akin(j, First(q, j))
      /\ \A k \in Matching(q) : Akin(j, k) => k = First(q, j) \/ Better(q, First(q, j), k)
    BY FirstIsFirst
<1>3. Akin(i, j) => Akin(i, First(q, j)) /\ Akin(j, First(q, i))
    BY <1>1, <1>2 DEF Akin
<1>4. Akin(i, j) => First(q, i) = First(q, j)
    BY <1>1, <1>2, <1>3, BetterIsStrict
<1>5. First(q, i) = First(q, j) => Akin(i, j)
    BY <1>1, <1>2 DEF Akin
<1> QED
    BY <1>4, <1>5

\* Grouping by category is an order too.
LEMMA SoonerPairsIsStrict ==
    ASSUME NEW q \in Queries
    PROVE  StrictOrder(SoonerPairs(q), Matching(q))
<1>1. \A i, j \in Matching(q) : <<i, j>> \in SoonerPairs(q) <=> Sooner(q, i, j)
    BY DEF SoonerPairs
<1>2. \A i \in Matching(q) : ~Sooner(q, i, i)
    BY BetterIsStrict DEF Sooner, Akin
<1>3. ASSUME NEW i \in Matching(q), NEW j \in Matching(q), NEW k \in Matching(q),
             Sooner(q, i, j), Sooner(q, j, k)
      PROVE  Sooner(q, i, k)
    <2>1. /\ First(q, i) \in Matching(q) /\ First(q, j) \in Matching(q)
          /\ First(q, k) \in Matching(q)
        BY FirstIsFirst
    <2>2. CASE Akin(i, j) /\ Akin(j, k)
        <3>1. Akin(i, k)
            BY <2>2 DEF Akin
        <3> QED
            BY <1>3, <2>2, <3>1, BetterIsStrict DEF Sooner
    <2>3. CASE Akin(i, j) /\ ~Akin(j, k)
        <3>1. ~Akin(i, k) /\ First(q, i) = First(q, j)
            BY <2>3, FirstsAgree DEF Akin
        <3> QED
            BY <1>3, <2>3, <3>1 DEF Sooner
    <2>4. CASE ~Akin(i, j) /\ Akin(j, k)
        <3>1. ~Akin(i, k) /\ First(q, j) = First(q, k)
            BY <2>4, FirstsAgree DEF Akin
        <3> QED
            BY <1>3, <2>4, <3>1 DEF Sooner
    <2>5. CASE ~Akin(i, j) /\ ~Akin(j, k)
        <3>1. Better(q, First(q, i), First(q, j)) /\ Better(q, First(q, j), First(q, k))
            BY <1>3, <2>5 DEF Sooner
        <3>2. Better(q, First(q, i), First(q, k))
            BY <2>1, <3>1, BetterIsStrict
        <3>3. ~Akin(i, k)
            BY <2>1, <3>2, FirstsAgree, BetterIsStrict
        <3> QED
            BY <3>2, <3>3 DEF Sooner
    <2> QED
        BY <2>2, <2>3, <2>4, <2>5
<1>4. ASSUME NEW i \in Matching(q), NEW j \in Matching(q), i # j
      PROVE  Sooner(q, i, j) \/ Sooner(q, j, i)
    <2>1. First(q, i) \in Matching(q) /\ First(q, j) \in Matching(q)
        BY FirstIsFirst
    <2>2. Akin(i, j) <=> Akin(j, i)
        BY DEF Akin
    <2>3. CASE Akin(i, j)
        BY <1>4, <2>2, <2>3, BetterIsStrict DEF Sooner
    <2>4. CASE ~Akin(i, j)
        <3>1. First(q, i) # First(q, j)
            BY <2>4, FirstsAgree
        <3>2. \/ Better(q, First(q, i), First(q, j))
              \/ Better(q, First(q, j), First(q, i))
            BY <2>1, <3>1, BetterIsStrict
        <3> QED
            BY <2>2, <2>4, <3>2 DEF Sooner
    <2> QED
        BY <2>3, <2>4
<1> QED
    BY <1>1, <1>2, <1>3, <1>4 DEF StrictOrder

\* The rows of the palette are as many as the matches that Enter looks among, and
\* both are the matches.
THEOREM RowsAreMatches ==
    ASSUME NEW q \in Queries
    PROVE  /\ Filtered(q) \in Seq(Matching(q)) /\ FlatList(q) \in Seq(Matching(q))
           /\ Len(Filtered(q)) = Cardinality(Matching(q))
           /\ Len(FlatList(q)) = Cardinality(Matching(q))
           /\ \A i \in Matching(q) : /\ \E r \in DOMAIN Filtered(q) : Filtered(q)[r] = i
                                     /\ \E r \in DOMAIN FlatList(q) : FlatList(q)[r] = i
<1> DEFINE M == Matching(q)
           b == Ranked(M, BetterPairs(q))
           s == Ranked(M, SoonerPairs(q))
<1>1. IsFiniteSet(M) /\ Cardinality(M) \in Nat
    BY FewMatch
<1>2. /\ b \in [1..Cardinality(M) -> M]
      /\ \A i \in M : \E r \in DOMAIN b : b[r] = i
    <2>1. StrictOrder(BetterPairs(q), M)
        BY BetterPairsIsStrict
    <2> HIDE DEF M
    <2> QED
        BY <1>1, <2>1, RankedIsSorted
<1>3. /\ s \in [1..Cardinality(M) -> M]
      /\ \A i \in M : \E r \in DOMAIN s : s[r] = i
    <2>1. StrictOrder(SoonerPairs(q), M)
        BY SoonerPairsIsStrict
    <2> HIDE DEF M
    <2> QED
        BY <1>1, <2>1, RankedIsSorted
<1>4. b = Filtered(q) /\ s = FlatList(q)
    BY DEF Filtered, FlatList, BetterPairs, SoonerPairs
<1> HIDE DEF M, b, s
<1>5. b \in Seq(M) /\ Len(b) = Cardinality(M) /\ s \in Seq(M) /\ Len(s) = Cardinality(M)
    BY <1>1, <1>2, <1>3, SeqOfFunction
<1> QED
    BY <1>2, <1>3, <1>4, <1>5 DEF M

\* The matches of each category are next to each other in the order of scores.
Together(q) ==
    \A i, j, k \in Matching(q) :
        Better(q, i, j) /\ Better(q, j, k) /\ Akin(i, k) => Akin(i, j)

\* Where they are, grouping them changes nothing.
LEMMA TogetherStays ==
    ASSUME NEW q \in Queries, Together(q)
    PROVE  SoonerPairs(q) = BetterPairs(q)
<1> SUFFICES ASSUME NEW i \in Matching(q), NEW j \in Matching(q), ~Akin(i, j)
             PROVE  Better(q, First(q, i), First(q, j)) <=> Better(q, i, j)
    BY DEF SoonerPairs, BetterPairs, Sooner
<1> DEFINE f == First(q, i)
           g == First(q, j)
<1>1. /\ f \in Matching(q) /\ Akin(i, f) /\ g \in Matching(q) /\ Akin(j, g)
      /\ i = f \/ Better(q, f, i)
      /\ j = g \/ Better(q, g, j)
    BY FirstIsFirst DEF Akin
<1> HIDE DEF f, g
<1>2. ~Akin(f, j) /\ ~Akin(g, i) /\ Akin(f, i) /\ Akin(g, j) /\ ~Akin(g, f) /\ f # g /\ i # j
    BY <1>1 DEF Akin
<1>3. ASSUME Better(q, f, g), ~Better(q, i, j) PROVE FALSE
    <2>1. Better(q, j, i)
        BY <1>2, <1>3, BetterIsStrict
    <2>2. Better(q, f, j)
        BY <1>1, <1>3, BetterIsStrict
    <2> QED
        BY <1>1, <1>2, <2>1, <2>2 DEF Together
<1>4. ASSUME Better(q, i, j), ~Better(q, f, g) PROVE FALSE
    <2>1. Better(q, g, f)
        BY <1>1, <1>2, <1>4, BetterIsStrict
    <2>2. Better(q, g, i)
        BY <1>1, <2>1, BetterIsStrict
    <2> QED
        BY <1>1, <1>2, <1>4, <2>2 DEF Together
<1> QED
    BY <1>3, <1>4 DEF f, g

\* Where they are not, the grouping tears the order apart.
LEMMA GroupingAgrees ==
    ASSUME NEW q \in Queries, FlatList(q) = Filtered(q)
    PROVE  Together(q)
<1> DEFINE M == Matching(q)
           b == Ranked(M, BetterPairs(q))
           s == Ranked(M, SoonerPairs(q))
<1>1. IsFiniteSet(M) /\ Cardinality(M) \in Nat /\ b = s
    BY FewMatch DEF Filtered, FlatList, BetterPairs, SoonerPairs
<1>2. /\ b \in [1..Cardinality(M) -> M]
      /\ \A i \in M : \E r \in DOMAIN b : b[r] = i
      /\ \A r, t \in DOMAIN b : r < t => <<b[r], b[t]>> \in BetterPairs(q)
    <2>1. StrictOrder(BetterPairs(q), M)
        BY BetterPairsIsStrict
    <2> HIDE DEF M
    <2> QED
        BY <1>1, <2>1, RankedIsSorted
<1>3. \A r, t \in DOMAIN b : r < t => <<b[r], b[t]>> \in SoonerPairs(q)
    <2>1. StrictOrder(SoonerPairs(q), M)
        BY SoonerPairsIsStrict
    <2>2. \A r, t \in DOMAIN s : r < t => <<s[r], s[t]>> \in SoonerPairs(q)
        <3> HIDE DEF M
        <3> QED
            BY <1>1, <2>1, RankedIsSorted
    <2> QED
        BY <1>1, <2>2
<1> HIDE DEF b, s
<1>4. ASSUME NEW i \in M, NEW j \in M, Better(q, i, j) PROVE Sooner(q, i, j)
    <2>1. PICK r \in DOMAIN b, t \in DOMAIN b : b[r] = i /\ b[t] = j
        BY <1>2
    <2>2. r \in Nat /\ t \in Nat
        BY <1>1, <1>2
    <2>3. ~Better(q, j, i) /\ i # j
        BY <1>4, BetterIsStrict
    <2>4. r # t /\ ~(t < r)
        <3>1. t < r => <<j, i>> \in BetterPairs(q)
            BY <1>2, <2>1
        <3> QED
            BY <2>1, <2>3, <3>1 DEF BetterPairs
    <2>5. <<i, j>> \in SoonerPairs(q)
        BY <1>3, <2>1, <2>2, <2>4
    <2> QED
        BY <2>5 DEF SoonerPairs
<1>5. ASSUME NEW i \in M, NEW j \in M, NEW k \in M,
             Better(q, i, j), Better(q, j, k), Akin(i, k), ~Akin(i, j)
      PROVE  FALSE
    <2>1. ~Akin(j, k) /\ First(q, i) = First(q, k)
        BY <1>5, FirstsAgree DEF Akin
    <2>2. Better(q, First(q, i), First(q, j)) /\ Better(q, First(q, j), First(q, i))
        BY <1>4, <1>5, <2>1 DEF Sooner
    <2>3. First(q, i) \in Matching(q) /\ First(q, j) \in Matching(q)
        BY FirstIsFirst
    <2> QED
        BY <2>2, <2>3, BetterIsStrict
<1> QED
    BY <1>5 DEF Together

\* The row that is shown as selected is the one Enter runs just when the matches
\* of each category are next to each other in the order of their scores: what
\* CommandPalette groups by category for the rows it only sorts for Enter.
THEOREM SelectedIsRun ==
    ASSUME NEW q \in Queries
    PROVE  FlatList(q) = Filtered(q) <=> Together(q)
<1>1. Together(q) => FlatList(q) = Filtered(q)
    BY TogetherStays DEF FlatList, Filtered, SoonerPairs, BetterPairs
<1> QED
    BY <1>1, GroupingAgrees

\* So it is as long as all matches score the same, as they do with nothing typed,
\* if the commands of each category stand next to each other in the array.
THEOREM UntypedIsRun ==
    ASSUME NEW q \in Queries,
           \A i, j \in Matching(q) : q[i] = q[j],
           \A i, j, k \in DOMAIN Commands : i < j /\ j < k /\ Akin(i, k) => Akin(i, j)
    PROVE  FlatList(q) = Filtered(q)
<1>1. \A i, j \in Matching(q) : Better(q, i, j) => i < j
    BY CommandsAssumption, QueriesAssumption DEF Better, Matching
<1>2. Together(q)
    BY <1>1, FewMatch DEF Together
<1> QED
    BY <1>2, SelectedIsRun

\* A kill-all request is out just while the flag of the frame says so.
KillOk(k) ==
    /\ k \in [asked : 0..MaxAsked, typed : BOOLEAN, loading : BOOLEAN, sent : Nat]
    /\ k.sent <= 1 /\ (k.sent = 1 <=> k.loading)

Places == [path : Paths, last : Paths \cup {"none"}]
Palettes == [query : Queries, selected : -1..Len(Commands)]

ShellIInv == ShellTypeOK /\ KillAllOnce

LEMMA ShellParts ==
    ShellIInv <=> /\ at \in Places /\ open \subseteq Overlays /\ keys \in BOOLEAN
                  /\ palette \in Palettes /\ KillOk(kill)
BY DEF ShellIInv, ShellTypeOK, KillAllOnce, Places, Palettes, KillOk

LEMMA ShellPartsNext ==
    ShellIInv' <=> /\ at' \in Places /\ open' \subseteq Overlays /\ keys' \in BOOLEAN
                   /\ palette' \in Palettes /\ KillOk(kill')
BY DEF ShellIInv, ShellTypeOK, KillAllOnce, Places, Palettes, KillOk, Overlays

LEMMA MountedIsPlace ==
    ASSUME NEW p \in Paths, NEW last \in Paths \cup {"none"}
    PROVE  MountedAt(p, last) \in Places
BY DEF MountedAt, Places

LEMMA ClosedIsPalette == ClosedPalette \in Palettes
BY CommandsAssumption, QueriesAssumption DEF ClosedPalette, Palettes

LEMMA NothingKilled ==
    KillOk([asked |-> 0, typed |-> FALSE, loading |-> FALSE, sent |-> 0])
BY MaxAskedAssumption DEF KillOk

LEMMA ShellStart == ShellInit => ShellIInv
<1> SUFFICES ASSUME ShellInit PROVE ShellIInv
    OBVIOUS
<1>1. at \in Places
    BY MountedIsPlace DEF ShellInit
<1>2. open = {} /\ keys = FALSE /\ palette = ClosedPalette /\ KillOk(kill)
    BY NothingKilled DEF ShellInit
<1> QED
    BY <1>1, <1>2, ClosedIsPalette, ShellParts

\* Navigation, and the overlays that stay open.
LEMMA ShowKeeps ==
    ASSUME at \in Places, NEW p \in Paths, NEW overlays \in SUBSET Overlays, Show(p, overlays)
    PROVE  at' \in Places /\ open' \subseteq Overlays
BY DEF Show, Places

LEMMA RunKeeps ==
    ASSUME ShellIInv, NEW i \in DOMAIN Commands, RunCommand(i)
    PROVE  ShellIInv'
<1>0. /\ at \in Places /\ open \subseteq Overlays /\ keys \in BOOLEAN
      /\ palette \in Palettes /\ KillOk(kill)
    BY ShellParts
<1>1. UNCHANGED <<keys, palette, kill>>
    BY DEF RunCommand
<1>2. at' \in Places /\ open' \subseteq Overlays
    <2>1. CASE Commands[i].path = "none"
        <3>1. open' = (open \ {"palette"}) \cup {"dispatch"} /\ at' = at
            BY <2>1 DEF RunCommand
        <3>2. "dispatch" \in Overlays
            BY DEF Overlays
        <3> QED
            BY <1>0, <3>1, <3>2
    <2>2. CASE Commands[i].path # "none"
        <3>1. Commands[i].path \in Paths
            BY <2>2, CommandsAssumption
        <3>2. Show(Commands[i].path, open \ {"palette"})
            BY <2>2 DEF RunCommand
        <3>3. open \ {"palette"} \in SUBSET Overlays
            BY <1>0
        <3> QED
            BY <1>0, <3>1, <3>2, <3>3, ShowKeeps
    <2> QED
        BY <2>1, <2>2
<1> QED
    BY <1>0, <1>1, <1>2, ShellPartsNext

\* The flag that keeps a second request back is the frame's, so no opening and
\* closing of the dialog lets one out.
THEOREM ShellStep == ShellIInv /\ [ShellNext]_shellVars => ShellIInv'
<1> SUFFICES ASSUME ShellIInv, [ShellNext]_shellVars PROVE ShellIInv'
    OBVIOUS
<1>0. /\ at \in Places /\ open \subseteq Overlays /\ keys \in BOOLEAN
      /\ palette \in Palettes /\ KillOk(kill)
    BY ShellParts
<1>1. CASE ReloadShell
    <2>1. at' \in Places
        <3>1. at.path \in Paths /\ at.last \in Paths \cup {"none"}
            BY <1>0 DEF Places
        <3> QED
            BY <1>1, <3>1, MountedIsPlace DEF ReloadShell
    <2>2. open' = {} /\ keys' = FALSE /\ palette' = ClosedPalette /\ KillOk(kill')
        BY <1>1, NothingKilled DEF ReloadShell
    <2> QED
        BY <2>1, <2>2, ClosedIsPalette, ShellPartsNext
<1>2. ASSUME NEW p \in Paths, Follow(p) \/ PressPage(p) PROVE ShellIInv'
    <2>1. Show(p, open) /\ keys' \in BOOLEAN /\ UNCHANGED <<palette, kill>>
        BY <1>0, <1>2 DEF Follow, PressPage
    <2>2. at' \in Places /\ open' \subseteq Overlays
        BY <1>0, <2>1, ShowKeeps
    <2> QED
        BY <1>0, <2>1, <2>2, ShellPartsNext
<1>3. ASSUME NEW o \in Overlays, Toggle(o) PROVE ShellIInv'
    <2>1. open' \subseteq Overlays /\ UNCHANGED <<at, keys, kill>>
        BY <1>0, <1>3 DEF Toggle
    <2>2. palette' \in {ClosedPalette, palette}
        BY <1>3 DEF Toggle, Reopened
    <2>3. palette' \in Palettes
        BY <1>0, <2>2, ClosedIsPalette
    <2> QED
        BY <1>0, <2>1, <2>3, ShellPartsNext
<1>4. ASSUME NEW o \in Overlays, CloseOverlay(o) PROVE ShellIInv'
    BY <1>0, <1>4, ShellPartsNext DEF CloseOverlay
<1>5. ASSUME NEW b \in BOOLEAN, Escape(b) PROVE ShellIInv'
    <2>1. open' \subseteq open /\ UNCHANGED <<at, keys, palette, kill>>
        BY <1>5 DEF Escape
    <2> QED
        BY <1>0, <2>1, ShellPartsNext
<1>6. ASSUME NEW b \in BOOLEAN, MoveSelection(b) PROVE ShellIInv'
    <2> DEFINE s == palette.selected
               n == Len(Filtered(palette.query))
               m == Len(Commands)
               t == IF b THEN SmallerOf(s + 1, n - 1) ELSE IF s > 0 THEN s - 1 ELSE 0
    <2>1. palette.query \in Queries /\ s \in -1..m /\ m \in Nat
        BY <1>0, CommandsAssumption DEF Palettes
    <2>2. n \in Nat /\ n <= m
        BY <2>1, RowsAreMatches, FewMatch
    <2>3. palette' = [palette EXCEPT !.selected = t] /\ UNCHANGED <<at, open, keys, kill>>
        BY <1>6 DEF MoveSelection
    <2> HIDE DEF s, n, m
    <2>4. t \in -1..m
        BY <2>1, <2>2 DEF SmallerOf
    <2> HIDE DEF t
    <2>5. palette' \in Palettes
        BY <1>0, <2>3, <2>4 DEF Palettes, m
    <2> QED
        BY <1>0, <2>3, <2>5, ShellPartsNext
<1>7. CASE PressG \/ ForgetG
    BY <1>0, <1>7, ShellPartsNext DEF PressG, ForgetG
<1>8. ASSUME NEW q \in Queries, Type(q) PROVE ShellIInv'
    <2>1. palette' \in Palettes
        BY <1>8, CommandsAssumption DEF Type, Palettes
    <2> QED
        BY <1>0, <1>8, <2>1, ShellPartsNext DEF Type
<1>9. ASSUME NEW i \in 0..Len(Commands) - 1, Hover(i) PROVE ShellIInv'
    <2>1. i \in -1..Len(Commands)
        BY <1>9, CommandsAssumption
    <2>2. palette' \in Palettes
        BY <1>0, <1>9, <2>1 DEF Hover, Palettes
    <2> QED
        BY <1>0, <1>9, <2>2, ShellPartsNext DEF Hover
<1>10. CASE Enter \/ Click
    <2>1. palette.query \in Queries
        BY <1>0 DEF Palettes
    <2> DEFINE q == palette.query
    <2>2. /\ Filtered(q) \in Seq(Matching(q)) /\ FlatList(q) \in Seq(Matching(q))
          /\ Matching(q) \subseteq DOMAIN Commands
        BY <2>1, RowsAreMatches, FewMatch
    <2>3. \A i \in DOMAIN Filtered(q) : Filtered(q)[i] \in DOMAIN Commands
        BY <2>2
    <2>4. \A i \in DOMAIN FlatList(q) : FlatList(q)[i] \in DOMAIN Commands
        BY <2>2
    <2>5. PICK i \in DOMAIN Commands : RunCommand(i)
        BY <1>10, <2>3, <2>4 DEF Enter, Click
    <2> QED
        BY <2>5, RunKeeps
<1>11. CASE AskKillAll \/ OpenKillAll \/ TypePhrase \/ ConfirmKillAll \/ KilledAll
    <2>1. open' \subseteq Overlays /\ UNCHANGED <<at, keys, palette>>
        BY <1>0, <1>11
        DEF AskKillAll, OpenKillAll, TypePhrase, ConfirmKillAll, KilledAll, Overlays
    <2>2. KillOk(kill')
        <3> DEFINE Kill(n, t, l, m) == [asked |-> n, typed |-> t, loading |-> l, sent |-> m]
        <3>0. /\ kill = Kill(kill.asked, kill.typed, kill.loading, kill.sent)
              /\ kill.asked \in 0..MaxAsked /\ kill.asked \in Int /\ kill.typed \in BOOLEAN
              /\ kill.loading \in BOOLEAN /\ kill.sent \in Nat
              /\ kill.sent <= 1 /\ (kill.sent = 1 <=> kill.loading)
              /\ MaxAsked \in Nat
            BY <1>0, MaxAskedAssumption DEF KillOk
        <3>1. ASSUME NEW n \in 0..MaxAsked, NEW t \in BOOLEAN, NEW l \in BOOLEAN,
                     NEW m \in Nat, m <= 1, m = 1 <=> l
              PROVE  KillOk(Kill(n, t, l, m))
            BY <3>1 DEF KillOk
        <3>2. CASE AskKillAll
            <4>1. kill' = Kill(kill.asked + 1, kill.typed, kill.loading, kill.sent)
                BY <3>0, <3>2 DEF AskKillAll
            <4>2. kill.asked + 1 \in 0..MaxAsked
                BY <3>0, <3>2 DEF AskKillAll
            <4> QED
                BY <3>0, <3>1, <4>1, <4>2
        <3>3. CASE OpenKillAll
            <4> DEFINE still == kill.typed /\ "killAll" \in open
            <4>1. kill' = Kill(kill.asked - 1, still, kill.loading, kill.sent) /\ kill.asked > 0
                BY <3>0, <3>3 DEF OpenKillAll
            <4>2. still \in BOOLEAN /\ kill.asked - 1 \in 0..MaxAsked
                BY <3>0, <4>1
            <4> HIDE DEF still, Kill
            <4> QED
                BY <3>0, <3>1, <4>1, <4>2
        <3>4. CASE TypePhrase
            <4>1. kill' = Kill(kill.asked, ~kill.typed, kill.loading, kill.sent)
                BY <3>0, <3>4 DEF TypePhrase
            <4> HIDE DEF Kill
            <4> QED
                BY <3>0, <3>1, <4>1
        <3>5. CASE ConfirmKillAll
            <4>1. kill' = Kill(kill.asked, kill.typed, TRUE, kill.sent + 1) /\ ~kill.loading
                BY <3>0, <3>5 DEF ConfirmKillAll
            <4>2. kill.sent + 1 = 1
                BY <3>0, <4>1
            <4>3. KillOk(Kill(kill.asked, kill.typed, TRUE, 1))
                BY <3>0 DEF KillOk
            <4> HIDE DEF Kill
            <4> QED
                BY <4>1, <4>2, <4>3
        <3>6. CASE KilledAll
            <4>1. kill' = Kill(kill.asked, kill.typed, FALSE, kill.sent - 1) /\ kill.sent > 0
                BY <3>0, <3>6 DEF KilledAll
            <4>2. kill.sent - 1 = 0
                BY <3>0, <4>1
            <4>3. KillOk(Kill(kill.asked, kill.typed, FALSE, 0))
                BY <3>0 DEF KillOk
            <4> HIDE DEF Kill
            <4> QED
                BY <4>1, <4>2, <4>3
        <3> QED
            BY <1>11, <3>2, <3>3, <3>4, <3>5, <3>6
    <2> QED
        BY <1>0, <2>1, <2>2, ShellPartsNext
<1>12. CASE UNCHANGED shellVars
    BY <1>0, <1>12, ShellPartsNext DEF shellVars
<1> QED
    BY <1>1, <1>2, <1>3, <1>4, <1>5, <1>6, <1>7, <1>8, <1>9, <1>10, <1>11, <1>12 DEF ShellNext

\* The invariant holds in every reachable state, for any pages and commands.
THEOREM ShellInvariance == ShellSpec => []ShellIInv
BY ShellStart, ShellStep, PTL DEF ShellSpec

\* No second request to kill all kubexes goes out while one runs.
THEOREM KillsAllOnce == ShellSpec => []KillAllOnce
<1>1. ShellIInv => KillAllOnce
    BY DEF ShellIInv
<1> QED
    BY <1>1, ShellInvariance, PTL

-----------------------------------------------------------------------------
(* The chat                                                                *)

Composers == [text : Texts \cup {Blank}, cap : ChatCaps \cup {Blank},
              index : -1..(SentLimit - 1), buffer : Texts \cup {Blank}, advanced : BOOLEAN]

InputOk(c, s) ==
    c \in Composers /\ s \in Seq(Sent) /\ Len(s) <= SentLimit /\ c.index < Len(s)

ChatOk(c) ==
    c \in [sending : BOOLEAN, locked : BOOLEAN, made : 0..MaxTasks,
           active : 0..MaxTasks, stream : 0..MaxTasks, hitl : 0..MaxTasks]

PendingOk(p) ==
    p \in [dispatches : SUBSET (Task \X Sent), loops : SUBSET Task, stray : BOOLEAN,
           looks : SUBSET ({"open", "guard"} \X Task), cancel : 0..MaxTasks]

ScrollOk(s) == s \in [auto : BOOLEAN, fresh : BOOLEAN]

\* SaidToBeIn, of any messages.
SaidIn(ms, a, n) ==
    \E i \in 1..n : ms[i].who = a /\ ms[i].joined /\ \A j \in i + 1..n : ms[j].who # a

\* NoticesAreTrue, of any messages and any who take part.
FeedOk(ms, who) ==
    /\ ms \in Seq(Messages) /\ who \subseteq Participants
    /\ \A a \in Participants :
          /\ \A n \in 1..Len(ms) : ms[n].who = a => (ms[n].joined <=> ~SaidIn(ms, a, n - 1))
          /\ a \in who <=> SaidIn(ms, a, Len(ms))

RoomIInv == RoomTypeOK /\ NoticesAreTrue

LEMMA RoomParts ==
    RoomIInv <=> /\ InputOk(composer, sent) /\ favorites \subseteq ChatCaps
                 /\ FeedOk(feed, present) /\ ChatOk(chat) /\ PendingOk(pending)
                 /\ ScrollOk(scroll)
<1>1. PendingOk(pending) <=>
          /\ pending.dispatches \subseteq Task \X Sent
          /\ pending \in [dispatches : {pending.dispatches}, loops : SUBSET Task, stray : BOOLEAN,
                          looks : SUBSET ({"open", "guard"} \X Task), cancel : 0..MaxTasks]
    BY DEF PendingOk
<1>2. RoomTypeOK <=> /\ InputOk(composer, sent) /\ favorites \subseteq ChatCaps
                     /\ feed \in Seq(Messages) /\ present \subseteq Participants
                     /\ ChatOk(chat) /\ PendingOk(pending) /\ ScrollOk(scroll)
    BY <1>1 DEF RoomTypeOK, InputOk, Composers, ChatOk, ScrollOk
<1>3. feed \in Seq(Messages) => DOMAIN feed = 1..Len(feed)
    BY LenProperties
<1>4. feed \in Seq(Messages) /\ present \subseteq Participants =>
          (NoticesAreTrue <=> FeedOk(feed, present))
    BY <1>3 DEF NoticesAreTrue, SaidToBeIn, FeedOk, SaidIn
<1>5. FeedOk(feed, present) => feed \in Seq(Messages) /\ present \subseteq Participants
    BY DEF FeedOk
<1> QED
    BY <1>2, <1>4, <1>5 DEF RoomIInv

LEMMA RoomPartsNext ==
    RoomIInv' <=> /\ InputOk(composer', sent') /\ favorites' \subseteq ChatCaps
                  /\ FeedOk(feed', present') /\ ChatOk(chat') /\ PendingOk(pending')
                  /\ ScrollOk(scroll')
<1>1. PendingOk(pending') <=>
          /\ pending'.dispatches \subseteq Task \X Sent
          /\ pending' \in [dispatches : {pending'.dispatches}, loops : SUBSET Task, stray : BOOLEAN,
                           looks : SUBSET ({"open", "guard"} \X Task), cancel : 0..MaxTasks]
    BY DEF PendingOk
<1>2. RoomTypeOK' <=> /\ InputOk(composer', sent') /\ favorites' \subseteq ChatCaps
                      /\ feed' \in Seq(Messages) /\ present' \subseteq Participants
                      /\ ChatOk(chat') /\ PendingOk(pending') /\ ScrollOk(scroll')
    BY <1>1 DEF RoomTypeOK, InputOk, Composers, ChatOk, ScrollOk, Sent, Messages, Task, Roles,
                Input, Blank, NoOne
<1>3. feed' \in Seq(Messages) => DOMAIN feed' = 1..Len(feed')
    BY LenProperties
<1>4. feed' \in Seq(Messages) /\ present' \subseteq Participants =>
          (NoticesAreTrue' <=> FeedOk(feed', present'))
    BY <1>3 DEF NoticesAreTrue, SaidToBeIn, FeedOk, SaidIn
<1>5. FeedOk(feed', present') => feed' \in Seq(Messages) /\ present' \subseteq Participants
    BY DEF FeedOk
<1> QED
    BY <1>2, <1>4, <1>5 DEF RoomIInv

LEMMA NoOneTakesPart == NoOne \notin Participants
BY NoOneAssumption DEF NoOne

LEMMA MsgType ==
    ASSUME NEW role \in Roles, NEW t \in 0..MaxTasks
    PROVE  Msg(role, t) \in Messages /\ Msg(role, t).who = NoOne
BY DEF Msg, Messages, NoInput, Input

\* A message that is added tells of one who takes part that it has come or gone,
\* or of no one.
LEMMA OneMore ==
    ASSUME NEW ms, NEW who, FeedOk(ms, who), NEW m \in Messages, NEW after \in SUBSET Participants,
           \A a \in Participants :
               IF m.who = a THEN (m.joined <=> a \notin who) /\ (a \in after <=> m.joined)
                            ELSE a \in after <=> a \in who
    PROVE  FeedOk(Append(ms, m), after)
<1> DEFINE more == Append(ms, m)
           L == Len(ms)
<1>1. ms \in Seq(Messages)
    BY DEF FeedOk
<1>2. /\ more \in Seq(Messages) /\ L \in Nat /\ Len(more) = L + 1
      /\ \A i \in 1..L : more[i] = ms[i]
      /\ more[L + 1] = m
    BY <1>1, AppendProperties, LenProperties
<1> HIDE DEF more, L
<1>3. ASSUME NEW a \in Participants, NEW n \in 0..L
      PROVE  SaidIn(more, a, n) <=> SaidIn(ms, a, n)
    <2>1. \A i \in 1..n : more[i] = ms[i] /\ i + 1..n \subseteq 1..n
        BY <1>2
    <2> QED
        BY <2>1 DEF SaidIn
<1>4. ASSUME NEW a \in Participants, m.who = a
      PROVE  SaidIn(more, a, L + 1) <=> m.joined
    <2>1. ASSUME m.joined PROVE SaidIn(more, a, L + 1)
        <3>1. L + 1 \in 1..L + 1 /\ L + 1 + 1..L + 1 = {}
            BY <1>2
        <3> QED
            BY <1>2, <1>4, <2>1, <3>1 DEF SaidIn
    <2>2. ASSUME SaidIn(more, a, L + 1) PROVE m.joined
        <3>1. PICK i \in 1..L + 1 : more[i].joined /\ \A j \in i + 1..L + 1 : more[j].who # a
            BY <2>2 DEF SaidIn
        <3>2. i = L + 1
            <4>1. i # L + 1 => L + 1 \in i + 1..L + 1
                BY <1>2
            <4> QED
                BY <1>2, <1>4, <3>1, <4>1
        <3> QED
            BY <1>2, <3>1, <3>2
    <2> QED
        BY <2>1, <2>2
<1>5. ASSUME NEW a \in Participants, m.who # a
      PROVE  SaidIn(more, a, L + 1) <=> SaidIn(ms, a, L)
    <2>1. ASSUME SaidIn(ms, a, L) PROVE SaidIn(more, a, L + 1)
        <3>1. PICK i \in 1..L : /\ ms[i].who = a /\ ms[i].joined
                                /\ \A j \in i + 1..L : ms[j].who # a
            BY <2>1 DEF SaidIn
        <3>2. i \in 1..L + 1 /\ more[i].who = a /\ more[i].joined
            BY <1>2, <3>1
        <3>3. \A j \in i + 1..L + 1 : more[j].who # a
            <4> TAKE j \in i + 1..L + 1
            <4>1. CASE j = L + 1
                BY <1>2, <1>5, <4>1
            <4>2. CASE j # L + 1
                <5>1. j \in i + 1..L /\ j \in 1..L
                    BY <1>2, <4>2
                <5> QED
                    BY <1>2, <3>1, <5>1
            <4> QED
                BY <4>1, <4>2
        <3> QED
            BY <3>2, <3>3 DEF SaidIn
    <2>2. ASSUME SaidIn(more, a, L + 1) PROVE SaidIn(ms, a, L)
        <3>1. PICK i \in 1..L + 1 : /\ more[i].who = a /\ more[i].joined
                                    /\ \A j \in i + 1..L + 1 : more[j].who # a
            BY <2>2 DEF SaidIn
        <3>2. i \in 1..L
            BY <1>2, <1>5, <3>1
        <3>3. \A j \in i + 1..L : j \in i + 1..L + 1 /\ j \in 1..L
            BY <1>2, <3>2
        <3> QED
            BY <1>2, <3>1, <3>2, <3>3 DEF SaidIn
    <2> QED
        BY <2>1, <2>2
<1>6. ASSUME NEW a \in Participants
      PROVE  /\ \A n \in 1..Len(ms) : ms[n].who = a => (ms[n].joined <=> ~SaidIn(ms, a, n - 1))
             /\ a \in who <=> SaidIn(ms, a, L)
    BY DEF FeedOk, L
<1>7. ASSUME NEW a \in Participants
      PROVE  /\ \A n \in 1..Len(more) :
                    more[n].who = a => (more[n].joined <=> ~SaidIn(more, a, n - 1))
             /\ a \in after <=> SaidIn(more, a, Len(more))
    <2>1. ASSUME NEW n \in 1..L + 1, more[n].who = a
          PROVE  more[n].joined <=> ~SaidIn(more, a, n - 1)
        <3>1. CASE n = L + 1
            <4>1. more[n] = m /\ n - 1 = L /\ L \in 0..L
                BY <1>2, <3>1
            <4>2. m.joined <=> a \notin who
                BY <2>1, <4>1
            <4>3. SaidIn(more, a, L) <=> SaidIn(ms, a, L)
                BY <1>3, <4>1
            <4> QED
                BY <1>6, <4>1, <4>2, <4>3
        <3>2. CASE n # L + 1
            <4>1. n \in 1..L /\ n - 1 \in 0..L /\ more[n] = ms[n]
                BY <1>2, <3>2
            <4>2. ms[n].joined <=> ~SaidIn(ms, a, n - 1)
                BY <1>6, <2>1, <4>1 DEF L
            <4>3. SaidIn(more, a, n - 1) <=> SaidIn(ms, a, n - 1)
                BY <1>3, <4>1
            <4> QED
                BY <4>1, <4>2, <4>3
        <3> QED
            BY <3>1, <3>2
    <2>2. a \in after <=> SaidIn(more, a, L + 1)
        <3>1. CASE m.who = a
            BY <1>4, <3>1
        <3>2. CASE m.who # a
            BY <1>5, <1>6, <3>2
        <3> QED
            BY <3>1, <3>2
    <2> QED
        BY <1>2, <2>1, <2>2
<1> QED
    BY <1>2, <1>7 DEF FeedOk, more

\* A message of no one.
LEMMA OneMoreOfNoOne ==
    ASSUME NEW ms, NEW who, FeedOk(ms, who), NEW m \in Messages, m.who = NoOne
    PROVE  FeedOk(Append(ms, m), who) /\ FeedOk(ms \o <<m>>, who)
<1>1. ms \in Seq(Messages) /\ who \in SUBSET Participants
    BY DEF FeedOk
<1>2. \A a \in Participants : m.who # a
    BY NoOneTakesPart
<1>3. FeedOk(Append(ms, m), who)
    BY <1>1, <1>2, OneMore
<1> QED
    BY <1>1, <1>3, AppendIsConcat

LEMMA NoMessage == FeedOk(<<>>, {})
<1>1. <<>> \in Seq(Messages) /\ Len(<<>>) = 0 /\ 1..0 = {}
    OBVIOUS
<1>2. \A a \in Participants : ~SaidIn(<<>>, a, 0)
    BY <1>1 DEF SaidIn
<1> QED
    BY <1>1, <1>2 DEF FeedOk

LEMMA SomeMessages ==
    ASSUME RoomIInv, NEW m \in Messages, m.who = NoOne, ShowMessages(<<m>>)
    PROVE  FeedOk(feed', present) /\ ScrollOk(scroll')
<1>1. FeedOk(feed, present) /\ ScrollOk(scroll)
    BY RoomParts
<1>2. feed' = feed \o <<m>> /\ scroll' = [scroll EXCEPT !.fresh = ~scroll.auto]
    BY DEF ShowMessages, FollowBottom
<1> QED
    BY <1>1, <1>2, OneMoreOfNoOne DEF ScrollOk

LEMMA FollowKeeps ==
    ASSUME ScrollOk(scroll), FollowBottom
    PROVE  ScrollOk(scroll')
BY DEF ScrollOk, FollowBottom

LEMMA StraysAreTyped ==
    ASSUME PendingOk(pending)
    PROVE  Strays \subseteq BOOLEAN
<1>1. pending.stray \in BOOLEAN
    BY DEF PendingOk
<1>2. (pending.stray \/ chat.stream # 0) \in BOOLEAN
    OBVIOUS
<1> QED
    BY <1>1, <1>2 DEF Strays

LEMMA RoomStart == RoomInit => RoomIInv
<1> SUFFICES ASSUME RoomInit PROVE RoomIInv
    OBVIOUS
<1>1. 0 \in 0..MaxTasks
    BY MaxTasksAssumption
<1>2. -1 \in -1..(SentLimit - 1) /\ Len(<<>>) = 0 /\ -1 < 0 /\ 0 <= SentLimit
    BY SentLimitAssumption
<1>3. InputOk(composer, sent)
    BY <1>2 DEF RoomInit, InputOk, Composers, Empty
<1>4. favorites = {} /\ feed = <<>> /\ present = {}
    BY DEF RoomInit
<1>5. ChatOk(chat)
    BY <1>1 DEF RoomInit, ChatOk
<1>6. PendingOk(pending)
    BY <1>1 DEF RoomInit, PendingOk
<1>7. ScrollOk(scroll)
    BY DEF RoomInit, ScrollOk
<1> QED
    BY <1>3, <1>4, <1>5, <1>6, <1>7, NoMessage, RoomParts

\* Only what is in the input changes.
LEMMA ComposerKeeps ==
    ASSUME RoomIInv, NEW c \in Composers, c.index < Len(sent), composer' = c,
           UNCHANGED othersOfInput
    PROVE  RoomIInv'
BY RoomParts, RoomPartsNext DEF othersOfInput, InputOk

LEMMA RecalledIsTyped ==
    ASSUME NEW c \in Composers, NEW entry \in Sent
    PROVE  Recalled(c, entry) \in Composers /\ Recalled(c, entry).index = c.index
<1>1. entry.text \in Texts \cup {Blank} /\ entry.cap \in ChatCaps \cup {Blank}
    BY DEF Sent
<1>2. CASE entry.cap = Blank
    BY <1>1, <1>2 DEF Recalled, Composers
<1>3. CASE entry.cap # Blank
    BY <1>1, <1>3 DEF Recalled, Composers
<1> QED
    BY <1>2, <1>3

\* Typing, choosing, recalling and trying again.
LEMMA InputKeeps == RoomIInv /\ InputNext => RoomIInv'
<1> SUFFICES ASSUME RoomIInv, InputNext PROVE RoomIInv'
    OBVIOUS
<1>0. /\ composer \in Composers /\ sent \in Seq(Sent) /\ Len(sent) <= SentLimit
      /\ composer.index < Len(sent) /\ favorites \subseteq ChatCaps
      /\ FeedOk(feed, present) /\ ChatOk(chat) /\ PendingOk(pending) /\ ScrollOk(scroll)
    BY RoomParts DEF InputOk
<1>n. /\ SentLimit \in Nat /\ Len(sent) \in Nat /\ composer.index \in Int
      /\ composer.index >= -1 /\ composer.index <= SentLimit - 1
    BY <1>0, SentLimitAssumption, LenProperties DEF Composers
<1>1. ASSUME NEW text \in Texts \cup {Blank}, TypeMessage(text) \/ Prompt(text) PROVE RoomIInv'
    <2>1. composer' = [composer EXCEPT !.text = text] /\ UNCHANGED othersOfInput
        BY <1>1 DEF TypeMessage, Prompt
    <2>2. composer' \in Composers /\ composer'.index = composer.index
        BY <1>0, <2>1 DEF Composers
    <2> QED
        BY <1>0, <2>1, <2>2, ComposerKeeps
<1>2. ASSUME NEW cap \in ChatCaps \cup {Blank}, ChooseCap(cap) PROVE RoomIInv'
    <2>1. composer' = [composer EXCEPT !.cap = cap] /\ UNCHANGED othersOfInput
        BY <1>2 DEF ChooseCap
    <2>2. composer' \in Composers /\ composer'.index = composer.index
        BY <1>0, <2>1 DEF Composers
    <2> QED
        BY <1>0, <2>1, <2>2, ComposerKeeps
<1>3. ASSUME NEW cap \in ChatCaps, StarCap(cap) PROVE RoomIInv'
    <2>1. favorites' \subseteq ChatCaps
        BY <1>0, <1>3 DEF StarCap
    <2>2. UNCHANGED <<composer, sent, feed, chat, pending, present, scroll>>
        BY <1>3 DEF StarCap
    <2> QED
        BY <2>1, <2>2, RoomParts, RoomPartsNext
<1>4. CASE ToggleAdvanced
    <2>1. composer' = [composer EXCEPT !.advanced = ~composer.advanced] /\ UNCHANGED othersOfInput
        BY <1>4 DEF ToggleAdvanced
    <2>2. composer' \in Composers /\ composer'.index = composer.index
        BY <1>0, <2>1 DEF Composers
    <2> QED
        BY <1>0, <2>1, <2>2, ComposerKeeps
<1>5. CASE EscapeInput
    <2>1. /\ composer' = [composer EXCEPT !.text = Blank, !.index = -1, !.buffer = Blank]
          /\ UNCHANGED othersOfInput
        BY <1>5 DEF EscapeInput
    <2>2. -1 \in -1..(SentLimit - 1) /\ -1 < Len(sent)
        BY <1>n, SentLimitAssumption
    <2>3. composer' \in Composers /\ composer'.index = -1
        BY <1>0, <2>1, <2>2 DEF Composers
    <2> QED
        BY <2>1, <2>2, <2>3, ComposerKeeps
<1>6. CASE RecallOlder
    <2> DEFINE i == composer.index + 1
               draft == IF composer.index = -1 THEN composer.text ELSE composer.buffer
               c == [composer EXCEPT !.index = i, !.buffer = draft]
    <2>1. /\ i < Len(sent) /\ composer' = Recalled(c, sent[i + 1]) /\ UNCHANGED othersOfInput
        BY <1>6 DEF RecallOlder
    <2>2. i \in -1..(SentLimit - 1) /\ i + 1 \in 1..Len(sent)
        <3>1. i \in Int /\ i >= 0 /\ i < Len(sent) /\ Len(sent) <= SentLimit
            BY <1>0, <1>n, <2>1
        <3> HIDE DEF i
        <3> QED
            BY <1>n, <3>1
    <2>3. sent[i + 1] \in Sent
        BY <1>0, <2>2, ElementOfSeq
    <2>4. draft \in Texts \cup {Blank}
        BY <1>0 DEF Composers
    <2> HIDE DEF i, draft
    <2>5. c \in Composers /\ c.index = i
        BY <1>0, <2>2, <2>4 DEF Composers
    <2> HIDE DEF c
    <2>6. composer' \in Composers /\ composer'.index = i
        BY <2>1, <2>3, <2>5, RecalledIsTyped
    <2> QED
        BY <2>1, <2>6, ComposerKeeps
<1>7. CASE RecallNewer
    <2> DEFINE i == composer.index - 1
               back == [composer EXCEPT !.index = -1, !.text = composer.buffer, !.buffer = Blank]
               c == [composer EXCEPT !.index = i]
    <2>1. /\ composer.index >= 0 /\ UNCHANGED othersOfInput
          /\ composer' = IF i < 0 THEN back ELSE Recalled(c, sent[i + 1])
        BY <1>7 DEF RecallNewer
    <2>2. CASE i < 0
        <3>1. -1 \in -1..(SentLimit - 1) /\ -1 < Len(sent)
            BY <1>n, SentLimitAssumption
        <3>2. back \in Composers /\ back.index = -1
            BY <1>0, <3>1 DEF Composers
        <3> HIDE DEF back, i
        <3> QED
            BY <2>1, <2>2, <3>1, <3>2, ComposerKeeps
    <2>3. CASE ~(i < 0)
        <3>1. i \in -1..(SentLimit - 1) /\ i + 1 \in 1..Len(sent) /\ i < Len(sent)
            BY <1>0, <1>n, <2>1, <2>3
        <3>2. sent[i + 1] \in Sent
            BY <1>0, <3>1, ElementOfSeq
        <3> HIDE DEF i
        <3>3. c \in Composers /\ c.index = i
            BY <1>0, <3>1 DEF Composers
        <3> HIDE DEF c
        <3>4. composer' \in Composers /\ composer'.index = i
            BY <2>1, <2>3, <3>2, <3>3, RecalledIsTyped
        <3> QED
            BY <2>1, <3>1, <3>4, ComposerKeeps
    <2> QED
        BY <2>2, <2>3
<1>8. ASSUME NEW k \in DOMAIN feed, Retry(feed[k]) PROVE RoomIInv'
    <2> DEFINE r == feed[k].retry
               adv == composer.advanced \/ r.cap # Blank
    <2>1. r \in Input
        <3>1. feed \in Seq(Messages)
            BY <1>0 DEF FeedOk
        <3>2. feed[k] \in Messages
            BY <1>8, <3>1
        <3> QED
            BY <3>2 DEF Messages
    <2>2. /\ composer' = [composer EXCEPT !.text = r.text, !.cap = r.cap, !.advanced = adv]
          /\ UNCHANGED othersOfInput
        BY <1>8 DEF Retry
    <2>3. r.text \in Texts \cup {Blank} /\ r.cap \in ChatCaps \cup {Blank}
        BY <2>1 DEF Input
    <2>4. adv \in BOOLEAN
        OBVIOUS
    <2> HIDE DEF r, adv
    <2>5. composer' \in Composers /\ composer'.index = composer.index
        BY <1>0, <2>2, <2>3, <2>4 DEF Composers
    <2> QED
        BY <1>0, <2>2, <2>5, ComposerKeeps
<1> QED
    BY <1>1, <1>2, <1>3, <1>4, <1>5, <1>6, <1>7, <1>8 DEF InputNext

\* What is shown of a task, and what is awaited of it, changes.
LEMMA TaskKeeps ==
    ASSUME RoomIInv, UNCHANGED <<composer, sent, favorites>>, FeedOk(feed', present'),
           ChatOk(chat'), PendingOk(pending'), ScrollOk(scroll')
    PROVE  RoomIInv'
BY RoomParts, RoomPartsNext

LEMMA SendKeeps == RoomIInv /\ Send => RoomIInv'
<1> SUFFICES ASSUME RoomIInv, Send PROVE RoomIInv'
    OBVIOUS
<1> DEFINE entry == [text |-> composer.text, cap |-> composer.cap]
           n == chat.made + 1
           k == IF Len(sent) < SentLimit THEN Len(sent) + 1 ELSE SentLimit
           s == <<entry>> \o sent
           m == [Msg("user", 0) EXCEPT !.of = n]
<1>0. /\ composer \in Composers /\ sent \in Seq(Sent) /\ Len(sent) <= SentLimit
      /\ favorites \subseteq ChatCaps
      /\ FeedOk(feed, present) /\ ChatOk(chat) /\ PendingOk(pending) /\ ScrollOk(scroll)
    BY RoomParts DEF InputOk
<1>1. /\ composer.text # Blank /\ chat.made < MaxTasks
      /\ sent' = SubSeq(s, 1, k)
      /\ chat' = [chat EXCEPT !.sending = TRUE, !.locked = TRUE, !.made = n, !.hitl = 0]
      /\ pending' = [pending EXCEPT !.dispatches = pending.dispatches \cup {<<n, entry>>}]
      /\ feed' = Append(feed, m)
      /\ composer' = [Empty EXCEPT !.advanced = composer.advanced]
      /\ scroll' = [auto |-> TRUE, fresh |-> FALSE]
      /\ favorites' = favorites /\ present' = present
    BY DEF Send
<1>2. n \in 1..MaxTasks /\ 0 \in 0..MaxTasks /\ n \in 0..MaxTasks
    BY <1>0, <1>1, MaxTasksAssumption DEF ChatOk
<1>3. entry \in Sent
    BY <1>0, <1>1 DEF Composers, Sent
<1>4. m \in Messages /\ m.who = NoOne
    <2>1. Msg("user", 0) \in Messages /\ Msg("user", 0).who = NoOne
        BY <1>2, MsgType DEF Roles
    <2> QED
        BY <1>2, <2>1 DEF Messages
<1>5. Len(sent) \in Nat /\ SentLimit \in Nat /\ SentLimit >= 1
    BY <1>0, LenProperties, SentLimitAssumption
<1>6. <<entry>> \in Seq(Sent) /\ Len(<<entry>>) = 1
    BY <1>3
<1>7. s \in Seq(Sent) /\ Len(s) = Len(sent) + 1
    <2>1. Len(s) = Len(<<entry>>) + Len(sent) /\ s \in Seq(Sent)
        BY <1>0, <1>6, ConcatProperties
    <2> HIDE DEF s, entry
    <2> QED
        BY <1>5, <1>6, <2>1
<1>8. k \in Nat /\ k >= 1 /\ k <= SentLimit /\ k <= Len(sent) + 1
    BY <1>0, <1>5
<1> HIDE DEF entry, n, k, s, m
<1>9. SubSeq(s, 1, k) \in Seq(Sent) /\ Len(SubSeq(s, 1, k)) = k
    <2>1. \A i \in 1..k : s[i] \in Sent
        <3> TAKE i \in 1..k
        <3>1. i \in 1..Len(s)
            BY <1>5, <1>7, <1>8
        <3> QED
            BY <1>7, <3>1, ElementOfSeq
    <2>2. 1 \in Int /\ k \in Int
        BY <1>8
    <2>3. /\ SubSeq(s, 1, k) \in Seq(Sent)
          /\ Len(SubSeq(s, 1, k)) = IF 1 <= k THEN k - 1 + 1 ELSE 0
        BY <2>1, <2>2, SubSeqProperties
    <2> QED
        BY <1>8, <2>3
<1>10. InputOk(composer', sent')
    <2>1. -1 \in -1..(SentLimit - 1) /\ -1 < k
        BY <1>5, <1>8
    <2>2. composer.advanced \in BOOLEAN
        BY <1>0 DEF Composers
    <2>3. composer' \in Composers /\ composer'.index = -1
        BY <1>1, <2>1, <2>2 DEF Composers, Empty
    <2> QED
        BY <1>1, <1>8, <1>9, <2>1, <2>3 DEF InputOk
<1>11. ChatOk(chat')
    BY <1>0, <1>1, <1>2 DEF ChatOk
<1>12. PendingOk(pending')
    <2>1. <<n, entry>> \in Task \X Sent
        BY <1>2, <1>3 DEF Task
    <2> QED
        BY <1>0, <1>1, <2>1 DEF PendingOk
<1>13. FeedOk(feed', present')
    BY <1>0, <1>1, <1>4, OneMoreOfNoOne
<1>14. ScrollOk(scroll')
    BY <1>1 DEF ScrollOk
<1> QED
    BY <1>0, <1>1, <1>10, <1>11, <1>12, <1>13, <1>14, RoomPartsNext

\* What is awaited of the tasks comes about, in any order.
LEMMA FollowNextKeeps == RoomIInv /\ FollowNext => RoomIInv'
<1> SUFFICES ASSUME RoomIInv, FollowNext PROVE RoomIInv'
    OBVIOUS
<1>0. FeedOk(feed, present) /\ ChatOk(chat) /\ PendingOk(pending) /\ ScrollOk(scroll)
    BY RoomParts
<1>t. /\ MaxTasks \in Nat /\ 0 \in 0..MaxTasks
      /\ \A t \in Task : t \in 0..MaxTasks
      /\ chat.active \in 0..MaxTasks /\ pending.cancel \in 0..MaxTasks
      /\ chat.active # 0 => chat.active \in Task
    BY <1>0, MaxTasksAssumption DEF Task, ChatOk, PendingOk
<1>s. Strays \subseteq BOOLEAN
    BY <1>0, StraysAreTyped
<1>r. "error" \in Roles /\ "result" \in Roles /\ "system" \in Roles
    BY DEF Roles
<1>1. ASSUME NEW d \in pending.dispatches, DispatchFails(d) PROVE RoomIInv'
    <2> DEFINE m == [Msg("error", 0) EXCEPT !.retry = d[2]]
    <2>1. d \in Task \X Sent
        BY <1>0 DEF PendingOk
    <2>2. m \in Messages /\ m.who = NoOne
        <3>1. Msg("error", 0) \in Messages /\ Msg("error", 0).who = NoOne
            BY <1>t, <1>r, MsgType
        <3>2. d[2] \in Input
            BY <2>1 DEF Sent, Input
        <3> QED
            BY <3>1, <3>2 DEF Messages
    <2>3. /\ pending' = [pending EXCEPT !.dispatches = pending.dispatches \ {d}]
          /\ chat' = [chat EXCEPT !.sending = FALSE, !.locked = FALSE]
          /\ ShowMessages(<<m>>) /\ UNCHANGED <<composer, sent, favorites, present>>
        BY <1>1 DEF DispatchFails
    <2> HIDE DEF m
    <2>4. FeedOk(feed', present) /\ ScrollOk(scroll')
        BY <2>2, <2>3, SomeMessages
    <2>5. ChatOk(chat')
        BY <1>0, <2>3 DEF ChatOk
    <2>6. PendingOk(pending')
        BY <1>0, <2>3 DEF PendingOk
    <2> QED
        BY <2>3, <2>4, <2>5, <2>6, TaskKeeps
<1>2. ASSUME NEW d \in pending.dispatches, DispatchOk(d) PROVE RoomIInv'
    <2>1. d \in Task \X Sent /\ d[1] \in Task /\ d[1] \in 0..MaxTasks
        BY <1>0, <1>t DEF PendingOk
    <2>2. PICK stray \in Strays :
              pending' = [pending EXCEPT !.dispatches = pending.dispatches \ {d}, !.stray = stray,
                                         !.looks = pending.looks \cup {<<"guard", d[1]>>}]
        BY <1>2 DEF DispatchOk
    <2>3. /\ chat' = [chat EXCEPT !.active = d[1], !.stream = d[1]]
          /\ ShowMessages(<<Msg("system", d[1])>>) /\ UNCHANGED <<composer, sent, favorites, present>>
        BY <1>2 DEF DispatchOk
    <2>4. FeedOk(feed', present) /\ ScrollOk(scroll')
        BY <1>r, <2>1, <2>3, MsgType, SomeMessages
    <2>5. ChatOk(chat')
        BY <1>0, <2>1, <2>3 DEF ChatOk
    <2>6. PendingOk(pending')
        <3>1. <<"guard", d[1]>> \in {"open", "guard"} \X Task /\ stray \in BOOLEAN
            BY <1>s, <2>1
        <3> QED
            BY <1>0, <2>2, <3>1 DEF PendingOk
    <2> QED
        BY <2>3, <2>4, <2>5, <2>6, TaskKeeps
<1>3. CASE Opens
    <2>1. /\ chat.active # 0 /\ FollowBottom
          /\ pending' = [pending EXCEPT !.looks = pending.looks \cup {<<"open", chat.active>>}]
          /\ UNCHANGED <<composer, sent, favorites, feed, chat, present>>
        BY <1>3 DEF Opens
    <2>2. PendingOk(pending')
        BY <1>0, <1>t, <2>1 DEF PendingOk
    <2> QED
        BY <1>0, <2>1, <2>2, FollowKeeps, TaskKeeps
<1>4. ASSUME NEW look \in pending.looks, NEW role \in {"result", "error"}, LookFinds(look, role)
      PROVE  RoomIInv'
    <2>1. look[2] \in 0..MaxTasks /\ role \in Roles
        BY <1>0, <1>t, <1>r DEF PendingOk
    <2>2. PICK stray \in Strays :
              pending' = [pending EXCEPT !.looks = pending.looks \ {look}, !.stray = stray]
        BY <1>4 DEF LookFinds
    <2>3. /\ chat' = [Over(chat) EXCEPT !.sending = FALSE, !.locked = FALSE]
          /\ ShowMessages(<<Msg(role, look[2])>>) /\ UNCHANGED <<composer, sent, favorites, present>>
        BY <1>4 DEF LookFinds
    <2>4. FeedOk(feed', present) /\ ScrollOk(scroll')
        BY <2>1, <2>3, MsgType, SomeMessages
    <2>5. ChatOk(chat')
        BY <1>0, <1>t, <2>3 DEF ChatOk, Over
    <2>6. PendingOk(pending')
        BY <1>0, <1>s, <2>2 DEF PendingOk
    <2> QED
        BY <2>3, <2>4, <2>5, <2>6, TaskKeeps
<1>5. ASSUME NEW look \in pending.looks, LookIsDropped(look) PROVE RoomIInv'
    <2>1. /\ pending' = [pending EXCEPT !.looks = pending.looks \ {look}]
          /\ UNCHANGED <<composer, sent, favorites, feed, chat, present, scroll>>
        BY <1>5 DEF LookIsDropped
    <2>2. PendingOk(pending')
        BY <1>0, <2>1 DEF PendingOk
    <2> QED
        BY <1>0, <2>1, <2>2, TaskKeeps
<1>6. CASE Outputs \/ Asks \/ AnswerQuestion
    <2>1. FollowBottom /\ UNCHANGED <<composer, sent, favorites, feed, pending, present>>
        BY <1>6 DEF Outputs, Asks, AnswerQuestion
    <2>2. ChatOk(chat')
        BY <1>0, <1>t, <1>6 DEF Outputs, Asks, AnswerQuestion, ChatOk
    <2> QED
        BY <1>0, <2>1, <2>2, FollowKeeps, TaskKeeps
<1>7. ASSUME NEW over, NEW left, Complete(over, left), ChatOk(over), PendingOk(left)
      PROVE  RoomIInv'
    <2>1. UNCHANGED <<composer, sent, favorites, feed, present>>
        BY <1>7 DEF Complete
    <2>2. CASE chat.sending /\ chat.active # 0
        <3>1. /\ chat' = [over EXCEPT !.sending = FALSE] /\ FollowBottom
              /\ pending' = [left EXCEPT !.loops = left.loops \cup {chat.active}]
            BY <1>7, <2>2 DEF Complete
        <3>2. ChatOk(chat')
            BY <1>7, <3>1 DEF ChatOk
        <3>3. PendingOk(pending')
            BY <1>7, <1>t, <2>2, <3>1 DEF PendingOk
        <3> QED
            BY <1>0, <2>1, <3>1, <3>2, <3>3, FollowKeeps, TaskKeeps
    <2>3. CASE ~(chat.sending /\ chat.active # 0)
        <3>1. chat' = over /\ pending' = left /\ scroll' = scroll
            BY <1>7, <2>3 DEF Complete
        <3> QED
            BY <1>0, <1>7, <2>1, <3>1, TaskKeeps
    <2> QED
        BY <2>2, <2>3
<1>8. CASE StreamOver
    <2> DEFINE over == [chat EXCEPT !.stream = 0]
    <2>1. ChatOk(over) /\ Complete(over, pending)
        BY <1>0, <1>t, <1>8 DEF StreamOver, ChatOk
    <2> HIDE DEF over
    <2> QED
        BY <1>0, <1>7, <2>1
<1>9. CASE StrayOver
    <2> DEFINE left == [pending EXCEPT !.stray = FALSE]
    <2>1. PendingOk(left) /\ Complete(chat, left)
        BY <1>0, <1>9 DEF StrayOver, PendingOk
    <2> HIDE DEF left
    <2> QED
        BY <1>0, <1>7, <2>1
<1>10. ASSUME NEW role \in {"result", "error"}, NEW t \in pending.loops, LoopEnds(t, role)
       PROVE  RoomIInv'
    <2>1. t \in 0..MaxTasks /\ role \in Roles
        BY <1>0, <1>t, <1>r DEF PendingOk
    <2>2. PICK stray \in Strays :
              pending' = [pending EXCEPT !.loops = pending.loops \ {t}, !.stray = stray]
        BY <1>10 DEF LoopEnds
    <2>3. /\ chat' = Over(chat)
          /\ ShowMessages(<<Msg(role, t)>>) /\ UNCHANGED <<composer, sent, favorites, present>>
        BY <1>10 DEF LoopEnds
    <2>4. FeedOk(feed', present) /\ ScrollOk(scroll')
        BY <2>1, <2>3, MsgType, SomeMessages
    <2>5. ChatOk(chat')
        BY <1>0, <1>t, <2>3 DEF ChatOk, Over
    <2>6. PendingOk(pending')
        BY <1>0, <1>s, <2>2 DEF PendingOk
    <2> QED
        BY <2>3, <2>4, <2>5, <2>6, TaskKeeps
<1>11. CASE Cancel
    <2>1. PICK stray \in Strays :
              pending' = [pending EXCEPT !.cancel = chat.active, !.stray = stray]
        BY <1>11 DEF Cancel
    <2>2. /\ chat' = [Over(chat) EXCEPT !.sending = FALSE, !.locked = FALSE]
          /\ FollowBottom /\ UNCHANGED <<composer, sent, favorites, feed, present>>
        BY <1>11 DEF Cancel
    <2>3. ChatOk(chat')
        BY <1>0, <1>t, <2>2 DEF ChatOk, Over
    <2>4. PendingOk(pending')
        BY <1>0, <1>s, <1>t, <2>1 DEF PendingOk
    <2> QED
        BY <1>0, <2>2, <2>3, <2>4, FollowKeeps, TaskKeeps
<1>12. CASE Cancelled
    <2>1. /\ pending' = [pending EXCEPT !.cancel = 0]
          /\ ShowMessages(<<Msg("error", pending.cancel)>>)
          /\ UNCHANGED <<composer, sent, favorites, chat, present>>
        BY <1>12 DEF Cancelled
    <2>2. FeedOk(feed', present) /\ ScrollOk(scroll')
        BY <1>t, <1>r, <2>1, MsgType, SomeMessages
    <2>3. PendingOk(pending')
        BY <1>0, <1>t, <2>1 DEF PendingOk
    <2> QED
        BY <1>0, <2>1, <2>2, <2>3, TaskKeeps
<1>13. CASE ClearChat
    <2>1. /\ feed' = <<>> /\ present' = {} /\ FollowBottom
          /\ UNCHANGED <<composer, sent, favorites, chat, pending>>
        BY <1>13 DEF ClearChat
    <2> QED
        BY <1>0, <2>1, NoMessage, FollowKeeps, TaskKeeps
<1> QED
    BY <1>1, <1>2, <1>3, <1>4, <1>5, <1>6, <1>8, <1>9, <1>10, <1>11, <1>12, <1>13, SendKeeps
    DEF FollowNext, Dispatching, Looking

\* Who joins or leaves is told of just when it was not, or was, taking part.
LEMMA PeopleKeep == RoomIInv /\ PeopleNext => RoomIInv'
<1> SUFFICES ASSUME RoomIInv, PeopleNext PROVE RoomIInv'
    OBVIOUS
<1>0. /\ FeedOk(feed, present) /\ ChatOk(chat) /\ PendingOk(pending) /\ ScrollOk(scroll)
      /\ feed \in Seq(Messages) /\ present \in SUBSET Participants
    BY RoomParts DEF FeedOk
<1>t. chat.active \in 0..MaxTasks /\ 0 \in 0..MaxTasks
    BY <1>0, MaxTasksAssumption DEF ChatOk
<1>1. ASSUME NEW a \in Participants, NEW joined \in BOOLEAN, joined <=> a \notin present
      PROVE  /\ Notice(a, joined) \in Messages
             /\ FeedOk(Append(feed, Notice(a, joined)),
                       IF joined THEN present \cup {a} ELSE present \ {a})
    <2> DEFINE m == Notice(a, joined)
               after == IF joined THEN present \cup {a} ELSE present \ {a}
    <2>1. Msg("system", chat.active) \in Messages
        BY <1>t, MsgType DEF Roles
    <2>2. m \in Messages /\ m.who = a /\ (m.joined <=> joined)
        BY <2>1 DEF Notice, Messages
    <2>3. after \in SUBSET Participants
        BY <1>0
    <2>4. \A x \in Participants :
              IF m.who = x THEN (m.joined <=> x \notin present) /\ (x \in after <=> m.joined)
                           ELSE x \in after <=> x \in present
        BY <1>1, <2>2
    <2> HIDE DEF m, after
    <2>5. FeedOk(Append(feed, m), after)
        BY <1>0, <2>2, <2>3, <2>4, OneMore
    <2> QED
        BY <2>2, <2>5 DEF m, after
<1>2. ASSUME NEW a \in Participants, Joins(a) PROVE RoomIInv'
    <2>1. /\ a \notin present /\ present' = present \cup {a} /\ feed' = feed \o <<Notice(a, TRUE)>>
          /\ FollowBottom /\ UNCHANGED <<composer, sent, favorites, chat, pending>>
        BY <1>2 DEF Joins, ShowMessages
    <2>2. Notice(a, TRUE) \in Messages /\ FeedOk(Append(feed, Notice(a, TRUE)), present \cup {a})
        BY <1>1, <2>1
    <2>3. feed' = Append(feed, Notice(a, TRUE))
        BY <1>0, <2>1, <2>2, AppendIsConcat
    <2> QED
        BY <1>0, <2>1, <2>2, <2>3, FollowKeeps, TaskKeeps
<1>3. ASSUME NEW a \in Participants, Leaves(a) PROVE RoomIInv'
    <2>1. /\ a \in present /\ present' = present \ {a} /\ feed' = feed \o <<Notice(a, FALSE)>>
          /\ FollowBottom /\ UNCHANGED <<composer, sent, favorites, chat, pending>>
        BY <1>3 DEF Leaves, ShowMessages
    <2>2. Notice(a, FALSE) \in Messages /\ FeedOk(Append(feed, Notice(a, FALSE)), present \ {a})
        BY <1>1, <2>1
    <2>3. feed' = Append(feed, Notice(a, FALSE))
        BY <1>0, <2>1, <2>2, AppendIsConcat
    <2> QED
        BY <1>0, <2>1, <2>2, <2>3, FollowKeeps, TaskKeeps
<1>4. ASSUME NEW role \in {"result", "error"}, NEW a \in Participants \cup {NoOne}, Final(role, a)
      PROVE  RoomIInv'
    <2> DEFINE m == Msg(role, chat.active)
    <2>1. /\ chat' = [chat EXCEPT !.sending = FALSE, !.locked = FALSE, !.stream = 0, !.hitl = 0]
          /\ present' = present \ {a} /\ FollowBottom
          /\ feed' = feed \o ((IF a \in present THEN <<Notice(a, FALSE)>> ELSE <<>>) \o <<m>>)
          /\ UNCHANGED <<composer, sent, favorites>>
        BY <1>4 DEF Final, ShowMessages
    <2>2. PICK stray \in {FALSE, pending.stray} : pending' = [pending EXCEPT !.stray = stray]
        BY <1>4 DEF Final
    <2>3. ChatOk(chat')
        BY <1>0, <1>t, <2>1 DEF ChatOk
    <2>4. PendingOk(pending')
        BY <1>0, <2>2 DEF PendingOk
    <2>5. m \in Messages /\ m.who = NoOne /\ <<m>> \in Seq(Messages)
        <3>1. role \in Roles
            BY DEF Roles
        <3>2. m \in Messages /\ m.who = NoOne
            BY <1>t, <3>1, MsgType
        <3> QED
            BY <3>2
    <2> HIDE DEF m
    <2>6. FeedOk(feed', present')
        <3>1. CASE a \in present
            <4> DEFINE b == Notice(a, FALSE)
            <4>1. b \in Messages /\ FeedOk(Append(feed, b), present \ {a})
                BY <1>0, <1>1, <3>1
            <4> HIDE DEF b
            <4>2. feed' = feed \o (<<b>> \o <<m>>)
                BY <2>1, <3>1 DEF b
            <4>3. feed \o <<b>> = Append(feed, b) /\ <<b>> \in Seq(Messages)
                BY <1>0, <4>1, AppendIsConcat
            <4>4. feed' = (feed \o <<b>>) \o <<m>>
                BY <1>0, <2>5, <4>2, <4>3, ConcatAssociative
            <4> QED
                BY <2>1, <2>5, <4>1, <4>3, <4>4, OneMoreOfNoOne
        <3>2. CASE a \notin present
            <4>1. feed' = feed \o (<<>> \o <<m>>) /\ present' = present
                BY <2>1, <3>2
            <4>2. feed' = feed \o <<m>>
                BY <2>5, <4>1, ConcatEmptySeq
            <4> QED
                BY <1>0, <2>5, <4>1, <4>2, OneMoreOfNoOne
        <3> QED
            BY <3>1, <3>2
    <2> QED
        BY <1>0, <2>1, <2>3, <2>4, <2>6, FollowKeeps, TaskKeeps
<1> QED
    BY <1>2, <1>3, <1>4 DEF PeopleNext

\* Clearing the chat forgets both the notices and who takes part, and a final
\* message takes out whom it tells of, so that the two always agree.
THEOREM RoomStep == RoomIInv /\ [RoomNext]_roomVars => RoomIInv'
<1> SUFFICES ASSUME RoomIInv, [RoomNext]_roomVars PROVE RoomIInv'
    OBVIOUS
<1>1. CASE ScrollNext
    <2>1. UNCHANGED <<composer, sent, favorites, feed, chat, pending, present>>
        BY <1>1 DEF ScrollNext, ScrollUp, ScrollDown
    <2>2. ScrollOk(scroll')
        <3>1. ScrollOk(scroll)
            BY RoomParts
        <3>2. CASE ScrollUp
            BY <3>1, <3>2 DEF ScrollUp, ScrollOk
        <3>3. CASE ScrollDown
            BY <3>3 DEF ScrollDown, ScrollOk
        <3> QED
            BY <1>1, <3>2, <3>3 DEF ScrollNext
    <2> QED
        BY <2>1, <2>2, RoomParts, TaskKeeps
<1>2. CASE UNCHANGED roomVars
    BY <1>2, RoomParts, RoomPartsNext DEF roomVars
<1> QED
    BY <1>1, <1>2, InputKeeps, FollowNextKeeps, PeopleKeep DEF RoomNext

\* The invariant holds in every reachable state, for any participants and tasks.
THEOREM RoomInvariance == RoomSpec => []RoomIInv
BY RoomStart, RoomStep, PTL DEF RoomSpec

\* The notices of who joins and leaves are true, however clearing, cancelling,
\* final messages and streams that outlive their task come together.
THEOREM TrueNotices == RoomSpec => []NoticesAreTrue
<1>1. RoomIInv => NoticesAreTrue
    BY DEF RoomIInv
<1> QED
    BY <1>1, RoomInvariance, PTL

-----------------------------------------------------------------------------
(* The whole                                                               *)

LEMMA ConsoleStarts ==
    Init => SessionInit /\ PreferencesInit /\ FeedbackInit /\ ShellInit /\ RoomInit
BY DEF Init

\* Every step of the chat in the instance is one of the chat.
LEMMA ChatStepIsOne == ChatStep => RoomNext
<1> SUFFICES ASSUME ChatStep PROVE RoomNext
    OBVIOUS
<1>1. Typing => InputNext
    BY DEF Typing, InputNext
<1>2. Send \/ Dispatching \/ Cancel \/ Cancelled \/ StreamOver \/ StrayOver \/ ClearChat
      \/ Looking(pending.looks) => FollowNext
    BY DEF FollowNext
<1> QED
    BY <1>1, <1>2 DEF ChatStep, RoomNext

\* A step of the instance is one of each part, or leaves it alone.
LEMMA ConsoleStep ==
    [Next]_vars => /\ [SessionNext]_sessionVars /\ [PreferencesNext]_preferenceVars
                   /\ [ToastsNext \/ HealthNext \/ ReloadFeedback]_feedbackVars
                   /\ [ShellNext]_shellVars /\ [RoomNext]_roomVars
<1> DEFINE Steps == /\ [SessionNext]_sessionVars /\ [PreferencesNext]_preferenceVars
                    /\ [ToastsNext \/ HealthNext \/ ReloadFeedback]_feedbackVars
                    /\ [ShellNext]_shellVars /\ [RoomNext]_roomVars
<1> SUFFICES ASSUME [Next]_vars PROVE Steps
    OBVIOUS
<1>1. CASE Listed(ListStep)
    <2>1. UNCHANGED <<sessionVars, preferenceVars, feedbackVars, shellVars, roomVars>>
        BY <1>1 DEF Listed, NotList
    <2> QED
        BY <2>1
<1>2. CASE /\ UNCHANGED <<part, sessionVars, preferenceVars, feedbackVars, shellVars, listVars>>
           /\ ChatStep
    BY <1>2, ChatStepIsOne
<1>3. CASE UNCHANGED roomVars /\ SessionNext /\ UNCHANGED <<preferenceVars, feedbackVars, shellVars>>
    BY <1>3
<1>4. CASE UNCHANGED roomVars /\ PreferencesNext /\ UNCHANGED <<sessionVars, feedbackVars, shellVars>>
    BY <1>4
<1>5. CASE UNCHANGED roomVars /\ ToastsNext /\ UNCHANGED <<sessionVars, shellVars, preferenceVars>>
    BY <1>5
<1>6. CASE UNCHANGED roomVars /\ UpdateSettings
           /\ UNCHANGED <<sessionVars, shellVars, feedbackVars>>
    <2>1. PreferencesNext
        BY <1>6 DEF PreferencesNext
    <2> QED
        BY <1>6, <2>1
<1>7. CASE UNCHANGED roomVars /\ ReloadConsole /\ ReloadFeedback
           /\ UNCHANGED <<sessionVars, shellVars>>
    <2>1. PreferencesNext
        BY <1>7 DEF PreferencesNext
    <2> QED
        BY <1>7, <2>1
<1>8. CASE UNCHANGED roomVars /\ HealthNext
           /\ UNCHANGED <<sessionVars, preferenceVars, shellVars>>
    BY <1>8
<1>9. CASE UNCHANGED roomVars /\ ShellNext
           /\ UNCHANGED <<sessionVars, preferenceVars, feedbackVars>>
    BY <1>9
<1>10. CASE UNCHANGED vars
    <2>1. UNCHANGED <<sessionVars, preferenceVars, feedbackVars, shellVars, roomVars>>
        BY <1>10 DEF vars
    <2> QED
        BY <2>1
<1> HIDE DEF Steps
<1> QED
    BY <1>1, <1>2, <1>3, <1>4, <1>5, <1>6, <1>7, <1>8, <1>9, <1>10 DEF Next

\* What holds of signing in, the preferences, what is announced, the frame and
\* the chat by themselves holds where they are put together.
THEOREM ConsoleIsItsParts ==
    Spec => SessionSpec /\ PreferencesSpec /\ FeedbackSpec /\ ShellSpec /\ RoomSpec
BY ConsoleStarts, ConsoleStep, PTL
DEF Spec, SessionSpec, PreferencesSpec, FeedbackSpec, ShellSpec, RoomSpec

\* Every variable of the console has its type, whatever the constants.
THEOREM ConsoleTypes == Spec => []ConsoleTypeOK
<1>1. SessionIInv /\ PreferencesIInv /\ FeedbackIInv /\ ShellIInv /\ RoomIInv => ConsoleTypeOK
    BY DEF SessionIInv, PreferencesIInv, FeedbackIInv, ShellIInv, RoomIInv, ConsoleTypeOK
<1> QED
    BY <1>1, ConsoleIsItsParts, SessionInvariance, PreferencesInvariance, FeedbackInvariance,
       ShellInvariance, RoomInvariance, PTL

\* So each part of the console keeps in MCConsole, where a behavior moves one of
\* them and the toasts read the preferences, what it promises by itself: signed in
\* with the stored profile, what is applied is what is stored, the bell has the
\* latest toasts, one kill-all is out at a time and the chat announces what happened.
THEOREM ConsoleKeepsPromises ==
    Spec => [](ConsoleIsSignedIn /\ CopiesAgree /\ HistoryIsLatest /\ KillAllOnce /\ NoticesAreTrue)
BY ConsoleIsItsParts, SignedIn, AgreeingCopies, LatestHistory, KillsAllOnce, TrueNotices, PTL

===============================================================================
