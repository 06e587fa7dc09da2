------------------------------ MODULE Session ------------------------------
(***************************************************************************)
(* Signing in to the command center: the authorization code flow of        *)
(* services/auth.ts, the gate of App.tsx, the login and callback pages and *)
(* the legacy bearer token.                                                *)
(*                                                                         *)
(* A tab keeps its session storage when the page is loaded again; React's  *)
(* state, and what is awaited, are lost.  Attempts to sign in are          *)
(* numbered: n stands for the verifier, the state, the code, the tokens    *)
(* and the profile of attempt n, and 0 for none.  The provider is          *)
(* external: it answers any attempt, and exchanges a code once and for the *)
(* verifier it was asked with.                                             *)
(***************************************************************************)
EXTENDS Naturals

CONSTANT MaxAttempts   \* bounds the attempts to sign in of a behavior

ASSUME MaxAttemptsAssumption == MaxAttempts \in Nat

VARIABLES
    store,     \* sessionStorage: tokens, whether they are fresh, user, verifier, state
    tab,       \* the build's mode and token, the url, and attempts begun and spent
    view,      \* React's state: what the gate shows, the user, the token, the menu
    awaiting   \* what handleCallback awaits: nothing, the tokens or the profile

sessionVars == <<store, tab, view, awaiting>>

Attempt == 0..MaxAttempts
NoRequest == [what |-> "none", code |-> 0, verifier |-> 0]

SessionTypeOK ==
    /\ store \in [tokens : Attempt, fresh : BOOLEAN, user : Attempt,
                  verifier : Attempt, state : Attempt]
    /\ tab \in [oauth : BOOLEAN, env : BOOLEAN, at : {"app", "provider", "logout"},
                path : {"/", "callback"}, code : Attempt, state : Attempt,
                begun : Attempt, spent : SUBSET (1..MaxAttempts)]
    /\ view \in [gate : {"app", "login", "callback", "failed", "none"}, user : Attempt,
                 token : {"none", "built", "entered"}, loading : BOOLEAN,
                 error : BOOLEAN, menu : BOOLEAN]
    /\ awaiting \in [what : {"none", "tokens", "profile"}, code : Attempt, verifier : Attempt]

\* isAuthenticated: tokens that expire in more than five seconds, or a token
\* in the build.
IsAuthenticated(s) == s.tokens # 0 /\ s.fresh

\* getAccessToken, which the requests of api.ts send: in legacy mode that of
\* the build, whatever the user has entered.
AccessToken == IF tab.oauth THEN store.tokens # 0 ELSE tab.env

\* OAuthGate: the callback page, the login page or the console.
Gate(t, s) ==
    CASE t.path = "callback"               -> "callback"
      [] t.path = "/" /\ t.oauth /\ ~IsAuthenticated(s) -> "login"
      [] OTHER                             -> "app"

\* The page is loaded at the url of t: AuthProvider takes its state from the
\* build and the storage.
Loaded(t, s) ==
    [gate |-> Gate(t, s), user |-> IF t.oauth THEN s.user ELSE 0,
     token |-> IF t.env THEN "built" ELSE "none",
     loading |-> FALSE, error |-> FALSE, menu |-> FALSE]

\* Mutant of Refused: the state is not compared.
RefusedAnyState(t, s) == t.code = 0 \/ s.verifier = 0

\* handleCallback up to its first await: a state that is not the stored one,
\* a missing verifier or an answer without a code is an error.
Refused(t, s) ==
    \/ t.code = 0
    \/ s.state # 0 /\ t.state # s.state
    \/ s.verifier = 0

\* AuthCallbackPage: without OAuth it goes to "/", which the gate does not see.
OpenPage(t, s) ==
    /\ store' = s
    /\ IF t.path = "callback" /\ ~t.oauth THEN
          /\ tab' = [t EXCEPT !.path = "/", !.code = 0, !.state = 0]
          /\ view' = Loaded(t, s)
          /\ awaiting' = NoRequest
       ELSE IF t.path = "callback" /\ Refused(t, s) THEN
          /\ tab' = t
          /\ view' = [Loaded(t, s) EXCEPT !.gate = "failed"]
          /\ awaiting' = NoRequest
       ELSE
          /\ tab' = t
          /\ view' = Loaded(t, s)
          /\ awaiting' = IF t.path = "callback"
                         THEN [what |-> "tokens", code |-> t.code, verifier |-> s.verifier]
                         ELSE NoRequest

NoStore == [tokens |-> 0, fresh |-> FALSE, user |-> 0, verifier |-> 0, state |-> 0]

SessionInit ==
    /\ store = NoStore
    /\ \E o, e \in BOOLEAN :
          tab = [oauth |-> o, env |-> e, at |-> "app", path |-> "/", code |-> 0,
                 state |-> 0, begun |-> 0, spent |-> {}]
    /\ view = Loaded(tab, store)
    /\ awaiting = NoRequest

\* handleLogin of LoginPage; the button is disabled while it loads.
SignIn ==
    /\ view.gate = "login"
    /\ tab.at = "app" /\ ~view.loading
    /\ tab.begun < MaxAttempts
    /\ view' = [view EXCEPT !.loading = TRUE, !.error = FALSE]
    /\ UNCHANGED <<store, tab, awaiting>>

\* login: once the challenge is computed it stores the verifier and the state
\* of a new attempt over those of the last one, and leaves for the provider.
Redirect ==
    /\ view.loading
    /\ LET n == tab.begun + 1 IN
          /\ store' = [store EXCEPT !.verifier = n, !.state = n]
          /\ tab' = [tab EXCEPT !.begun = n, !.at = "provider"]
    /\ view' = [Loaded(tab, store) EXCEPT !.gate = "none"]
    /\ UNCHANGED awaiting

SignInFails ==
    /\ view.loading
    /\ view' = [view EXCEPT !.loading = FALSE, !.error = TRUE]
    /\ UNCHANGED <<store, tab, awaiting>>

\* The provider sends the browser back with the code of attempt n, or with an
\* error: the last attempt, or an earlier one whose page is in the history.
Answered(n, ok) ==
    /\ tab.at = "provider"
    /\ n \in 1..tab.begun
    /\ OpenPage([tab EXCEPT !.at = "app", !.path = "callback",
                            !.code = IF ok THEN n ELSE 0, !.state = n], store)

\* The browser is sent to "/": from the provider, by its history or after
\* the sign-out, or by "Return to Login".
Home ==
    /\ tab.at # "app" \/ view.gate = "failed"
    /\ OpenPage([tab EXCEPT !.at = "app", !.path = "/", !.code = 0, !.state = 0], store)

Reload == tab.at = "app" /\ OpenPage(tab, store)

\* The tokens arrive: they are stored, the verifier and the state removed, and
\* the profile is asked for.
ExchangeOk ==
    /\ awaiting.what = "tokens"
    /\ awaiting.code = awaiting.verifier
    /\ awaiting.code \notin tab.spent
    /\ store' = [store EXCEPT !.tokens = awaiting.code, !.fresh = TRUE,
                              !.verifier = 0, !.state = 0]
    /\ tab' = [tab EXCEPT !.spent = @ \cup {awaiting.code}]
    /\ awaiting' = [awaiting EXCEPT !.what = "profile"]
    /\ UNCHANGED view

\* The exchange is refused or fails; the provider may have spent the code.
ExchangeFails ==
    /\ awaiting.what = "tokens"
    /\ \E spent \in {tab.spent, tab.spent \cup {awaiting.code}} :
          tab' = [tab EXCEPT !.spent = spent]
    /\ view' = [view EXCEPT !.gate = "failed"]
    /\ awaiting' = NoRequest
    /\ UNCHANGED store

\* The profile is stored, or not: it is optional.  The page then goes to "/";
\* neither the gate nor AuthProvider renders again for that.
ProfileDone ==
    /\ awaiting.what = "profile"
    /\ \E user \in {store.user, store.tokens} : store' = [store EXCEPT !.user = user]
    /\ tab' = [tab EXCEPT !.path = "/", !.code = 0, !.state = 0]
    /\ awaiting' = NoRequest
    /\ UNCHANGED view

\* Time passes; refreshToken is called by nothing.
Expire ==
    /\ store.fresh
    /\ store' = [store EXCEPT !.fresh = FALSE]
    /\ UNCHANGED <<tab, view, awaiting>>

\* UserMenu: rendered for whoever is authenticated or has a token.
MenuShown == view.gate = "app" /\ (tab.oauth \/ view.token # "none")

ToggleMenu ==
    /\ MenuShown
    /\ view' = [view EXCEPT !.menu = ~@]
    /\ UNCHANGED <<store, tab, awaiting>>

\* A click outside the menu, or Escape.
CloseMenu ==
    /\ view.menu /\ MenuShown
    /\ view' = [view EXCEPT !.menu = FALSE]
    /\ UNCHANGED <<store, tab, awaiting>>

\* Mutant of SignOut: the user is left in React's state, which renders as before.
SignOutStoreOnly ==
    /\ tab.oauth /\ view.menu /\ MenuShown
    /\ store' = NoStore
    /\ tab' = [tab EXCEPT !.at = "logout"]
    /\ view' = [view EXCEPT !.menu = FALSE]
    /\ UNCHANGED awaiting

\* "Sign out" removes the user from React's state, clears the storage and
\* leaves for the provider's logout.  Before the browser has left, AuthProvider
\* renders without tokens, unless there was no user to remove: then nothing is
\* rendered, and the console stays until it has.
SignOut ==
    /\ tab.oauth /\ view.menu /\ MenuShown
    /\ store' = NoStore
    /\ tab' = [tab EXCEPT !.at = "logout"]
    /\ view' = [view EXCEPT !.gate = IF view.user # 0 THEN "login" ELSE @,
                            !.user = 0, !.menu = FALSE]
    /\ UNCHANGED awaiting

\* A token is entered or cleared: AuthProvider renders, and with it the gate.
TokenSet(token) ==
    /\ view.gate = "app"
    /\ view' = [view EXCEPT !.token = token, !.gate = Gate(tab, store), !.menu = FALSE]
    /\ UNCHANGED <<store, tab, awaiting>>

\* "Clear token", in the menu of legacy mode and on the settings page.
ClearToken == view.token # "none" /\ TokenSet("none")

\* The banner of Layout, shown while no token is configured, asks for one; the
\* settings page replaces any, and offers that with OAuth, too.
EnterToken == TokenSet("entered")

SessionNext ==
    \/ SignIn \/ Redirect \/ SignInFails
    \/ \E n \in 1..MaxAttempts, ok \in BOOLEAN : Answered(n, ok)
    \/ Home \/ Reload
    \/ ExchangeOk \/ ExchangeFails \/ ProfileDone \/ Expire
    \/ ToggleMenu \/ CloseMenu \/ SignOut \/ ClearToken \/ EnterToken

SessionSpec == SessionInit /\ [][SessionNext]_sessionVars

-----------------------------------------------------------------------------

\* A code is exchanged with the verifier of its own attempt, which is the last
\* one begun, and the tokens that are stored are that attempt's: the answer to
\* an earlier one, opened from the history of the browser, is refused by its
\* state, and one that was used by its missing verifier (handleCallback).
LastAttemptWins ==
    [][/\ store'.tokens \in {store.tokens, 0, tab.begun}
       /\ awaiting'.what = "tokens" =>
              awaiting'.code = tab'.begun /\ awaiting'.verifier = tab'.begun]_sessionVars

\* With OAuth the console is shown only while tokens are stored, or while the
\* browser is leaving for the provider's logout, and the profile in its menu is
\* always the stored one: signing out takes both from the storage and the user
\* from React, which does not watch the storage (AuthProvider, logout).
ConsoleIsSignedIn ==
    tab.oauth /\ view.gate = "app" =>
        view.user = store.user /\ (store.tokens # 0 \/ tab.at = "logout")

\* "User is authenticated when valid OAuth tokens are stored" (AuthContext.tsx:7):
\* the console that is shown has tokens that have not expired.
ShownTokensAreValid == tab.oauth /\ view.gate = "app" => IsAuthenticated(store)

\* "Exchanges the authorization code for tokens, then redirects to '/'"
\* (AuthCallbackPage.tsx:5): at "/" the callback page is no longer shown.
CallbackIsLeft == tab.at = "app" /\ tab.path = "/" => view.gate # "callback"

\* "Set VITE_MANAGER_TOKEN or enter a token" (Layout.tsx:679): with a token
\* entered, requests carry one.
EnteredTokenIsSent == ~tab.oauth /\ view.token = "entered" => AccessToken

=============================================================================
