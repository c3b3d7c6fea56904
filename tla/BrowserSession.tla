--------------------------- MODULE BrowserSession ---------------------------
(***************************************************************************)
(* The session as the tabs of one browser see it: the React state of       *)
(* frontend/src/context/AuthContext.js, the localStorage the tabs share,   *)
(* the interceptors of frontend/src/services/api.js, the login and signup  *)
(* pages, the header's logout and the protected routes.                    *)
(*                                                                         *)
(* No tab listens to the others' changes of the storage.  On the server a  *)
(* token is good while its version is the account's; AuthSessions has the  *)
(* steps of login and logout there.                                        *)
(*                                                                         *)
(* refreshUser, updateUser and register of the context are called by       *)
(* nobody; the key 'token' is read as a fallback and written by nobody.    *)
(***************************************************************************)
EXTENDS Integers, FiniteSets

CONSTANTS
    Tabs,
    Accounts,
    MaxVersion,  \* bound on the revocations of an account's tokens
    MaxRequests, \* bound on the requests in flight
    MaxTrouble,  \* bound on answers that are lost, 429 or 5xx
    None

ASSUME BrowserBoundsAssumption ==
    MaxVersion \in Nat /\ MaxRequests \in Nat /\ MaxTrouble \in Nat

VARIABLES
    \* The server.
    registered, \* accounts there are
    version,    \* tokenVersion
    \* The browser.
    token,      \* localStorage ff_token
    storedUser, \* localStorage ff_user
    requests,   \* requests in flight
    \* Each tab.
    user,       \* the context's user
    screen,     \* what is shown
    redirects,  \* tabs with the signup page's setTimeout pending
    \* History.
    foreign,    \* tabs since whose last load, login or logout another one
                \* has changed the token
    signedOut,  \* tabs that have signed out and neither loaded nor logged in since
    trouble

serverVars == <<registered, version>>
storageVars == <<token, storedUser>>
tabVars == <<user, screen, redirects>>
historyVars == <<foreign, signedOut>>
vars == <<serverVars, storageVars, requests, tabVars, historyVars, trouble>>

Tokens == [account : Accounts, version : 0 .. MaxVersion]
ASSUME BrowserNoneAssumption == None \notin Tabs \cup Accounts \cup Tokens

Kinds == {"me", "login", "register", "logout", "api"}

\* "public" is any page that everybody can open, those of login and signup too.
Screens == {"loading", "public", "protected"}

TypeOK ==
    /\ registered \subseteq Accounts
    /\ version \in [Accounts -> 0 .. MaxVersion]
    /\ token \in Tokens \cup {None}
    /\ storedUser \in Accounts \cup {None}
    /\ requests \subseteq [tab : Tabs \cup {None}, kind : Kinds, token : Tokens \cup {None},
                           account : Accounts \cup {None},
                           answer : {"none", "ok", "rejected", "failed"}]
    /\ user \in [Tabs -> Accounts \cup {None}]
    /\ screen \in [Tabs -> Screens]
    /\ redirects \subseteq Tabs /\ foreign \subseteq Tabs /\ signedOut \subseteq Tabs
    /\ trouble \in 0 .. MaxTrouble

\* The tabs are open and signed out.
Init ==
    /\ registered \in SUBSET Accounts
    /\ version = [a \in Accounts |-> 0]
    /\ token = None /\ storedUser = None
    /\ requests = {}
    /\ user = [t \in Tabs |-> None]
    /\ screen = [t \in Tabs |-> "public"]
    /\ redirects = {} /\ foreign = {} /\ signedOut = {}
    /\ trouble = 0

Accepted(k) == k # None /\ k.version = version[k.account]
Owner(k) == IF k = None THEN None ELSE k.account

Request(t, kind, k, a) ==
    [tab |-> t, kind |-> kind, token |-> k, account |-> a, answer |-> "none"]
Pending(t, kind) == {r \in requests : r.tab = t /\ r.kind = kind}

\* Tab t writes the storage: the other tabs do not hear of it.
Store(t, k, a) ==
    /\ token' = k /\ storedUser' = a
    /\ foreign' = (IF k # token THEN Tabs ELSE foreign) \ {t}

\* What a route shows, given the user.
Guarded(s, a) == IF s = "protected" /\ a = None THEN "public" ELSE s

\* clearAuth; a protected page gives way to the login page.  Mutant: the storage only.
ClearAuthStored(t) ==
    /\ Store(t, None, None)
    /\ UNCHANGED <<user, screen>>
ClearAuth(t) ==
    /\ Store(t, None, None)
    /\ user' = [user EXCEPT ![t] = None]
    /\ screen' = [screen EXCEPT ![t] = Guarded(@, None)]

-----------------------------------------------------------------------------
(* Loading and moving.                                                     *)

\* The document is loaded anew: state and timers are gone, what had been asked is
\* executed all the same.  initAuth verifies a token it finds.
Reload(t, rs, k, a) ==
    /\ user' = [user EXCEPT ![t] = None]
    /\ screen' = [screen EXCEPT ![t] = "loading"]
    /\ redirects' = redirects \ {t}
    /\ signedOut' = signedOut \ {t}
    /\ requests' =
          {IF r.tab = t THEN [r EXCEPT !.tab = None] ELSE r : r \in {q \in rs : q.tab # t \/ q.answer = "none"}}
          \cup (IF k # None /\ a # None THEN {Request(t, "me", k, None)} ELSE {})

Load(t) ==
    /\ Cardinality(requests) < MaxRequests
    /\ Reload(t, requests, token, storedUser)
    /\ foreign' = foreign \ {t}
    /\ UNCHANGED <<serverVars, storageVars, trouble>>

\* The loading screen is up until the token has been verified, and a while longer.
\* Mutant: not so long.
LoadedAtOnce(t) == TRUE
Loaded(t) == Pending(t, "me") = {}

LoadingEnds(t) ==
    /\ screen[t] = "loading"
    /\ Loaded(t)
    /\ \E s \in Screens \ {"loading"} : screen' = [screen EXCEPT ![t] = Guarded(s, user[t])]
    /\ UNCHANGED <<serverVars, storageVars, requests, user, redirects, historyVars, trouble>>

Navigate(t, s) ==
    /\ screen[t] # "loading"
    /\ screen' = [screen EXCEPT ![t] = Guarded(s, user[t])]
    /\ UNCHANGED <<serverVars, storageVars, requests, user, redirects, historyVars, trouble>>

-----------------------------------------------------------------------------
(* Asking.                                                                 *)

Ask(r) ==
    /\ Cardinality(requests) < MaxRequests
    /\ requests' = requests \cup {r}
    /\ UNCHANGED <<serverVars, storageVars, user, redirects, historyVars, trouble>>

\* handleSubmit of the login page, which a signed-in user can open too.
Login(t, a) ==
    /\ screen[t] = "public"
    /\ Ask(Request(t, "login", None, a))
    /\ UNCHANGED screen

\* handleSubmit of the signup page.
Signup(t, a) ==
    /\ screen[t] = "public"
    /\ Ask(Request(t, "register", None, a))
    /\ UNCHANGED screen

\* handleLogout of the header does not wait for logout().
Logout(t) ==
    /\ screen[t] # "loading" /\ user[t] # None
    /\ Ask(Request(t, "logout", token, None))
    /\ screen' = [screen EXCEPT ![t] = "public"]

\* A page asks for what needs a session, through the client of api.js.
Call(t) ==
    /\ screen[t] # "loading" /\ user[t] # None
    /\ Ask(Request(t, "api", token, None))
    /\ UNCHANGED screen

-----------------------------------------------------------------------------
(* The server.                                                             *)

Answered(r, a) == requests' = (requests \ {r}) \cup (IF r.tab = None THEN {} ELSE {a})

\* protect: the version of the token against that of the account.
Execute(r) ==
    /\ r.answer = "none"
    /\ r.kind \in {"me", "logout", "api"}
    /\ r.kind = "logout" /\ Accepted(r.token) => version[r.token.account] < MaxVersion
    /\ Answered(r, [r EXCEPT !.answer = IF Accepted(r.token) THEN "ok" ELSE "rejected"])
    /\ version' = IF r.kind = "logout" /\ Accepted(r.token)
                  THEN [version EXCEPT ![r.token.account] = @ + 1] ELSE version
    /\ UNCHANGED <<registered, storageVars, tabVars, historyVars, trouble>>

ExecuteLogin(r) ==
    /\ r.answer = "none" /\ r.kind = "login"
    /\ Answered(r, IF r.account \in registered
                   THEN [r EXCEPT !.answer = "ok",
                         !.token = [account |-> r.account, version |-> version[r.account]]]
                   ELSE [r EXCEPT !.answer = "failed"])
    /\ UNCHANGED <<serverVars, storageVars, tabVars, historyVars, trouble>>

\* register() hands out no token.
ExecuteRegister(r) ==
    /\ r.answer = "none" /\ r.kind = "register"
    /\ Answered(r, [r EXCEPT !.answer = IF r.account \in registered THEN "failed" ELSE "ok"])
    /\ registered' = registered \cup {r.account}
    /\ UNCHANGED <<version, storageVars, tabVars, historyVars, trouble>>

\* The server is not reached, or answers 429 or 5xx.
Fail(r) ==
    /\ r.answer = "none" /\ trouble < MaxTrouble
    /\ trouble' = trouble + 1
    /\ Answered(r, [r EXCEPT !.answer = "failed"])
    /\ UNCHANGED <<serverVars, storageVars, tabVars, historyVars>>

-----------------------------------------------------------------------------
(* Answers.                                                                *)

\* initAuth: the user is the one verified; a token that is not is thrown away,
\* whatever the reason.
MeAnswered(r) ==
    /\ r.kind = "me" /\ r.answer # "none"
    /\ requests' = requests \ {r}
    /\ IF r.answer = "ok"
       THEN /\ user' = [user EXCEPT ![r.tab] = r.token.account]
            /\ storedUser' = r.token.account
            /\ UNCHANGED <<token, screen, foreign>>
       ELSE ClearAuth(r.tab)
    /\ UNCHANGED <<serverVars, redirects, signedOut, trouble>>

\* login() of the context, then the page goes on to the dashboard.
LoginAnswered(r) ==
    /\ r.kind = "login" /\ r.answer # "none"
    /\ requests' = requests \ {r}
    /\ IF r.answer = "ok"
       THEN /\ Store(r.tab, r.token, r.account)
            /\ user' = [user EXCEPT ![r.tab] = r.account]
            /\ screen' = [screen EXCEPT ![r.tab] = "protected"]
            /\ signedOut' = signedOut \ {r.tab}
       ELSE UNCHANGED <<storageVars, user, screen, historyVars>>
    /\ UNCHANGED <<serverVars, redirects, trouble>>

\* The signup page goes to the login page two seconds after its success.
RegisterAnswered(r) ==
    /\ r.kind = "register" /\ r.answer # "none"
    /\ requests' = requests \ {r}
    /\ redirects' = IF r.answer = "ok" THEN redirects \cup {r.tab} ELSE redirects
    /\ UNCHANGED <<serverVars, storageVars, user, screen, historyVars, trouble>>

Redirect(t) ==
    /\ t \in redirects
    /\ redirects' = redirects \ {t}
    /\ screen' = [screen EXCEPT ![t] = "public"]
    /\ UNCHANGED <<serverVars, storageVars, requests, user, historyVars, trouble>>

\* The response interceptor's condition.  Mutant: any error.
UnauthorizedOrFailed(r) == r.answer \in {"rejected", "failed"}
Unauthorized(r) == r.answer = "rejected"

\* On a 401 it empties the storage and loads the login page.
CallAnswered(r) ==
    /\ r.kind \in {"api", "logout"} /\ r.answer # "none"
    /\ IF Unauthorized(r)
       THEN /\ Store(r.tab, None, None)
            /\ Reload(r.tab, requests \ {r}, None, None)
       ELSE /\ requests' = requests \ {r}
            /\ UNCHANGED redirects
            /\ IF r.kind = "logout"
               THEN ClearAuth(r.tab) /\ signedOut' = signedOut \cup {r.tab}
               ELSE UNCHANGED <<storageVars, user, screen, historyVars>>
    /\ UNCHANGED <<serverVars, trouble>>

-----------------------------------------------------------------------------
Serve(r) == Execute(r) \/ ExecuteLogin(r) \/ ExecuteRegister(r)
Deliver(r) == MeAnswered(r) \/ LoginAnswered(r) \/ RegisterAnswered(r) \/ CallAnswered(r)

Next ==
    \/ \E t \in Tabs :
          \/ Load(t) \/ LoadingEnds(t) \/ Logout(t) \/ Call(t) \/ Redirect(t)
          \/ \E s \in Screens \ {"loading"} : Navigate(t, s)
          \/ \E a \in Accounts : Login(t, a) \/ Signup(t, a)
    \/ \E r \in requests : Serve(r) \/ Fail(r) \/ Deliver(r)

Spec == Init /\ [][Next]_vars

-----------------------------------------------------------------------------
(* Properties.                                                             *)

\* A tab that is up shows the user whose token its requests will carry, through every
\* order of logins, logouts, 401s and navigations in it, until another tab changes
\* the token (AuthContext, api.js).
ShownAsStored ==
    \A t \in Tabs \ foreign : screen[t] # "loading" =>
        user[t] = Owner(token)

\* No answer that comes late signs a tab in again that has signed out: not the
\* verification of its start, for one (initAuth and its loading screen, logout).
SignedOutStays == \A t \in signedOut : user[t] = None

\* A token the server accepts leaves the storage by a logout, by a start that could
\* not verify it, or by the answer to a request made with another token.  No failing
\* request of a page signs the user out (api.js, initAuth).
AcceptedTokenKept ==
    [][ Accepted(token) /\ token' = None =>
          \E r \in requests \ requests' :
              r.kind = "logout" \/ r.token # token \/ (r.kind = "me" /\ r.answer = "failed")
      ]_vars

=============================================================================
