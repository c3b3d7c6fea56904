------------------------ MODULE BrowserSessionProofs ------------------------
(***************************************************************************)
(* Proofs about BrowserSession for every set of tabs and accounts and      *)
(* every bound.  The argument: a tab that loads has no request but the     *)
(* verification of its token, at most one, of the token in the storage     *)
(* unless another tab has changed it; so the user of a tab with none is    *)
(* the owner of that token.  A token that was refused once is refused for  *)
(* good, for versions only grow.                                           *)
(***************************************************************************)
EXTENDS BrowserSession, TLAPS

Requests == [tab : Tabs \cup {None}, kind : Kinds, token : Tokens \cup {None},
             account : Accounts \cup {None},
             answer : {"none", "ok", "rejected", "failed"}]

\* What is asked for on behalf of a document that is gone is never answered.  A tab has
\* a verification under way only while it loads, at most one, and nothing else then.
Alone(R, s) ==
    /\ \A r \in R : r.tab = None => r.answer = "none"
    /\ \A r \in R : r.tab # None => (r.kind = "me" <=> s[r.tab] = "loading")
    /\ \A r, q \in R : r.kind = "me" /\ q.kind = "me" /\ r.tab = q.tab /\ r.tab # None => r = q

\* A tab nobody has changed the token of verifies the token of the storage, or has as
\* its user the token's owner.
Shown(R, u, k, f) ==
    /\ \A r \in R : r.kind = "me" => r.token # None
    /\ \A r \in R : r.kind = "me" /\ r.tab \in Tabs \ f => r.token = k
    /\ \A t \in Tabs \ f : (\A r \in R : r.tab = t => r.kind # "me") => u[t] = Owner(k)

\* Logins and registrations are of an account; a login is answered with a token of its.
LoginsOwn(R) ==
    /\ \A r \in R : r.kind \in {"login", "register"} => r.account # None
    /\ \A r \in R : r.kind = "login" /\ r.answer = "ok" =>
          r.token # None /\ r.token.account = r.account

\* No token is of a version to come, and one that was refused is of a version gone.
Past(R, k, v) ==
    /\ k # None => k.version <= v[k.account]
    /\ \A r \in R : r.token # None => r.token.version <= v[r.token.account]
    /\ \A r \in R : r.answer = "rejected" /\ r.token # None => r.token.version < v[r.token.account]

\* The timers and the signed-out tabs are of documents that are up.
Up ==
    /\ \A t \in redirects : screen[t] # "loading"
    /\ \A t \in signedOut : screen[t] # "loading" /\ user[t] = None

StoredTogether == token # None => storedUser # None

SessionInv ==
    /\ TypeOK
    /\ Alone(requests, screen)
    /\ Shown(requests, user, token, foreign)
    /\ LoginsOwn(requests)
    /\ Past(requests, token, version)
    /\ Up
    /\ StoredTogether

LEMMA SessionInvInit == Init => SessionInv
<1> SUFFICES ASSUME Init PROVE SessionInv
  OBVIOUS
<1> USE DEF Init
<1>1. TypeOK
  BY BrowserBoundsAssumption DEF TypeOK, Screens, Tokens
<1>2. Alone(requests, screen) /\ LoginsOwn(requests) /\ Past(requests, token, version)
  BY DEF Alone, LoginsOwn, Past
<1>3. Shown(requests, user, token, foreign) /\ Up /\ StoredTogether
  BY DEF Shown, Owner, Up, StoredTogether
<1> QED
  BY <1>1, <1>2, <1>3 DEF SessionInv

-----------------------------------------------------------------------------
(* Steps of the server.                                                    *)

LEMMA AnswerStep ==
    ASSUME SessionInv, NEW r \in requests, NEW a \in Requests, Answered(r, a),
           r.answer = "none", a.tab = r.tab, a.kind = r.kind, a.account = r.account,
           a.kind # "login" => a.token = r.token,
           a.kind = "login" /\ a.answer = "ok" => a.token # None /\ a.token.account = a.account,
           version' \in [Accounts -> 0 .. MaxVersion],
           \A b \in Accounts : version[b] <= version'[b],
           a.token # None => a.token.version <= version'[a.token.account],
           a.answer = "rejected" /\ a.token # None => a.token.version < version'[a.token.account],
           registered' \subseteq Accounts, trouble' \in 0 .. MaxTrouble,
           UNCHANGED <<storageVars, tabVars, historyVars>>
    PROVE  SessionInv'
<1> USE DEF storageVars, tabVars, historyVars
<1>1. requests \subseteq Requests /\ requests' \subseteq requests \cup {a}
      /\ (r.tab # None => a \in requests') /\ (r.tab = None => a \notin requests' \/ a \in requests \ {r})
      /\ requests \ {r} \subseteq requests' /\ requests' \subseteq (requests \ {r}) \cup {a}
  BY DEF SessionInv, TypeOK, Answered, Requests
<1>2. TypeOK'
  BY <1>1 DEF SessionInv, TypeOK, Requests
<1>3. Alone(requests', screen')
  <2>1. \A q \in requests' : q.tab = None => q.answer = "none"
    BY <1>1 DEF SessionInv, Alone, Answered
  <2>2. \A q \in requests' : q.tab # None => (q.kind = "me" <=> screen'[q.tab] = "loading")
    BY <1>1 DEF SessionInv, Alone
  <2>3. ASSUME NEW p \in requests', NEW q \in requests', p.kind = "me", q.kind = "me",
               p.tab = q.tab, p.tab # None
        PROVE  p = q
    BY <1>1, <2>3 DEF SessionInv, Alone
  <2> QED
    BY <2>1, <2>2, <2>3 DEF Alone
<1>4. Shown(requests', user', token', foreign')
  <2>1. \A q \in requests' : q.kind = "me" => q.token # None
    BY <1>1 DEF SessionInv, Shown
  <2>2. \A q \in requests' : q.kind = "me" /\ q.tab \in Tabs \ foreign' => q.token = token'
    BY <1>1 DEF SessionInv, Shown
  <2>3. ASSUME NEW t \in Tabs \ foreign', \A q \in requests' : q.tab = t => q.kind # "me"
        PROVE  user'[t] = Owner(token')
    <3>1. \A q \in requests : q.tab = t => q.kind # "me"
      BY <1>1, <2>3, BrowserNoneAssumption
    <3> QED
      BY <3>1 DEF SessionInv, Shown
  <2> QED
    BY <2>1, <2>2, <2>3 DEF Shown
<1>5. LoginsOwn(requests')
  BY <1>1 DEF SessionInv, LoginsOwn
<1>6. Past(requests', token', version')
  <2>1. \A k \in Tokens : k.account \in Accounts /\ k.version \in Nat
    BY DEF Tokens
  <2>2. \A b \in Accounts : version[b] \in Nat /\ version'[b] \in Nat
    BY DEF SessionInv, TypeOK
  <2>3. token # None => token.version <= version'[token.account]
    BY <2>1, <2>2 DEF SessionInv, TypeOK, Past
  <2>4. \A q \in requests : q.token # None => q.token.version <= version'[q.token.account]
    BY <1>1, <2>1, <2>2 DEF SessionInv, Past, Requests
  <2>5. \A q \in requests : q.answer = "rejected" /\ q.token # None =>
            q.token.version < version'[q.token.account]
    BY <1>1, <2>1, <2>2 DEF SessionInv, Past, Requests
  <2> QED
    BY <1>1, <2>3, <2>4, <2>5 DEF Past
<1>7. Up' /\ StoredTogether'
  BY DEF SessionInv, Up, StoredTogether
<1> QED
  BY <1>2, <1>3, <1>4, <1>5, <1>6, <1>7 DEF SessionInv

LEMMA ExecuteStep ==
    ASSUME SessionInv, NEW r \in requests, Execute(r)
    PROVE  SessionInv'
<1> DEFINE a == [r EXCEPT !.answer = IF Accepted(r.token) THEN "ok" ELSE "rejected"]
<1>1. r \in Requests
  BY DEF SessionInv, TypeOK, Requests
<1>2. /\ a \in Requests /\ a.tab = r.tab /\ a.kind = r.kind /\ a.account = r.account
      /\ a.token = r.token /\ a.answer = IF Accepted(r.token) THEN "ok" ELSE "rejected"
  BY <1>1 DEF Requests
<1>3. r.token # None => r.token.account \in Accounts /\ r.token.version \in Nat
  BY <1>1 DEF Requests, Tokens
<1>4. \A b \in Accounts : version[b] \in Nat
  BY DEF SessionInv, TypeOK
<1>5. version' \in [Accounts -> 0 .. MaxVersion] /\ \A b \in Accounts : version[b] <= version'[b]
  <2>1. CASE r.kind = "logout" /\ Accepted(r.token)
    <3>1. version[r.token.account] < MaxVersion /\ r.token.account \in Accounts
          /\ version' = [version EXCEPT ![r.token.account] = @ + 1]
      BY <1>3, <2>1 DEF Execute, Accepted
    <3>2. version \in [Accounts -> 0 .. MaxVersion]
      BY DEF SessionInv, TypeOK
    <3> QED
      BY <3>1, <3>2, BrowserBoundsAssumption
  <2>2. CASE ~(r.kind = "logout" /\ Accepted(r.token))
    BY <1>4, <2>2 DEF Execute, SessionInv, TypeOK
  <2> QED
    BY <2>1, <2>2
<1>6. r.token # None => r.token.version <= version[r.token.account]
  BY DEF SessionInv, Past
<1>7. \A b \in Accounts : version'[b] \in Nat
  BY <1>5
<1>8. a.token # None => a.token.version <= version'[a.token.account]
  BY <1>2, <1>3, <1>4, <1>5, <1>6, <1>7
<1>9. a.answer = "rejected" /\ a.token # None => a.token.version < version'[a.token.account]
  BY <1>2, <1>3, <1>4, <1>5, <1>6, <1>7 DEF Accepted
<1>10. /\ Answered(r, a) /\ r.answer = "none" /\ a.kind # "login"
       /\ UNCHANGED <<registered, storageVars, tabVars, historyVars, trouble>>
  BY <1>2 DEF Execute
<1>11. registered' \subseteq Accounts /\ trouble' \in 0 .. MaxTrouble
  BY <1>10 DEF SessionInv, TypeOK
<1> HIDE DEF a
<1> QED
  BY <1>2, <1>5, <1>8, <1>9, <1>10, <1>11, AnswerStep

LEMMA ExecuteLoginStep ==
    ASSUME SessionInv, NEW r \in requests, ExecuteLogin(r)
    PROVE  SessionInv'
<1> DEFINE k == [account |-> r.account, version |-> version[r.account]]
           a == IF r.account \in registered
                THEN [r EXCEPT !.answer = "ok", !.token = k]
                ELSE [r EXCEPT !.answer = "failed"]
<1>1. r \in Requests /\ registered \subseteq Accounts
      /\ version \in [Accounts -> 0 .. MaxVersion]
  BY DEF SessionInv, TypeOK, Requests
<1>2. r.account \in registered => k \in Tokens
  BY <1>1 DEF Tokens
<1>3. r.account \in registered => k # None /\ k.account = r.account
                                   /\ k.version = version[r.account]
  BY <1>2, BrowserNoneAssumption
<1>4. a \in Requests /\ a.tab = r.tab /\ a.kind = r.kind /\ a.account = r.account
  BY <1>1, <1>2 DEF Requests
<1>5. /\ Answered(r, a) /\ r.answer = "none" /\ r.kind = "login"
      /\ UNCHANGED <<serverVars, storageVars, tabVars, historyVars, trouble>>
  BY DEF ExecuteLogin
<1>6. \A b \in Accounts : version[b] \in Nat
  BY <1>1
<1>7. r.token # None => r.token.version <= version[r.token.account]
  BY DEF SessionInv, Past
<1>8. r.account \in registered => a.answer = "ok" /\ a.token = k
  BY <1>1 DEF Requests
<1>9. r.account \notin registered => a.answer = "failed" /\ a.token = r.token
  BY <1>1 DEF Requests
<1>10. a.token # None => a.token.version <= version[a.token.account]
  BY <1>1, <1>3, <1>6, <1>7, <1>8, <1>9
<1>11. /\ a.answer # "rejected"
       /\ a.answer = "ok" => a.token # None /\ a.token.account = a.account
  BY <1>3, <1>4, <1>8, <1>9
<1>12. /\ version' = version /\ registered' \subseteq Accounts
       /\ trouble' \in 0 .. MaxTrouble
  BY <1>5 DEF serverVars, SessionInv, TypeOK
<1> HIDE DEF a, k
<1> QED
  BY <1>1, <1>4, <1>5, <1>6, <1>10, <1>11, <1>12, AnswerStep

LEMMA ExecuteRegisterStep ==
    ASSUME SessionInv, NEW r \in requests, ExecuteRegister(r)
    PROVE  SessionInv'
<1> DEFINE a == [r EXCEPT !.answer = IF r.account \in registered THEN "failed" ELSE "ok"]
<1>1. r \in Requests /\ registered \subseteq Accounts
      /\ version \in [Accounts -> 0 .. MaxVersion]
  BY DEF SessionInv, TypeOK, Requests
<1>2. /\ Answered(r, a) /\ r.answer = "none" /\ r.kind = "register"
      /\ registered' = registered \cup {r.account} /\ version' = version
      /\ UNCHANGED <<storageVars, tabVars, historyVars, trouble>>
  BY DEF ExecuteRegister
<1>3. /\ a \in Requests /\ a.tab = r.tab /\ a.kind = r.kind /\ a.account = r.account
      /\ a.token = r.token /\ a.answer # "rejected"
  BY <1>1 DEF Requests
<1>4. r.account \in Accounts
  BY <1>1, <1>2 DEF SessionInv, LoginsOwn, Requests
<1>5. registered' \subseteq Accounts /\ trouble' \in 0 .. MaxTrouble
  BY <1>1, <1>2, <1>4 DEF SessionInv, TypeOK
<1>6. \A b \in Accounts : version[b] \in Nat
  BY <1>1
<1>7. r.token # None => r.token.version <= version[r.token.account]
  BY DEF SessionInv, Past
<1> HIDE DEF a
<1> QED
  BY <1>1, <1>2, <1>3, <1>5, <1>6, <1>7, AnswerStep

LEMMA FailStep ==
    ASSUME SessionInv, NEW r \in requests, Fail(r)
    PROVE  SessionInv'
<1> DEFINE a == [r EXCEPT !.answer = "failed"]
<1>1. r \in Requests /\ registered \subseteq Accounts
      /\ version \in [Accounts -> 0 .. MaxVersion] /\ trouble \in 0 .. MaxTrouble
  BY DEF SessionInv, TypeOK, Requests
<1>2. /\ Answered(r, a) /\ r.answer = "none"
      /\ trouble < MaxTrouble /\ trouble' = trouble + 1
      /\ version' = version /\ registered' = registered
      /\ UNCHANGED <<storageVars, tabVars, historyVars>>
  BY DEF Fail, serverVars
<1>3. /\ a \in Requests /\ a.tab = r.tab /\ a.kind = r.kind /\ a.account = r.account
      /\ a.token = r.token /\ a.answer = "failed"
  BY <1>1 DEF Requests
<1>4. trouble' \in 0 .. MaxTrouble
  BY <1>1, <1>2, BrowserBoundsAssumption
<1>5. \A b \in Accounts : version[b] \in Nat
  BY <1>1
<1>6. r.token # None => r.token.version <= version[r.token.account]
  BY DEF SessionInv, Past
<1> HIDE DEF a
<1> QED
  BY <1>1, <1>2, <1>3, <1>4, <1>5, <1>6, AnswerStep

-----------------------------------------------------------------------------
(* Steps of a tab that is up.                                              *)

\* A tab goes from one screen to another, or on from that of loading.
LEMMA ScreenStep ==
    ASSUME SessionInv, NEW t \in Tabs, NEW s \in Screens \ {"loading"},
           screen' = [screen EXCEPT ![t] = s],
           \A r \in requests : r.tab = t => r.kind # "me",
           redirects' \subseteq redirects,
           UNCHANGED <<serverVars, storageVars, requests, user, historyVars, trouble>>
    PROVE  SessionInv'
<1> USE DEF serverVars, storageVars, historyVars
<1>1. screen \in [Tabs -> Screens] /\ screen' \in [Tabs -> Screens]
      /\ \A u \in Tabs : screen'[u] = IF u = t THEN s ELSE screen[u]
  BY DEF SessionInv, TypeOK
<1>2. TypeOK'
  BY <1>1 DEF SessionInv, TypeOK
<1>3. Alone(requests', screen')
  <2>1. \A r \in requests : r.tab \in Tabs \cup {None}
    BY DEF SessionInv, TypeOK
  <2> QED
    BY <1>1, <2>1 DEF SessionInv, Alone
<1>4. Up'
  BY <1>1 DEF SessionInv, Up, TypeOK
<1> QED
  BY <1>2, <1>3, <1>4 DEF SessionInv, StoredTogether

\* It asks for something.
LEMMA AskStep ==
    ASSUME SessionInv, NEW r \in Requests, Ask(r), r.answer = "none",
           r.tab \in Tabs, screen[r.tab] # "loading", r.kind # "me",
           r.kind \in {"login", "register"} => r.account # None,
           r.token \in {None, token},
           screen' \in {screen, [screen EXCEPT ![r.tab] = "public"]}
    PROVE  SessionInv'
<1> USE DEF serverVars, storageVars, historyVars, Ask
<1>1. screen \in [Tabs -> Screens] /\ screen' \in [Tabs -> Screens]
      /\ \A u \in Tabs : screen'[u] = "loading" <=> screen[u] = "loading"
  BY DEF SessionInv, TypeOK, Screens
<1>2. TypeOK'
  BY <1>1 DEF SessionInv, TypeOK, Requests
<1>3. Alone(requests', screen')
  <2>1. \A q \in requests : q.tab \in Tabs \cup {None}
    BY DEF SessionInv, TypeOK
  <2> QED
    BY <1>1, <2>1, BrowserNoneAssumption DEF SessionInv, Alone
<1>4. Shown(requests', user', token', foreign')
  BY DEF SessionInv, Shown
<1>5. LoginsOwn(requests') /\ Past(requests', token', version')
  BY DEF SessionInv, LoginsOwn, Past
<1>6. Up' /\ StoredTogether'
  BY <1>1 DEF SessionInv, Up, StoredTogether, TypeOK
<1> QED
  BY <1>2, <1>3, <1>4, <1>5, <1>6 DEF SessionInv

\* It loads its document anew.  What had been asked in the old one is for nobody now.
LEMMA ReloadStep ==
    ASSUME SessionInv, NEW t \in Tabs, NEW rs \in SUBSET requests, NEW k, NEW a,
           Reload(t, rs, k, a),
           \A q \in requests : q.tab # t => q \in rs,
           token' \in {token, None}, k = token', a = storedUser',
           storedUser' \in Accounts \cup {None}, token' # None => storedUser' # None,
           foreign' = (IF token' # token THEN Tabs ELSE foreign) \ {t},
           UNCHANGED <<serverVars, trouble>>
    PROVE  SessionInv'
<1> USE DEF serverVars
<1> DEFINE me == Request(t, "me", k, None)
<1>1. user \in [Tabs -> Accounts \cup {None}] /\ screen \in [Tabs -> Screens]
      /\ requests \subseteq Requests /\ token \in Tokens \cup {None}
      /\ foreign \subseteq Tabs /\ redirects \subseteq Tabs /\ signedOut \subseteq Tabs
  BY DEF SessionInv, TypeOK, Requests
<1>2. /\ \A u \in Tabs : user'[u] = IF u = t THEN None ELSE user[u]
      /\ \A u \in Tabs : screen'[u] = IF u = t THEN "loading" ELSE screen[u]
      /\ user' \in [Tabs -> Accounts \cup {None}] /\ screen' \in [Tabs -> Screens]
      /\ redirects' = redirects \ {t} /\ signedOut' = signedOut \ {t}
  BY <1>1 DEF Reload, Screens
<1>3. /\ \A q \in requests' :
            \/ q \in rs /\ q.tab # t
            \/ \E r \in rs : r.tab = t /\ r.answer = "none" /\ q = [r EXCEPT !.tab = None]
            \/ k # None /\ q = me
      /\ \A q \in rs : q.tab # t => q \in requests'
      /\ k # None => me \in requests'
  <2>1. requests' = {IF r.tab = t THEN [r EXCEPT !.tab = None] ELSE r :
                        r \in {q \in rs : q.tab # t \/ q.answer = "none"}}
                    \cup (IF k # None /\ a # None THEN {me} ELSE {})
    BY DEF Reload
  <2>2. k # None => a # None
    OBVIOUS
  <2> QED
    BY <2>1, <2>2
<1>4. /\ me \in Requests /\ me.tab = t /\ me.kind = "me" /\ me.token = k /\ me.answer = "none"
  BY <1>1 DEF Requests, Request, Kinds
<1>5. \A r \in requests : LET q == [r EXCEPT !.tab = None] IN
          q \in Requests /\ q.tab = None /\ q.kind = r.kind /\ q.token = r.token
          /\ q.account = r.account /\ q.answer = r.answer
  BY <1>1 DEF Requests
<1> HIDE DEF me
<1>6. \A q \in requests' :
          \/ q \in requests /\ q \in rs /\ q.tab # t
          \/ q \in Requests /\ q.tab = None /\ q.answer = "none"
             /\ \E r \in requests : q.kind = r.kind /\ q.token = r.token /\ q.account = r.account
          \/ k # None /\ q = me
  <2> SUFFICES ASSUME NEW q \in requests', ~(k # None /\ q = me), ~(q \in rs /\ q.tab # t)
               PROVE  /\ q \in Requests /\ q.tab = None /\ q.answer = "none"
                      /\ \E r \in requests :
                            q.kind = r.kind /\ q.token = r.token /\ q.account = r.account
    OBVIOUS
  <2>1. PICK r \in rs : r.answer = "none" /\ q = [r EXCEPT !.tab = None]
    BY <1>3
  <2> QED
    BY <1>5, <2>1
<1>7. TypeOK'
  <2>1. requests' \subseteq Requests
    BY <1>1, <1>4, <1>6
  <2> QED
    BY <1>1, <1>2, <2>1 DEF SessionInv, TypeOK, Requests
<1>8. Alone(requests', screen')
  <2>1. t # None
    BY BrowserNoneAssumption
  <2>2. \A q \in requests' : q.tab = None => q.answer = "none"
    BY <1>4, <1>6, <2>1 DEF SessionInv, Alone
  <2>3. \A q \in requests' : q.tab # None => (q.kind = "me" <=> screen'[q.tab] = "loading")
    BY <1>1, <1>2, <1>4, <1>6 DEF SessionInv, Alone, Requests
  <2>4. \A p, q \in requests' : p.kind = "me" /\ q.kind = "me" /\ p.tab = q.tab /\ p.tab # None => p = q
    BY <1>4, <1>6 DEF SessionInv, Alone
  <2> QED
    BY <2>2, <2>3, <2>4 DEF Alone
<1>9. Shown(requests', user', token', foreign')
  <2>1. \A q \in requests' : q.kind = "me" => q.token # None
    BY <1>4, <1>6 DEF SessionInv, Shown
  <2>2. \A u \in Tabs \ foreign' : u # t => u \in Tabs \ foreign /\ token' = token
    OBVIOUS
  <2>3. \A q \in requests' : q.kind = "me" /\ q.tab \in Tabs \ foreign' => q.token = token'
    BY <1>4, <1>6, <2>2, BrowserNoneAssumption DEF SessionInv, Shown
  <2>4. ASSUME NEW u \in Tabs \ foreign', \A q \in requests' : q.tab = u => q.kind # "me"
        PROVE  user'[u] = Owner(token')
    <3>1. CASE u = t
      BY <1>2, <1>3, <1>4, <2>4, <3>1 DEF Owner
    <3>2. CASE u # t
      <4>1. \A q \in requests : q.tab = u => q.kind # "me"
        BY <1>3, <2>4, <3>2
      <4> QED
        BY <1>2, <2>2, <3>2, <4>1 DEF SessionInv, Shown
    <3> QED
      BY <3>1, <3>2
  <2> QED
    BY <2>1, <2>3, <2>4 DEF Shown
<1>10. LoginsOwn(requests')
  BY <1>4, <1>6 DEF SessionInv, LoginsOwn
<1>11. Past(requests', token', version')
  BY <1>4, <1>6 DEF SessionInv, Past
<1>12. Up' /\ StoredTogether'
  BY <1>1, <1>2 DEF SessionInv, Up, StoredTogether
<1> QED
  BY <1>7, <1>8, <1>9, <1>10, <1>11, <1>12 DEF SessionInv

-----------------------------------------------------------------------------
(* Answers.                                                                *)

\* Whoever gets an answer is a tab; its verification is the only one it has.
LEMMA AnswerIsATabs ==
    ASSUME SessionInv, NEW r \in requests, r.answer # "none"
    PROVE  /\ r \in Requests /\ r.tab \in Tabs
           /\ r.kind = "me" <=> screen[r.tab] = "loading"
           /\ r.kind = "me" => \A q \in requests \ {r} : q.tab = r.tab => q.kind # "me"
BY BrowserNoneAssumption DEF SessionInv, TypeOK, Requests, Alone

\* An answer that changes nothing but the requests, and perhaps the redirects.
LEMMA DropStep ==
    ASSUME SessionInv, NEW r \in requests, r.kind # "me", requests' = requests \ {r},
           redirects' \subseteq Tabs, \A t \in redirects' : screen[t] # "loading",
           UNCHANGED <<serverVars, storageVars, user, screen, historyVars, trouble>>
    PROVE  SessionInv'
<1> USE DEF serverVars, storageVars, historyVars
<1>1. TypeOK'
  BY DEF SessionInv, TypeOK
<1>2. Alone(requests', screen')
  BY DEF SessionInv, Alone
<1>3. Shown(requests', user', token', foreign')
  BY DEF SessionInv, Shown
<1>4. LoginsOwn(requests') /\ Past(requests', token', version')
  BY DEF SessionInv, LoginsOwn, Past
<1>5. Up' /\ StoredTogether'
  BY DEF SessionInv, Up, StoredTogether
<1> QED
  BY <1>1, <1>2, <1>3, <1>4, <1>5 DEF SessionInv

\* An answer that signs the tab in, as the owner of the token that is then stored, or
\* out: the others do not hear of it.
LEMMA SignStep ==
    ASSUME SessionInv, NEW r \in requests, r.answer # "none", requests' = requests \ {r},
           NEW k \in Tokens \cup {None}, NEW a \in Accounts \cup {None},
           Store(r.tab, k, a), k # None => a # None /\ k.version <= version[k.account],
           user' = [user EXCEPT ![r.tab] = Owner(k)],
           screen' \in [Tabs -> Screens],
           \A t \in Tabs : screen'[t] = "loading" <=> screen[t] = "loading",
           signedOut' \in {signedOut, signedOut \cup {r.tab}, signedOut \ {r.tab}},
           r.tab \in signedOut' => k = None /\ (r.kind = "me" => r.tab \in signedOut),
           UNCHANGED <<serverVars, redirects, trouble>>
    PROVE  SessionInv'
<1> USE DEF serverVars, Store
<1>1. /\ r \in Requests /\ r.tab \in Tabs
      /\ r.kind = "me" <=> screen[r.tab] = "loading"
      /\ r.kind = "me" => \A q \in requests \ {r} : q.tab = r.tab => q.kind # "me"
  BY AnswerIsATabs
<1>2. /\ user \in [Tabs -> Accounts \cup {None}] /\ Owner(k) \in Accounts \cup {None}
      /\ foreign \subseteq Tabs
  BY DEF SessionInv, TypeOK, Owner, Tokens
<1>3. \A t \in Tabs : user'[t] = IF t = r.tab THEN Owner(k) ELSE user[t]
  BY <1>1, <1>2
<1>4. TypeOK'
  BY <1>1, <1>2 DEF SessionInv, TypeOK
<1>5. Alone(requests', screen')
  BY BrowserNoneAssumption DEF SessionInv, Alone, TypeOK
<1>6. \A q \in requests' : q.tab = r.tab => q.kind # "me"
  BY <1>1 DEF SessionInv, Alone
<1>7. Shown(requests', user', token', foreign')
  <2>1. \A q \in requests' : q.kind = "me" => q.token # None
    BY DEF SessionInv, Shown
  <2>2. \A u \in Tabs \ foreign' : u # r.tab => u \in Tabs \ foreign /\ token' = token
    OBVIOUS
  <2>3. \A q \in requests' : q.kind = "me" /\ q.tab \in Tabs \ foreign' => q.token = token'
    BY <1>6, <2>2 DEF SessionInv, Shown
  <2>4. ASSUME NEW u \in Tabs \ foreign', \A q \in requests' : q.tab = u => q.kind # "me"
        PROVE  user'[u] = Owner(token')
    <3>1. CASE u = r.tab
      BY <1>3, <3>1
    <3>2. CASE u # r.tab
      <4>1. \A q \in requests : q.tab = u => q.kind # "me"
        BY <2>4, <3>2
      <4> QED
        BY <1>3, <2>2, <3>2, <4>1 DEF SessionInv, Shown
    <3> QED
      BY <3>1, <3>2
  <2> QED
    BY <2>1, <2>3, <2>4 DEF Shown
<1>8. LoginsOwn(requests') /\ Past(requests', token', version')
  BY DEF SessionInv, LoginsOwn, Past
<1>9. Up'
  BY <1>1, <1>3 DEF SessionInv, Up, TypeOK, Owner
<1>10. StoredTogether'
  BY DEF StoredTogether
<1> QED
  BY <1>4, <1>5, <1>7, <1>8, <1>9, <1>10 DEF SessionInv

LEMMA ClearAuthStep ==
    ASSUME SessionInv, NEW r \in requests, r.answer # "none", requests' = requests \ {r},
           ClearAuth(r.tab),
           signedOut' \in {signedOut, signedOut \cup {r.tab}},
           r.kind = "me" => signedOut' = signedOut,
           UNCHANGED <<serverVars, redirects, trouble>>
    PROVE  SessionInv'
<1>1. r.tab \in Tabs
  BY AnswerIsATabs
<1>2. screen \in [Tabs -> Screens]
  BY DEF SessionInv, TypeOK
<1>3. screen' \in [Tabs -> Screens]
      /\ \A t \in Tabs : screen'[t] = "loading" <=> screen[t] = "loading"
  BY <1>1, <1>2 DEF ClearAuth, Guarded, Screens
<1>4. Store(r.tab, None, None) /\ user' = [user EXCEPT ![r.tab] = Owner(None)]
  BY DEF ClearAuth, Owner
<1> QED
  BY <1>1, <1>3, <1>4, SignStep

LEMMA MeAnsweredStep ==
    ASSUME SessionInv, NEW r \in requests, MeAnswered(r)
    PROVE  SessionInv'
<1> USE DEF serverVars
<1>1. /\ r.kind = "me" /\ r.answer # "none" /\ requests' = requests \ {r}
      /\ UNCHANGED <<serverVars, redirects, signedOut, trouble>>
  BY DEF MeAnswered
<1>2. /\ r \in Requests /\ r.tab \in Tabs /\ screen[r.tab] = "loading"
      /\ \A q \in requests \ {r} : q.tab = r.tab => q.kind # "me"
  BY <1>1, AnswerIsATabs
<1>3. CASE r.answer = "ok"
  <2>1. /\ user' = [user EXCEPT ![r.tab] = r.token.account]
        /\ storedUser' = r.token.account
        /\ UNCHANGED <<token, screen, foreign>>
    BY <1>3 DEF MeAnswered
  <2>2. r.token \in Tokens /\ r.token # None
    BY <1>1, <1>2 DEF Requests, SessionInv, Shown
  <2>3. r.token.account \in Accounts /\ r.token.account # None
    BY <2>2, BrowserNoneAssumption DEF Tokens
  <2>4. \A t \in Tabs : user'[t] = IF t = r.tab THEN r.token.account ELSE user[t]
    BY <1>2, <2>1 DEF SessionInv, TypeOK
  <2>5. TypeOK'
    BY <1>1, <2>1, <2>3 DEF SessionInv, TypeOK
  <2>6. Alone(requests', screen')
    BY <1>1, <2>1 DEF SessionInv, Alone
  <2>7. Shown(requests', user', token', foreign')
    <3>1. \A q \in requests' : q.kind = "me" => q.token # None
      BY <1>1 DEF SessionInv, Shown
    <3>2. \A q \in requests' : q.kind = "me" /\ q.tab \in Tabs \ foreign' => q.token = token'
      BY <1>1, <2>1 DEF SessionInv, Shown
    <3>3. ASSUME NEW u \in Tabs \ foreign', \A q \in requests' : q.tab = u => q.kind # "me"
          PROVE  user'[u] = Owner(token')
      <4>1. CASE u = r.tab
        <5>1. r.token = token
          BY <1>1, <1>2, <2>1, <4>1 DEF SessionInv, Shown
        <5> QED
          BY <2>1, <2>2, <2>4, <4>1, <5>1 DEF Owner
      <4>2. CASE u # r.tab
        <5>1. \A q \in requests : q.tab = u => q.kind # "me"
          BY <1>1, <3>3, <4>2
        <5> QED
          BY <2>1, <2>4, <4>2, <5>1 DEF SessionInv, Shown
      <4> QED
        BY <4>1, <4>2
    <3> QED
      BY <3>1, <3>2, <3>3 DEF Shown
  <2>8. LoginsOwn(requests') /\ Past(requests', token', version')
    BY <1>1, <2>1 DEF SessionInv, LoginsOwn, Past
  <2>9. Up' /\ StoredTogether'
    BY <1>1, <1>2, <2>1, <2>3, <2>4 DEF SessionInv, Up, StoredTogether, TypeOK
  <2> QED
    BY <2>5, <2>6, <2>7, <2>8, <2>9 DEF SessionInv
<1>4. CASE r.answer # "ok"
  BY <1>1, <1>4, ClearAuthStep DEF MeAnswered
<1> QED
  BY <1>3, <1>4

LEMMA LoginAnsweredStep ==
    ASSUME SessionInv, NEW r \in requests, LoginAnswered(r)
    PROVE  SessionInv'
<1>1. /\ r.kind = "login" /\ r.answer # "none" /\ requests' = requests \ {r}
      /\ UNCHANGED <<serverVars, redirects, trouble>>
  BY DEF LoginAnswered
<1>2. r \in Requests /\ r.tab \in Tabs /\ screen[r.tab] # "loading"
  BY <1>1, AnswerIsATabs
<1>3. CASE r.answer = "ok"
  <2>1. /\ Store(r.tab, r.token, r.account)
        /\ user' = [user EXCEPT ![r.tab] = r.account]
        /\ screen' = [screen EXCEPT ![r.tab] = "protected"]
        /\ signedOut' = signedOut \ {r.tab}
    BY <1>3 DEF LoginAnswered
  <2>2. /\ r.token \in Tokens \cup {None} /\ r.account \in Accounts \cup {None}
        /\ r.account # None /\ r.token # None /\ Owner(r.token) = r.account
        /\ r.token.version <= version[r.token.account]
    BY <1>1, <1>2, <1>3 DEF Requests, SessionInv, LoginsOwn, Past, Owner
  <2>3. screen \in [Tabs -> Screens]
    BY DEF SessionInv, TypeOK
  <2>4. screen' \in [Tabs -> Screens]
        /\ \A t \in Tabs : screen'[t] = "loading" <=> screen[t] = "loading"
    BY <1>2, <2>1, <2>3 DEF Screens
  <2> QED
    BY <1>1, <1>3, <2>1, <2>2, <2>4, SignStep
<1>4. CASE r.answer # "ok"
  <2>1. UNCHANGED <<storageVars, user, screen, historyVars>>
    BY <1>4 DEF LoginAnswered
  <2>2. redirects' \subseteq Tabs /\ \A t \in redirects' : screen[t] # "loading"
    BY <1>1 DEF SessionInv, TypeOK, Up
  <2> QED
    BY <1>1, <2>1, <2>2, DropStep
<1> QED
  BY <1>3, <1>4

LEMMA RegisterAnsweredStep ==
    ASSUME SessionInv, NEW r \in requests, RegisterAnswered(r)
    PROVE  SessionInv'
<1>1. /\ r.kind = "register" /\ r.answer # "none" /\ requests' = requests \ {r}
      /\ redirects' \subseteq redirects \cup {r.tab}
      /\ UNCHANGED <<serverVars, storageVars, user, screen, historyVars, trouble>>
  BY DEF RegisterAnswered
<1>2. r.tab \in Tabs /\ screen[r.tab] # "loading"
  BY <1>1, AnswerIsATabs
<1>3. redirects' \subseteq Tabs /\ \A t \in redirects' : screen[t] # "loading"
  BY <1>1, <1>2 DEF SessionInv, TypeOK, Up
<1> QED
  BY <1>1, <1>3, DropStep

LEMMA CallAnsweredStep ==
    ASSUME SessionInv, NEW r \in requests, CallAnswered(r)
    PROVE  SessionInv'
<1>1. /\ r.kind \in {"api", "logout"} /\ r.answer # "none"
      /\ UNCHANGED <<serverVars, trouble>>
  BY DEF CallAnswered
<1>2. r.tab \in Tabs /\ r.kind # "me"
  BY <1>1, AnswerIsATabs
<1>3. CASE Unauthorized(r)
  <2>1. Store(r.tab, None, None) /\ Reload(r.tab, requests \ {r}, None, None)
    BY <1>3 DEF CallAnswered
  <2>2. /\ token' = None /\ storedUser' = None
        /\ foreign' = (IF token' # token THEN Tabs ELSE foreign) \ {r.tab}
    BY <2>1 DEF Store
  <2>3. requests \ {r} \in SUBSET requests /\ \A q \in requests : q.tab # r.tab => q \in requests \ {r}
    OBVIOUS
  <2> QED
    BY <1>1, <1>2, <2>1, <2>2, <2>3, ReloadStep
<1>4. CASE ~Unauthorized(r)
  <2>1. requests' = requests \ {r} /\ UNCHANGED redirects
    BY <1>4 DEF CallAnswered
  <2>2. CASE r.kind = "logout"
    BY <1>1, <1>2, <1>4, <2>1, <2>2, ClearAuthStep DEF CallAnswered
  <2>3. CASE r.kind # "logout"
    <3>1. UNCHANGED <<storageVars, user, screen, historyVars>>
      BY <1>4, <2>3 DEF CallAnswered
    <3>2. redirects' \subseteq Tabs /\ \A t \in redirects' : screen[t] # "loading"
      BY <2>1 DEF SessionInv, TypeOK, Up
    <3> QED
      BY <1>1, <1>2, <2>1, <3>1, <3>2, DropStep
  <2> QED
    BY <2>2, <2>3
<1> QED
  BY <1>3, <1>4

-----------------------------------------------------------------------------
(* Every step.                                                             *)

LEMMA TabStep ==
    ASSUME SessionInv, NEW t \in Tabs,
           \/ Load(t) \/ LoadingEnds(t) \/ Logout(t) \/ Call(t) \/ Redirect(t)
           \/ \E s \in Screens \ {"loading"} : Navigate(t, s)
           \/ \E a \in Accounts : Login(t, a) \/ Signup(t, a)
    PROVE  SessionInv'
<1>1. /\ token \in Tokens \cup {None} /\ storedUser \in Accounts \cup {None}
      /\ screen \in [Tabs -> Screens] /\ t # None
      /\ token # None => storedUser # None
  BY BrowserNoneAssumption DEF SessionInv, TypeOK, StoredTogether
<1>2. screen[t] # "loading" => \A r \in requests : r.tab = t => r.kind # "me"
  BY <1>1 DEF SessionInv, Alone
<1>3. \A s \in Screens \ {"loading"} : \A a : Guarded(s, a) \in Screens \ {"loading"}
  BY DEF Guarded, Screens
<1>4. \A kind \in Kinds, k \in {None, token}, a \in Accounts \cup {None} :
          LET r == Request(t, kind, k, a) IN
          r \in Requests /\ r.tab = t /\ r.kind = kind /\ r.token = k /\ r.account = a
          /\ r.answer = "none"
  BY <1>1 DEF Request, Requests
<1>5. CASE Load(t)
  <2>1. /\ Reload(t, requests, token, storedUser)
        /\ foreign' = foreign \ {t}
        /\ token' = token /\ storedUser' = storedUser
        /\ UNCHANGED <<serverVars, trouble>>
    BY <1>5 DEF Load, storageVars
  <2> QED
    BY <1>1, <2>1, ReloadStep
<1>6. CASE LoadingEnds(t)
  <2>1. PICK s \in Screens \ {"loading"} : screen' = [screen EXCEPT ![t] = Guarded(s, user[t])]
    BY <1>6 DEF LoadingEnds
  <2>2. Guarded(s, user[t]) \in Screens \ {"loading"}
    BY <1>3
  <2>3. \A r \in requests : r.tab = t => r.kind # "me"
    BY <1>6 DEF LoadingEnds, Loaded, Pending
  <2>4. UNCHANGED <<serverVars, storageVars, requests, user, redirects, historyVars, trouble>>
    BY <1>6 DEF LoadingEnds
  <2> QED
    BY <2>1, <2>2, <2>3, <2>4, ScreenStep
<1>7. ASSUME NEW s \in Screens \ {"loading"}, Navigate(t, s) PROVE SessionInv'
  <2>1. Guarded(s, user[t]) \in Screens \ {"loading"}
    BY <1>3
  <2>2. /\ screen[t] # "loading"
        /\ screen' = [screen EXCEPT ![t] = Guarded(s, user[t])]
        /\ UNCHANGED <<serverVars, storageVars, requests, user, redirects, historyVars, trouble>>
    BY <1>7 DEF Navigate
  <2> QED
    BY <1>2, <2>1, <2>2, ScreenStep
<1>8. CASE Redirect(t)
  <2>1. screen[t] # "loading" /\ "public" \in Screens \ {"loading"}
    BY <1>8 DEF Redirect, SessionInv, Up, Screens
  <2>2. /\ screen' = [screen EXCEPT ![t] = "public"]
        /\ redirects' \subseteq redirects
        /\ UNCHANGED <<serverVars, storageVars, requests, user, historyVars, trouble>>
    BY <1>8 DEF Redirect
  <2> QED
    BY <1>2, <2>1, <2>2, ScreenStep
<1>9. ASSUME NEW a \in Accounts, Login(t, a) PROVE SessionInv'
  <2>1. Ask(Request(t, "login", None, a)) /\ screen[t] = "public" /\ screen' = screen
    BY <1>9 DEF Login
  <2>2. "login" \in Kinds /\ a # None
    BY BrowserNoneAssumption DEF Kinds
  <2> QED
    BY <1>4, <2>1, <2>2, AskStep
<1>10. ASSUME NEW a \in Accounts, Signup(t, a) PROVE SessionInv'
  <2>1. Ask(Request(t, "register", None, a)) /\ screen[t] = "public" /\ screen' = screen
    BY <1>10 DEF Signup
  <2>2. "register" \in Kinds /\ a # None
    BY BrowserNoneAssumption DEF Kinds
  <2> QED
    BY <1>4, <2>1, <2>2, AskStep
<1>11. CASE Logout(t)
  <2>1. /\ Ask(Request(t, "logout", token, None)) /\ screen[t] # "loading"
        /\ screen' = [screen EXCEPT ![t] = "public"]
    BY <1>11 DEF Logout
  <2>2. "logout" \in Kinds
    BY DEF Kinds
  <2> DEFINE r == Request(t, "logout", token, None)
  <2>3. r \in Requests /\ r.tab = t /\ r.kind = "logout" /\ r.token = token /\ r.answer = "none"
    BY <1>4, <2>2
  <2>4. Ask(r)
    BY <2>1
  <2> HIDE DEF r
  <2> QED
    BY <2>1, <2>3, <2>4, AskStep
<1>12. CASE Call(t)
  <2>1. Ask(Request(t, "api", token, None)) /\ screen[t] # "loading" /\ screen' = screen
    BY <1>12 DEF Call
  <2>2. "api" \in Kinds
    BY DEF Kinds
  <2> QED
    BY <1>4, <2>1, <2>2, AskStep
<1> QED
  BY <1>5, <1>6, <1>7, <1>8, <1>9, <1>10, <1>11, <1>12

LEMMA SessionStep == SessionInv /\ [Next]_vars => SessionInv'
<1> SUFFICES ASSUME SessionInv, [Next]_vars PROVE SessionInv'
  OBVIOUS
<1>1. ASSUME NEW t \in Tabs,
             \/ Load(t) \/ LoadingEnds(t) \/ Logout(t) \/ Call(t) \/ Redirect(t)
             \/ \E s \in Screens \ {"loading"} : Navigate(t, s)
             \/ \E a \in Accounts : Login(t, a) \/ Signup(t, a)
      PROVE  SessionInv'
  BY <1>1, TabStep
<1>2. ASSUME NEW r \in requests, Serve(r) \/ Fail(r) PROVE SessionInv'
  BY <1>2, ExecuteStep, ExecuteLoginStep, ExecuteRegisterStep, FailStep DEF Serve
<1>3. ASSUME NEW r \in requests, Deliver(r) PROVE SessionInv'
  BY <1>3, MeAnsweredStep, LoginAnsweredStep, RegisterAnsweredStep, CallAnsweredStep DEF Deliver
<1>4. CASE UNCHANGED vars
  BY <1>4 DEF vars, serverVars, storageVars, tabVars, historyVars, SessionInv, TypeOK, Up,
              StoredTogether
<1> QED
  BY <1>1, <1>2, <1>3, <1>4 DEF Next

LEMMA SessionInvariant == Spec => []SessionInv
<1>1. Init => SessionInv
  BY SessionInvInit
<1>2. SessionInv /\ [Next]_vars => SessionInv'
  BY SessionStep
<1> QED
  BY <1>1, <1>2, PTL DEF Spec

-----------------------------------------------------------------------------
(* The theorems.                                                           *)

\* A tab shows the user whose token its requests will carry, in every order of logins,
\* logouts, verifications and 401s, until another tab changes the token (AuthContext).
THEOREM TabShowsItsToken == Spec => []ShownAsStored
<1>1. SessionInv => ShownAsStored
  BY BrowserNoneAssumption DEF SessionInv, Alone, Shown, ShownAsStored
<1> QED
  BY <1>1, SessionInvariant, PTL

\* A tab that has signed out stays so until it is loaded or someone logs in: no answer
\* that comes late restores the user (AuthContext's logout, initAuth).
THEOREM SignedOutForGood == Spec => []SignedOutStays
<1>1. SessionInv => SignedOutStays
  BY DEF SessionInv, Up, SignedOutStays
<1> QED
  BY <1>1, SessionInvariant, PTL

\* Which steps throw away a token that the server still accepts.
LEMMA WhoDropsTheToken ==
    ASSUME SessionInv, [Next]_vars, Accepted(token), token' = None
    PROVE  \E r \in requests \ requests' :
              r.kind = "logout" \/ r.token # token \/ (r.kind = "me" /\ r.answer = "failed")
<1>1. token # None /\ token \in Tokens
  BY DEF Accepted, SessionInv, TypeOK
<1>2. ASSUME token' = token PROVE FALSE
  BY <1>1, <1>2
<1>3. \A r \in requests : r.answer = "rejected" => r.token # token
  <2>1. token.account \in Accounts /\ token.version \in Nat /\ token.version = version[token.account]
    BY <1>1 DEF Tokens, Accepted
  <2> QED
    BY <1>1, <2>1 DEF SessionInv, Past
<1>4. ASSUME NEW r \in requests, MeAnswered(r)
      PROVE  r \notin requests' /\ (r.token # token \/ (r.kind = "me" /\ r.answer = "failed"))
  <2>1. r.answer # "ok"
    BY <1>2, <1>4 DEF MeAnswered
  <2>2. r.answer \in {"none", "ok", "rejected", "failed"}
    BY DEF SessionInv, TypeOK
  <2> QED
    BY <1>3, <1>4, <2>1, <2>2 DEF MeAnswered
<1>5. ASSUME NEW r \in requests, LoginAnswered(r) PROVE FALSE
  <2>1. r.answer = "ok"
    BY <1>2, <1>5 DEF LoginAnswered, storageVars
  <2>2. r.token # None
    BY <1>5, <2>1 DEF LoginAnswered, SessionInv, LoginsOwn
  <2> QED
    BY <1>5, <2>1, <2>2 DEF LoginAnswered, Store
<1>6. ASSUME NEW r \in requests, CallAnswered(r)
      PROVE  r \notin requests' /\ (r.kind = "logout" \/ r.token # token)
  <2>1. CASE Unauthorized(r)
    <3>1. r.token # token
      BY <1>3, <2>1 DEF Unauthorized
    <3>2. r.tab \in Tabs /\ r.tab # None
      BY <1>6, AnswerIsATabs, BrowserNoneAssumption DEF CallAnswered
    <3>3. Reload(r.tab, requests \ {r}, None, None)
      BY <1>6, <2>1 DEF CallAnswered
    <3>4. \A q \in requests' : q.tab # r.tab
      <4>1. \A q \in requests : q \in Requests
        BY DEF SessionInv, TypeOK, Requests
      <4>2. \A q \in requests : [q EXCEPT !.tab = None].tab = None
        BY <4>1 DEF Requests
      <4> QED
        BY <3>2, <3>3, <4>2 DEF Reload
    <3> QED
      BY <3>1, <3>4
  <2>2. CASE ~Unauthorized(r)
    <3>1. r.kind = "logout" /\ requests' = requests \ {r}
      BY <1>2, <1>6, <2>2 DEF CallAnswered, storageVars
    <3> QED
      BY <3>1
  <2> QED
    BY <2>1, <2>2
<1>7. ASSUME NEW r \in requests, RegisterAnswered(r) \/ Serve(r) \/ Fail(r) PROVE FALSE
  BY <1>2, <1>7 DEF RegisterAnswered, Serve, Execute, ExecuteLogin, ExecuteRegister, Fail,
                    storageVars
<1>8. ASSUME NEW t \in Tabs,
             \/ Load(t) \/ LoadingEnds(t) \/ Logout(t) \/ Call(t) \/ Redirect(t)
             \/ \E s \in Screens \ {"loading"} : Navigate(t, s)
             \/ \E a \in Accounts : Login(t, a) \/ Signup(t, a)
      PROVE  FALSE
  BY <1>2, <1>8 DEF Load, LoadingEnds, Logout, Call, Redirect, Navigate, Login, Signup,
                    Ask, storageVars
<1>9. ASSUME UNCHANGED vars PROVE FALSE
  BY <1>2, <1>9 DEF vars, storageVars
<1> QED
  BY <1>4, <1>5, <1>6, <1>7, <1>8, <1>9 DEF Next, Deliver

\* No failing request of a page takes a token from the storage that the server accepts:
\* a logout does, a start that could not verify it, or the late answer to a request made
\* with another token (api.js's interceptor, initAuth).
THEOREM AcceptedTokenStays == Spec => AcceptedTokenKept
<1>1. SessionInv /\ [Next]_vars =>
        [ Accepted(token) /\ token' = None =>
            \E r \in requests \ requests' :
                r.kind = "logout" \/ r.token # token \/ (r.kind = "me" /\ r.answer = "failed")
        ]_vars
  BY WhoDropsTheToken
<1> QED
  BY <1>1, SessionInvariant, PTL DEF Spec, AcceptedTokenKept

=============================================================================
