---------------------------- MODULE ServerProofs ----------------------------
(***************************************************************************)
(* What holds of the server process whatever it serves: of AuthSessions,   *)
(* Lifecycle and RateLimitSpan, for every value of their constants.        *)
(*                                                                         *)
(* Until a save replaces a version it had not read, no token outlives the  *)
(* password it was got by and no revoked token comes back: every token and *)
(* every document read is behind the account.                              *)
(*                                                                         *)
(* RetryAhead needs to know that the attempts are not used up while nobody *)
(* is connecting: only then does the 'disconnected' handler set a timer.   *)
(* OrderlyExitReleases needs to know that every counted slot has a socket  *)
(* or a release, and that a shutdown past server.close() has left no       *)
(* socket behind and lets none in.                                         *)
(*                                                                         *)
(* TwicePerWindow needs to know, of the hits of the span, which the key's  *)
(* counter still shows: either all of them and one from before the span,   *)
(* or the key outlives the span and no third count begins in it.           *)
(***************************************************************************)
EXTENDS AuthSessions, Lifecycle, RateLimitSpan, TLAPS

(***************************************************************************)
(* The sessions.                                                           *)
(***************************************************************************)

\* What a token, or a document read earlier, may say about the account: it is
\* not ahead of it, and at the same version it knows the same password.
Behind(x) ==
    /\ x.version <= account.version
    /\ x.version = account.version => x.password = account.password

Ordered ==
    ~clobbered => /\ \A t \in issued : Behind(t)
                  /\ \A r \in Requests : stage[r] \in {"login", "save"} =>
                                             Behind(seen[r])

\* The inductive invariant: OldCredentialsRevokedUnlessClobbered alone says
\* nothing about the tokens and documents that an increment could catch up with.
SessionsInv == TypeOK /\ Ordered

-----------------------------------------------------------------------------
LEMMA RegisteredType == Registered \in Accounts
  BY PasswordAssumption, VersionAssumption DEF Registered, Accounts

LEMMA ReadType ==
  ASSUME TypeOK, NEW r \in Requests, NEW password \in Passwords,
         NEW next \in Stages, Read(r, password, next)
  PROVE  /\ seen' \in [Requests -> Accounts]
         /\ given' \in [Requests -> Passwords]
         /\ stage' \in [Requests -> Stages]
  BY DEF TypeOK, Read

LEMMA RespondType ==
  ASSUME TypeOK, NEW r \in Requests, Respond(r)
  PROVE  /\ seen' \in [Requests -> Accounts]
         /\ given' \in [Requests -> Passwords]
         /\ stage' \in [Requests -> Stages]
  BY RegisteredType, PasswordAssumption DEF TypeOK, Respond, Stages

\* An answered request has no document left to be compared; the others keep
\* theirs.
LEMMA RespondSeen ==
  ASSUME TypeOK, NEW r \in Requests, Respond(r)
  PROVE  \A q \in Requests : stage'[q] \in {"login", "save"} =>
             q # r /\ stage[q] = stage'[q] /\ seen[q] = seen'[q]
  BY DEF TypeOK, Respond

\* A request that reads has the document of the moment.
LEMMA ReadSeen ==
  ASSUME TypeOK, NEW r \in Requests, NEW password, NEW next,
         Read(r, password, next)
  PROVE  \A q \in Requests : stage'[q] \in {"login", "save"} =>
             seen'[q] = account \/ (stage[q] = stage'[q] /\ seen[q] = seen'[q])
  BY DEF TypeOK, Read

-----------------------------------------------------------------------------
LEMMA TypeInit == Init => TypeOK
  BY RegisteredType, PasswordAssumption DEF Init, TypeOK, Stages

LEMMA TypeStep == TypeOK /\ [Next]_vars => TypeOK'
<1> SUFFICES ASSUME TypeOK, [Next]_vars PROVE TypeOK'
  OBVIOUS
<1>1. ASSUME NEW r \in Requests, NEW p \in Passwords, LoginFind(r, p)
      PROVE  TypeOK'
  BY <1>1, ReadType DEF LoginFind, TypeOK, Stages
<1>2. ASSUME NEW r \in Requests, LoginAnswer(r) PROVE TypeOK'
  <2>1. Sign(r) \in Tokens
    BY DEF TypeOK, Sign, Accounts, Tokens
  <2>2. issued' \subseteq Tokens
    BY <1>2, <2>1 DEF TypeOK, LoginAnswer
  <2>. QED
    BY <1>2, <2>2, RespondType DEF LoginAnswer, TypeOK
<1>3. ASSUME NEW r \in Requests, NEW t \in issued, NEW next \in {"logout", "change"},
             Admit(r, t, next)
      PROVE  TypeOK'
  <2>1. given[r] \in Passwords /\ next \in Stages
    BY DEF TypeOK, Stages
  <2>. QED
    BY <1>3, <2>1, ReadType DEF Admit, TypeOK
<1>4. ASSUME NEW r \in Requests, Logout(r) PROVE TypeOK'
  <2>1. account' \in Accounts
    BY <1>4, VersionAssumption DEF TypeOK, Logout, Bump, Accounts
  <2>. QED
    BY <1>4, <2>1, RespondType DEF Logout, TypeOK
<1>5. ASSUME NEW r \in Requests, NEW p \in Passwords, ChangeFind(r, p)
      PROVE  TypeOK'
  BY <1>5, ReadType DEF ChangeFind, TypeOK, Stages
<1>6. ASSUME NEW r \in Requests, ChangeRefused(r) PROVE TypeOK'
  BY <1>6, RespondType DEF ChangeRefused, TypeOK
<1>7. ASSUME NEW r \in Requests, NEW p \in Passwords, ChangeSave(r, p)
      PROVE  TypeOK'
  <2>0. seen[r].version + 1 \in 0 .. MaxVersion
    <3>1. seen[r].version \in 0 .. MaxVersion /\ seen[r].version < MaxVersion
      BY <1>7 DEF TypeOK, ChangeSave, Accounts
    <3>. QED
      BY <3>1, VersionAssumption
  <2>1. account' \in Accounts
    BY <1>7, <2>0 DEF TypeOK, ChangeSave, Accounts
  <2>2. [version |-> account'.version, password |-> p] \in Tokens
    BY <2>1 DEF Accounts, Tokens
  <2>3. issued' \subseteq Tokens
    BY <1>7, <2>2 DEF TypeOK, ChangeSave
  <2>4. clobbered' \in BOOLEAN
    BY <1>7 DEF TypeOK, ChangeSave
  <2>. QED
    BY <1>7, <2>1, <2>3, <2>4, RespondType DEF ChangeSave, TypeOK
<1>8. ASSUME NEW t \in issued, Forget(t) PROVE TypeOK'
  BY <1>8 DEF Forget, TypeOK
<1>9. CASE SwitchActive
  <2>1. account' \in Accounts
    BY <1>9 DEF SwitchActive, TypeOK, Accounts
  <2>. QED
    BY <1>9, <2>1 DEF SwitchActive, TypeOK
<1>10. CASE UNCHANGED vars
  BY <1>10 DEF vars, TypeOK
<1>. QED
  BY <1>1, <1>2, <1>3, <1>4, <1>5, <1>6, <1>7, <1>8, <1>9, <1>10
     DEF Next, Handle

\* The account document, the tokens, the requests and the handlers' locals keep
\* their types.
THEOREM SessionsTyped == Spec => []TypeOK
<1>. QED
  BY TypeInit, TypeStep, PTL DEF Spec

-----------------------------------------------------------------------------
LEMMA OrderedInit == Init => Ordered
  BY DEF Init, Ordered, Behind

\* The steps that leave the account's version and password alone keep the order
\* if what they issue and what they read is in it.
LEMMA OrderedSame ==
  ASSUME TypeOK, Ordered, clobbered' = clobbered,
         account'.version = account.version,
         account'.password = account.password,
         ~clobbered => \A t \in issued' : t \in issued \/ Behind(t),
         \A q \in Requests : stage'[q] \in {"login", "save"} =>
             seen'[q] = account \/ (stage[q] = stage'[q] /\ seen[q] = seen'[q])
  PROVE  Ordered'
  <1>1. ASSUME NEW x, Behind(x) PROVE Behind(x)'
    BY <1>1 DEF Behind
  <1>2. Behind(account)
    BY DEF Behind, TypeOK, Accounts
  <1>. SUFFICES ASSUME ~clobbered
                PROVE  /\ \A t \in issued' : Behind(t)'
                       /\ \A q \in Requests : stage'[q] \in {"login", "save"} =>
                              (Behind(seen[q]))'
    BY DEF Ordered
  <1>3. \A t \in issued' : Behind(t)'
    BY <1>1 DEF Ordered
  <1>4. ASSUME NEW q \in Requests, stage'[q] \in {"login", "save"}
        PROVE  (Behind(seen[q]))'
    <2>1. Behind(seen'[q])
      BY <1>2, <1>4 DEF Ordered
    <2>. QED
      BY <2>1 DEF Behind
  <1>. QED
    BY <1>3, <1>4

\* The steps that raise the version leave everything strictly behind, but for
\* tokens issued with the new password.
LEMMA OrderedRaised ==
  ASSUME TypeOK, Ordered, clobbered' => clobbered, ~clobbered' => ~clobbered,
         account'.version = account.version + 1,
         \A t \in issued' : \/ t \in issued
                            \/ /\ t.version = account'.version
                               /\ t.password = account'.password,
         \A q \in Requests : stage'[q] \in {"login", "save"} =>
             stage[q] = stage'[q] /\ seen[q] = seen'[q]
  PROVE  Ordered'
  <1>. SUFFICES ASSUME ~clobbered
                PROVE  /\ \A t \in issued' : Behind(t)'
                       /\ \A q \in Requests : stage'[q] \in {"login", "save"} =>
                              (Behind(seen[q]))'
    BY DEF Ordered
  <1>0. account.version \in Int
    BY DEF TypeOK, Accounts
  <1>1. ASSUME NEW t \in issued' PROVE Behind(t)'
    <2>1. CASE t \in issued
      <3>1. Behind(t) /\ t.version \in Int
        BY <2>1 DEF Ordered, TypeOK, Tokens
      <3>. QED
        BY <3>1, <1>0 DEF Behind
    <2>2. CASE /\ t.version = account'.version
               /\ t.password = account'.password
      BY <2>2, <1>0 DEF Behind
    <2>. QED
      BY <2>1, <2>2
  <1>2. ASSUME NEW q \in Requests, stage'[q] \in {"login", "save"}
        PROVE  (Behind(seen[q]))'
    <2>1. Behind(seen'[q]) /\ seen'[q].version \in Int
      BY <1>2 DEF Ordered, TypeOK, Accounts
    <2>. QED
      BY <2>1, <1>0 DEF Behind
  <1>. QED
    BY <1>1, <1>2

LEMMA OrderedStep == SessionsInv /\ [Next]_vars => Ordered'
<1> SUFFICES ASSUME TypeOK, Ordered, [Next]_vars PROVE Ordered'
  BY DEF SessionsInv
<1>1. ASSUME NEW r \in Requests, NEW p \in Passwords, LoginFind(r, p)
      PROVE  Ordered'
  BY <1>1, ReadSeen, OrderedSame DEF LoginFind
<1>2. ASSUME NEW r \in Requests, LoginAnswer(r) PROVE Ordered'
  <2>1. ASSUME ~clobbered, given[r] = seen[r].password PROVE Behind(Sign(r))
    BY <1>2, <2>1 DEF LoginAnswer, Ordered, Behind, Sign
  <2>2. ~clobbered => \A t \in issued' : t \in issued \/ Behind(t)
    BY <1>2, <2>1 DEF LoginAnswer
  <2>. QED
    BY <1>2, <2>2, RespondSeen, OrderedSame DEF LoginAnswer
<1>3. ASSUME NEW r \in Requests, NEW t \in issued, NEW next \in {"logout", "change"},
             Admit(r, t, next)
      PROVE  Ordered'
  BY <1>3, ReadSeen, OrderedSame DEF Admit
<1>4. ASSUME NEW r \in Requests, Logout(r) PROVE Ordered'
  <2>1. account'.version = account.version + 1
    BY <1>4 DEF Logout, Bump, TypeOK, Accounts
  <2>. QED
    BY <1>4, <2>1, RespondSeen, OrderedRaised DEF Logout
<1>5. ASSUME NEW r \in Requests, NEW p \in Passwords, ChangeFind(r, p)
      PROVE  Ordered'
  BY <1>5, ReadSeen, OrderedSame DEF ChangeFind
<1>6. ASSUME NEW r \in Requests, ChangeRefused(r) PROVE Ordered'
  BY <1>6, RespondSeen, OrderedSame DEF ChangeRefused
<1>7. ASSUME NEW r \in Requests, NEW p \in Passwords, ChangeSave(r, p)
      PROVE  Ordered'
  <2>1. CASE clobbered'
    BY <2>1 DEF Ordered
  <2>2. CASE ~clobbered'
    <3>1. seen[r].version = account.version /\ ~clobbered
      BY <1>7, <2>2 DEF ChangeSave
    <3>2. account'.version = account.version + 1 /\ account'.password = p
      BY <1>7, <3>1 DEF ChangeSave, TypeOK, Accounts
    <3>3. \A t \in issued' : \/ t \in issued
                             \/ /\ t.version = account'.version
                                /\ t.password = account'.password
      BY <1>7, <3>2 DEF ChangeSave
    <3>. QED
      BY <1>7, <2>2, <3>1, <3>2, <3>3, RespondSeen, OrderedRaised DEF ChangeSave
  <2>. QED
    BY <2>1, <2>2
<1>8. ASSUME NEW t \in issued, Forget(t) PROVE Ordered'
  BY <1>8, OrderedSame DEF Forget
<1>9. CASE SwitchActive
  <2>1. account'.version = account.version /\ account'.password = account.password
    BY <1>9 DEF SwitchActive, TypeOK, Accounts
  <2>. QED
    BY <1>9, <2>1, OrderedSame DEF SwitchActive
<1>10. CASE UNCHANGED vars
  BY <1>10, OrderedSame DEF vars
<1>. QED
  BY <1>1, <1>2, <1>3, <1>4, <1>5, <1>6, <1>7, <1>8, <1>9, <1>10
     DEF Next, Handle

LEMMA SessionsInvariant == Spec => []SessionsInv
<1>1. Init => SessionsInv
  BY TypeInit, OrderedInit DEF SessionsInv
<1>2. SessionsInv /\ [Next]_vars => SessionsInv'
  BY TypeStep, OrderedStep DEF SessionsInv
<1>. QED
  BY <1>1, <1>2, PTL DEF Spec

\* Until a save replaces a version it had not read, an accepted token was got by
\* the account's present password.
THEOREM OldCredentialsEnd == Spec => []OldCredentialsRevokedUnlessClobbered
<1>1. SessionsInv => OldCredentialsRevokedUnlessClobbered
  BY DEF SessionsInv, Ordered, Behind, OldCredentialsRevokedUnlessClobbered,
         OldCredentialsRevoked, Accepted
<1>. QED
  BY <1>1, SessionsInvariant, PTL

\* No step that replaces only a version it had read lowers the version.
LEMMA VersionMonotone ==
  TypeOK /\ [Next]_vars => (~clobbered' => account.version <= account'.version)
<1> SUFFICES ASSUME TypeOK, [Next]_vars, ~clobbered'
             PROVE  account.version <= account'.version
  OBVIOUS
<1>0. account \in Accounts /\ account.version \in Int
  BY DEF TypeOK, Accounts
<1>1. CASE account'.version = account.version
  BY <1>0, <1>1
<1>2. ASSUME NEW r \in Requests, Logout(r)
      PROVE  account.version <= account'.version
  BY <1>0, <1>2 DEF Logout, Bump, Accounts
<1>3. ASSUME NEW r \in Requests, NEW p \in Passwords, ChangeSave(r, p)
      PROVE  account.version <= account'.version
  <2>1. account'.version = seen[r].version + 1
    BY <1>0, <1>3 DEF ChangeSave, Accounts
  <2>2. seen[r].version = account.version
    BY <1>3 DEF ChangeSave
  <2>. QED
    BY <1>0, <2>1, <2>2
<1>4. CASE SwitchActive
  BY <1>0, <1>4 DEF SwitchActive, Accounts
<1>. QED
  BY <1>1, <1>2, <1>3, <1>4
     DEF Next, Handle, vars, LoginFind, LoginAnswer, Admit, ChangeFind,
         ChangeRefused, Forget

\* Until a save replaces a version it had not read, a revoked token is never
\* accepted again.
THEOREM RevokedTokensStayRevoked == Spec => RevokedForGood
<1>1. SessionsInv /\ [Next]_vars =>
        [~clobbered' => \A t \in issued : t.version # account.version =>
                                          t.version # account'.version]_vars
  <2> SUFFICES ASSUME TypeOK, Ordered, [Next]_vars, ~clobbered',
                      NEW t \in issued, t.version # account.version
               PROVE  t.version # account'.version
    BY DEF SessionsInv
  <2>1. account.version <= account'.version
    BY VersionMonotone
  <2>2. ~clobbered
    BY DEF Next, Handle, vars, LoginFind, LoginAnswer, Admit, Logout, ChangeFind,
           ChangeRefused, ChangeSave, Forget, SwitchActive
  <2>3. t.version <= account.version
    BY <2>2 DEF Ordered, Behind
  <2>4. t.version \in Int /\ account.version \in Int /\ account'.version \in Int
    <3>1. TypeOK'
      BY TypeStep
    <3>. QED
      BY <3>1 DEF TypeOK, Tokens, Accounts
  <2>. QED
    BY <2>1, <2>3, <2>4
<1>. QED
  BY <1>1, SessionsInvariant, PTL DEF Spec, RevokedForGood


(***************************************************************************)
(* The database.                                                           *)
(***************************************************************************)

\* A process that is not connecting has an attempt left.
AttemptLeft == Running /\ ~isConnecting => attempts < MaxAttempts

\* Types of what the argument is about, and the last attempt is the last.
CountersTyped ==
    /\ attempts \in 0 .. MaxAttempts
    /\ retries \in Nat
    /\ database \in {"disconnected", "connected"}

RetryInv == CountersTyped /\ AttemptLeft /\ RetryAhead

LEMMA RetryInvInit == LifecycleInit => RetryInv
<1> SUFFICES ASSUME LifecycleInit PROVE RetryInv
  OBVIOUS
<1> QED
  BY MaxAttemptsAssumption
  DEF LifecycleInit, RetryInv, CountersTyped, AttemptLeft, RetryAhead, Running

\* A step that leaves the connection alone, and at most begins a shutdown or ends the
\* process, keeps the invariant.
LEMMA RetryFrame ==
    ASSUME RetryInv, UNCHANGED <<database, isConnecting, attempts, retries>>,
           Running' => Running, isShuttingDown => isShuttingDown'
    PROVE  RetryInv'
BY DEF RetryInv, CountersTyped, AttemptLeft, RetryAhead

LEMMA RetryInvStep == RetryInv /\ [LifecycleNext]_lifecycleVars => RetryInv'
<1> SUFFICES ASSUME RetryInv, [LifecycleNext]_lifecycleVars PROVE RetryInv'
  OBVIOUS
<1> USE MaxAttemptsAssumption DEF RetryInv, CountersTyped, AttemptLeft, RetryAhead, Running,
                                  databaseVars, shutdownVars
<1>1. CASE AttemptSucceeds
  BY <1>1 DEF AttemptSucceeds
<1>2. CASE AttemptFails
  BY <1>2 DEF AttemptFails, RetryOrExit
<1>3. CASE RetryFires
  BY <1>3 DEF RetryFires
<1>4. CASE DatabaseLost
  BY <1>4 DEF DatabaseLost, OnDisconnected
<1>5. CASE DatabaseBack
  BY <1>5 DEF DatabaseBack
<1>6. CASE Listen \/ RequestComes \/ RequestEnds
  BY <1>6, RetryFrame DEF Listen, RequestComes, RequestEnds
<1>7. ASSUME NEW s \in Sockets,
             Connect(s) \/ PollAnswered(s) \/ Poll(s) \/ Leave(s) \/ ReleaseLands(s)
      PROVE  RetryInv'
  BY <1>7, RetryFrame DEF Connect, PollAnswered, Poll, Leave, ReleaseLands
<1>8. ASSUME NEW g \in Signals, Signal(g) PROVE RetryInv'
  BY <1>8, RetryFrame DEF Signal
<1>9. ASSUME NEW g \in Signals, Drained(g) \/ CacheClosed(g) PROVE RetryInv'
  BY <1>9, RetryFrame DEF Drained, CacheClosed
<1>10. ASSUME NEW g \in Signals, DatabaseClosed(g) PROVE RetryInv'
  BY <1>10 DEF DatabaseClosed, OnDisconnected
<1>11. CASE Rejection \/ UncaughtException \/ ForceExit
  BY <1>11, RetryFrame DEF Rejection, UncaughtException, ForceExit
<1>12. CASE Closed
  BY <1>12, RetryFrame DEF Closed
<1>13. CASE UNCHANGED lifecycleVars
  BY <1>13 DEF lifecycleVars
<1> QED
  BY <1>1, <1>2, <1>3, <1>4, <1>5, <1>6, <1>7, <1>8, <1>9, <1>10, <1>11, <1>12, <1>13
  DEF LifecycleNext, ShutdownStep

\* A process that is up, and is not shutting down, has a database, a connection attempt
\* or a timer for one, whatever fails and in whatever order the timers fire.
THEOREM NeverIdleWithoutDatabase == LifecycleSpec => []RetryAhead
<1>1. RetryInv => RetryAhead
  BY DEF RetryInv
<1> QED
  BY <1>1, RetryInvInit, RetryInvStep, PTL DEF LifecycleSpec

(***************************************************************************)
(* The sockets.                                                            *)
(***************************************************************************)

PastClose(g) == shutdown[g] \in {"drain", "cache", "database"}

\* A slot is counted for a socket that is there or for one whose release is called.
SlotHeld == \A s \in counted : s \in Sockets /\ (link[s] # "none" \/ s \in releasing)

\* Once server.close() has called back for a signal there is no socket, and none comes.
NoneLeftBehind ==
    (\E g \in Signals : PastClose(g)) => http = "closed" /\ \A s \in Sockets : link[s] = "none"

\* When the adapter's clients have quit in time, and at an orderly exit, no slot is
\* counted any more.
QuitAfterReleases ==
    ~late /\ (exit = "orderly" \/ \E g \in Signals : shutdown[g] \in {"cache", "database"})
        => counted = {}

ReleaseInv ==
    /\ shutdown \in [Signals -> ShutdownStages]
    /\ link \in [Sockets -> Links]
    /\ releasing \subseteq Sockets
    /\ SlotHeld /\ NoneLeftBehind /\ QuitAfterReleases

LEMMA ReleaseInvInit == LifecycleInit => ReleaseInv
BY DEF LifecycleInit, ReleaseInv, SlotHeld, NoneLeftBehind, QuitAfterReleases, PastClose,
       ShutdownStages, Links

\* A step that leaves the sockets and the shutdowns alone keeps the invariant, unless it
\* is an orderly exit.
LEMMA ReleaseFrame ==
    ASSUME ReleaseInv, UNCHANGED <<shutdown, link, counted, releasing, late>>,
           http = "closed" => http' = "closed", exit' = "orderly" => exit = "orderly"
    PROVE  ReleaseInv'
BY DEF ReleaseInv, SlotHeld, NoneLeftBehind, QuitAfterReleases, PastClose

LEMMA ReleaseInvStep == ReleaseInv /\ [LifecycleNext]_lifecycleVars => ReleaseInv'
<1> SUFFICES ASSUME ReleaseInv, [LifecycleNext]_lifecycleVars PROVE ReleaseInv'
  OBVIOUS
<1> USE DEF databaseVars, shutdownVars, socketVars
<1>1. CASE AttemptSucceeds \/ AttemptFails
  BY <1>1, ReleaseFrame DEF AttemptSucceeds, AttemptFails, BootGoesOn, RetryOrExit
<1>2. CASE RetryFires \/ DatabaseLost \/ DatabaseBack
  BY <1>2, ReleaseFrame DEF RetryFires, DatabaseLost, DatabaseBack
<1>3. CASE Listen \/ RequestComes \/ RequestEnds
  BY <1>3, ReleaseFrame DEF Listen, RequestComes, RequestEnds
<1>4. ASSUME NEW s \in Sockets, Connect(s) PROVE ReleaseInv'
  BY <1>4 DEF Connect, ReleaseInv, SlotHeld, NoneLeftBehind, QuitAfterReleases, PastClose,
              Links, Running
<1>5. ASSUME NEW s \in Sockets, PollAnswered(s) \/ Poll(s) PROVE ReleaseInv'
  BY <1>5 DEF PollAnswered, Poll, ReleaseInv, SlotHeld, NoneLeftBehind, QuitAfterReleases,
              PastClose,
              Links, Running
<1>6. ASSUME NEW s \in Sockets, Leave(s) PROVE ReleaseInv'
  BY <1>6 DEF Leave, Disconnect, ReleaseInv, SlotHeld, NoneLeftBehind, QuitAfterReleases, PastClose,
              Links, Running
<1>7. ASSUME NEW s \in Sockets, ReleaseLands(s) PROVE ReleaseInv'
  BY <1>7 DEF ReleaseLands, ReleaseInv, SlotHeld, NoneLeftBehind, QuitAfterReleases,
              PastClose, Running
<1>8. ASSUME NEW g \in Signals, Signal(g) PROVE ReleaseInv'
  BY <1>8 DEF Signal, StopAccepting, ReleaseInv, SlotHeld, NoneLeftBehind,
              QuitAfterReleases, PastClose,
              ShutdownStages, Running, Serving
<1>9. ASSUME NEW g \in Signals, Drained(g) PROVE ReleaseInv'
  BY <1>9 DEF Drained, ReleaseInv, SlotHeld, NoneLeftBehind, QuitAfterReleases, PastClose,
              ShutdownStages, Running
<1>10. ASSUME NEW g \in Signals, CacheClosed(g) PROVE ReleaseInv'
  BY <1>10 DEF CacheClosed, ReleaseInv, SlotHeld, NoneLeftBehind, QuitAfterReleases,
               PastClose, ShutdownStages,
               Running
<1>11. ASSUME NEW g \in Signals, DatabaseClosed(g) PROVE ReleaseInv'
  BY <1>11 DEF DatabaseClosed, ReleaseInv, SlotHeld, NoneLeftBehind, QuitAfterReleases, PastClose
<1>12. CASE Rejection \/ UncaughtException \/ ForceExit
  BY <1>12, ReleaseFrame DEF Rejection, UncaughtException, ForceExit, StopAccepting
<1>13. CASE Closed
  <2>1. CASE rejected
    BY <1>13, <2>1, ReleaseFrame DEF Closed
  <2>2. CASE ~rejected
    <3>1. /\ http' = "closed"
          /\ shutdown' = [g \in Signals |-> IF shutdown[g] = "waiting" THEN "drain" ELSE shutdown[g]]
          /\ Disconnect(ToDisconnect)
          /\ UNCHANGED <<exit, late>>
      BY <1>13, <2>2 DEF Closed
    <3>2. \A s \in Sockets : link'[s] = "none" /\ (link[s] = "none" \/ s \in releasing')
      BY <3>1 DEF Disconnect, ToDisconnect, ReleaseInv
    <3>3. /\ shutdown' \in [Signals -> ShutdownStages] /\ link' \in [Sockets -> Links]
          /\ releasing' \subseteq Sockets
      BY <3>1 DEF Disconnect, ToDisconnect, ReleaseInv, ShutdownStages, Links
    <3>4. SlotHeld' /\ NoneLeftBehind'
      BY <3>1, <3>2 DEF Disconnect, ReleaseInv, SlotHeld, NoneLeftBehind
    <3>5. QuitAfterReleases'
      BY <3>1 DEF Disconnect, ReleaseInv, QuitAfterReleases, ShutdownStages
    <3> QED
      BY <3>3, <3>4, <3>5 DEF ReleaseInv
  <2> QED
    BY <2>1, <2>2
<1>14. CASE UNCHANGED lifecycleVars
  BY <1>14, ReleaseFrame DEF lifecycleVars
<1> QED
  BY <1>1, <1>2, <1>3, <1>4, <1>5, <1>6, <1>7, <1>8, <1>9, <1>10, <1>11, <1>12, <1>13, <1>14
  DEF LifecycleNext, ShutdownStep

\* exit(0) leaves no slot counted, unless the adapter was closed under a release: with
\* any number of sockets and signals, whichever order requests, polls, releases and
\* rejections come in.
THEOREM OrderlyExitLeavesNoSlot == LifecycleSpec => []OrderlyExitReleases
<1>1. ReleaseInv => OrderlyExitReleases
  BY DEF ReleaseInv, QuitAfterReleases, OrderlyExitReleases
<1> QED
  BY <1>1, ReleaseInvInit, ReleaseInvStep, PTL DEF LifecycleSpec

(***************************************************************************)
(* The rate limiters.                                                      *)
(***************************************************************************)

\* The hits on a key that its counter shows and that passed.
Shown(k) == IF hits[k] <= Limit[k] THEN hits[k] ELSE Limit[k]

\* The count that the key shows next is the last of the span.
Outlives == \/ hits[Watched] = 0
            \/ ttl[Watched] = NoExpiry
            \/ ttl[Watched] >= spanLeft

\* The types that the argument needs, of the observer and of Redis.
SpanTypes ==
    /\ spanLeft \in Nat /\ spanLeft <= StoreWindow(Watched)
    /\ spanPassed \in Nat
    /\ hits \in [Keys -> Nat]
    /\ ttl \in [Keys -> Int]

\* The inductive invariant: within the span a key either still shows everything that
\* passed and a hit from before it, or began anew once and is not to do so again.
SpanInv ==
    /\ SpanTypes
    /\ \A k \in Keys : hits[k] = 0 => ttl[k] = NoExpiry
    /\ spanLeft = 0 => spanPassed = 0
    /\ spanLeft > 0 => \/ spanPassed < Shown(Watched)
                       \/ spanPassed < Limit[Watched] + Shown(Watched) /\ Outlives

\* The limiters' windows and limits are numbers, and so is the store's window.
LEMMA Budgets ==
    ASSUME NEW k \in Keys
    PROVE  StoreWindow(k) \in Nat \ {0} /\ Limit[k] \in Nat \ {0}
<1>1. Last(Limiters) \in Keys
  BY LimitersAssumption DEF Last
<1> QED
  BY <1>1, WindowAssumption, LimitAssumption DEF StoreWindow, SharedWindow

LEMMA SpanInvInit == SpanInit => SpanInv
<1> SUFFICES ASSUME SpanInit PROVE SpanInv
  OBVIOUS
<1>1. Watched \in Keys /\ 0 <= StoreWindow(Watched)
  BY Budgets, WatchedAssumption
<1>2. hits = [k \in Keys |-> 0] /\ ttl = [k \in Keys |-> NoExpiry]
  BY DEF SpanInit, LimitInit, NoHits
<1> QED
  BY <1>1, <1>2 DEF SpanInit, SpanInv, SpanTypes, NoExpiry

\* Whether REDIS_URL is set never changes, so neither does the length of a span.
LEMMA SameWindow ==
    ASSUME NEW k \in Keys, UNCHANGED configured
    PROVE  StoreWindow(k)' = StoreWindow(k)
BY DEF StoreWindow, SharedWindow

\* A hit counted in Redis is shown, if it passed, and has no bearing on the expiry.
LEMMA SpanIncrementKeeps ==
    ASSUME SpanInv, NEW r \in InFlight, NEW i \in Instances, NEW k \in Keys,
           SpanIncrement(r, i, k)
    PROVE  SpanInv'
<1> DEFINE L == Limit[Watched]
<1>0. /\ SpanTypes /\ Watched \in Keys /\ L \in Nat \ {0} /\ Limit[k] \in Nat \ {0}
      /\ hits[Watched] \in Nat /\ hits[k] \in Nat
      /\ ttl[Watched] \in Int /\ spanLeft \in Nat /\ spanPassed \in Nat
  BY Budgets, WatchedAssumption DEF SpanInv, SpanTypes
<1>1. /\ hits' = [hits EXCEPT ![k] = IF hits[k] > Limit[k] THEN hits[k] ELSE hits[k] + 1]
      /\ spanPassed' = IF k = Watched /\ spanLeft > 0 /\ hits'[k] <= Limit[k]
                       THEN spanPassed + 1 ELSE spanPassed
      /\ UNCHANGED <<ttl, configured, spanLeft>>
  BY DEF SpanIncrement, Increment, Counted, OneMore
<1>2. SpanTypes'
  BY <1>0, <1>1, SameWindow DEF SpanTypes
<1>3. \A l \in Keys : hits'[l] = 0 => ttl'[l] = NoExpiry
  BY <1>0, <1>1 DEF SpanInv, SpanTypes
<1>4. spanLeft' = 0 => spanPassed' = 0
  BY <1>0, <1>1 DEF SpanInv
<1>5. ASSUME spanLeft' > 0
      PROVE  \/ spanPassed' < Shown(Watched)'
             \/ spanPassed' < (Limit[Watched] + Shown(Watched))' /\ Outlives'
  <2>1. Outlives => Outlives'
    BY <1>0, <1>1 DEF Outlives, SpanInv
  <2>2. \/ spanPassed < Shown(Watched)
        \/ spanPassed < L + Shown(Watched) /\ Outlives
    BY <1>1, <1>5 DEF SpanInv
  <2>3. Shown(Watched) \in Nat /\ Shown(Watched)' \in Nat
    BY <1>0, <1>1 DEF Shown, SpanTypes
  <2>4. spanPassed' - Shown(Watched)' <= spanPassed - Shown(Watched)
    <3>1. CASE k = Watched
      BY <1>0, <1>1, <3>1 DEF Shown, SpanTypes
    <3>2. CASE k # Watched
      BY <1>0, <1>1, <3>2 DEF Shown, SpanTypes
    <3> QED
      BY <3>1, <3>2
  <2>5. spanPassed' \in Nat
    BY <1>0, <1>1
  <2> QED
    BY <1>0, <1>1, <2>1, <2>2, <2>3, <2>4, <2>5
<1> QED
  BY <1>2, <1>3, <1>4, <1>5 DEF SpanInv

\* A key that goes while the span lasts had shown a hit from before it, or the span is
\* over with it.
LEMMA SpanTickKeeps == SpanInv /\ SpanTick => SpanInv'
<1> SUFFICES ASSUME SpanInv, SpanTick PROVE SpanInv'
  OBVIOUS
<1> DEFINE L == Limit[Watched]
<1>0. /\ SpanTypes /\ Watched \in Keys /\ L \in Nat \ {0}
      /\ hits[Watched] \in Nat /\ ttl[Watched] \in Int
      /\ spanLeft \in Nat /\ spanPassed \in Nat /\ StoreWindow(Watched) \in Nat
  BY Budgets, WatchedAssumption DEF SpanInv, SpanTypes
<1>1. /\ hits' = [k \in Keys |-> IF ttl[k] = 1 THEN 0 ELSE hits[k]]
      /\ ttl' = [k \in Keys |-> IF ttl[k] \in {1, NoExpiry} THEN NoExpiry
                                                           ELSE ttl[k] - 1]
      /\ spanLeft' = IF spanLeft = 0 THEN 0 ELSE spanLeft - 1
      /\ spanPassed' = IF spanLeft' = 0 THEN 0 ELSE spanPassed
      /\ UNCHANGED configured
  BY DEF SpanTick, Tick
<1>2. SpanTypes'
  <2>1. hits' \in [Keys -> Nat] /\ ttl' \in [Keys -> Int]
    BY <1>0, <1>1 DEF SpanTypes, NoExpiry
  <2>2. spanLeft' \in Nat /\ spanLeft' <= spanLeft /\ spanPassed' \in Nat
    BY <1>0, <1>1
  <2>3. StoreWindow(Watched)' = StoreWindow(Watched)
    BY <1>0, <1>1, SameWindow
  <2> QED
    BY <1>0, <1>1, <2>1, <2>2, <2>3 DEF SpanTypes
<1>3. \A k \in Keys : hits'[k] = 0 => ttl'[k] = NoExpiry
  BY <1>1 DEF SpanInv
<1>4. spanLeft' = 0 => spanPassed' = 0
  BY <1>1
<1>5. ASSUME spanLeft' > 0
      PROVE  \/ spanPassed' < Shown(Watched)'
             \/ spanPassed' < (Limit[Watched] + Shown(Watched))' /\ Outlives'
  <2>1. spanLeft > 1 /\ spanLeft' = spanLeft - 1 /\ spanPassed' = spanPassed
    BY <1>0, <1>1, <1>5
  <2>2. CASE ttl[Watched] = 1 /\ hits[Watched] # 0
    <3>1. hits'[Watched] = 0
      BY <1>0, <1>1, <2>2
    <3>2. ~Outlives
      BY <1>0, <2>1, <2>2 DEF Outlives, NoExpiry
    <3>3. spanPassed < L
      BY <1>0, <2>1, <3>2 DEF SpanInv, Shown
    <3> QED
      BY <1>0, <1>1, <2>1, <3>1, <3>3 DEF Shown, Outlives
  <2>3. CASE ~(ttl[Watched] = 1 /\ hits[Watched] # 0)
    <3>1. hits'[Watched] = hits[Watched]
      BY <1>0, <1>1, <2>3 DEF SpanInv
    <3>2. Outlives => Outlives'
      BY <1>0, <1>1, <2>1, <2>3, <3>1 DEF Outlives, SpanInv, NoExpiry
    <3>3. Shown(Watched)' = Shown(Watched)
      BY <1>1, <3>1 DEF Shown
    <3>4. (Limit[Watched] + Shown(Watched))' = Limit[Watched] + Shown(Watched)
      BY <1>1, <3>3
    <3>5. \/ spanPassed < Shown(Watched)
          \/ spanPassed < Limit[Watched] + Shown(Watched) /\ Outlives
      BY <1>0, <2>1 DEF SpanInv
    <3> QED
      BY <2>1, <3>2, <3>3, <3>4, <3>5
  <2> QED
    BY <2>2, <2>3
<1> QED
  BY <1>2, <1>3, <1>4, <1>5 DEF SpanInv

\* The other steps count nothing; a PEXPIRE gives the key a whole window, so that it
\* outlives the span.
LEMMA SpanOtherKeeps == SpanInv /\ SpanOther => SpanInv'
<1> SUFFICES ASSUME SpanInv, SpanOther PROVE SpanInv'
  OBVIOUS
<1>0. /\ SpanTypes /\ Watched \in Keys /\ UNCHANGED spanVars
      /\ StoreWindow(Watched) \in Nat
  BY Budgets, WatchedAssumption DEF SpanInv, SpanTypes, SpanOther
<1>1. CASE UNCHANGED <<configured, hits, ttl>>
  <2>1. StoreWindow(Watched)' = StoreWindow(Watched)
    BY <1>0, <1>1, SameWindow DEF spanVars
  <2> QED
    BY <1>0, <1>1, <2>1 DEF SpanInv, SpanTypes, Shown, Outlives, spanVars
<1>2. ASSUME NEW r \in InFlight, StartWindow(r), NEW k, k = starting[r][2], hits[k] > 0,
             ttl' = [ttl EXCEPT ![k] = StoreWindow(k)], UNCHANGED <<configured, hits>>
      PROVE  SpanInv'
  <2>1. StoreWindow(Watched)' = StoreWindow(Watched)
    BY <1>0, <1>2, SameWindow DEF spanVars
  <2>2. ttl' \in [Keys -> Int] /\ \A l \in Keys : hits'[l] = 0 => ttl'[l] = NoExpiry
    <3>1. CASE k \in Keys
      <4>1. StoreWindow(k) \in Int
        BY <3>1, Budgets
      <4>2. ttl' \in [Keys -> Int]
        BY <1>0, <1>2, <4>1 DEF SpanTypes
      <4>3. ASSUME NEW l \in Keys, hits[l] = 0 PROVE ttl'[l] = NoExpiry
        <5>1. l # k
          BY <1>2, <4>3
        <5>2. ttl'[l] = ttl[l]
          BY <1>0, <1>2, <5>1 DEF SpanTypes
        <5> QED
          BY <4>3, <5>2 DEF SpanInv
      <4> QED
        BY <1>2, <4>2, <4>3
    <3>2. CASE k \notin Keys
      <4>1. ttl' = [l \in Keys |-> IF l = k THEN StoreWindow(k) ELSE ttl[l]]
        BY <1>0, <1>2 DEF SpanTypes
      <4>2. \A l \in Keys : ttl'[l] = ttl[l]
        BY <3>2, <4>1
      <4>3. ttl' = ttl
        BY <1>0, <4>1, <4>2 DEF SpanTypes
      <4> QED
        BY <1>0, <1>2, <4>3 DEF SpanTypes, SpanInv
    <3> QED
      BY <3>1, <3>2
  <2>3. SpanTypes'
    BY <1>0, <1>2, <2>1, <2>2 DEF SpanTypes, spanVars
  <2>4. Outlives => Outlives'
    <3>1. CASE k = Watched
      BY <1>0, <1>2, <3>1 DEF Outlives, SpanTypes, spanVars
    <3>2. CASE k # Watched
      BY <1>0, <1>2, <3>2 DEF Outlives, SpanTypes, spanVars
    <3> QED
      BY <3>1, <3>2
  <2>5. Shown(Watched)' = Shown(Watched)
    BY <1>0, <1>2 DEF Shown, spanVars
  <2> QED
    BY <1>0, <2>2, <2>3, <2>4, <2>5 DEF SpanInv, spanVars
<1>3. ASSUME NEW r \in InFlight, Finish(r) PROVE SpanInv'
  BY <1>1, <1>2, <1>3 DEF Finish, StartWindow, StartWindowFails, FullWindow
<1>4. ASSUME NEW i \in Instances, NEW k \in Keys, IncrementInMemory(i, k) PROVE SpanInv'
  BY <1>1, <1>4 DEF IncrementInMemory
<1>5. ASSUME NEW i \in Instances, LoseRedis(i) \/ RegainRedis(i) \/ Restart(i) PROVE SpanInv'
  BY <1>1, <1>5 DEF LoseRedis, RegainRedis, Restart
<1> QED
  BY <1>3, <1>4, <1>5 DEF SpanOther

LEMMA SpanInvStep == SpanInv /\ [SpanNext]_<<limitVars, spanVars>> => SpanInv'
<1> SUFFICES ASSUME SpanInv, [SpanNext]_<<limitVars, spanVars>> PROVE SpanInv'
  OBVIOUS
<1>1. CASE BeginSpan
  <2>1. /\ Watched \in Keys /\ hits[Watched] \in Nat
        /\ StoreWindow(Watched) \in Nat \ {0} /\ Limit[Watched] \in Nat \ {0}
    BY Budgets, WatchedAssumption DEF SpanInv, SpanTypes
  <2>2. /\ spanLeft' = StoreWindow(Watched) /\ spanPassed' = 0
        /\ UNCHANGED <<hits, ttl, configured>>
    BY <1>1 DEF BeginSpan, limitVars
  <2>3. StoreWindow(Watched)' = StoreWindow(Watched)
    BY <2>1, <2>2, SameWindow
  <2>4. SpanTypes'
    BY <2>1, <2>2, <2>3 DEF SpanInv, SpanTypes
  <2>5. \/ 0 < Shown(Watched)'
        \/ 0 < (Limit[Watched] + Shown(Watched))' /\ Outlives'
    BY <2>1, <2>2 DEF Shown, Outlives
  <2> QED
    BY <2>1, <2>2, <2>4, <2>5 DEF SpanInv
<1>2. ASSUME NEW r \in InFlight, NEW i \in Instances, NEW k \in Keys, SpanIncrement(r, i, k)
      PROVE  SpanInv'
  BY <1>2, SpanIncrementKeeps
<1>3. CASE SpanTick
  BY <1>3, SpanTickKeeps
<1>4. CASE SpanOther
  BY <1>4, SpanOtherKeeps
<1>5. CASE UNCHANGED <<limitVars, spanVars>>
  <2>1. UNCHANGED <<configured, hits, ttl, spanLeft, spanPassed>>
    BY <1>5 DEF limitVars, spanVars
  <2>2. Watched \in Keys
    BY WatchedAssumption
  <2>3. StoreWindow(Watched)' = StoreWindow(Watched)
    BY <2>1, <2>2, SameWindow
  <2> QED
    BY <2>1, <2>3 DEF SpanInv, SpanTypes, Shown, Outlives
<1> QED
  BY <1>1, <1>2, <1>3, <1>4, <1>5 DEF SpanNext

\* No window's length of time lets twice a limiter's budget pass, for any limiters, windows
\* and limits, any number of requests and processes, and through crashes and outages.
THEOREM LessThanTwicePerWindow == SpanSpec => []TwicePerWindow
<1>1. SpanInv => TwicePerWindow
  <2> SUFFICES ASSUME SpanInv PROVE spanPassed < 2 * Limit[Watched]
    BY DEF TwicePerWindow
  <2>1. /\ Limit[Watched] \in Nat \ {0} /\ hits[Watched] \in Nat
        /\ spanLeft \in Nat /\ spanPassed \in Nat
    BY Budgets, WatchedAssumption DEF SpanInv, SpanTypes
  <2>2. Shown(Watched) \in Nat /\ Shown(Watched) <= Limit[Watched]
    BY <2>1 DEF Shown
  <2>3. spanPassed < Limit[Watched] + Limit[Watched]
    BY <2>1, <2>2 DEF SpanInv
  <2> QED
    BY <2>1, <2>3
<1> QED
  BY <1>1, SpanInvInit, SpanInvStep, PTL DEF SpanSpec

=============================================================================
