----------------------------- MODULE FollowProofs -----------------------------
(***************************************************************************)
(* What holds of Follow for every finite set of users, every set of tabs   *)
(* and requests, and any number of failures: the state stays well typed,   *)
(* the counts follow the lists, following is mutual, and a profile page    *)
(* shows what a reload would.                                              *)
(***************************************************************************)
EXTENDS Follow, FiniteSetTheorems, TLAPS

-----------------------------------------------------------------------------
(* Types.                                                                  *)

\* Math.max(0, ...) is a natural number.
LEMMA MaxZero ==
    ASSUME NEW n \in Int
    PROVE  Max({0, n}) \in Nat /\ Max({n, 0}) \in Nat
  <1>1. \E x \in {0, n} : \A y \in {0, n} : x >= y
    <2>1. CASE n >= 0
      BY <2>1
    <2>2. CASE ~(n >= 0)
      BY <2>2
    <2> QED
      BY <2>1, <2>2
  <1>2. Max({0, n}) \in {0, n} /\ Max({0, n}) >= 0
    BY <1>1 DEF Max
  <1>3. {0, n} = {n, 0}
    OBVIOUS
  <1> QED
    BY <1>2, <1>3

LEMMA FollowersFinite ==
    ASSUME NEW S \in SUBSET Users
    PROVE  IsFiniteSet(S) /\ Cardinality(S) \in Nat
  BY UsersFinite, FS_Subset, FS_CardinalityType

LEMMA ByType ==
    ASSUME TypeOK, NEW r \in Requests
    PROVE  By(r) \in Users /\ tab[r] \in Tabs /\ Inc(r) \in Int
  BY OwnerAssumption DEF TypeOK, By, Inc

LEMMA OverType ==
    ASSUME TypeOK, NEW r \in Requests, Over(r)
    PROVE  stage' \in [Requests -> Stages] /\ view' \in [Tabs -> Views]
  BY ByType DEF TypeOK, Over, Stages, Views

LEMMA GetOverType ==
    ASSUME TypeOK, NEW t \in Tabs, GetOver(t)
    PROVE  get' \in [Tabs -> Gets] /\ given' \in [Tabs -> Profiles]
  BY DEF TypeOK, GetOver, Gets, Profiles, Blank

LEMMA TypeInit == Init => TypeOK
  BY FollowTroubleAssumption DEF Init, TypeOK, Stages, Views, Gets, Profiles, Blank

LEMMA TypeStep == TypeOK /\ [Next]_vars => TypeOK'
  <1> SUFFICES ASSUME TypeOK, [Next]_vars PROVE TypeOK'
    OBVIOUS
  <1> USE DEF graphVars, requestVars, tabVars
  <1>1. ASSUME NEW t \in Tabs, Open(t) PROVE TypeOK'
    <2>1. ShownCount \in Nat
      BY FollowersFinite, MaxZero DEF TypeOK, ShownCount
    <2>2. given' \in [Tabs -> Profiles]
      BY <1>1, <2>1 DEF Open, TypeOK, Profiles
    <2>3. outdated' \in [Tabs -> BOOLEAN] /\ get' \in [Tabs -> Gets]
      BY <1>1 DEF Open, TypeOK, Gets
    <2> QED
      BY <1>1, <2>2, <2>3 DEF Open, TypeOK
  <1>2. ASSUME NEW t \in Tabs, OpenAnswer(t) PROVE TypeOK'
    <2>1. get' \in [Tabs -> Gets] /\ given' \in [Tabs -> Profiles]
      BY <1>2, GetOverType DEF OpenAnswer
    <2>2. page' \in [Tabs -> Profiles] /\ view' \in [Tabs -> Views]
      BY <1>2 DEF OpenAnswer, TypeOK, Views
    <2> QED
      BY <1>2, <2>1, <2>2 DEF OpenAnswer, TypeOK
  <1>9. ASSUME NEW t \in Tabs, ViewerRead(t) PROVE TypeOK'
    <2>1. given' \in [Tabs -> Profiles]
      BY <1>9, OwnerAssumption DEF ViewerRead, TypeOK, Profiles
    <2>2. get' \in [Tabs -> Gets]
      BY <1>9 DEF ViewerRead, TypeOK, Gets
    <2> QED
      BY <1>9, <2>1, <2>2 DEF ViewerRead, TypeOK
  <1>10. ASSUME NEW t \in Tabs, OpenFails(t) PROVE TypeOK'
    <2>1. get' \in [Tabs -> Gets] /\ given' \in [Tabs -> Profiles]
      BY <1>10, GetOverType DEF OpenFails
    <2>2. trouble' \in 0 .. MaxTrouble
      BY <1>10, FollowTroubleAssumption DEF OpenFails, Trouble, TypeOK
    <2> QED
      BY <1>10, <2>1, <2>2 DEF OpenFails, TypeOK
  <1>3. ASSUME NEW r \in Requests, Click(r) PROVE TypeOK'
    <2>1. stage' \in [Requests -> Stages] /\ view' \in [Tabs -> Views]
      BY <1>3, ByType DEF Click, TypeOK, Stages, Views
    <2>2. outdated' \in [Tabs -> BOOLEAN]
      BY <1>3 DEF Click, TypeOK
    <2> QED
      BY <1>3, <2>1, <2>2 DEF Click, TypeOK
  <1>4. ASSUME NEW r \in Requests, FollowFind(r) PROVE TypeOK'
    <2>1. stage' \in [Requests -> Stages]
      BY <1>4 DEF FollowFind, TypeOK, Stages
    <2>2. adds' \in [Requests -> BOOLEAN]
      BY <1>4 DEF FollowFind, TypeOK
    <2>3. sent' \in [Requests -> SUBSET Parts]
      BY <1>4 DEF FollowFind, TypeOK
    <2>4. rivalled' \subseteq Users
      BY <1>4, ByType DEF FollowFind, TypeOK
    <2> QED
      BY <1>4, <2>1, <2>2, <2>3, <2>4 DEF FollowFind, TypeOK
  <1>5. ASSUME NEW r \in Requests, Update(r) PROVE TypeOK'
    <2>1. outdated' \in [Tabs -> BOOLEAN]
      BY <1>5 DEF Update, TypeOK
    <2>2. sent' \in [Requests -> SUBSET Parts]
      BY <1>5 DEF Update, UpdateAccount, UpdateUser, TypeOK
    <2>3. followers' \subseteq Users /\ followersCount' \in Int
      <3>1. CASE UpdateAccount(r)
        BY <3>1, ByType DEF UpdateAccount, Listed, TypeOK
      <3>2. CASE UpdateUser(r)
        BY <3>2 DEF UpdateUser, TypeOK
      <3> QED
        BY <1>5, <3>1, <3>2 DEF Update
    <2>4. following' \in [Users -> BOOLEAN] /\ followingCount' \in [Users -> Int]
      <3>1. CASE UpdateAccount(r)
        BY <3>1 DEF UpdateAccount, TypeOK
      <3>2. CASE UpdateUser(r)
        <4>1. following' \in [Users -> BOOLEAN]
          BY <3>2 DEF UpdateUser, TypeOK
        <4>2. followingCount[By(r)] + Inc(r) \in Int
          BY ByType DEF TypeOK
        <4>3. followingCount' \in [Users -> Int]
          BY <3>2, <4>2 DEF UpdateUser, TypeOK
        <4> QED
          BY <4>1, <4>3
      <3> QED
        BY <1>5, <3>1, <3>2 DEF Update
    <2> QED
      BY <1>5, <2>1, <2>2, <2>3, <2>4 DEF Update, TypeOK
  <1>6. ASSUME NEW r \in Requests, Answer(r) PROVE TypeOK'
    <2>1. page[tab[r]].count + Inc(r) \in Int
      BY ByType DEF TypeOK, Profiles
    <2>2. Adjusted(r) \in Profiles
      BY <2>1, MaxZero DEF Adjusted, Profiles, TypeOK
    <2>3. page' \in [Tabs -> Profiles]
      BY <1>6, <2>2 DEF Answer, TypeOK
    <2> QED
      BY <1>6, <2>3, OverType DEF Answer, TypeOK
  <1>7. ASSUME NEW r \in Requests, FollowFails(r) PROVE TypeOK'
    <2>1. sent' \in [Requests -> SUBSET Parts]
      BY <1>7 DEF FollowFails, TypeOK
    <2>2. trouble' \in 0 .. MaxTrouble
      BY <1>7, FollowTroubleAssumption DEF FollowFails, Trouble, TypeOK
    <2> QED
      BY <1>7, <2>1, <2>2, OverType DEF FollowFails, TypeOK
  <1>8. CASE UNCHANGED vars
    BY <1>8 DEF vars, TypeOK
  <1> QED
    BY <1>1, <1>2, <1>3, <1>4, <1>5, <1>6, <1>7, <1>8, <1>9, <1>10 DEF Next

\* The types of Follow are correct in every reachable state.
THEOREM FollowTyped == Spec => []TypeOK
  BY TypeInit, TypeStep, PTL DEF Spec

-----------------------------------------------------------------------------
(* The counts and the lists.                                               *)

\* A request that has not decided yet has sent nothing.
NothingSentBefore ==
    \A r \in Requests : stage[r] \in {"unsent", "find"} => sent[r] = {}

\* Of a user without rivals, one request at a time has updates to be executed.
OneAtATime ==
    \A q, r \in Requests :
        /\ By(q) = By(r) /\ By(r) \notin rivalled
        /\ sent[q] # {} /\ sent[r] # {}
        => q = r

\* The update of the account that is still to be executed will change the list.
AccountAhead ==
    \A r \in Requests :
        By(r) \notin rivalled /\ "account" \in sent[r] => (adds[r] <=> By(r) \notin followers)

AccountCounted == rivalled = {} => followersCount = Cardinality(followers)

\* The same of the user's own document, and what the two say of each other while
\* one of the updates has been executed.
UserAhead ==
    trouble = 0 =>
        \A r \in Requests : By(r) \notin rivalled =>
            /\ "user" \in sent[r] => (adds[r] <=> ~following[By(r)])
            /\ sent[r] = {"user"} => (adds[r] <=> By(r) \in followers)
            /\ sent[r] = {"account"} => (adds[r] <=> following[By(r)])

UserCounted ==
    trouble = 0 => \A u \in Users \ rivalled :
                      followingCount[u] = IF following[u] THEN 1 ELSE 0

\* The inductive invariant: the counts alone say nothing of the updates that are
\* on their way.
Steady ==
    /\ NothingSentBefore
    /\ OneAtATime
    /\ AccountAhead
    /\ AccountCounted
    /\ UserAhead
    /\ UserCounted
    /\ FollowIsMutual

\* Steps that neither send nor execute anything
LEMMA SteadyFrame ==
    ASSUME Steady, UNCHANGED <<graphVars, tab, adds, sent, trouble, rivalled>>,
           NothingSentBefore'
    PROVE  Steady'
  <1> USE DEF Steady, graphVars, By
  <1>1. OneAtATime'
    BY DEF OneAtATime
  <1>2. AccountAhead' /\ AccountCounted'
    BY DEF AccountAhead, AccountCounted
  <1>3. UserAhead' /\ UserCounted'
    BY DEF UserAhead, UserCounted
  <1>4. FollowIsMutual'
    BY DEF FollowIsMutual
  <1> QED
    BY <1>1, <1>2, <1>3, <1>4

LEMMA SteadyInit == Init => Steady
  <1> SUFFICES ASSUME Init PROVE Steady
    OBVIOUS
  <1>1. Cardinality({}) = 0
    BY FS_EmptySet
  <1> QED
    BY <1>1 DEF Init, Steady, NothingSentBefore, OneAtATime, AccountAhead,
                AccountCounted, UserAhead, UserCounted, FollowIsMutual

\* A request decides: what it has read is what there is, as long as no other
\* request of the user has updates on their way.
LEMMA FindSteady ==
    ASSUME TypeOK, Steady, NEW r \in Requests, FollowFind(r)
    PROVE  Steady'
  <1> DEFINE u == By(r)
  <1>1. /\ u \in Users
        /\ \A q \in Requests : By(q)' = By(q)
        /\ UNCHANGED <<graphVars, trouble>>
        /\ rivalled \subseteq rivalled'
        /\ sent[r] = {}
    BY ByType DEF FollowFind, By, Steady, NothingSentBefore
  <1>2. \A q \in Requests \ {r} : sent'[q] = sent[q] /\ adds'[q] = adds[q] /\ stage'[q] = stage[q]
    BY DEF FollowFind, TypeOK
  <1>3. sent'[r] = {"account", "user"} /\ adds'[r] = (u \notin followers) /\ stage'[r] = "update"
    BY DEF FollowFind, TypeOK, Parts
  <1>4. u \notin rivalled' => \A q \in Requests \ {r} : By(q) = u => sent[q] = {}
    BY DEF FollowFind, Overlaps
  <1>5. NothingSentBefore'
    BY <1>2, <1>3 DEF NothingSentBefore, Steady
  <1>6. OneAtATime'
    <2> SUFFICES ASSUME NEW q \in Requests, NEW p \in Requests, By(q) = By(p),
                        By(p) \notin rivalled', sent'[q] # {}, sent'[p] # {}
                 PROVE  q = p
      BY <1>1 DEF OneAtATime
    <2>1. CASE q # r /\ p # r
      BY <1>1, <1>2, <2>1 DEF Steady, OneAtATime
    <2>2. CASE q = r \/ p = r
      BY <1>2, <1>4, <2>2
    <2> QED
      BY <2>1, <2>2
  <1>7. AccountAhead'
    BY <1>1, <1>2, <1>3 DEF AccountAhead, Steady, graphVars
  <1>8. AccountCounted'
    BY <1>1 DEF AccountCounted, Steady, graphVars
  <1>9. UserAhead'
    <2> SUFFICES ASSUME trouble = 0, NEW q \in Requests, By(q) \notin rivalled'
                 PROVE  /\ "user" \in sent'[q] => (adds'[q] <=> ~following[By(q)])
                        /\ sent'[q] = {"user"} => (adds'[q] <=> By(q) \in followers)
                        /\ sent'[q] = {"account"} => (adds'[q] <=> following[By(q)])
      BY <1>1 DEF UserAhead, graphVars
    <2>1. CASE q # r
      BY <1>1, <1>2, <2>1 DEF UserAhead, Steady
    <2>2. CASE q = r
      <3>1. \A p \in Requests : By(p) = u => sent[p] = {}
        BY <1>1, <1>4, <2>2
      <3>2. following[u] <=> u \in followers
        BY <1>1, <2>2, <3>1 DEF FollowIsMutual, Steady
      <3> QED
        BY <1>3, <2>2, <3>2
    <2> QED
      BY <2>1, <2>2
  <1>10. UserCounted'
    BY <1>1 DEF UserCounted, Steady, graphVars
  <1>11. FollowIsMutual'
    <2> SUFFICES ASSUME NEW v \in Users \ rivalled', trouble = 0,
                        \A q \in Requests : By(q) = v => sent'[q] = {}
                 PROVE  following[v] <=> v \in followers
      BY <1>1 DEF FollowIsMutual, graphVars
    <2>1. v # u
      BY <1>3
    <2>2. \A q \in Requests : By(q) = v => sent[q] = {}
      BY <1>2, <2>1
    <2> QED
      BY <1>1, <2>2 DEF FollowIsMutual, Steady
  <1> QED
    BY <1>5, <1>6, <1>7, <1>8, <1>9, <1>10, <1>11 DEF Steady

\* What an update of either document has in common.
LEMMA UpdateSends ==
    ASSUME TypeOK, Steady, NEW r \in Requests, NEW part \in Parts, part \in sent[r],
           sent' = [sent EXCEPT ![r] = @ \ {part}],
           UNCHANGED <<stage, tab, adds, trouble, rivalled>>
    PROVE  /\ \A q \in Requests : By(q)' = By(q)
           /\ \A q \in Requests \ {r} : sent'[q] = sent[q]
           /\ sent'[r] = sent[r] \ {part}
           /\ \A q \in Requests \ {r} :
                 By(r) \notin rivalled /\ By(q) = By(r) => sent[q] = {}
           /\ NothingSentBefore'
           /\ OneAtATime'
  <1>1. \A q \in Requests : By(q)' = By(q)
    BY DEF By
  <1>2. \A q \in Requests \ {r} : sent'[q] = sent[q]
    BY DEF TypeOK
  <1>3. sent'[r] = sent[r] \ {part}
    BY DEF TypeOK
  <1>4. \A q \in Requests \ {r} : By(r) \notin rivalled /\ By(q) = By(r) => sent[q] = {}
    BY DEF Steady, OneAtATime
  <1>5. NothingSentBefore'
    BY <1>2, <1>3 DEF Steady, NothingSentBefore
  <1>6. OneAtATime'
    BY <1>1, <1>2, <1>3 DEF Steady, OneAtATime
  <1> QED
    BY <1>1, <1>2, <1>3, <1>4, <1>5, <1>6

LEMMA UpdateAccountSteady ==
    ASSUME TypeOK, Steady, NEW r \in Requests, UpdateAccount(r),
           UNCHANGED <<stage, tab, adds, trouble, rivalled>>
    PROVE  Steady'
  <1> DEFINE u == By(r)
  <1>1. "account" \in sent[r] /\ sent' = [sent EXCEPT ![r] = @ \ {"account"}]
    BY DEF UpdateAccount
  <1>2. /\ \A q \in Requests : By(q)' = By(q)
        /\ \A q \in Requests \ {r} : sent'[q] = sent[q]
        /\ sent'[r] = sent[r] \ {"account"}
        /\ \A q \in Requests \ {r} : u \notin rivalled /\ By(q) = u => sent[q] = {}
        /\ NothingSentBefore'
        /\ OneAtATime'
    BY <1>1, UpdateSends DEF Parts
  <1>3. /\ UNCHANGED <<adds, trouble, rivalled, following, followingCount>>
        /\ u \in Users
    BY ByType DEF UpdateAccount
  <1>4. /\ \A v \in Users \ {u} : v \in followers' <=> v \in followers
        /\ u \in followers' <=> adds[r]
    BY <1>3 DEF UpdateAccount, Listed, TypeOK
  <1>5. AccountAhead'
    <2> SUFFICES ASSUME NEW q \in Requests, By(q) \notin rivalled, "account" \in sent'[q]
                 PROVE  adds[q] <=> By(q) \notin followers'
      BY <1>2, <1>3 DEF AccountAhead
    <2>1. q # r /\ By(q) # u
      BY <1>2
    <2>2. By(q) \in Users
      BY ByType
    <2> QED
      BY <1>2, <1>4, <2>1, <2>2 DEF AccountAhead, Steady
  <1>6. AccountCounted'
    <2> SUFFICES ASSUME rivalled = {} PROVE followersCount' = Cardinality(followers')
      BY <1>3 DEF AccountCounted
    <2>1. followersCount = Cardinality(followers) /\ (adds[r] <=> u \notin followers)
      BY <1>1 DEF Steady, AccountCounted, AccountAhead
    <2>2. IsFiniteSet(followers) /\ Cardinality(followers) \in Nat
      BY FollowersFinite DEF TypeOK
    <2>3. CASE adds[r]
      <3>1. followers' = followers \cup {u} /\ followersCount' = followersCount + 1
        BY <2>3 DEF UpdateAccount, Listed, Inc
      <3>2. Cardinality(followers \cup {u}) = Cardinality(followers) + 1
        BY <2>1, <2>2, <2>3, FS_AddElement
      <3> QED
        BY <2>1, <3>1, <3>2
    <2>4. CASE ~adds[r]
      <3>1. followers' = followers \ {u} /\ followersCount' = followersCount + (-1)
        BY <2>4 DEF UpdateAccount, Listed, Inc
      <3>2. Cardinality(followers \ {u}) = Cardinality(followers) - 1
        BY <2>1, <2>2, <2>4, FS_RemoveElement
      <3> QED
        BY <2>1, <2>2, <3>1, <3>2
    <2> QED
      BY <2>3, <2>4 DEF TypeOK
  <1>7. UserAhead'
    <2> SUFFICES ASSUME trouble = 0, NEW q \in Requests, By(q) \notin rivalled
                 PROVE  /\ "user" \in sent'[q] => (adds[q] <=> ~following[By(q)])
                        /\ sent'[q] = {"user"} => (adds[q] <=> By(q) \in followers')
                        /\ sent'[q] = {"account"} => (adds[q] <=> following[By(q)])
      BY <1>2, <1>3 DEF UserAhead
    <2>1. CASE q = r
      BY <1>1, <1>2, <1>4, <2>1 DEF UserAhead, Steady
    <2>2. CASE q # r /\ By(q) = u
      BY <1>2, <2>2
    <2>3. CASE q # r /\ By(q) # u
      <3>1. By(q) \in Users
        BY ByType
      <3> QED
        BY <1>2, <1>4, <2>3, <3>1 DEF UserAhead, Steady
    <2> QED
      BY <2>1, <2>2, <2>3
  <1>8. UserCounted'
    BY <1>3 DEF UserCounted, Steady
  <1>9. FollowIsMutual'
    <2> SUFFICES ASSUME NEW v \in Users \ rivalled, trouble = 0,
                        \A q \in Requests : By(q) = v => sent'[q] = {}
                 PROVE  following[v] <=> v \in followers'
      BY <1>2, <1>3 DEF FollowIsMutual
    <2>1. CASE v # u
      <3>1. \A q \in Requests : By(q) = v => sent[q] = {}
        BY <1>2, <2>1
      <3> QED
        BY <1>4, <2>1, <3>1 DEF FollowIsMutual, Steady
    <2>2. CASE v = u
      <3>1. sent[r] = {"account"}
        BY <1>1, <1>2, <2>2
      <3> QED
        BY <1>4, <2>2, <3>1 DEF UserAhead, Steady
    <2> QED
      BY <2>1, <2>2
  <1> QED
    BY <1>2, <1>5, <1>6, <1>7, <1>8, <1>9 DEF Steady

LEMMA UpdateUserSteady ==
    ASSUME TypeOK, Steady, NEW r \in Requests, UpdateUser(r),
           UNCHANGED <<stage, tab, adds, trouble, rivalled>>
    PROVE  Steady'
  <1> DEFINE u == By(r)
  <1>1. "user" \in sent[r] /\ sent' = [sent EXCEPT ![r] = @ \ {"user"}]
    BY DEF UpdateUser
  <1>2. /\ \A q \in Requests : By(q)' = By(q)
        /\ \A q \in Requests \ {r} : sent'[q] = sent[q]
        /\ sent'[r] = sent[r] \ {"user"}
        /\ \A q \in Requests \ {r} : u \notin rivalled /\ By(q) = u => sent[q] = {}
        /\ NothingSentBefore'
        /\ OneAtATime'
    BY <1>1, UpdateSends DEF Parts
  <1>3. /\ UNCHANGED <<adds, trouble, rivalled, followers, followersCount>>
        /\ u \in Users
    BY ByType DEF UpdateUser
  <1>4. /\ \A v \in Users \ {u} : following'[v] = following[v]
        /\ \A v \in Users \ {u} : followingCount'[v] = followingCount[v]
        /\ following'[u] = adds[r]
        /\ followingCount'[u] = followingCount[u] + Inc(r)
    BY <1>3 DEF UpdateUser, TypeOK
  <1>5. AccountAhead'
    BY <1>2, <1>3 DEF AccountAhead, Steady
  <1>6. AccountCounted'
    BY <1>3 DEF AccountCounted, Steady
  <1>7. UserAhead'
    <2> SUFFICES ASSUME trouble = 0, NEW q \in Requests, By(q) \notin rivalled
                 PROVE  /\ "user" \in sent'[q] => (adds[q] <=> ~following'[By(q)])
                        /\ sent'[q] = {"user"} => (adds[q] <=> By(q) \in followers)
                        /\ sent'[q] = {"account"} => (adds[q] <=> following'[By(q)])
      BY <1>2, <1>3 DEF UserAhead
    <2>1. CASE q = r
      BY <1>2, <1>4, <2>1
    <2>2. CASE q # r /\ By(q) = u
      BY <1>2, <2>2
    <2>3. CASE q # r /\ By(q) # u
      <3>1. By(q) \in Users
        BY ByType
      <3> QED
        BY <1>2, <1>4, <2>3, <3>1 DEF UserAhead, Steady
    <2> QED
      BY <2>1, <2>2, <2>3
  <1>8. UserCounted'
    <2> SUFFICES ASSUME trouble = 0, NEW v \in Users \ rivalled
                 PROVE  followingCount'[v] = IF following'[v] THEN 1 ELSE 0
      BY <1>3 DEF UserCounted
    <2>1. followingCount[v] = IF following[v] THEN 1 ELSE 0
      BY DEF UserCounted, Steady
    <2>2. CASE v # u
      BY <1>4, <2>1, <2>2
    <2>3. CASE v = u
      <3>1. adds[r] <=> ~following[u]
        BY <1>1, <2>3 DEF UserAhead, Steady
      <3> QED
        BY <1>4, <2>1, <2>3, <3>1 DEF Inc
    <2> QED
      BY <2>2, <2>3
  <1>9. FollowIsMutual'
    <2> SUFFICES ASSUME NEW v \in Users \ rivalled, trouble = 0,
                        \A q \in Requests : By(q) = v => sent'[q] = {}
                 PROVE  following'[v] <=> v \in followers
      BY <1>2, <1>3 DEF FollowIsMutual
    <2>1. CASE v # u
      <3>1. \A q \in Requests : By(q) = v => sent[q] = {}
        BY <1>2, <2>1
      <3> QED
        BY <1>4, <2>1, <3>1 DEF FollowIsMutual, Steady
    <2>2. CASE v = u
      <3>1. sent[r] = {"user"}
        BY <1>1, <1>2, <2>2
      <3> QED
        BY <1>4, <2>2, <3>1 DEF UserAhead, Steady
    <2> QED
      BY <2>1, <2>2
  <1> QED
    BY <1>2, <1>5, <1>6, <1>7, <1>8, <1>9 DEF Steady

\* A request fails: some of what it has sent is perhaps not executed.
LEMMA FailSteady ==
    ASSUME TypeOK, Steady, NEW r \in Requests, FollowFails(r)
    PROVE  Steady'
  <1>1. /\ UNCHANGED <<graphVars, adds, rivalled>>
        /\ \A q \in Requests : By(q)' = By(q)
    BY DEF FollowFails, By
  <1>2. \A q \in Requests : sent'[q] \subseteq sent[q]
    BY DEF FollowFails, TypeOK
  <1>3. trouble' # 0
    BY DEF FollowFails, Trouble, TypeOK
  <1>4. \A q \in Requests : stage'[q] \in {"unsent", "find"} => stage[q] = stage'[q]
    BY DEF FollowFails, Over, TypeOK
  <1>5. NothingSentBefore'
    BY <1>2, <1>4 DEF NothingSentBefore, Steady
  <1>6. OneAtATime'
    BY <1>1, <1>2 DEF OneAtATime, Steady
  <1>7. AccountAhead' /\ AccountCounted'
    BY <1>1, <1>2 DEF AccountAhead, AccountCounted, Steady, graphVars
  <1>8. UserAhead' /\ UserCounted' /\ FollowIsMutual'
    BY <1>3 DEF UserAhead, UserCounted, FollowIsMutual
  <1> QED
    BY <1>5, <1>6, <1>7, <1>8 DEF Steady

LEMMA SteadyStep == TypeOK /\ Steady /\ [Next]_vars => Steady'
  <1> SUFFICES ASSUME TypeOK, Steady, [Next]_vars PROVE Steady'
    OBVIOUS
  <1>1. ASSUME NEW t \in Tabs, Open(t) \/ ViewerRead(t) \/ OpenAnswer(t) PROVE Steady'
    <2>1. NothingSentBefore'
      BY <1>1 DEF Open, ViewerRead, OpenAnswer, requestVars, NothingSentBefore, Steady
    <2> QED
      BY <1>1, <2>1, SteadyFrame DEF Open, ViewerRead, OpenAnswer, requestVars
  <1>8. ASSUME NEW t \in Tabs, OpenFails(t) PROVE Steady'
    <2>1. UNCHANGED <<graphVars, requestVars, rivalled>> /\ trouble' # 0
      BY <1>8 DEF OpenFails, Trouble, TypeOK
    <2>2. NothingSentBefore' /\ OneAtATime' /\ AccountAhead' /\ AccountCounted'
      BY <2>1 DEF requestVars, graphVars, By, Steady, NothingSentBefore, OneAtATime,
                  AccountAhead, AccountCounted
    <2>3. UserAhead' /\ UserCounted' /\ FollowIsMutual'
      BY <2>1 DEF UserAhead, UserCounted, FollowIsMutual
    <2> QED
      BY <2>2, <2>3 DEF Steady
  <1>2. ASSUME NEW r \in Requests, Click(r) PROVE Steady'
    <2>1. NothingSentBefore'
      BY <1>2 DEF Click, NothingSentBefore, Steady, TypeOK
    <2> QED
      BY <1>2, <2>1, SteadyFrame DEF Click
  <1>3. ASSUME NEW r \in Requests, FollowFind(r) PROVE Steady'
    BY <1>3, FindSteady
  <1>4. ASSUME NEW r \in Requests, Update(r) PROVE Steady'
    BY <1>4, UpdateAccountSteady, UpdateUserSteady DEF Update
  <1>5. ASSUME NEW r \in Requests, Answer(r) PROVE Steady'
    <2>1. NothingSentBefore'
      BY <1>5 DEF Answer, Over, NothingSentBefore, Steady, TypeOK
    <2> QED
      BY <1>5, <2>1, SteadyFrame DEF Answer
  <1>6. ASSUME NEW r \in Requests, FollowFails(r) PROVE Steady'
    BY <1>6, FailSteady
  <1>7. CASE UNCHANGED vars
    <2>1. NothingSentBefore'
      BY <1>7 DEF vars, requestVars, NothingSentBefore, Steady
    <2> QED
      BY <1>7, <2>1, SteadyFrame DEF vars, requestVars
  <1> QED
    BY <1>1, <1>2, <1>3, <1>4, <1>5, <1>6, <1>7, <1>8 DEF Next

LEMMA SteadyGives == Steady => CountsFollowLists /\ FollowIsMutual
  BY DEF Steady, AccountCounted, UserCounted, CountsFollowLists

\* However users follow and unfollow at once, the count beside a list is its
\* length until two requests of one user overlap.
THEOREM CountsAreLengths == Spec => []CountsFollowLists
  BY TypeInit, TypeStep, SteadyInit, SteadyStep, SteadyGives, PTL DEF Spec

\* And until then, or until something fails, following is mutual.
THEOREM FollowingIsMutual == Spec => []FollowIsMutual
  BY TypeInit, TypeStep, SteadyInit, SteadyStep, SteadyGives, PTL DEF Spec

-----------------------------------------------------------------------------
(* The profile pages.                                                      *)

Active(r) == stage[r] \in {"find", "update"}

\* A tab waits for one request; before anything fails, all that is still to be
\* executed is what such requests have sent.
WaitsForOne ==
    /\ \A r \in Requests : Active(r) => view[tab[r]] = "waiting"
    /\ \A q, r \in Requests : Active(q) /\ Active(r) /\ tab[q] = tab[r] => q = r
    /\ trouble = 0 => \A r \in Requests : sent[r] # {} => stage[r] = "update"

\* What the page will count as followers when the request is answered
WillCount(r) == IF "account" \in sent[r] \/ stage[r] = "find" THEN 0 ELSE Inc(r)

\* What a tab has been told, as far as only its own requests have changed the account since:
\* while the profile is asked for, which no follow is awaited beside, when it is shown, and
\* while a request is on its way, the page then behind by what has already been executed of
\* it.
PartlyTold(t) ==
    get[t] # "none" =>
        /\ view[t] # "waiting"
        /\ given[t].count = followersCount
        /\ get[t] = "answer" => given[t].isFollowing = following[Owner[t]]
Told(t) ==
    view[t] = "shown" /\ get[t] = "none" =>
        /\ page[t].count = followersCount
        /\ page[t].isFollowing = following[Owner[t]]
Behind(r) ==
    Active(r) =>
        /\ page[tab[r]].count + WillCount(r) = followersCount
        /\ stage[r] = "update" /\ "user" \notin sent[r] => following[By(r)] = adds[r]

Undivided == rivalled = {} /\ trouble = 0

\* The inductive invariant of the pages: the answer of a request is applied to what the page
\* showed before it, so what is shown cannot be told from what is waited for.
PageInv ==
    /\ WaitsForOne
    /\ Undivided => \A t \in Tabs : ~outdated[t] => PartlyTold(t) /\ Told(t)
    /\ Undivided => \A r \in Requests : ~outdated[tab[r]] => Behind(r)

\* The number of followers the answer gives is the count beside the list.
LEMMA ShownIsCount ==
    ASSUME TypeOK, Steady, rivalled = {}
    PROVE  ShownCount = followersCount
  <1>1. followersCount = Cardinality(followers)
    BY DEF Steady, AccountCounted
  <1>2. CASE followers # {}
    BY <1>1, <1>2 DEF ShownCount
  <1>3. CASE followers = {}
    <2>1. followersCount = 0
      BY <1>1, <1>3, FS_EmptySet
    <2>2. Max({0, 0}) \in {0, 0}
      <3>1. \E x \in {0, 0} : \A y \in {0, 0} : x >= y
        OBVIOUS
      <3> QED
        BY <3>1 DEF Max
    <2> QED
      BY <1>3, <2>1, <2>2 DEF ShownCount
  <1> QED
    BY <1>2, <1>3

\* Math.max(0, ...) changes nothing of a number of followers.
LEMMA MaxOfNat ==
    ASSUME NEW n \in Nat
    PROVE  Max({0, n}) = n
  <1>1. \E x \in {0, n} : \A y \in {0, n} : x >= y
    BY n \in {0, n}
  <1>2. Max({0, n}) \in {0, n} /\ \A y \in {0, n} : Max({0, n}) >= y
    BY <1>1 DEF Max
  <1> QED
    BY <1>2

\* Steps of a tab that opens the profile change nothing another tab shows or waits for.
LEMMA OpenPage ==
    ASSUME TypeOK, Steady, PageInv, NEW t \in Tabs, Open(t)
    PROVE  PageInv'
  <1>1. /\ UNCHANGED <<graphVars, requestVars, page, trouble, rivalled>>
        /\ get'[t] = "viewer" /\ given'[t].count = ShownCount /\ view' = view
        /\ ~outdated'[t] => view[t] # "waiting"
        /\ \A s \in Tabs \ {t} : /\ get'[s] = get[s] /\ given'[s] = given[s]
                                 /\ outdated'[s] = outdated[s]
    BY DEF Open, TypeOK, Profiles
  <1>2. \A r \in Requests : tab[r] \in Tabs /\ (Active(r) /\ ~outdated'[tab[r]] => tab[r] # t)
    BY <1>1, ByType DEF PageInv, WaitsForOne
  <1>3. WaitsForOne'
    BY <1>1, <1>2 DEF PageInv, WaitsForOne, Active, requestVars
  <1>4. ASSUME Undivided, NEW s \in Tabs, ~outdated'[s] PROVE PartlyTold(s)' /\ Told(s)'
    <2>1. CASE s = t
      BY <1>1, <1>4, <2>1, ShownIsCount DEF PartlyTold, Told, Undivided, graphVars
    <2>2. CASE s # t
      BY <1>1, <1>4, <2>2 DEF PageInv, PartlyTold, Told, graphVars
    <2> QED
      BY <2>1, <2>2
  <1>5. ASSUME Undivided, NEW r \in Requests, ~outdated'[tab[r]] PROVE Behind(r)'
    <2>1. CASE Active(r)
      <3>1. Behind(r)
        BY <1>1, <1>2, <1>5, <2>1 DEF PageInv
      <3> QED
        BY <1>1, <3>1 DEF Behind, Active, WillCount, Inc, By, graphVars, requestVars
    <2>2. CASE ~Active(r)
      BY <1>1, <2>2 DEF Behind, Active, requestVars
    <2> QED
      BY <2>1, <2>2
  <1> QED
    BY <1>1, <1>3, <1>4, <1>5 DEF PageInv, Undivided, requestVars

LEMMA ViewerPage ==
    ASSUME TypeOK, PageInv, NEW t \in Tabs, ViewerRead(t)
    PROVE  PageInv'
  <1>1. /\ UNCHANGED <<graphVars, requestVars, view, page, trouble, rivalled, outdated>>
        /\ get[t] = "viewer" /\ get'[t] = "answer"
        /\ given'[t].count = given[t].count /\ given'[t].isFollowing = following[Owner[t]]
        /\ \A s \in Tabs \ {t} : get'[s] = get[s] /\ given'[s] = given[s]
    BY DEF ViewerRead, TypeOK, Profiles
  <1>2. WaitsForOne'
    BY <1>1 DEF PageInv, WaitsForOne, Active, requestVars
  <1>3. ASSUME Undivided, NEW s \in Tabs, ~outdated[s] PROVE PartlyTold(s)' /\ Told(s)'
    BY <1>1, <1>3 DEF PageInv, PartlyTold, Told, graphVars
  <1>4. ASSUME Undivided, NEW r \in Requests, ~outdated[tab[r]] PROVE Behind(r)'
    BY <1>1, <1>4 DEF PageInv, Behind, Active, WillCount, Inc, By, graphVars, requestVars
  <1> QED
    BY <1>1, <1>2, <1>3, <1>4 DEF PageInv, Undivided, requestVars

LEMMA OpenAnswerPage ==
    ASSUME TypeOK, PageInv, NEW t \in Tabs, OpenAnswer(t)
    PROVE  PageInv'
  <1>1. /\ UNCHANGED <<graphVars, requestVars, trouble, rivalled, outdated>>
        /\ get[t] = "answer" /\ get'[t] = "none" /\ page'[t] = given[t]
        /\ view'[t] = "waiting" <=> view[t] = "waiting"
        /\ \A s \in Tabs \ {t} : /\ view'[s] = view[s] /\ get'[s] = get[s]
                                 /\ given'[s] = given[s] /\ page'[s] = page[s]
    BY DEF OpenAnswer, GetOver, TypeOK
  <1>2. \A r \in Requests :
            /\ tab[r] \in Tabs
            /\ Undivided /\ Active(r) /\ ~outdated[tab[r]] => tab[r] # t
    BY <1>1, ByType DEF PageInv, WaitsForOne, PartlyTold
  <1>3. WaitsForOne'
    BY <1>1, <1>2 DEF PageInv, WaitsForOne, Active, requestVars
  <1>4. ASSUME Undivided, NEW s \in Tabs, ~outdated[s] PROVE PartlyTold(s)' /\ Told(s)'
    <2>1. CASE s = t
      BY <1>1, <1>4, <2>1 DEF PageInv, PartlyTold, Told, graphVars
    <2>2. CASE s # t
      BY <1>1, <1>4, <2>2 DEF PageInv, PartlyTold, Told, graphVars
    <2> QED
      BY <2>1, <2>2
  <1>5. ASSUME Undivided, NEW r \in Requests, ~outdated[tab[r]] PROVE Behind(r)'
    <2>1. CASE Active(r)
      <3>1. Behind(r) /\ page'[tab[r]] = page[tab[r]]
        BY <1>1, <1>2, <1>5, <2>1 DEF PageInv
      <3> QED
        BY <1>1, <3>1 DEF Behind, Active, WillCount, Inc, By, graphVars, requestVars
    <2>2. CASE ~Active(r)
      BY <1>1, <2>2 DEF Behind, Active, requestVars
    <2> QED
      BY <2>1, <2>2
  <1> QED
    BY <1>1, <1>3, <1>4, <1>5 DEF PageInv, Undivided, requestVars

\* Steps of a request change nothing another request waits for.
LEMMA OtherRequests ==
    ASSUME PageInv, NEW r \in Requests, UNCHANGED <<graphVars, tab, trouble, rivalled>>,
           \A q \in Requests \ {r} : /\ stage'[q] = stage[q] /\ sent'[q] = sent[q]
                                     /\ adds'[q] = adds[q],
           NEW q \in Requests \ {r}, Active(q) => page'[tab[q]] = page[tab[q]],
           Undivided, ~outdated[tab[q]]
    PROVE  Behind(q)'
  <1>1. Behind(q) /\ By(q)' = By(q) /\ UNCHANGED <<followersCount, following, tab>>
    BY DEF PageInv, By, graphVars
  <1>2. Inc(q)' = Inc(q) /\ Active(q)' = Active(q)
    BY DEF Inc, Active
  <1>3. WillCount(q)' = WillCount(q)
    BY <1>2 DEF WillCount
  <1> QED
    BY <1>1, <1>2, <1>3 DEF Behind

LEMMA ClickPage ==
    ASSUME TypeOK, Steady, PageInv, NEW r \in Requests, Click(r)
    PROVE  PageInv'
  <1> DEFINE t == tab[r]
  <1>0. t \in Tabs /\ By(r) = Owner[t]
    BY ByType DEF By
  <1> HIDE DEF t
  <1>1. /\ UNCHANGED <<graphVars, tab, adds, sent, get, given, page, trouble, rivalled>>
        /\ ~outdated'[t] => ~outdated[t] /\ get[t] = "none"
        /\ \A s \in Tabs \ {t} : outdated'[s] = outdated[s]
        /\ stage[r] = "unsent" /\ stage'[r] = "find"
        /\ view[t] = "shown" /\ view'[t] = "waiting"
        /\ \A q \in Requests \ {r} : stage'[q] = stage[q]
        /\ \A s \in Tabs \ {t} : view'[s] = view[s]
    BY <1>0 DEF Click, TypeOK, t
  <1>2. \A q \in Requests : tab[q] \in Tabs /\ (Active(q) => tab[q] # t)
    BY <1>1, ByType DEF PageInv, WaitsForOne
  <1>3. sent[r] = {}
    BY <1>1 DEF Steady, NothingSentBefore
  <1>4. WaitsForOne'
    <2>1. \A q \in Requests : Active(q)' => q = r \/ Active(q)
      BY <1>1 DEF Active
    <2>2. \A q \in Requests : Active(q)' => view'[tab[q]] = "waiting"
      BY <1>1, <1>2, <2>1 DEF PageInv, WaitsForOne, t
    <2>3. \A p, q \in Requests : Active(p)' /\ Active(q)' /\ tab[p] = tab[q] => p = q
      BY <1>1, <1>2, <2>1 DEF PageInv, WaitsForOne, t
    <2>4. trouble = 0 => \A q \in Requests : sent[q] # {} => stage'[q] = "update"
      BY <1>1, <1>3 DEF PageInv, WaitsForOne
    <2> QED
      BY <1>1, <2>2, <2>3, <2>4 DEF WaitsForOne
  <1>5. ASSUME Undivided, NEW s \in Tabs, ~outdated'[s] PROVE PartlyTold(s)' /\ Told(s)'
    <2>1. CASE s = t
      BY <1>1, <1>5, <2>1 DEF PartlyTold, Told
    <2>2. CASE s # t
      BY <1>1, <1>5, <2>2 DEF PageInv, PartlyTold, Told, graphVars
    <2> QED
      BY <2>1, <2>2
  <1>6. ASSUME Undivided, NEW q \in Requests, ~outdated'[tab[q]] PROVE Behind(q)'
    <2>1. CASE q = r
      <3>1. page[t].count = followersCount
        BY <1>0, <1>1, <1>6, <2>1 DEF PageInv, Told, t
      <3>2. WillCount(r)' = 0
        BY <1>1 DEF WillCount
      <3>3. page[t].count \in Nat
        BY <1>0 DEF TypeOK, Profiles
      <3>4. page[t].count + 0 = followersCount
        BY <3>1, <3>3
      <3> QED
        BY <1>1, <2>1, <3>2, <3>4 DEF Behind, graphVars, t
    <2>2. CASE q # r
      <3>1. ~outdated[tab[q]]
        BY <1>1, <1>2, <1>6
      <3> QED
        BY <1>1, <1>6, <2>2, <3>1, OtherRequests
    <2> QED
      BY <2>1, <2>2
  <1> QED
    BY <1>1, <1>4, <1>5, <1>6 DEF PageInv, Undivided

LEMMA FindPage ==
    ASSUME TypeOK, PageInv, NEW r \in Requests, FollowFind(r)
    PROVE  PageInv'
  <1>1. /\ UNCHANGED <<graphVars, tab, view, get, given, page, trouble, outdated>>
        /\ rivalled \subseteq rivalled'
        /\ stage[r] = "find" /\ stage'[r] = "update" /\ sent'[r] = {"account", "user"}
        /\ \A q \in Requests \ {r} : /\ stage'[q] = stage[q] /\ sent'[q] = sent[q]
                                     /\ adds'[q] = adds[q]
    BY DEF FollowFind, TypeOK, tabVars, Parts
  <1>2. WaitsForOne'
    <2>1. \A q \in Requests : Active(q)' <=> Active(q)
      BY <1>1 DEF Active
    <2> QED
      BY <1>1, <2>1 DEF PageInv, WaitsForOne
  <1>3. ASSUME Undivided, NEW s \in Tabs, ~outdated[s] PROVE PartlyTold(s)' /\ Told(s)'
    BY <1>1, <1>3 DEF PageInv, PartlyTold, Told, graphVars
  <1>4. ASSUME Undivided, rivalled' = {}, NEW q \in Requests, ~outdated[tab[q]] PROVE Behind(q)'
    <2>1. CASE q = r
      <3>1. WillCount(r) = 0 /\ WillCount(r)' = 0 /\ Behind(r) /\ Active(r)
        BY <1>1, <1>4, <2>1 DEF WillCount, PageInv, Active
      <3> QED
        BY <1>1, <2>1, <3>1 DEF Behind, graphVars
    <2>2. CASE q # r
      BY <1>1, <1>4, <2>2, OtherRequests DEF Undivided
    <2> QED
      BY <2>1, <2>2
  <1>5. Undivided' => Undivided
    BY <1>1 DEF Undivided
  <1> QED
    BY <1>1, <1>2, <1>3, <1>4, <1>5 DEF PageInv, Undivided

\* The database executes an update: only the tab that waits for it is not outdated, and is
\* behind by it.
LEMMA UpdatePage ==
    ASSUME TypeOK, PageInv, NEW r \in Requests, Update(r)
    PROVE  PageInv'
  <1>1. /\ UNCHANGED <<stage, tab, adds, view, get, given, page, trouble, rivalled>>
        /\ tab[r] \in Tabs
        /\ \A s \in Tabs : ~outdated'[s] => ~outdated[s] /\ s = tab[r]
        /\ \A q \in Requests \ {r} : sent'[q] = sent[q]
        /\ sent[r] # {} /\ sent'[r] \subseteq sent[r]
    <2>1. \A s \in Tabs : ~outdated'[s] => ~outdated[s] /\ s = tab[r]
      BY DEF Update, TypeOK
    <2>2. /\ \A q \in Requests \ {r} : sent'[q] = sent[q]
          /\ sent[r] # {} /\ sent'[r] \subseteq sent[r]
      BY DEF Update, UpdateAccount, UpdateUser, TypeOK
    <2> QED
      BY <2>1, <2>2, ByType DEF Update, tabVars
  <1>2. trouble = 0 => stage[r] = "update" /\ Active(r) /\ view[tab[r]] = "waiting"
    BY <1>1 DEF PageInv, WaitsForOne, Active
  <1>3. WaitsForOne'
    <2>1. \A q \in Requests : Active(q)' <=> Active(q)
      BY <1>1 DEF Active
    <2>2. \A q \in Requests : sent'[q] # {} => sent[q] # {}
      BY <1>1
    <2> QED
      BY <1>1, <2>1, <2>2 DEF PageInv, WaitsForOne
  <1>4. ASSUME Undivided, NEW s \in Tabs, ~outdated'[s] PROVE PartlyTold(s)' /\ Told(s)'
    BY <1>1, <1>2, <1>4 DEF PageInv, PartlyTold, Told, Undivided
  <1>5. ASSUME Undivided, NEW q \in Requests, ~outdated'[tab[q]] PROVE Behind(q)'
    <2>0. tab[q] \in Tabs
      BY ByType
    <2>1. CASE ~Active(q)
      BY <1>1, <2>1 DEF Behind, Active
    <2>2. CASE Active(q)
      <3>1. q = r
        BY <1>1, <1>2, <1>5, <2>0, <2>2 DEF PageInv, WaitsForOne, Undivided
      <3>2. Behind(r) /\ stage[r] = "update" /\ Inc(r)' = Inc(r) /\ By(r)' = By(r)
            /\ Inc(r) \in Int /\ page[tab[r]].count \in Nat
        BY <1>1, <1>2, <1>5, <2>0, <3>1, ByType
        DEF PageInv, Inc, By, Undivided, TypeOK, Profiles
      <3>3. CASE UpdateAccount(r)
        <4>1. /\ "account" \in sent[r] /\ "account" \notin sent'[r]
              /\ "user" \in sent'[r] <=> "user" \in sent[r]
              /\ followersCount' = followersCount + Inc(r) /\ following' = following
          BY <3>3 DEF UpdateAccount, TypeOK
        <4>2. WillCount(r) = 0 /\ WillCount(r)' = Inc(r)
          BY <1>1, <3>2, <4>1 DEF WillCount
        <4>3. page[tab[r]].count + 0 = followersCount
          BY <1>2, <1>5, <3>2, <4>2 DEF Behind, Undivided
        <4>4. page[tab[r]].count + Inc(r) = followersCount'
          BY <3>2, <4>1, <4>3
        <4> QED
          BY <1>1, <1>2, <1>5, <3>1, <3>2, <4>1, <4>2, <4>4 DEF Behind, Undivided
      <3>4. CASE UpdateUser(r)
        <4>1. /\ "account" \in sent'[r] <=> "account" \in sent[r]
              /\ followersCount' = followersCount /\ following'[By(r)] = adds[r]
          BY <3>4, ByType DEF UpdateUser, TypeOK
        <4>2. WillCount(r)' = WillCount(r)
          BY <1>1, <3>2, <4>1 DEF WillCount
        <4> QED
          BY <1>1, <1>2, <1>5, <3>1, <3>2, <4>1, <4>2 DEF Behind, Undivided
      <3> QED
        BY <3>3, <3>4 DEF Update
    <2> QED
      BY <2>1, <2>2
  <1> QED
    BY <1>1, <1>3, <1>4, <1>5 DEF PageInv, Undivided

\* A request is over: its tab waits no more.
LEMMA OverWaits ==
    ASSUME TypeOK, PageInv, NEW r \in Requests, Active(r), Over(r), tab' = tab
    PROVE  /\ view'[tab[r]] = "shown" /\ tab[r] \in Tabs
           /\ ~Active(r)' /\ \A q \in Requests \ {r} : stage'[q] = stage[q]
           /\ \A s \in Tabs \ {tab[r]} : view'[s] = view[s]
           /\ \A q \in Requests \ {r} : Active(q) => tab[q] # tab[r]
           /\ \A q \in Requests : Active(q)' => view'[tab[q]] = "waiting"
           /\ \A p, q \in Requests : Active(p)' /\ Active(q)' /\ tab[p] = tab[q] => p = q
  <1>1. /\ view'[tab[r]] = "shown" /\ tab[r] \in Tabs /\ stage'[r] = "over"
        /\ \A q \in Requests \ {r} : stage'[q] = stage[q]
        /\ \A s \in Tabs \ {tab[r]} : view'[s] = view[s]
    BY ByType DEF Over, TypeOK
  <1>2. \A q \in Requests \ {r} : Active(q) => tab[q] # tab[r]
    BY DEF PageInv, WaitsForOne
  <1>3. \A q \in Requests : Active(q)' => q # r /\ Active(q) /\ tab[q] \in Tabs
    BY <1>1, ByType DEF Active
  <1>4. \A q \in Requests : Active(q)' => view'[tab[q]] = "waiting"
    BY <1>1, <1>2, <1>3 DEF PageInv, WaitsForOne
  <1>5. \A p, q \in Requests : Active(p)' /\ Active(q)' /\ tab[p] = tab[q] => p = q
    BY <1>3 DEF PageInv, WaitsForOne
  <1> QED
    BY <1>1, <1>2, <1>3, <1>4, <1>5

LEMMA AnswerPage ==
    ASSUME TypeOK, Steady, PageInv, NEW r \in Requests, Answer(r)
    PROVE  PageInv'
  <1>1. /\ UNCHANGED <<graphVars, tab, adds, sent, get, given, trouble, rivalled, outdated>>
        /\ stage[r] = "update" /\ sent[r] = {} /\ Active(r) /\ Over(r)
    BY DEF Answer, Active
  <1>2. /\ view'[tab[r]] = "shown" /\ tab[r] \in Tabs
        /\ ~Active(r)' /\ \A q \in Requests \ {r} : stage'[q] = stage[q]
        /\ \A s \in Tabs \ {tab[r]} : view'[s] = view[s]
        /\ \A q \in Requests \ {r} : Active(q) => tab[q] # tab[r]
        /\ \A q \in Requests : Active(q)' => view'[tab[q]] = "waiting"
        /\ \A p, q \in Requests : Active(p)' /\ Active(q)' /\ tab[p] = tab[q] => p = q
    BY <1>1, OverWaits
  <1>3. /\ page'[tab[r]] = Adjusted(r)
        /\ \A s \in Tabs \ {tab[r]} : page'[s] = page[s]
    BY <1>2 DEF Answer, TypeOK
  <1>4. WaitsForOne'
    BY <1>1, <1>2 DEF PageInv, WaitsForOne
  <1>5. ASSUME Undivided, NEW s \in Tabs, ~outdated[s] PROVE PartlyTold(s)' /\ Told(s)'
    <2>1. CASE s = tab[r]
      <3>1. Behind(r) /\ WillCount(r) = Inc(r)
        BY <1>1, <1>5, <2>1 DEF PageInv, WillCount
      <3>2. page[tab[r]].count + Inc(r) = followersCount /\ following[By(r)] = adds[r]
        BY <1>1, <3>1 DEF Behind
      <3>3. followersCount \in Nat
        BY <1>5, FollowersFinite DEF Steady, AccountCounted, Undivided, TypeOK
      <3>4. Adjusted(r).count = followersCount /\ Adjusted(r).isFollowing = adds[r]
        BY <3>2, <3>3, MaxOfNat DEF Adjusted
      <3>5. get[s] = "none"
        BY <1>1, <1>5, <2>1 DEF PageInv, WaitsForOne, PartlyTold
      <3> QED
        BY <1>1, <1>2, <1>3, <2>1, <3>2, <3>4, <3>5 DEF PartlyTold, Told, By, graphVars
    <2>2. CASE s # tab[r]
      BY <1>1, <1>2, <1>3, <1>5, <2>2 DEF PageInv, PartlyTold, Told, graphVars
    <2> QED
      BY <2>1, <2>2
  <1>6. ASSUME Undivided, NEW q \in Requests, ~outdated[tab[q]] PROVE Behind(q)'
    <2>1. CASE q = r
      BY <1>2, <2>1 DEF Behind
    <2>2. CASE q # r
      <3>1. Active(q) => page'[tab[q]] = page[tab[q]]
        BY <1>2, <1>3, <2>2, ByType
      <3> QED
        BY <1>1, <1>2, <1>6, <2>2, <3>1, OtherRequests
    <2> QED
      BY <2>1, <2>2
  <1> QED
    BY <1>1, <1>4, <1>5, <1>6 DEF PageInv, Undivided

LEMMA PageStep == TypeOK /\ Steady /\ PageInv /\ [Next]_vars => PageInv'
  <1> SUFFICES ASSUME TypeOK, Steady, PageInv, [Next]_vars PROVE PageInv'
    OBVIOUS
  <1>1. ASSUME NEW r \in Requests, FollowFails(r) PROVE PageInv'
    <2>1. tab' = tab /\ Active(r) /\ Over(r) /\ trouble' # 0
      BY <1>1 DEF FollowFails, Active, Trouble, TypeOK
    <2>2. WaitsForOne'
      BY <2>1, OverWaits DEF WaitsForOne
    <2> QED
      BY <2>1, <2>2 DEF PageInv, Undivided
  <1>3. ASSUME NEW t \in Tabs, OpenFails(t) PROVE PageInv'
    <2>1. UNCHANGED <<requestVars, view>> /\ trouble' # 0
      BY <1>3 DEF OpenFails, Trouble, TypeOK
    <2> QED
      BY <2>1 DEF PageInv, WaitsForOne, Active, Undivided, requestVars
  <1>2. CASE UNCHANGED vars
    BY <1>2 DEF vars, graphVars, requestVars, tabVars, PageInv, WaitsForOne, Undivided, Active,
                PartlyTold, Told, Behind, WillCount, Inc, By
  <1> QED
    BY <1>1, <1>2, <1>3, OpenPage, ViewerPage, OpenAnswerPage, ClickPage, FindPage, UpdatePage, AnswerPage DEF Next

\* What a profile shows without asking again is what it would show if it did: the state it
\* keeps and the count it computes, from an answer built of two reads, follow the lists as
\* long as only its own requests change them, one user's never overlap and none has failed.
THEOREM PageFollowsLists == Spec => []PageAsReloaded
  <1>1. Init => PageInv
    BY DEF Init, PageInv, WaitsForOne, Active, PartlyTold, Told, Behind
  <1>2. TypeOK /\ Steady /\ PageInv => PageAsReloaded
    <2> SUFFICES ASSUME TypeOK, Steady, PageInv, NEW t \in Tabs, view[t] = "shown", get[t] = "none", ~outdated[t],
                        rivalled = {}, trouble = 0
                 PROVE  page[t] = [isFollowing |-> following[Owner[t]], count |-> ShownCount]
      BY DEF PageAsReloaded
    <2>1. page[t].count = ShownCount /\ page[t].isFollowing = following[Owner[t]]
      BY ShownIsCount DEF PageInv, Undivided, Told
    <2>2. page[t] \in Profiles
      BY DEF TypeOK
    <2> QED
      BY <2>1, <2>2 DEF Profiles
  <1> QED
    BY <1>1, <1>2, TypeInit, TypeStep, SteadyInit, SteadyStep, PageStep, PTL DEF Spec

=============================================================================
