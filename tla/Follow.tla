-------------------------------- MODULE Follow --------------------------------
(***************************************************************************)
(* Following one account: followUser and the profile it is shown on        *)
(* (getUserProfileByUsername) of backend/controllers/userController.js,    *)
(* and the profile pages that call them                                    *)
(* (frontend/src/pages/UserProfile.js).                                    *)
(*                                                                         *)
(* followUser reads the followed account, decides by its list of followers *)
(* and sends two updates at once, one to each account's document.  Each    *)
(* changes a list and $incs the count beside it, as one step of the        *)
(* database; nothing ties the two together, or to what was read.           *)
(*                                                                         *)
(* Users are the other accounts; of their documents, what is about this    *)
(* one.  It cannot follow itself, so it is not among them.                 *)
(***************************************************************************)
EXTENDS Integers, FiniteSets, FiniteSetsExt

CONSTANTS
    Users,      \* accounts that may follow
    Tabs,       \* browser tabs on the account's profile
    Owner,      \* who has logged in in a tab
    Requests,   \* clicks on the button, each a request to followUser
    MaxTrouble  \* bound on failed updates and lost answers

ASSUME UsersFinite == IsFiniteSet(Users)
ASSUME OwnerAssumption == Owner \in [Tabs -> Users]
ASSUME FollowTroubleAssumption == MaxTrouble \in Nat

VARIABLES
    followers,      \* followers of the followed account
    followersCount, \* its stats.followersCount
    following,      \* whether each user's `following` has the account
    followingCount, \* what the account adds to each user's stats.followingCount
    stage,          \* where each request is in its handler
    tab,            \* the tab that sent it
    adds,           \* whether it follows or unfollows
    sent,           \* the documents whose update is still to be executed
    view,           \* each tab's profile: none yet, shown, or with a follow awaited
    get,            \* how far its request for the profile is, loaded or refreshed
    given,          \* what the answer of that request will say
    page,           \* the profile it shows
    trouble,
    rivalled,       \* history: users two of whose requests have overlapped
    outdated        \* history: tabs whose profile others have changed, or that
                    \* have awaited a refresh and a follow at once

graphVars == <<followers, followersCount, following, followingCount>>
requestVars == <<stage, tab, adds, sent>>
tabVars == <<view, get, given, page>>
vars == <<graphVars, requestVars, tabVars, trouble, rivalled, outdated>>

Stages == {"unsent", "find", "update", "over"}
Views == {"closed", "shown", "waiting"}
Gets == {"none", "viewer", "answer"}
Parts == {"account", "user"}
Profiles == [isFollowing : BOOLEAN, count : Nat]
Blank == [isFollowing |-> FALSE, count |-> 0]

Init ==
    /\ followers = {}
    /\ followersCount = 0
    /\ following = [u \in Users |-> FALSE]
    /\ followingCount = [u \in Users |-> 0]
    /\ stage = [r \in Requests |-> "unsent"]
    /\ tab \in [Requests -> Tabs]
    /\ adds = [r \in Requests |-> FALSE]
    /\ sent = [r \in Requests |-> {}]
    /\ view = [t \in Tabs |-> "closed"]
    /\ get = [t \in Tabs |-> "none"]
    /\ given = [t \in Tabs |-> Blank]
    /\ page = [t \in Tabs |-> Blank]
    /\ trouble = 0
    /\ rivalled = {}
    /\ outdated = [t \in Tabs |-> FALSE]

\* The user who sent a request
By(r) == Owner[tab[r]]

Trouble ==
    /\ trouble < MaxTrouble
    /\ trouble' = trouble + 1

-----------------------------------------------------------------------------
(* The profile.                                                            *)

\* What the answer gives as the number of followers: the length of the list or,
\* when that is 0, the count.
ShownCount == IF followers # {} THEN Cardinality(followers) ELSE Max({followersCount, 0})

\* The page asks for the profile, first or by its Refresh button, which only a
\* refresh disables: the handler reads the account ...
Open(t) ==
    /\ get[t] = "none"
    /\ get' = [get EXCEPT ![t] = "viewer"]
    /\ given' = [given EXCEPT ![t].count = ShownCount]
    /\ outdated' = [outdated EXCEPT ![t] = view[t] = "waiting" \/ \E r \in Requests : sent[r] # {}]
    /\ UNCHANGED <<graphVars, requestVars, view, page, trouble, rivalled>>

\* ... and then the viewer's own document.
ViewerRead(t) ==
    /\ get[t] = "viewer"
    /\ get' = [get EXCEPT ![t] = "answer"]
    /\ given' = [given EXCEPT ![t].isFollowing = following[Owner[t]]]
    /\ UNCHANGED <<graphVars, requestVars, view, page, trouble, rivalled, outdated>>

GetOver(t) ==
    /\ get' = [get EXCEPT ![t] = "none"]
    /\ given' = [given EXCEPT ![t] = Blank]

\* The answer replaces the profile, beside a follow that is awaited.
OpenAnswer(t) ==
    /\ get[t] = "answer"
    /\ GetOver(t)
    /\ view' = [view EXCEPT ![t] = IF @ = "closed" THEN "shown" ELSE @]
    /\ page' = [page EXCEPT ![t] = given[t]]
    /\ UNCHANGED <<graphVars, requestVars, trouble, rivalled, outdated>>

\* No answer: the page keeps what it has.
OpenFails(t) ==
    /\ get[t] # "none"
    /\ Trouble
    /\ GetOver(t)
    /\ UNCHANGED <<graphVars, requestVars, view, page, rivalled, outdated>>

-----------------------------------------------------------------------------
(* Following and unfollowing.                                              *)

\* handleFollow: the button is disabled until its request is over, and not by a
\* refresh.
Click(r) ==
    /\ stage[r] = "unsent"
    /\ view[tab[r]] = "shown"
    /\ stage' = [stage EXCEPT ![r] = "find"]
    /\ view' = [view EXCEPT ![tab[r]] = "waiting"]
    /\ outdated' = [outdated EXCEPT ![tab[r]] = @ \/ get[tab[r]] # "none"]
    /\ UNCHANGED <<graphVars, tab, adds, sent, get, given, page, trouble, rivalled>>

\* Another request of the user has updates to be executed.
Overlaps(r) == \E q \in Requests \ {r} : By(q) = By(r) /\ sent[q] # {}

\* await User.findOne(...), and both updates are sent.
FollowFind(r) ==
    /\ stage[r] = "find"
    /\ stage' = [stage EXCEPT ![r] = "update"]
    /\ adds' = [adds EXCEPT ![r] = By(r) \notin followers]
    /\ sent' = [sent EXCEPT ![r] = Parts]
    /\ rivalled' = IF Overlaps(r) THEN rivalled \cup {By(r)} ELSE rivalled
    /\ UNCHANGED <<graphVars, tab, tabVars, trouble, outdated>>

\* The $inc of an update, and its change of the list.  Mutants: a count that is
\* never taken back, and a list nobody is taken from.
IncNeverLess(r) == IF adds[r] THEN 1 ELSE 0
Inc(r) == IF adds[r] THEN 1 ELSE -1

ListedForGood(r) == followers \cup {By(r)}
Listed(r) == IF adds[r] THEN followers \cup {By(r)} ELSE followers \ {By(r)}

\* The database executes an update of the followed account ...
UpdateAccount(r) ==
    /\ "account" \in sent[r]
    /\ followers' = Listed(r)
    /\ followersCount' = followersCount + Inc(r)
    /\ sent' = [sent EXCEPT ![r] = @ \ {"account"}]
    /\ UNCHANGED <<following, followingCount>>

\* ... or of the user.
UpdateUser(r) ==
    /\ "user" \in sent[r]
    /\ following' = [following EXCEPT ![By(r)] = adds[r]]
    /\ followingCount' = [followingCount EXCEPT ![By(r)] = @ + Inc(r)]
    /\ sent' = [sent EXCEPT ![r] = @ \ {"user"}]
    /\ UNCHANGED <<followers, followersCount>>

Update(r) ==
    /\ UpdateAccount(r) \/ UpdateUser(r)
    /\ outdated' = [t \in Tabs |-> outdated[t] \/ t # tab[r]]
    /\ UNCHANGED <<stage, tab, adds, tabVars, trouble, rivalled>>

\* The request is over for the tab that sent it.
Over(r) ==
    /\ stage' = [stage EXCEPT ![r] = "over"]
    /\ view' = [view EXCEPT ![tab[r]] = "shown"]

\* The profile after an answer.  Mutant: an unfollow is counted as one more.
AdjustedUp(r) == [isFollowing |-> adds[r], count |-> page[tab[r]].count + 1]
Adjusted(r) == [isFollowing |-> adds[r], count |-> Max({0, page[tab[r]].count + Inc(r)})]

\* Both updates are done: the answer tells what was decided.
Answer(r) ==
    /\ stage[r] = "update"
    /\ sent[r] = {}
    /\ Over(r)
    /\ page' = [page EXCEPT ![tab[r]] = Adjusted(r)]
    /\ UNCHANGED <<graphVars, tab, adds, sent, get, given, trouble, rivalled, outdated>>

\* An await is rejected, before the updates or with one of them not executed, or
\* the answer does not arrive: the page shows an alert, and what has been sent
\* is executed all the same.
FollowFails(r) ==
    /\ stage[r] \in {"find", "update"}
    /\ Trouble
    /\ sent' = sent \/ \E part \in sent[r] : sent' = [sent EXCEPT ![r] = @ \ {part}]
    /\ Over(r)
    /\ UNCHANGED <<graphVars, tab, adds, get, given, page, rivalled, outdated>>

-----------------------------------------------------------------------------
Next ==
    \/ \E t \in Tabs : Open(t) \/ ViewerRead(t) \/ OpenAnswer(t) \/ OpenFails(t)
    \/ \E r \in Requests :
          Click(r) \/ FollowFind(r) \/ Update(r) \/ Answer(r) \/ FollowFails(r)

Spec == Init /\ [][Next]_vars

-----------------------------------------------------------------------------
(* Properties.                                                             *)

TypeOK ==
    /\ followers \subseteq Users
    /\ followersCount \in Int
    /\ following \in [Users -> BOOLEAN]
    /\ followingCount \in [Users -> Int]
    /\ stage \in [Requests -> Stages]
    /\ tab \in [Requests -> Tabs]
    /\ adds \in [Requests -> BOOLEAN]
    /\ sent \in [Requests -> SUBSET Parts]
    /\ view \in [Tabs -> Views]
    /\ get \in [Tabs -> Gets]
    /\ given \in [Tabs -> Profiles]
    /\ page \in [Tabs -> Profiles]
    /\ trouble \in 0 .. MaxTrouble
    /\ rivalled \subseteq Users
    /\ outdated \in [Tabs -> BOOLEAN]

\* The count beside each list is the list's length, whoever else follows or
\* unfollows at the same time and whichever updates fail, unless two requests of
\* one user have overlapped: then both count, and the list changes once.
CountsFollowLists ==
    /\ rivalled = {} => followersCount = Cardinality(followers)
    /\ \A u \in Users \ rivalled :
          trouble = 0 => followingCount[u] = IF following[u] THEN 1 ELSE 0

\* The two lists tell the same: a user whose requests are done, all updates
\* executed and none overlapped, follows the account exactly when it has the
\* user among its followers.
FollowIsMutual ==
    \A u \in Users \ rivalled :
        trouble = 0 /\ (\A r \in Requests : By(r) = u => sent[r] = {}) =>
            (following[u] <=> u \in followers)

\* What a profile page shows is what it would show after a reload, though it
\* computes the count itself and although the page decides by the one list and
\* the server by the other; unless others have changed the account meanwhile, or
\* the page has awaited a refresh and a follow at once.
PageAsReloaded ==
    \A t \in Tabs :
        /\ view[t] = "shown" /\ get[t] = "none" /\ ~outdated[t]
        /\ rivalled = {} /\ trouble = 0
        => page[t] = [isFollowing |-> following[Owner[t]], count |-> ShownCount]

\* "Refresh profile data": with nothing on its way, a tab without others shows
\* the profile, refreshed or not.
RefreshedAsReloaded ==
    \A t \in Tabs :
        /\ Tabs = {t} /\ view[t] = "shown" /\ get[t] = "none" /\ trouble = 0
        => page[t] = [isFollowing |-> following[Owner[t]], count |-> ShownCount]

=============================================================================
