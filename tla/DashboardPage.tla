---------------------------- MODULE DashboardPage ----------------------------
(***************************************************************************)
(* The account's own page, frontend/src/pages/Dashboard.js, with the       *)
(* refresh that CreateStory.js asks of it when it has saved a story, and   *)
(* getUserDashboard of backend/controllers/userController.js, which reads  *)
(* the account, then counts the stories and fetches the recent ones side   *)
(* by side.                                                                *)
(*                                                                         *)
(* One signed-in user who stays on the page; stories and followers come    *)
(* and go by other tabs and users.                                         *)
(***************************************************************************)
EXTENDS Naturals, FiniteSets

CONSTANTS
    MaxLoads,   \* bound on the requests of the page
    MaxCount,   \* bound on its followers and its stories
    MaxTimers   \* how many timers of editors left earlier are still to end

ASSUME DashboardAssumption ==
    {MaxLoads, MaxCount, MaxTimers} \subseteq Nat /\ MaxCount > 0

VARIABLES
    \* The server: what changes with every follower and every story.
    fans,
    stories,
    \* The page.
    refreshAsked,  \* location.state.refresh
    dashboard,     \* what is shown: Blank at first, Zeros when that could not be loaded
    dashLoading,
    refreshing,
    dashError,
    loads,         \* requests in flight
    loadsAsked,
    timers,
    \* History.
    changed,       \* the account or its stories have, since the last request was made
    newestLoad,    \* the last made of the requests that are over
    overtaken      \* one was over after a later one

dashServerVars == <<fans, stories>>
dashVars == <<fans, stories, refreshAsked, dashboard, dashLoading, refreshing, dashError,
              loads, loadsAsked, timers, changed, newestLoad, overtaken>>

Shown(f, t, r) == [fans |-> f, total |-> t, recent |-> r]
Count == 0 .. MaxCount
Unread == MaxCount + 1
Blank == Shown(Unread, Unread, Unread)
Zeros == Shown(0, 0, 0)

\* A request: whether navigate() follows it, whether the page was blank when it was
\* made, and what the server has read for it.
Load == [n : 1 .. MaxLoads, then : BOOLEAN, blank : BOOLEAN,
         read : [fans : Count \cup {Unread}, total : Count \cup {Unread}, recent : Count \cup {Unread}]]

DashboardTypeOK ==
    /\ {fans, stories} \subseteq Count
    /\ {refreshAsked, dashLoading, refreshing, dashError, changed, overtaken} \subseteq BOOLEAN
    /\ dashboard \in [fans : Count, total : Count, recent : Count] \cup {Blank}
    /\ loads \subseteq Load /\ loadsAsked \in 0 .. MaxLoads /\ newestLoad \in 0 .. MaxLoads
    /\ timers \in 0 .. MaxTimers

Request(n, then, blank) == [n |-> n, then |-> then, blank |-> blank, read |-> Blank]

\* The page has been mounted, from the editor or not, and has asked for its data.
DashboardInit ==
    /\ fans = 1 /\ stories = 1
    /\ refreshAsked \in BOOLEAN
    /\ dashboard = Blank /\ dashLoading = TRUE /\ refreshing = refreshAsked /\ dashError = FALSE
    /\ loads = {Request(1, refreshAsked, TRUE)} /\ loadsAsked = 1
    /\ timers = MaxTimers
    /\ changed = FALSE /\ newestLoad = 0 /\ overtaken = FALSE

-----------------------------------------------------------------------------
(* The page asks.                                                          *)

\* fetchDashboardData: the request, once the others are as rest says.
FetchDashboard(rest, then) ==
    /\ loadsAsked < MaxLoads
    /\ loadsAsked' = loadsAsked + 1
    /\ loads' = rest \cup {Request(loadsAsked + 1, then, dashboard' = Blank)}
    /\ dashError' = FALSE
    /\ changed' = FALSE

\* handleManualRefresh: not while the skeleton is up, or one is awaited.
ClickRefresh ==
    /\ ~(dashLoading /\ dashboard = Blank) /\ ~refreshing
    /\ UNCHANGED dashboard
    /\ FetchDashboard(loads, FALSE)
    /\ refreshing' = TRUE
    /\ UNCHANGED <<dashServerVars, refreshAsked, dashLoading, timers, newestLoad, overtaken>>

\* The timer of an editor that was left before it ended leads here again: the effect
\* runs if the state of the route was another.
TimerLeadsHere ==
    /\ timers > 0
    /\ timers' = timers - 1
    /\ UNCHANGED <<dashServerVars, dashboard, dashLoading, newestLoad, overtaken>>
    /\ IF refreshAsked
       THEN UNCHANGED <<refreshAsked, refreshing, dashError, loads, loadsAsked, changed>>
       ELSE /\ refreshAsked' = TRUE
            /\ refreshing' = TRUE
            /\ FetchDashboard(loads, TRUE)

-----------------------------------------------------------------------------
(* The server.                                                             *)

AccountChanges ==
    /\ changed' = TRUE
    /\ \/ fans' \in Count \ {fans} /\ UNCHANGED stories
       \/ stories' \in Count \ {stories} /\ UNCHANGED fans
    /\ UNCHANGED <<refreshAsked, dashboard, dashLoading, refreshing, dashError, loads, loadsAsked,
                   timers, newestLoad, overtaken>>

Reads(r, data) ==
    /\ loads' = (loads \ {r}) \cup {[r EXCEPT !.read = data]}
    /\ UNCHANGED <<dashServerVars, refreshAsked, dashboard, dashLoading, refreshing, dashError,
                   loadsAsked, timers, changed, newestLoad, overtaken>>

\* findById, then aggregate() and find() of Promise.all.
ReadAccount(r) ==
    r.read.fans = Unread /\ Reads(r, [r.read EXCEPT !.fans = fans])
CountStories(r) ==
    r.read.fans # Unread /\ r.read.total = Unread /\ Reads(r, [r.read EXCEPT !.total = stories])
FindRecent(r) ==
    r.read.fans # Unread /\ r.read.recent = Unread /\ Reads(r, [r.read EXCEPT !.recent = stories])

-----------------------------------------------------------------------------
(* A request is over.                                                      *)

\* loadDashboard goes on with navigate(), which takes the wish back; its effect asks
\* once more.
GoesOn(r, failed) ==
    IF r.then /\ refreshAsked
    THEN /\ refreshAsked' = FALSE
         /\ dashLoading' = TRUE
         /\ FetchDashboard(loads \ {r}, FALSE)
    ELSE /\ loads' = loads \ {r}
         /\ dashLoading' = FALSE
         /\ dashError' = (dashError \/ failed)
         /\ UNCHANGED <<refreshAsked, loadsAsked, changed>>

Over(r) ==
    /\ refreshing' = FALSE
    /\ newestLoad' = IF r.n > newestLoad THEN r.n ELSE newestLoad
    /\ overtaken' = (overtaken \/ r.n < newestLoad)
    /\ UNCHANGED <<dashServerVars, timers>>

\* What the page shows then.  Mutant: what it showed, if it had any.
FirstShownStays(r) == IF dashboard = Blank THEN r.read ELSE dashboard
ShownAfter(r) == r.read

DashboardLoaded(r) ==
    /\ Unread \notin {r.read.fans, r.read.total, r.read.recent}
    /\ dashboard' = ShownAfter(r)
    /\ Over(r) /\ GoesOn(r, FALSE)

\* Zeros, if nothing was shown when the request was made, whatever is shown by now.
DashboardFails(r) ==
    /\ dashboard' = IF r.blank THEN Zeros ELSE dashboard
    /\ Over(r) /\ GoesOn(r, TRUE)

DashboardNext ==
    \/ ClickRefresh \/ TimerLeadsHere \/ AccountChanges
    \/ \E r \in loads :
          ReadAccount(r) \/ CountStories(r) \/ FindRecent(r) \/ DashboardLoaded(r) \/ DashboardFails(r)

DashboardSpec == DashboardInit /\ [][DashboardNext]_dashVars

-----------------------------------------------------------------------------
(* Properties.                                                             *)

\* When nothing is awaited any more the page shows the followers, the number of stories
\* and the recent ones as the server has them, not some of one time and some of another;
\* the story just saved is among them.  Not so once a request was over after a later one,
\* or failed (Dashboard.js), or anything has changed at the server since the last request
\* was made: then the page may show the old, or a mixture (getUserDashboard).
DashboardAsServer ==
    loads = {} /\ ~overtaken /\ ~changed /\ ~dashError =>
        dashboard = Shown(fans, stories, stories)

=============================================================================
