----------------------------- MODULE PeoplePage -----------------------------
(***************************************************************************)
(* The lists of frontend/src/pages/Followers.js and Following.js with a    *)
(* FollowButton for each person, over getUserFollowers, getUserFollowing   *)
(* and followUser of the server.                                           *)
(*                                                                         *)
(* One signed-in user with one tab, at the lists of other accounts, which  *)
(* do not change meanwhile: ListOf says who is on which page of whose      *)
(* list.  The browser's history changes the account under the page.        *)
(***************************************************************************)
EXTENDS Naturals, Sequences

CONSTANTS
    Profiles,  \* accounts whose lists are looked at
    ListOf,    \* their lists, a sequence of pages of people
    MaxLists,  \* bound on the requests of lists
    MaxFollows \* bound on the clicks

ASSUME PeopleAssumption ==
    /\ \A a \in Profiles : DOMAIN ListOf[a] = 1 .. Len(ListOf[a])
    /\ MaxLists \in Nat \ {0} /\ MaxFollows \in Nat

VARIABLES
    following,     \* the server: whom the user follows
    \* The page.
    which,         \* "Followers" or "Following"
    profile,       \* username of the route
    listed,        \* the list held: whose and which page, page 0 when it is empty
    offered,       \* pagination: whose and which page, page 0 before the first and after
                   \* a failure
    peopleLoading,
    peopleError,
    known,         \* people whose record in the list says that they are followed
    buttonOn,      \* people whose button shows it
    buttonBusy,
    \* Requests in flight.
    lists,
    listsAsked,
    toggles,
    toggled,       \* how many clicks there have been
    \* History.
    heard,         \* people about whom the list held has been told by an answer
    peopleCrossed  \* a list came for another route, or a click got out of the page's sight

peopleVars == <<following, which, profile, listed, offered, peopleLoading, peopleError, known,
                buttonOn, buttonBusy, lists, listsAsked, toggles, toggled, heard, peopleCrossed>>
peopleListVars == <<which, profile, listed, offered, peopleLoading, peopleError, lists, listsAsked>>

At(a, n) == [profile |-> a, page |-> n]
OnList(l) == IF l.page \in DOMAIN ListOf[l.profile] THEN ListOf[l.profile][l.page] ELSE {}
People == UNION {OnList(At(a, n)) : a \in Profiles, n \in 1 .. MaxLists}

PeopleTypeOK ==
    /\ following \subseteq People
    /\ which \in {"Followers", "Following"} /\ profile \in Profiles
    /\ listed \in [profile : Profiles, page : Nat] /\ offered \in [profile : Profiles, page : Nat]
    /\ {peopleLoading, peopleError, peopleCrossed} \subseteq BOOLEAN
    /\ known \subseteq People /\ heard \subseteq People
    /\ buttonOn \subseteq OnList(listed) /\ buttonBusy \subseteq OnList(listed)
    /\ lists \subseteq [n : 1 .. MaxLists, of : [profile : Profiles, page : Nat]]
    /\ listsAsked \in 0 .. MaxLists /\ toggled \in 0 .. MaxFollows

\* The page has been mounted and has asked for the first page of a list.
PeopleInit ==
    /\ following \in SUBSET People
    /\ which \in {"Followers", "Following"} /\ profile \in Profiles
    /\ listed = At(profile, 0) /\ offered = At(profile, 0)
    /\ peopleLoading = TRUE /\ peopleError = FALSE
    /\ known = {} /\ buttonOn = {} /\ buttonBusy = {}
    /\ lists = {[n |-> 1, of |-> At(profile, 1)]} /\ listsAsked = 1
    /\ toggles = {} /\ toggled = 0
    /\ heard = {} /\ peopleCrossed = FALSE

-----------------------------------------------------------------------------
(* The list.                                                               *)

\* Following takes the list away while it loads; Followers only when it is empty.
ListShown == which = "Followers" \/ ~peopleLoading

\* The buttons of some people go, and with them who waits for their answers.
Unmount(gone) ==
    /\ buttonOn' = buttonOn \ gone
    /\ buttonBusy' = buttonBusy \ gone
    /\ toggles' = {[t EXCEPT !.mounted = @ /\ t.who \notin gone] : t \in toggles}

\* fetchFollowers, fetchFollowing.  Only the first clears the last error.
FetchPeople(l) ==
    /\ listsAsked < MaxLists
    /\ listsAsked' = listsAsked + 1
    /\ lists' = lists \cup {[n |-> listsAsked + 1, of |-> l]}
    /\ peopleLoading' = TRUE
    /\ peopleError' = (peopleError /\ which = "Following")
    /\ IF which = "Following" THEN Unmount(People) ELSE UNCHANGED <<buttonOn, buttonBusy, toggles>>
    /\ UNCHANGED <<following, which, listed, offered, known, toggled, heard, peopleCrossed>>

ChangeProfile(a) ==
    /\ a # profile
    /\ profile' = a
    /\ FetchPeople(At(a, 1))

\* handleLoadMore: the next page of what the last answer was about, of the route's account.
HasNext == offered.page > 0 /\ offered.page < Len(ListOf[offered.profile])
LoadMore ==
    /\ which = "Followers" /\ HasNext /\ ~peopleLoading
    /\ FetchPeople(At(profile, offered.page + 1))
    /\ UNCHANGED profile

\* handleRetry: after a failure the first page, whichever it was.
RetryList ==
    /\ which = "Followers" /\ peopleError
    /\ ~peopleLoading \/ OnList(listed) # {}
    /\ FetchPeople(At(profile, IF offered.page = 0 THEN 1 ELSE offered.page))
    /\ UNCHANGED profile

\* What a FollowButton starts with when it is mounted: Followers hands on its record
\* under a name the button does not read.
FirstShown(people, told) == IF which = "Following" THEN people \cap told ELSE {}

\* The list is replaced; who is on the old one too keeps the button on Followers.
ListAnswered(r) ==
    LET gone == IF which = "Following" THEN People ELSE OnList(listed) \ OnList(r.of) IN
    /\ lists' = lists \ {r}
    /\ listed' = r.of /\ offered' = r.of
    /\ peopleLoading' = FALSE
    /\ known' = {}
    /\ heard' = heard \ gone
    /\ Unmount(gone)
    /\ peopleCrossed' = (peopleCrossed \/ r.n < listsAsked)
    /\ UNCHANGED <<following, which, profile, peopleError, listsAsked, toggled>>

\* Followers empties the list; Following shows the one it had, with new buttons.
ListFails(r) ==
    /\ lists' = lists \ {r}
    /\ peopleLoading' = FALSE /\ peopleError' = TRUE
    /\ IF which = "Followers"
       THEN /\ listed' = At(listed.profile, 0) /\ offered' = At(offered.profile, 0)
            /\ known' = {} /\ heard' = {}
            /\ Unmount(People)
       ELSE /\ buttonOn' = FirstShown(OnList(listed), known)
            /\ UNCHANGED <<listed, offered, known, heard, buttonBusy, toggles>>
    /\ peopleCrossed' = (peopleCrossed \/ r.n < listsAsked)
    /\ UNCHANGED <<following, which, profile, listsAsked, toggled>>

-----------------------------------------------------------------------------
(* The buttons.                                                            *)

ClickPerson(p) ==
    /\ ListShown /\ p \in OnList(listed) \ buttonBusy
    /\ toggled < MaxFollows
    /\ toggled' = toggled + 1
    /\ toggles' = toggles \cup {[n |-> toggled + 1, who |-> p, mounted |-> TRUE, answer |-> "none"]}
    /\ buttonBusy' = buttonBusy \cup {p}
    /\ UNCHANGED <<following, peopleListVars, known, buttonOn, heard, peopleCrossed>>

\* followUser, in one step (Follow has its awaits).
ServeFollow(t) ==
    /\ t.answer = "none"
    /\ following' = IF t.who \in following THEN following \ {t.who} ELSE following \cup {t.who}
    /\ toggles' = (toggles \ {t}) \cup
                      {[t EXCEPT !.answer = IF t.who \in following' THEN "on" ELSE "off"]}
    /\ peopleCrossed' = (peopleCrossed \/ ~t.mounted)
    /\ UNCHANGED <<peopleListVars, known, buttonOn, buttonBusy, toggled, heard>>

\* What a button shows from then on.  Mutant: the opposite of what it has shown.
FlippedBy(t) == IF t.who \in buttonOn THEN buttonOn \ {t.who} ELSE buttonOn \cup {t.who}
ShownBy(t) == IF t.answer = "on" THEN buttonOn \cup {t.who} ELSE buttonOn \ {t.who}

\* handleFollow of the button, and handleFollowChange of the page, which looks for the
\* person in the list it holds by then.
FollowAnswered(t) ==
    /\ t.answer # "none"
    /\ toggles' = toggles \ {t}
    /\ IF t.mounted
       THEN buttonOn' = ShownBy(t) /\ buttonBusy' = buttonBusy \ {t.who}
       ELSE UNCHANGED <<buttonOn, buttonBusy>>
    /\ IF t.who \in OnList(listed)
       THEN known' = IF t.answer = "on" THEN known \cup {t.who} ELSE known \ {t.who}
       ELSE UNCHANGED known
    /\ heard' = IF t.mounted THEN heard \cup {t.who} ELSE heard
    /\ peopleCrossed' = (peopleCrossed \/ ~t.mounted)
    /\ UNCHANGED <<following, peopleListVars, toggled>>

\* It is refused, or its answer is lost.
FollowFails(t) ==
    /\ toggles' = toggles \ {t}
    /\ buttonBusy' = IF t.mounted THEN buttonBusy \ {t.who} ELSE buttonBusy
    /\ peopleCrossed' = (peopleCrossed \/ t.answer # "none")
    /\ UNCHANGED <<following, peopleListVars, known, buttonOn, toggled, heard>>

PeopleNext ==
    \/ \E a \in Profiles : ChangeProfile(a)
    \/ LoadMore \/ RetryList
    \/ \E r \in lists : ListAnswered(r) \/ ListFails(r)
    \/ \E p \in People : ClickPerson(p)
    \/ \E t \in toggles : ServeFollow(t) \/ FollowAnswered(t) \/ FollowFails(t)

PeopleSpec == PeopleInit /\ [][PeopleNext]_peopleVars

-----------------------------------------------------------------------------
(* Properties.                                                             *)

\* When nothing is awaited any more the list is that of the route's account, and the
\* button of whoever was clicked since it came shows whether they are followed, also
\* when a failed load has mounted it anew.  Not so once an answer came for another
\* route, or to a button that was gone, or was lost (Followers.js, Following.js,
\* FollowButton.js).  Who has not been clicked is shown as not followed.
PeopleAsServer ==
    lists = {} /\ toggles = {} /\ ~peopleCrossed =>
        /\ ~peopleError => listed = offered /\ listed.profile = profile
        /\ \A p \in OnList(listed) :
              p \in buttonOn <=> p \in heard /\ p \in following

=============================================================================
