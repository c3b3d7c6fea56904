------------------------------ MODULE HomePage ------------------------------
(***************************************************************************)
(* The cards of frontend/src/pages/Home.js with their hearts and Follow    *)
(* buttons, the suggestions beside them (components/UserSuggestions.js and *)
(* FollowButton.js), and what the server answers them: getAllStories,      *)
(* getUserFeed, likeStory, followUser, getSuggestedUsers.                  *)
(*                                                                         *)
(* One signed-in user with one tab.  Every request can overtake another,   *)
(* on the way to the server and on the way back; a handler runs in one     *)
(* step (Stories and Follow have their awaits).  The three tabs and the    *)
(* search of the public feed are one choice, an order.                     *)
(***************************************************************************)
EXTENDS Naturals, FiniteSets

CONSTANTS
    Cards,       \* published stories
    AuthorOf,    \* their authors
    Orders,      \* what the public feed can be asked for
    Following,   \* the other feed
    MaxAsked     \* bound on the requests

Authors == {AuthorOf[s] : s \in Cards}

\* getSuggestedUsers: whom the user does not follow.
Suggestible(f) == Authors \ f

\* getUserFeed and getAllStories; both mark what is liked and followed.
FeedCards(f) == {s \in Cards : AuthorOf[s] \in f}
PublicCards == Cards

ASSUME HomeAssumption == Following \notin Orders /\ MaxAsked \in Nat

VARIABLES
    \* The server: what the user likes and whom it follows.
    hearted,
    followed,
    \* Requests and answers.
    asked,       \* how many requests there have been
    served,      \* how many have been executed
    pending,     \* requests not executed
    replies,     \* answers on their way
    \* The page.
    feed,        \* what the controls say
    cardsFor,    \* what the cards on the page were asked for
    cards,       \* the stories on it
    hearts,      \* those shown as liked
    follows,     \* those whose author is shown as followed
    cardsLoading,
    cardsError,
    \* The suggestions.
    suggested,   \* authors suggested
    buttons,     \* those shown as followed
    buttonsBusy,
    \* History.
    newestServed, \* the last executed of the requests answered
    newestList,   \* the last asked of the lists answered
    homeMixedUp,  \* an answer came after a later one, or was lost
    fromCards,    \* authors followed or unfollowed from the cards
    fromSide      \* authors followed or unfollowed from the suggestions

homeServerVars == <<hearted, followed>>
homeCardVars == <<cardsFor, cards, hearts, follows, cardsLoading, cardsError>>
homeSideVars == <<suggested, buttons, buttonsBusy>>
homeHistoryVars == <<newestServed, newestList, homeMixedUp, fromCards, fromSide>>
homeVars == <<homeServerVars, asked, served, pending, replies, feed, homeCardVars,
              homeSideVars, homeHistoryVars>>

Feeds == Orders \cup {Following}

HomeTypeOK ==
    /\ hearted \subseteq Cards /\ followed \subseteq Authors
    /\ asked \in 0 .. MaxAsked /\ served \in 0 .. MaxAsked
    /\ feed \in Feeds /\ cardsFor \in Feeds
    /\ cards \subseteq Cards /\ hearts \subseteq Cards /\ follows \subseteq Cards
    /\ cardsLoading \in BOOLEAN /\ cardsError \in BOOLEAN
    /\ suggested \subseteq Authors /\ buttons \subseteq suggested
    /\ buttonsBusy \subseteq suggested
    /\ newestServed \in 0 .. MaxAsked /\ newestList \in 0 .. MaxAsked
    /\ homeMixedUp \in BOOLEAN
    /\ fromCards \subseteq Authors /\ fromSide \subseteq Authors

\* The page has been mounted, and has asked for the recent stories; the suggestions,
\* who is not followed yet, are there.
HomeInit ==
    /\ hearted \in SUBSET Cards /\ followed \in SUBSET Authors
    /\ feed \in Orders /\ cardsFor = feed
    /\ asked = 1 /\ served = 0
    /\ pending = {[n |-> 1, kind |-> "list", of |-> feed]} /\ replies = {}
    /\ cards = {} /\ hearts = {} /\ follows = {}
    /\ cardsLoading = TRUE /\ cardsError = FALSE
    /\ suggested = Suggestible(followed) /\ buttons = {} /\ buttonsBusy = {}
    /\ newestServed = 0 /\ newestList = 0 /\ homeMixedUp = FALSE
    /\ fromCards = {} /\ fromSide = {}

-----------------------------------------------------------------------------
(* The page.                                                               *)

AskServer(kind, of) ==
    /\ asked < MaxAsked
    /\ asked' = asked + 1
    /\ pending' = pending \cup {[n |-> asked + 1, kind |-> kind, of |-> of]}
    /\ UNCHANGED <<homeServerVars, served, replies>>

\* loadStories: the effect of a change of the controls, or Retry.
LoadStories(f) ==
    /\ AskServer("list", f)
    /\ feed' = f
    /\ cardsLoading' = TRUE /\ cardsError' = FALSE
    /\ UNCHANGED <<cardsFor, cards, hearts, follows, homeSideVars, homeHistoryVars>>

ChangeFeed(f) == f # feed /\ LoadStories(f)
Retry == ~cardsLoading /\ cardsError /\ LoadStories(feed)

\* What is on the page: not while it is loading, or has failed.
OnPage(s) == ~cardsLoading /\ ~cardsError /\ s \in cards

\* handleLike: nothing keeps a second click from being sent.
ClickHeart(s) ==
    /\ OnPage(s)
    /\ AskServer("like", s)
    /\ UNCHANGED <<feed, homeCardVars, homeSideVars, homeHistoryVars>>

\* handleFollow: the button, and the chip that replaces it, are left out of the feed
\* of the followed.
ClickFollow(s) ==
    /\ OnPage(s) /\ feed # Following
    /\ AskServer("follow", AuthorOf[s])
    /\ fromCards' = fromCards \cup {AuthorOf[s]}
    /\ UNCHANGED <<feed, homeCardVars, homeSideVars, newestServed, newestList, homeMixedUp, fromSide>>

\* FollowButton of a suggestion, disabled while it waits.
ClickSuggested(a) ==
    /\ a \in suggested \ buttonsBusy
    /\ AskServer("side", a)
    /\ buttonsBusy' = buttonsBusy \cup {a}
    /\ fromSide' = fromSide \cup {a}
    /\ UNCHANGED <<feed, homeCardVars, suggested, buttons, newestServed, newestList, homeMixedUp, fromCards>>

-----------------------------------------------------------------------------
(* The server.                                                             *)

Toggled(S, x) == IF x \in S THEN S \ {x} ELSE S \cup {x}

\* Of a reply, the cards of a list and the state after a toggle.
Reply(r, h, f) ==
    [r |-> r, served |-> served + 1, hearted |-> h, followed |-> f,
     cards |-> IF r.of = Following THEN FeedCards(f) ELSE PublicCards]

ServeHome(r) ==
    /\ pending' = pending \ {r}
    /\ served' = served + 1
    /\ hearted' = IF r.kind = "like" THEN Toggled(hearted, r.of) ELSE hearted
    /\ followed' = IF r.kind \in {"follow", "side"} THEN Toggled(followed, r.of) ELSE followed
    /\ replies' = replies \cup {Reply(r, hearted', followed')}
    /\ UNCHANGED <<asked, feed, homeCardVars, homeSideVars, homeHistoryVars>>

-----------------------------------------------------------------------------
(* Answers.                                                                *)

Ordered(a) ==
    /\ newestServed' = IF a.served > newestServed THEN a.served ELSE newestServed
    /\ newestList' = IF a.r.kind = "list" /\ a.r.n > newestList THEN a.r.n ELSE newestList
    /\ homeMixedUp' = \/ homeMixedUp
                      \/ a.served < newestServed
                      \/ a.r.kind = "list" /\ a.r.n < newestList

Received(a) ==
    /\ replies' = replies \ {a}
    /\ UNCHANGED <<homeServerVars, asked, served, pending, feed>>

StoriesLoaded(a) ==
    /\ a.r.kind = "list"
    /\ Received(a) /\ Ordered(a)
    /\ cardsFor' = a.r.of
    /\ cards' = a.cards
    /\ hearts' = a.cards \cap a.hearted
    /\ follows' = a.cards \cap FeedCards(a.followed)
    /\ cardsLoading' = FALSE
    /\ UNCHANGED <<cardsError, homeSideVars, fromCards, fromSide>>

Liked(a) ==
    /\ a.r.kind = "like"
    /\ Received(a) /\ Ordered(a)
    /\ hearts' = IF a.r.of \in a.hearted THEN hearts \cup ({a.r.of} \cap cards)
                 ELSE hearts \ {a.r.of}
    /\ UNCHANGED <<cardsFor, cards, follows, cardsLoading, cardsError, homeSideVars, fromCards, fromSide>>

\* The cards an answer to a follow changes.  Mutant: one of the author's.
FirstBy(a) == IF \E s \in cards : AuthorOf[s] = a
              THEN {CHOOSE s \in cards : AuthorOf[s] = a} ELSE {}
CardsBy(a) == {s \in cards : AuthorOf[s] = a}

FollowedCards(a) ==
    /\ a.r.kind = "follow"
    /\ Received(a) /\ Ordered(a)
    /\ follows' = IF a.r.of \in a.followed THEN follows \cup CardsBy(a.r.of)
                  ELSE follows \ CardsBy(a.r.of)
    /\ UNCHANGED <<cardsFor, cards, hearts, cardsLoading, cardsError, homeSideVars, fromCards, fromSide>>

\* FollowButton; the cards do not hear of it.
FollowedSuggested(a) ==
    /\ a.r.kind = "side"
    /\ Received(a) /\ Ordered(a)
    /\ buttons' = IF a.r.of \in a.followed THEN buttons \cup {a.r.of} ELSE buttons \ {a.r.of}
    /\ buttonsBusy' = buttonsBusy \ {a.r.of}
    /\ UNCHANGED <<homeCardVars, suggested, fromCards, fromSide>>

\* The page learns of a failure: a list is emptied, a button is as it was.
Failed(r) ==
    /\ IF r.kind = "list"
       THEN /\ cards' = {} /\ hearts' = {} /\ follows' = {}
            /\ cardsLoading' = FALSE /\ cardsError' = TRUE
            /\ UNCHANGED cardsFor
       ELSE UNCHANGED homeCardVars
    /\ buttonsBusy' = IF r.kind = "side" THEN buttonsBusy \ {r.of} ELSE buttonsBusy
    /\ UNCHANGED <<homeServerVars, asked, served, feed, suggested, buttons,
                   newestServed, newestList, fromCards, fromSide>>

\* The server refuses (searchLimiter, writeLimiter) or is not reached.
AskingFails(r) ==
    /\ pending' = pending \ {r}
    /\ Failed(r)
    /\ UNCHANGED <<replies, homeMixedUp>>

\* The answer to what has been executed is lost.
AnswerLost(a) ==
    /\ replies' = replies \ {a}
    /\ Failed(a.r)
    /\ homeMixedUp' = TRUE
    /\ UNCHANGED pending

HomeNext ==
    \/ \E f \in Feeds : ChangeFeed(f)
    \/ Retry
    \/ \E s \in Cards : ClickHeart(s) \/ ClickFollow(s)
    \/ \E a \in Authors : ClickSuggested(a)
    \/ \E r \in pending : ServeHome(r) \/ AskingFails(r)
    \/ \E a \in replies :
          \/ StoriesLoaded(a) \/ Liked(a) \/ FollowedCards(a) \/ FollowedSuggested(a)
          \/ AnswerLost(a)

HomeSpec == HomeInit /\ [][HomeNext]_homeVars

-----------------------------------------------------------------------------
(* Properties.                                                             *)

HomeAtRest == pending = {} /\ replies = {}

\* When nothing is awaited any more, the page shows the feed its controls ask for, its
\* hearts and Follow buttons as the server has them and alike on all cards of an
\* author, however the answers were mixed with clicks.  Not so once an answer came
\* after a later one or was lost, and for authors toggled on the other side of the
\* page (Home.js, FollowButton.js).
HomeAsServer ==
    HomeAtRest /\ ~homeMixedUp /\ ~cardsError =>
        /\ cardsFor = feed
        /\ hearts = cards \cap hearted
        /\ \A s \in cards : AuthorOf[s] \notin fromSide =>
              (s \in follows <=> AuthorOf[s] \in followed)
        /\ \A a \in suggested \ fromCards : a \in buttons <=> a \in followed

=============================================================================
