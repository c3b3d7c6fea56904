------------------------------ MODULE StoryPage ------------------------------
(***************************************************************************)
(* The page of a story, frontend/src/pages/ViewStory.js: what it fetches   *)
(* when the route changes under it, its heart and its comments, over       *)
(* getStoryById, likeStory and addComment of the server.                   *)
(*                                                                         *)
(* One signed-in user with one tab, who can go from one story to another   *)
(* by the browser's history without leaving the page.  A handler runs in   *)
(* one step; Stories has the awaits, ViewThrottle the counting of views.   *)
(***************************************************************************)
EXTENDS Naturals, FiniteSets

CONSTANTS
    Ids,          \* stories
    MaxVisits,    \* bound on the changes of the route
    MaxClicks,    \* bound on the likes and comments
    NoStory

ASSUME StoryPageAssumption ==
    /\ NoStory \notin Ids /\ NoStory \notin [id : Ids, liked : BOOLEAN, comments : Nat]
    /\ MaxVisits \in Nat /\ MaxClicks \in Nat

VARIABLES
    \* The server: the stories the user likes, and how many comments each has.
    likes,
    comments,
    \* Requests and answers.
    calls,
    \* The page.
    route,      \* id of the route
    visit,      \* how often it has changed
    clicks,
    story,      \* the story held, with its heart and comments
    storyLoading,
    storyError,
    liking,     \* likeLoading
    commenting, \* commentLoading
    commentText, \* is there one
    \* History.
    crossed     \* an answer came to another visit than asked, or was lost

storyPageVars == <<likes, comments, calls, route, visit, clicks, story,
                   storyLoading, storyError, liking, commenting, commentText, crossed>>
storyServerVars == <<likes, comments>>
routeVars == <<route, visit>>

StoryPageTypeOK ==
    /\ likes \subseteq Ids /\ comments \in [Ids -> Nat]
    /\ route \in Ids /\ visit \in 1 .. MaxVisits /\ clicks \in 0 .. MaxClicks
    /\ story \in [id : Ids, liked : BOOLEAN, comments : Nat] \cup {NoStory}
    /\ {storyLoading, storyError, liking, commenting, commentText, crossed} \subseteq BOOLEAN

Call(kind) == [kind |-> kind, id |-> route, visit |-> visit, at |-> clicks, answer |-> NoStory]

\* The page has been mounted and has asked for its story.
StoryPageInit ==
    /\ likes \in SUBSET Ids /\ comments = [i \in Ids |-> 0]
    /\ route \in Ids /\ visit = 1 /\ clicks = 0
    /\ calls = {[kind |-> "story", id |-> route, visit |-> 1, at |-> 0, answer |-> NoStory]}
    /\ story = NoStory /\ storyLoading = TRUE /\ storyError = FALSE
    /\ liking = FALSE /\ commenting = FALSE /\ commentText = FALSE
    /\ crossed = FALSE

-----------------------------------------------------------------------------
(* The page.                                                               *)

\* Back and Forward to another story: the effect on id.
ChangeRoute(i) ==
    /\ i # route /\ visit < MaxVisits
    /\ route' = i /\ visit' = visit + 1
    /\ calls' = calls \cup {[kind |-> "story", id |-> i, visit |-> visit + 1, at |-> clicks,
                             answer |-> NoStory]}
    /\ storyLoading' = TRUE /\ storyError' = FALSE
    /\ UNCHANGED <<storyServerVars, clicks, story, liking, commenting, commentText, crossed>>

StoryOnPage == ~storyLoading /\ ~storyError
Click(kind) ==
    /\ StoryOnPage /\ clicks < MaxClicks
    /\ clicks' = clicks + 1
    /\ calls' = calls \cup {Call(kind)}
    /\ UNCHANGED <<storyServerVars, routeVars, story, storyLoading, storyError, commentText, crossed>>

\* handleLike returns while one is awaited.  Mutant: it does not.
LikeAnyTime == TRUE
MayLike == ~liking
ClickLike ==
    /\ MayLike
    /\ Click("like")
    /\ liking' = TRUE
    /\ UNCHANGED commenting

\* handleComment.
TypeComment ==
    /\ StoryOnPage /\ ~commentText /\ clicks < MaxClicks
    /\ commentText' = TRUE
    /\ UNCHANGED <<storyServerVars, calls, routeVars, clicks, story, storyLoading, storyError,
                   liking, commenting, crossed>>
SendComment ==
    /\ commentText /\ ~commenting
    /\ Click("comment")
    /\ commenting' = TRUE
    /\ UNCHANGED liking

-----------------------------------------------------------------------------
(* The server.                                                             *)

Held(i, l, c) == [id |-> i, liked |-> i \in l, comments |-> c[i]]

ServeStory(r) ==
    /\ r.answer = NoStory
    /\ likes' = IF r.kind # "like" THEN likes
                ELSE IF r.id \in likes THEN likes \ {r.id} ELSE likes \cup {r.id}
    /\ comments' = IF r.kind = "comment" THEN [comments EXCEPT ![r.id] = @ + 1] ELSE comments
    /\ calls' = (calls \ {r}) \cup {[r EXCEPT !.answer = Held(r.id, likes', comments')]}
    /\ UNCHANGED <<routeVars, clicks, story, storyLoading, storyError, liking, commenting,
                   commentText, crossed>>

-----------------------------------------------------------------------------
(* Answers.                                                                *)

Answered(r) ==
    /\ r.answer # NoStory
    /\ calls' = calls \ {r}
    /\ crossed' = (crossed \/ r.visit # visit)
    /\ UNCHANGED <<storyServerVars, routeVars, clicks>>

StoryAnswered(r) ==
    /\ r.kind = "story" /\ Answered(r)
    /\ story' = r.answer
    /\ storyLoading' = FALSE
    /\ UNCHANGED <<storyError, liking, commenting, commentText>>

\* The answer goes to the story held, whichever it is by then.
LikeAnswered(r) ==
    /\ r.kind = "like" /\ Answered(r)
    /\ story' = [story EXCEPT !.liked = r.answer.liked]
    /\ liking' = FALSE
    /\ UNCHANGED <<storyLoading, storyError, commenting, commentText>>

CommentAnswered(r) ==
    /\ r.kind = "comment" /\ Answered(r)
    /\ story' = [story EXCEPT !.comments = @ + 1]
    /\ commentText' = FALSE
    /\ commenting' = FALSE
    /\ UNCHANGED <<storyLoading, storyError, liking>>

\* A call fails before it is executed, or its answer is lost.
CallFails(r) ==
    /\ calls' = calls \ {r}
    /\ crossed' = (crossed \/ r.answer # NoStory \/ r.visit # visit)
    /\ IF r.kind = "story"
       THEN storyLoading' = FALSE /\ storyError' = TRUE
       ELSE UNCHANGED <<storyLoading, storyError>>
    /\ liking' = (liking /\ r.kind # "like")
    /\ commenting' = (commenting /\ r.kind # "comment")
    /\ UNCHANGED <<storyServerVars, routeVars, clicks, story, commentText>>

StoryPageNext ==
    \/ \E i \in Ids : ChangeRoute(i)
    \/ ClickLike \/ TypeComment \/ SendComment
    \/ \E r \in calls :
          \/ ServeStory(r) \/ StoryAnswered(r) \/ LikeAnswered(r) \/ CommentAnswered(r)
          \/ CallFails(r)

StoryPageSpec == StoryPageInit /\ [][StoryPageNext]_storyPageVars

-----------------------------------------------------------------------------
(* Properties.                                                             *)

\* The page never draws a story it does not have, and when nothing is awaited any more
\* it shows the story of its route with heart and comments as the server has them,
\* until an answer comes to another visit than it was asked in, or is lost
\* (ViewStory.js: only likeLoading and commentLoading keep answers in order).
StoryAsServer ==
    /\ StoryOnPage => story # NoStory
    /\ calls = {} /\ ~crossed /\ ~storyError => story = Held(route, likes, comments)

=============================================================================
