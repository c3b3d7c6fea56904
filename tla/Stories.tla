------------------------------ MODULE Stories -------------------------------
(***************************************************************************)
(* One story's document and what its author's and its readers' documents   *)
(* say of it: the handlers of backend/controllers/storyController.js that  *)
(* write, with the pre-save hook of backend/models/Story.js and            *)
(* updatePreferencesFromLike of backend/models/User.js.                    *)
(*                                                                         *)
(* A handler is cut at its awaits.  likeStory and addComment read the      *)
(* document, change the copy and save what they changed: a $push of the    *)
(* like or the comment, or a $set of the array a like was taken out of,    *)
(* with a $set of the count.  Their projections leave out the version key, *)
(* so no save is refused because the document has changed, and the date of *)
(* publication, which the hook therefore finds unset.                      *)
(*                                                                         *)
(* A draft stands for an archived story too: no handler tells them apart.  *)
(* Texts, tags, favourite categories and view counts are left out.         *)
(***************************************************************************)
EXTENDS Integers, SequencesExt

CONSTANTS
    Users,
    Author,
    Requests,    \* HTTP requests in flight
    MaxComments, \* bound on the comments
    MaxTrouble,  \* bound on what goes wrong
    MaxWrites    \* bound on the requests that write

ASSUME AuthorAssumption == Author \in Users
ASSUME CommentsAssumption == MaxComments \in Nat
ASSUME StoryBoundsAssumption == MaxTrouble \in Nat /\ MaxWrites \in Nat

VARIABLES
    story,        \* the document
    liked,        \* whether each user's likedStories has the story
    storiesCount, \* the author's stats.storiesCount
    stage,        \* where each request is in its handler
    user,         \* whose request it is
    seen,         \* the document as its handler read it
    clobbered,    \* history: what has been saved from a copy out of date
    uncounted,    \* history: storiesCount has not followed the story
    trouble,      \* rejected awaits so far
    writes        \* writing requests so far, but for the one that creates

storyVars == <<story, liked, storiesCount, stage, user, seen, clobbered,
               uncounted, trouble, writes>>

None == "none"
Statuses == {"none", "draft", "published", "deleted"}
Dates == {None, "created", "later"}
Stages == {"idle", "like", "preferences", "keep", "pull", "save", "comment",
           "populate", "update", "delete", "create", "count", "written"}

Unwritten == [status |-> "none", likes |-> <<>>, likesCount |-> 0, comments |-> 0,
              commentsCount |-> 0, publishedAt |-> None]

Exists == story.status \in {"draft", "published"}

StoriesInit ==
    /\ story = Unwritten
    /\ liked = [u \in Users |-> FALSE]
    /\ storiesCount = 0
    /\ stage = [r \in Requests |-> "idle"]
    /\ user = [r \in Requests |-> Author]
    /\ seen = [r \in Requests |-> Unwritten]
    /\ clobbered = {}
    /\ uncounted = FALSE
    /\ trouble = 0
    /\ writes = 0

-----------------------------------------------------------------------------
(* Steps of a handler.                                                     *)

\* await Story.findById(...), and the checks that follow it; of the copy, what
\* the handler goes on to use.
Find(r, u, copy, next) ==
    /\ stage[r] = "idle"
    /\ Exists
    /\ writes < MaxWrites
    /\ writes' = writes + 1
    /\ stage' = [stage EXCEPT ![r] = next]
    /\ user' = [user EXCEPT ![r] = u]
    /\ seen' = [seen EXCEPT ![r] = copy]
    /\ UNCHANGED <<story, liked, storiesCount, clobbered, uncounted, trouble>>

\* The request goes on to `next`; its copy dies with the handler.
GoTo(r, next) ==
    /\ stage' = [stage EXCEPT ![r] = next]
    /\ IF next \in {"idle", "written"}
       THEN /\ user' = [user EXCEPT ![r] = Author]
            /\ seen' = [seen EXCEPT ![r] = Unwritten]
       ELSE UNCHANGED <<user, seen>>

Trouble ==
    /\ trouble < MaxTrouble
    /\ trouble' = trouble + 1

-----------------------------------------------------------------------------
(* likeStory                                                               *)

LikeFind(r, u) ==
    /\ story.status = "published"
    /\ Find(r, u, [Unwritten EXCEPT !.likes = story.likes],
            IF Contains(story.likes, u) THEN "pull" ELSE "preferences")

\* await User.findById(userId): if the copy has the story in likedStories there
\* is nothing to save but what is left out here.
Preferences(r) ==
    /\ stage[r] = "preferences"
    /\ GoTo(r, IF liked[user[r]] THEN "save" ELSE "keep")
    /\ UNCHANGED <<story, liked, storiesCount, clobbered, uncounted, trouble, writes>>

\* updatePreferencesFromLike(): await this.save(), a $push
Keep(r) ==
    /\ stage[r] = "keep"
    /\ liked' = [liked EXCEPT ![user[r]] = TRUE]
    /\ GoTo(r, "save")
    /\ UNCHANGED <<story, storiesCount, clobbered, uncounted, trouble, writes>>

\* The $pull from likedStories; a mutant that leaves it out.
PulledNot(u) == liked
Pulled(u) == [liked EXCEPT ![u] = FALSE]

Pull(r) ==
    /\ stage[r] = "pull"
    /\ liked' = Pulled(user[r])
    /\ GoTo(r, "save")
    /\ UNCHANGED <<story, storiesCount, clobbered, uncounted, trouble, writes>>

\* "Non-critical": the handler goes on as if the user's document were written.
PreferencesFail(r) ==
    /\ stage[r] \in {"preferences", "keep", "pull"}
    /\ Trouble
    /\ GoTo(r, "save")
    /\ UNCHANGED <<story, liked, storiesCount, clobbered, uncounted, writes>>

\* The likes of the copy once toggled.
Toggled(r) == IF Contains(seen[r].likes, user[r])
              THEN RemoveFirst(seen[r].likes, user[r])
              ELSE Append(seen[r].likes, user[r])

\* The likes of the document once saved: a push adds to what is there, a splice
\* replaces it.
SavedLikes(r) == IF Contains(seen[r].likes, user[r]) THEN Toggled(r)
                 ELSE Append(story.likes, user[r])

\* stats.likes, from the copy; a mutant that counts before the change.
LikesCountBefore(r) == Len(seen[r].likes)
LikesCount(r) == Len(Toggled(r))

Liking == {"preferences", "keep", "pull", "save"}

\* Another request of the user toggles the like meanwhile.
Rivalled(r) == \E q \in Requests \ {r} : user[q] = user[r] /\ stage[q] \in Liking

\* await story.save(), with the hook's date of publication
LikeSave(r) ==
    /\ stage[r] = "save"
    /\ Exists
    /\ story' = [story EXCEPT !.likes = SavedLikes(r),
                              !.likesCount = LikesCount(r),
                              !.publishedAt = "later"]
    /\ clobbered' = clobbered \cup (IF story.likes # seen[r].likes THEN {"likes"} ELSE {})
                              \cup (IF Rivalled(r) THEN {"toggles"} ELSE {})
    /\ GoTo(r, "written")
    /\ UNCHANGED <<liked, storiesCount, uncounted, trouble, writes>>

-----------------------------------------------------------------------------
(* addComment                                                              *)

CommentFind(r, u) ==
    /\ story.status = "published"
    /\ Find(r, u, [Unwritten EXCEPT !.comments = story.comments], "comment")

\* stats.comments, from the copy.
CommentsCount(r) == seen[r].comments + 1

CommentSave(r) ==
    /\ stage[r] = "comment"
    /\ Exists
    /\ story.comments < MaxComments
    /\ story' = [story EXCEPT !.comments = @ + 1,
                              !.commentsCount = CommentsCount(r),
                              !.publishedAt = "later"]
    /\ clobbered' = clobbered \cup (IF story.comments # seen[r].comments THEN {"comments"}
                                                                         ELSE {})
    /\ GoTo(r, "populate")
    /\ UNCHANGED <<liked, storiesCount, uncounted, trouble, writes>>

\* await story.populate(...): the comment is answered.
CommentAnswer(r) ==
    /\ stage[r] = "populate"
    /\ GoTo(r, "written")
    /\ UNCHANGED <<story, liked, storiesCount, clobbered, uncounted, trouble, writes>>

-----------------------------------------------------------------------------
(* createStory, updateStory and deleteStory                                *)

\* await story.save() of a new document
Create(r, status) ==
    /\ stage[r] = "idle"
    /\ story.status = "none"
    /\ story' = [Unwritten EXCEPT
                    !.status = status,
                    !.publishedAt = IF status = "published" THEN "created" ELSE None]
    /\ stage' = [stage EXCEPT ![r] = IF status = "published" THEN "create" ELSE "written"]
    /\ UNCHANGED <<liked, storiesCount, user, seen, clobbered, uncounted, trouble, writes>>

CountCreated(r) ==
    /\ stage[r] = "create"
    /\ storiesCount' = storiesCount + 1
    /\ GoTo(r, "written")
    /\ UNCHANGED <<story, liked, clobbered, uncounted, trouble, writes>>

UpdateFind(r) == Find(r, Author, Unwritten, "update")

\* await Story.findByIdAndUpdate(...): the status is the author's to set; the
\* hook does not run.  An update of a deleted story is answered like any other.
Update(r, status) ==
    /\ stage[r] = "update"
    /\ story' = IF Exists THEN [story EXCEPT !.status = status] ELSE story
    /\ uncounted' = (uncounted \/ story'.status # story.status)
    /\ GoTo(r, "written")
    /\ UNCHANGED <<liked, storiesCount, clobbered, trouble, writes>>

DeleteFind(r) == Find(r, Author, [Unwritten EXCEPT !.status = story.status], "delete")

\* await Story.findByIdAndDelete(storyId), whose result is not looked at
Delete(r) ==
    /\ stage[r] = "delete"
    /\ story' = [Unwritten EXCEPT !.status = "deleted"]
    /\ uncounted' = (uncounted \/ ~Exists)
    /\ GoTo(r, IF seen[r].status = "published" THEN "count" ELSE "written")
    /\ UNCHANGED <<liked, storiesCount, clobbered, trouble, writes>>

\* The count a delete leaves.  Mutant: it is left out.
CountKept == storiesCount
CountLess == storiesCount - 1

CountDeleted(r) ==
    /\ stage[r] = "count"
    /\ storiesCount' = CountLess
    /\ GoTo(r, "written")
    /\ UNCHANGED <<story, liked, clobbered, uncounted, trouble, writes>>

-----------------------------------------------------------------------------
\* An await is rejected, or the document to save has been deleted: the handler
\* answers 500, whatever it has written by then.
HandlerFails(r) ==
    /\ stage[r] \in Stages \ {"idle", "written", "preferences", "keep", "pull"}
    /\ \/ Trouble
       \/ stage[r] \in {"save", "comment"} /\ ~Exists /\ UNCHANGED trouble
    /\ uncounted' = (uncounted \/ stage[r] \in {"create", "count"})
    /\ GoTo(r, "idle")
    /\ UNCHANGED <<story, liked, storiesCount, clobbered, writes>>

StoryStep(r) ==
    \/ \E u \in Users : LikeFind(r, u) \/ CommentFind(r, u)
    \/ Preferences(r) \/ Keep(r) \/ Pull(r) \/ PreferencesFail(r) \/ LikeSave(r)
    \/ CommentSave(r) \/ CommentAnswer(r)
    \/ \E status \in {"draft", "published"} : Create(r, status) \/ Update(r, status)
    \/ CountCreated(r) \/ UpdateFind(r) \/ DeleteFind(r) \/ Delete(r) \/ CountDeleted(r)
    \/ HandlerFails(r)

-----------------------------------------------------------------------------
(* Properties.                                                             *)

StoriesTypeOK ==
    /\ story.status \in Statuses
    /\ story.likes \in Seq(Users)
    /\ story.likesCount \in 0 .. Cardinality(Users) + Cardinality(Requests)
    /\ story.comments \in 0 .. MaxComments
    /\ story.commentsCount \in 0 .. MaxComments
    /\ story.publishedAt \in Dates
    /\ liked \in [Users -> BOOLEAN]
    /\ storiesCount \in -Cardinality(Requests) .. 1
    /\ stage \in [Requests -> Stages]
    /\ user \in [Requests -> Users]
    /\ clobbered \subseteq {"likes", "toggles", "comments"}
    /\ uncounted \in BOOLEAN
    /\ trouble \in 0 .. MaxTrouble
    /\ writes \in 0 .. MaxWrites

\* "stats.likes === likes.length", nobody is in it twice, and the same for the
\* comments, as long as no save has replaced a count by that of a copy that was
\* out of date: likes, comments, edits, unpublishing and deletion interleave.
CountsAgree ==
    /\ "likes" \notin clobbered => /\ story.likesCount = Len(story.likes)
                                   /\ IsInjective(story.likes)
    /\ "comments" \notin clobbered => story.commentsCount = story.comments

\* A user's list of liked stories has the story exactly when the story has the
\* user's like, once the user's requests are over and unless two of them have
\* toggled it at once: the two documents are written one after the other, and
\* other users' requests run in between.
LikedAsListed ==
    clobbered \cap {"likes", "toggles"} = {} /\ trouble = 0 /\ Exists =>
        \A u \in Users :
            (\A r \in Requests : stage[r] \in Liking => user[r] # u)
            => (liked[u] <=> Contains(story.likes, u))

\* The author's count of published stories follows the creation and deletion of
\* the story, whatever else runs in between; not a change of its status, nor a
\* second deletion.
StoriesCounted ==
    ~uncounted /\ (\A r \in Requests : stage[r] \notin {"create", "count"}) =>
        storiesCount = IF story.status = "published" THEN 1 ELSE 0

\* "Set published date when publishing": a date of publication stays.
DateKept ==
    [][story.publishedAt = "created" /\ Exists' => story'.publishedAt = "created"]_storyVars

=============================================================================
