-------------------------- MODULE StoryCacheProofs --------------------------
(***************************************************************************)
(* Proofs about a story and its cached page, for every set of users, of    *)
(* requests and of readers.                                                *)
(*                                                                         *)
(* The counts, the liked lists and the author's count are those of         *)
(* Stories; the reads and the cache of StoryCache leave its document       *)
(* alone, so one invariant serves both.                                    *)
(***************************************************************************)
EXTENDS StoryCache, SequenceTheorems, WellFoundedInduction, NaturalsInduction,
        TLAPS

-----------------------------------------------------------------------------
(* The sequences a like changes.                                           *)

\* A set of naturals that is not empty has a least element.
LEMMA LeastNatural ==
    ASSUME NEW I \in SUBSET Nat, I # {}
    PROVE  Min(I) \in I
  <1>1. PICK R : IsWellFoundedOn(R, Nat) /\ \A x, y \in Nat : x < y => <<x, y>> \in R
    BY NatLessThanWellFounded DEF OpToRel
  <1>2. PICK x \in I : \A y \in I : ~(<<y, x>> \in R)
    <2>1. I \subseteq Nat
      OBVIOUS
    <2>2. IsWellFoundedOn(R, Nat)
      BY <1>1
    <2> QED
      BY <2>1, <2>2, WFMin, Zenon
  <1>3. ASSUME NEW y \in I PROVE x <= y
    <2>1. x \in Nat /\ y \in Nat /\ ~(y < x)
      BY <1>1, <1>2
    <2> QED
      BY <2>1
  <1> QED
    BY <1>2, <1>3 DEF Min

\* What the splice of one element leaves.
LEMMA SpliceProperties ==
    ASSUME NEW T, NEW s \in Seq(T), NEW i \in 1 .. Len(s)
    PROVE  /\ RemoveAt(s, i) \in Seq(T)
           /\ Len(RemoveAt(s, i)) = Len(s) - 1
           /\ \A j \in 1 .. Len(s) - 1 :
                 RemoveAt(s, i)[j] = IF j < i THEN s[j] ELSE s[j + 1]
  <1> DEFINE a == SubSeq(s, 1, i - 1)
             b == SubSeq(s, i + 1, Len(s))
  <1>0. Len(s) \in Nat /\ \A j \in 1 .. Len(s) : s[j] \in T
    BY LenProperties, ElementOfSeq
  <1>1. /\ a \in Seq(T) /\ Len(a) = i - 1
        /\ \A j \in 1 .. i - 1 : a[j] = s[j]
    <2>1. \A j \in 1 .. i - 1 : s[j] \in T
      BY <1>0
    <2>2. /\ a \in Seq(T)
          /\ Len(a) = IF 1 <= i - 1 THEN i - 1 - 1 + 1 ELSE 0
          /\ \A j \in 1 .. i - 1 - 1 + 1 : a[j] = s[1 + j - 1]
      BY <1>0, <2>1, SubSeqProperties
    <2> HIDE DEF a
    <2> QED
      BY <1>0, <2>2
  <1>2. /\ b \in Seq(T) /\ Len(b) = Len(s) - i
        /\ \A j \in 1 .. Len(s) - i : b[j] = s[i + j]
    <2>1. \A j \in i + 1 .. Len(s) : s[j] \in T
      BY <1>0
    <2>2. /\ b \in Seq(T)
          /\ Len(b) = IF i + 1 <= Len(s) THEN Len(s) - (i + 1) + 1 ELSE 0
          /\ \A j \in 1 .. Len(s) - (i + 1) + 1 : b[j] = s[i + 1 + j - 1]
      BY <1>0, <2>1, SubSeqProperties
    <2> HIDE DEF b
    <2> QED
      BY <1>0, <2>2
  <1> HIDE DEF a, b
  <1>3. /\ a \o b \in Seq(T) /\ Len(a \o b) = Len(a) + Len(b)
        /\ \A j \in 1 .. Len(a) + Len(b) :
              (a \o b)[j] = IF j <= Len(a) THEN a[j] ELSE b[j - Len(a)]
    BY <1>1, <1>2, ConcatProperties
  <1>4. RemoveAt(s, i) = a \o b
    BY DEF RemoveAt, a, b
  <1>5. ASSUME NEW j \in 1 .. Len(s) - 1
        PROVE  (a \o b)[j] = IF j < i THEN s[j] ELSE s[j + 1]
    <2>1. CASE j < i
      BY <1>0, <1>1, <1>2, <1>3, <2>1
    <2>2. CASE j >= i
      <3>1. j - (i - 1) \in 1 .. Len(s) - i /\ ~(j <= Len(a))
        BY <1>0, <1>1, <2>2
      <3>2. b[j - (i - 1)] = s[i + (j - (i - 1))]
        BY <1>2, <3>1
      <3>3. i + (j - (i - 1)) = j + 1
        BY <1>0
      <3>4. (a \o b)[j] = b[j - (i - 1)]
        BY <1>0, <1>1, <1>2, <1>3, <3>1
      <3> QED
        BY <2>2, <3>2, <3>3, <3>4
    <2>3. j < i \/ j >= i
      BY <1>0
    <2> QED
      BY <2>1, <2>2, <2>3
  <1> QED
    BY <1>0, <1>1, <1>2, <1>3, <1>4, <1>5

\* Taking a user out of the likes takes out that user and nobody else, if nobody
\* is in them twice.
LEMMA RemoveFirstProperties ==
    ASSUME NEW T, NEW s \in Seq(T), NEW e, Contains(s, e)
    PROVE  /\ RemoveFirst(s, e) \in Seq(T)
           /\ IsInjective(s) => /\ IsInjective(RemoveFirst(s, e))
                                /\ \A x : Contains(RemoveFirst(s, e), x)
                                             <=> Contains(s, x) /\ x # e
  <1> DEFINE I == {j \in 1 .. Len(s) : s[j] = e}
             i == Min(I)
             t == RemoveFirst(s, e)
  <1>1. i \in 1 .. Len(s) /\ s[i] = e
    <2>1. I \in SUBSET Nat /\ I # {}
      BY LenProperties DEF Contains
    <2>2. i \in I
      BY <2>1, LeastNatural
    <2> QED
      BY <2>2
  <1>2. t = RemoveAt(s, i)
    BY DEF RemoveFirst, SelectInSeq, Contains
  <1> HIDE DEF i, t
  <1>3. /\ t \in Seq(T) /\ Len(t) = Len(s) - 1 /\ Len(s) \in Nat
        /\ \A j \in 1 .. Len(s) - 1 : t[j] = IF j < i THEN s[j] ELSE s[j + 1]
        /\ DOMAIN s = 1 .. Len(s) /\ DOMAIN t = 1 .. Len(t)
    BY <1>1, <1>2, SpliceProperties, LenProperties
  <1>4. ASSUME IsInjective(s)
        PROVE  /\ IsInjective(t)
               /\ \A x : Contains(t, x) <=> Contains(s, x) /\ x # e
    <2>1. \A j, k \in 1 .. Len(s) : s[j] = s[k] => j = k
      BY <1>3, <1>4 DEF IsInjective
    <2>2. ASSUME NEW j \in 1 .. Len(t), NEW k \in 1 .. Len(t), t[j] = t[k]
          PROVE  j = k
      <3> DEFINE p(n) == IF n < i THEN n ELSE n + 1
      <3>1. p(j) \in 1 .. Len(s) /\ p(k) \in 1 .. Len(s)
        BY <1>1, <1>3
      <3>2. t[j] = s[p(j)] /\ t[k] = s[p(k)]
        BY <1>3
      <3>3. p(j) = p(k)
        BY <2>1, <2>2, <3>1, <3>2
      <3> QED
        BY <1>1, <1>3, <3>3
    <2>3. ASSUME NEW x, Contains(t, x) PROVE Contains(s, x) /\ x # e
      <3>1. PICK j \in 1 .. Len(t) : t[j] = x
        BY <2>3 DEF Contains
      <3> DEFINE n == IF j < i THEN j ELSE j + 1
      <3>2. n \in 1 .. Len(s) /\ s[n] = x /\ n # i
        BY <1>1, <1>3, <3>1
      <3> QED
        BY <1>1, <2>1, <3>2 DEF Contains
    <2>4. ASSUME NEW x, Contains(s, x), x # e PROVE Contains(t, x)
      <3>1. PICK n \in 1 .. Len(s) : s[n] = x
        BY <2>4 DEF Contains
      <3>2. n # i
        BY <1>1, <2>4, <3>1
      <3> DEFINE j == IF n < i THEN n ELSE n - 1
      <3>3. j \in 1 .. Len(t) /\ t[j] = x
        BY <1>1, <1>3, <3>1, <3>2
      <3> QED
        BY <3>3 DEF Contains
    <2>5. IsInjective(t)
      BY <1>3, <2>2 DEF IsInjective
    <2> QED
      BY <2>3, <2>4, <2>5
  <1> QED
    BY <1>3, <1>4 DEF t

\* Pushing a user adds that user, and nobody is in the likes twice if the user
\* was not in them.
LEMMA PushProperties ==
    ASSUME NEW T, NEW s \in Seq(T), NEW e \in T
    PROVE  /\ Append(s, e) \in Seq(T)
           /\ \A x : Contains(Append(s, e), x) <=> Contains(s, x) \/ x = e
           /\ IsInjective(s) /\ ~Contains(s, e) => IsInjective(Append(s, e))
  <1> DEFINE t == Append(s, e)
  <1>1. /\ t \in Seq(T) /\ Len(t) = Len(s) + 1 /\ Len(s) \in Nat
        /\ \A j \in 1 .. Len(s) : t[j] = s[j]
        /\ t[Len(s) + 1] = e
        /\ DOMAIN s = 1 .. Len(s) /\ DOMAIN t = 1 .. Len(t)
    BY AppendProperties, LenProperties
  <1> HIDE DEF t
  <1>2. \A x : Contains(t, x) <=> Contains(s, x) \/ x = e
    <2>1. \A j \in 1 .. Len(t) : j \in 1 .. Len(s) \/ j = Len(s) + 1
      BY <1>1
    <2>2. \A j \in 1 .. Len(s) : j \in 1 .. Len(t)
      BY <1>1
    <2>3. Len(s) + 1 \in 1 .. Len(t)
      BY <1>1
    <2> QED
      BY <1>1, <2>1, <2>2, <2>3 DEF Contains
  <1>3. ASSUME IsInjective(s), ~Contains(s, e) PROVE IsInjective(t)
    <2>1. \A j \in 1 .. Len(s) : s[j] # e
      BY <1>3 DEF Contains
    <2>2. \A j, k \in 1 .. Len(s) : s[j] = s[k] => j = k
      BY <1>1, <1>3 DEF IsInjective
    <2>3. ASSUME NEW j \in 1 .. Len(t), NEW k \in 1 .. Len(t), t[j] = t[k]
          PROVE  j = k
      <3>1. /\ j \in 1 .. Len(s) \/ j = Len(s) + 1
            /\ k \in 1 .. Len(s) \/ k = Len(s) + 1
        BY <1>1
      <3> QED
        BY <1>1, <2>1, <2>2, <2>3, <3>1
    <2> QED
      BY <1>1, <2>3 DEF IsInjective
  <1> QED
    BY <1>1, <1>2, <1>3 DEF t

LEMMA EmptyLikes ==
    /\ <<>> \in Seq(Users) /\ Len(<<>>) = 0 /\ IsInjective(<<>>)
    /\ \A x : ~Contains(<<>>, x)
  BY DEF IsInjective, Contains

-----------------------------------------------------------------------------
(* The invariant.                                                          *)

Docs == [status : Statuses, likes : Seq(Users), likesCount : Int, comments : Int,
         commentsCount : Int, publishedAt : Dates]

StoryTyped ==
    /\ story \in Docs
    /\ liked \in [Users -> BOOLEAN]
    /\ storiesCount \in Int
    /\ stage \in [Requests -> Stages]
    /\ user \in [Requests -> Users]
    /\ seen \in [Requests -> Docs]
    /\ trouble \in Nat

\* Before the story is created nobody has done anything with it.
Untouched ==
    story.status = "none" => /\ storiesCount = 0
                             /\ \A u \in Users : ~liked[u]
                             /\ \A r \in Requests : stage[r] = "idle"

\* No save has clobbered another, nothing has gone wrong, and the story is there.
Clean == clobbered \cap {"likes", "toggles"} = {} /\ trouble = 0 /\ Exists

\* A request that adds a like has read likes without it; one that takes a like
\* out has read likes with it.
TogglesWhatItRead ==
    \A r \in Requests :
        /\ stage[r] \in {"preferences", "keep"} => ~Contains(seen[r].likes, user[r])
        /\ stage[r] = "pull" => Contains(seen[r].likes, user[r])

\* A like about to be saved has been written to its user's list, unless another
\* request of the user runs too.
ListedBeforeSaved ==
    Clean => \A r \in Requests :
        stage[r] = "save" /\ ~Rivalled(r)
            => (liked[user[r]] <=> ~Contains(seen[r].likes, user[r]))

LikedInv == TogglesWhatItRead /\ LikedAsListed /\ ListedBeforeSaved

One(b) == IF b THEN 1 ELSE 0
Pending(next) == \E r \in Requests : stage[r] = next

\* What the author's count lacks is what a creation or a deletion is yet to
\* write, and there is one of either at most.
CountedInv ==
    /\ \A r, q \in Requests : stage[r] = "create" /\ stage[q] = "create" => r = q
    /\ ~uncounted =>
        /\ \A r, q \in Requests : stage[r] = "count" /\ stage[q] = "count" => r = q
        /\ Pending("count") => story.status = "deleted"
        /\ \A r \in Requests :
              stage[r] = "delete" /\ Exists => seen[r].status = story.status
        /\ storiesCount = One(story.status = "published") - One(Pending("create"))
                            + One(Pending("count"))

StoryInv == StoryTyped /\ Untouched /\ CountsAgree /\ LikedInv /\ CountedInv

Pages == [status : Statuses, likes : Seq(Users), comments : Int]

\* Every reader whose GET has missed the cache is anonymous, so what it goes on to
\* store is a published story's page; no page is there before the story is.
CacheInv ==
    /\ cached \in Pages
    /\ reading \in [Readers -> {"idle", "miss", "fill"}]
    /\ reader \in [Readers -> {Anonymous}]
    /\ page \in [Readers -> Pages]
    /\ \A g \in Readers : reading[g] = "fill" => page[g].status = "published"
    /\ CachedIsPublic
    /\ story.status = "none" => /\ ~IsCached
                                /\ \A g \in Readers : reading[g] # "fill"
    /\ FreshUnlessLate

\* What is to be deleted from the cache waits for a write that has been answered.
ClearingWritten == \A r \in clearing : r \in Requests /\ stage[r] = "written"

Inv == StoryInv /\ ClearingWritten /\ CacheInv

-----------------------------------------------------------------------------
(* Type correctness.                                                       *)

\* A request that has been answered with its write leaves.
Rest(r) ==
    /\ stage[r] = "written"
    /\ GoTo(r, "idle")
    /\ UNCHANGED <<story, liked, storiesCount, clobbered, uncounted, trouble, writes>>

LoneTrouble ==
    /\ Trouble
    /\ UNCHANGED <<story, liked, storiesCount, stage, user, seen, clobbered, uncounted>>

\* What a step of StoryCache does to the story and its requests.
LEMMA StoryNext ==
    ASSUME ClearingWritten, [Next]_vars
    PROVE  \/ \E r \in Requests : StoryStep(r) \/ Rest(r)
           \/ LoneTrouble
           \/ UNCHANGED storyVars
  <1>1. ASSUME NEW r \in Requests, Handle(r) PROVE StoryStep(r)
    BY <1>1 DEF Handle
  <1>2. ASSUME NEW r \in Requests, Scan(r) \/ Clear(r) \/ ClearNothing(r)
        PROVE  Rest(r) \/ UNCHANGED storyVars
    BY <1>2 DEF ClearingWritten, Scan, Clear, ClearNothing, Rest
  <1>3. ASSUME NEW g \in Readers, ReadStory(g) \/ Fill(g) PROVE UNCHANGED storyVars
    BY <1>3 DEF ReadStory, Fill
  <1>4. ASSUME NEW g \in Readers, NEW u, Miss(g, u) PROVE UNCHANGED storyVars
    BY <1>4 DEF Miss
  <1>5. CASE Expire \/ RegainRedis
    BY <1>5 DEF Expire, RegainRedis
  <1>6. CASE LoseRedis
    BY <1>6 DEF LoseRedis, LoneTrouble
  <1>7. CASE UNCHANGED vars
    BY <1>7 DEF vars
  <1> QED
    BY <1>1, <1>2, <1>3, <1>4, <1>5, <1>6, <1>7 DEF Next

\* The copies handlers work on, and the documents they save, are documents.
LEMMA DocTypes ==
    ASSUME StoryTyped
    PROVE  /\ Unwritten \in Docs
           /\ [Unwritten EXCEPT !.likes = story.likes] \in Docs
           /\ [Unwritten EXCEPT !.comments = story.comments] \in Docs
           /\ [Unwritten EXCEPT !.status = story.status] \in Docs
           /\ [Unwritten EXCEPT !.status = "deleted"] \in Docs
  <1>1. Unwritten \in Docs
    BY EmptyLikes DEF Unwritten, Docs, Statuses, Dates
  <1>2. /\ story.likes \in Seq(Users) /\ story.comments \in Int
        /\ story.status \in Statuses
    BY DEF StoryTyped, Docs
  <1> QED
    BY <1>1, <1>2 DEF Docs, Statuses

LEMMA GoToOwn ==
    ASSUME StoryTyped, NEW r \in Requests, NEW next \in Stages, GoTo(r, next)
    PROVE  /\ stage' = [stage EXCEPT ![r] = next]
           /\ \E y \in Users : user' = [user EXCEPT ![r] = y]
           /\ \E z \in Docs : seen' = [seen EXCEPT ![r] = z]
  <1>1. CASE next \in {"idle", "written"}
    BY <1>1, AuthorAssumption, DocTypes DEF GoTo
  <1>2. CASE next \notin {"idle", "written"}
    <2>1. user' = [user EXCEPT ![r] = user[r]] /\ seen' = [seen EXCEPT ![r] = seen[r]]
      BY <1>2 DEF GoTo, StoryTyped
    <2> QED
      BY <2>1 DEF GoTo, StoryTyped
  <1> QED
    BY <1>1, <1>2

LEMMA FindOwn ==
    ASSUME StoryTyped, NEW r \in Requests, NEW u \in Users, NEW copy \in Docs,
           NEW next \in Stages, Find(r, u, copy, next)
    PROVE  /\ stage' = [stage EXCEPT ![r] = next]
           /\ \E y \in Users : user' = [user EXCEPT ![r] = y]
           /\ \E z \in Docs : seen' = [seen EXCEPT ![r] = z]
  BY DEF Find

\* A request's step changes its own stage and copy, and no other's.
LEMMA OwnStep ==
    ASSUME StoryTyped, NEW r \in Requests, StoryStep(r) \/ Rest(r)
    PROVE  /\ \E x \in Stages : stage' = [stage EXCEPT ![r] = x]
           /\ \E y \in Users : user' = [user EXCEPT ![r] = y]
           /\ \E z \in Docs : seen' = [seen EXCEPT ![r] = z]
  <1>1. ASSUME NEW u \in Users, LikeFind(r, u) \/ CommentFind(r, u)
        PROVE  /\ \E x \in Stages : stage' = [stage EXCEPT ![r] = x]
               /\ \E y \in Users : user' = [user EXCEPT ![r] = y]
               /\ \E z \in Docs : seen' = [seen EXCEPT ![r] = z]
    <2>1. \E copy \in Docs, next \in Stages : Find(r, u, copy, next)
      BY <1>1, DocTypes DEF LikeFind, CommentFind, Stages
    <2> QED
      BY <2>1, FindOwn
  <1>2. CASE UpdateFind(r) \/ DeleteFind(r)
    <2>1. \E copy \in Docs, next \in Stages : Find(r, Author, copy, next)
      BY <1>2, DocTypes DEF UpdateFind, DeleteFind, Stages
    <2> QED
      BY <2>1, FindOwn, AuthorAssumption
  <1>3. ASSUME NEW status, Create(r, status)
        PROVE  /\ \E x \in Stages : stage' = [stage EXCEPT ![r] = x]
               /\ \E y \in Users : user' = [user EXCEPT ![r] = y]
               /\ \E z \in Docs : seen' = [seen EXCEPT ![r] = z]
    <2>1. user' = [user EXCEPT ![r] = user[r]] /\ seen' = [seen EXCEPT ![r] = seen[r]]
      BY <1>3 DEF Create, StoryTyped
    <2>2. \E x \in Stages : stage' = [stage EXCEPT ![r] = x]
      BY <1>3 DEF Create, Stages
    <2> QED
      BY <2>1, <2>2 DEF StoryTyped
  <1>4. ASSUME \E next \in Stages : GoTo(r, next)
        PROVE  /\ \E x \in Stages : stage' = [stage EXCEPT ![r] = x]
               /\ \E y \in Users : user' = [user EXCEPT ![r] = y]
               /\ \E z \in Docs : seen' = [seen EXCEPT ![r] = z]
    BY <1>4, GoToOwn
  <1>5. CASE Preferences(r) \/ Keep(r) \/ Pull(r) \/ PreferencesFail(r) \/ LikeSave(r)
    BY <1>4, <1>5 DEF Preferences, Keep, Pull, PreferencesFail, LikeSave, Stages
  <1>6. CASE CommentSave(r) \/ CommentAnswer(r) \/ CountCreated(r) \/ CountDeleted(r)
    BY <1>4, <1>6 DEF CommentSave, CommentAnswer, CountCreated, CountDeleted, Stages
  <1>7. CASE Delete(r) \/ HandlerFails(r) \/ Rest(r)
    BY <1>4, <1>7 DEF Delete, HandlerFails, Rest, Stages
  <1>8. ASSUME NEW status, Update(r, status) PROVE \E next \in Stages : GoTo(r, next)
    BY <1>8 DEF Update, Stages
  <1> QED
    BY <1>1, <1>2, <1>3, <1>4, <1>5, <1>6, <1>7, <1>8 DEF StoryStep

\* The document after a save, field by field.
LEMMA LikeSaved ==
    ASSUME StoryTyped, NEW r \in Requests, LikeSave(r)
    PROVE  /\ story' \in Docs
           /\ story'.likes = SavedLikes(r) /\ story'.likesCount = LikesCount(r)
           /\ story'.status = story.status /\ story'.comments = story.comments
           /\ story'.commentsCount = story.commentsCount
  <1>1. /\ story.likes \in Seq(Users) /\ seen[r].likes \in Seq(Users)
        /\ user[r] \in Users
    BY DEF StoryTyped, Docs
  <1>2. Toggled(r) \in Seq(Users)
    BY <1>1, RemoveFirstProperties, PushProperties DEF Toggled
  <1>3. SavedLikes(r) \in Seq(Users)
    BY <1>1, <1>2, PushProperties DEF SavedLikes
  <1>4. LikesCount(r) \in Int
    BY <1>2, LenProperties DEF LikesCount
  <1>5. story' = [story EXCEPT !.likes = SavedLikes(r), !.likesCount = LikesCount(r),
                               !.publishedAt = "later"]
    BY DEF LikeSave
  <1> QED
    BY <1>3, <1>4, <1>5 DEF StoryTyped, Docs, Dates

LEMMA CommentSaved ==
    ASSUME StoryTyped, NEW r \in Requests, CommentSave(r)
    PROVE  /\ story' \in Docs
           /\ story'.likes = story.likes /\ story'.likesCount = story.likesCount
           /\ story'.status = story.status /\ story'.comments = story.comments + 1
           /\ story'.commentsCount = seen[r].comments + 1
  <1> DEFINE n == story.comments + 1
             m == seen[r].comments + 1
  <1>1. n \in Int /\ m \in Int
    BY DEF StoryTyped, Docs
  <1>2. story' = [story EXCEPT !.comments = n, !.commentsCount = m,
                               !.publishedAt = "later"]
    BY DEF CommentSave, CommentsCount
  <1> HIDE DEF n, m
  <1>3. /\ story' \in Docs
        /\ story'.likes = story.likes /\ story'.likesCount = story.likesCount
        /\ story'.status = story.status /\ story'.comments = n
        /\ story'.commentsCount = m
    BY <1>1, <1>2 DEF StoryTyped, Docs, Dates
  <1> QED
    BY <1>3 DEF n, m

LEMMA Updated ==
    ASSUME StoryTyped, NEW r \in Requests, NEW status \in {"draft", "published"},
           Update(r, status)
    PROVE  /\ story' \in Docs
           /\ story'.likes = story.likes /\ story'.likesCount = story.likesCount
           /\ story'.comments = story.comments
           /\ story'.commentsCount = story.commentsCount
           /\ story'.status = IF Exists THEN status ELSE story.status
  BY DEF StoryTyped, Update, Docs, Statuses

LEMMA Created ==
    ASSUME StoryTyped, NEW r \in Requests, NEW status \in {"draft", "published"},
           Create(r, status)
    PROVE  /\ story' \in Docs /\ story'.status = status
           /\ story'.likes = <<>> /\ story'.likesCount = 0
           /\ story'.comments = 0 /\ story'.commentsCount = 0
  <1>1. Unwritten \in Docs
    BY DocTypes
  <1>2. (IF status = "published" THEN "created" ELSE None) \in Dates
    BY DEF Dates
  <1>3. story' = [Unwritten EXCEPT
                     !.status = status,
                     !.publishedAt = IF status = "published" THEN "created" ELSE None]
    BY DEF Create
  <1>4. /\ Unwritten.likes = <<>> /\ Unwritten.likesCount = 0
        /\ Unwritten.comments = 0 /\ Unwritten.commentsCount = 0
    BY DEF Unwritten
  <1> QED
    BY <1>1, <1>2, <1>3, <1>4 DEF Docs, Statuses

LEMMA Deleted ==
    ASSUME StoryTyped, NEW r \in Requests, Delete(r)
    PROVE  /\ story' \in Docs /\ story'.status = "deleted"
           /\ story'.likes = <<>> /\ story'.likesCount = 0
           /\ story'.comments = 0 /\ story'.commentsCount = 0
  <1>1. [Unwritten EXCEPT !.status = "deleted"] \in Docs
    BY DocTypes
  <1> QED
    BY <1>1 DEF Delete, Unwritten

\* Whatever else a request does leaves the document as it is.
Saving(r) ==
    \/ LikeSave(r) \/ CommentSave(r) \/ Delete(r)
    \/ \E status \in {"draft", "published"} : Create(r, status) \/ Update(r, status)

LEMMA NotSaving ==
    ASSUME NEW r \in Requests, StoryStep(r) \/ Rest(r), ~Saving(r)
    PROVE  UNCHANGED <<story, clobbered>>
  BY DEF StoryStep, Rest, Saving, LikeFind, CommentFind, Find, Preferences, Keep, Pull,
     PreferencesFail, CommentAnswer, CountCreated, UpdateFind, DeleteFind, CountDeleted,
     HandlerFails

LEMMA TypedStep == StoryTyped /\ ClearingWritten /\ [Next]_vars => StoryTyped'
  <1> SUFFICES ASSUME StoryTyped, ClearingWritten, [Next]_vars PROVE StoryTyped'
    OBVIOUS
  <1>1. ASSUME NEW r \in Requests, StoryStep(r) \/ Rest(r) PROVE StoryTyped'
    <2>1. /\ stage' \in [Requests -> Stages]
          /\ user' \in [Requests -> Users]
          /\ seen' \in [Requests -> Docs]
      BY <1>1, OwnStep DEF StoryTyped
    <2>2. story' \in Docs
      <3>1. CASE Saving(r)
        BY <3>1, LikeSaved, CommentSaved, Created, Updated, Deleted DEF Saving
      <3>2. CASE ~Saving(r)
        BY <1>1, <3>2, NotSaving DEF StoryTyped
      <3> QED
        BY <3>1, <3>2
    <2>3. liked' \in [Users -> BOOLEAN]
      <3>1. UNCHANGED liked \/ \E b \in BOOLEAN : liked' = [liked EXCEPT ![user[r]] = b]
        BY <1>1 DEF StoryStep, Rest, LikeFind, CommentFind, Find, Preferences, Keep,
           Pull, Pulled, PreferencesFail, LikeSave, CommentSave, CommentAnswer, Create,
           CountCreated, UpdateFind, Update, DeleteFind, Delete, CountDeleted,
           HandlerFails
      <3> QED
        BY <3>1 DEF StoryTyped
    <2>4. storiesCount' \in Int
      <3>1. storiesCount' \in {storiesCount, storiesCount + 1, storiesCount - 1}
        BY <1>1 DEF StoryStep, Rest, LikeFind, CommentFind, Find, Preferences, Keep,
           Pull, PreferencesFail, LikeSave, CommentSave, CommentAnswer, Create,
           CountCreated, UpdateFind, Update, DeleteFind, Delete, CountDeleted, CountLess,
           HandlerFails
      <3> QED
        BY <3>1 DEF StoryTyped
    <2>5. trouble' \in Nat
      <3>1. trouble' \in {trouble, trouble + 1}
        BY <1>1 DEF StoryStep, Rest, LikeFind, CommentFind, Find, Preferences, Keep,
           Pull, PreferencesFail, LikeSave, CommentSave, CommentAnswer, Create,
           CountCreated, UpdateFind, Update, DeleteFind, Delete, CountDeleted,
           HandlerFails, Trouble
      <3> QED
        BY <3>1 DEF StoryTyped
    <2> QED
      BY <2>1, <2>2, <2>3, <2>4, <2>5 DEF StoryTyped
  <1>2. CASE LoneTrouble
    BY <1>2 DEF StoryTyped, LoneTrouble, Trouble
  <1>3. CASE UNCHANGED storyVars
    BY <1>3 DEF StoryTyped, storyVars
  <1> QED
    BY <1>1, <1>2, <1>3, StoryNext

-----------------------------------------------------------------------------
(* Every step keeps the invariant.                                         *)

LEMMA UntouchedStep ==
    StoryTyped /\ Untouched /\ ClearingWritten /\ [Next]_vars => Untouched'
  <1> SUFFICES ASSUME StoryTyped, Untouched, ClearingWritten, [Next]_vars,
                      story'.status = "none"
               PROVE  /\ storiesCount' = 0
                      /\ \A u \in Users : ~liked'[u]
                      /\ \A r \in Requests : stage'[r] = "idle"
    BY DEF Untouched
  <1>1. ASSUME NEW r \in Requests, StoryStep(r) \/ Rest(r) PROVE FALSE
    <2>1. CASE Saving(r)
      <3>1. /\ story'.status = "none" => story.status = "none"
        BY <2>1, LikeSaved, CommentSaved, Created, Updated, Deleted DEF Saving
      <3>2. \A q \in Requests : stage[q] = "idle"
        BY <3>1 DEF Untouched
      <3>3. \E status \in {"draft", "published"} : Create(r, status)
        BY <2>1, <3>2 DEF Saving, LikeSave, CommentSave, Delete, Update
      <3> QED
        BY <3>3, Created
    <2>2. CASE ~Saving(r)
      <3>1. story.status = "none"
        BY <1>1, <2>2, NotSaving
      <3>2. stage[r] = "idle" /\ ~Exists
        BY <3>1 DEF Untouched, Exists
      <3> QED
        BY <1>1, <2>2, <3>2 DEF StoryStep, Rest, Saving, LikeFind, CommentFind, Find,
           Preferences, Keep, Pull, PreferencesFail, CommentAnswer, CountCreated,
           UpdateFind, DeleteFind, CountDeleted, HandlerFails
    <2> QED
      BY <2>1, <2>2
  <1>2. CASE UNCHANGED <<story, liked, storiesCount, stage>>
    BY <1>2 DEF Untouched
  <1> QED
    BY <1>1, <1>2, StoryNext DEF LoneTrouble, storyVars

\* The counts follow the arrays when the copy a handler saves is up to date.
LEMMA CountsStep ==
    StoryTyped /\ CountsAgree /\ ClearingWritten /\ [Next]_vars => CountsAgree'
  <1> SUFFICES ASSUME StoryTyped, CountsAgree, ClearingWritten, [Next]_vars
               PROVE  CountsAgree'
    OBVIOUS
  <1>1. ASSUME NEW r \in Requests, LikeSave(r) PROVE CountsAgree'
    <2>1. ASSUME "likes" \notin clobbered'
          PROVE  story'.likesCount = Len(story'.likes) /\ IsInjective(story'.likes)
      <3>1. "likes" \notin clobbered /\ story.likes = seen[r].likes
        BY <1>1, <2>1 DEF LikeSave
      <3>2. IsInjective(seen[r].likes) /\ seen[r].likes \in Seq(Users)
            /\ user[r] \in Users
        BY <3>1 DEF CountsAgree, StoryTyped, Docs
      <3>3. IsInjective(Toggled(r))
        BY <3>2, RemoveFirstProperties, PushProperties DEF Toggled
      <3>4. SavedLikes(r) = Toggled(r)
        BY <3>1 DEF SavedLikes, Toggled
      <3> QED
        BY <1>1, <3>3, <3>4, LikeSaved DEF LikesCount
    <2>2. ASSUME "comments" \notin clobbered'
          PROVE  story'.commentsCount = story'.comments
      BY <1>1, <2>2, LikeSaved DEF LikeSave, CountsAgree
    <2> QED
      BY <2>1, <2>2 DEF CountsAgree
  <1>2. ASSUME NEW r \in Requests, CommentSave(r) PROVE CountsAgree'
    <2>1. ASSUME "comments" \notin clobbered'
          PROVE  story'.commentsCount = story'.comments
      BY <1>2, <2>1, CommentSaved DEF CommentSave
    <2>2. "likes" \notin clobbered' => "likes" \notin clobbered
      BY <1>2 DEF CommentSave
    <2> QED
      BY <1>2, <2>1, <2>2, CommentSaved DEF CountsAgree
  <1>3. ASSUME NEW r \in Requests, NEW status \in {"draft", "published"},
               Create(r, status) \/ Delete(r)
        PROVE  CountsAgree'
    BY <1>3, Created, Deleted, EmptyLikes DEF CountsAgree
  <1>4. ASSUME NEW r \in Requests, NEW status \in {"draft", "published"},
               Update(r, status)
        PROVE  CountsAgree'
    BY <1>4, Updated DEF CountsAgree, Update
  <1>5. CASE UNCHANGED <<story, clobbered>>
    BY <1>5 DEF CountsAgree
  <1> QED
    BY <1>1, <1>2, <1>3, <1>4, <1>5, StoryNext, NotSaving
    DEF Saving, LoneTrouble, storyVars

\* A step that takes a request that toggles no like to a stage where it does not
\* either, and leaves likes and lists alone.
LEMMA LikedFrame ==
    ASSUME StoryTyped, LikedInv, NEW r \in Requests, NEW x,
           stage' = [stage EXCEPT ![r] = x], stage[r] \notin Liking, x \notin Liking,
           \A q \in Requests \ {r} : user'[q] = user[q] /\ seen'[q] = seen[q],
           UNCHANGED liked, story'.likes = story.likes, Clean' => Clean
    PROVE  LikedInv'
  <1>1. \A q \in Requests : /\ stage'[q] \in Liking <=> stage[q] \in Liking
                            /\ stage[q] \in Liking => q # r /\ stage'[q] = stage[q]
    BY DEF StoryTyped
  <1>2. TogglesWhatItRead'
    BY <1>1 DEF LikedInv, TogglesWhatItRead, Liking
  <1>3. LikedAsListed'
    <2> SUFFICES ASSUME Clean', NEW u \in Users,
                        \A q \in Requests : stage'[q] \in Liking => user'[q] # u
                 PROVE  liked'[u] <=> Contains(story'.likes, u)
      BY DEF LikedAsListed, Clean
    <2>1. \A q \in Requests : stage[q] \in Liking => user[q] # u
      BY <1>1
    <2> QED
      BY <2>1 DEF LikedInv, LikedAsListed, Clean
  <1>4. ListedBeforeSaved'
    <2> SUFFICES ASSUME Clean', NEW q \in Requests, stage'[q] = "save", ~Rivalled(q)'
                 PROVE  liked'[user'[q]] <=> ~Contains(seen'[q].likes, user'[q])
      BY DEF ListedBeforeSaved
    <2>1. stage[q] = "save" /\ q # r
      BY <1>1 DEF Liking
    <2>2. ~Rivalled(q)
      BY <1>1, <2>1 DEF Rivalled
    <2> QED
      BY <2>1, <2>2 DEF LikedInv, ListedBeforeSaved
  <1> QED
    BY <1>2, <1>3, <1>4 DEF LikedInv

\* A step inside a like's handler that writes the list of its user at most.
LEMMA LikingFrame ==
    ASSUME StoryTyped, LikedInv, NEW r \in Requests, NEW x \in Liking,
           stage[r] \in Liking, stage' = [stage EXCEPT ![r] = x],
           UNCHANGED <<story, user, seen, clobbered, trouble>>,
           \A v \in Users : v # user[r] => liked'[v] = liked[v],
           x = "keep" => ~Contains(seen[r].likes, user[r]),
           x = "save" => (liked'[user[r]] <=> ~Contains(seen[r].likes, user[r])),
           x \in {"keep", "save"}
    PROVE  LikedInv'
  <1>1. \A q \in Requests : /\ stage'[q] \in Liking <=> stage[q] \in Liking
                            /\ q # r => stage'[q] = stage[q]
                            /\ stage'[r] = x
    BY DEF StoryTyped
  <1>2. TogglesWhatItRead'
    BY <1>1 DEF LikedInv, TogglesWhatItRead
  <1>3. LikedAsListed'
    <2> SUFFICES ASSUME Clean', NEW u \in Users,
                        \A q \in Requests : stage'[q] \in Liking => user'[q] # u
                 PROVE  liked'[u] <=> Contains(story'.likes, u)
      BY DEF LikedAsListed, Clean
    <2>1. u # user[r] /\ \A q \in Requests : stage[q] \in Liking => user[q] # u
      BY <1>1
    <2>2. Clean
      BY DEF Clean, Exists
    <2> QED
      BY <2>1, <2>2 DEF LikedInv, LikedAsListed, Clean
  <1>4. ListedBeforeSaved'
    <2> SUFFICES ASSUME Clean', NEW q \in Requests, stage'[q] = "save", ~Rivalled(q)'
                 PROVE  liked'[user[q]] <=> ~Contains(seen[q].likes, user[q])
      BY DEF ListedBeforeSaved
    <2>1. CASE q = r
      BY <1>1, <2>1
    <2>2. CASE q # r
      <3>1. ~Rivalled(q) /\ user[q] # user[r] /\ user[q] \in Users
        BY <1>1, <2>2 DEF Rivalled, StoryTyped
      <3>2. Clean /\ stage[q] = "save"
        BY <1>1, <2>2 DEF Clean, Exists
      <3> QED
        BY <3>1, <3>2 DEF LikedInv, ListedBeforeSaved
    <2> QED
      BY <2>1, <2>2
  <1> QED
    BY <1>2, <1>3, <1>4 DEF LikedInv

\* A save that clobbers nothing brings the likes to what the list already says.
LEMMA LikeSaveStep ==
    ASSUME StoryTyped, CountsAgree, LikedInv, NEW r \in Requests, LikeSave(r)
    PROVE  LikedInv'
  <1> DEFINE w == user[r]
  <1>1. /\ stage[r] = "save" /\ stage' = [stage EXCEPT ![r] = "written"]
        /\ \A q \in Requests \ {r} : user'[q] = user[q] /\ seen'[q] = seen[q]
        /\ UNCHANGED <<liked, trouble>>
        /\ w \in Users /\ seen[r].likes \in Seq(Users)
    BY DEF LikeSave, GoTo, StoryTyped, Docs
  <1>2. \A q \in Requests : /\ stage'[q] \in Liking => stage[q] \in Liking /\ q # r
                            /\ q # r => stage'[q] = stage[q]
    BY <1>1 DEF StoryTyped, Liking
  <1>3. TogglesWhatItRead'
    BY <1>1, <1>2 DEF LikedInv, TogglesWhatItRead, StoryTyped
  <1>4. ASSUME Clean'
        PROVE  /\ Clean /\ ~Rivalled(r)
               /\ liked[w] <=> Contains(story'.likes, w)
               /\ \A v \in Users : v # w =>
                     (Contains(story'.likes, v) <=> Contains(story.likes, v))
    <2>1. /\ clobbered \cap {"likes", "toggles"} = {} /\ ~Rivalled(r)
          /\ story.likes = seen[r].likes
      BY <1>4 DEF LikeSave, Clean
    <2>2. Clean
      BY <1>1, <1>4, <2>1 DEF LikeSave, Clean
    <2>3. liked[w] <=> ~Contains(seen[r].likes, w)
      BY <1>1, <2>1, <2>2 DEF LikedInv, ListedBeforeSaved
    <2>4. IsInjective(seen[r].likes)
      BY <2>1 DEF CountsAgree
    <2>5. story'.likes = SavedLikes(r)
      BY LikeSaved
    <2>6. CASE Contains(seen[r].likes, w)
      <3>1. story'.likes = RemoveFirst(seen[r].likes, w)
        BY <2>5, <2>6 DEF SavedLikes, Toggled
      <3>2. \A v : Contains(story'.likes, v) <=> Contains(seen[r].likes, v) /\ v # w
        BY <1>1, <2>4, <2>6, <3>1, RemoveFirstProperties
      <3> QED
        BY <2>1, <2>2, <2>3, <2>6, <3>2
    <2>7. CASE ~Contains(seen[r].likes, w)
      <3>1. story'.likes = Append(seen[r].likes, w)
        BY <2>1, <2>5, <2>7 DEF SavedLikes
      <3>2. \A v : Contains(story'.likes, v) <=> Contains(seen[r].likes, v) \/ v = w
        BY <1>1, <3>1, PushProperties
      <3> QED
        BY <2>1, <2>2, <2>3, <2>7, <3>2
    <2> QED
      BY <2>6, <2>7
  <1>5. LikedAsListed'
    <2> SUFFICES ASSUME Clean', NEW u \in Users,
                        \A q \in Requests : stage'[q] \in Liking => user'[q] # u
                 PROVE  liked'[u] <=> Contains(story'.likes, u)
      BY DEF LikedAsListed, Clean
    <2>1. CASE u = w
      BY <1>1, <1>4, <2>1
    <2>2. CASE u # w
      <3>1. \A q \in Requests : stage[q] \in Liking => user[q] # u
        BY <1>1, <1>2, <2>2
      <3>2. liked[u] <=> Contains(story.likes, u)
        BY <1>4, <3>1 DEF LikedInv, LikedAsListed, Clean
      <3> QED
        BY <1>1, <1>4, <2>2, <3>2
    <2> QED
      BY <2>1, <2>2
  <1>6. ListedBeforeSaved'
    <2> SUFFICES ASSUME Clean', NEW q \in Requests, stage'[q] = "save", ~Rivalled(q)'
                 PROVE  liked'[user'[q]] <=> ~Contains(seen'[q].likes, user'[q])
      BY DEF ListedBeforeSaved
    <2>1. q # r /\ stage[q] = "save" /\ user'[q] = user[q] /\ seen'[q] = seen[q]
      BY <1>1, <1>2 DEF Liking
    <2>2. user[q] # w
      BY <1>4, <2>1 DEF Rivalled, Liking
    <2>3. ~Rivalled(q)
      <3> SUFFICES ASSUME NEW p \in Requests \ {q}, user[p] = user[q],
                          stage[p] \in Liking
                   PROVE  FALSE
        BY DEF Rivalled
      <3>1. p # r
        BY <2>2
      <3> QED
        BY <1>1, <1>2, <2>1, <3>1 DEF Rivalled
    <2> QED
      BY <1>1, <1>4, <2>1, <2>3 DEF LikedInv, ListedBeforeSaved
  <1> QED
    BY <1>3, <1>5, <1>6 DEF LikedInv

\* A like that is found: the request's user enters those whose list may differ.
LEMMA LikeFindStep ==
    ASSUME StoryTyped, LikedInv, NEW r \in Requests, NEW u \in Users, LikeFind(r, u)
    PROVE  LikedInv'
  <1> DEFINE x == IF Contains(story.likes, u) THEN "pull" ELSE "preferences"
             copy == [Unwritten EXCEPT !.likes = story.likes]
  <1>1. /\ stage[r] = "idle" /\ stage' = [stage EXCEPT ![r] = x]
        /\ user' = [user EXCEPT ![r] = u] /\ seen' = [seen EXCEPT ![r] = copy]
        /\ UNCHANGED <<story, liked, clobbered, trouble>>
    BY DEF LikeFind, Find
  <1>2. copy.likes = story.likes
    BY DEF Unwritten
  <1> HIDE DEF copy
  <1>3. /\ stage'[r] = x /\ user'[r] = u /\ seen'[r].likes = story.likes
        /\ \A q \in Requests \ {r} : /\ stage'[q] = stage[q] /\ user'[q] = user[q]
                                     /\ seen'[q] = seen[q]
    BY <1>1, <1>2 DEF StoryTyped
  <1>4. TogglesWhatItRead'
    BY <1>3 DEF LikedInv, TogglesWhatItRead
  <1>5. Clean' => Clean
    BY <1>1 DEF Clean, Exists
  <1>6. LikedAsListed'
    <2> SUFFICES ASSUME Clean', NEW v \in Users,
                        \A q \in Requests : stage'[q] \in Liking => user'[q] # v
                 PROVE  liked'[v] <=> Contains(story'.likes, v)
      BY DEF LikedAsListed, Clean
    <2>1. \A q \in Requests : stage[q] \in Liking => user[q] # v
      BY <1>1, <1>3 DEF Liking
    <2> QED
      BY <1>1, <1>5, <2>1 DEF LikedInv, LikedAsListed, Clean
  <1>7. ListedBeforeSaved'
    <2> SUFFICES ASSUME Clean', NEW q \in Requests, stage'[q] = "save", ~Rivalled(q)'
                 PROVE  liked'[user'[q]] <=> ~Contains(seen'[q].likes, user'[q])
      BY DEF ListedBeforeSaved
    <2>1. q # r
      BY <1>3
    <2>2. ~Rivalled(q) /\ stage[q] = "save"
      BY <1>1, <1>3, <2>1 DEF Rivalled, Liking
    <2> QED
      BY <1>1, <1>3, <1>5, <2>1, <2>2 DEF LikedInv, ListedBeforeSaved
  <1> QED
    BY <1>4, <1>6, <1>7 DEF LikedInv

LEMMA LikedStep ==
    ASSUME StoryTyped, StoryTyped', Untouched, CountsAgree, LikedInv,
           ClearingWritten, [Next]_vars
    PROVE  LikedInv'
  \* What every step but a creation does to the premise.
  <1>0. ASSUME NEW r \in Requests, StoryStep(r) \/ Rest(r),
               \A status \in {"draft", "published"} : ~Create(r, status), Clean'
        PROVE  Clean
    <2>1. trouble' = 0 => trouble = 0
      <3>1. UNCHANGED trouble \/ Trouble
        BY <1>0 DEF StoryStep, Rest, LikeFind, CommentFind, Find, Preferences, Keep,
           Pull, PreferencesFail, LikeSave, CommentSave, CommentAnswer, CountCreated,
           UpdateFind, Update, DeleteFind, Delete, CountDeleted, HandlerFails
      <3> QED
        BY <3>1 DEF Trouble, StoryTyped
    <2>2. clobbered \subseteq clobbered'
      BY <1>0, NotSaving DEF Saving, LikeSave, CommentSave, Update, Delete
    <2>3. Exists' => Exists
      BY <1>0, NotSaving, LikeSaved, CommentSaved, Updated, Deleted
      DEF Saving, Exists
    <2> QED
      BY <1>0, <2>1, <2>2, <2>3 DEF Clean
  <1>1. ASSUME NEW r \in Requests, NEW u \in Users, LikeFind(r, u) PROVE LikedInv'
    BY <1>1, LikeFindStep
  <1>2. ASSUME NEW r \in Requests, Preferences(r) PROVE LikedInv'
    <2> DEFINE x == IF liked[user[r]] THEN "save" ELSE "keep"
    <2>1. /\ stage[r] = "preferences" /\ stage' = [stage EXCEPT ![r] = x]
          /\ UNCHANGED <<story, liked, user, seen, clobbered, trouble>>
      BY <1>2 DEF Preferences, GoTo
    <2>2. ~Contains(seen[r].likes, user[r])
      BY <2>1 DEF LikedInv, TogglesWhatItRead
    <2>3. x \in Liking /\ stage[r] \in Liking
      BY <2>1 DEF Liking
    <2>4. x \in {"keep", "save"} /\ (x = "save" => liked[user[r]])
      OBVIOUS
    <2> HIDE DEF x
    <2> QED
      BY <2>1, <2>2, <2>3, <2>4, LikingFrame
  <1>3. ASSUME NEW r \in Requests, Keep(r) PROVE LikedInv'
    <2>1. /\ stage[r] = "keep" /\ stage' = [stage EXCEPT ![r] = "save"]
          /\ liked' = [liked EXCEPT ![user[r]] = TRUE]
          /\ UNCHANGED <<story, user, seen, clobbered, trouble>>
      BY <1>3 DEF Keep, GoTo
    <2>2. ~Contains(seen[r].likes, user[r])
      BY <2>1 DEF LikedInv, TogglesWhatItRead
    <2>3. "save" \in Liking /\ stage[r] \in Liking
      BY <2>1 DEF Liking
    <2>4. liked'[user[r]] /\ \A v \in Users : v # user[r] => liked'[v] = liked[v]
      BY <2>1 DEF StoryTyped
    <2> QED
      BY <2>1, <2>2, <2>3, <2>4, LikingFrame
  <1>4. ASSUME NEW r \in Requests, Pull(r) PROVE LikedInv'
    <2>1. /\ stage[r] = "pull" /\ stage' = [stage EXCEPT ![r] = "save"]
          /\ liked' = [liked EXCEPT ![user[r]] = FALSE]
          /\ UNCHANGED <<story, user, seen, clobbered, trouble>>
      BY <1>4 DEF Pull, Pulled, GoTo
    <2>2. Contains(seen[r].likes, user[r])
      BY <2>1 DEF LikedInv, TogglesWhatItRead
    <2>3. "save" \in Liking /\ stage[r] \in Liking
      BY <2>1 DEF Liking
    <2>4. ~liked'[user[r]] /\ \A v \in Users : v # user[r] => liked'[v] = liked[v]
      BY <2>1 DEF StoryTyped
    <2> QED
      BY <2>1, <2>2, <2>3, <2>4, LikingFrame
  \* A failure ends the premise: no more is to be shown than what was read.
  <1>5. ASSUME NEW r \in Requests, PreferencesFail(r) \/ (stage[r] = "save" /\ HandlerFails(r))
        PROVE  LikedInv'
    <2>1. ~Clean'
      BY <1>5 DEF PreferencesFail, HandlerFails, Trouble, Clean, Exists, StoryTyped
    <2>2. /\ stage'[r] \in {"save", "idle"}
          /\ \A q \in Requests \ {r} : /\ stage'[q] = stage[q] /\ user'[q] = user[q]
                                       /\ seen'[q] = seen[q]
      BY <1>5 DEF PreferencesFail, HandlerFails, GoTo, StoryTyped
    <2>3. TogglesWhatItRead'
      BY <2>2 DEF LikedInv, TogglesWhatItRead
    <2> QED
      BY <2>1, <2>3 DEF LikedInv, LikedAsListed, ListedBeforeSaved, Clean
  <1>6. ASSUME NEW r \in Requests, LikeSave(r) PROVE LikedInv'
    BY <1>6, LikeSaveStep
  <1>7. ASSUME NEW r \in Requests, NEW status \in {"draft", "published"},
               Create(r, status)
        PROVE  LikedInv'
    <2>1. /\ \A u \in Users : ~liked'[u]
          /\ \A q \in Requests : stage[q] = "idle"
      BY <1>7 DEF Create, Untouched
    <2>2. \A q \in Requests : stage'[q] \notin Liking
      <3>1. \E x \in {"create", "written"} : stage' = [stage EXCEPT ![r] = x]
        BY <1>7 DEF Create
      <3> QED
        BY <2>1, <3>1 DEF StoryTyped, Liking
    <2>3. \A x : ~Contains(story'.likes, x)
      BY <1>7, Created, EmptyLikes
    <2> QED
      BY <2>1, <2>2, <2>3
      DEF LikedInv, TogglesWhatItRead, LikedAsListed, ListedBeforeSaved, Liking
  \* All the rest toggles no like.
  <1>8. ASSUME NEW r \in Requests, UNCHANGED liked,
               \A status \in {"draft", "published"} : ~Create(r, status),
               StoryStep(r) \/ Rest(r), stage[r] \notin Liking, stage'[r] \notin Liking,
               story'.likes = story.likes \/ ~Exists'
        PROVE  LikedInv'
    <2>1. /\ \E x : stage' = [stage EXCEPT ![r] = x] /\ x = stage'[r]
          /\ \A q \in Requests \ {r} : user'[q] = user[q] /\ seen'[q] = seen[q]
      BY <1>8, OwnStep DEF StoryTyped
    <2>2. Clean' => Clean
      BY <1>0, <1>8
    <2>3. CASE story'.likes = story.likes
      BY <1>8, <2>1, <2>2, <2>3, LikedFrame
    <2>4. CASE ~Exists'
      <3>1. \A q \in Requests \ {r} : stage'[q] = stage[q]
        BY <2>1 DEF StoryTyped
      <3>2. TogglesWhatItRead'
        BY <1>8, <2>1, <3>1 DEF LikedInv, TogglesWhatItRead, Liking
      <3> QED
        BY <2>4, <3>2 DEF LikedInv, LikedAsListed, ListedBeforeSaved, Clean
    <2> QED
      BY <1>8, <2>3, <2>4
  <1>9. ASSUME NEW r \in Requests, NEW u \in Users,
               CommentFind(r, u) \/ UpdateFind(r) \/ DeleteFind(r)
        PROVE  LikedInv'
    <2>1. StoryStep(r) /\ UNCHANGED <<liked, story>> /\ stage[r] = "idle"
          /\ stage'[r] \in {"comment", "update", "delete"}
      BY <1>9 DEF StoryStep, CommentFind, UpdateFind, DeleteFind, Find, StoryTyped
    <2> QED
      BY <1>8, <1>9, <2>1 DEF Liking, Create, CommentFind, UpdateFind, DeleteFind, Find,
         Exists
  <1>10. ASSUME NEW r \in Requests,
                \/ CommentSave(r) \/ CommentAnswer(r) \/ CountCreated(r) \/ Delete(r)
                \/ CountDeleted(r) \/ (stage[r] # "save" /\ HandlerFails(r)) \/ Rest(r)
                \/ \E status \in {"draft", "published"} : Update(r, status)
         PROVE  LikedInv'
    <2>1. /\ StoryStep(r) \/ Rest(r)
          /\ UNCHANGED liked /\ stage[r] \notin Liking \cup {"idle"}
          /\ stage'[r] \notin Liking
      BY <1>10 DEF StoryStep, CommentSave, CommentAnswer, CountCreated, Delete,
         CountDeleted, HandlerFails, Rest, Update, GoTo, StoryTyped, Liking, Stages
    <2>2. story'.likes = story.likes \/ ~Exists'
      BY <1>10, CommentSaved, Deleted, Updated DEF Exists, CommentAnswer, CountCreated,
         CountDeleted, HandlerFails, Rest
    <2> QED
      BY <1>8, <2>1, <2>2 DEF Create
  <1>11. CASE LoneTrouble
    <2>1. ~Clean'
      BY <1>11 DEF LoneTrouble, Trouble, Clean, StoryTyped
    <2>2. UNCHANGED <<stage, user, seen>>
      BY <1>11 DEF LoneTrouble
    <2> QED
      BY <2>1, <2>2 DEF LikedInv, TogglesWhatItRead, LikedAsListed, ListedBeforeSaved,
         Clean
  <1>12. CASE UNCHANGED storyVars
    BY <1>12 DEF storyVars, LikedInv, TogglesWhatItRead, LikedAsListed,
       ListedBeforeSaved, Clean, Exists, Rivalled
  <1>13. ASSUME NEW r \in Requests, StoryStep(r) PROVE LikedInv'
    BY <1>1, <1>2, <1>3, <1>4, <1>5, <1>6, <1>7, <1>9, <1>10, <1>13,
       AuthorAssumption DEF StoryStep
  <1> QED
    BY <1>10, <1>11, <1>12, <1>13, StoryNext

\* A request that is neither creating nor deleting, before or after, and leaves the
\* count and the status alone.
LEMMA CountedFrame ==
    ASSUME StoryTyped, StoryTyped', CountedInv, NEW r \in Requests,
           NEW x \in Stages \ {"create", "count"},
           stage' = [stage EXCEPT ![r] = x], stage[r] \notin {"create", "count"},
           UNCHANGED <<storiesCount>>, ~uncounted' => ~uncounted,
           ~uncounted' => story'.status = story.status,
           \A q \in Requests \ {r} : seen'[q] = seen[q],
           x = "delete" => seen'[r].status = story.status
    PROVE  CountedInv'
  <1>1. \A q \in Requests : /\ stage'[q] = "create" <=> stage[q] = "create"
                            /\ stage'[q] = "count" <=> stage[q] = "count"
                            /\ stage'[q] = "delete" /\ q # r => stage[q] = "delete"
                            /\ q # r => stage'[q] = stage[q]
                            /\ stage'[r] = x
    BY DEF StoryTyped
  <1>2. /\ Pending("create")' <=> Pending("create")
        /\ Pending("count")' <=> Pending("count")
    BY <1>1 DEF Pending
  <1>3. ASSUME ~uncounted', NEW q \in Requests, stage'[q] = "delete", Exists'
        PROVE  seen'[q].status = story'.status
    <2>1. ~uncounted /\ Exists /\ story'.status = story.status
      BY <1>3 DEF Exists
    <2>2. CASE q = r
      BY <1>1, <1>3, <2>1, <2>2
    <2>3. CASE q # r
      BY <1>1, <1>3, <2>1, <2>3 DEF CountedInv
    <2> QED
      BY <2>2, <2>3
  <1>4. ASSUME ~uncounted'
        PROVE  storiesCount' = One(story'.status = "published")
                                  - One(Pending("create")') + One(Pending("count")')
    <2>1. ~uncounted /\ story'.status = story.status
      BY <1>4
    <2>2. One(Pending("create")') = One(Pending("create"))
          /\ One(Pending("count")') = One(Pending("count"))
      BY <1>2 DEF One
    <2> QED
      BY <2>1, <2>2 DEF CountedInv
  <1> QED
    BY <1>1, <1>2, <1>3, <1>4 DEF CountedInv

LEMMA CreateCounted ==
    ASSUME StoryTyped, Untouched, NEW r \in Requests,
           NEW status \in {"draft", "published"}, Create(r, status)
    PROVE  CountedInv'
  <1> DEFINE x == IF status = "published" THEN "create" ELSE "written"
  <1>1. /\ \A q \in Requests : stage[q] = "idle"
        /\ storiesCount' = 0 /\ stage' = [stage EXCEPT ![r] = x]
    BY DEF Create, Untouched
  <1>2. \A q \in Requests : stage'[q] = IF q = r THEN x ELSE "idle"
    BY <1>1 DEF StoryTyped
  <1>3. Pending("create")' <=> status = "published"
    BY <1>2 DEF Pending
  <1>4. ~Pending("count")'
    BY <1>2 DEF Pending
  <1>5. story'.status = status
    BY Created
  <1>6. 0 = One(story'.status = "published") - One(Pending("create")')
              + One(Pending("count")')
    BY <1>3, <1>4, <1>5 DEF One
  <1>7. \A q, p \in Requests : /\ stage'[q] = "create" /\ stage'[p] = "create" => q = p
                               /\ stage'[q] # "count" /\ stage'[q] # "delete"
    BY <1>2
  <1> QED
    BY <1>1, <1>4, <1>6, <1>7 DEF CountedInv

LEMMA CountCreatedCounted ==
    ASSUME StoryTyped, CountedInv, NEW r \in Requests, CountCreated(r)
    PROVE  CountedInv'
  <1>1. /\ stage[r] = "create" /\ stage' = [stage EXCEPT ![r] = "written"]
        /\ storiesCount' = storiesCount + 1 /\ UNCHANGED <<story, uncounted>>
        /\ \A q \in Requests \ {r} : seen'[q] = seen[q]
        /\ storiesCount \in Int
    BY DEF CountCreated, GoTo, StoryTyped
  <1>2. \A q \in Requests : stage'[q] = IF q = r THEN "written" ELSE stage[q]
    BY <1>1 DEF StoryTyped
  <1>3. Pending("create") /\ ~Pending("create")' /\ (Pending("count")' <=> Pending("count"))
    BY <1>1, <1>2 DEF Pending, CountedInv
  <1>4. /\ One(Pending("create")) = 1 /\ One(Pending("create")') = 0
        /\ One(Pending("count")') = One(Pending("count"))
        /\ \A b : One(b) \in Int
    BY <1>3 DEF One
  <1>5. ~uncounted => storiesCount' = One(story.status = "published")
                         - One(Pending("create")') + One(Pending("count")')
    BY <1>1, <1>4 DEF CountedInv
  <1> QED
    BY <1>1, <1>2, <1>3, <1>5 DEF CountedInv, Exists

LEMMA CountDeletedCounted ==
    ASSUME StoryTyped, CountedInv, NEW r \in Requests, CountDeleted(r)
    PROVE  CountedInv'
  <1>1. /\ stage[r] = "count" /\ stage' = [stage EXCEPT ![r] = "written"]
        /\ storiesCount' = storiesCount - 1 /\ UNCHANGED <<story, uncounted>>
        /\ \A q \in Requests \ {r} : seen'[q] = seen[q]
        /\ storiesCount \in Int
    BY DEF CountDeleted, CountLess, GoTo, StoryTyped
  <1>2. \A q \in Requests : stage'[q] = IF q = r THEN "written" ELSE stage[q]
    BY <1>1 DEF StoryTyped
  <1>3. ASSUME ~uncounted
        PROVE  /\ Pending("count") /\ ~Pending("count")'
               /\ (Pending("create")' <=> Pending("create"))
    BY <1>1, <1>2, <1>3 DEF Pending, CountedInv
  <1>4. ASSUME ~uncounted
        PROVE  storiesCount' = One(story.status = "published")
                                 - One(Pending("create")') + One(Pending("count")')
    <2>1. /\ One(Pending("count")) = 1 /\ One(Pending("count")') = 0
          /\ One(Pending("create")') = One(Pending("create"))
          /\ \A b : One(b) \in Int
      BY <1>3, <1>4 DEF One
    <2> QED
      BY <1>1, <1>4, <2>1 DEF CountedInv
  <1> QED
    BY <1>1, <1>2, <1>3, <1>4 DEF CountedInv, Exists

LEMMA DeleteCounted ==
    ASSUME StoryTyped, CountedInv, NEW r \in Requests, Delete(r)
    PROVE  CountedInv'
  <1> DEFINE x == IF seen[r].status = "published" THEN "count" ELSE "written"
  <1>1. /\ stage[r] = "delete" /\ stage' = [stage EXCEPT ![r] = x]
        /\ UNCHANGED storiesCount /\ story'.status = "deleted"
        /\ ~uncounted' => ~uncounted /\ Exists
        /\ storiesCount \in Int
    BY Deleted DEF Delete, GoTo, StoryTyped
  <1>2. \A q \in Requests : stage'[q] = IF q = r THEN x ELSE stage[q]
    BY <1>1 DEF StoryTyped
  <1>3. Pending("create")' <=> Pending("create")
    BY <1>1, <1>2 DEF Pending
  <1>4. ASSUME ~uncounted'
        PROVE  /\ \A q \in Requests : stage[q] # "count"
               /\ seen[r].status = story.status
               /\ storiesCount = One(story.status = "published")
                                   - One(Pending("create")) + One(Pending("count"))
    BY <1>1, <1>4 DEF CountedInv, Pending, Exists
  <1>5. ASSUME ~uncounted'
        PROVE  /\ \A q, p \in Requests : stage'[q] = "count" /\ stage'[p] = "count" => q = p
               /\ Pending("count")' <=> story.status = "published"
               /\ ~Pending("count")
    BY <1>2, <1>4, <1>5 DEF Pending
  <1>6. ASSUME ~uncounted'
        PROVE  storiesCount' = One(story'.status = "published")
                                  - One(Pending("create")') + One(Pending("count")')
    <2>1. /\ One(story'.status = "published") = 0 /\ One(Pending("count")) = 0
          /\ One(Pending("create")') = One(Pending("create"))
          /\ One(Pending("count")') = One(story.status = "published")
          /\ \A b : One(b) \in Int
      BY <1>1, <1>3, <1>5, <1>6 DEF One
    <2> QED
      BY <1>1, <1>4, <1>6, <2>1
  <1>7. \A q, p \in Requests : stage'[q] = "create" /\ stage'[p] = "create" => q = p
    BY <1>2 DEF CountedInv
  <1>8. ~Exists'
    BY <1>1 DEF Exists
  <1> QED
    BY <1>1, <1>5, <1>6, <1>7, <1>8 DEF CountedInv

LEMMA CountedStep ==
    ASSUME StoryTyped, StoryTyped', Untouched, CountedInv, ClearingWritten, [Next]_vars
    PROVE  CountedInv'
  <1>1. ASSUME NEW r \in Requests, StoryStep(r) \/ Rest(r),
               stage[r] \notin {"create", "count"},
               \A status \in {"draft", "published"} : ~Create(r, status), ~Delete(r)
        PROVE  CountedInv'
    <2>1. /\ \E x \in Stages : stage' = [stage EXCEPT ![r] = x] /\ x = stage'[r]
          /\ \A q \in Requests \ {r} : seen'[q] = seen[q]
      BY <1>1, OwnStep DEF StoryTyped
    <2>2. UNCHANGED storiesCount
      <3>1. ~CountCreated(r) /\ ~CountDeleted(r)
        BY <1>1 DEF CountCreated, CountDeleted
      <3> QED
        BY <1>1, <3>1 DEF StoryStep, Rest, LikeFind, CommentFind, Find, Preferences, Keep,
           Pull, PreferencesFail, LikeSave, CommentSave, CommentAnswer, UpdateFind,
           Update, DeleteFind, HandlerFails
    <2>5. ~uncounted' => ~uncounted
      <3>1. CASE HandlerFails(r) \/ \E status \in {"draft", "published"} : Update(r, status)
        BY <3>1 DEF HandlerFails, Update
      <3>2. CASE ~(HandlerFails(r) \/ \E status \in {"draft", "published"} : Update(r, status))
        <4>1. UNCHANGED uncounted
          BY <1>1, <3>2 DEF StoryStep, Rest, LikeFind, CommentFind, Find, Preferences,
             Keep, Pull, PreferencesFail, LikeSave, CommentSave, CommentAnswer,
             CountCreated, UpdateFind, DeleteFind, CountDeleted
        <4> QED
          BY <4>1
      <3> QED
        BY <3>1, <3>2
    <2>3. ~uncounted' => story'.status = story.status
      BY <1>1, NotSaving, LikeSaved, CommentSaved DEF Saving, Update
    <2>4. /\ stage'[r] \notin {"create", "count"}
          /\ stage'[r] = "delete" => seen'[r].status = story.status
      <3>1. CASE DeleteFind(r)
        <4>1. seen'[r] = [Unwritten EXCEPT !.status = story.status]
              /\ stage'[r] = "delete"
          BY <3>1 DEF DeleteFind, Find, StoryTyped
        <4> QED
          BY <4>1 DEF Unwritten
      <3>2. CASE ~DeleteFind(r)
        BY <1>1, <3>2 DEF StoryStep, Rest, LikeFind, CommentFind, Find, Preferences,
           Keep, Pull, PreferencesFail, LikeSave, CommentSave, CommentAnswer,
           CountCreated, UpdateFind, Update, CountDeleted, HandlerFails, GoTo, StoryTyped
      <3> QED
        BY <3>1, <3>2
    <2> QED
      BY <1>1, <2>1, <2>2, <2>3, <2>4, <2>5, CountedFrame
  <1>2. ASSUME NEW r \in Requests, StoryStep(r) \/ Rest(r),
               stage[r] \in {"create", "count"}, ~CountCreated(r), ~CountDeleted(r)
        PROVE  CountedInv'
    <2>1. HandlerFails(r)
      BY <1>2 DEF StoryStep, Rest, LikeFind, CommentFind, Find, Preferences, Keep, Pull,
         PreferencesFail, LikeSave, CommentSave, CommentAnswer, Create, UpdateFind,
         Update, DeleteFind, Delete
    <2>2. uncounted' /\ stage' = [stage EXCEPT ![r] = "idle"]
      BY <1>2, <2>1 DEF HandlerFails, GoTo
    <2>3. \A q \in Requests : stage'[q] = IF q = r THEN "idle" ELSE stage[q]
      BY <2>2 DEF StoryTyped
    <2> QED
      BY <2>2, <2>3 DEF CountedInv
  <1>3. ASSUME NEW r \in Requests, StoryStep(r) \/ Rest(r) PROVE CountedInv'
    <2>1. CASE \/ CountCreated(r) \/ CountDeleted(r) \/ Delete(r)
               \/ \E status \in {"draft", "published"} : Create(r, status)
      BY <2>1, CreateCounted, CountCreatedCounted, CountDeletedCounted, DeleteCounted
    <2> QED
      BY <1>1, <1>2, <1>3, <2>1
  <1>4. CASE UNCHANGED <<story, storiesCount, stage, seen, uncounted>>
    <2>1. /\ Pending("create")' <=> Pending("create")
          /\ Pending("count")' <=> Pending("count")
      BY <1>4 DEF Pending
    <2>2. /\ One(Pending("create"))' = One(Pending("create"))
          /\ One(Pending("count"))' = One(Pending("count"))
          /\ One(story.status = "published")' = One(story.status = "published")
      BY <1>4, <2>1 DEF One
    <2> QED
      BY <1>4, <2>1, <2>2 DEF CountedInv, Exists
  <1> QED
    BY <1>3, <1>4, StoryNext DEF LoneTrouble, storyVars

LEMMA ClearingStep == StoryTyped /\ ClearingWritten /\ [Next]_vars => ClearingWritten'
  <1> SUFFICES ASSUME StoryTyped, ClearingWritten, [Next]_vars PROVE ClearingWritten'
    OBVIOUS
  <1>1. ASSUME NEW r \in Requests, Handle(r) PROVE ClearingWritten'
    <2>1. stage[r] # "written" /\ UNCHANGED clearing
      <3>1. StoryStep(r) /\ UNCHANGED clearing
        BY <1>1 DEF Handle
      <3> QED
        BY <3>1 DEF StoryStep, LikeFind, CommentFind, Find, Preferences, Keep, Pull,
           PreferencesFail, LikeSave, CommentSave, CommentAnswer, Create, CountCreated,
           UpdateFind, Update, DeleteFind, Delete, CountDeleted, HandlerFails
    <2>2. \E x : stage' = [stage EXCEPT ![r] = x]
      BY <1>1, OwnStep DEF Handle
    <2> QED
      BY <2>1, <2>2 DEF ClearingWritten, StoryTyped
  <1>2. ASSUME NEW r \in Requests, Scan(r) \/ Clear(r) \/ ClearNothing(r)
        PROVE  ClearingWritten'
    BY <1>2 DEF Scan, Clear, ClearNothing, GoTo, ClearingWritten, StoryTyped, storyVars
  <1>3. CASE UNCHANGED <<stage, clearing>>
    BY <1>3 DEF ClearingWritten
  <1>4. ASSUME NEW g \in Readers, NEW u, Miss(g, u) \/ ReadStory(g) \/ Fill(g)
        PROVE  UNCHANGED <<stage, clearing>>
    BY <1>4 DEF Miss, ReadStory, Fill, storyVars
  <1>5. CASE Expire \/ LoseRedis \/ RegainRedis
    BY <1>3, <1>5 DEF Expire, LoseRedis, RegainRedis, storyVars
  <1>6. CASE UNCHANGED vars
    BY <1>3, <1>6 DEF vars, storyVars, cacheVars
  <1> QED
    BY <1>1, <1>2, <1>3, <1>4, <1>5, <1>6 DEF Next

-----------------------------------------------------------------------------
(* The cache.                                                              *)

Quiet(s) == \A r \in Requests : s[r] \notin {"populate", "count", "written"}

LEMMA PageTypes ==
    ASSUME StoryTyped
    PROVE  PageOf(story) \in Pages /\ NoPage \in Pages
  BY DocTypes DEF StoryTyped, Docs, Pages, PageOf, NoPage

\* No step undoes the creation of the story, and only its creation creates it.
LEMMA Begun ==
    ASSUME StoryTyped, Untouched, NEW r \in Requests, StoryStep(r) \/ Rest(r)
    PROVE  story'.status # "none"
  <1> SUFFICES ASSUME story'.status = "none" PROVE FALSE
    OBVIOUS
  <1>1. CASE Saving(r)
    <2>1. story.status = "none" /\ ~Exists
      BY <1>1, LikeSaved, CommentSaved, Created, Updated, Deleted DEF Saving, Exists
    <2>2. stage[r] = "idle"
      BY <2>1 DEF Untouched
    <2>3. \E status \in {"draft", "published"} : Create(r, status)
      BY <1>1, <2>2 DEF Saving, LikeSave, CommentSave, Delete, Update
    <2> QED
      BY <2>3, Created
  <1>2. CASE ~Saving(r)
    <2>1. story.status = "none"
      BY <1>2, NotSaving
    <2>2. stage[r] = "idle" /\ ~Exists
      BY <2>1 DEF Untouched, Exists
    <2> QED
      BY <1>2, <2>2 DEF StoryStep, Rest, Saving, LikeFind, CommentFind, Find,
         Preferences, Keep, Pull, PreferencesFail, CommentAnswer, CountCreated,
         UpdateFind, DeleteFind, CountDeleted, HandlerFails
  <1> QED
    BY <1>1, <1>2

\* A write that changes the page of a story that is there is yet to be answered, or
\* to clear the cache; one that fails after it has written leaves the page late.
LEMMA HandleFresh ==
    ASSUME StoryTyped, Untouched, CacheInv, NEW r \in Requests, Handle(r)
    PROVE  FreshUnlessLate'
  <1> SUFFICES ASSUME ~late', IsCached', Quiet(stage')
               PROVE  cached' = PageOf(story')
    BY DEF FreshUnlessLate, Quiet, PageOf
  <1>1. /\ StoryStep(r) /\ UNCHANGED cached /\ ~late /\ IsCached
        /\ ~(stage[r] \in {"populate", "count"} /\ stage'[r] = "idle")
    BY DEF Handle, IsCached
  <1>2. /\ stage'[r] \notin {"populate", "count", "written"}
        /\ \A q \in Requests \ {r} : stage'[q] = stage[q]
    BY <1>1, OwnStep DEF Quiet, StoryTyped
  <1>3. ~Saving(r)
    <2>1. story.status # "none"
      BY <1>1 DEF CacheInv
    <2>2. ASSUME LikeSave(r) \/ Delete(r) \/ CommentSave(r) PROVE FALSE
      BY <1>2, <2>2 DEF LikeSave, Delete, CommentSave, GoTo, StoryTyped
    <2>3. ASSUME NEW status, Create(r, status) \/ Update(r, status) PROVE FALSE
      BY <1>2, <2>1, <2>3 DEF Create, Update, GoTo, StoryTyped
    <2> QED
      BY <2>2, <2>3 DEF Saving
  <1>4. UNCHANGED story
    BY <1>1, <1>3, NotSaving
  <1>5. stage[r] \notin {"populate", "count", "written"}
    <2>1. ASSUME stage[r] \in {"populate", "count", "written"}
          PROVE  CommentAnswer(r) \/ CountDeleted(r) \/ HandlerFails(r)
      BY <1>1, <1>3, <2>1 DEF StoryStep, Saving, LikeFind, CommentFind, Find,
         Preferences, Keep, Pull, PreferencesFail, CountCreated, UpdateFind, DeleteFind
    <2>2. ASSUME CommentAnswer(r) \/ CountDeleted(r) PROVE FALSE
      BY <1>2, <2>2 DEF CommentAnswer, CountDeleted, GoTo, StoryTyped
    <2>3. ASSUME HandlerFails(r) PROVE stage'[r] = "idle" /\ stage[r] # "written"
      BY <2>3 DEF HandlerFails, GoTo, StoryTyped
    <2> QED
      BY <1>1, <2>1, <2>2, <2>3
  <1>6. Quiet(stage)
    BY <1>2, <1>5 DEF Quiet
  <1> QED
    BY <1>1, <1>4, <1>6 DEF CacheInv, FreshUnlessLate, Quiet

LEMMA CacheStep ==
    ASSUME StoryTyped, Untouched, ClearingWritten, CacheInv, [Next]_vars
    PROVE  CacheInv'
  <1>1. ASSUME NEW r \in Requests, Handle(r) PROVE CacheInv'
    <2>1. story'.status # "none"
      BY <1>1, Begun DEF Handle
    <2>2. UNCHANGED <<cached, reading, reader, page>>
      BY <1>1 DEF Handle
    <2>3. FreshUnlessLate'
      BY <1>1, HandleFresh
    <2> QED
      BY <2>1, <2>2, <2>3 DEF CacheInv, CachedIsPublic, IsCached
  <1>2. ASSUME NEW r \in Requests, Scan(r) PROVE CacheInv'
    <2>1. UNCHANGED <<story, cached, late, reading, reader, page>>
      BY <1>2 DEF Scan, storyVars
    <2>2. stage[r] = "written" /\ (IsCached => UNCHANGED stage)
      BY <1>2 DEF Scan, Found, storyVars
    <2>3. FreshUnlessLate'
      BY <2>1, <2>2 DEF FreshUnlessLate, IsCached
    <2> QED
      BY <2>1, <2>3 DEF CacheInv, CachedIsPublic, IsCached
  <1>3. ASSUME cached' = NoPage, UNCHANGED <<story, reading, reader, page>>
        PROVE  CacheInv'
    <2>1. ~IsCached'
      BY <1>3 DEF IsCached, NoPage, PageOf, Unwritten
    <2>2. NoPage \in Pages
      BY PageTypes
    <2> QED
      BY <1>3, <2>1, <2>2 DEF CacheInv, CachedIsPublic, FreshUnlessLate
  <1>4. ASSUME NEW r \in Requests, Clear(r) PROVE CacheInv'
    BY <1>3, <1>4 DEF Clear
  <1>5. ASSUME NEW r \in Requests, ClearNothing(r) PROVE CacheInv'
    <2>1. UNCHANGED <<story, cached, reading, reader, page>>
      BY <1>5 DEF ClearNothing
    <2>2. ~late' => ~(IsCached /\ cached # PageOf(story))
      BY <1>5 DEF ClearNothing
    <2>3. FreshUnlessLate'
      BY <2>1, <2>2 DEF FreshUnlessLate, IsCached, PageOf
    <2> QED
      BY <2>1, <2>3 DEF CacheInv, CachedIsPublic, IsCached
  <1>6. ASSUME NEW g \in Readers, NEW u, Miss(g, u) PROVE CacheInv'
    <2>1. /\ u = Anonymous
          /\ reading' = [reading EXCEPT ![g] = "miss"]
          /\ reader' = [reader EXCEPT ![g] = u]
          /\ UNCHANGED <<story, stage, cached, late, page>>
      BY <1>6 DEF Miss, Cacheable, storyVars
    <2>2. /\ reading' \in [Readers -> {"idle", "miss", "fill"}]
          /\ reader' \in [Readers -> {Anonymous}]
          /\ \A h \in Readers : reading'[h] = "fill" => reading[h] = "fill"
      BY <2>1 DEF CacheInv
    <2> QED
      BY <2>1, <2>2 DEF CacheInv, CachedIsPublic, IsCached, FreshUnlessLate
  \* A GET that is over.
  <1>7. ASSUME NEW g \in Readers, Over(g)
        PROVE  /\ reading' \in [Readers -> {"idle", "miss", "fill"}]
               /\ reader' \in [Readers -> {Anonymous}]
               /\ page' \in [Readers -> Pages]
               /\ \A h \in Readers : reading'[h] = "fill" =>
                                        reading[h] = "fill" /\ page'[h] = page[h]
    BY <1>7, PageTypes DEF Over, CacheInv
  <1>8. ASSUME NEW g \in Readers, ReadStory(g) PROVE CacheInv'
    <2>1. UNCHANGED <<story, stage, cached, late>>
      BY <1>8 DEF ReadStory, storyVars
    <2>2. CASE ~MayRead(reader[g])
      BY <1>7, <1>8, <2>1, <2>2
      DEF ReadStory, CacheInv, CachedIsPublic, IsCached, FreshUnlessLate
    <2>3. CASE MayRead(reader[g])
      <3>1. reader[g] = Anonymous
        BY DEF CacheInv
      <3>2. story.status = "published"
        BY <2>3, <3>1, AnonymousAssumption, AuthorAssumption DEF MayRead
      <3>3. /\ reading' = [reading EXCEPT ![g] = "fill"]
            /\ page' = [page EXCEPT ![g] = PageOf(story)]
            /\ UNCHANGED reader
        BY <1>8, <2>3 DEF ReadStory
      <3>4. PageOf(story).status = "published" /\ PageOf(story) \in Pages
        BY <3>2, PageTypes DEF PageOf
      <3> HIDE DEF PageOf
      <3>5. /\ reading' \in [Readers -> {"idle", "miss", "fill"}]
            /\ page' \in [Readers -> Pages]
            /\ \A h \in Readers : reading'[h] = "fill" => page'[h].status = "published"
        BY <3>3, <3>4 DEF CacheInv
      <3> QED
        BY <2>1, <3>2, <3>3, <3>5
        DEF CacheInv, CachedIsPublic, IsCached, FreshUnlessLate, PageOf
    <2> QED
      BY <2>2, <2>3
  <1>9. ASSUME NEW g \in Readers, Fill(g) PROVE CacheInv'
    <2>1. /\ UNCHANGED <<story, stage>> /\ Over(g) /\ reading[g] = "fill"
          /\ \/ UNCHANGED <<cached, late>>
             \/ /\ cached' = page[g]
                /\ late' = /\ page[g] # PageOf(story)
                           /\ \A r \in Requests : stage[r] = "written" => r \in clearing
      BY <1>9 DEF Fill, storyVars
    <2>2. page[g] \in Pages /\ page[g].status = "published" /\ story.status # "none"
      BY <2>1 DEF CacheInv
    <2>3. cached' \in Pages /\ CachedIsPublic'
      BY <2>1, <2>2 DEF CacheInv, CachedIsPublic, IsCached
    <2>4. FreshUnlessLate'
      <3>1. CASE UNCHANGED <<cached, late>>
        BY <2>1, <3>1 DEF CacheInv, FreshUnlessLate, IsCached
      <3>2. CASE ~UNCHANGED <<cached, late>>
        <4> SUFFICES ASSUME ~late', Quiet(stage) PROVE cached' = PageOf(story)
          BY <2>1 DEF FreshUnlessLate, Quiet, PageOf
        <4>1. \A r \in Requests : stage[r] # "written"
          BY DEF Quiet
        <4> QED
          BY <2>1, <3>2, <4>1
      <3> QED
        BY <3>1, <3>2
    <2> QED
      BY <1>7, <2>1, <2>2, <2>3, <2>4 DEF CacheInv
  <1>10. CASE UNCHANGED <<story, stage, cached, late, reading, reader, page>>
    BY <1>10 DEF CacheInv, CachedIsPublic, IsCached, FreshUnlessLate
  <1>11. CASE Expire
    BY <1>3, <1>11 DEF Expire, storyVars
  <1>12. CASE LoseRedis \/ RegainRedis
    BY <1>10, <1>12 DEF LoseRedis, RegainRedis, storyVars
  <1>13. CASE UNCHANGED vars
    BY <1>10, <1>13 DEF vars, storyVars, cacheVars
  <1> QED
    BY <1>1, <1>2, <1>4, <1>5, <1>6, <1>8, <1>9, <1>11, <1>12, <1>13 DEF Next

-----------------------------------------------------------------------------
(* The theorems.                                                           *)

LEMMA InvInit == Init => Inv
  <1> SUFFICES ASSUME Init PROVE Inv
    OBVIOUS
  <1>1. StoryTyped
    <2>1. Unwritten \in Docs
      BY EmptyLikes DEF Unwritten, Docs, Statuses, Dates
    <2> QED
      BY <2>1, AuthorAssumption DEF Init, StoriesInit, StoryTyped, Stages
  <1>2. /\ story.status = "none" /\ story.likes = <<>> /\ story.likesCount = 0
        /\ story.comments = 0 /\ story.commentsCount = 0
    BY DEF Init, StoriesInit, Unwritten
  <1>3. Untouched /\ \A r \in Requests : stage[r] = "idle"
    BY DEF Init, StoriesInit, Untouched
  <1>4. CountsAgree
    BY <1>2, EmptyLikes DEF CountsAgree
  <1>5. LikedInv
    BY <1>2, <1>3 DEF LikedInv, TogglesWhatItRead, LikedAsListed, ListedBeforeSaved,
       Clean, Exists
  <1>6. CountedInv
    <2>1. ~Pending("create") /\ ~Pending("count") /\ storiesCount = 0
      BY <1>2, <1>3 DEF Pending, Untouched
    <2>2. storiesCount = One(story.status = "published") - One(Pending("create"))
                           + One(Pending("count"))
      BY <1>2, <2>1 DEF One
    <2> QED
      BY <1>2, <1>3, <2>1, <2>2 DEF CountedInv
  <1>7. ClearingWritten
    BY DEF Init, ClearingWritten
  <1>8. CacheInv
    <2>1. NoPage \in Pages
      BY <1>1, PageTypes
    <2> QED
      BY <2>1 DEF Init, CacheInv, CachedIsPublic, IsCached, FreshUnlessLate
  <1> QED
    BY <1>1, <1>3, <1>4, <1>5, <1>6, <1>7, <1>8 DEF Inv, StoryInv

LEMMA InvStep == Inv /\ [Next]_vars => Inv'
  BY TypedStep, UntouchedStep, CountsStep, LikedStep, CountedStep, ClearingStep,
     CacheStep DEF Inv, StoryInv

LEMMA InvAlways == Spec => []Inv
  BY InvInit, InvStep, PTL DEF Spec

\* The counts a story carries are those of its likes and comments, and nobody likes
\* it twice, until a save replaces them by those of a copy out of date: Story.save()
\* of a like or a comment, with any number of handlers between their awaits.
THEOREM StoryCountsAgree == Spec => []CountsAgree
  <1>1. Inv => CountsAgree
    BY DEF Inv, StoryInv
  <1> QED
    BY <1>1, InvAlways, PTL

\* A user's list of liked stories has the story exactly when the story has the
\* user's like, once the user's own requests are over: likeStory writes the one and
\* then the other, with any number of other users' requests in between.
THEOREM LikesAsListed == Spec => []LikedAsListed
  <1>1. Inv => LikedAsListed
    BY DEF Inv, StoryInv, LikedInv
  <1> QED
    BY <1>1, InvAlways, PTL

\* The author's count of stories is right once a creation or a deletion has been
\* counted, while no status has changed and no deletion has been repeated: the
\* counting of createStory and deleteStory, a write of its own after the story's.
THEOREM PublishedCounted == Spec => []StoriesCounted
  <1>1. Inv => StoriesCounted
    <2> SUFFICES ASSUME Inv, ~uncounted,
                        \A r \in Requests : stage[r] \notin {"create", "count"}
                 PROVE  storiesCount = One(story.status = "published")
      BY DEF StoriesCounted, One
    <2>1. ~Pending("create") /\ ~Pending("count")
      BY DEF Pending
    <2>2. storiesCount = One(story.status = "published") - One(Pending("create"))
                           + One(Pending("count"))
      BY DEF Inv, StoryInv, CountedInv
    <2> QED
      BY <2>1, <2>2 DEF One
  <1> QED
    BY <1>1, InvAlways, PTL

\* What is in the response cache anybody may read, whoever has read a story that is
\* a draft, and whatever is published or withdrawn while a page is on its way to
\* Redis: evaluateCacheability and getStoryById.
THEOREM OnlyPublicCached == Spec => []CachedIsPublic
  <1>1. Inv => CachedIsPublic
    BY DEF Inv, CacheInv
  <1> QED
    BY <1>1, InvAlways, PTL

\* A cached page is the story's as it is now once every write's invalidation is over,
\* unless it was stored after the invalidation had looked, or the invalidation was
\* lost: cacheMiddleware's fill against the SCAN and the DEL that follow a write.
THEOREM CacheFreshUnlessLate == Spec => []FreshUnlessLate
  <1>1. Inv => FreshUnlessLate
    BY DEF Inv, CacheInv
  <1> QED
    BY <1>1, InvAlways, PTL

=============================================================================
