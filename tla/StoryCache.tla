----------------------------- MODULE StoryCache -----------------------------
(***************************************************************************)
(* The stories' handlers behind the response cache: the anonymous GETs of  *)
(* a story's page that read and fill it (cacheMiddleware in               *)
(* backend/middleware/cache.js, getStoryById in                            *)
(* backend/controllers/storyController.js), and the invalidation that      *)
(* follows every successful write (backend/app.js).                        *)
(*                                                                         *)
(* The middleware looks for the page in Redis and, if it is not there,     *)
(* stores what the handler answers.  Neither that nor the invalidation, a  *)
(* SCAN and then a DEL, is waited for, so they overtake each other.        *)
(*                                                                         *)
(* One page is followed, and of its answer the story and its likes and     *)
(* comments; view counts change without an invalidation and are left out.  *)
(* So are GETs that neither read nor fill the cache.                       *)
(***************************************************************************)
EXTENDS Stories

CONSTANTS
    Readers     \* GETs of the page in flight

VARIABLES
    cached,     \* the page in Redis
    late,       \* history: the invalidations of what is cached have passed it by
    connected,  \* redisConnected
    clearing,   \* requests whose SCAN has found the page
    reading,    \* where each reader's GET is
    reader,     \* who reads
    page        \* what its handler has read

cacheVars == <<cached, late, connected, clearing, reading, reader, page>>
vars == <<storyVars, cacheVars>>

\* A request without credentials, which is no user's.
Anonymous == "anonymous"
ASSUME AnonymousAssumption == Anonymous \notin Users

\* What a reader is answered of a story; NoPage when nothing is cached.
PageOf(s) == [status |-> s.status, likes |-> s.likes, comments |-> s.comments]
NoPage == PageOf(Unwritten)
IsCached == cached # NoPage

Init ==
    /\ StoriesInit
    /\ cached = NoPage
    /\ late = FALSE
    /\ connected = TRUE
    /\ clearing = {}
    /\ reading = [g \in Readers |-> "idle"]
    /\ reader = [g \in Readers |-> Anonymous]
    /\ page = [g \in Readers |-> NoPage]

-----------------------------------------------------------------------------
(* Reading.                                                                *)

\* evaluateCacheability(): only a request without credentials reads the cache or
\* fills it.  Mutant: any GET.
CacheableGet(u) == TRUE
Cacheable(u) == u = Anonymous

\* await redisClient.get(cacheKey) finds nothing.
Miss(g, u) ==
    /\ reading[g] = "idle"
    /\ connected
    /\ Cacheable(u)
    /\ ~IsCached
    /\ reading' = [reading EXCEPT ![g] = "miss"]
    /\ reader' = [reader EXCEPT ![g] = u]
    /\ UNCHANGED <<storyVars, cached, late, connected, clearing, page>>

\* The GET is over.
Over(g) ==
    /\ reading' = [reading EXCEPT ![g] = "idle"]
    /\ reader' = [reader EXCEPT ![g] = Anonymous]
    /\ page' = [page EXCEPT ![g] = NoPage]

\* getStoryById: an unpublished story is answered to its author alone.
MayRead(u) == story.status = "published" \/ (story.status = "draft" /\ u = Author)

ReadStory(g) ==
    /\ reading[g] = "miss"
    /\ IF MayRead(reader[g])
       THEN /\ reading' = [reading EXCEPT ![g] = "fill"]
            /\ page' = [page EXCEPT ![g] = PageOf(story)]
            /\ UNCHANGED reader
       ELSE Over(g)
    /\ UNCHANGED <<storyVars, cached, late, connected, clearing>>

\* Redis executes the setEx of a 200's body, or does not get it.  The page is
\* late when it is out of date and no invalidation is still to look for it.
Fill(g) ==
    /\ reading[g] = "fill"
    /\ IF connected
       THEN /\ cached' = page[g]
            /\ late' = /\ page[g] # PageOf(story)
                       /\ \A r \in Requests : stage[r] = "written" => r \in clearing
       ELSE UNCHANGED <<cached, late>>
    /\ Over(g)
    /\ UNCHANGED <<storyVars, connected, clearing>>

-----------------------------------------------------------------------------
(* Writing.                                                                *)

\* A step of a write's handler; one that fails after it has written is answered
\* 500, and invalidates nothing.
Handle(r) ==
    /\ StoryStep(r)
    /\ late' = (late \/ (IsCached /\ stage[r] \in {"populate", "count"} /\ stage'[r] = "idle"))
    /\ UNCHANGED <<cached, connected, clearing, reading, reader, page>>

\* Whether the SCAN finds the page; a mutant whose pattern lacks the prefix of
\* the keys.
FoundByBarePattern == FALSE
Found == IsCached

\* The write has been answered, with its invalidation: the SCAN ...
Scan(r) ==
    /\ stage[r] = "written"
    /\ r \notin clearing
    /\ connected
    /\ IF Found
       THEN clearing' = clearing \cup {r} /\ UNCHANGED storyVars
       ELSE /\ UNCHANGED <<clearing, story, liked, storiesCount, clobbered, uncounted, trouble,
                          writes>>
            /\ GoTo(r, "idle")
    /\ UNCHANGED <<cached, late, connected, reading, reader, page>>

\* ... the DEL of what it found ...
Clear(r) ==
    /\ r \in clearing
    /\ connected
    /\ cached' = NoPage
    /\ late' = FALSE
    /\ clearing' = clearing \ {r}
    /\ GoTo(r, "idle")
    /\ UNCHANGED <<story, liked, storiesCount, clobbered, uncounted, trouble, writes, connected,
                   reading, reader, page>>

\* ... or nothing at all, without Redis.
ClearNothing(r) ==
    /\ stage[r] = "written"
    /\ ~connected
    /\ late' = (late \/ (IsCached /\ cached # PageOf(story)))
    /\ clearing' = clearing \ {r}
    /\ GoTo(r, "idle")
    /\ UNCHANGED <<story, liked, storiesCount, clobbered, uncounted, trouble, writes, cached,
                   connected, reading, reader, page>>

-----------------------------------------------------------------------------
(* The environment.                                                        *)

\* The page has been in Redis for its 300 seconds.
Expire ==
    /\ IsCached
    /\ cached' = NoPage
    /\ late' = FALSE
    /\ UNCHANGED <<storyVars, connected, clearing, reading, reader, page>>

LoseRedis ==
    /\ connected
    /\ Trouble
    /\ connected' = FALSE
    /\ UNCHANGED <<story, liked, storiesCount, stage, user, seen, clobbered, uncounted,
                   writes, cached, late, clearing, reading, reader, page>>

RegainRedis ==
    /\ ~connected
    /\ connected' = TRUE
    /\ UNCHANGED <<storyVars, cached, late, clearing, reading, reader, page>>

-----------------------------------------------------------------------------
Next ==
    \/ \E r \in Requests : Handle(r) \/ Scan(r) \/ Clear(r) \/ ClearNothing(r)
    \/ \E g \in Readers, u \in {Anonymous, Author} : Miss(g, u)
    \/ \E g \in Readers : ReadStory(g) \/ Fill(g)
    \/ Expire \/ LoseRedis \/ RegainRedis

Spec == Init /\ [][Next]_vars

-----------------------------------------------------------------------------
(* Properties.                                                             *)

TypeOK ==
    /\ StoriesTypeOK
    /\ cached.status \in Statuses
    /\ late \in BOOLEAN /\ connected \in BOOLEAN
    /\ clearing \subseteq {r \in Requests : stage[r] = "written"}
    /\ reading \in [Readers -> {"idle", "miss", "fill"}]
    /\ reader \in [Readers -> {Anonymous, Author}]
    /\ \A g \in Readers : page[g].status \in Statuses

\* Only what any visitor may read is ever cached: an author's look at a draft,
\* or a draft published or a story withdrawn while it is read, leaves none of it
\* behind for others.
CachedIsPublic == IsCached => cached.status = "published"

\* Once every write has been answered and its invalidation is over, the cache has
\* the page as it is now or none, whoever read it meanwhile, unless the entry was
\* stored late or its invalidation got lost.
FreshUnlessLate ==
    ~late /\ IsCached /\ (\A r \in Requests : stage[r] \notin {"populate", "count", "written"})
        => cached = PageOf(story)

=============================================================================
