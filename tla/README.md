# FailFixes: TLA+ specifications

FailFixes is a story-sharing site: an Express/Mongoose API with Socket.IO chat,
Redis for what several processes share, and a React client. This directory has
TLA+ modules of its stateful parts, configurations that model-check them with
TLC, and proofs checked by TLAPS. `PROJECT.json` lists the components, runs,
mutants, findings, hazards and theorems, and maps every definition to the lines
it models.

    tlc -workers 2 -config PresenceRedis.cfg MCPresence     # one run
    tlc -workers 2 -config PresenceRace.cfg MCPresence      # a finding, shown by hand
    tlapm PresenceProofs.tla                                # one proof module

## 1. The system

### Components

| Component | Code | State it keeps | Operations |
|---|---|---|---|
| Presence and connection cap | `backend/socket/presence.js`, handshake, `disconnect` and `close` of `backend/socket/index.js` | `presence:conn:<user>` in Redis with an expiry; a Map per process; the `closing` flag | `acquire`, `release`, `initSocket`, `attachRedisAdapter`, `close` |
| Chat over sockets | handlers of `backend/socket/index.js`, `utils/socketSecurity.js`, `models/Chat.js` | room memberships, `socket.data.authorizedChats`, throttle buckets, the Chat documents | `joinChats`, `joinChat`, `leaveChat`, `sendMessage`, `typing` |
| Chat tab | `frontend/src/context/SocketContexts.js`, `pages/ChatPage.js` | the socket, `joinedChatsRef`, the list, the selected chat, its messages | connect and re-join, select, send, newMessage, unread badges |
| Chat over HTTP | `backend/controllers/chatController.js` | Chat documents | `getChats`, `createDirectChat`, `getChatMessages`, `markChatRead` |
| Sessions and tokens | `controllers/authController.js`, `middleware/auth.js`, `utils/token.js` | `tokenVersion`, password hash, `isActive`; tokens at the clients | `register`, `login`, `logout`, `changePassword`, `protect` |
| Rate limiting | `middleware/rateLimit.js`, `middleware/rateLimitStore.js` | a counter with an expiry per limiter and client, in Redis or per process | `increment`, `init` |
| Response cache | `middleware/cache.js`, `app.js` | answers of anonymous GETs in Redis | fill, read, invalidate |
| Stories | `controllers/storyController.js`, `models/Story.js` | Story documents, the users' `likedStories`, the authors' `storiesCount`, the view throttle `userViewCounts` | create, update, delete, like, comment, view |
| Users and follows | `controllers/userController.js`, `models/User.js` | `followers`, `following` and their counts | `followUser`, profile, lists, search, suggestions, feed, dashboard |
| Lifecycle | `server.js`, `utils/database.js` | the HTTP server, the connection to MongoDB, `isConnecting`, `connectionAttempts`, `isShuttingDown` | boot, connect, retry, lose, graceful shutdown |
| Browser session | `context/AuthContext.js`, `services/api.js`, `pages/login.js`, `pages/Signup.js`, `components/ProtectedRoute.js`, `components/layout/header.js` | `user`, `loading`, `localStorage` | verify, login, signup, logout, 401 interceptor |
| Pages of stories | `pages/Home.js`, `Browse.js`, `ViewStory.js`, `CreateStory.js`, `components/UserSuggestions.js` | lists, filters, hearts, comments, a form | fetch, filter, page, like, follow, comment, save, ask the AI |
| Pages of people | `pages/UserProfile.js`, `Followers.js`, `Following.js`, `Dashboard.js`, `components/FollowButton.js` | a profile, a list, the buttons' states | fetch, follow, load more, refresh |
| Helpers | `utils/allowedUpdates.js`, `utils/queryHelpers.js` | none | allow-list, parsing |
| AI proxy, validation, errors, configuration, layout | | none that outlives a request or a render | |

### How they interact

- Handlers run on one thread per process and are cut only at their `await`s. Two
  awaits of one handler are two commands to Redis or MongoDB; every other
  handler, in this process or another, may run between them.
- Presence is called by the handshake middleware (`acquire`) and by the
  disconnect handler (`release`), in different callbacks of one socket: between
  them only the counter remembers the socket.
- The chat tab and the server exchange events in order over one connection, but
  the handlers answer in the order the database does. HTTP answers race both.
- Story writes go through `app.js`, whose response hook clears cached pages
  after a 2xx, without waiting; the cache is filled, without waiting, too.
- All limiters are given one store object. Presence, limiter, cache and Socket.IO
  adapter have connections of their own and lose Redis separately.
- The tabs of a browser share `localStorage` and do not listen to each other's
  changes of it: each has its own `user`, and sends the token that is stored.
- A page has its own state from the moment its route opens to the moment it is
  left; answers to its requests may come in any order, after it has been left, and
  after it shows something else.
- `server.js` starts to listen after the first attempt to connect, whether it
  succeeded or not; on a signal it waits for the HTTP server's connections, then
  disconnects the sockets, then closes Redis and MongoDB.
- A raised `tokenVersion` refuses HTTP requests and new sockets; it does not
  end open sockets.

### What is hard, and what makes each part correct

- *Presence*: two-command sequences (INCR/EXPIRE, DECR/DEL), fallback to a
  process-local count half-way, clients that hang up during the handshake,
  crashes. Correct: no slot counted that nobody will return, no refusal below
  the cap, offline announced when the last socket leaves.
- *Sessions*: read, hash and save in three awaits. Correct: no token got with an
  old password outlives the change; a revoked token stays revoked.
- *Rate limiting*: INCR and PEXPIRE are two commands, and a key counts on while its
  window has not been started. Correct: no client is limited for good; less than
  twice the limit passes in the length of a window.
- *Chat*: re-joining, leave overtaking join, joins refused or failed, old GETs. Correct: who hears a
  chat, in which rooms a tab is, no message twice, none that is not stored.
- *Stories*: copies saved over newer documents, lists in two documents. Correct:
  counts agree with lists, lists agree with each other.
- *Cache*: fills and invalidations overtake each other. Correct: only public
  pages, no page older than the last write whose invalidation is over.
- *Follows*: a read, then two updates of two documents. Correct: counts are the
  lengths of the lists, and following is mutual.
- *Direct chats*: a read, then a write without a condition. Correct: two people
  have one chat.
- *Lifecycle*: two owners of reconnection (the code's timers, the driver), a
  deadline that overtakes the orderly path. Correct: never up without a database
  and without a retry ahead; after a signal the process ends; an orderly exit
  leaves no slot counted.
- *Inbox*: list answers, events, receipts and clicks race, and a failed receipt is
  not repeated. Correct: one receipt
  per message, the open chat read, no badge that hides a message.
- *Browser session*: answers of one tab, or another's, after the session has
  changed. Correct: a tab shows the account it acts for; who has signed out stays
  so; an accepted token is not thrown away.
- *Client pages*: answers that overtake each other, pages that compute from what they
  show what the server has. Correct: once all is answered the page shows what the server has;
  a text is saved once.

## 2. Modules

| Module | Models | Uses |
|---|---|---|
| `ConnectionCap` | what Presence promises: an account's open sockets, a cap, announcements | |
| `Presence` | presence.js and the handlers that call it | `INSTANCE ConnectionCap` |
| `AuthSessions` | login, logout, changePassword and the gate | |
| `RateLimit` | the limiters and their store | |
| `RateLimitSpan` | an observer of one key: what passes in the length of a window | `EXTENDS RateLimit` |
| `ChatServer` | one socket's handlers, the message handlers of all, the chats | |
| `ChatTab` | the socket context and the chat page, composed with the server | `EXTENDS ChatServer` |
| `Stories` | the writing handlers of one story | |
| `StoryCache` | the cached page and its invalidation, composed with the writes | `EXTENDS Stories` |
| `Follow` | followUser's two updates, the profile, the tabs that show and toggle it | |
| `Lifecycle` | one process from boot to exit, its database and its sockets | |
| `Inbox` | unread counts and receipts on the server, the list and window of the chat page | |
| `BrowserSession` | the tabs of one browser, their storage, the tokens on the server | |
| `BrowsePage`, `HomePage`, `StoryPage`, `EditorPage`, `PeoplePage`, `DashboardPage` | one page each, with the handlers behind it | |
| `StartChat` | the dialog that starts a chat, and `createDirectChat` | |
| `ViewThrottle` | the bounded table that decides whether a view counts | |
| `Pages` | the eight above, one of which is used | `EXTENDS` them |
| `MC*` | model values, symmetry and functions for TLC | the module named |
| `PresenceProofs`, `BrowserSessionProofs`, `ChatProofs`, `FollowProofs`, `InboxProofs`, `PagesProofs`, `StoryCacheProofs` | theorems of the module named, for Chat of `ChatTab` | TLAPS |
| `ServerProofs` | theorems of the server process | `EXTENDS AuthSessions, Lifecycle, RateLimitSpan`, TLAPS |

A step between two awaits is one action, named after the command or the handler.
A variable that holds where a handler stands (`phase`, `stage`, `shutdown`,
`sending`, `joining`, `reading`) is the code's program counter, with the locals it carries
over the await (`got`, `seen`, `given`, `page`). Variables commented `history`
are not in the code: they record what a property must tell apart, and no guard
reads them.

**Presence.** `shared` and `ttl` are the Redis key: its count, and whether there is a
key and it has an expiry. As in Redis, INCR and DECR create a missing key without one
(`TouchKey`) and EXPIRE does nothing to it (`SetTtl`). `local` is the Map, `link` what
`usable()` asks. `CallAcquire`, `Incr`, `Expire`, `GiveBack` are `acquire()`,
`Disconnect`, `Decr`, `Del` are `release()`; `AcquireFallsBack` and
`ReleaseFallsBack` are the catch blocks, where the command that was rejected may
or may not have run. `Admit` drops a socket whose client has gone, as Socket.IO
does: no `connection` event, so no disconnect handler. `Close`/`Exit` are
`close()` and what `server.js` does after it. `lostShared` and `lostLocal` count
the slots no release will return.

**AuthSessions.** One account. `LoginFind`/`LoginAnswer`,
`Admit`/`Logout`, `Admit`/`ChangeFind`/`ChangeSave`. `logout` is an atomic
`$inc`; `ChangeSave` writes the version of the copy plus one. Tokens remember the
password they were got by, which the real ones do not. `clobbered` says that a
save has replaced a version it had not read.

**RateLimit.** The keys of one client. `SharedWindow` folds the `init()` calls in
the order `rateLimit.js` makes them. `Increment` is MULTI/INCR/PTTL, which Redis
runs as one; `StartWindow` is the PEXPIRE that follows. Hits are counted up to
the limit plus one, past which the code does the same for every count.
RateLimitSpan follows one key (`Watched`) with `spanLeft` and `spanPassed`, which no
step of the code reads: from a moment of the model checker's choice (`BeginSpan`), and until as many
ticks have passed as the store's window has, the hits of one key that pass are counted.

**ChatServer, ChatTab.** One socket is followed; messages come from it and from
others. `wire` and `down` are the two directions of its connection. `wire` also
holds what Socket.IO buffers while disconnected, which is sent before the
re-join of the `connect` handler. `Select` is the React effect's cleanup and
setup in one commit. `refused` is history: the chats whose last join was
answered with an error (throttled, over the cap, or `JoinFails`, the rejected query),
which the client only logs. `early` says whether the socket was set when the page
mounted: `fetchChats` keeps the helper of that render. `GetReads`/`GetAnswers`
cut the GET where the server reads. `Stray` lets a client ask for any chats.

**Stories, StoryCache.** One document as a record. A save of a copy is what
Mongoose sends: `$push` of what was pushed, `$set` of an array that was spliced
and of the counts. No version key is read, so no save is refused. In StoryCache
`stage[r] = "written"` is a request whose 2xx is out and whose invalidation is
not over: `Scan` then `Clear`, or `ClearNothing` without Redis. `late` says that
the cached page was stored, or its invalidation lost, after the last chance to
be cleared.

**Follow.** The account that is followed and, of each other user, whether its
`following` has it and what that adds to its count. A request is `FollowFind`, the
read that decides, then two updates in `sent`, executed by `Update` in any order,
even after the request has failed. A tab opens or refreshes the profile with two reads
of the server (`Open`, `ViewerRead`) and an answer that replaces what is shown
(`OpenAnswer`) or does not come (`OpenFails`); it adjusts the count it shows itself
(`Answer`). As on the page, a refresh does not wait for a follow, nor a follow for a
refresh; `outdated` is history and marks the tabs that have awaited both, and those
behind whose back others have changed the account.

**Lifecycle.** `database` is Mongoose's `readyState`, `isConnecting` and
`attempts` the module variables of database.js, `retries` its timers, `shutdown`
where gracefulShutdown stands. `AttemptSucceeds` and `AttemptFails` end a
connection attempt, `DatabaseLost` and `DatabaseBack` are the driver's, `RetryFires` is a timer,
also one that has become stale. `Closed` is the callback of `server.close()`: its
guard asks that no socket holds an HTTP connection. `Connect` needs the database, for
the handshake looks the user up. `ReleaseLands` is the one
command by which Presence returns a slot, which the shutdown does not await.

**Inbox.** `home`, `mine` and `receipts` are the messages with their `readBy`;
`rooms` and `down` the socket; `asked` and `answers` cut the GET of the list where the
server reads and where the page hears; `puts` counts the PUTs of receipts in
flight, which `PutExecuted` and `PutFails` end: a failed one is logged and forgotten.
`unmarked` and `lost` are history: what the tab was not in the room for, and what
neither an answer nor an event has told it; what a failed PUT leaves unread is in both
until a PUT marks it.

**BrowserSession.** `token` and `storedUser` are the storage, `user` and `screen` a
tab. A request carries the token that was stored when it was made, is executed by
the server once (`Serve`), and answered to its tab (`Deliver`). `Load` is a new
document: it forgets the tab's timers and answers, not what has been asked. A
request of a document that is gone is executed and answered to nobody. `foreign`
is history: the tabs behind whose back another has changed the token.

**Pages.** In each, a request is a record in a set; the server executes it in one
step, the page hears of it in another, in any order and possibly never. The
closures that an effect or a handler keeps are fields of the request. BrowsePage
tells a result by the query it answers; HomePage has the hearts and the Follow
buttons, which wait for the answer and are set by it; StoryPage changes its story
while the component stays; EditorPage has the form, the AI's answer and the timer
that leaves the page; PeoplePage has a button for each person and pages of a list;
DashboardPage executes the three reads of one handler apart; StartChat has the search
that overtakes itself, and `createDirectChat` as `FindChat` and `SaveChat`; ViewThrottle
is a table of counts with an age, the order of its insertions beside it, swept and
cut to a cap.
`Pages` composes them with a variable `part`: a behaviour uses one of them, and
the others stay as they begin. The parts share no state, so no interleaving of two
is lost; the modules say, each in its head, what is left to another.

## 3. Runs

Deadlock is checked except in `chat`, `lifecycle`, `inbox`, `browser` and `pages`,
where clicks, messages, requests and troubles are bounded, and a tab with nothing
left to do, or a process that has ended, stops.

| Run | Checks | Instance |
|---|---|---|
| `presence_redis` | `SharedAccounted` (a count never exceeds living holders plus what a fault stranded), `KeysExpire`, `SilentMeansOffline` (until a fault) | one account, 3 sockets, 2 processes, cap 3, 2 faults of five kinds |
| `presence_local` | `LocalExact`, `KeepsPromise` (refinement of `ConnectionCap`) | no Redis, 1 process, 4 sockets of one account over a cap of 3, one of another |
| `sessions` | `OldCredentialsRevokedUnlessClobbered`, `RevokedForGood` | 3 requests, 2 passwords, versions to 2 |
| `ratelimit` | `TwicePerWindow`, liveness `NeverLimitedForGood` | a limiter with a window of 3 ticks and a limit of 2, 3 requests, 2 processes, 1 fault, with and without Redis |
| `chat` | `OnlyParticipants`, `SubscribedAsBelieved`, `NeverShownTwice`, `ShownIsKept` | 2 chats of the account, 1 of others, 2 messages, 2 clicks, 1 trouble |
| `stories` | `CountsAgree`, `LikedAsListed`, `StoriesCounted`, `CachedIsPublic`, `FreshUnlessLate` | author and one user, 2 writes at a time, 4 in all, 1 reader, 2 comments, 1 trouble |
| `follow` | `CountsFollowLists`, `FollowIsMutual`, `PageAsReloaded` | 2 users, one with two tabs, 2 clicks, any number of refreshes, 1 failure |
| `lifecycle` | `RetryAhead`, `OrderlyExitReleases`, liveness `EndsAfterSignal` and `ConnectedOrGone` | 2 sockets, 2 signals, 3 attempts, 1 request, 2 troubles |
| `lifecycle_close` | **violated** `ShutdownReleases` | the same |
| `inbox` | `ReadOnce`, `OpenIsRead`, `BadgeCoversUnread` | 2 chats, 2 messages, 2 chats opened, any PUT may fail; other tabs read, send and start chats |
| `browser` | `ShownAsStored`, `SignedOutStays`, action property `AcceptedTokenKept` | 2 tabs, 2 accounts, 2 requests in flight, 1 revocation of each account, 1 lost answer |
| `pages` | `PageInRange`, `HomeAsServer`, `StoryAsServer`, `SavedOnce`, `KeptUntilSaved`, `OneChatPerPair`, `FewPerWindow`, `PeopleAsServer`, `DashboardAsServer` | Browse: 2 searches, 2 filters, 5 lists; Home: 2 cards of one author, 4 requests; a story's page: 2 stories, 3 visits, 3 clicks; the editor: 4 texts, 3 saves, 1 prompt, opened twice; direct chats: 3 users, 3 requests, 3 keystrokes; views: 4 keys, room for 1, a sweep after 2; people: lists of 2 accounts, 3 fetched, 3 clicks; dashboard: 3 loads |

Six more configurations show findings by hand; TLC reports the violation named:
`PresenceRace.cfg` (`SharedExact`, on MCPresence), `SessionsPassword.cfg`
(`OldCredentialsRevoked`, MCAuthSessions), `RateLimitWindow.cfg`
(`RecoversInOwnWindow`, MCRateLimit), `ChatSidebar.cfg` (`SidebarSubscribed`,
MCChatTab), `StoriesDate.cfg` (`DateKept`, MCStoryCache), `FollowRefresh.cfg`
(`RefreshedAsReloaded`, MCFollow).

Each module keeps its type invariant beside its state. Those of Presence, AuthSessions
and Follow are theorems, that of BrowserSession is part of a proved invariant; the other
proofs state in their invariants the types they need. The type invariants are no run's property, and hold when a configuration
adds them.

Why these bounds suffice: every race above is between two calls, and a third
sees its result. `presence_redis` has three sockets because a release, an
acquire and a bystander are what DECR/DEL needs, and two faults because the
second hits the recovery of the first (an outage during the release of a slot
taken before a crash, say). With a cap of 3 no attempt is refused there: the cap
is what `presence_local` tests. Two passwords and versions
to 2 allow the two raises that make a stale save collide. A chat run needs two
chats to switch between, two messages to be saved in one order and broadcast in
the other, two clicks so that leaving races joining, and one trouble (a lost
connection, a throttled event, a failed query or save, a stray join). Stories need two
writes overlapping, four in all so that a like, its removal and another write
follow each other, and one reader between them. A window of three ticks has
room for one that passes between a key's first hit and the start of its window, and a
limit of two tells the hits of one window from those of the next; one limiter is enough
there, for the keys of two share nothing but the window, and `RateLimitWindow.cfg` has
two. Three requests on two processes are one whose PEXPIRE is lost, one that sets it late
and one counted in between. Following needs a
user who clicks in two tabs and another who clicks in a third, and two clicks, so that
they overlap or the second undoes the first. A process needs a second
socket so that one is told before the other, a second signal because the handler
can be called again, three attempts so that one can be lost between two, and two
troubles because the second hits what the first has started. Unread counts need a
message before and one after the moment the list is read, and the two chats that are
opened send PUTs enough for one to fail before another makes up for it; tabs need one that
changes the token behind the other's back. On the pages three requests suffice for
an answer that is overtaken twice, and one more where a page and a button ask. The
table of views has room for one entry and four keys, so that the cap evicts what
the sweep would not. Bounds on counters (`MaxVersion`, `MaxComments`, `MaxWrites`,
`MaxTrouble`, `MaxSelections`, `MaxAttempts`, `FaultBudget`, and the `Max...` of the
pages) are constants of the modules and stand in the guards; `MaxAttempts`,
`MaxPerUser`, `MaxPerWindow`, `MapCap` and `SweepInterval` are the code's own.

Symmetry is used for requests, for passwords other than the first, and for
sockets of one account and process; never in a run with a liveness property.

**Fairness.** RateLimit: time passes (`WF(Tick)`) and an awaited
Redis command is answered, one way or the other (`WF(Finish(r))`); node-redis
rejects pending commands when the connection is lost. Nothing makes a client
return, so `NeverLimitedForGood` assumes that it does: a client counted in Redis
again and again finds its count at zero again and again.
Lifecycle: an attempt to connect ends (Mongoose gives it a time limit), timers
fire, an HTTP request ends, `server.close()` calls back once it may, the commands of a
release and the awaited steps of a shutdown end, and the deadline fires. Nothing
makes a client leave or the database return: `ConnectedOrGone` holds because the
attempts are finite and the process exits after the last.

**Mutants.** Each property of a passing run has a mutant in `PROJECT.json`: a
definition replaced by one written just before it, with the bug it names. All
are found.

## 4. Findings

That concurrent likes and follows make counts drift is known to the project's own
README, and stated there as a limit, so it is not listed. `PROJECT.json` gives each
finding its line and quotes what the code says of itself.

On the server:

1. `PresenceRace.cfg`: `release()` DELs the key in a second command after its DECR
   returned 0. A connect in between is counted and then wiped: the counter says
   none, the cap is exceeded later, `userOffline` follows `userOnline`.
2. The slot is reserved in the handshake; a client that hangs up before the answer
   never gets a disconnect handler. The slot is lost, in Redis until the key
   expires, in the Map until the process ends. `presence_redis` has these
   hang-ups and counts their slots in `lostShared` and `lostLocal`.
3. `SessionsPassword.cfg`: `changePassword` saves the version of its copy plus one.
   A logout and a login by the old password in between reach that same version,
   and the old password's token survives the change.
4. `RateLimitWindow.cfg`: `init()` of every limiter overwrites the window of the one
   store they share: with Redis, all count over the last limiter's window.
5. `StoriesDate.cfg`: the projection read by `likeStory` and `addComment` lacks
   `publishedAt`, so the pre-save hook sets it anew at each like and comment.
6. Run `lifecycle_close`: with a WebSocket open `server.close()` never calls back, and
   the sockets are disconnected in its callback. The deadline ends the process with
   its presence slots counted and Redis and MongoDB open.
7. `createDirectChat` finds, then saves: two requests at once leave two chats.

In the browser:

8. `ChatSidebar.cfg`: selecting another chat leaves the room that the list had joined
   for the sidebar; its last message and badge are no longer updated.
9. `verifyToken` answers null for a server that cannot be reached too, and the start
   throws the token away. `AcceptedTokenKept` names the exception.
10. Browse fetches without the token, so every heart is empty, and a click on a story
    already liked takes the like back. Two fetches at once clear the loading flag
    early, and a page of the old query is asked of the new one.
11. Followers and Following pass `initialFollowStatus`, FollowButton reads
    `isFollowing`, and the lists do not carry it: every button starts as Follow.
    Their heading shows a total the server names otherwise; "load more" replaces the
    list; a failed load of Following keeps the earlier account's people.
12. A follow in the sidebar does not reach the cards, nor the other way round.
13. The dashboard's request falls back to the data of the render that made it: failing
    late, it replaces what has been loaded since by zeros.
14. `FollowRefresh.cfg`: the profile's Refresh button stays enabled while a follow is
    awaited. A refresh that reads the account in between shows the new count, and the
    follow's answer adds one again.
15. The editor is emptied by the answer to a save, and overwritten by the AI's, whatever
    has been typed since; the timer that leaves the page survives it.
16. The Message button of a story navigates with a state the chat page never reads;
    the redirect of `/stories/:id` keeps the letters `:id`; the error boundary
    throws in its first render, for it reads what is set only after it.

What holds in spite of these is stated with its exception: until a save clobbers
a version (`sessions`), until a fault strands a slot (`presence_redis`), until a
copy out of date replaces a count (`stories`), until a fill comes late, until
another tab changes the token (`browser`), until two fetches or two requests for
one chat overlap (`pages`), until a refresh is awaited beside a follow (`follow`), but
for chats whose join was refused (`chat`) and messages a failed PUT left unread
(`inbox`): the client only logs these two errors, and the next join or PUT makes up
for them.

## 5. Proofs

Every safety invariant and action property that a passing run checks, and the
refinement `KeepsPromise`, is also proved for every value of the constants. The
proofs assume what the modules assume of their constants (`ASSUME`, evaluated by TLC
in each run), and what is said below of `LocalCountExact` and `PromiseKept`. None of
the properties is inductive. Each proof strengthens it by what the requests, events
and handlers on their way still carry, for that is what a later step will write.

**Presence** (`PresenceProofs`)

- `TypeCorrect` (`Spec => []TypeOK`) and `SlotsAccounted` (`SharedAccounted`, and the
  same of the Map, `LocalAccounted`). "The counter is at most the holders plus the
  lost" is not inductive: a release of a socket that has been counted elsewhere would
  go unnoticed. The invariant `Accounted` adds `UnitByPhase`, which says in which
  phases a socket may hold which unit. Counting the holders after a step needs
  cardinalities of sets that gain or lose one socket, or all of one process: those
  are lemmas of their own.
- `CountedKeysExpire` (`KeysExpire`) and `SilentAccountOffline` (`SilentMeansOffline`),
  both until the first fault. A key that counts and has no expiry has been created by
  an INCR whose own EXPIRE is still ahead, also after a DEL that left another's EXPIRE
  without a key. The invariant `QuietInv` adds to `Accounted` that a
  reply to INCR is no more than the account's sockets (`CountedWithin`), so that an
  account within its cap is never refused, and that an account that is announced
  online has a socket that can still announce its end (`SomebodyLeft`).
- `LocalCountExact` (`LocalExact`) is proved for a deployment without Redis in which no
  client gives up its handshake (`Configured = FALSE`, `"abandon" \notin Faults`).
  Crashes, shutdowns and restarts are allowed. With a client that gives up it is
  false, which is finding 2.
- `PromiseKept` (`Spec => KeepsPromise`): under the same restriction, and when the
  sockets of an account meet in one process (`Together`) that is neither crashed nor
  shut down (`Undisturbed`), Presence implements `ConnectionCap`. A socket let in is an
  `Arrive`, one released a `Depart`, every other step a stutter. `EntryIsOpen` relates
  the one entry of the Map that matters to the open sockets. Two processes without
  Redis each have the whole cap, so without `Together` the promise does not hold.

**The server process** (`ServerProofs`)

- `SessionsTyped`, `OldCredentialsEnd` (`OldCredentialsRevokedUnlessClobbered`) and
  `RevokedTokensStayRevoked` (the action property `RevokedForGood`). The invariant
  `SessionsInv` says, until a clobbering save, that tokens *and the documents handlers
  have read* are behind the account: not ahead of its version, and with its password
  at its version. Without the documents a login about to sign would break it.
- `NeverIdleWithoutDatabase` (`RetryAhead`), whose invariant adds that a process which
  is not connecting has an attempt left, for only then does the `disconnected` handler
  set a timer; and `OrderlyExitLeavesNoSlot` (`OrderlyExitReleases`), whose invariant
  says that every counted slot has a socket or a release, and that a shutdown past
  `server.close()` lets no socket in.
- `LessThanTwicePerWindow` (`TwicePerWindow`). The invariant `SpanInv` bounds what has
  passed in a span by what the key shows (`Shown`, its count up to the limit): it is
  less than that, or less than one limit more, and then the key is gone or will not
  expire before the span ends (`Outlives`). For a window started within the span lasts
  as long as the whole span, so only one window can end in it.

**Chat** (`ChatProofs`, of server and tab together)

- `HeardByParticipants` (`OnlyParticipants`). The invariant `ChatInv` adds what is on
  the wire and what the page believes, because the rooms a handler will ask for come
  from there.
- `ShownOnce` (`NeverShownTwice`) and `WhatIsShownIsKept` (`ShownIsKept`). The invariant
  `MessageInv` follows a message from the wire to the window: it is on the wire once
  and only before it is saved (`SentOnce`), saved once and in its chat (`StoredOnce`),
  and whatever is on its way to the tab, as a broadcast or in the answer of a GET, is
  stored, each answer without repetition (`OnTheirWayKept`).
- `InRoomsBelieved` (`SubscribedAsBelieved`). The invariant `RoomInv` reads the wire
  from its end: for each room the client believes to be in, either the last event that
  concerns it is a join, or no event leaves it and the server has it, or a waiting
  handler will join it (`OnItsWay`), or the client has been told of an error (`refused`);
  in any case no leave comes last (`LastWord`, `Believed`). While disconnected nothing is
  claimed, because the `connect` handler joins all of them again.

**Inbox** (`InboxProofs`): `ReadOnlyOnce` (`ReadOnce`), `OpenChatIsRead` (`OpenIsRead`)
and `BadgesHideNothing` (`BadgeCoversUnread`). The invariant `InboxInv` says of an answer
of the list on its way that it counts what is unread of what was stored when it was
read, and of a badge that it covers what the tab has been told, unless a PUT of the
chat is in flight; an unread message of the open chat is one the tab was not in the
room for or a failed PUT left, is on its way, or has a PUT ahead. A PUT that fails moves
what it leaves unread to `unmarked` and `lost`, so both parts hold without it.

**Stories and their cache** (`StoryCacheProofs`): `StoryCountsAgree` (`CountsAgree`),
`LikesAsListed` (`LikedAsListed`), `PublishedCounted` (`StoriesCounted`), `OnlyPublicCached`
(`CachedIsPublic`) and `CacheFreshUnlessLate` (`FreshUnlessLate`). `StoryInv` says what a
like about to be saved has read and already written to its user's list
(`TogglesWhatItRead`, `ListedBeforeSaved`), and what a creation or deletion is yet to
write to the author's count (`CountedInv`). `CacheInv` adds that only anonymous readers
miss the cache, so that what they will store is public, and `ClearingWritten` that an
invalidation follows an answered write. Lemmas on the sequence of likes say what
appending a user and taking one out do to its length, its members and to nobody being
in it twice.

**Follows** (`FollowProofs`)

- `FollowTyped`, `CountsAreLengths` (`CountsFollowLists`) and `FollowingIsMutual`
  (`FollowIsMutual`). The invariant `Steady` says what the updates that are on their way
  will do: that of the account will change its list (`AccountAhead`), that of the user
  will make the two lists agree again (`UserAhead`), and that a user who has never
  overlapped has one request's updates at a time (`OneAtATime`).
- `PageFollowsLists` (`PageAsReloaded`). The page decides by one list, the server by the
  other, and the page adds to what it has shown. The invariant `PageInv` therefore
  stands on `Steady`: a tab waits for one request (`WaitsForOne`), while it does the
  page is behind the account by exactly what has been executed (`Behind`), and the
  answer of a refresh on its way says what the server has (`PartlyTold`).

**Browser session** (`BrowserSessionProofs`): `TabShowsItsToken` (`ShownAsStored`),
`SignedOutForGood` (`SignedOutStays`) and `AcceptedTokenStays` (`AcceptedTokenKept`). The
invariant `SessionInv` says that a tab that loads has no request but one verification,
of the stored token unless another tab has changed it (`Alone`, `Shown`), and that a
token refused once is of a version gone (`Past`). Without the first, the verification
of an earlier document could sign a tab in.

**Pages** (`PagesProofs`). Each is a theorem of the page's own specification; `PagesAsServer`
states them all of `Pages`, whose steps are those of the page used and leave the
others as they begin (`PartsOfPages`).

- `OneChatUnlessRaced` (`OneChatPerPair`): each request of a pair is followed from its
  look-up to its save. One that found nothing is the only one of its pair, or the
  pair has raced.
- `SavedOnceForGood` (`SavedOnce`): there is one POST of a text at a time, the one of the
  form's text is awaited by the page, and what is asked for has not been saved.
  `TextKeptUntilSaved` (`KeptUntilSaved`) adds that a POST the page awaits is of the text
  in its form, as long as the form has not changed meanwhile.
- `PagesInRange` (`PageInRange`): until answers are mixed up, a page that fetches awaits
  the query it shows, and one that does not goes by that query's pages.
- `HomeShownAsServer` (`HomeAsServer`): for each heart and button the last executed of the
  answers that tell of it tells what the server has (`HeartTold`, `CardsTold`, `SideTold`),
  and the last list asked for is under way or shown (`LastList`).
- `StoryShownAsServer` (`StoryAsServer`): of this visit there is at most one like and one
  comment under way, and the page is behind by what they have done (`VisitInv`).
- `PeopleShownAsServer` (`PeopleAsServer`): the last list asked for is of the route's
  account (`LastOfRoute`), and a button shows what its last answer told, which is what
  the server has unless an executed click is about to tell (`ButtonsRight`).
- `DashboardShowsServer` (`DashboardAsServer`): the last request has read what the server
  has as far as it has read, or what it read is shown (`DashFresh`).
- `FewViewsPerWindow` (`FewPerWindow`): until the cap drops it, a key's entry says at
  least as many views as have been counted since the last pause (`CountedRemembered`).
  This is why a sweep, which takes out only entries older than the window, forgets
  nothing that counts.

**What is assumed of the constants.** Sets whose members are counted are finite
(sockets, followers, chats, messages, requests for chats). Functions between them have the
right types (`UserOf`, `ChatOf`, `Owner`, `PagesOf`). Model values for "none" are not
members of the sets they are added to. Bounds are natural numbers, and the code's own
bounds at least 1 where the code has them so. `AnonymousAssumption` says that a visitor
who is not signed in is none of the users.

**Only model-checked.** The liveness properties `NeverLimitedForGood`, `EndsAfterSignal` and
`ConnectedOrGone`: TLAPS has no rules for fairness and `ENABLED` here, so they are shown
on the instances of `ratelimit` and `lifecycle` only.

## 6. What is left

1. Theorems next in value: the type invariants of the modules where only parts of them
   are in the invariants (ChatTab, StoryCache, Inbox, Lifecycle, RateLimit, Pages); that
   the table of views never has more than `MapCap + SweepInterval` entries.
2. The hearts of Browse (`handleLikeToggle`), as HomePage has them; the drafts of the
   dashboard; the stories on the profile page.
3. `updateUserProfile` with the allow-list of `utils/allowedUpdates.js` as a function,
   against a reference, for all documents of a small depth; `trackProfileView`.
4. Shutdown composed with Presence: that `Presence!Exit` finds every socket told is
   what run `lifecycle_close` refutes; the two modules share no state yet.

## 7. Not modelled

- `typing` and the throttle's buckets: throttling is a choice of the environment
  (`Throttled`), counted as trouble.
- Payload validation, message texts, formatting, logging: no property tells them
  apart.
- The listings of an author's, an account's and the liked stories, of a story's
  comments, and the statistics: reads of one moment. The AI proxy on the server: a stateless call. CORS,
  environment, configuration: values read at start.
- Rendering and layout of the pages.
- Code nobody reaches: `components/LikeButton.js`, `components/Comments.js`,
  `components/Story/StoryCard.js` and `components/layout/Layout.js` are imported
  nowhere; `register`, `signup`, `updateUser` and `refreshUser` of AuthContext and
  `handleStoryClick` of Browse are called by nobody; `decrement` and `resetKey` of the
  rate-limit store have no caller in the routes.
- Redis, MongoDB, Socket.IO and express-rate-limit are external: their commands
  are atomic and answered once, may be rejected after they took effect, and
  Socket.IO keeps the order of one connection's events.
- A socket stays open when its token is revoked; the code has no step to model,
  so it is listed among the hazards only.
