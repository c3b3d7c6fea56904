------------------------------ MODULE Lifecycle ------------------------------
(***************************************************************************)
(* One server process from boot to exit: backend/server.js, and the        *)
(* connection to MongoDB that backend/utils/database.js opens, loses and   *)
(* retries.                                                                *)
(*                                                                         *)
(* server.js waits for the first attempt to connect, not for a connection: *)
(* connectDB() resolves after a failure too, and goes on from a timer.     *)
(* A shutdown waits for server.close(), which calls back when every        *)
(* connection of the HTTP server has ended; the sockets are disconnected   *)
(* in that callback.  A WebSocket is such a connection for as long as it   *)
(* is open, a polling socket while one of its polls is pending.            *)
(*                                                                         *)
(* Of Presence only the slots matter here: which sockets Redis counts.     *)
(***************************************************************************)
EXTENDS Integers, FiniteSets

CONSTANTS
    Sockets,     \* chat sockets of this process
    Signals,     \* SIGTERM and SIGINT
    MaxAttempts, \* maxRetryAttempts
    MaxRequests, \* bound on HTTP requests in flight
    MaxTrouble   \* bound on lost databases, rejections, exceptions and delays

ASSUME MaxAttemptsAssumption == MaxAttempts \in Nat \ {0}
ASSUME LifecycleBoundsAssumption == MaxRequests \in Nat /\ MaxTrouble \in Nat

VARIABLES
    http,         \* how far startServer is, then the state of the HTTP server
    exit,         \* "running", or how the process has ended
    reachable,    \* whether MongoDB answers
    database,     \* mongoose.connection.readyState
    opened,       \* the driver has had a connection, and restores it itself
    isConnecting,
    attempts,     \* connectionAttempts
    retries,      \* pending setTimeout(connectDB) timers
    isShuttingDown,
    armed,        \* the ten-second timer of gracefulShutdown is set
    shutdown,     \* where each signal's shutdown is
    rejected,     \* an unhandled rejection has closed the server
    requests,     \* HTTP requests in flight
    link,         \* what ties each socket to the process
    counted,      \* sockets whose slot is counted in Redis
    releasing,    \* those whose disconnect handler has called release()
    trouble,
    late          \* history: the adapter was closed under a pending release

databaseVars == <<reachable, database, opened, isConnecting, attempts, retries>>
shutdownVars == <<isShuttingDown, armed, shutdown, rejected>>
socketVars == <<link, counted, releasing>>
lifecycleVars == <<http, exit, databaseVars, shutdownVars, requests, socketVars, trouble, late>>

Links == {"none", "websocket", "polling", "between"}
ShutdownStages == {"none", "waiting", "drain", "cache", "database"}

LifecycleTypeOK ==
    /\ http \in {"database", "sockets", "listening", "closing", "closed"}
    /\ exit \in {"running", "orderly", "failed"}
    /\ database \in {"disconnected", "connected"}
    /\ {reachable, opened, isConnecting, isShuttingDown, armed, rejected, late} \subseteq BOOLEAN
    /\ attempts \in 0 .. MaxAttempts
    /\ retries \in 0 .. MaxTrouble + 1
    /\ shutdown \in [Signals -> ShutdownStages]
    /\ requests \in 0 .. MaxRequests
    /\ link \in [Sockets -> Links]
    /\ releasing \subseteq counted /\ counted \subseteq Sockets
    /\ trouble \in 0 .. MaxTrouble

\* startServer() has called connectDB(): the first attempt is on its way.
LifecycleInit ==
    /\ http = "database"
    /\ exit = "running"
    /\ reachable \in BOOLEAN
    /\ database = "disconnected"
    /\ opened = FALSE
    /\ isConnecting = TRUE
    /\ attempts = 1
    /\ retries = 0
    /\ isShuttingDown = FALSE
    /\ armed = FALSE
    /\ shutdown = [g \in Signals |-> "none"]
    /\ rejected = FALSE
    /\ requests = 0
    /\ link = [s \in Sockets |-> "none"]
    /\ counted = {}
    /\ releasing = {}
    /\ trouble = 0
    /\ late = FALSE

Running == exit = "running"
Serving == Running /\ http \in {"listening", "closing", "closed"}

Mishap == trouble < MaxTrouble /\ trouble' = trouble + 1

(***************************************************************************)
(* The database: utils/database.js                                         *)
(***************************************************************************)

\* What `await connectDB()` continues with in startServer, whatever the outcome.
BootGoesOn == http' = IF http = "database" THEN "sockets" ELSE http

\* connect() answers at once when there is a connection.
AttemptSucceeds ==
    /\ Running /\ isConnecting
    /\ reachable \/ database = "connected"
    /\ database' = "connected"
    /\ opened' = TRUE
    /\ attempts' = 0
    /\ isConnecting' = FALSE
    /\ BootGoesOn
    /\ UNCHANGED <<exit, reachable, retries, shutdownVars, requests, socketVars, trouble, late>>

\* The catch block.  Mutant: no retry after the first failure.
RetryOrExitOnce == IF attempts < MaxAttempts
                   THEN retries' = (IF attempts > 1 THEN retries ELSE retries + 1) /\ exit' = exit
                   ELSE retries' = retries /\ exit' = "failed"
RetryOrExit == IF attempts < MaxAttempts
               THEN retries' = retries + 1 /\ exit' = exit
               ELSE retries' = retries /\ exit' = "failed"

\* (Mongoose emits 'disconnected' here as well, whose handler sets a second timer
\* of the same length: it finds isConnecting set, and counts as one with the first.)
AttemptFails ==
    /\ Running /\ isConnecting
    /\ ~reachable /\ database = "disconnected"
    /\ isConnecting' = FALSE
    /\ RetryOrExit
    /\ BootGoesOn
    /\ UNCHANGED <<reachable, database, opened, attempts, shutdownVars, requests, socketVars,
                   trouble, late>>

RetryFires ==
    /\ Running /\ retries > 0
    /\ retries' = retries - 1
    /\ isConnecting' = TRUE
    /\ attempts' = IF isConnecting THEN attempts ELSE attempts + 1
    /\ UNCHANGED <<http, exit, reachable, database, opened, shutdownVars, requests, socketVars,
                   trouble, late>>

\* The 'disconnected' handler of setupConnectionHandlers.  Mutant: one that leaves
\* the connection to the driver.
OnDisconnectedIgnored == UNCHANGED retries
OnDisconnected ==
    retries' = IF ~isShuttingDown /\ attempts < MaxAttempts THEN retries + 1 ELSE retries

DatabaseLost ==
    /\ Running /\ Mishap
    /\ reachable
    /\ reachable' = FALSE
    /\ database' = "disconnected"
    /\ IF database = "connected" THEN OnDisconnected ELSE UNCHANGED retries
    /\ UNCHANGED <<http, exit, opened, isConnecting, attempts, shutdownVars, requests, socketVars,
                   late>>

\* The database answers again; a driver that has had a connection finds out.
DatabaseBack ==
    /\ Running
    /\ ~reachable
    /\ reachable' = TRUE
    /\ database' = IF opened THEN "connected" ELSE database
    /\ UNCHANGED <<http, exit, opened, isConnecting, attempts, retries, shutdownVars, requests,
                   socketVars, trouble, late>>

(***************************************************************************)
(* Serving                                                                 *)
(***************************************************************************)

\* initSocket, then server.listen and the handlers of signals and rejections.
Listen ==
    /\ Running /\ http = "sockets"
    /\ http' = "listening"
    /\ UNCHANGED <<exit, databaseVars, shutdownVars, requests, socketVars, trouble, late>>

RequestComes ==
    /\ Running /\ http = "listening"
    /\ requests < MaxRequests
    /\ requests' = requests + 1
    /\ UNCHANGED <<http, exit, databaseVars, shutdownVars, socketVars, trouble, late>>

RequestEnds ==
    /\ Running /\ requests > 0
    /\ requests' = requests - 1
    /\ UNCHANGED <<http, exit, databaseVars, shutdownVars, socketVars, trouble, late>>

\* A client's handshake: socketAuthMiddleware reads the account, which is refused
\* without a database, and then the slot is counted.
Connect(s) ==
    /\ Running /\ http = "listening"
    /\ database = "connected"
    /\ link[s] = "none" /\ s \notin counted
    /\ \E transport \in {"websocket", "polling"} : link' = [link EXCEPT ![s] = transport]
    /\ counted' = counted \cup {s}
    /\ UNCHANGED <<http, exit, databaseVars, shutdownVars, requests, releasing, trouble, late>>

\* A poll is answered; the client sends the next.
PollAnswered(s) ==
    /\ Running /\ link[s] = "polling"
    /\ link' = [link EXCEPT ![s] = "between"]
    /\ UNCHANGED <<http, exit, databaseVars, shutdownVars, requests, counted, releasing, trouble,
                   late>>

Poll(s) ==
    /\ Running /\ http = "listening" /\ link[s] = "between"
    /\ link' = [link EXCEPT ![s] = "polling"]
    /\ UNCHANGED <<http, exit, databaseVars, shutdownVars, requests, counted, releasing, trouble,
                   late>>

\* The sockets ss disconnect: their handlers call presence.release().
Disconnect(ss) ==
    /\ link' = [s \in Sockets |-> IF s \in ss THEN "none" ELSE link[s]]
    /\ releasing' = releasing \cup ss
    /\ UNCHANGED counted

Leave(s) ==
    /\ Running /\ link[s] # "none"
    /\ Disconnect({s})
    /\ UNCHANGED <<http, exit, databaseVars, shutdownVars, requests, trouble, late>>

AdapterOpen == \A g \in Signals : shutdown[g] \notin {"cache", "database"}

ReleaseLands(s) ==
    /\ Running /\ s \in releasing
    /\ AdapterOpen
    /\ releasing' = releasing \ {s}
    /\ counted' = counted \ {s}
    /\ UNCHANGED <<http, exit, databaseVars, shutdownVars, requests, link, trouble, late>>

(***************************************************************************)
(* Ending: gracefulShutdown and the handlers beside it                     *)
(***************************************************************************)

\* server.close() stops accepting at once.
StopAccepting == http' = IF http = "listening" THEN "closing" ELSE http

\* Mutant: a shutdown that relies on server.close() alone.
ArmNever == UNCHANGED armed
Arm == armed' = TRUE

Signal(g) ==
    /\ Serving /\ shutdown[g] = "none"
    /\ isShuttingDown' = TRUE
    /\ shutdown' = [shutdown EXCEPT ![g] = "waiting"]
    /\ StopAccepting
    /\ Arm
    /\ UNCHANGED <<exit, databaseVars, rejected, requests, socketVars, trouble, late>>

\* unhandledRejection closes the server too, and sets no timer.
Rejection ==
    /\ Serving /\ Mishap
    /\ rejected' = TRUE
    /\ StopAccepting
    /\ UNCHANGED <<exit, databaseVars, isShuttingDown, armed, shutdown, requests, socketVars, late>>

UncaughtException ==
    /\ Running /\ Mishap
    /\ exit' = "failed"
    /\ UNCHANGED <<http, databaseVars, shutdownVars, requests, socketVars, late>>

\* Mutant: sockets left to themselves.
ToDisconnectNone == {}
ToDisconnect == {s \in Sockets : link[s] # "none"}

Unfinished == requests > 0 \/ \E s \in Sockets : link[s] \in {"websocket", "polling"}

\* The 'close' event calls every callback that waits for it: the one of a rejection
\* exits, the others begin with socketRuntime.close(), which disconnects sockets.
Closed ==
    /\ Running /\ http \in {"closing", "closed"}
    /\ ~Unfinished
    /\ http' = "closed"
    /\ \/ /\ rejected
          /\ exit' = "failed"
          /\ UNCHANGED <<shutdown, socketVars>>
       \/ /\ ~rejected
          /\ \E g \in Signals : shutdown[g] = "waiting"
          /\ shutdown' = [g \in Signals |->
                             IF shutdown[g] = "waiting" THEN "drain" ELSE shutdown[g]]
          /\ Disconnect(ToDisconnect)
          /\ UNCHANGED exit
    /\ UNCHANGED <<databaseVars, isShuttingDown, armed, rejected, requests, trouble, late>>

\* After the drain of 100 ms the adapter's clients quit.  Releases that take longer
\* are a mishap.
Drained(g) ==
    /\ Running /\ shutdown[g] = "drain"
    /\ shutdown' = [shutdown EXCEPT ![g] = "cache"]
    /\ \/ releasing = {} /\ UNCHANGED <<trouble, late>>
       \/ releasing # {} /\ Mishap /\ late' = TRUE
    /\ UNCHANGED <<http, exit, databaseVars, isShuttingDown, armed, rejected, requests, socketVars>>

\* quitRedis()
CacheClosed(g) ==
    /\ Running /\ shutdown[g] = "cache"
    /\ shutdown' = [shutdown EXCEPT ![g] = "database"]
    /\ UNCHANGED <<http, exit, databaseVars, isShuttingDown, armed, rejected, requests, socketVars,
                   trouble, late>>

\* mongoose.connection.close(), whose event the handler ignores, and exit(0).
DatabaseClosed(g) ==
    /\ Running /\ shutdown[g] = "database"
    /\ database' = "disconnected"
    /\ OnDisconnected
    /\ exit' = "orderly"
    /\ UNCHANGED <<http, reachable, opened, isConnecting, attempts, shutdownVars, requests,
                   socketVars, trouble, late>>

\* The timer outlasts whatever ends by itself: requests, releases, the steps of a
\* shutdown, unless one of them hangs, which is a mishap.
ForceExit ==
    /\ Running /\ armed
    /\ \/ /\ Unfinished /\ requests = 0 /\ releasing = {}
          /\ UNCHANGED trouble
       \/ Mishap
    /\ exit' = "failed"
    /\ UNCHANGED <<http, databaseVars, shutdownVars, requests, socketVars, late>>

ShutdownStep(g) == Drained(g) \/ CacheClosed(g) \/ DatabaseClosed(g)

LifecycleNext ==
    \/ AttemptSucceeds \/ AttemptFails \/ RetryFires \/ DatabaseLost \/ DatabaseBack
    \/ Listen \/ RequestComes \/ RequestEnds
    \/ \E s \in Sockets : \/ Connect(s) \/ PollAnswered(s) \/ Poll(s)
                          \/ Leave(s) \/ ReleaseLands(s)
    \/ \E g \in Signals : Signal(g) \/ ShutdownStep(g)
    \/ Rejection \/ UncaughtException \/ Closed \/ ForceExit

\* Timers fire, a connection attempt is answered or times out (five seconds), what
\* the process awaits ends.  Nothing makes a client leave, or the database return.
LifecycleFairness ==
    /\ WF_lifecycleVars(AttemptSucceeds) /\ WF_lifecycleVars(AttemptFails)
    /\ WF_lifecycleVars(RetryFires) /\ WF_lifecycleVars(RequestEnds)
    /\ WF_lifecycleVars(Closed) /\ WF_lifecycleVars(ForceExit)
    /\ \A s \in Sockets : WF_lifecycleVars(ReleaseLands(s))
    /\ \A g \in Signals : WF_lifecycleVars(ShutdownStep(g))

LifecycleSpec == LifecycleInit /\ [][LifecycleNext]_lifecycleVars /\ LifecycleFairness

(***************************************************************************)
(* Properties                                                              *)
(***************************************************************************)

\* A process that is up without a database is connecting, or will try again: no
\* order of failed attempts, lost connections, stale timers and the driver's own
\* reconnects leaves it without either (connectDB, the 'disconnected' handler).
RetryAhead ==
    Running /\ ~isShuttingDown /\ database = "disconnected" => isConnecting \/ retries > 0

\* exit(0) leaves no slot counted in Redis: the sockets were disconnected, and their
\* releases done, before the adapter's clients quit (gracefulShutdown, close()).
OrderlyExitReleases == exit = "orderly" /\ ~late => counted = {}

\* After a signal the process ends, whatever stays open, hangs or fails meanwhile.
EndsAfterSignal == isShuttingDown ~> ~Running

\* The process does not stay up without a database for good: it gets a connection
\* again and again, or has ended.
ConnectedOrGone == []<>(database = "connected" \/ ~Running)

\* server.js:141-143: "sockets must go first so their disconnect
\* handlers can decrement the shared presence counters while Redis is still
\* reachable".  A process that has ended after a signal, with nothing gone wrong,
\* would then have released its slots.  It has not: see the README.
ShutdownReleases == isShuttingDown /\ ~Running /\ trouble = 0 => counted = {}

=============================================================================
