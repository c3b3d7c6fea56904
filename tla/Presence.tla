------------------------------ MODULE Presence ------------------------------
(***************************************************************************)
(* Per-account connection counting (backend/socket/presence.js) and the    *)
(* handshake and disconnect handlers that drive it                         *)
(* (backend/socket/index.js, initSocket).                                  *)
(*                                                                         *)
(* An account may hold MaxPerUser sockets in the whole cluster.  The slot  *)
(* is reserved in a handshake middleware and given back by the disconnect  *)
(* handler; the count is an integer in Redis, or an entry of a per-process *)
(* Map when Redis is not configured or cannot be reached.  Every Redis     *)
(* command is awaited, so the commands of one call interleave with those   *)
(* of every other socket of the account: each is a step of its own here.   *)
(***************************************************************************)
EXTENDS Integers, FiniteSets

CONSTANTS
    Users,        \* accounts
    Instances,    \* server processes
    Conns,        \* clients' sockets; a closed one may connect again
    UserOf,       \* the account of a socket
    InstOf,       \* the process a socket connects to (sticky sessions)
    MaxPerUser,   \* MAX_SOCKETS_PER_USER
    Configured,   \* REDIS_URL is set
    Faults,       \* the kinds of fault the environment may inject
    FaultBudget   \* bound on their number

FaultKinds == {"abandon", "outage", "crash", "shutdown", "expiry"}

ASSUME ConnsFinite == IsFiniteSet(Conns)
ASSUME OwnersAssumption == /\ UserOf \in [Conns -> Users]
                           /\ InstOf \in [Conns -> Instances]
ASSUME MaxAssumption == MaxPerUser \in Nat \ {0}
ASSUME ConfigAssumption == /\ Configured \in BOOLEAN
                           /\ Faults \subseteq FaultKinds
                           /\ FaultBudget \in Nat

VARIABLES
    phase,      \* where the socket is in its handshake or disconnect handler
    gone,       \* the client hung up before its handshake was answered
    got,        \* acquire()'s local `count`, the reply to INCR
    unit,       \* history: which counter the socket's slot was taken from
    shared,     \* presence:conn:<user> in Redis
    ttl,        \* its expiry as TTL tells it: "missing" (no key, counts as
                \* 0), "forever" (a key without one) or "set"
    local,      \* the `local` Map of each process; a missing entry is 0
    link,       \* the process's presenceClient: "none" (null), "ready", "lost"
    up,         \* the process runs
    closing,    \* initSocket's `closing` flag
    announced,  \* the last userOnline / userOffline the other clients heard
    lostShared, \* history: counted in `shared`, but no socket will return it
    lostLocal,  \* history: the same for `local`
    budget      \* faults the environment may still inject

connVars  == <<phase, gone, got, unit>>
redisVars == <<shared, ttl>>
procVars  == <<local, link, up, closing>>
lostVars  == <<lostShared, lostLocal>>
vars == <<connVars, redisVars, procVars, announced, lostVars, budget>>

(* Acquiring: auth, incr, expire, decr.  Releasing: kicked, rel, del.      *)
Phases == {"idle", "auth", "incr", "expire", "decr", "open", "kicked", "rel",
           "del"}
Handshaking == {"auth", "incr", "expire", "decr"}
Awaiting == {"incr", "expire", "decr", "rel", "del"}

SocketsOf(u) == {c \in Conns : UserOf[c] = u}
Open(u) == {c \in SocketsOf(u) : phase[c] = "open"}
InFlight(u) == {c \in SocketsOf(u) : phase[c] \in Awaiting}
SharedHolders(u) == {c \in SocketsOf(u) : unit[c] = "shared"}
LocalHolders(i, u) == {c \in SocketsOf(u) : InstOf[c] = i /\ unit[c] = "local"}

TypeOK ==
    /\ phase \in [Conns -> Phases]
    /\ gone \in [Conns -> BOOLEAN]
    /\ got \in [Conns -> Int]
    /\ unit \in [Conns -> {"none", "shared", "local"}]
    /\ shared \in [Users -> Int]
    /\ ttl \in [Users -> {"missing", "forever", "set"}]
    /\ local \in [Instances -> [Users -> Nat]]
    /\ link \in [Instances -> {"none", "ready", "lost"}]
    /\ up \in [Instances -> BOOLEAN]
    /\ closing \in [Instances -> BOOLEAN]
    /\ announced \in [Users -> {"online", "offline"}]
    /\ lostShared \in [Users -> Nat]
    /\ lostLocal \in [Instances -> [Users -> Nat]]
    /\ budget \in Nat

Init ==
    /\ phase = [c \in Conns |-> "idle"]
    /\ gone = [c \in Conns |-> FALSE]
    /\ got = [c \in Conns |-> 0]
    /\ unit = [c \in Conns |-> "none"]
    /\ shared = [u \in Users |-> 0]
    /\ ttl = [u \in Users |-> "missing"]
    /\ local = [i \in Instances |-> [u \in Users |-> 0]]
    /\ link = [i \in Instances |-> IF Configured THEN "ready" ELSE "none"]
    /\ up = [i \in Instances |-> TRUE]
    /\ closing = [i \in Instances |-> FALSE]
    /\ announced = [u \in Users |-> "offline"]
    /\ lostShared = [u \in Users |-> 0]
    /\ lostLocal = [i \in Instances |-> [u \in Users |-> 0]]
    /\ budget = FaultBudget

-----------------------------------------------------------------------------
(* The ends of acquire() and release(), as their callers continue.         *)

\* usable()
Usable(c) == link[InstOf[c]] = "ready"

\* next(): the socket gets its connection event and announces the account's
\* first one.  Socket.IO drops a socket whose client has hung up meanwhile:
\* no connection event, so no disconnect handler will ever return its slot.
Admit(c, counter, isFirst) ==
    /\ phase' = [phase EXCEPT ![c] = IF gone[c] THEN "idle" ELSE "open"]
    /\ unit' = [unit EXCEPT ![c] = IF gone[c] THEN "none" ELSE counter]
    /\ gone' = [gone EXCEPT ![c] = FALSE]
    /\ got' = [got EXCEPT ![c] = 0]
    /\ announced' = IF isFirst /\ ~gone[c]
                    THEN [announced EXCEPT ![UserOf[c]] = "online"]
                    ELSE announced

\* next(new Error('Too many connections')), or the handshake never got there
Refuse(c) ==
    /\ phase' = [phase EXCEPT ![c] = "idle"]
    /\ unit' = [unit EXCEPT ![c] = "none"]
    /\ gone' = [gone EXCEPT ![c] = FALSE]
    /\ got' = [got EXCEPT ![c] = 0]
    /\ UNCHANGED announced

\* The disconnect handler after release(): announce the last one, unless the
\* process is shutting down.
Leave(c, isLast) ==
    /\ phase' = [phase EXCEPT ![c] = "idle"]
    /\ unit' = [unit EXCEPT ![c] = "none"]
    /\ announced' = IF isLast /\ ~closing[InstOf[c]]
                    THEN [announced EXCEPT ![UserOf[c]] = "offline"]
                    ELSE announced
    /\ UNCHANGED <<gone, got>>

\* The cap, as localAcquire() tests it before it counts one more; a mutant that
\* is off by one.
FullTooLate(count) == count > MaxPerUser
Full(count) == count >= MaxPerUser

\* localAcquire() in the socket's process
LocalAcquire(c) ==
    LET i == InstOf[c]
        u == UserOf[c]
    IN  \/ /\ Full(local[i][u])
           /\ Refuse(c)
           /\ UNCHANGED <<local, lostLocal>>
        \/ /\ ~Full(local[i][u])
           /\ local' = [local EXCEPT ![i][u] = @ + 1]
           /\ Admit(c, "local", local[i][u] = 0)
           /\ lostLocal' = IF gone[c] THEN [lostLocal EXCEPT ![i][u] = @ + 1]
                                      ELSE lostLocal

\* The count localRelease() leaves: a missing entry counts as 1, and none is
\* kept at 0.  Mutant: the entry is never written back.
AfterReleaseNotStored(count) == IF count <= 1 THEN 0 ELSE count
AfterRelease(count) == IF count <= 1 THEN 0 ELSE count - 1

\* localRelease()
LocalRelease(c) ==
    LET i == InstOf[c]
        u == UserOf[c]
        isLast == local[i][u] <= 1
    IN  /\ local' = [local EXCEPT ![i][u] = AfterRelease(@)]
        /\ lostLocal' = IF isLast THEN [lostLocal EXCEPT ![i][u] = 0]
                                  ELSE lostLocal
        /\ Leave(c, isLast)

-----------------------------------------------------------------------------
(* Handshake.                                                              *)

\* A client opens a socket; socketAuthMiddleware awaits the account lookup.
Connect(c) ==
    /\ phase[c] = "idle"
    /\ up[InstOf[c]]
    /\ ~closing[InstOf[c]]
    /\ phase' = [phase EXCEPT ![c] = "auth"]
    /\ UNCHANGED <<gone, got, unit, redisVars, procVars, announced, lostVars,
                   budget>>

\* The token or the account is rejected: no slot is taken.
RejectToken(c) ==
    /\ phase[c] = "auth"
    /\ Refuse(c)
    /\ UNCHANGED <<redisVars, procVars, lostVars, budget>>

\* The account is accepted and the second middleware calls acquire().
CallAcquire(c) ==
    /\ phase[c] = "auth"
    /\ \/ /\ Usable(c)
          /\ phase' = [phase EXCEPT ![c] = "incr"]
          /\ UNCHANGED <<gone, got, unit, local, announced, lostLocal>>
       \/ /\ ~Usable(c)
          /\ LocalAcquire(c)
    /\ UNCHANGED <<redisVars, link, up, closing, lostShared, budget>>

\* INCR and DECR create a missing key, and without an expiry.
TouchKey(u) ==
    ttl' = [ttl EXCEPT ![u] = IF @ = "missing" THEN "forever" ELSE @]

\* await client.incr(KEY)
Incr(c) ==
    /\ phase[c] = "incr"
    /\ Usable(c)
    /\ shared' = [shared EXCEPT ![UserOf[c]] = @ + 1]
    /\ got' = [got EXCEPT ![c] = shared'[UserOf[c]]]
    /\ unit' = [unit EXCEPT ![c] = "shared"]
    /\ phase' = [phase EXCEPT ![c] = "expire"]
    /\ TouchKey(UserOf[c])
    /\ UNCHANGED <<gone, procVars, announced, lostVars, budget>>

\* The key's expiry, refreshed by every acquire().  EXPIRE does nothing to a
\* key that a release has deleted since the INCR.  Mutant: it is forgotten.
SetTtlForgotten(u) == UNCHANGED ttl
SetTtl(u) == ttl' = [ttl EXCEPT ![u] = IF @ = "missing" THEN @ ELSE "set"]

\* await client.expire(KEY, TTL), then the cap decides.
Expire(c) ==
    /\ phase[c] = "expire"
    /\ Usable(c)
    /\ SetTtl(UserOf[c])
    /\ \/ /\ got[c] > MaxPerUser
          /\ phase' = [phase EXCEPT ![c] = "decr"]
          /\ UNCHANGED <<gone, got, unit, announced, lostShared>>
       \/ /\ got[c] <= MaxPerUser
          /\ Admit(c, "shared", got[c] = 1)
          /\ lostShared' = IF gone[c]
                           THEN [lostShared EXCEPT ![UserOf[c]] = @ + 1]
                           ELSE lostShared
    /\ UNCHANGED <<shared, procVars, lostLocal, budget>>

\* Mutant: the refused socket keeps the slot it was counted in.
GiveBackNothing(c) ==
    /\ phase[c] = "decr"
    /\ Usable(c)
    /\ Refuse(c)
    /\ UNCHANGED <<redisVars, procVars, lostVars, budget>>

\* await client.decr(KEY) of a refused socket
GiveBack(c) ==
    /\ phase[c] = "decr"
    /\ Usable(c)
    /\ shared' = [shared EXCEPT ![UserOf[c]] = @ - 1]
    /\ TouchKey(UserOf[c])
    /\ Refuse(c)
    /\ UNCHANGED <<procVars, lostVars, budget>>

\* A command of acquire() is rejected: the catch block counts the socket
\* locally, whatever Redis has counted already.  A rejected command may have
\* taken effect: only its reply is sure to be lost.
AcquireFallsBack(c) ==
    /\ phase[c] \in {"incr", "expire", "decr"}
    /\ link[InstOf[c]] = "lost"
    /\ LocalAcquire(c)
    /\ \/ /\ phase[c] = "decr"
          /\ shared' = [shared EXCEPT ![UserOf[c]] = @ - 1]
          /\ TouchKey(UserOf[c])
          /\ UNCHANGED lostShared
       \/ /\ UNCHANGED shared
          /\ \/ phase[c] = "expire" /\ SetTtl(UserOf[c])
             \/ UNCHANGED ttl
          /\ lostShared' = IF unit[c] = "shared"
                           THEN [lostShared EXCEPT ![UserOf[c]] = @ + 1]
                           ELSE lostShared
    /\ UNCHANGED <<link, up, closing, budget>>

-----------------------------------------------------------------------------
(* Disconnect.                                                             *)

\* The client closes the socket, or the server has: the disconnect event calls
\* release().  Nothing remembers which counter the slot was taken from.
Disconnect(c) ==
    /\ phase[c] \in {"open", "kicked"}
    /\ \/ /\ Usable(c)
          /\ phase' = [phase EXCEPT ![c] = "rel"]
          /\ UNCHANGED <<gone, got, unit, local, announced, lostVars>>
       \/ /\ ~Usable(c)
          /\ LocalRelease(c)
          /\ lostShared' = IF unit[c] = "shared"
                           THEN [lostShared EXCEPT ![UserOf[c]] = @ + 1]
                           ELSE lostShared
    /\ UNCHANGED <<redisVars, link, up, closing, budget>>

\* The last release, by the counter; a mutant that trusts it never to be lower.
NoneLeftExactly(count) == count = 0
NoneLeft(count) == count <= 0

\* await client.decr(KEY) of a closed socket
Decr(c) ==
    /\ phase[c] = "rel"
    /\ Usable(c)
    /\ shared' = [shared EXCEPT ![UserOf[c]] = @ - 1]
    /\ TouchKey(UserOf[c])
    /\ lostLocal' = IF unit[c] = "local"
                    THEN [lostLocal EXCEPT ![InstOf[c]][UserOf[c]] = @ + 1]
                    ELSE lostLocal
    /\ \/ /\ NoneLeft(shared'[UserOf[c]])
          /\ phase' = [phase EXCEPT ![c] = "del"]
          /\ unit' = [unit EXCEPT ![c] = "none"]
          /\ UNCHANGED <<gone, got, announced>>
       \/ /\ ~NoneLeft(shared'[UserOf[c]])
          /\ Leave(c, FALSE)
    /\ UNCHANGED <<procVars, lostShared, budget>>

\* The key and every unit in it, whoever took it, are gone.
ForgetKey(u) ==
    /\ shared' = [shared EXCEPT ![u] = 0]
    /\ ttl' = [ttl EXCEPT ![u] = "missing"]
    /\ lostShared' = [lostShared EXCEPT ![u] = 0]

\* await client.del(KEY)
Del(c) ==
    /\ phase[c] = "del"
    /\ Usable(c)
    /\ ForgetKey(UserOf[c])
    /\ Leave(c, TRUE)
    /\ UNCHANGED <<procVars, lostLocal, budget>>

\* A command of release() is rejected: the catch block releases locally.
ReleaseFallsBack(c) ==
    /\ phase[c] \in {"rel", "del"}
    /\ link[InstOf[c]] = "lost"
    /\ LocalRelease(c)
    /\ \/ /\ phase[c] = "del"
          /\ ForgetKey(UserOf[c])
       \/ /\ phase[c] = "rel"
          /\ shared' = [shared EXCEPT ![UserOf[c]] = @ - 1]
          /\ TouchKey(UserOf[c])
          /\ UNCHANGED lostShared
       \/ /\ UNCHANGED redisVars
          /\ lostShared' = IF unit[c] = "shared"
                           THEN [lostShared EXCEPT ![UserOf[c]] = @ + 1]
                           ELSE lostShared
    /\ UNCHANGED <<link, up, closing, budget>>

-----------------------------------------------------------------------------
(* The environment.                                                        *)

Inject(kind) ==
    /\ kind \in Faults
    /\ budget > 0
    /\ budget' = budget - 1

\* The client goes away before its handshake is answered.
HangUp(c) ==
    /\ Inject("abandon")
    /\ phase[c] \in Handshaking
    /\ ~gone[c]
    /\ gone' = [gone EXCEPT ![c] = TRUE]
    /\ UNCHANGED <<phase, got, unit, redisVars, procVars, announced, lostVars>>

\* The connection of one process to Redis breaks ...
LoseRedis(i) ==
    /\ Inject("outage")
    /\ up[i] /\ link[i] = "ready"
    /\ link' = [link EXCEPT ![i] = "lost"]
    /\ UNCHANGED <<connVars, redisVars, local, up, closing, announced, lostVars>>

\* ... and is re-established; commands queued meanwhile are sent then.
RegainRedis(i) ==
    /\ up[i] /\ link[i] = "lost"
    /\ link' = [link EXCEPT ![i] = "ready"]
    /\ UNCHANGED <<connVars, redisVars, local, up, closing, announced, lostVars,
                   budget>>

\* Redis slots that nobody will return once process i has ended
Stranded(i, u) == {c \in SharedHolders(u) : InstOf[c] = i}

\* The process ends: its sockets, its Map and its pending commands with it.
Stop(i) ==
    /\ phase' = [c \in Conns |-> IF InstOf[c] = i THEN "idle" ELSE phase[c]]
    /\ gone' = [c \in Conns |-> IF InstOf[c] = i THEN FALSE ELSE gone[c]]
    /\ got' = [c \in Conns |-> IF InstOf[c] = i THEN 0 ELSE got[c]]
    /\ unit' = [c \in Conns |-> IF InstOf[c] = i THEN "none" ELSE unit[c]]
    /\ lostShared' =
          [u \in Users |-> lostShared[u] + Cardinality(Stranded(i, u))]
    /\ local' = [local EXCEPT ![i] = [u \in Users |-> 0]]
    /\ lostLocal' = [lostLocal EXCEPT ![i] = [u \in Users |-> 0]]
    /\ up' = [up EXCEPT ![i] = FALSE]
    /\ closing' = [closing EXCEPT ![i] = FALSE]
    /\ link' = [link EXCEPT ![i] = "none"]
    /\ UNCHANGED <<redisVars, announced>>

Crash(i) ==
    /\ Inject("crash")
    /\ up[i]
    /\ Stop(i)

\* attachRedisAdapter: without a connection at boot the process stays local.
Restart(i) ==
    /\ ~up[i]
    /\ up' = [up EXCEPT ![i] = TRUE]
    /\ \/ /\ link' = [link EXCEPT ![i] = IF Configured THEN "ready" ELSE "none"]
          /\ UNCHANGED budget
       \/ /\ Inject("outage")
          /\ link' = [link EXCEPT ![i] = "none"]
    /\ UNCHANGED <<connVars, redisVars, local, closing, announced, lostVars>>

\* close(): the flag, then io.disconnectSockets(), which the Redis adapter
\* carries to the sockets of every other process as well.
Close(i) ==
    /\ Inject("shutdown")
    /\ up[i] /\ ~closing[i]
    /\ closing' = [closing EXCEPT ![i] = TRUE]
    /\ LET kicked(c) == /\ phase[c] = "open"
                        /\ InstOf[c] = i \/ (Usable(c) /\ link[i] = "ready")
       IN  phase' = [c \in Conns |-> IF kicked(c) THEN "kicked" ELSE phase[c]]
    /\ UNCHANGED <<gone, got, unit, redisVars, local, link, up, announced,
                   lostVars>>

\* After the 100ms drain the clients are quit and the process exits, whether
\* or not every release has been answered.
Exit(i) ==
    /\ up[i] /\ closing[i]
    /\ \A c \in Conns : InstOf[c] = i => phase[c] # "kicked"
    /\ Stop(i)
    /\ UNCHANGED budget

\* Twelve hours after the last acquire() the key goes, sockets open or not.
TtlFires(u) ==
    /\ Inject("expiry")
    /\ ttl[u] = "set"
    /\ InFlight(u) = {}
    /\ ForgetKey(u)
    /\ UNCHANGED <<connVars, procVars, announced, lostLocal>>

-----------------------------------------------------------------------------
Command(c) ==
    \/ CallAcquire(c) \/ Incr(c) \/ Expire(c) \/ GiveBack(c)
    \/ AcquireFallsBack(c)
    \/ Decr(c) \/ Del(c) \/ ReleaseFallsBack(c)

Environment ==
    \/ \E c \in Conns : HangUp(c)
    \/ \E i \in Instances : \/ LoseRedis(i) \/ RegainRedis(i)
                            \/ Crash(i) \/ Restart(i)
                            \/ Close(i) \/ Exit(i)
    \/ \E u \in Users : TtlFires(u)

Next ==
    \/ \E c \in Conns : Connect(c) \/ RejectToken(c) \/ Command(c) \/ Disconnect(c)
    \/ Environment

Spec == Init /\ [][Next]_vars

-----------------------------------------------------------------------------
(* Properties.                                                             *)

\* The Redis counter never holds more than the slots of living sockets and
\* those stranded by a fault: acquire() and release(), refusals included, hand
\* back what they take, so an account is not locked out without a fault.
SharedAccounted ==
    \A u \in Users : shared[u] <= Cardinality(SharedHolders(u)) + lostShared[u]

\* The same for the fallback Map of each process.
LocalAccounted ==
    \A i \in Instances, u \in Users :
        local[i][u] <= Cardinality(LocalHolders(i, u)) + lostLocal[i][u]

\* While the environment has injected nothing.
NoFaultYet == budget = FaultBudget

\* Until a fault happens, and for an account that cannot exceed its cap: once
\* all its sockets are closed and their handlers done, the last thing the other
\* clients heard is userOffline.
SilentMeansOffline ==
    \A u \in Users :
        /\ NoFaultYet
        /\ Cardinality(SocketsOf(u)) <= MaxPerUser
        /\ \A c \in SocketsOf(u) : phase[c] = "idle"
        => announced[u] = "offline"

\* Until a fault happens, a key that counts somebody has an expiry, or an
\* acquire() is about to set one, however releases and acquires interleave: a
\* DEL between INCR and EXPIRE leaves that EXPIRE without effect, and the key
\* that the next INCR creates has its own EXPIRE ahead.
KeysExpire ==
    \A u \in Users :
        NoFaultYet /\ shared[u] > 0 =>
            ttl[u] = "set" \/ \E c \in SocketsOf(u) : phase[c] = "expire"

\* "How many sockets does this account have open, across the whole cluster?":
\* with no handler of the account running, the counter is the answer.
SharedExact ==
    \A u \in Users : InFlight(u) = {} => shared[u] = Cardinality(Open(u))

\* Without Redis the Map counts exactly the sockets that are connected or whose
\* disconnect handler is about to run.
LocalExact ==
    \A i \in Instances, u \in Users :
        local[i][u] = Cardinality({c \in SocketsOf(u) :
                          InstOf[c] = i /\ phase[c] \in {"open", "kicked"}})

\* One process without Redis keeps the promise of ConnectionCap.
Promise == INSTANCE ConnectionCap WITH
    open <- [u \in Users |-> Open(u)],
    online <- [u \in Users |-> announced[u] = "online"]

KeepsPromise == Promise!Spec

=============================================================================
