----------------------------- MODULE RateLimit ------------------------------
(***************************************************************************)
(* The rate limiters (backend/middleware/rateLimit.js) and the store they  *)
(* share (backend/middleware/rateLimitStore.js).                           *)
(*                                                                         *)
(* A client's hits on a limiter are counted by INCR in Redis, whose key    *)
(* expires at the end of a fixed window, or by the process's MemoryStore   *)
(* when Redis is not configured, not ready, or rejects a command.  The     *)
(* window is started by a second command, PEXPIRE, so a process can die,   *)
(* or lose Redis, between the two, and requests interleave between them.   *)
(*                                                                         *)
(* Time passes in ticks; a window is a number of them.  Hits are counted   *)
(* up to one more than the budget: nothing tells larger counts apart.      *)
(***************************************************************************)
EXTENDS Integers, SequencesExt

CONSTANTS
    InFlight,    \* HTTP requests of one client in flight
    Instances,   \* server processes
    Limiters,    \* the limiters in the order rateLimit.js constructs them
    Window,      \* limiterOptions' windowMs, in ticks
    Limit,       \* limiterOptions' max
    FaultBudget  \* bound on the number of crashes and lost connections

\* The client has one key per limiter: keyGenerator puts the prefix before it.
Keys == {Limiters[n] : n \in DOMAIN Limiters}

ASSUME LimitersAssumption == Limiters \in Seq(Keys) /\ Limiters # <<>>
ASSUME WindowAssumption == Window \in [Keys -> Nat \ {0}]
ASSUME LimitAssumption == Limit \in [Keys -> Nat \ {0}]

VARIABLES
    configured, \* REDIS_URL is set
    ready,      \* isRedisReady() of each process
    hits,       \* the value of each key in Redis; 0 when there is no key
    ttl,        \* its time left, as PTTL tells it: NoExpiry when it has no end
    memHits,    \* totalHits of each process's MemoryStore entries
    memLeft,    \* their time left until they start again
    starting,   \* the process and key of a request awaiting its PEXPIRE, or None
    faults,     \* crashes and lost connections so far
    beat        \* history: flips at every hit counted in Redis

limitVars == <<configured, ready, hits, ttl, memHits, memLeft, starting, faults, beat>>

NoExpiry == -1
None == <<>>

\* The windowMs of the shared store: each rateLimit(...) calls init(options) on
\* the store it is given, and all are given the same one, so the last call's
\* windowMs is left when the first request is served.
SharedWindow == Window[Last(Limiters)]

\* Without REDIS_URL createRateLimitStore() returns undefined and each limiter
\* has a MemoryStore of its own.
StoreWindow(k) == IF configured THEN SharedWindow ELSE Window[k]

Counts(k) == 0 .. Limit[k] + 1

LimitTypeOK ==
    /\ configured \in BOOLEAN
    /\ ready \in [Instances -> BOOLEAN]
    /\ \A k \in Keys : /\ hits[k] \in Counts(k)
                       /\ ttl[k] \in 1 .. StoreWindow(k) \cup {NoExpiry}
                       /\ hits[k] = 0 => ttl[k] = NoExpiry
    /\ \A i \in Instances, k \in Keys : /\ memHits[i][k] \in Counts(k)
                                        /\ memLeft[i][k] \in 0 .. StoreWindow(k)
    /\ starting \in [InFlight -> (Instances \X Keys) \cup {None}]
    /\ faults \in 0 .. FaultBudget
    /\ beat \in BOOLEAN

NoHits == [k \in Keys |-> 0]

LimitInit ==
    /\ configured \in BOOLEAN
    /\ ready = [i \in Instances |-> configured]
    /\ hits = NoHits
    /\ ttl = [k \in Keys |-> NoExpiry]
    /\ memHits = [i \in Instances |-> NoHits]
    /\ memLeft = [i \in Instances |-> NoHits]
    /\ starting = [r \in InFlight |-> None]
    /\ faults = 0
    /\ beat = FALSE

-----------------------------------------------------------------------------
\* One hit more, as far as the count matters
OneMore(count, k) == IF count > Limit[k] THEN count ELSE count + 1

\* MemoryStore.increment(): an entry whose time is over starts again.
CountInMemory(i, k) ==
    LET over == memLeft[i][k] = 0
    IN  /\ memHits' = [memHits EXCEPT ![i][k] = OneMore(IF over THEN 0 ELSE @, k)]
        /\ memLeft' = [memLeft EXCEPT ![i][k] = IF over THEN StoreWindow(k) ELSE @]

\* increment() when #usable() is false
IncrementInMemory(i, k) ==
    /\ ~ready[i]
    /\ CountInMemory(i, k)
    /\ UNCHANGED <<configured, ready, hits, ttl, starting, faults, beat>>

\* Whether this hit must start the window, by the two replies.  Mutant: it is
\* left to the hit that created the key.
StartsWindowAtFirstHit(count, left) == count = 1
StartsWindow(count, left) == left < 0

\* The reply to INCR.  Mutant: a key that has no expiry yet is set to one hit.
CountedAnew(k) == IF ttl[k] = NoExpiry THEN 1 ELSE OneMore(hits[k], k)
Counted(k) == OneMore(hits[k], k)

\* await client.multi().incr(key).pTTL(key).exec().  The client is limited when
\* the count exceeds the limit, whatever follows.
Increment(r, i, k) ==
    /\ ready[i]
    /\ starting[r] = None
    /\ hits' = [hits EXCEPT ![k] = Counted(k)]
    /\ starting' = IF StartsWindow(hits'[k], ttl[k])
                   THEN [starting EXCEPT ![r] = <<i, k>>]
                   ELSE starting
    /\ beat' = ~beat
    /\ UNCHANGED <<configured, ready, ttl, memHits, memLeft, faults>>

\* The expiry a PEXPIRE leaves.
FullWindow(k) == StoreWindow(k)

\* await client.pExpire(key, this.windowMs), on a key that may have gone
StartWindow(r) ==
    /\ starting[r] # None
    /\ ready[starting[r][1]]
    /\ LET k == starting[r][2]
       IN  ttl' = IF hits[k] > 0 THEN [ttl EXCEPT ![k] = FullWindow(k)] ELSE ttl
    /\ starting' = [starting EXCEPT ![r] = None]
    /\ UNCHANGED <<configured, ready, hits, memHits, memLeft, faults, beat>>

\* The PEXPIRE is rejected: the request is counted by the fallback, and the key
\* is left as it is.
StartWindowFails(r) ==
    /\ starting[r] # None
    /\ ~ready[starting[r][1]]
    /\ CountInMemory(starting[r][1], starting[r][2])
    /\ starting' = [starting EXCEPT ![r] = None]
    /\ UNCHANGED <<configured, ready, hits, ttl, faults, beat>>

-----------------------------------------------------------------------------
(* The environment.                                                        *)

\* A tick: Redis deletes the keys whose time has come.
Tick ==
    /\ hits' = [k \in Keys |-> IF ttl[k] = 1 THEN 0 ELSE hits[k]]
    /\ ttl' = [k \in Keys |-> IF ttl[k] \in {1, NoExpiry} THEN NoExpiry ELSE ttl[k] - 1]
    /\ memLeft' = [i \in Instances |->
                      [k \in Keys |-> IF memLeft[i][k] = 0 THEN 0 ELSE memLeft[i][k] - 1]]
    /\ UNCHANGED <<configured, ready, memHits, starting, faults, beat>>

Fault ==
    /\ faults < FaultBudget
    /\ faults' = faults + 1

LoseRedis(i) ==
    /\ Fault
    /\ ready[i]
    /\ ready' = [ready EXCEPT ![i] = FALSE]
    /\ UNCHANGED <<configured, hits, ttl, memHits, memLeft, starting, beat>>

RegainRedis(i) ==
    /\ configured
    /\ ~ready[i]
    /\ ready' = [ready EXCEPT ![i] = TRUE]
    /\ UNCHANGED <<configured, hits, ttl, memHits, memLeft, starting, faults, beat>>

\* A crash or a redeploy: the process's requests and MemoryStore are gone.
Restart(i) ==
    /\ Fault
    /\ starting' = [r \in InFlight |-> IF starting[r] # None /\ starting[r][1] = i
                                       THEN None ELSE starting[r]]
    /\ memHits' = [memHits EXCEPT ![i] = NoHits]
    /\ memLeft' = [memLeft EXCEPT ![i] = NoHits]
    /\ UNCHANGED <<configured, ready, hits, ttl, beat>>

-----------------------------------------------------------------------------
Finish(r) == StartWindow(r) \/ StartWindowFails(r)

LimitNext ==
    \/ \E i \in Instances, k \in Keys :
          IncrementInMemory(i, k) \/ \E r \in InFlight : Increment(r, i, k)
    \/ \E r \in InFlight : Finish(r)
    \/ \E i \in Instances : LoseRedis(i) \/ RegainRedis(i) \/ Restart(i)
    \/ Tick

\* Time passes and a request's await is answered; nothing obliges a client to
\* come back, Redis to return or a process to fail.
LimitFairness == WF_limitVars(Tick) /\ \A r \in InFlight : WF_limitVars(Finish(r))

LimitSpec == LimitInit /\ [][LimitNext]_limitVars /\ LimitFairness

-----------------------------------------------------------------------------
(* Properties.                                                             *)

\* "Without this the key would live forever and the client would stay limited
\* permanently": whatever requests are lost between the two commands, a client that
\* keeps being counted in Redis finds its count back at nothing again and again, so it
\* is never limited for good.
NeverLimitedForGood ==
    \A k \in Keys :
        []<><<\E r \in InFlight, i \in Instances : Increment(r, i, k)>>_beat
            => []<>(hits[k] = 0)

\* "An IP that does trip it recovers in under a minute rather than fifteen": a
\* limiter's count lasts at most that limiter's window.
RecoversInOwnWindow ==
    \A k \in Keys : /\ ttl[k] <= Window[k]
                    /\ \A i \in Instances : memLeft[i][k] <= Window[k]

=============================================================================
