--------------------------- MODULE RateLimitSpan ----------------------------
(***************************************************************************)
(* What the fixed window of the shared store is worth: RateLimit with an   *)
(* observer that no step of the code reads.  From a moment of its choice   *)
(* and for the length of one window it counts the hits on one key that     *)
(* Redis has counted and let pass.                                         *)
(***************************************************************************)
EXTENDS RateLimit

CONSTANT Watched  \* the key that is observed

ASSUME WatchedAssumption == Watched \in Keys

VARIABLES
    spanLeft,    \* ticks left of the span; 0 when nothing is observed
    spanPassed   \* the hits of the span whose count did not exceed the limit

spanVars == <<spanLeft, spanPassed>>

SpanTypeOK ==
    /\ spanLeft \in 0 .. StoreWindow(Watched)
    /\ spanPassed \in Nat

SpanInit ==
    /\ LimitInit
    /\ spanLeft = 0
    /\ spanPassed = 0

\* The span starts, at any moment.
BeginSpan ==
    /\ spanLeft = 0
    /\ spanLeft' = StoreWindow(Watched)
    /\ spanPassed' = 0
    /\ UNCHANGED limitVars

\* A request is counted in Redis.
SpanIncrement(r, i, k) ==
    /\ Increment(r, i, k)
    /\ spanPassed' = IF k = Watched /\ spanLeft > 0 /\ hits'[k] <= Limit[k]
                     THEN spanPassed + 1 ELSE spanPassed
    /\ UNCHANGED spanLeft

\* Time passes.
SpanTick ==
    /\ Tick
    /\ spanLeft' = IF spanLeft = 0 THEN 0 ELSE spanLeft - 1
    /\ spanPassed' = IF spanLeft' = 0 THEN 0 ELSE spanPassed

\* Everything else counts nothing in Redis.
SpanOther ==
    /\ \/ \E i \in Instances, k \in Keys : IncrementInMemory(i, k)
       \/ \E r \in InFlight : Finish(r)
       \/ \E i \in Instances : LoseRedis(i) \/ RegainRedis(i) \/ Restart(i)
    /\ UNCHANGED spanVars

SpanNext ==
    \/ BeginSpan
    \/ \E r \in InFlight, i \in Instances, k \in Keys : SpanIncrement(r, i, k)
    \/ SpanTick
    \/ SpanOther

SpanSpec == SpanInit /\ [][SpanNext]_<<limitVars, spanVars>> /\ LimitFairness

-----------------------------------------------------------------------------
\* "A fixed window permits up to 2x the limit across a window boundary", and as
\* the window starts at a hit it counts, never quite that: in any span as long
\* as the store's window, fewer than twice the limit of the hits counted in Redis
\* pass, whichever requests start the window, and through processes that die or
\* lose Redis between counting a hit and starting it.
TwicePerWindow == spanPassed < 2 * Limit[Watched]

=============================================================================
