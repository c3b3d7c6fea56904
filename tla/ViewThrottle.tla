---------------------------- MODULE ViewThrottle ----------------------------
(***************************************************************************)
(* Which views of a story count: userViewCounts of backend/controllers/    *)
(* storyController.js, an in-process table with an entry for each viewer   *)
(* and story, swept now and then and cut to a cap.  A Map lists its keys   *)
(* in the order of their insertion, and a key that is set again keeps its  *)
(* place: beside the entries the order is kept, as a relation of the keys. *)
(*                                                                         *)
(* Time is told by how old an entry is: under five seconds, under an hour, *)
(* or stale.  Views without a token, of the author, and the anonymous      *)
(* POST of trackStoryView are counted every time or never and left out.    *)
(***************************************************************************)
EXTENDS Naturals, FiniteSets, Functions

CONSTANTS
    Keys,          \* a viewer and a story
    MaxPerWindow,  \* views counted for a key before a pause of an hour
    MapCap,        \* VIEW_MAP_MAX_ENTRIES
    SweepInterval, \* VIEW_SWEEP_INTERVAL
    MaxTicks       \* bound on the passing of time

ASSUME ThrottleAssumption ==
    /\ MaxPerWindow \in Nat \ {0} /\ MapCap \in Nat
    /\ SweepInterval \in Nat \ {0} /\ MaxTicks \in Nat

VARIABLES
    entries,    \* userViewCounts: the count and the age of the keys it has
    order,      \* pairs of its keys, the first inserted before the second
    writes,     \* viewWritesSinceSweep
    counted,    \* views of a key counted since its last pause of an hour
    evicted,    \* keys whose entry the cap dropped since
    lastViewed, \* how long ago the last counted view of a key was
    ticks

throttleVars == <<entries, order, writes, counted, evicted, lastViewed, ticks>>

Ages == {"now", "recent", "stale"}
Entry == [count : 1 .. MaxPerWindow, age : Ages]

ThrottleTypeOK ==
    /\ DOMAIN entries \subseteq Keys
    /\ entries \in [DOMAIN entries -> Entry]
    /\ order \subseteq (DOMAIN entries) \X (DOMAIN entries)
    /\ writes \in 0 .. SweepInterval - 1
    /\ counted \in [Keys -> Nat]
    /\ evicted \subseteq Keys
    /\ lastViewed \in [Keys -> Ages]
    /\ ticks \in 0 .. MaxTicks

ThrottleInit ==
    /\ entries = [k \in {} |-> {}] /\ order = {}
    /\ writes = 0
    /\ counted = [k \in Keys |-> 0]
    /\ evicted = {}
    /\ lastViewed = [k \in Keys |-> "stale"]
    /\ ticks = 0

\* What an entry still says, one older than an hour nothing.
CountOf(k) == IF k \in DOMAIN entries /\ entries[k].age # "stale" THEN entries[k].count ELSE 0

\* Map.set: a new key is the last, an entry there is keeps its place.
SetEntry(k, e) == [j \in DOMAIN entries \cup {k} |-> IF j = k THEN e ELSE entries[j]]
Placed(k) == IF k \in DOMAIN entries THEN order ELSE order \cup ((DOMAIN entries) \X {k})

Live(table) == {k \in DOMAIN table : table[k].age # "stale"}

\* sweepViewCounts: stale entries go, then the first inserted down to the cap.
Kept(table, places) ==
    {k \in Live(table) : Cardinality({j \in Live(table) : <<k, j>> \in places}) < MapCap}

\* recordView.
RecordView(k, e) ==
    LET table == SetEntry(k, e)
        kept == Kept(table, Placed(k))
    IN
    IF writes + 1 >= SweepInterval
    THEN /\ writes' = 0
         /\ entries' = Restrict(table, kept)
         /\ order' = Placed(k) \cap (kept \X kept)
         /\ evicted' = evicted \cup (Live(table) \ kept)
    ELSE /\ writes' = writes + 1
         /\ entries' = table
         /\ order' = Placed(k)
         /\ UNCHANGED evicted

\* getStoryById counts the view.  Mutant: it only looks at the five seconds.
MayCountSoon(k) == k \in DOMAIN entries => entries[k].age # "now"
MayCount(k) ==
    /\ k \in DOMAIN entries => entries[k].age # "now"
    /\ CountOf(k) < MaxPerWindow

ViewCounted(k) ==
    /\ MayCount(k)
    /\ RecordView(k, [count |-> IF CountOf(k) < MaxPerWindow THEN CountOf(k) + 1 ELSE MaxPerWindow,
                      age |-> "now"])
    /\ counted' = [counted EXCEPT ![k] = IF @ > MaxPerWindow THEN @ ELSE @ + 1]
    /\ lastViewed' = [lastViewed EXCEPT ![k] = "now"]
    /\ UNCHANGED ticks

\* Five seconds go by.
SecondsPass ==
    LET older(a) == IF a = "now" THEN "recent" ELSE a IN
    /\ ticks < MaxTicks
    /\ ticks' = ticks + 1
    /\ entries' = [k \in DOMAIN entries |-> [entries[k] EXCEPT !.age = older(@)]]
    /\ lastViewed' = [k \in Keys |-> older(lastViewed[k])]
    /\ UNCHANGED <<order, writes, counted, evicted>>

\* An hour since the last counted view of some keys, and not of those viewed later.
HourPasses(K) ==
    /\ ticks < MaxTicks
    /\ K # {} /\ \A k \in K : lastViewed[k] # "stale"
    /\ \A k \in K, j \in Keys : lastViewed[k] = "now" /\ lastViewed[j] = "recent" => j \in K
    /\ ticks' = ticks + 1
    /\ entries' = [k \in DOMAIN entries |->
                      IF k \in K THEN [entries[k] EXCEPT !.age = "stale"] ELSE entries[k]]
    /\ lastViewed' = [k \in Keys |-> IF k \in K THEN "stale" ELSE lastViewed[k]]
    /\ counted' = [k \in Keys |-> IF k \in K THEN 0 ELSE counted[k]]
    /\ evicted' = evicted \ K
    /\ UNCHANGED <<order, writes>>

ThrottleNext ==
    \/ \E k \in Keys : ViewCounted(k)
    \/ SecondsPass
    \/ \E K \in SUBSET Keys : HourPasses(K)

ThrottleSpec == ThrottleInit /\ [][ThrottleNext]_throttleVars

-----------------------------------------------------------------------------
(* Properties.                                                             *)

\* Between two pauses of an hour no more views of a key count than the code allows,
\* until the cap drops its entry: a key keeps its place of insertion, so this may be
\* the one that is viewed the most (getStoryById, sweepViewCounts).
FewPerWindow == \A k \in Keys \ evicted : counted[k] <= MaxPerWindow

=============================================================================
