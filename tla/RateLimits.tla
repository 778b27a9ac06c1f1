----------------------------- MODULE RateLimits -----------------------------
(***************************************************************************)
(* The sliding-window rate limiter (dht-core/src/ratelimit.rs) and its two *)
(* uses: the DHT node has one limiter with a bucket per address, the relay *)
(* (relay/src/main.rs, handle_connection) a table with a limiter per       *)
(* address.  Both tables are bounded, and both forget: the DHT's by        *)
(* evicting any bucket, the relay's by evicting the address it has not     *)
(* heard of for longest and by a periodic clean-up.                        *)
(*                                                                         *)
(* The two share nothing: "limiter" says which one a behaviour is about.   *)
(* Every operation runs under the table's lock, so each is one step; but   *)
(* allow and prune read the time before they wait for that lock, so at     *)
(* the DHT node they work with any time that has been.  The relay holds    *)
(* the lock of its own table around allow: there the time is the current.  *)
(***************************************************************************)
EXTENDS Integers, FiniteSets

CONSTANTS
    Sources,     \* addresses
    NoBucket,    \* no entry
    RatePerWindow, \* max
    Window,      \* window, in ticks
    MaxBuckets,  \* max_buckets, MAX_PEER_LIMITERS
    LimiterKeep, \* twice PEER_LIMITER_CLEANUP_SECS, in ticks
    MaxRateClock \* bound: the clock stops here

\* An entry of the Vec of times; slot tells apart those of one time.
Stamps == [at : Nat, slot : 1..RatePerWindow]
RateBuckets == [times : SUBSET Stamps, last : Nat]

ASSUME RateLimitsAssumption ==
    /\ RatePerWindow \in Nat \ {0} /\ Window \in Nat /\ MaxBuckets \in Nat \ {0}
    /\ LimiterKeep \in Nat /\ LimiterKeep > Window /\ MaxRateClock \in Nat
    /\ NoBucket \notin RateBuckets

VARIABLES
    limiter,    \* "dht" or "relay"
    rateClock,
    buckets,    \* buckets[a]: times of the operations and of the last access, or NoBucket
    granted     \* observation: what a was let in for and still counts, since its bucket was last evicted

rateVars == <<limiter, rateClock, buckets, granted>>

Tracked == {a \in Sources : buckets[a] # NoBucket}

\* What retain keeps.
Recent(s, now) == {e \in s : e.at >= now - Window}
Times(a, now) == IF a \in Tracked THEN Recent(buckets[a].times, now) ELSE {}

RateInit ==
    /\ limiter \in {"dht", "relay"}
    /\ rateClock = 0
    /\ buckets = [a \in Sources |-> NoBucket]
    /\ granted = [a \in Sources |-> {}]

\* allow, for one bucket: a refused operation is not entered.
Allowed(a, now) == Cardinality(Times(a, now)) < RatePerWindow
FreeSlot(s) == CHOOSE i \in 1..RatePerWindow : \A e \in s : e.slot # i
Pushed(a, now) == IF Allowed(a, now) THEN {[at |-> now, slot |-> FreeSlot(Times(a, now))]} ELSE {}
Entered(a, now) == [times |-> Times(a, now) \cup Pushed(a, now), last |-> rateClock]

\* Mutant of Evictable: the table is only cut when it is already too large.
EvictableLate(a) ==
    IF a \notin Tracked /\ Cardinality(Tracked) > MaxBuckets THEN Tracked ELSE {}

\* allow takes the "first key in the map", which is any.
Evictable(a) ==
    IF a \notin Tracked /\ Cardinality(Tracked) >= MaxBuckets THEN Tracked ELSE {}

\* The grants that the limit is measured on: those that still count.
Note(a, now, evicted) ==
    granted' = [b \in Sources |-> IF b \in evicted THEN {}
                                  ELSE IF b = a THEN Recent(granted[b] \cup Pushed(a, now), rateClock)
                                  ELSE granted[b]]

DhtAllow(a, now) ==
    /\ limiter = "dht"
    /\ \E evicted \in IF Evictable(a) = {} THEN {{}} ELSE {{v} : v \in Evictable(a)} :
          /\ buckets' = [b \in Sources |-> IF b = a THEN Entered(a, now)
                                           ELSE IF b \in evicted THEN NoBucket ELSE buckets[b]]
          /\ Note(a, now, evicted)
    /\ UNCHANGED <<limiter, rateClock>>

\* prune; nothing starts start_background_prune, which does the same.
Prune(now) ==
    /\ limiter = "dht"
    /\ buckets' = [a \in Sources |-> IF Times(a, now) = {} THEN NoBucket
                                     ELSE [buckets[a] EXCEPT !.times = Times(a, now)]]
    /\ UNCHANGED <<limiter, rateClock, granted>>

\* handle_connection: the entry is made and dated before the limiter is asked; a
\* refused connection returns before the size of the table is looked at.
RelayAllow(a) ==
    /\ limiter = "relay"
    /\ LET noted == [buckets EXCEPT ![a] = Entered(a, rateClock)]
           all == Tracked \cup {a}
           oldest == {b \in all : \A c \in all : noted[b].last <= noted[c].last}
       IN \E evicted \in IF Allowed(a, rateClock) /\ Cardinality(all) > MaxBuckets
                         THEN {{v} : v \in oldest} ELSE {{}} :
             /\ buckets' = [b \in Sources |-> IF b \in evicted THEN NoBucket ELSE noted[b]]
             /\ Note(a, rateClock, evicted)
    /\ UNCHANGED <<limiter, rateClock>>

\* Mutant of RelayCleanup: entries older than one tick go.
RelayCleanupEager ==
    /\ limiter = "relay"
    /\ buckets' = [a \in Sources |-> IF a \in Tracked /\ buckets[a].last > rateClock - 1
                                     THEN buckets[a] ELSE NoBucket]
    /\ UNCHANGED <<limiter, rateClock, granted>>

\* The periodic clean-up of conn_limiters.
RelayCleanup ==
    /\ limiter = "relay"
    /\ buckets' = [a \in Sources |-> IF a \in Tracked /\ buckets[a].last > rateClock - LimiterKeep
                                     THEN buckets[a] ELSE NoBucket]
    /\ UNCHANGED <<limiter, rateClock, granted>>

RateTick ==
    /\ rateClock < MaxRateClock
    /\ rateClock' = rateClock + 1
    /\ granted' = [a \in Sources |-> Recent(granted[a], rateClock + 1)]
    /\ UNCHANGED <<limiter, buckets>>

RateNext ==
    \/ \E a \in Sources : RelayAllow(a) \/ \E now \in 0..rateClock : DhtAllow(a, now)
    \/ \E now \in 0..rateClock : Prune(now)
    \/ RelayCleanup
    \/ RateTick

RateSpec == RateInit /\ [][RateNext]_rateVars

-----------------------------------------------------------------------------
(* Properties                                                               *)

\* Of the operations of an address no more than RatePerWindow were let in with a
\* time that is within the window now, both ends included, unless the table's limit
\* evicted its bucket in between: pruning, the clean-up and calls that waited for the
\* lock with an old time never forget an operation that still counts.
RateHeld == \A a \in Sources : Cardinality(granted[a]) <= RatePerWindow

\* However many addresses connect, neither table holds more than its limit.
LimitersBounded ==
    /\ Cardinality(Tracked) <= MaxBuckets
    /\ \A a \in Tracked : Cardinality(buckets[a].times) <= RatePerWindow
=============================================================================
