------------------------------- MODULE RateLimit -------------------------------
(***************************************************************************)
(* The rate limiter: the three algorithms of                                *)
(* packages/core/src/data/ratelimit.ts, the plugin that runs them over a    *)
(* store whose entries expire (plugins/ratelimit.ts), and the atomic        *)
(* counter in Redis (data/store/redis-rate-limit.ts).                       *)
(*                                                                          *)
(* One key.  Other keys show only in that the store of the process, which   *)
(* holds storeMax of them, may evict this one.  Time is in milliseconds; a  *)
(* fraction is scaled by Window, so that all arithmetic is on integers.     *)
(***************************************************************************)
EXTENDS FiniteSets, Integers

CONSTANTS Requests,     \* 1 .. n, the requests of one client in the order they come
          MaxRequests,  \* RateLimitOptions.maxRequests
          Window,       \* RateLimitOptions.windowMs
          MaxTime,      \* bound on the clock
          Setups,       \* the [algorithm, store] pairs to choose from
          None          \* no value

Algorithms == {"fixed-window", "sliding-window", "token-bucket"}
\* "local" is the LRU of the process; "atomic" has incr(), which only the fixed
\* window uses.  A store with promises and without incr() is not modelled.
Stores == {"local", "atomic"}

\* What each algorithm remembers of a key.  Tokens are counted in units of 1/Window.
FixedWindowEntry == [count : Nat, resetTime : Nat]
SlidingWindowEntry == [windowStart : Nat, count : Nat, prevCount : Nat]
TokenBucketEntry == [tokens : Nat, lastRefill : Nat]
States == FixedWindowEntry \cup SlidingWindowEntry \cup TokenBucketEntry

\* What the constants must be.
RateAssumption ==
    /\ Requests \subseteq Nat /\ IsFiniteSet(Requests)
    /\ MaxRequests \in Nat \ {0} /\ Window \in Nat \ {0} /\ MaxTime \in Nat
    /\ Setups \subseteq [algorithm : Algorithms, store : Stores, onStoreError : {"open", "closed"}]
    /\ None \notin Nat \cup States /\ None \notin [state : States, expires : Nat \cup {None}]

VARIABLES setup,     \* the options of the plugin
          now,       \* the clock
          entry,     \* the stored state of the key with its expiry, or None
          counter,   \* the Redis key: its count, its expiry or None, its generation
          phase,     \* phase[r]: how far request r is
          asked,     \* asked[r]: the `now` that request r has captured
          admitted,  \* admitted[r]: r passed, in this generation of the counter or
                     \*   after this many evictions of the entry
          evictions, \* how often the store of the process has evicted the entry
          whole,     \* history: the entry an algorithm that forgets nothing has
          differs    \* history: it decided otherwise once

ghost == <<whole, differs>>
vars == <<setup, now, entry, counter, phase, asked, admitted, evictions, ghost>>

-------------------------------------------------------------------------------
Least(a, b) == IF a <= b THEN a ELSE b
Greatest(a, b) == IF a >= b THEN a ELSE b
CeilDiv(a, b) == (a + b - 1) \div b

\* Each check maps an entry and a time to the decision, the reset time and the
\* next entry.
Decision(allowed, reset, state) == [allowed |-> allowed, reset |-> reset, state |-> state]

FreshFixedWindow(t) == [count |-> 0, resetTime |-> t + Window]
CheckFixedWindow(e, t) ==
    LET next == IF e.resetTime <= t
                THEN [FreshFixedWindow(t) EXCEPT !.count = 1]
                ELSE [e EXCEPT !.count = @ + 1]
    IN  Decision(next.count <= MaxRequests, next.resetTime, next)

FreshSlidingWindow(t) == [windowStart |-> t, count |-> 0, prevCount |-> 0]
CheckSlidingWindow(e, t) ==
    LET elapsed == (t - e.windowStart) \div Window
        next == IF elapsed < 1 THEN e
                ELSE [windowStart |-> e.windowStart + elapsed * Window,
                      count       |-> 0,
                      prevCount   |-> IF elapsed >= 2 THEN 0 ELSE e.count]
        into == Least(Window, Greatest(0, t - next.windowStart))
        consumed == ((next.prevCount * (Window - into) + next.count * Window) \div Window) + 1
    IN  Decision(consumed <= MaxRequests, next.windowStart + Window,
                 [next EXCEPT !.count = @ + 1])

\* In units of 1/Window a millisecond refills MaxRequests.
Capacity == MaxRequests * Window
FreshTokenBucket(t) == [tokens |-> Capacity, lastRefill |-> t]
\* Mutant: the time of the refill is kept from the first request.
TokensNeverStamped(e, t) ==
    LET refilled == Least(Capacity, e.tokens + Greatest(0, t - e.lastRefill) * MaxRequests)
        allowed == refilled >= Window
        reset == e.lastRefill + CeilDiv(Capacity - e.tokens, MaxRequests)
    IN  Decision(allowed, Greatest(t, reset),
                 [e EXCEPT !.tokens = IF allowed THEN refilled - Window ELSE refilled])
CheckTokenBucket(e, t) ==
    LET refilled == Least(Capacity, e.tokens + Greatest(0, t - e.lastRefill) * MaxRequests)
        allowed == refilled >= Window
        reset == e.lastRefill + CeilDiv(Capacity - e.tokens, MaxRequests)
    IN  Decision(allowed, Greatest(t, reset),
                 [tokens |-> IF allowed THEN refilled - Window ELSE refilled, lastRefill |-> t])

Fresh(algorithm, t) ==
    CASE algorithm = "fixed-window"   -> FreshFixedWindow(t)
      [] algorithm = "sliding-window" -> FreshSlidingWindow(t)
      [] algorithm = "token-bucket"   -> FreshTokenBucket(t)

Check(algorithm, e, t) ==
    CASE algorithm = "fixed-window"   -> CheckFixedWindow(e, t)
      [] algorithm = "sliding-window" -> CheckSlidingWindow(e, t)
      [] algorithm = "token-bucket"   -> CheckTokenBucket(e, t)

-------------------------------------------------------------------------------
\* The store keeps a state until its life time ends; a life time of 0 has no end.
Life(reset, t) == Greatest(0, reset - t)
Stored(state, life, t) == [state |-> state, expires |-> IF life > 0 THEN t + life ELSE None]
Lookup(e, t) ==
    IF e = None THEN None
    ELSE IF e.expires # None /\ e.expires <= t THEN None
    ELSE e.state

\* checkWithStore(): from what was read at the captured time to the decision.
Decide(stored, t) ==
    Check(setup.algorithm, IF stored = None THEN Fresh(setup.algorithm, t) ELSE stored, t)

Settle(r, allowed, life) ==
    /\ phase' = [phase EXCEPT ![r] = IF allowed THEN "passed" ELSE "rejected"]
    /\ admitted' = [admitted EXCEPT ![r] = IF allowed THEN life ELSE None]

Init ==
    /\ setup \in Setups
    /\ now = 0
    /\ entry = None
    /\ counter = [count |-> 0, expires |-> None, generation |-> 0]
    /\ phase = [r \in Requests |-> "new"]
    /\ asked = [r \in Requests |-> None]
    /\ admitted = [r \in Requests |-> None]
    /\ evictions = 0
    /\ whole = None /\ differs = FALSE

IsNext(r) == phase[r] = "new" /\ \A q \in Requests : q < r => phase[q] # "new"
Ask(r) == IsNext(r) /\ asked' = [asked EXCEPT ![r] = now]
UsesIncr == setup.store = "atomic" /\ setup.algorithm = "fixed-window"

\* onRequest() over the store of the process: get, check and set in one go.
CheckLocal(r) ==
    /\ setup.store = "local"
    /\ Ask(r)
    /\ LET d == Decide(Lookup(entry, now), now)
           w == Decide(whole, now)
       IN  /\ entry' = Stored(d.state, Life(d.reset, now), now)
           /\ Settle(r, d.allowed, evictions)
           /\ whole' = w.state
           /\ differs' = (differs \/ w.allowed # d.allowed)
    /\ UNCHANGED <<setup, now, counter, evictions>>

\* Requests of other keys fill the store and this key is the least recently used:
\* its entry is dropped, and with it all that the limiter knew of the client.
Evict ==
    /\ setup.store = "local" /\ entry # None
    /\ entry' = None /\ whole' = None
    /\ evictions' = evictions + 1
    /\ UNCHANGED <<setup, now, counter, phase, asked, admitted, differs>>

\* Either command of incr() fails: onStoreError lets the request pass ("open") or
\* answers 503 ("closed").
StoreFails(r) ==
    /\ \/ UsesIncr /\ Ask(r)
       \/ phase[r] = "expiring" /\ UNCHANGED asked
    /\ phase' = [phase EXCEPT ![r] = IF setup.onStoreError = "open" THEN "unchecked" ELSE "refused"]
    /\ UNCHANGED <<setup, now, entry, counter, admitted, evictions, ghost>>

\* incr(): INCR creates or counts the key ...
Incr(r) ==
    /\ UsesIncr
    /\ Ask(r)
    /\ LET gone == counter.count = 0 \/ (counter.expires # None /\ counter.expires <= now)
           next == IF gone
                   THEN [count |-> 1, expires |-> None, generation |-> counter.generation + 1]
                   ELSE [counter EXCEPT !.count = @ + 1]
       IN  /\ counter' = next
           /\ IF next.count = 1
              THEN phase' = [phase EXCEPT ![r] = "expiring"] /\ UNCHANGED admitted
              ELSE LET allowed == next.count <= MaxRequests
                   IN  /\ phase' = [phase EXCEPT ![r] = IF allowed THEN "passed" ELSE "rejected"]
                       /\ admitted' = [admitted EXCEPT ![r] = IF allowed THEN next.generation ELSE None]
    /\ UNCHANGED <<setup, now, entry, evictions, ghost>>

\* ... and whoever saw 1 sets its life time with PEXPIRE.
Pexpire(r) ==
    /\ phase[r] = "expiring"
    /\ counter' = [counter EXCEPT !.expires = now + Window]
    /\ Settle(r, 1 <= MaxRequests, counter.generation)
    /\ UNCHANGED <<setup, now, entry, asked, evictions, ghost>>

\* The process dies between the two commands.
Crash(r) ==
    /\ phase[r] = "expiring"
    /\ phase' = [phase EXCEPT ![r] = "crashed"]
    /\ UNCHANGED <<setup, now, entry, counter, asked, admitted, evictions, ghost>>

Tick ==
    /\ now < MaxTime
    /\ now' = now + 1
    /\ UNCHANGED <<setup, entry, counter, phase, asked, admitted, evictions, ghost>>

Next ==
    \/ \E r \in Requests :
        \/ CheckLocal(r) \/ StoreFails(r) \/ Incr(r) \/ Pexpire(r) \/ Crash(r)
    \/ Evict \/ Tick

Spec == Init /\ [][Next]_vars

-------------------------------------------------------------------------------
Passed == {r \in Requests : phase[r] = "passed"}

\* As long as the store does not evict the entry, the limiter of one process lets
\* in any stretch of one window at most twice the budget pass with the two window
\* algorithms, and at most three times with the token bucket, where the life time
\* of the stored entry cuts its memory short and gives a token back each time.  An
\* eviction starts afresh, with a new bound of the same size and no more.
PassedIn(a, b) == {r \in Passed : asked[r] \in a .. b}
BurstLimit == IF setup.algorithm = "token-bucket" THEN 3 * MaxRequests ELSE 2 * MaxRequests
BurstBounded ==
    setup.store = "local" =>
        \A t \in 0 .. now, g \in 0 .. evictions :
            Cardinality({r \in PassedIn(t, t + Window - 1) : admitted[r] = g}) <= BurstLimit

\* With incr() the count is authoritative: however the replicas interleave, one
\* generation of the counter lets no more than the budget pass.
AtomicExact ==
    UsesIncr =>
        \A g \in 1 .. counter.generation :
            Cardinality({r \in Passed : admitted[r] = g}) <= MaxRequests

\* The life time of the stored entry never changes what the fixed window decides.
FixedWindowKept == setup.algorithm = "fixed-window" => ~differs

\* The bucket never over-spends: a full bucket and what has flowed in since the
\* start, as long as nothing is evicted.
\* Unlike the pure function the limiter breaks this, because the life time of an
\* entry is computed from the tokens before the request.
TokenBudget ==
    setup = [algorithm |-> "token-bucket", store |-> "local", onStoreError |-> "open"]
      /\ evictions = 0 =>
        Cardinality(Passed) * Window <= Capacity + now * MaxRequests
===============================================================================
