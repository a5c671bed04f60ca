------------------------------- MODULE LRUCache -------------------------------
(***************************************************************************)
(* LRUCache of packages/core/src/data/lru.ts: fresh, stale and expired      *)
(* entries, the single flight of getOrSet(), revalidation in the            *)
(* background, and what set(), delete(), clear() and an eviction do to a    *)
(* fill that is under way.                                                  *)
(*                                                                          *)
(* One key.  A value is the version of the origin its factory saw.  The     *)
(* bookkeeping of the lru-cache package is external: it may evict the entry *)
(* at any time.                                                             *)
(***************************************************************************)
EXTENDS FiniteSets, Integers

CONSTANTS Callers,     \* the calls of getOrSet()
          FreshTtl,    \* ttlMs
          StaleTtl,    \* staleTtlMs
          MaxTime,     \* bound on the clock
          MaxVersion,  \* bound on the versions of the origin
          None

Entry == [value : Nat, freshUntil : Nat, expireUntil : Nat]

\* What the constants must be.
CacheAssumption ==
    /\ FreshTtl \in Nat /\ StaleTtl \in Nat /\ MaxTime \in Nat /\ MaxVersion \in Nat
    /\ None \notin Callers \cup Nat /\ None \notin Entry

VARIABLES now,       \* the clock
          origin,    \* what a factory would read now
          entry,     \* the cached entry, or None
          inflight,  \* the caller whose promise the map inflight holds, or None
          flight,    \* flight[c]: the factory call that caller c has started
          phase,     \* phase[c]: how far the call of c is
          on,        \* on[c]: the flight whose promise c awaits, or None
          touched,   \* history: set(), delete() or clear() was called
          newest,    \* history: the newest version a flight has written
          forgotten  \* history: the flights under way at clear()

history == <<newest, forgotten>>
vars == <<now, origin, entry, inflight, flight, phase, on, touched, history>>

NoFlight == [step |-> "none", value |-> None, old |-> None]

Init ==
    /\ now = 0
    /\ origin = 0
    /\ entry = None
    /\ inflight = None
    /\ flight = [c \in Callers |-> NoFlight]
    /\ phase = [c \in Callers |-> "new"]
    /\ on = [c \in Callers |-> None]
    /\ touched = FALSE /\ newest = 0 /\ forgotten = {}

-------------------------------------------------------------------------------
\* createEntry(): a time to live of 0 never ends.
Longer(a, b) == IF a >= b THEN a ELSE b
Until(ttl) == IF ttl > 0 THEN now + ttl ELSE 0
NewEntry(value) ==
    LET staleTtl == IF StaleTtl > 0 THEN Longer(StaleTtl, FreshTtl) ELSE FreshTtl
        staleUntil == IF staleTtl > 0 THEN Until(staleTtl) ELSE Until(FreshTtl)
    IN  [value       |-> value,
         freshUntil  |-> Until(FreshTtl),
         expireUntil |-> IF staleUntil # 0 THEN staleUntil ELSE Until(FreshTtl)]

Alive(e) == e # None /\ (e.expireUntil = 0 \/ e.expireUntil > now)
IsFresh(e) == e.freshUntil = 0 \/ e.freshUntil > now

\* The callers that hold the promise of flight f: the one that started it and
\* the ones that found it in the map.
Flying == {c \in Callers : flight[c].step # "none"}
Waiting(f) == {c \in Callers : on[c] = f}

-------------------------------------------------------------------------------
\* Mutant: a revalidation is not put into the map.
StartUnmarked(c, old) ==
    /\ flight' = [flight EXCEPT ![c] = [step |-> "calling", value |-> origin, old |-> old]]
    /\ inflight' = IF old # None THEN inflight ELSE c

Start(c, old) ==
    /\ flight' = [flight EXCEPT ![c] = [step |-> "calling", value |-> origin, old |-> old]]
    /\ inflight' = c

\* getOrSet() up to its first await.  A fresh entry answers; a stale one answers
\* too and is revalidated, once; else the caller joins the flight or starts it.
GetOrSet(c) ==
    /\ phase[c] = "new"
    /\ IF Alive(entry)
       THEN /\ phase' = [phase EXCEPT ![c] = "answered"] /\ UNCHANGED on
            /\ IF IsFresh(entry) \/ inflight # None
               THEN UNCHANGED <<flight, inflight>>
               ELSE Start(c, entry.value)
       ELSE /\ phase' = [phase EXCEPT ![c] = "waiting"]
            /\ IF inflight # None
               THEN on' = [on EXCEPT ![c] = inflight] /\ UNCHANGED <<flight, inflight>>
               ELSE on' = [on EXCEPT ![c] = c] /\ Start(c, None)
    /\ UNCHANGED <<now, origin, entry, touched, history>>

\* get(): an expired entry is taken out.
Get ==
    /\ entry # None /\ ~Alive(entry)
    /\ entry' = None
    /\ UNCHANGED <<now, origin, inflight, flight, phase, on, touched, history>>

\* The factory has settled well: its value is written, unless it is larger than
\* maxBytes; the promise is not yet out of the map.
Write(c) ==
    /\ flight[c].step = "calling"
    /\ \/ /\ entry' = NewEntry(flight[c].value)
          /\ newest' = Longer(newest, flight[c].value)
       \/ UNCHANGED <<entry, newest>>
    /\ flight' = [flight EXCEPT ![c].step = "closing"]
    /\ UNCHANGED <<now, origin, inflight, phase, on, touched, forgotten>>

\* The factory has thrown: a revalidation falls back on the stale value.
Throw(c) ==
    /\ flight[c].step = "calling"
    /\ flight' = [flight EXCEPT ![c].step = IF flight[c].old # None THEN "closing" ELSE "failing"]
    /\ UNCHANGED <<now, origin, entry, inflight, phase, on, touched, history>>

\* finally: whatever promise the map holds now is taken out, and the waiters get
\* the outcome.
Close(c) ==
    /\ flight[c].step \in {"closing", "failing"}
    /\ inflight' = None
    /\ phase' = [d \in Callers |->
           IF d \notin Waiting(c) THEN phase[d]
           ELSE IF flight[c].step = "closing" THEN "answered" ELSE "failed"]
    /\ on' = [d \in Callers |-> IF d \in Waiting(c) THEN None ELSE on[d]]
    /\ flight' = [flight EXCEPT ![c] = NoFlight]
    /\ UNCHANGED <<now, origin, entry, touched, history>>

-------------------------------------------------------------------------------
\* The other writers, at most one of them once (bound: ~touched); set() leaves a
\* value that is larger than maxBytes out.
Set ==
    /\ ~touched
    /\ entry' \in {NewEntry(origin), entry}
    /\ touched' = TRUE
    /\ UNCHANGED <<now, origin, inflight, flight, phase, on, history>>

\* delete() leaves the flight alone ...
Delete ==
    /\ ~touched
    /\ entry' = None
    /\ touched' = TRUE
    /\ UNCHANGED <<now, origin, inflight, flight, phase, on, history>>

\* ... clear() forgets it, but does not stop it.
Clear ==
    /\ ~touched
    /\ entry' = None
    /\ inflight' = None
    /\ touched' = TRUE
    /\ forgotten' = Flying
    /\ UNCHANGED <<now, origin, flight, phase, on, newest>>

\* External: max or maxBytes makes lru-cache drop the entry.
Evict ==
    /\ entry # None
    /\ entry' = None
    /\ UNCHANGED <<now, origin, inflight, flight, phase, on, touched, history>>

\* External: the origin changes, time passes.
Change ==
    /\ origin < MaxVersion
    /\ origin' = origin + 1
    /\ UNCHANGED <<now, entry, inflight, flight, phase, on, touched, history>>

Tick ==
    /\ now < MaxTime
    /\ now' = now + 1
    /\ UNCHANGED <<origin, entry, inflight, flight, phase, on, touched, history>>

Next ==
    \/ \E c \in Callers : GetOrSet(c) \/ Write(c) \/ Throw(c) \/ Close(c)
    \/ Get \/ Set \/ Delete \/ Clear \/ Evict \/ Change \/ Tick

Spec == Init /\ [][Next]_vars

-------------------------------------------------------------------------------
\* One flight at a time, and it is the one in the map, as long as nobody but
\* getOrSet() uses the cache.  The condition is needed: see clear().
SingleFlight == ~touched => \A c \in Flying : inflight = c

\* Then the cached value never goes back to an older version of the origin,
\* however slow the factories are and whatever is evicted meanwhile.
NeverOlder == ~touched /\ entry # None => entry.value = newest

\* clear() or not, nobody waits for a promise that no flight will settle.
WaitersCarried == \A c \in Callers : phase[c] = "waiting" => on[c] \in Flying

\* "single-flight getOrSet": not after clear(), since the finally block of the
\* flight that clear() has forgotten takes the promise of the next one out.
SingleFlightAfterClear == Cardinality(Flying \ forgotten) <= 1
===============================================================================
