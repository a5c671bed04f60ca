------------------------------- MODULE HttpCache -------------------------------
(***************************************************************************)
(* HttpResponseCache.getOrSet of packages/core/src/data/cache/http-cache.ts:*)
(* bypassed requests, hits, stale hits with one refresh in the background,  *)
(* misses that share one fill, and the order in which the callers of a fill *)
(* get its response, whose body can be read once.                           *)
(*                                                                          *)
(* One cache key.  Stores is "local" for the LRU of the process and "async" *)
(* for a store that answers with promises and may fail.                     *)
(***************************************************************************)
EXTENDS FiniteSets, Integers, Sequences

CONSTANTS Requests,   \* the requests for the key
          Ttl,        \* ttlMs
          StaleTtl,   \* staleTtlMs, of the store
          MaxTime,    \* bound on the clock
          Stores,     \* the stores to choose from
          None

\* What the store keeps of a response: the request whose factory made it, and the
\* times it is good for.
Entry == [by : Requests, storedAt : Nat, mustRevalidate : BOOLEAN, dropAt : Nat]

\* What the constants must be.
HttpCacheAssumption ==
    /\ Ttl \in Nat \ {0} /\ StaleTtl \in Nat \ {0} /\ MaxTime \in Nat
    /\ None \notin Requests \cup Entry /\ IsFiniteSet(Requests)

VARIABLES store,       \* the kind of the store
          now,         \* the clock
          stored,      \* the stored entry, or None
          inflight,    \* the request whose fill the map inflight holds, or None
          refreshing,  \* the request whose refresh marks the key, or None
          bypass,      \* the requests the cache stands aside for
          phase,       \* phase[r]: how far request r is
          seen,        \* seen[r]: the entry an async store answered with, or None
          flight,      \* flight[r]: the factory call that r has made
          on,          \* on[r]: the request whose fill r shares, or None
          reactions,   \* the continuations of a settled fill, in microtask order
          answer       \* answer[r]: the request whose factory made the response

vars == <<store, now, stored, inflight, refreshing, bypass, phase, seen, flight, on, reactions, answer>>

\* responseCachePolicy(): store it, store it but never serve it stale, or not.
Policies == {"store", "revalidate", "private"}
NoFlight == [kind |-> "none", step |-> "idle", policy |-> "private", used |-> FALSE]

Init ==
    /\ store \in Stores
    /\ now = 0
    /\ stored = None
    /\ inflight = None /\ refreshing = None
    \* another method, Authorization, a cookie the key does not vary on, no-store
    /\ bypass \in SUBSET Requests
    /\ phase = [r \in Requests |-> "new"]
    /\ seen = [r \in Requests |-> None]
    /\ flight = [r \in Requests |-> NoFlight]
    /\ on = [r \in Requests |-> None]
    /\ reactions = <<>>
    /\ answer = [r \in Requests |-> None]

\* Microtasks run before the event loop takes the next event.
Idle == reactions = <<>>

-------------------------------------------------------------------------------
\* The store drops an entry at the end of its stale time, or of its time to live
\* where it must be revalidated.
Held == IF stored # None /\ now < stored.dropAt THEN stored ELSE None

\* storedEntry(): a stale entry that must be revalidated is a miss.
IsStale(e) == now - e.storedAt >= Ttl
Usable(e) == e # None /\ ~(IsStale(e) /\ e.mustRevalidate)

\* Mutant: every stale hit starts a refresh.
RefreshesAlways(e) == IsStale(e)
\* startBackgroundRefresh() returns at once while another refresh is under way.
NeedsRefresh(e) == IsStale(e) /\ refreshing = None

Call(r, kind) == flight' = [flight EXCEPT ![r] = [NoFlight EXCEPT !.kind = kind, !.step = "calling"]]

\* getOrSet() for a request that bypasses the cache is the factory alone.
Bypass(r) ==
    /\ Idle /\ phase[r] = "new" /\ r \in bypass
    /\ phase' = [phase EXCEPT ![r] = "answered"]
    /\ answer' = [answer EXCEPT ![r] = r]
    /\ UNCHANGED <<store, now, stored, inflight, refreshing, bypass, seen, flight, on, reactions>>

\* A miss shares the fill of the map; if that has been rejected before it was put
\* there, the miss is rejected with it.
Join(r) ==
    /\ inflight # None
    /\ IF flight[inflight].step = "rejected"
       THEN phase' = [phase EXCEPT ![r] = "failed"] /\ UNCHANGED on
       ELSE /\ phase' = [phase EXCEPT ![r] = "waiting"]
            /\ on' = [on EXCEPT ![r] = inflight]
    /\ UNCHANGED <<inflight, flight>>

\* With no fill in the map it makes one.
Fill(r) ==
    /\ inflight = None
    /\ phase' = [phase EXCEPT ![r] = "waiting"]
    /\ on' = [on EXCEPT ![r] = r]
    /\ inflight' = r /\ Call(r, "fill")

\* A factory that throws before it returns a promise runs the finally before the
\* promise is put into the map, and nothing takes the rejected promise out again.
ThrowsAtOnce(r) ==
    /\ inflight = None
    /\ phase' = [phase EXCEPT ![r] = "failed"]
    /\ flight' = [flight EXCEPT ![r] = [NoFlight EXCEPT !.kind = "fill", !.step = "rejected"]]
    /\ inflight' = r
    /\ UNCHANGED on

\* From the entry that was read to the answer, the fill or the wait for one.
Resolve(r, e) ==
    IF Usable(e)
    THEN /\ phase' = [phase EXCEPT ![r] = "answered"]
         /\ answer' = [answer EXCEPT ![r] = e.by]
         /\ IF NeedsRefresh(e)
            THEN refreshing' = r /\ Call(r, "refresh")
            ELSE UNCHANGED <<refreshing, flight>>
         /\ UNCHANGED <<inflight, on>>
    ELSE /\ UNCHANGED <<refreshing, answer>>
         /\ \/ Join(r) \/ Fill(r) \/ ThrowsAtOnce(r)

ReadLocal(r) ==
    /\ Idle /\ phase[r] = "new" /\ r \notin bypass /\ store = "local"
    /\ Resolve(r, Held)
    /\ UNCHANGED <<store, now, stored, bypass, seen, reactions>>

ReadAsync(r) ==
    /\ Idle /\ phase[r] = "new" /\ r \notin bypass /\ store = "async"
    /\ phase' = [phase EXCEPT ![r] = "reading"]
    \* a failing store counts as a miss (onStoreError: open)
    /\ seen' \in {[seen EXCEPT ![r] = Held], [seen EXCEPT ![r] = None]}
    /\ UNCHANGED <<store, now, stored, inflight, refreshing, bypass, flight, on, reactions, answer>>

Resume(r) ==
    /\ Idle /\ phase[r] = "reading"
    /\ Resolve(r, seen[r])
    /\ seen' = [seen EXCEPT ![r] = None]
    /\ UNCHANGED <<store, now, stored, bypass, reactions>>

-------------------------------------------------------------------------------
\* The factory answers; what may be stored is read into a buffer first, and an
\* oversized body is not stored.
FactoryAnswers(r, policy) ==
    /\ Idle /\ flight[r].step = "calling"
    /\ flight' = [flight EXCEPT ![r].policy = policy,
                                ![r].step = IF policy = "private" THEN "closing" ELSE "storing"]
    /\ UNCHANGED <<store, now, stored, inflight, refreshing, bypass, phase, seen, on, reactions, answer>>

\* store.set() has settled; a failure is swallowed.
Store(r) ==
    /\ Idle /\ flight[r].step = "storing"
    /\ LET must == flight[r].policy = "revalidate"
           e == [by |-> r, storedAt |-> now, mustRevalidate |-> must,
                 dropAt |-> now + IF must \/ StaleTtl < Ttl THEN Ttl ELSE StaleTtl]
       IN  stored' \in {e, stored}
    /\ flight' = [flight EXCEPT ![r].step = "closing"]
    /\ UNCHANGED <<store, now, inflight, refreshing, bypass, phase, seen, on, reactions, answer>>

\* The factory throws, of a fill not before it has returned: a refresh keeps the
\* stale entry, a fill fails its callers.
FactoryThrows(r) ==
    /\ Idle /\ flight[r].step = "calling"
    /\ flight' = [flight EXCEPT ![r] = NoFlight]
    /\ IF flight[r].kind = "refresh"
       THEN refreshing' = None /\ UNCHANGED <<inflight, phase, on>>
       ELSE /\ inflight' = None
            /\ phase' = [q \in Requests |-> IF on[q] = r THEN "failed" ELSE phase[q]]
            /\ on' = [q \in Requests |-> IF on[q] = r THEN None ELSE on[q]]
            /\ UNCHANGED refreshing
    /\ UNCHANGED <<store, now, stored, bypass, seen, reactions, answer>>

\* finally: the mark is taken away; the promise of a fill resolves, and its
\* reactions run in the order in which the callers have awaited it.
Awaiting(r) == {q \in Requests : on[q] = r}
\* Mutant: the caller that made the fill has its response at once.
HandsOverAtOnce(r, order) ==
    <<[step |-> "handover", of |-> r]>> \o [i \in DOMAIN order |-> [step |-> "clone", of |-> order[i]]]
Continuations(r, order) ==
    <<[step |-> "resume", of |-> r]>> \o [i \in DOMAIN order |-> [step |-> "clone", of |-> order[i]]]
Orders(S) == {f \in [1 .. Cardinality(S) -> S] : \A i, j \in 1 .. Cardinality(S) : i # j => f[i] # f[j]}
Close(r) ==
    /\ Idle /\ flight[r].step = "closing"
    /\ IF flight[r].kind = "refresh"
       THEN /\ refreshing' = None
            /\ flight' = [flight EXCEPT ![r] = NoFlight]
            /\ UNCHANGED <<inflight, reactions>>
       ELSE /\ inflight' = None
            /\ \E order \in Orders(Awaiting(r) \ {r}) : reactions' = Continuations(r, order)
            /\ UNCHANGED <<refreshing, flight>>
    /\ UNCHANGED <<store, now, stored, bypass, phase, seen, on, answer>>

\* The next reaction.  The caller that made the fill resumes and resolves its own
\* promise; a waiter clones and does the same; the caller behind that promise may
\* read the body at once.
React ==
    /\ ~Idle
    /\ LET job == Head(reactions)
           r == on[job.of]
       IN  IF job.step = "handover"
           THEN /\ reactions' = Tail(reactions)
                /\ phase' = [phase EXCEPT ![job.of] = "answered"]
                /\ answer' = [answer EXCEPT ![job.of] = r]
                /\ on' = [on EXCEPT ![job.of] = None]
                /\ flight' = IF Tail(reactions) = <<>> THEN [flight EXCEPT ![r] = NoFlight]
                             ELSE [flight EXCEPT ![r].used = @ \/ job.of = r]
           ELSE /\ reactions' = Append(Tail(reactions), [step |-> "handover", of |-> job.of])
                /\ UNCHANGED <<phase, answer, on, flight>>
    /\ UNCHANGED <<store, now, stored, inflight, refreshing, bypass, seen>>

Tick ==
    /\ Idle /\ now < MaxTime
    /\ now' = now + 1
    /\ UNCHANGED <<store, stored, inflight, refreshing, bypass, phase, seen, flight, on, reactions, answer>>

Next ==
    \/ \E r \in Requests :
        \/ Bypass(r) \/ ReadLocal(r) \/ ReadAsync(r) \/ Resume(r)
        \/ \E policy \in Policies : FactoryAnswers(r, policy)
        \/ FactoryThrows(r) \/ Store(r) \/ Close(r)
    \/ React \/ Tick

Spec == Init /\ [][Next]_vars

-------------------------------------------------------------------------------
At(kind) == {r \in Requests : flight[r].kind = kind /\ flight[r].step \notin {"idle", "rejected"}}

\* The origin is asked once for a miss and once for a stale hit, however the
\* reads of an async store interleave, nobody waits for a fill that is over, and
\* the map forgets a fill that is over -- unless its factory threw at once.
OneFlight ==
    /\ Idle => \A r \in At("fill") : inflight = r
    /\ \A r \in At("refresh") : refreshing = r
    /\ \A r \in Requests : phase[r] = "waiting" => on[r] \in At("fill")
    /\ Idle /\ inflight # None =>
         inflight \in At("fill") \/ flight[inflight].step = "rejected"

\* The map forgets every fill that is over, as its finally block means to: not one
\* whose factory threw before it returned a promise.
FillsForgotten == Idle /\ inflight # None => inflight \in At("fill")

\* Every waiter clones the shared response before the caller that made the fill
\* can read its body.
CloneBeforeRead ==
    \A i \in 1 .. Len(reactions) :
        reactions[i].step = "clone" => ~flight[on[reactions[i].of]].used

\* A request that bypasses the cache gets its own response, nobody else gets it,
\* and it is never stored.
BypassIsolated ==
    \A b \in bypass : /\ answer[b] \in {b, None}
                      /\ \A r \in Requests \ {b} : answer[r] # b
                      /\ stored # None => stored.by # b

\* A response that must be revalidated is served from the store only while fresh.
HitsAllowed ==
    [][\A r \in Requests :
        phase[r] \in {"new", "reading"} /\ phase'[r] = "answered" /\ r \notin bypass =>
            \E e \in {stored, seen[r]} :
                e # None /\ answer'[r] = e.by /\ (e.mustRevalidate => now - e.storedAt < Ttl)]_vars
===============================================================================
