------------------------------ MODULE DataLayer ------------------------------
(***************************************************************************)
(* The data layer of packages/core/src: the rate limiter, the two caches,   *)
(* the dataloader, sessions and the key-value drivers, side by side.  They  *)
(* share no state: in one behaviour only the component that `part' names    *)
(* moves, and the others stay as they began.                                *)
(***************************************************************************)
EXTENDS FiniteSets, Integers, Sequences

CONSTANTS
  Attempts, MaxRequests, Window, Setups,  \* the rate limiter ...
  RateTime,                               \* ... and the bound on its clock
  Clients,                                \* the callers of LRUCache and HttpCache
  FreshTtl, KeepTtl,                      \* ttlMs and staleTtlMs of LRUCache,
  Ttl, StaleTtl, HttpStores,              \* of HttpCache, its stores
  MaxVersion,                             \* bound on the versions of a value
  Pair,                                   \* the callers of DataLoader and Sessions
  Items,                                  \* the keys of DataLoader and FileStore
  MaxBatch, CacheErrors,                  \* the dataloader
  Ids, Creates, Rollings,                 \* sessions
  Values, MaxEntries, Coalesce, Drivers, TouchesDead,  \* the drivers
  MaxCrashes, MaxFaults, MaxTime,         \* bounds, MaxTime that of every other clock
  None

VARIABLES part,
  setup, rlNow, rlEntry, counter, rlPhase, asked, admitted, evictions, whole, differs,
  lruNow, lruOrigin, lruEntry, lruInflight, lruFlight, lruPhase, lruOn, touched, newest,
  forgotten,
  store, httpNow, stored, httpInflight, refreshing, bypass, httpPhase, seen, httpFlight,
  httpOn, reactions, answer,
  dlOrigin, cache, errors, batches, dlPhase, key, since, got,
  create, rolling, rows, chain, minted, jar, sessPhase, cookie, sent, holds, old, data, dead,
  late, ever,
  driver, fsNow, entries, file, timer, up, crashes, faults, apart, refused, call

RateLimit == INSTANCE RateLimit WITH
  Requests <- Attempts, MaxTime <- RateTime,
  now <- rlNow, entry <- rlEntry, phase <- rlPhase

LRUCache == INSTANCE LRUCache WITH
  Callers <- Clients, StaleTtl <- KeepTtl,
  now <- lruNow, origin <- lruOrigin, entry <- lruEntry, inflight <- lruInflight,
  flight <- lruFlight, phase <- lruPhase, on <- lruOn

HttpCache == INSTANCE HttpCache WITH
  Requests <- Clients, Stores <- HttpStores,
  now <- httpNow, inflight <- httpInflight, phase <- httpPhase, flight <- httpFlight,
  on <- httpOn

DataLoader == INSTANCE DataLoader WITH
  Keys <- Items, Callers <- Pair,
  origin <- dlOrigin, phase <- dlPhase

Sessions == INSTANCE Sessions WITH Requests <- Pair, phase <- sessPhase

FileStore == INSTANCE FileStore WITH Keys <- Items, now <- fsNow, failed <- refused

ASSUME DataLayerAssumption ==
  /\ RateLimit!RateAssumption /\ LRUCache!CacheAssumption
  /\ HttpCache!HttpCacheAssumption /\ DataLoader!LoaderAssumption
  /\ Sessions!SessionAssumption /\ FileStore!StoreAssumption

(* The variables of each. *)
rateLimit == <<setup, rlNow, rlEntry, counter, rlPhase, asked, admitted, evictions, whole,
               differs>>
lru == <<lruNow, lruOrigin, lruEntry, lruInflight, lruFlight, lruPhase, lruOn, touched, newest,
         forgotten>>
http == <<store, httpNow, stored, httpInflight, refreshing, bypass, httpPhase, seen, httpFlight,
          httpOn, reactions, answer>>
loader == <<dlOrigin, cache, errors, batches, dlPhase, key, since, got>>
sessions == <<create, rolling, rows, chain, minted, jar, sessPhase, cookie, sent, holds, old,
              data, dead, late, ever>>
files == <<driver, fsNow, entries, file, timer, up, crashes, faults, apart, refused, call>>

(* A component that does not move begins in one of its initial states. *)
OneOf(S) == CHOOSE x \in S : TRUE
Init ==
  /\ part \in {"rate limit", "lru", "http", "loader", "sessions", "files"}
  /\ RateLimit!Init /\ (part # "rate limit" => setup = OneOf(Setups))
  /\ LRUCache!Init
  /\ HttpCache!Init /\ (part # "http" => store = OneOf(HttpStores) /\ bypass = {})
  /\ DataLoader!Init
  /\ Sessions!Init /\ (part # "sessions" => create = OneOf(Creates) /\ rolling = OneOf(Rollings) /\ minted = {})
  /\ FileStore!Init /\ (part # "files" => driver = OneOf(Drivers))

Next ==
  \/ /\ part = "rate limit" /\ RateLimit!Next
     /\ UNCHANGED <<part, lru, http, loader, sessions, files>>
  \/ /\ part = "lru" /\ LRUCache!Next
     /\ UNCHANGED <<part, rateLimit, http, loader, sessions, files>>
  \/ /\ part = "http" /\ HttpCache!Next
     /\ UNCHANGED <<part, rateLimit, lru, loader, sessions, files>>
  \/ /\ part = "loader" /\ DataLoader!Next
     /\ UNCHANGED <<part, rateLimit, lru, http, sessions, files>>
  \/ /\ part = "sessions" /\ Sessions!Next
     /\ UNCHANGED <<part, rateLimit, lru, http, loader, files>>
  \/ /\ part = "files" /\ FileStore!Next
     /\ UNCHANGED <<part, rateLimit, lru, http, loader, sessions>>

vars == <<part, rateLimit, lru, http, loader, sessions, files>>

Spec == Init /\ [][Next]_vars

(***************************************************************************)
(* The properties of the components, under their own names.                *)
(***************************************************************************)
\* Between two evictions one stretch of a window lets a bounded burst pass
\* (ratelimit.ts).
BurstBounded == RateLimit!BurstBounded
\* One life of the Redis counter lets no more than the budget pass.
AtomicExact == RateLimit!AtomicExact
\* The life time of the entry does not change the fixed window.
FixedWindowKept == RateLimit!FixedWindowKept
\* The bucket never over-spends: violated.
TokenBudget == RateLimit!TokenBudget

\* One factory call at a time (lru.ts, getOrSet).
SingleFlight == LRUCache!SingleFlight
\* The cached value never goes back in time.
NeverOlder == LRUCache!NeverOlder
\* Nobody waits for a promise that no flight settles.
WaitersCarried == LRUCache!WaitersCarried
\* One factory call at a time even after clear(): violated.
SingleFlightAfterClear == LRUCache!SingleFlightAfterClear

\* One fill and one refresh at a time (http-cache.ts, getOrSet).
OneFlight == HttpCache!OneFlight
\* The map forgets every fill that is over: violated by a factory that throws at
\* once.
FillsForgotten == HttpCache!FillsForgotten
\* The waiters clone before the initiator reads.
CloneBeforeRead == HttpCache!CloneBeforeRead
\* A bypassed response is its own request's alone.
BypassIsolated == HttpCache!BypassIsolated
\* Stored responses are served only as their policy allows.
HitsAllowed == HttpCache!HitsAllowed

\* No load is lost (dataloader.ts).
LoadsCarried == DataLoader!LoadsCarried
\* A batch keeps its size and asks for each key once.
BatchesBounded == DataLoader!BatchesBounded
\* No load gets a value from before its call.
NoStaleJoin == DataLoader!NoStaleJoin
\* One open batch asks for a key: violated for full batches.
OneFetchPerKey == DataLoader!OneFetchPerKey

\* A cookie is sent after its row is stored (session.ts, persist).
CookieAfterRow == Sessions!CookieAfterRow
\* update() of the session store loses no change.
UpdateKeepsChanges == Sessions!UpdateKeepsChanges
\* A session of which nothing is left never comes back (session.ts).
BuriedForGood == Sessions!BuriedForGood
\* A dead cookie gets no session: violated.
DeadCookieRefused == Sessions!DeadCookieRefused

\* The file is never behind for longer than the window (file.ts).
LossBounded == FileStore!LossBounded
\* The cap is hard.
CapKept == FileStore!CapKept
\* The drivers refine the contract of Store.
KeyValueSpec == FileStore!KeyValueSpec
=============================================================================
