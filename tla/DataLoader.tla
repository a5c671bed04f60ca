------------------------------ MODULE DataLoader ------------------------------
(***************************************************************************)
(* createDataLoader of packages/core/src/data/dataloader.ts: loads that are *)
(* gathered into batches, deduplicated per batch, and cached, while other   *)
(* batches are under way and callers prime and clear the cache.             *)
(*                                                                          *)
(* A value is the version of its key that the batch function read.          *)
(***************************************************************************)
EXTENDS FiniteSets, Integers, Sequences

CONSTANTS Keys,
          Callers,      \* the calls of load(); loadMany() is one per key
          MaxBatch,     \* maxBatchSize
          MaxVersion,   \* bound on the versions of a key
          CacheErrors,  \* cacheErrors
          None

\* What the constants must be.
LoaderAssumption ==
    /\ MaxBatch \in Nat \ {0} /\ MaxVersion \in Nat
    /\ CacheErrors \in BOOLEAN
    /\ None \notin Keys \cup Nat

VARIABLES origin,   \* origin[k]: the version the batch function would read
          cache,    \* cache[k]: the cached version, or None
          errors,   \* the keys in the error cache
          batches,  \* every batch made so far, oldest first
          phase,    \* phase[c]: "new", "loading", "resolved" or "rejected"
          key,      \* key[c]: the key of the load, or None
          since,    \* history: since[c] is the version at the call of load()
          got       \* got[c]: the version the load resolved with, or None

vars == <<origin, cache, errors, batches, phase, key, since, got>>

\* One callback per key: the loads that subscribe to it.
\* `read` is what the batch function saw when it was called.
Batch == [step : {"open", "calling", "settled"}, keys : Seq(Keys),
          subscribers : Seq(SUBSET Callers), read : [Keys -> 0 .. MaxVersion]]
EmptyBatch == [step |-> "open", keys |-> <<>>, subscribers |-> <<>>, read |-> [k \in Keys |-> 0]]

TypeOK ==
    /\ origin \in [Keys -> 0 .. MaxVersion]
    /\ cache \in [Keys -> (0 .. MaxVersion) \cup {None}]
    /\ errors \subseteq Keys
    /\ batches \in Seq(Batch)
    /\ phase \in [Callers -> {"new", "loading", "resolved", "rejected"}]
    /\ key \in [Callers -> Keys \cup {None}]
    /\ since \in [Callers -> 0 .. MaxVersion]
    /\ got \in [Callers -> (0 .. MaxVersion) \cup {None}]

Init ==
    /\ origin = [k \in Keys |-> 0]
    /\ cache = [k \in Keys |-> None]
    /\ errors = {}
    /\ batches = <<>>
    /\ phase = [c \in Callers |-> "new"]
    /\ key = [c \in Callers |-> None]
    /\ since = [c \in Callers |-> 0]
    /\ got = [c \in Callers |-> None]

-------------------------------------------------------------------------------
Current == Len(batches)

\* getCurrentBatch(): the last batch, unless it has been dispatched or is full.
\* A full one gets no more subscribers either, even for a key it has.
\* Mutant: a batch takes loads until it has settled.
GrowingWhileCalling(n) == n > 0 /\ batches[n].step # "settled" /\ Len(batches[n].keys) < MaxBatch
Growing(n) == n > 0 /\ batches[n].step = "open" /\ Len(batches[n].keys) < MaxBatch
WithCurrent == IF Growing(Current) THEN batches ELSE Append(batches, EmptyBatch)

IndexOf(b, k) == CHOOSE i \in 1 .. Len(b.keys) : b.keys[i] = k
\* Mutant: the load of a key that the batch has takes the callback over.
SubscribeLast(b, c, k) ==
    IF \E i \in 1 .. Len(b.keys) : b.keys[i] = k
    THEN [b EXCEPT !.subscribers[IndexOf(b, k)] = {c}]
    ELSE [b EXCEPT !.keys = Append(@, k), !.subscribers = Append(@, {c})]
Subscribe(b, c, k) ==
    IF \E i \in 1 .. Len(b.keys) : b.keys[i] = k
    THEN [b EXCEPT !.subscribers[IndexOf(b, k)] = @ \cup {c}]
    ELSE [b EXCEPT !.keys = Append(@, k), !.subscribers = Append(@, {c})]

\* load(): the error cache first, then the cache, then a batch.
Load(c, k) ==
    /\ phase[c] = "new"
    /\ key' = [key EXCEPT ![c] = k]
    /\ since' = [since EXCEPT ![c] = origin[k]]
    /\ \/ /\ k \in errors
          /\ phase' = [phase EXCEPT ![c] = "rejected"]
          /\ UNCHANGED <<batches, got>>
       \/ /\ k \notin errors /\ cache[k] # None
          /\ phase' = [phase EXCEPT ![c] = "resolved"]
          /\ got' = [got EXCEPT ![c] = cache[k]]
          /\ UNCHANGED batches
       \/ /\ k \notin errors /\ cache[k] = None
          /\ phase' = [phase EXCEPT ![c] = "loading"]
          /\ batches' = LET bs == WithCurrent
                        IN  [bs EXCEPT ![Len(bs)] = Subscribe(@, c, k)]
          /\ UNCHANGED got
    /\ UNCHANGED <<origin, cache, errors>>

\* The schedule function runs the callback of batch n.
Dispatch(n) ==
    /\ batches[n].step = "open"
    /\ batches' = [batches EXCEPT ![n].step = "calling", ![n].read = origin]
    /\ UNCHANGED <<origin, cache, errors, phase, key, since, got>>

Subscribers(n) == UNION {batches[n].subscribers[i] : i \in 1 .. Len(batches[n].keys)}
KeysOf(n) == {batches[n].keys[i] : i \in 1 .. Len(batches[n].keys)}
Subscribed(n, k) == batches[n].subscribers[IndexOf(batches[n], k)]

\* The batch function answers: settleKey() for each key, failing ones by
\* themselves.
Settle(n, failing) ==
    /\ batches[n].step = "calling"
    /\ batches' = [batches EXCEPT ![n].step = "settled"]
    /\ cache' = [k \in Keys |-> IF k \in KeysOf(n) \ failing THEN batches[n].read[k] ELSE cache[k]]
    /\ errors' = IF CacheErrors THEN errors \cup failing ELSE errors
    /\ LET served == UNION {Subscribed(n, k) : k \in KeysOf(n) \ failing}
       IN  /\ phase' = [c \in Callers |->
                  IF c \in served THEN "resolved"
                  ELSE IF c \in Subscribers(n) THEN "rejected" ELSE phase[c]]
           /\ got' = [c \in Callers |-> IF c \in served THEN batches[n].read[key[c]] ELSE got[c]]
    /\ UNCHANGED <<origin, key, since>>

\* The batch function throws, or returns too few or too many values.
Fail(n) ==
    /\ batches[n].step = "calling"
    /\ batches' = [batches EXCEPT ![n].step = "settled"]
    /\ phase' = [c \in Callers |-> IF c \in Subscribers(n) THEN "rejected" ELSE phase[c]]
    /\ UNCHANGED <<origin, cache, errors, key, since, got>>

\* prime(), clear() and clearAll() touch no batch; prime() leaves the error be.
Prime(k) ==
    /\ cache' = [cache EXCEPT ![k] = origin[k]]
    /\ UNCHANGED <<origin, errors, batches, phase, key, since, got>>

Clear(S) ==
    /\ cache' = [k \in Keys |-> IF k \in S THEN None ELSE cache[k]]
    /\ errors' = errors \ S
    /\ UNCHANGED <<origin, batches, phase, key, since, got>>

\* External: the value of k changes.
Change(k) ==
    /\ origin[k] < MaxVersion
    /\ origin' = [origin EXCEPT ![k] = @ + 1]
    /\ UNCHANGED <<cache, errors, batches, phase, key, since, got>>

Next ==
    \/ \E c \in Callers, k \in Keys : Load(c, k)
    \/ \E n \in 1 .. Len(batches) :
        \/ Dispatch(n) \/ Fail(n)
        \/ \E failing \in SUBSET KeysOf(n) : Settle(n, failing)
    \/ \E k \in Keys : Prime(k) \/ Change(k) \/ Clear({k})
    \/ Clear(Keys)

Spec == Init /\ [][Next]_vars

-------------------------------------------------------------------------------
\* No load is lost: one that has not settled is subscribed, under its own key, to
\* exactly one batch that has yet to settle, and only such loads are.
LoadsCarried ==
    \A c \in Callers :
        phase[c] = "loading" <=>
            \E n \in 1 .. Len(batches) :
                /\ batches[n].step # "settled"
                /\ \E i \in 1 .. Len(batches[n].keys) :
                    batches[n].keys[i] = key[c] /\ c \in batches[n].subscribers[i]

\* A batch asks for each key once, for no more keys than allowed, and only the
\* last one can still grow.
BatchesBounded ==
    \A n \in 1 .. Len(batches) :
        /\ Len(batches[n].keys) \in 1 .. MaxBatch
        /\ Cardinality(KeysOf(n)) = Len(batches[n].keys)
        /\ Growing(n) => n = Current

\* A load that a batch resolves never gets a value from before its call: a batch
\* that is under way takes no new subscriber.
NoStaleJoin ==
    [][\A c \in Callers :
        phase[c] = "loading" /\ phase'[c] = "resolved" => got'[c] >= since[c]]_vars

\* "Concurrent load(key) calls ... are batched into a single batchLoadFn(keys)
\* call": not when the batch is full.
OneFetchPerKey ==
    \A m, n \in 1 .. Len(batches) :
        m # n /\ batches[m].step = "open" /\ batches[n].step = "open" => KeysOf(m) \cap KeysOf(n) = {}
===============================================================================
