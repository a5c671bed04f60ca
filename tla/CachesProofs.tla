---------------------------- MODULE CachesProofs ----------------------------
(***************************************************************************)
(* What the caches, the dataloader and the rate limiter promise, for any    *)
(* callers, times to live, budgets and bounds.                              *)
(***************************************************************************)
EXTENDS DataLayer, FiniteSetTheorems, SequenceTheorems, TLAPS

LruFlight == [step : {"none", "calling", "closing", "failing"},
              value : Nat \cup {None}, old : Nat \cup {None}]

\* The types of the variables that the arguments below look at.
LruTypes ==
    /\ lruNow \in Nat /\ lruOrigin \in Nat /\ newest \in Nat
    /\ lruEntry \in LRUCache!Entry \cup {None}
    /\ lruInflight \in Clients \cup {None}
    /\ lruFlight \in [Clients -> LruFlight]
    /\ lruPhase \in [Clients -> {"new", "waiting", "answered", "failed"}]
    /\ lruOn \in [Clients -> Clients \cup {None}]
    /\ touched \in BOOLEAN

\* The promise in the map belongs to a flight that is under way.
MapCurrent == lruInflight # None => lruInflight \in LRUCache!Flying

\* What a flight will write is no older than what any flight has written.
FlightsAhead ==
    /\ newest <= lruOrigin
    /\ \A c \in Clients : lruFlight[c].step = "calling" =>
          /\ lruFlight[c].value \in Nat
          /\ lruFlight[c].value <= lruOrigin
          /\ ~touched => newest <= lruFlight[c].value

LruIInv ==
    /\ LruTypes /\ MapCurrent /\ FlightsAhead
    /\ LRUCache!SingleFlight /\ LRUCache!NeverOlder /\ LRUCache!WaitersCarried

-------------------------------------------------------------------------------
\* createEntry() makes an entry of the right type that holds the value.
LEMMA LruEntryType ==
    ASSUME LRUCache!CacheAssumption, lruNow \in Nat, NEW v \in Nat
    PROVE  /\ LRUCache!NewEntry(v) \in LRUCache!Entry /\ LRUCache!NewEntry(v).value = v
           /\ LRUCache!NewEntry(v) # None
<1>1. \A ttl \in Nat : LRUCache!Until(ttl) \in Nat
  BY DEF LRUCache!Until
<1>2. LRUCache!NewEntry(v) \in LRUCache!Entry /\ LRUCache!NewEntry(v).value = v
  BY <1>1 DEF LRUCache!NewEntry, LRUCache!Entry, LRUCache!CacheAssumption, LRUCache!Longer
<1> QED
  BY <1>2 DEF LRUCache!CacheAssumption

LEMMA LruInit == ASSUME LRUCache!CacheAssumption, LRUCache!Init PROVE LruIInv
<1> USE DEF LRUCache!Init, LRUCache!NoFlight, LRUCache!CacheAssumption
<1>1. LruTypes
  BY DEF LruTypes, LruFlight
<1>2. LRUCache!Flying = {}
  BY DEF LRUCache!Flying
<1> QED
  BY <1>1, <1>2
  DEF LruIInv, MapCurrent, LRUCache!SingleFlight, FlightsAhead, LRUCache!NeverOlder,
      LRUCache!WaitersCarried

\* A factory call starts only when the map holds no promise, and then, while
\* nobody else has used the cache, no other is under way.
LEMMA LruGetOrSetKeeps ==
    ASSUME LRUCache!CacheAssumption, LruIInv, NEW c \in Clients, LRUCache!GetOrSet(c)
    PROVE  LruIInv'
<1> USE DEF LRUCache!GetOrSet, LRUCache!Start, LRUCache!history
<1>1. CASE UNCHANGED <<lruFlight, lruInflight>>
  <2>1. LruTypes'
    BY <1>1 DEF LruIInv, LruTypes
  <2>2. LRUCache!Flying' = LRUCache!Flying
    BY <1>1 DEF LRUCache!Flying
  <2>3. LRUCache!WaitersCarried'
    BY <1>1, <2>2
    DEF LruIInv, LruTypes, LRUCache!WaitersCarried, MapCurrent, LRUCache!CacheAssumption
  <2> QED
    BY <1>1, <2>1, <2>2, <2>3
    DEF LruIInv, MapCurrent, LRUCache!SingleFlight, FlightsAhead, LRUCache!NeverOlder
<1>2. CASE /\ lruInflight = None /\ lruInflight' = c
           /\ \E stale \in Nat \cup {None} : lruFlight' =
                [lruFlight EXCEPT ![c] = [step |-> "calling", value |-> lruOrigin, old |-> stale]]
  <2>0. PICK stale \in Nat \cup {None} : lruFlight' =
          [lruFlight EXCEPT ![c] = [step |-> "calling", value |-> lruOrigin, old |-> stale]]
    BY <1>2
  <2>1. LruTypes'
    <3>1. [step |-> "calling", value |-> lruOrigin, old |-> stale] \in LruFlight
      BY DEF LruIInv, LruTypes, LruFlight
    <3>2. lruFlight' \in [Clients -> LruFlight]
      BY <2>0, <3>1 DEF LruIInv, LruTypes
    <3> QED
      BY <1>2, <3>2 DEF LruIInv, LruTypes
  <2>2. LRUCache!Flying' = LRUCache!Flying \cup {c}
    BY <1>2, <2>0 DEF LRUCache!Flying, LruIInv, LruTypes
  <2>3. ~touched => LRUCache!Flying = {}
    BY <1>2 DEF LruIInv, LRUCache!SingleFlight, LRUCache!Flying, LRUCache!CacheAssumption
  <2>4. MapCurrent' /\ LRUCache!SingleFlight'
    BY <1>2, <2>2, <2>3 DEF MapCurrent, LRUCache!SingleFlight
  <2>5. FlightsAhead'
    BY <1>2, <2>0 DEF LruIInv, LruTypes, FlightsAhead
  <2>6. LRUCache!NeverOlder'
    BY DEF LruIInv, LRUCache!NeverOlder
  <2>7. LRUCache!WaitersCarried'
    BY <1>2, <2>2 DEF LruIInv, LruTypes, LRUCache!WaitersCarried
  <2> QED
    BY <2>1, <2>4, <2>5, <2>6, <2>7 DEF LruIInv
<1>3. lruEntry # None => lruEntry.value \in Nat
  BY DEF LruIInv, LruTypes, LRUCache!Entry
<1> QED
  BY <1>1, <1>2, <1>3 DEF LRUCache!Alive

\* The factory that writes is the only one, so it writes the newest value.
LEMMA LruWriteKeeps ==
    ASSUME LRUCache!CacheAssumption, LruIInv, NEW c \in Clients, LRUCache!Write(c)
    PROVE  LruIInv'
<1> USE DEF LRUCache!Write
<1>0. /\ lruFlight[c].value \in Nat /\ lruFlight[c].value <= lruOrigin
      /\ ~touched => newest <= lruFlight[c].value
  BY DEF LruIInv, FlightsAhead
<1>1. \/ /\ lruEntry' \in LRUCache!Entry /\ lruEntry'.value = lruFlight[c].value
         /\ newest' \in Nat /\ newest' <= lruOrigin
         /\ ~touched => newest' = lruFlight[c].value
      \/ UNCHANGED <<lruEntry, newest>>
  <2>1. CASE /\ lruEntry' = LRUCache!NewEntry(lruFlight[c].value)
             /\ newest' = LRUCache!Longer(newest, lruFlight[c].value)
    <3>1. lruEntry' \in LRUCache!Entry /\ lruEntry'.value = lruFlight[c].value
      BY <1>0, <2>1, LruEntryType DEF LruIInv, LruTypes
    <3>2. newest \in Nat /\ lruOrigin \in Nat /\ newest <= lruOrigin
      BY DEF LruIInv, LruTypes, FlightsAhead
    <3>3. newest' = IF newest >= lruFlight[c].value THEN newest ELSE lruFlight[c].value
      BY <2>1 DEF LRUCache!Longer
    <3>4. /\ newest' \in Nat /\ newest' <= lruOrigin
          /\ ~touched => newest' = lruFlight[c].value
      BY <1>0, <3>2, <3>3
    <3> QED
      BY <3>1, <3>4, Zenon
  <2> QED
    BY <2>1
<1>2. LruTypes'
  BY <1>1 DEF LruIInv, LruTypes, LruFlight
<1>3. LRUCache!Flying' = LRUCache!Flying
  BY DEF LRUCache!Flying, LruIInv, LruTypes, LruFlight
<1>4. MapCurrent' /\ LRUCache!SingleFlight' /\ LRUCache!WaitersCarried'
  BY <1>3 DEF LruIInv, MapCurrent, LRUCache!SingleFlight, LRUCache!WaitersCarried
<1>5. FlightsAhead'
  <2>1. \A d \in Clients : lruFlight'[d].step = "calling" => d # c /\ lruFlight'[d] = lruFlight[d]
    BY DEF LruIInv, LruTypes, LruFlight
  <2>2. \A d \in Clients : ~touched /\ lruFlight[d].step = "calling" => d = c
    BY DEF LruIInv, LRUCache!SingleFlight, LRUCache!Flying
  <2> QED
    BY <1>1, <2>1, <2>2 DEF LruIInv, LruTypes, FlightsAhead
<1>6. LRUCache!NeverOlder'
  BY <1>1 DEF LruIInv, LRUCache!NeverOlder
<1> QED
  BY <1>2, <1>4, <1>5, <1>6 DEF LruIInv

LEMMA LruThrowKeeps ==
    ASSUME LRUCache!CacheAssumption, LruIInv, NEW c \in Clients, LRUCache!Throw(c)
    PROVE  LruIInv'
<1> USE DEF LRUCache!Throw, LRUCache!history
<1>1. LruTypes'
  BY DEF LruIInv, LruTypes, LruFlight
<1>2. LRUCache!Flying' = LRUCache!Flying
  BY DEF LRUCache!Flying, LruIInv, LruTypes, LruFlight
<1>3. \A d \in Clients : lruFlight'[d].step = "calling" => lruFlight'[d] = lruFlight[d]
  BY DEF LruIInv, LruTypes, LruFlight
<1> QED
  BY <1>1, <1>2, <1>3
  DEF LruIInv, MapCurrent, LRUCache!SingleFlight, FlightsAhead, LRUCache!NeverOlder,
      LRUCache!WaitersCarried

\* The flight that ends takes all its waiters with it.
LEMMA LruCloseKeeps ==
    ASSUME LRUCache!CacheAssumption, LruIInv, NEW c \in Clients, LRUCache!Close(c)
    PROVE  LruIInv'
<1> USE DEF LRUCache!Close, LRUCache!history, LRUCache!NoFlight
<1>1. LruTypes'
  BY DEF LruIInv, LruTypes, LruFlight
<1>2. LRUCache!Flying' = LRUCache!Flying \ {c}
  BY DEF LRUCache!Flying, LruIInv, LruTypes, LruFlight
<1>3. MapCurrent'
  BY DEF MapCurrent
<1>4. LRUCache!SingleFlight'
  <2>1. c \in LRUCache!Flying
    BY DEF LRUCache!Flying
  <2> QED
    BY <1>2, <2>1 DEF LruIInv, LRUCache!SingleFlight
<1>5. FlightsAhead'
  BY DEF LruIInv, LruTypes, LruFlight, FlightsAhead
<1>6. LRUCache!NeverOlder'
  BY DEF LruIInv, LRUCache!NeverOlder
<1>7. LRUCache!WaitersCarried'
  BY <1>2 DEF LruIInv, LruTypes, LRUCache!WaitersCarried, LRUCache!Waiting
<1> QED
  BY <1>1, <1>3, <1>4, <1>5, <1>6, <1>7 DEF LruIInv

\* The other operations end no flight; from the first set(), delete() or
\* clear() on, SingleFlight and NeverOlder ask for nothing.
LEMMA LruOthersKeep ==
    ASSUME LRUCache!CacheAssumption, LruIInv,
           LRUCache!Get \/ LRUCache!Set \/ LRUCache!Delete \/ LRUCache!Clear
             \/ LRUCache!Evict \/ LRUCache!Change \/ LRUCache!Tick
    PROVE  LruIInv'
<1> USE DEF LRUCache!Get, LRUCache!Set, LRUCache!Delete, LRUCache!Clear,
           LRUCache!Evict, LRUCache!Change,
            LRUCache!Tick, LRUCache!history
<1>1. LruTypes'
  <2>1. LRUCache!NewEntry(lruOrigin) \in LRUCache!Entry
    BY LruEntryType DEF LruIInv, LruTypes
  <2>2. lruEntry' \in LRUCache!Entry \cup {None}
    BY <2>1 DEF LruIInv, LruTypes
  <2>3. lruNow' \in Nat /\ lruOrigin' \in Nat
    BY DEF LruIInv, LruTypes
  <2> QED
    BY <2>2, <2>3 DEF LruIInv, LruTypes
<1>2. LRUCache!Flying' = LRUCache!Flying
  BY DEF LRUCache!Flying
<1>3. MapCurrent' /\ LRUCache!WaitersCarried'
  BY <1>2 DEF LruIInv, MapCurrent, LRUCache!WaitersCarried
<1>4. LRUCache!SingleFlight' /\ LRUCache!NeverOlder'
  BY <1>2 DEF LruIInv, LRUCache!SingleFlight, LRUCache!NeverOlder
<1>5. FlightsAhead'
  BY DEF LruIInv, LruTypes, FlightsAhead
<1> QED
  BY <1>1, <1>3, <1>4, <1>5 DEF LruIInv

LEMMA LruNext == ASSUME LRUCache!CacheAssumption, LruIInv,
                        [LRUCache!Next]_(LRUCache!vars) PROVE LruIInv'
<1>1. CASE LRUCache!Next
  BY <1>1, LruGetOrSetKeeps, LruWriteKeeps, LruThrowKeeps, LruCloseKeeps,
     LruOthersKeep DEF LRUCache!Next
<1>2. CASE UNCHANGED LRUCache!vars
  BY <1>2
  DEF LRUCache!vars, LRUCache!history, LruIInv, LruTypes, MapCurrent, LRUCache!SingleFlight,
      FlightsAhead, LRUCache!NeverOlder,
              LRUCache!WaitersCarried, LRUCache!Flying
<1> QED
  BY <1>1, <1>2

LEMMA LruInvariance == ASSUME LRUCache!CacheAssumption PROVE LRUCache!Spec => []LruIInv
BY LruInit, LruNext, PTL DEF LRUCache!Spec

LEMMA LruMoves == Spec => LRUCache!Spec
<1>1. Init => LRUCache!Init
  BY DEF Init
<1>2. [Next]_vars => [LRUCache!Next]_(LRUCache!vars)
  BY DEF Next, vars, lru, LRUCache!vars, LRUCache!history
<1> QED
  BY <1>1, <1>2, PTL DEF Spec, LRUCache!Spec

LEMMA LruHolds == Spec => []LruIInv
BY LruMoves, LruInvariance, DataLayerAssumption, PTL

\* getOrSet() of lru.ts calls one factory at a time as long as nobody else uses
\* the cache, whatever is evicted, expires or throws meanwhile.
THEOREM SingleFlightHolds == Spec => []SingleFlight
<1>1. LruIInv => SingleFlight
  BY DEF LruIInv, SingleFlight
<1> QED
  BY <1>1, LruHolds, PTL

\* ... so a slow factory never overwrites what a faster, later one has written.
THEOREM NeverOlderHolds == Spec => []NeverOlder
<1>1. LruIInv => NeverOlder
  BY DEF LruIInv, NeverOlder
<1> QED
  BY <1>1, LruHolds, PTL

\* Even clear() in the middle of a flight strands no caller of getOrSet().
THEOREM WaitersCarriedHolds == Spec => []WaitersCarried
<1>1. LruIInv => WaitersCarried
  BY DEF LruIInv, WaitersCarried
<1> QED
  BY <1>1, LruHolds, PTL

-------------------------------------------------------------------------------
\* A flight of the response cache, and the microtasks that a settled fill leaves.
HttpFlights ==
    [kind : {"none", "fill", "refresh"}, step : {"idle", "calling", "storing", "closing", "rejected"},
     policy : HttpCache!Policies, used : BOOLEAN]
Reactions == [step : {"resume", "clone", "handover"}, of : Clients]

HttpTypes ==
    /\ httpInflight \in Clients \cup {None} /\ refreshing \in Clients \cup {None}
    /\ httpPhase \in [Clients -> {"new", "reading", "waiting", "answered", "failed"}]
    /\ httpFlight \in [Clients -> HttpFlights]
    /\ httpOn \in [Clients -> Clients \cup {None}]
    /\ reactions \in Seq(Reactions)

\* Whoever waits does so on a fill, and whoever has not begun has called nothing.
HttpWaits ==
    \A r \in Clients :
        /\ httpPhase[r] = "waiting" <=> httpOn[r] # None
        /\ httpOn[r] # None => httpOn[r] \in HttpCache!At("fill")
        /\ httpPhase[r] \in {"new", "reading"} => httpFlight[r].step = "idle"
        /\ httpFlight[r].kind = "none" => httpFlight[r].step = "idle"

\* Between two events the one fill there may be is in the map, and its response
\* has not been read.  The map has nothing else but a fill that was rejected at once.
MapHas == httpInflight \in HttpCache!At("fill") \/ httpFlight[httpInflight].step = "rejected"

FillInMap ==
    /\ httpInflight # None => HttpCache!Idle /\ MapHas
    /\ HttpCache!Idle =>
          \A r \in HttpCache!At("fill") :
              httpInflight = r /\ httpOn[r] = r /\ ~httpFlight[r].used

Refreshes == \A r \in HttpCache!At("refresh") : refreshing = r

\* Fill f hands its response over: there is one reaction for everyone who waits,
\* and nobody reads the body before all have cloned it.
Handing(f) ==
    /\ HttpCache!At("fill") = {f} /\ httpInflight = None
    /\ \A i \in 1 .. Len(reactions) : httpOn[reactions[i].of] = f
    /\ \A i, j \in 1 .. Len(reactions) : i # j => reactions[i].of # reactions[j].of
    /\ \A r \in Clients : httpOn[r] = f => \E i \in 1 .. Len(reactions) : reactions[i].of = r
    /\ \A i, j \in 1 .. Len(reactions) :
          i < j /\ reactions[i].step = "handover" => reactions[j].step = "handover"
    /\ httpFlight[f].used => \A i \in 1 .. Len(reactions) : reactions[i].step = "handover"

HandsOver == ~HttpCache!Idle => \E f \in Clients : Handing(f)

HttpIInv == HttpTypes /\ HttpWaits /\ FillInMap /\ Refreshes /\ HandsOver

-------------------------------------------------------------------------------
\* An instance has its own names for the operators of FiniteSets.
LEMMA HttpFinite ==
    /\ \A S : HttpCache!IsFiniteSet(S) = IsFiniteSet(S)
    /\ \A S : HttpCache!Cardinality(S) = Cardinality(S)
<1>1. \A S : HttpCache!IsFiniteSet(S) = IsFiniteSet(S)
  BY DEF HttpCache!IsFiniteSet, IsFiniteSet
<1>2. \A S : HttpCache!Cardinality(S) = Cardinality(S)
  BY DEF HttpCache!Cardinality, Cardinality
<1> QED
  BY <1>1, <1>2

\* An order of S has all of S.
LEMMA OrdersOnto ==
    ASSUME NEW S, IsFiniteSet(S), NEW f \in HttpCache!Orders(S)
    PROVE  /\ Cardinality(S) \in Nat
           /\ f \in [1 .. Cardinality(S) -> S]
           /\ \A i, j \in 1 .. Cardinality(S) : i # j => f[i] # f[j]
           /\ \A x \in S : \E i \in 1 .. Cardinality(S) : f[i] = x
<1>1. Cardinality(S) \in Nat
  BY FS_CardinalityType
<1>2. f \in Injection(1 .. Cardinality(S), S)
  <2>1. /\ f \in [1 .. Cardinality(S) -> S]
        /\ \A i, j \in 1 .. Cardinality(S) : i # j => f[i] # f[j]
    BY HttpFinite DEF HttpCache!Orders
  <2> QED
    BY <2>1 DEF Injection, IsInjective
<1>3. Cardinality(1 .. Cardinality(S)) = Cardinality(S)
  BY <1>1, FS_Interval
<1>4. f \in Surjection(1 .. Cardinality(S), S)
  BY <1>2, <1>3, FS_Injection
<1> QED
  BY <1>1, <1>4 DEF HttpCache!Orders, Surjection

LEMMA HttpInit == ASSUME HttpCache!HttpCacheAssumption, HttpCache!Init PROVE HttpIInv
<1> USE DEF HttpCache!Init, HttpCache!NoFlight, HttpCache!HttpCacheAssumption
<1>1. HttpTypes
  BY DEF HttpTypes, HttpFlights, HttpCache!Policies
<1>2. \A kind : HttpCache!At(kind) = {}
  BY DEF HttpCache!At
<1> QED
  BY <1>1, <1>2 DEF HttpIInv, HttpWaits, FillInMap, Refreshes, HandsOver, HttpCache!Idle

\* What happens between two events leaves the reactions empty.
LEMMA IdleKeeps ==
    ASSUME HttpCache!Idle, HttpTypes', HttpWaits', Refreshes', UNCHANGED reactions,
           httpInflight' # None => MapHas',
           (\A r \in HttpCache!At("fill") : httpInflight = r /\ httpOn[r] = r
             /\ ~httpFlight[r].used)'
    PROVE  HttpIInv'
BY DEF HttpIInv, FillInMap, HandsOver, HttpCache!Idle

LEMMA BypassKeeps == ASSUME HttpCache!HttpCacheAssumption, HttpIInv, NEW r \in Clients,
                            HttpCache!Bypass(r)
                     PROVE  HttpIInv'
<1> USE DEF HttpCache!Bypass
<1>1. HttpTypes' /\ HttpWaits' /\ Refreshes'
  BY DEF HttpIInv, HttpTypes, HttpWaits, Refreshes, HttpCache!At
<1>2. HttpCache!At("fill")' = HttpCache!At("fill")
  BY DEF HttpCache!At
<1> QED
  BY <1>1, <1>2, IdleKeeps DEF HttpIInv, FillInMap, MapHas

LEMMA ReadAsyncKeeps == ASSUME HttpCache!HttpCacheAssumption, HttpIInv, NEW r \in Clients,
                               HttpCache!ReadAsync(r)
                        PROVE  HttpIInv'
<1> USE DEF HttpCache!ReadAsync
<1>1. HttpTypes' /\ HttpWaits' /\ Refreshes'
  BY DEF HttpIInv, HttpTypes, HttpWaits, Refreshes, HttpCache!At
<1>2. HttpCache!At("fill")' = HttpCache!At("fill")
  BY DEF HttpCache!At
<1> QED
  BY <1>1, <1>2, IdleKeeps DEF HttpIInv, FillInMap, MapHas

\* A request joins the fill, or makes the call that nobody else has under way.
LEMMA ResolveKeeps ==
    ASSUME HttpCache!HttpCacheAssumption, HttpIInv, NEW r \in Clients, NEW e,
           HttpCache!Idle, httpPhase[r] \in {"new", "reading"}, HttpCache!Resolve(r, e),
           UNCHANGED reactions
    PROVE  HttpIInv'
<1>0. /\ httpFlight[r].step = "idle" /\ httpOn[r] = None
      /\ \A kind : r \notin HttpCache!At(kind)
      /\ httpPhase'[r] \in {"answered", "waiting", "failed"}
      /\ \A q \in Clients \ {r} : httpPhase'[q] = httpPhase[q]
      /\ httpPhase' \in [Clients -> {"new", "reading", "waiting", "answered", "failed"}]
  BY DEF HttpIInv, HttpTypes, HttpWaits, HttpCache!At, HttpCache!Resolve, HttpCache!Join,
         HttpCache!Fill, HttpCache!ThrowsAtOnce
<1>1. CASE UNCHANGED <<httpFlight, httpInflight, refreshing, httpOn>>
           /\ httpPhase'[r] \in {"answered", "failed"}
  <2>1. HttpTypes' /\ HttpWaits' /\ Refreshes'
    BY <1>0, <1>1 DEF HttpIInv, HttpTypes, HttpWaits, Refreshes, HttpCache!At
  <2>2. HttpCache!At("fill")' = HttpCache!At("fill")
    BY <1>1 DEF HttpCache!At
  <2> QED
    BY <1>1, <2>1, <2>2, IdleKeeps DEF HttpIInv, FillInMap, MapHas
<1>2. CASE UNCHANGED <<httpInflight, httpOn>> /\ httpPhase'[r] = "answered"
           /\ refreshing = None /\ refreshing' = r /\ HttpCache!Call(r, "refresh")
  <2>1. HttpTypes' /\ httpFlight'[r].kind = "refresh" /\ httpFlight'[r].step = "calling"
        /\ \A q \in Clients \ {r} : httpFlight'[q] = httpFlight[q]
    BY <1>0, <1>2
    DEF HttpIInv, HttpTypes, HttpFlights, HttpCache!Policies, HttpCache!Call, HttpCache!NoFlight
  <2>2. HttpCache!At("fill")' = HttpCache!At("fill") /\ HttpCache!At("refresh") = {}
        /\ HttpCache!At("refresh")' = {r}
    BY <1>0, <1>2, <2>1 DEF HttpIInv, Refreshes, HttpCache!At, HttpCache!HttpCacheAssumption
  <2>3. HttpWaits' /\ Refreshes'
    BY <1>0, <1>2, <2>1, <2>2 DEF HttpIInv, HttpTypes, HttpWaits, Refreshes
  <2>4. \A q \in HttpCache!At("fill") : httpFlight'[q] = httpFlight[q]
    BY <1>0, <2>1 DEF HttpCache!At
  <2>5. httpInflight' # None => MapHas'
    BY <1>0, <1>2, <2>1, <2>2 DEF HttpIInv, HttpTypes, FillInMap, MapHas
  <2> QED
    BY <1>2, <2>1, <2>2, <2>3, <2>4, <2>5, IdleKeeps DEF HttpIInv, FillInMap
<1>3. CASE /\ UNCHANGED <<httpFlight, httpInflight, refreshing>> /\ httpPhase'[r] = "waiting"
           /\ httpInflight # None /\ httpOn' = [httpOn EXCEPT ![r] = httpInflight]
           /\ httpFlight[httpInflight].step # "rejected"
  <2>1. HttpTypes'
    BY <1>0, <1>3 DEF HttpIInv, HttpTypes
  <2>2. HttpCache!At("fill")' = HttpCache!At("fill") /\ HttpCache!At("refresh")'
          = HttpCache!At("refresh")
    BY <1>3 DEF HttpCache!At
  <2>3. HttpWaits' /\ Refreshes'
    BY <1>0, <1>3, <2>2 DEF HttpIInv, HttpTypes, HttpWaits, Refreshes, FillInMap, MapHas
  <2> QED
    BY <1>0, <1>3, <2>1, <2>2, <2>3, IdleKeeps DEF HttpIInv, HttpTypes, FillInMap, MapHas
<1>4. CASE /\ UNCHANGED refreshing /\ httpPhase'[r] = "waiting"
           /\ httpInflight = None /\ httpInflight' = r
           /\ httpOn' = [httpOn EXCEPT ![r] = r] /\ HttpCache!Call(r, "fill")
  <2>1. HttpTypes' /\ httpFlight'[r].kind = "fill" /\ httpFlight'[r].step = "calling"
        /\ ~httpFlight'[r].used
        /\ \A q \in Clients \ {r} : httpFlight'[q] = httpFlight[q]
    BY <1>0, <1>4
    DEF HttpIInv, HttpTypes, HttpFlights, HttpCache!Policies, HttpCache!Call, HttpCache!NoFlight
  <2>2. HttpCache!At("fill") = {} /\ HttpCache!At("fill")' = {r} /\ HttpCache!At("refresh")'
          = HttpCache!At("refresh")
    BY <1>0, <1>4, <2>1 DEF HttpIInv, FillInMap, HttpCache!At, HttpCache!HttpCacheAssumption
  <2>3. HttpWaits'
    BY <1>0, <1>4, <2>1, <2>2 DEF HttpIInv, HttpTypes, HttpWaits, HttpCache!HttpCacheAssumption
  <2>4. Refreshes'
    BY <1>4, <2>2 DEF HttpIInv, Refreshes
  <2> QED
    BY <1>4, <2>1, <2>2, <2>3, <2>4, IdleKeeps DEF HttpIInv, HttpTypes, MapHas
<1>5. CASE UNCHANGED refreshing /\ HttpCache!ThrowsAtOnce(r)
  <2>1. HttpTypes' /\ httpFlight'[r].kind = "fill" /\ httpFlight'[r].step = "rejected"
        /\ \A q \in Clients \ {r} : httpFlight'[q] = httpFlight[q]
    BY <1>0, <1>5
    DEF HttpIInv, HttpTypes, HttpFlights, HttpCache!Policies, HttpCache!ThrowsAtOnce,
        HttpCache!NoFlight
  <2>2. HttpCache!At("fill") = {} /\ HttpCache!At("fill")' = {} /\ HttpCache!At("refresh")'
          = HttpCache!At("refresh")
    BY <1>0, <1>5, <2>1
    DEF HttpIInv, FillInMap, HttpCache!At, HttpCache!HttpCacheAssumption, HttpCache!ThrowsAtOnce
  <2>3. HttpWaits'
    BY <1>0, <1>5, <2>1, <2>2
    DEF HttpIInv, HttpTypes, HttpWaits, HttpCache!HttpCacheAssumption, HttpCache!ThrowsAtOnce
  <2>4. Refreshes'
    BY <1>5, <2>2 DEF HttpIInv, Refreshes
  <2>5. MapHas'
    BY <1>5, <2>1 DEF MapHas, HttpCache!ThrowsAtOnce
  <2> QED
    BY <2>1, <2>2, <2>3, <2>4, <2>5, IdleKeeps
<1>6. CASE HttpCache!Usable(e)
  BY <1>0, <1>1, <1>2, <1>6 DEF HttpCache!Resolve, HttpCache!NeedsRefresh, HttpIInv, HttpTypes
<1>7. CASE ~HttpCache!Usable(e)
  <2>1. CASE HttpCache!Join(r)
    BY <1>0, <1>1, <1>3, <1>7, <2>1 DEF HttpCache!Resolve, HttpCache!Join, HttpIInv, HttpTypes
  <2>2. CASE HttpCache!Fill(r)
    BY <1>0, <1>4, <1>7, <2>2 DEF HttpCache!Resolve, HttpCache!Fill, HttpIInv, HttpTypes
  <2> QED
    BY <1>5, <1>7, <2>1, <2>2 DEF HttpCache!Resolve
<1> QED
  BY <1>6, <1>7

LEMMA ReadKeeps == ASSUME HttpCache!HttpCacheAssumption, HttpIInv, NEW r \in Clients,
                          HttpCache!ReadLocal(r) \/ HttpCache!Resume(r)
                   PROVE  HttpIInv'
BY ResolveKeeps DEF HttpCache!ReadLocal, HttpCache!Resume

\* The factory call of r goes a step further.
LEMMA FlightStepKeeps ==
    ASSUME HttpCache!HttpCacheAssumption, HttpIInv, NEW r \in Clients,
           HttpCache!Store(r) \/ \E policy \in HttpCache!Policies :
               HttpCache!FactoryAnswers(r, policy)
    PROVE  HttpIInv'
<1>1. /\ httpFlight' \in [Clients -> HttpFlights] /\ httpFlight[r].step \in {"calling", "storing"}
      /\ httpFlight'[r].step \in {"storing", "closing"}
      /\ httpFlight'[r].kind = httpFlight[r].kind /\ httpFlight'[r].used = httpFlight[r].used
      /\ \A q \in Clients \ {r} : httpFlight'[q] = httpFlight[q]
      /\ HttpCache!Idle /\ UNCHANGED <<httpPhase, httpOn, httpInflight, refreshing, reactions>>
  <2>1. CASE HttpCache!Store(r)
    BY <2>1 DEF HttpCache!Store, HttpIInv, HttpTypes, HttpFlights
  <2>2. CASE \E policy \in HttpCache!Policies : HttpCache!FactoryAnswers(r, policy)
    <3>1. PICK policy \in HttpCache!Policies, step \in {"storing", "closing"} :
            httpFlight' = [httpFlight EXCEPT ![r].policy = policy, ![r].step = step]
      BY <2>2 DEF HttpCache!FactoryAnswers
    <3>2. httpFlight[r].step = "calling"
          /\ HttpCache!Idle /\ UNCHANGED <<httpPhase, httpOn, httpInflight, refreshing, reactions>>
      BY <2>2 DEF HttpCache!FactoryAnswers
    <3> QED
      BY <3>1, <3>2 DEF HttpIInv, HttpTypes, HttpFlights
  <2> QED
    BY <2>1, <2>2
<1>2. HttpCache!At("fill")' = HttpCache!At("fill") /\ HttpCache!At("refresh")'
        = HttpCache!At("refresh")
  BY <1>1 DEF HttpCache!At
<1>3. HttpTypes' /\ HttpWaits' /\ Refreshes'
  BY <1>1, <1>2 DEF HttpIInv, HttpTypes, HttpWaits, Refreshes
<1>4. httpInflight' # None => MapHas'
  BY <1>1, <1>2 DEF HttpIInv, HttpTypes, FillInMap, MapHas
<1> QED
  BY <1>1, <1>2, <1>3, <1>4, IdleKeeps DEF HttpIInv, FillInMap, HttpCache!At

LEMMA FactoryThrowsKeeps ==
    ASSUME HttpCache!HttpCacheAssumption, HttpIInv, NEW r \in Clients, HttpCache!FactoryThrows(r)
    PROVE  HttpIInv'
<1> USE DEF HttpCache!FactoryThrows
<1>0. /\ httpFlight' \in [Clients -> HttpFlights]
      /\ httpFlight[r].kind \in {"fill", "refresh"} /\ httpFlight[r].step = "calling"
      /\ httpFlight'[r] = HttpCache!NoFlight /\ \A q \in Clients \ {r} : httpFlight'[q]
           = httpFlight[q]
  BY DEF HttpIInv, HttpTypes, HttpWaits, HttpFlights, HttpCache!NoFlight, HttpCache!Policies
<1>1. CASE httpFlight[r].kind = "refresh"
  <2>1. HttpCache!At("fill")' = HttpCache!At("fill") /\ HttpCache!At("refresh") = {r}
        /\ HttpCache!At("refresh")' = {}
    BY <1>0, <1>1 DEF HttpCache!At, HttpCache!NoFlight, HttpIInv, Refreshes
  <2>2. HttpTypes' /\ HttpWaits' /\ Refreshes'
    BY <1>0, <1>1, <2>1 DEF HttpIInv, HttpTypes, HttpWaits, Refreshes, HttpCache!NoFlight
  <2>3. \A q \in HttpCache!At("fill") : httpFlight'[q] = httpFlight[q]
    BY <1>0, <1>1 DEF HttpCache!At
  <2>4. httpInflight' # None => MapHas'
    BY <1>0, <1>1, <2>1 DEF HttpIInv, HttpTypes, FillInMap, MapHas
  <2> QED
    BY <1>1, <2>1, <2>2, <2>3, <2>4, IdleKeeps DEF HttpIInv, FillInMap
<1>2. CASE httpFlight[r].kind = "fill"
  <2>1. HttpCache!At("fill") = {r} /\ HttpCache!At("fill")' = {} /\ HttpCache!At("refresh")'
          = HttpCache!At("refresh")
    BY <1>0, <1>2 DEF HttpCache!At, HttpCache!NoFlight, HttpIInv, FillInMap
  <2>2. \A q \in Clients : httpOn'[q] = None /\ httpPhase'[q] # "waiting"
                           /\ (httpPhase'[q] = httpPhase[q] \/ (httpPhase[q] = "waiting"
                                /\ httpPhase'[q] = "failed"))
    <3>1. \A q \in Clients : httpOn[q] \in {r, None}
      BY <2>1 DEF HttpIInv, HttpTypes, HttpWaits
    <3>2. /\ httpPhase' = [q \in Clients |-> IF httpOn[q] = r THEN "failed" ELSE httpPhase[q]]
          /\ httpOn' = [q \in Clients |-> IF httpOn[q] = r THEN None ELSE httpOn[q]]
      BY <1>2
    <3>3. \A q \in Clients : httpOn[q] = r => httpPhase[q] = "waiting"
      BY DEF HttpIInv, HttpWaits, HttpCache!HttpCacheAssumption
    <3>4. \A q \in Clients : httpOn[q] = None => httpPhase[q] # "waiting"
      BY DEF HttpIInv, HttpWaits
    <3> QED
      BY <3>1, <3>2, <3>3, <3>4
  <2>3. HttpTypes'
    BY <1>0, <1>2 DEF HttpIInv, HttpTypes
  <2>4. HttpWaits' /\ Refreshes'
    BY <1>0, <1>2, <2>1, <2>2 DEF HttpIInv, HttpWaits, Refreshes, HttpCache!NoFlight
  <2> QED
    BY <1>2, <2>1, <2>3, <2>4, IdleKeeps
<1> QED
  BY <1>0, <1>1, <1>2

\* A position of a sequence is the last one or comes before it.
LEMMA BeforeLast ==
    ASSUME NEW m \in Nat, NEW n \in Nat, m = n
    PROVE  \A i \in 1 .. m : (i \in 1 .. n - 1) \/ i = n
OBVIOUS

\* The promise of a fill resolves: its reactions are all that wait for it.
LEMMA ContinuationsType ==
    ASSUME NEW r \in Clients, NEW S \in SUBSET Clients, IsFiniteSet(S),
           NEW order \in HttpCache!Orders(S)
    PROVE  /\ HttpCache!Continuations(r, order) \in Seq(Reactions)
           /\ Len(HttpCache!Continuations(r, order)) = Cardinality(S) + 1
           /\ HttpCache!Continuations(r, order)[1] = [step |-> "resume", of |-> r]
           /\ \A i \in 1 .. Cardinality(S) :
                 HttpCache!Continuations(r, order)[i + 1] = [step |-> "clone", of |-> order[i]]
<1>1. Cardinality(S) \in Nat /\ order \in [1 .. Cardinality(S) -> S]
  BY OrdersOnto
<1> DEFINE one == <<[step |-> "resume", of |-> r]>>
           more == [i \in DOMAIN order |-> [step |-> "clone", of |-> order[i]]]
<1>2. one \in Seq(Reactions) /\ Len(one) = 1 /\ one[1] = [step |-> "resume", of |-> r]
  BY DEF Reactions
<1>3. more \in [1 .. Cardinality(S) -> Reactions]
  BY <1>1 DEF Reactions
<1>4. more \in Seq(Reactions) /\ Len(more) = Cardinality(S)
  BY <1>1, <1>3
<1>5. \A i \in 1 .. Cardinality(S) : more[i] = [step |-> "clone", of |-> order[i]]
  BY <1>1
<1> HIDE DEF one, more
<1>6. one \o more \in Seq(Reactions) /\ Len(one \o more) = Cardinality(S) + 1
      /\ (one \o more)[1] = one[1]
      /\ \A i \in 1 .. Cardinality(S) : (one \o more)[i + 1] = more[i]
  <2>1. /\ one \o more \in Seq(Reactions)
        /\ Len(one \o more) = 1 + Cardinality(S)
        /\ \A i \in 1 .. 1 + Cardinality(S) :
              (one \o more)[i] = IF i <= 1 THEN one[i] ELSE more[i - 1]
    <3>1. /\ one \o more \in Seq(Reactions)
          /\ Len(one \o more) = Len(one) + Len(more)
          /\ \A i \in 1 .. Len(one) + Len(more) :
                (one \o more)[i] = IF i <= Len(one) THEN one[i] ELSE more[i - Len(one)]
      BY <1>2, <1>4, ConcatProperties
    <3> QED
      BY <1>2, <1>4, <3>1
  <2>2. 1 \in 1 .. 1 + Cardinality(S) /\ 1 + Cardinality(S) = Cardinality(S) + 1
    BY <1>1
  <2>3. \A i \in 1 .. Cardinality(S) : i + 1 \in 1 .. 1 + Cardinality(S) /\ ~(i + 1 <= 1)
                                          /\ (i + 1) - 1 = i
    BY <1>1
  <2> QED
    BY <2>1, <2>2, <2>3
<1> QED
  BY <1>2, <1>5, <1>6 DEF HttpCache!Continuations, one, more

LEMMA HttpCloseKeeps ==
    ASSUME HttpCache!HttpCacheAssumption, HttpIInv, NEW r \in Clients, HttpCache!Close(r)
    PROVE  HttpIInv'
<1> USE DEF HttpCache!Close
<1>1. CASE httpFlight[r].kind = "refresh"
  <2>a. httpFlight' = [httpFlight EXCEPT ![r] = HttpCache!NoFlight]
    BY <1>1
  <2>b. HttpCache!NoFlight \in HttpFlights
    BY DEF HttpCache!NoFlight, HttpFlights, HttpCache!Policies
  <2>0. /\ httpFlight' \in [Clients -> HttpFlights]
        /\ httpFlight'[r] = HttpCache!NoFlight /\ \A q \in Clients \ {r} : httpFlight'[q]
             = httpFlight[q]
    BY <2>a, <2>b DEF HttpIInv, HttpTypes
  <2>1. HttpCache!At("fill")' = HttpCache!At("fill") /\ HttpCache!At("refresh") = {r}
        /\ HttpCache!At("refresh")' = {}
    BY <1>1, <2>0 DEF HttpCache!At, HttpCache!NoFlight, HttpIInv, Refreshes
  <2>2. HttpTypes' /\ HttpWaits' /\ Refreshes'
    BY <1>1, <2>0, <2>1 DEF HttpIInv, HttpTypes, HttpWaits, Refreshes, HttpCache!NoFlight
  <2>3. \A q \in HttpCache!At("fill") : httpFlight'[q] = httpFlight[q]
    BY <1>1, <2>0 DEF HttpCache!At
  <2>4. httpInflight' # None => MapHas'
    BY <1>1, <2>0, <2>1 DEF HttpIInv, HttpTypes, FillInMap, MapHas
  <2> QED
    BY <1>1, <2>1, <2>2, <2>3, <2>4, IdleKeeps DEF HttpIInv, FillInMap
<1>2. CASE httpFlight[r].kind # "refresh"
  <2>1. PICK order \in HttpCache!Orders(HttpCache!Awaiting(r) \ {r}) : reactions'
          = HttpCache!Continuations(r, order)
    BY <1>2
  <2>2. httpFlight[r].kind = "fill" /\ HttpCache!At("fill") = {r} /\ httpOn[r] = r
        /\ ~httpFlight[r].used
    BY <1>2 DEF HttpIInv, HttpTypes, HttpWaits, FillInMap, HttpFlights, HttpCache!At
  <2> DEFINE S == HttpCache!Awaiting(r) \ {r}
  <2>3. IsFiniteSet(S) /\ S \subseteq Clients
    <3>1. S \subseteq Clients
      BY DEF HttpCache!Awaiting
    <3>2. IsFiniteSet(Clients)
      BY HttpFinite DEF HttpCache!HttpCacheAssumption
    <3> QED
      BY <3>1, <3>2, FS_Subset, Zenon
  <2>a. order \in HttpCache!Orders(S)
    BY <2>1
  <2> HIDE DEF S
  <2>4. /\ reactions' \in Seq(Reactions) /\ Len(reactions') = Cardinality(S) + 1
        /\ reactions'[1] = [step |-> "resume", of |-> r]
        /\ \A i \in 1 .. Cardinality(S) : reactions'[i + 1] = [step |-> "clone", of |-> order[i]]
    BY <2>1, <2>3, <2>a, ContinuationsType
  <2>5. /\ Cardinality(S) \in Nat
        /\ order \in [1 .. Cardinality(S) -> S]
        /\ \A i, j \in 1 .. Cardinality(S) : i # j => order[i] # order[j]
        /\ \A x \in S : \E i \in 1 .. Cardinality(S) : order[i] = x
    BY <2>3, <2>a, OrdersOnto
  <2>6. HttpTypes' /\ HttpWaits' /\ Refreshes'
    BY <1>2, <2>4 DEF HttpIInv, HttpTypes, HttpWaits, Refreshes, HttpCache!At
  <2>7. \A i \in 1 .. Len(reactions') : i = 1 \/ (i - 1 \in 1 .. Cardinality(S) /\ i = (i - 1) + 1)
    BY <2>4, <2>5
  <2>8. /\ reactions'[1].of = r /\ reactions'[1].step # "handover"
        /\ \A i \in 1 .. Len(reactions') : i # 1 =>
              /\ reactions'[i].of = order[i - 1] /\ reactions'[i].step # "handover"
              /\ order[i - 1] \in S
    <3>1. \A i \in 1 .. Cardinality(S) : /\ reactions'[i + 1].of = order[i]
                                          /\ reactions'[i + 1].step # "handover"
                                          /\ order[i] \in S
      <4> SUFFICES ASSUME NEW i \in 1 .. Cardinality(S)
                   PROVE  /\ reactions'[i + 1].of = order[i]
                          /\ reactions'[i + 1].step # "handover"
                          /\ order[i] \in S
        OBVIOUS
      <4>1. reactions'[i + 1] = [step |-> "clone", of |-> order[i]]
        BY <2>4
      <4> QED
        BY <2>5, <4>1
    <3> QED
      BY <2>4, <2>7, <3>1
  <2>9. \A q \in S : httpOn[q] = r /\ q # r
    BY DEF S, HttpCache!Awaiting
  <2>10. \A q \in Clients : httpOn[q] = r => q = r \/ q \in S
    BY DEF S, HttpCache!Awaiting
  <2>11. Handing(r)'
    <3>1. \A i, j \in 1 .. Len(reactions') : i # j => reactions'[i].of # reactions'[j].of
      <4> SUFFICES ASSUME NEW i \in 1 .. Len(reactions'), NEW j \in 1 .. Len(reactions'), i # j
                   PROVE  reactions'[i].of # reactions'[j].of
        OBVIOUS
      <4>1. CASE i # 1 /\ j # 1
        BY <2>5, <2>7, <2>8, <4>1
      <4>2. CASE i = 1 \/ j = 1
        BY <2>8, <2>9, <4>2
      <4> QED
        BY <4>1, <4>2
    <3>2. \A q \in Clients : httpOn[q] = r => \E i \in 1 .. Len(reactions') : reactions'[i].of = q
      <4> SUFFICES ASSUME NEW q \in Clients, httpOn[q] = r
                   PROVE  \E i \in 1 .. Len(reactions') : reactions'[i].of = q
        OBVIOUS
      <4>1. CASE q = r
        BY <2>4, <2>5, <2>8, <4>1
      <4>2. CASE q \in S
        <5>1. PICK i \in 1 .. Cardinality(S) : order[i] = q
          BY <2>5, <4>2
        <5>2. i + 1 \in 1 .. Len(reactions') /\ reactions'[i + 1].of = q
          <6>1. i + 1 \in 1 .. Len(reactions')
            BY <2>4, <2>5
          <6>2. reactions'[i + 1] = [step |-> "clone", of |-> order[i]]
            BY <2>4
          <6> QED
            BY <5>1, <6>1, <6>2
        <5> QED
          BY <5>2
      <4> QED
        BY <2>10, <4>1, <4>2
    <3>3. \A i \in 1 .. Len(reactions') : httpOn[reactions'[i].of] = r
          /\ reactions'[i].step # "handover"
      BY <2>2, <2>8, <2>9
    <3>4. HttpCache!At("fill")' = {r} /\ httpInflight' = None /\ httpOn' = httpOn /\ httpFlight'
            = httpFlight
      BY <1>2, <2>2 DEF HttpCache!At
    <3> QED
      BY <2>2, <3>1, <3>2, <3>3, <3>4 DEF Handing
  <2>12. ~HttpCache!Idle' /\ httpInflight' = None
    BY <1>2, <2>4, <2>5 DEF HttpCache!Idle
  <2> QED
    BY <2>6, <2>11, <2>12 DEF HttpIInv, FillInMap, HandsOver
<1> QED
  BY <1>1, <1>2

\* A reaction runs: a clone is made, or a response is handed over.
LEMMA ReactKeeps == ASSUME HttpCache!HttpCacheAssumption, HttpIInv, HttpCache!React PROVE HttpIInv'
<1>1. PICK f \in Clients : Handing(f)
  BY DEF HttpIInv, HandsOver, HttpCache!React
<1>2. PICK job : job = Head(reactions)
  OBVIOUS
<1>3. /\ Len(reactions) \in Nat \ {0} /\ job = reactions[1] /\ job \in Reactions
      /\ Tail(reactions) \in Seq(Reactions) /\ Len(Tail(reactions)) = Len(reactions) - 1
      /\ \A i \in 1 .. Len(reactions) - 1 : Tail(reactions)[i] = reactions[i + 1]
  <2>1. reactions \in Seq(Reactions) /\ reactions # <<>>
    BY DEF HttpIInv, HttpTypes, HttpCache!React, HttpCache!Idle
  <2> QED
    BY <1>2, <2>1
<1>4. httpOn[job.of] = f /\ job.of \in Clients /\ HttpCache!At("fill") = {f} /\ httpInflight = None
  BY <1>1, <1>3 DEF Handing, Reactions
<1>5. \A i \in 1 .. Len(reactions) - 1 : i + 1 \in 1 .. Len(reactions) /\ i + 1 # 1
  BY <1>3
<1>6. \A i \in 1 .. Len(reactions) - 1 : reactions[i + 1].of # job.of
  BY <1>1, <1>3, <1>5 DEF Handing
<1>7. CASE job.step # "handover"
  <2> DEFINE new == [step |-> "handover", of |-> job.of]
  <2>1. reactions' = Append(Tail(reactions), new) /\ UNCHANGED <<httpPhase, httpOn, httpFlight>>
        /\ UNCHANGED <<httpInflight, refreshing>>
    BY <1>2, <1>7 DEF HttpCache!React
  <2>2. new \in Reactions
    BY <1>3 DEF Reactions
  <2> HIDE DEF new
  <2>3. /\ reactions' \in Seq(Reactions) /\ Len(reactions') = Len(reactions)
        /\ \A i \in 1 .. Len(reactions) - 1 : reactions'[i] = reactions[i + 1]
        /\ reactions'[Len(reactions)] = new
    BY <1>3, <2>1, <2>2
  <2>4. new.of = job.of /\ new.step = "handover"
    BY DEF new
  <2>5. HttpCache!At("fill")' = HttpCache!At("fill") /\ HttpCache!At("refresh")'
          = HttpCache!At("refresh")
    BY <2>1 DEF HttpCache!At
  <2>6. HttpTypes' /\ HttpWaits' /\ Refreshes'
    BY <2>1, <2>3, <2>5 DEF HttpIInv, HttpTypes, HttpWaits, Refreshes
  <2>7. \A i \in 1 .. Len(reactions') : (i \in 1 .. Len(reactions) - 1) \/ i = Len(reactions)
    BY <1>3, <2>3, BeforeLast
  <2>8. ~httpFlight[f].used
    BY <1>1, <1>3, <1>7 DEF Handing
  <2>9. Handing(f)'
    <3>1. HttpCache!At("fill")' = {f} /\ httpInflight' = None
      BY <1>4, <2>1, <2>5
    <3>2. \A i \in 1 .. Len(reactions') : httpOn[reactions'[i].of] = f
      BY <1>1, <1>4, <1>5, <2>3, <2>4, <2>7 DEF Handing
    <3>3. \A i, j \in 1 .. Len(reactions') : i # j => reactions'[i].of # reactions'[j].of
      <4> SUFFICES ASSUME NEW i \in 1 .. Len(reactions'), NEW j \in 1 .. Len(reactions'), i # j
                   PROVE  reactions'[i].of # reactions'[j].of
        OBVIOUS
      <4>1. CASE i # Len(reactions) /\ j # Len(reactions)
        <5>1. i + 1 # j + 1 /\ i + 1 \in 1 .. Len(reactions) /\ j + 1 \in 1 .. Len(reactions)
          BY <1>5, <2>7, <4>1
        <5> QED
          BY <1>1, <2>3, <2>7, <4>1, <5>1 DEF Handing
      <4>2. CASE i = Len(reactions) \/ j = Len(reactions)
        BY <1>6, <2>3, <2>4, <2>7, <4>2
      <4> QED
        BY <4>1, <4>2
    <3>4. \A r \in Clients : httpOn[r] = f => \E i \in 1 .. Len(reactions') : reactions'[i].of = r
      <4> SUFFICES ASSUME NEW r \in Clients, httpOn[r] = f
                   PROVE  \E i \in 1 .. Len(reactions') : reactions'[i].of = r
        OBVIOUS
      <4>1. PICK i \in 1 .. Len(reactions) : reactions[i].of = r
        BY <1>1 DEF Handing
      <4>2. CASE i = 1
        BY <1>3, <2>3, <2>4, <4>1, <4>2
      <4>3. CASE i # 1
        <5>1. i - 1 \in 1 .. Len(reactions) - 1 /\ (i - 1) + 1 = i
              /\ i - 1 \in 1 .. Len(reactions')
          BY <1>3, <2>3, <4>3
        <5>2. reactions'[i - 1] = reactions[i]
          BY <2>3, <5>1
        <5> QED
          BY <4>1, <5>1, <5>2
      <4> QED
        BY <4>2, <4>3
    <3>5. \A i, j \in 1 .. Len(reactions') :
             i < j /\ reactions'[i].step = "handover" => reactions'[j].step = "handover"
      <4> SUFFICES ASSUME NEW i \in 1 .. Len(reactions'), NEW j \in 1 .. Len(reactions'),
                          i < j, reactions'[i].step = "handover"
                   PROVE  reactions'[j].step = "handover"
        OBVIOUS
      <4>1. CASE j = Len(reactions)
        BY <2>3, <2>4, <4>1
      <4>2. CASE j # Len(reactions)
        <5>1. i + 1 < j + 1 /\ i + 1 \in 1 .. Len(reactions) /\ j + 1 \in 1 .. Len(reactions)
              /\ i \in 1 .. Len(reactions) - 1 /\ j \in 1 .. Len(reactions) - 1
          <6>1. j \in 1 .. Len(reactions) - 1
            BY <2>7, <4>2
          <6>2. i \in Nat /\ 1 <= i /\ Len(reactions) \in Nat
            BY <1>3, <2>3
          <6> QED
            BY <6>1, <6>2
        <5> QED
          BY <1>1, <2>3, <5>1 DEF Handing
      <4> QED
        BY <4>1, <4>2
    <3> QED
      BY <2>1, <2>8, <3>1, <3>2, <3>3, <3>4, <3>5 DEF Handing
  <2>10. ~HttpCache!Idle' /\ httpInflight' = None
    BY <1>3, <1>4, <2>1, <2>3 DEF HttpCache!Idle
  <2> QED
    BY <2>6, <2>9, <2>10 DEF HttpIInv, FillInMap, HandsOver
<1>8. CASE job.step = "handover"
  <2>1. /\ reactions' = Tail(reactions)
        /\ httpPhase' = [httpPhase EXCEPT ![job.of] = "answered"]
        /\ httpOn' = [httpOn EXCEPT ![job.of] = None]
        /\ httpFlight' = IF Tail(reactions) = <<>> THEN [httpFlight EXCEPT ![f]
             = HttpCache!NoFlight]
                         ELSE [httpFlight EXCEPT ![f].used = @ \/ job.of = f]
        /\ UNCHANGED <<httpInflight, refreshing>>
    BY <1>2, <1>4, <1>8 DEF HttpCache!React
  <2>2. /\ httpOn'[job.of] = None /\ httpPhase'[job.of] = "answered"
        /\ \A r \in Clients \ {job.of} : httpOn'[r] = httpOn[r] /\ httpPhase'[r] = httpPhase[r]
    BY <1>4, <2>1 DEF HttpIInv, HttpTypes
  <2>3. \A i \in 1 .. Len(reactions) : reactions[i].step = "handover"
    <3>1. \A i \in 1 .. Len(reactions) : i = 1 \/ 1 < i
      BY <1>3
    <3> QED
      BY <1>1, <1>3, <1>8, <3>1 DEF Handing
  <2>4. \A r \in Clients : httpOn[r] = f => r = job.of \/ \E i \in 1 .. Len(Tail(reactions)) :
                                                             Tail(reactions)[i].of = r
    <3> SUFFICES ASSUME NEW r \in Clients, httpOn[r] = f, r # job.of
                 PROVE  \E i \in 1 .. Len(Tail(reactions)) : Tail(reactions)[i].of = r
      OBVIOUS
    <3>1. PICK i \in 1 .. Len(reactions) : reactions[i].of = r
      BY <1>1 DEF Handing
    <3>2. i - 1 \in 1 .. Len(reactions) - 1 /\ (i - 1) + 1 = i
      BY <1>3, <3>1
    <3>3. Tail(reactions)[i - 1] = reactions[i]
      BY <1>3, <3>2
    <3> QED
      BY <1>3, <3>1, <3>2, <3>3
  <2>5. CASE Tail(reactions) = <<>>
    <3>1. \A r \in Clients : httpOn[r] = f => r = job.of
      <4>1. Len(Tail(reactions)) = 0
        <5>1. Len(<<>>) = 0
          OBVIOUS
        <5> QED
          BY <2>5, <5>1
      <4>2. 1 .. Len(Tail(reactions)) = {}
        <5>1. 1 .. 0 = {}
          OBVIOUS
        <5> QED
          BY <4>1, <5>1, Zenon
      <4> QED
        BY <2>4, <4>2
    <3>2. /\ httpFlight' \in [Clients -> HttpFlights]
          /\ httpFlight'[f] = HttpCache!NoFlight /\ \A r \in Clients \ {f} : httpFlight'[r]
               = httpFlight[r]
      <4>1. HttpCache!NoFlight \in HttpFlights
        BY DEF HttpCache!NoFlight, HttpFlights, HttpCache!Policies
      <4> QED
        BY <2>1, <2>5, <4>1 DEF HttpIInv, HttpTypes
    <3>3. HttpCache!At("fill")' = {} /\ HttpCache!At("refresh")' = HttpCache!At("refresh")
      BY <1>4, <3>2 DEF HttpCache!At, HttpCache!NoFlight
    <3>4. \A r \in Clients : httpOn[r] \in {f, None}
      BY <1>4 DEF HttpIInv, HttpTypes, HttpWaits
    <3>5. HttpTypes' /\ HttpWaits' /\ Refreshes'
      <4>1. HttpTypes'
        BY <1>3, <2>1, <3>2 DEF HttpIInv, HttpTypes
      <4>2. HttpWaits'
        BY <2>2, <3>1, <3>2, <3>3, <3>4 DEF HttpIInv, HttpTypes, HttpWaits, HttpCache!NoFlight
      <4> QED
        BY <2>1, <3>3, <4>1, <4>2 DEF HttpIInv, Refreshes
    <3>6. HttpCache!Idle'
      BY <2>1, <2>5 DEF HttpCache!Idle
    <3> QED
      BY <1>4, <2>1, <3>3, <3>5, <3>6 DEF HttpIInv, FillInMap, HandsOver
  <2>6. CASE Tail(reactions) # <<>>
    <3>1. /\ httpFlight' \in [Clients -> HttpFlights]
          /\ \A r \in Clients : httpFlight'[r].kind = httpFlight[r].kind /\ httpFlight'[r].step
               = httpFlight[r].step
          /\ \A r \in Clients \ {f} : httpFlight'[r] = httpFlight[r]
      <4>1. httpFlight' = [httpFlight EXCEPT ![f].used = httpFlight[f].used \/ job.of = f]
        BY <2>1, <2>6
      <4>2. (httpFlight[f].used \/ job.of = f) \in BOOLEAN
        OBVIOUS
      <4>3. PICK used \in BOOLEAN : httpFlight' = [httpFlight EXCEPT ![f].used = used]
        BY <4>1, <4>2
      <4> QED
        BY <4>3 DEF HttpIInv, HttpTypes, HttpFlights
    <3>2. HttpCache!At("fill")' = HttpCache!At("fill") /\ HttpCache!At("refresh")'
            = HttpCache!At("refresh")
      BY <3>1 DEF HttpCache!At
    <3>3. HttpTypes' /\ HttpWaits' /\ Refreshes'
      <4>1. HttpTypes'
        BY <1>3, <2>1, <3>1 DEF HttpIInv, HttpTypes
      <4>2. HttpWaits'
        BY <1>4, <2>2, <3>1, <3>2 DEF HttpIInv, HttpTypes, HttpWaits
      <4> QED
        BY <2>1, <3>2, <4>1, <4>2 DEF HttpIInv, Refreshes
    <3>4. Handing(f)'
      <4>1. /\ Len(reactions') = Len(reactions) - 1
            /\ \A i \in 1 .. Len(reactions') : reactions'[i] = reactions[i + 1]
            /\ \A i \in 1 .. Len(reactions') : i + 1 \in 1 .. Len(reactions)
        BY <1>3, <1>5, <2>1
      <4>2. \A i \in 1 .. Len(reactions') : httpOn'[reactions'[i].of] = f
        <5>1. \A i \in 1 .. Len(reactions') : reactions'[i].of \in Clients
          <6>1. reactions' \in Seq(Reactions)
            BY <3>3 DEF HttpTypes
          <6>2. \A i \in 1 .. Len(reactions') : reactions'[i] \in Reactions
            BY <6>1
          <6> QED
            BY <6>2 DEF Reactions
        <5> QED
          BY <1>1, <1>6, <2>2, <4>1, <5>1 DEF Handing
      <4>3. \A i, j \in 1 .. Len(reactions') : i # j => reactions'[i].of # reactions'[j].of
        <5> SUFFICES ASSUME NEW i \in 1 .. Len(reactions'), NEW j \in 1 .. Len(reactions'), i # j
                     PROVE  reactions'[i].of # reactions'[j].of
          OBVIOUS
        <5>1. i + 1 # j + 1
          BY <4>1
        <5> QED
          BY <1>1, <4>1, <5>1 DEF Handing
      <4>4. \A r \in Clients : httpOn'[r] = f => \E i \in 1 .. Len(reactions') : reactions'[i].of
              = r
        BY <2>1, <2>2, <2>4 DEF HttpCache!HttpCacheAssumption
      <4>5. \A i \in 1 .. Len(reactions') : reactions'[i].step = "handover"
        BY <2>3, <4>1
      <4> QED
        BY <1>4, <2>1, <3>2, <4>2, <4>3, <4>4, <4>5 DEF Handing
    <3>5. ~HttpCache!Idle' /\ httpInflight' = None
      BY <1>4, <2>1, <2>6 DEF HttpCache!Idle
    <3> QED
      BY <3>3, <3>4, <3>5 DEF HttpIInv, FillInMap, HandsOver
  <2> QED
    BY <2>5, <2>6
<1> QED
  BY <1>7, <1>8

LEMMA HttpOthersKeep == ASSUME HttpIInv, UNCHANGED HttpCache!vars \/ HttpCache!Tick PROVE HttpIInv'
<1>1. /\ UNCHANGED <<httpInflight, refreshing, httpPhase, httpFlight, httpOn, reactions>>
      /\ HttpCache!Idle' = HttpCache!Idle /\ HttpCache!At("fill")' = HttpCache!At("fill")
           /\ HttpCache!At("refresh")' = HttpCache!At("refresh")
  BY DEF HttpCache!vars, HttpCache!Tick, HttpCache!Idle, HttpCache!At
<1>2. HttpTypes' /\ HttpWaits' /\ FillInMap' /\ Refreshes'
  BY <1>1 DEF HttpIInv, HttpTypes, HttpWaits, FillInMap, MapHas, Refreshes
<1>3. HandsOver'
  BY <1>1 DEF HttpIInv, HandsOver, Handing
<1> QED
  BY <1>2, <1>3 DEF HttpIInv

LEMMA HttpNext == ASSUME HttpCache!HttpCacheAssumption, HttpIInv,
                         [HttpCache!Next]_(HttpCache!vars) PROVE HttpIInv'
BY BypassKeeps, ReadAsyncKeeps, ReadKeeps, FlightStepKeeps, FactoryThrowsKeeps, HttpCloseKeeps,
   ReactKeeps,
   HttpOthersKeep
DEF HttpCache!Next

LEMMA HttpInvariance == ASSUME HttpCache!HttpCacheAssumption PROVE HttpCache!Spec => []HttpIInv
<1>1. HttpCache!Init => HttpIInv
  BY HttpInit
<1>2. HttpIInv /\ [HttpCache!Next]_(HttpCache!vars) => HttpIInv'
  BY HttpNext
<1> QED
  BY <1>1, <1>2, PTL DEF HttpCache!Spec

LEMMA OneFlightFrom == ASSUME HttpCache!HttpCacheAssumption, HttpIInv PROVE HttpCache!OneFlight
BY DEF HttpIInv, HttpWaits, FillInMap, MapHas, Refreshes, HttpCache!OneFlight, HttpTypes,
       HttpCache!HttpCacheAssumption

LEMMA CloneBeforeReadFrom == ASSUME HttpIInv PROVE HttpCache!CloneBeforeRead
<1>1. CASE HttpCache!Idle
  BY <1>1 DEF HttpCache!Idle, HttpCache!CloneBeforeRead
<1>2. CASE ~HttpCache!Idle
  BY <1>2 DEF HttpIInv, HandsOver, Handing, HttpCache!CloneBeforeRead
<1> QED
  BY <1>1, <1>2

-------------------------------------------------------------------------------
\* What the store and the requests have of the entry.
HitTypes ==
    /\ httpNow \in Nat /\ bypass \in SUBSET Clients
    /\ stored \in HttpCache!Entry \cup {None} /\ seen \in [Clients -> HttpCache!Entry \cup {None}]
    /\ answer \in [Clients -> Clients \cup {None}]

\* A request that the cache stands aside for calls no factory through the cache, so
\* nothing of it is stored or shared.
Aside ==
    /\ \A b \in bypass : httpPhase[b] \in {"new", "answered"} /\ httpFlight[b].kind = "none"
    /\ \A r \in Clients : answer[r] \in bypass => answer[r] = r
    /\ \A b \in bypass : answer[b] \in {b, None}
    /\ stored # None => stored.by \notin bypass
    /\ \A r \in Clients : seen[r] # None => seen[r].by \notin bypass

LEMMA HitsStart == ASSUME HttpCache!HttpCacheAssumption, HttpCache!Init PROVE HitTypes /\ Aside
BY DEF HttpCache!Init, HitTypes, Aside, HttpCache!NoFlight, HttpCache!HttpCacheAssumption

\* What is read may be served, and whoever is served has what was read.
LEMMA ResolveServes ==
    ASSUME HttpCache!HttpCacheAssumption, HttpIInv, HitTypes, Aside,
           NEW r \in Clients, NEW e \in HttpCache!Entry \cup {None}, r \notin bypass,
           e # None => e.by \notin bypass, HttpCache!Resolve(r, e),
           UNCHANGED <<httpNow, stored, bypass>>,
           seen' \in [Clients -> HttpCache!Entry \cup {None}],
           \A q \in Clients : seen'[q] \in {seen[q], None}
    PROVE  HitTypes' /\ Aside'
<1>1. /\ \E p \in {"answered", "waiting", "failed"} : httpPhase' = [httpPhase EXCEPT ![r] = p]
      /\ \/ answer' = answer
         \/ e # None /\ answer' = [answer EXCEPT ![r] = e.by]
      /\ \/ httpFlight' = httpFlight
         \/ \E f : httpFlight' = [httpFlight EXCEPT ![r] = f]
  BY DEF HttpCache!Resolve, HttpCache!Usable, HttpCache!Join, HttpCache!Fill,
         HttpCache!ThrowsAtOnce, HttpCache!Call
<1>2. \A q \in Clients : q # r => httpPhase'[q] = httpPhase[q] /\ httpFlight'[q] = httpFlight[q]
      /\ answer'[q] = answer[q]
  BY <1>1 DEF HttpIInv, HttpTypes, HitTypes
<1>3. answer'[r] = answer[r] \/ (e # None /\ answer'[r] = e.by)
  BY <1>1 DEF HitTypes
<1>4. HitTypes'
  BY <1>1 DEF HitTypes, HttpCache!Entry
<1>5. \A b \in bypass : httpPhase'[b] \in {"new", "answered"} /\ httpFlight'[b].kind = "none"
  BY <1>2 DEF Aside, HitTypes
<1>6. \A q \in Clients : answer'[q] \in bypass => answer'[q] = q
  BY <1>2, <1>3 DEF Aside
<1>7. \A b \in bypass : answer'[b] \in {b, None}
  BY <1>2 DEF Aside, HitTypes
<1>8. \A q \in Clients : seen'[q] # None => seen'[q].by \notin bypass
  BY DEF Aside
<1> QED
  BY <1>4, <1>5, <1>6, <1>7, <1>8 DEF Aside

LEMMA HitsKept ==
    ASSUME HttpCache!HttpCacheAssumption, HttpIInv, HitTypes, Aside,
           [HttpCache!Next]_(HttpCache!vars)
    PROVE  HitTypes' /\ Aside'
<1>1. ASSUME NEW r \in Clients, HttpCache!Bypass(r) PROVE HitTypes' /\ Aside'
  <2>1. /\ httpPhase' = [httpPhase EXCEPT ![r] = "answered"] /\ answer' = [answer EXCEPT ![r] = r]
        /\ UNCHANGED <<httpNow, stored, bypass, seen, httpFlight>> /\ r \in bypass
    BY <1>1 DEF HttpCache!Bypass
  <2> QED
    BY <2>1 DEF HitTypes, Aside, HttpIInv, HttpTypes
<1>2. ASSUME NEW r \in Clients, HttpCache!ReadLocal(r) PROVE HitTypes' /\ Aside'
  <2>1. HttpCache!Held \in HttpCache!Entry \cup {None} /\ (HttpCache!Held # None
          => HttpCache!Held.by \notin bypass)
    BY DEF HttpCache!Held, HitTypes, Aside
  <2> QED
    BY <1>2, <2>1, ResolveServes DEF HttpCache!ReadLocal, HitTypes
<1>3. ASSUME NEW r \in Clients, HttpCache!ReadAsync(r) PROVE HitTypes' /\ Aside'
  <2>1. HttpCache!Held \in HttpCache!Entry \cup {None} /\ (HttpCache!Held # None
          => HttpCache!Held.by \notin bypass)
    BY DEF HttpCache!Held, HitTypes, Aside
  <2>2. /\ httpPhase' = [httpPhase EXCEPT ![r] = "reading"] /\ r \notin bypass
        /\ \E e \in {HttpCache!Held, None} : seen' = [seen EXCEPT ![r] = e]
        /\ UNCHANGED <<httpNow, stored, bypass, httpFlight, answer>>
    BY <1>3 DEF HttpCache!ReadAsync
  <2>3. seen' \in [Clients -> HttpCache!Entry \cup {None}]
        /\ \A q \in Clients : seen'[q] # None => seen'[q].by \notin bypass
    BY <2>1, <2>2 DEF HitTypes, Aside
  <2> QED
    BY <2>2, <2>3 DEF HitTypes, Aside, HttpIInv, HttpTypes
<1>4. ASSUME NEW r \in Clients, HttpCache!Resume(r) PROVE HitTypes' /\ Aside'
  <2>1. r \notin bypass
    BY <1>4 DEF HttpCache!Resume, Aside
  <2>2. seen[r] \in HttpCache!Entry \cup {None} /\ (seen[r] # None => seen[r].by \notin bypass)
    BY DEF HitTypes, Aside
  <2>3. seen' \in [Clients -> HttpCache!Entry \cup {None}]
        /\ \A q \in Clients : seen'[q] \in {seen[q], None}
    BY <1>4 DEF HttpCache!Resume, HitTypes
  <2> QED
    BY <1>4, <2>1, <2>2, <2>3, ResolveServes DEF HttpCache!Resume
<1>5. ASSUME NEW r \in Clients, NEW policy \in HttpCache!Policies,
             HttpCache!FactoryAnswers(r, policy)
      PROVE  HitTypes' /\ Aside'
  <2>1. UNCHANGED <<httpNow, stored, bypass, httpPhase, seen, answer>>
        /\ \A q \in Clients : httpFlight'[q].kind = httpFlight[q].kind
    BY <1>5 DEF HttpCache!FactoryAnswers, HttpIInv, HttpTypes, HttpFlights
  <2> QED
    BY <2>1 DEF HitTypes, Aside
<1>6. ASSUME NEW r \in Clients, HttpCache!Store(r) PROVE HitTypes' /\ Aside'
  <2>1. r \notin bypass
    <3>1. httpFlight[r].kind # "none"
      BY <1>6 DEF HttpCache!Store, HttpIInv, HttpWaits
    <3> QED
      BY <3>1 DEF Aside
  <2>2. UNCHANGED <<httpNow, bypass, httpPhase, seen, answer>>
        /\ \A q \in Clients : httpFlight'[q].kind = httpFlight[q].kind
    BY <1>6 DEF HttpCache!Store, HttpIInv, HttpTypes, HttpFlights
  <2>3. stored' = stored \/ (stored' \in HttpCache!Entry /\ stored'.by = r)
    <3> DEFINE must == httpFlight[r].policy = "revalidate"
               drop == httpNow + IF must \/ StaleTtl < Ttl THEN Ttl ELSE StaleTtl
               e == [by |-> r, storedAt |-> httpNow, mustRevalidate |-> must, dropAt |-> drop]
    <3>1. drop \in Nat /\ must \in BOOLEAN /\ httpNow \in Nat
      BY DEF HitTypes, HttpCache!HttpCacheAssumption
    <3>2. stored' = e \/ stored' = stored
      BY <1>6 DEF HttpCache!Store
    <3> HIDE DEF drop, must
    <3>3. e \in HttpCache!Entry /\ e.by = r
      BY <3>1 DEF HttpCache!Entry
    <3> QED
      BY <3>2, <3>3
  <2> QED
    BY <2>1, <2>2, <2>3 DEF HitTypes, Aside
<1>7. ASSUME NEW r \in Clients, HttpCache!FactoryThrows(r) PROVE HitTypes' /\ Aside'
  <2>1. UNCHANGED <<httpNow, stored, bypass, seen, answer>>
        /\ \A q \in Clients : httpFlight'[q].kind \in {httpFlight[q].kind, "none"}
    BY <1>7 DEF HttpCache!FactoryThrows, HttpIInv, HttpTypes, HttpCache!NoFlight
  <2>2. \A b \in bypass : httpOn[b] = None
    BY DEF Aside, HttpIInv, HttpWaits, HitTypes
  <2>3. \A b \in bypass : httpPhase'[b] = httpPhase[b]
    BY <1>7, <2>2 DEF HttpCache!FactoryThrows, HitTypes, HttpCache!HttpCacheAssumption
  <2> QED
    BY <2>1, <2>3 DEF HitTypes, Aside
<1>8. ASSUME NEW r \in Clients, HttpCache!Close(r) PROVE HitTypes' /\ Aside'
  <2>1. UNCHANGED <<httpNow, stored, bypass, httpPhase, seen, answer>>
        /\ \A q \in Clients : httpFlight'[q].kind \in {httpFlight[q].kind, "none"}
    BY <1>8 DEF HttpCache!Close, HttpIInv, HttpTypes, HttpCache!NoFlight
  <2> QED
    BY <2>1 DEF HitTypes, Aside
<1>9. CASE HttpCache!React
  <2>1. UNCHANGED <<httpNow, stored, bypass, seen>>
    BY <1>9 DEF HttpCache!React
  <2> DEFINE job == Head(reactions)
             r == httpOn[job.of]
  <2>2. job.of \in Clients
    <3>1. Len(reactions) \in Nat /\ Len(reactions) >= 1 /\ job = reactions[1]
      BY <1>9 DEF HttpCache!React, HttpCache!Idle, HttpIInv, HttpTypes
    <3>2. reactions[1] \in Reactions
      BY <3>1 DEF HttpIInv, HttpTypes
    <3> HIDE DEF job
    <3> QED
      BY <3>1, <3>2 DEF Reactions
  <2>3. CASE job.step # "handover"
    <3>1. UNCHANGED <<httpPhase, answer, httpFlight>>
      BY <1>9, <2>3 DEF HttpCache!React
    <3> QED
      BY <2>1, <3>1 DEF HitTypes, Aside
  <2>4. CASE job.step = "handover"
    <3>1. r \in HttpCache!At("fill")
      <4>1. PICK f \in Clients : Handing(f)
        BY <1>9 DEF HttpCache!React, HttpIInv, HandsOver
      <4>2. Len(reactions) \in Nat /\ Len(reactions) >= 1 /\ job = reactions[1]
        BY <1>9 DEF HttpCache!React, HttpCache!Idle, HttpIInv, HttpTypes
      <4> QED
        BY <4>1, <4>2 DEF Handing
    <3>2. r \in Clients /\ r \notin bypass /\ job.of \notin bypass
      <4>1. r \in Clients /\ r # None /\ httpFlight[r].kind = "fill"
        BY <3>1 DEF HttpCache!At, HttpCache!HttpCacheAssumption
      <4>2. httpPhase[job.of] = "waiting"
        BY <2>2, <4>1 DEF HttpIInv, HttpWaits
      <4> QED
        BY <4>1, <4>2 DEF Aside
    <3>3. /\ httpPhase' = [httpPhase EXCEPT ![job.of] = "answered"]
          /\ answer' = [answer EXCEPT ![job.of] = r]
      BY <1>9, <2>4 DEF HttpCache!React
    <3>4. \A q \in Clients : httpFlight'[q].kind \in {httpFlight[q].kind, "none"}
      <4>1. \/ httpFlight' = [httpFlight EXCEPT ![r] = HttpCache!NoFlight]
            \/ \E u : httpFlight' = [httpFlight EXCEPT ![r].used = u]
        BY <1>9, <2>4 DEF HttpCache!React
      <4>2. httpFlight \in [Clients -> HttpFlights]
        BY DEF HttpIInv, HttpTypes
      <4> HIDE DEF r
      <4> QED
        BY <4>1, <4>2 DEF HttpCache!NoFlight, HttpFlights
    <3>5. \A b \in bypass : httpPhase'[b] = httpPhase[b] /\ answer'[b] = answer[b]
      BY <3>2, <3>3 DEF HitTypes, HttpIInv, HttpTypes
    <3>6. \A q \in Clients : answer'[q] = answer[q] \/ answer'[q] = r
      BY <3>3 DEF HitTypes
    <3>7. HitTypes'
      BY <2>1, <3>2, <3>3 DEF HitTypes
    <3>8. \A b \in bypass : httpPhase'[b] \in {"new", "answered"} /\ httpFlight'[b].kind = "none"
                             /\ answer'[b] \in {b, None}
      BY <3>4, <3>5 DEF Aside, HitTypes
    <3>9. \A q \in Clients : answer'[q] \in bypass => answer'[q] = q
      BY <3>2, <3>6 DEF Aside
    <3> QED
      BY <2>1, <3>7, <3>8, <3>9 DEF Aside
  <2> QED
    BY <2>3, <2>4
<1>10. CASE HttpCache!Tick
  <2>1. UNCHANGED <<stored, bypass, httpPhase, seen, httpFlight, answer>> /\ httpNow' = httpNow + 1
    BY <1>10 DEF HttpCache!Tick
  <2> QED
    BY <2>1 DEF HitTypes, Aside
<1>11. CASE UNCHANGED HttpCache!vars
  BY <1>11 DEF HttpCache!vars, HitTypes, Aside
<1> QED
  BY <1>1, <1>2, <1>3, <1>4, <1>5, <1>6, <1>7, <1>8, <1>9, <1>10, <1>11 DEF HttpCache!Next

LEMMA BypassFrom == ASSUME HttpCache!HttpCacheAssumption, HitTypes,
                           Aside PROVE HttpCache!BypassIsolated
BY DEF HttpCache!BypassIsolated, Aside, HitTypes, HttpCache!HttpCacheAssumption

\* Only a usable entry answers a request that has not waited.
LEMMA HitsFrom ==
    ASSUME HttpCache!HttpCacheAssumption, HttpIInv, HitTypes, Aside,
           [HttpCache!Next]_(HttpCache!vars),
           NEW r \in Clients, httpPhase[r] \in {"new", "reading"}, httpPhase'[r]
               = "answered", r \notin bypass
    PROVE  \E e \in {stored, seen[r]} :
               e # None /\ answer'[r] = e.by /\ (e.mustRevalidate => httpNow - e.storedAt < Ttl)
<1>1. ASSUME NEW e \in {stored, seen[r]}, HttpCache!Resolve(r, e)
      PROVE  e # None /\ answer'[r] = e.by /\ (e.mustRevalidate => httpNow - e.storedAt < Ttl)
  <2>1. HttpCache!Usable(e)
    BY <1>1 DEF HttpCache!Resolve, HttpCache!Join, HttpCache!Fill, HttpCache!ThrowsAtOnce,
                HttpIInv, HttpTypes
  <2>2. answer'[r] = e.by
    BY <1>1, <2>1 DEF HttpCache!Resolve, HitTypes
  <2>3. e # None /\ e \in HttpCache!Entry
    BY <1>1, <2>1 DEF HttpCache!Usable, HitTypes
  <2>4. e.storedAt \in Nat /\ httpNow \in Nat /\ Ttl \in Nat /\ e.mustRevalidate \in BOOLEAN
    BY <2>3 DEF HttpCache!Entry, HitTypes, HttpCache!HttpCacheAssumption
  <2> QED
    BY <2>1, <2>2, <2>3, <2>4 DEF HttpCache!Usable, HttpCache!IsStale
<1>2. CASE HttpCache!ReadLocal(r)
  <2>1. HttpCache!Resolve(r, HttpCache!Held)
    BY <1>2 DEF HttpCache!ReadLocal
  <2>2. CASE HttpCache!Held = stored
    BY <1>1, <2>1, <2>2
  <2>3. CASE HttpCache!Held = None
    BY <2>1, <2>3
    DEF HttpCache!Resolve, HttpCache!Join, HttpCache!Fill, HttpCache!ThrowsAtOnce,
        HttpCache!Usable, HttpIInv, HttpTypes
  <2> QED
    BY <2>2, <2>3 DEF HttpCache!Held
<1>3. CASE HttpCache!Resume(r)
  BY <1>1, <1>3 DEF HttpCache!Resume
<1>4. ASSUME NEW q \in Clients,
             \/ HttpCache!Bypass(q) \/ HttpCache!ReadAsync(q) \/ HttpCache!FactoryThrows(q)
             \/ HttpCache!Store(q) \/ HttpCache!Close(q)
             \/ (HttpCache!ReadLocal(q) /\ q # r) \/ (HttpCache!Resume(q) /\ q # r)
             \/ \E policy \in HttpCache!Policies : HttpCache!FactoryAnswers(q, policy)
      PROVE  httpPhase'[r] # "answered"
  <2>1. \/ httpPhase'[r] \in {httpPhase[r], "reading"}
        \/ HttpCache!Bypass(q) /\ q = r
        \/ httpPhase'[r] = "failed"
    BY <1>4
    DEF HttpCache!Bypass, HttpCache!ReadAsync, HttpCache!FactoryThrows, HttpCache!Store,
        HttpCache!Close, HttpCache!ReadLocal, HttpCache!Resume, HttpCache!Resolve,
        HttpCache!Join, HttpCache!Fill, HttpCache!ThrowsAtOnce,
                HttpCache!FactoryAnswers, HttpIInv, HttpTypes
  <2> QED
    BY <2>1 DEF HttpCache!Bypass
<1>5. CASE HttpCache!React
  <2>1. httpPhase' = httpPhase \/ (httpPhase' = [httpPhase EXCEPT ![Head(reactions).of]
          = "answered"])
    BY <1>5 DEF HttpCache!React
  <2>2. httpPhase[Head(reactions).of] = "waiting" /\ Head(reactions).of \in Clients
    <3>1. PICK f \in Clients : Handing(f)
      BY <1>5 DEF HttpCache!React, HttpIInv, HandsOver
    <3>2. /\ Len(reactions) \in Nat /\ Len(reactions) >= 1 /\ Head(reactions) = reactions[1]
          /\ Head(reactions).of \in Clients
      BY <1>5 DEF HttpCache!React, HttpCache!Idle, HttpIInv, HttpTypes, Reactions
    <3>3. httpOn[Head(reactions).of] = f /\ f # None
      BY <3>1, <3>2 DEF Handing, HttpCache!HttpCacheAssumption
    <3> QED
      BY <3>2, <3>3 DEF HttpIInv, HttpWaits
  <2> QED
    BY <2>1, <2>2 DEF HttpIInv, HttpTypes
<1>6. CASE HttpCache!Tick \/ UNCHANGED HttpCache!vars
  BY <1>6 DEF HttpCache!Tick, HttpCache!vars
<1> QED
  BY <1>2, <1>3, <1>4, <1>5, <1>6 DEF HttpCache!Next

LEMMA HttpMoves == Spec => HttpCache!Spec
<1>1. Init => HttpCache!Init
  BY DEF Init
<1>2. [Next]_vars => [HttpCache!Next]_(HttpCache!vars)
  BY DEF Next, vars, http, HttpCache!vars
<1> QED
  BY <1>1, <1>2, PTL DEF Spec, HttpCache!Spec

LEMMA HttpHolds == Spec => []HttpIInv
BY HttpMoves, HttpInvariance, DataLayerAssumption, PTL

\* The response cache asks the origin once for a miss and once for a stale hit,
\* however the reads of an async store interleave with what other requests do.
THEOREM OneFlightHolds == Spec => []OneFlight
<1>1. HttpIInv => OneFlight
  BY OneFlightFrom, DataLayerAssumption DEF OneFlight
<1> QED
  BY <1>1, HttpHolds, PTL

\* Every waiter has cloned the shared response before the caller that made the
\* fill can read its body, for any number of waiters in any order.
THEOREM CloneBeforeReadHolds == Spec => []CloneBeforeRead
<1>1. HttpIInv => CloneBeforeRead
  BY CloneBeforeReadFrom DEF CloneBeforeRead
<1> QED
  BY <1>1, HttpHolds, PTL


LEMMA HitsHold == Spec => [](HttpIInv /\ HitTypes /\ Aside)
<1>1. HttpCache!Init => HttpIInv /\ HitTypes /\ Aside
  BY HttpInit, HitsStart, DataLayerAssumption
<1>2. (HttpIInv /\ HitTypes /\ Aside) /\ [HttpCache!Next]_(HttpCache!vars)
        => (HttpIInv /\ HitTypes /\ Aside)'
  BY HttpNext, HitsKept, DataLayerAssumption
<1> QED
  BY <1>1, <1>2, HttpMoves, PTL DEF HttpCache!Spec

\* A request that bypasses the cache has the response of its own factory call or
\* none, nobody else has it, and it is never stored.
THEOREM BypassIsolatedHolds == Spec => []BypassIsolated
<1>1. HitTypes /\ Aside => BypassIsolated
  BY BypassFrom, DataLayerAssumption DEF BypassIsolated
<1> QED
  BY <1>1, HitsHold, PTL

\* Whoever is answered from the store gets an entry that may be served: one that
\* must be revalidated only while it is fresh, however the read was delayed.
THEOREM HitsAllowedHolds == Spec => HitsAllowed
<1>1. (HttpIInv /\ HitTypes /\ Aside) /\ [HttpCache!Next]_(HttpCache!vars) =>
        [\A r \in Clients :
            httpPhase[r] \in {"new", "reading"} /\ httpPhase'[r] = "answered" /\ r \notin bypass =>
                \E e \in {stored, seen[r]} :
                    e # None /\ answer'[r] = e.by /\ (e.mustRevalidate => httpNow - e.storedAt < Ttl)
        ]_(HttpCache!vars)
  BY HitsFrom, DataLayerAssumption
<1> QED
  BY <1>1, HitsHold, HttpMoves, PTL DEF HttpCache!Spec, HitsAllowed, HttpCache!HitsAllowed

-------------------------------------------------------------------------------
LEMMA LoaderFinite == \A S : DataLoader!Cardinality(S) = Cardinality(S)
BY DEF DataLoader!Cardinality, Cardinality

\* The places of a batch, and whether load c has subscribed to one of them.
Places(b) == 1 .. Len(b.keys)
Has(b, c) == \E i \in Places(b) : c \in b.subscribers[i]

\* A batch has a list of subscribers for each of its keys, which differ.
Made(b) ==
    /\ b \in DataLoader!Batch
    /\ Len(b.subscribers) = Len(b.keys) /\ Len(b.keys) <= MaxBatch
    /\ \A i, j \in Places(b) : b.keys[i] = b.keys[j] => i = j

\* Of all the batches only the last can grow.
OneGrows ==
    \A n \in 1 .. Len(batches) :
        /\ Made(batches[n]) /\ Len(batches[n].keys) # 0
        /\ n # Len(batches) => ~DataLoader!Growing(n)

\* A subscriber waits, under its own key, in one place, and whoever waits is in one.
Joined ==
    /\ \A n \in 1 .. Len(batches) : \A i \in Places(batches[n]) :
          \A c \in batches[n].subscribers[i] :
              /\ key[c] = batches[n].keys[i] /\ dlPhase[c] # "new"
              /\ batches[n].step # "settled" => dlPhase[c] = "loading"
    /\ \A c \in Pair : \A m, n \in 1 .. Len(batches) :
          Has(batches[m], c) /\ Has(batches[n], c) => m = n
    /\ \A c \in Pair : dlPhase[c] = "loading" =>
          \E n \in 1 .. Len(batches) : batches[n].step # "settled" /\ Has(batches[n], c)

\* What a batch has read is no older than the calls of its subscribers.
Recent ==
    /\ \A c \in Pair : key[c] # None => since[c] <= dlOrigin[key[c]]
    /\ \A n \in 1 .. Len(batches) : batches[n].step = "calling" =>
          \A c \in Pair : Has(batches[n], c) => since[c] <= batches[n].read[key[c]]

LoaderIInv == DataLoader!TypeOK /\ OneGrows /\ Joined /\ Recent

-------------------------------------------------------------------------------
LEMMA BatchIs ==
    ASSUME NEW b \in DataLoader!Batch
    PROVE  /\ b.step \in {"open", "calling", "settled"} /\ b.keys \in Seq(Items)
           /\ b.subscribers \in Seq(SUBSET Pair) /\ b.read \in [Items -> 0 .. MaxVersion]
           /\ Len(b.keys) \in Nat /\ Len(b.subscribers) \in Nat
           /\ \A i \in 1 .. Len(b.keys) : b.keys[i] \in Items
           /\ \A i \in 1 .. Len(b.subscribers) : b.subscribers[i] \subseteq Pair
<1>1. b.step \in {"open", "calling", "settled"} /\ b.keys \in Seq(Items)
      /\ b.subscribers \in Seq(SUBSET Pair) /\ b.read \in [Items -> 0 .. MaxVersion]
  BY DEF DataLoader!Batch
<1>2. \A i \in 1 .. Len(b.keys) : b.keys[i] \in Items
  BY <1>1, ElementOfSeq
<1>3. \A i \in 1 .. Len(b.subscribers) : b.subscribers[i] \in SUBSET Pair
  BY <1>1, ElementOfSeq
<1> QED
  BY <1>1, <1>2, <1>3

\* A load joins the place of its key, or gets a new one at the end.
LEMMA Subscribes ==
    ASSUME NEW b, Made(b), Len(b.keys) < MaxBatch, MaxBatch \in Nat,
           NEW c \in Pair, NEW k \in Items
    PROVE  /\ Made(DataLoader!Subscribe(b, c, k)) /\ Len(DataLoader!Subscribe(b, c, k).keys) # 0
           /\ DataLoader!Subscribe(b, c, k).step = b.step
           /\ \E i \in Places(DataLoader!Subscribe(b, c, k)) :
                c \in DataLoader!Subscribe(b, c, k).subscribers[i]
           /\ \A i \in Places(DataLoader!Subscribe(b, c, k)) :
                \A d \in DataLoader!Subscribe(b, c, k).subscribers[i] :
                 \/ d = c /\ DataLoader!Subscribe(b, c, k).keys[i] = k
                 \/ /\ i \in Places(b) /\ d \in b.subscribers[i]
                    /\ DataLoader!Subscribe(b, c, k).keys[i] = b.keys[i]
           /\ \A d : Has(b, d) => Has(DataLoader!Subscribe(b, c, k), d)
<1> DEFINE r == DataLoader!Subscribe(b, c, k)
<1>1. /\ b \in DataLoader!Batch /\ Len(b.subscribers) = Len(b.keys) /\ Len(b.keys) <= MaxBatch
      /\ \A i, j \in 1 .. Len(b.keys) : b.keys[i] = b.keys[j] => i = j
  BY DEF Made, Places
<1>2. /\ b.step \in {"open", "calling", "settled"} /\ b.keys \in Seq(Items)
      /\ b.subscribers \in Seq(SUBSET Pair) /\ b.read \in [Items -> 0 .. MaxVersion]
      /\ Len(b.keys) \in Nat
      /\ \A i \in 1 .. Len(b.keys) : b.keys[i] \in Items
      /\ \A i \in 1 .. Len(b.keys) : b.subscribers[i] \subseteq Pair
  BY <1>1, BatchIs
<1>3. b = [step |-> b.step, keys |-> b.keys, subscribers |-> b.subscribers, read |-> b.read]
  BY <1>1 DEF DataLoader!Batch
<1>4. CASE \E i \in 1 .. Len(b.keys) : b.keys[i] = k
  <2> DEFINE at == DataLoader!IndexOf(b, k)
             subs == [b.subscribers EXCEPT ![at] = @ \cup {c}]
  <2>1. at \in 1 .. Len(b.keys) /\ b.keys[at] = k
    BY <1>4 DEF DataLoader!IndexOf
  <2>2. r = [b EXCEPT !.subscribers[at] = @ \cup {c}]
    BY <1>4 DEF DataLoader!Subscribe
  <2> HIDE DEF at
  <2>3. r = [step |-> b.step, keys |-> b.keys, subscribers |-> subs, read |-> b.read]
    BY <1>3, <2>2
  <2>4. subs \in Seq(SUBSET Pair) /\ Len(subs) = Len(b.subscribers)
        /\ \A i \in 1 .. Len(b.keys) :
              subs[i] = IF i = at THEN b.subscribers[i] \cup {c} ELSE b.subscribers[i]
    <3>1. b.subscribers[at] \cup {c} \in SUBSET Pair
      BY <1>2, <2>1
    <3>2. subs \in Seq(SUBSET Pair) /\ Len(subs) = Len(b.subscribers)
      BY <1>1, <1>2, <2>1, <3>1
    <3>3. DOMAIN b.subscribers = 1 .. Len(b.keys)
      BY <1>1, <1>2
    <3> QED
      BY <3>2, <3>3, <2>1
  <2> HIDE DEF subs
  <2>5. r \in DataLoader!Batch
    BY <1>2, <2>3, <2>4 DEF DataLoader!Batch
  <2>6. /\ r.step = b.step /\ r.keys = b.keys /\ r.subscribers = subs
    BY <2>3
  <2> HIDE DEF r
  <2>7. Made(r) /\ Len(r.keys) # 0
    BY <1>1, <2>1, <2>4, <2>5, <2>6 DEF Made, Places
  <2>8. \E i \in Places(r) : c \in r.subscribers[i]
    BY <2>1, <2>4, <2>6 DEF Places
  <2>9. \A i \in Places(r) : \A d \in r.subscribers[i] :
           \/ d = c /\ r.keys[i] = k
           \/ i \in Places(b) /\ d \in b.subscribers[i] /\ r.keys[i] = b.keys[i]
    BY <2>1, <2>4, <2>6 DEF Places
  <2>10. \A d : Has(b, d) => Has(r, d)
    BY <2>4, <2>6 DEF Places, Has
  <2> QED
    BY <2>6, <2>7, <2>8, <2>9, <2>10 DEF r
<1>5. CASE ~\E i \in 1 .. Len(b.keys) : b.keys[i] = k
  <2> DEFINE ks == Append(b.keys, k)
             subs == Append(b.subscribers, {c})
  <2>1. r = [step |-> b.step, keys |-> ks, subscribers |-> subs, read |-> b.read]
    <3>1. r = [b EXCEPT !.keys = ks, !.subscribers = subs]
      BY <1>5 DEF DataLoader!Subscribe
    <3> QED
      BY <1>3, <3>1
  <2>2. /\ ks \in Seq(Items) /\ Len(ks) = Len(b.keys) + 1 /\ ks[Len(b.keys) + 1] = k
        /\ \A i \in 1 .. Len(b.keys) : ks[i] = b.keys[i]
    BY <1>2, AppendProperties
  <2>3. /\ subs \in Seq(SUBSET Pair) /\ Len(subs) = Len(b.keys) + 1
        /\ subs[Len(b.keys) + 1] = {c}
        /\ \A i \in 1 .. Len(b.keys) : subs[i] = b.subscribers[i]
    BY <1>1, <1>2, AppendProperties
  <2> HIDE DEF ks, subs
  <2>4. r \in DataLoader!Batch
    BY <1>2, <2>1, <2>2, <2>3 DEF DataLoader!Batch
  <2>5. r.step = b.step /\ r.keys = ks /\ r.subscribers = subs
    BY <2>1
  <2> HIDE DEF r
  <2>6. /\ \A i \in 1 .. Len(ks) : i \in 1 .. Len(b.keys) \/ i = Len(b.keys) + 1
        /\ Len(b.keys) + 1 \in 1 .. Len(ks) /\ 1 .. Len(b.keys) \subseteq 1 .. Len(ks)
    BY <1>2, <2>2
  <2>7. \A i, j \in 1 .. Len(ks) : ks[i] = ks[j] => i = j
    BY <1>1, <1>5, <2>2, <2>6
  <2>8. Made(r) /\ Len(r.keys) # 0
    BY <1>2, <2>2, <2>3, <2>4, <2>5, <2>7 DEF Made, Places
  <2>9. \E i \in Places(r) : c \in r.subscribers[i]
    BY <2>3, <2>5, <2>6 DEF Places
  <2>10. \A i \in Places(r) : \A d \in r.subscribers[i] :
           \/ d = c /\ r.keys[i] = k
           \/ i \in Places(b) /\ d \in b.subscribers[i] /\ r.keys[i] = b.keys[i]
    BY <2>2, <2>3, <2>5, <2>6 DEF Places
  <2>11. \A d : Has(b, d) => Has(r, d)
    BY <2>3, <2>5, <2>6 DEF Places, Has
  <2> QED
    BY <2>5, <2>8, <2>9, <2>10, <2>11 DEF r
<1> QED
  BY <1>4, <1>5

\* What load() does to the batches: the last one, or a new one, takes the load.
Takes(c, k) ==
    LET N == Len(batches')
    IN  /\ batches' \in Seq(DataLoader!Batch) /\ N \in Nat /\ N # 0
        /\ Len(batches) \in {N, N - 1}
        /\ \A n \in 1 .. N : n # N =>
              n \in 1 .. Len(batches) /\ batches'[n] = batches[n] /\ ~DataLoader!Growing(n)
        /\ Made(batches'[N]) /\ Len(batches'[N].keys) # 0 /\ batches'[N].step = "open"
        /\ Has(batches'[N], c)
        /\ \A i \in Places(batches'[N]) : \A d \in batches'[N].subscribers[i] :
              \/ d = c /\ batches'[N].keys[i] = k
              \/ /\ N \in 1 .. Len(batches) /\ batches[N].step = "open"
                 /\ i \in Places(batches[N]) /\ d \in batches[N].subscribers[i]
                 /\ batches'[N].keys[i] = batches[N].keys[i]
        /\ N \in 1 .. Len(batches) => \A d : Has(batches[N], d) => Has(batches'[N], d)

LEMMA LoadTakes ==
    ASSUME DataLoader!LoaderAssumption, DataLoader!TypeOK, OneGrows, NEW c \in Pair,
           NEW k \in Items,
           batches' = LET bs == DataLoader!WithCurrent
                      IN  [bs EXCEPT ![Len(bs)] = DataLoader!Subscribe(@, c, k)]
    PROVE  Takes(c, k)
<1> DEFINE bs == DataLoader!WithCurrent
           N == Len(bs)
           r == DataLoader!Subscribe(bs[N], c, k)
<1>0. MaxBatch \in Nat \ {0} /\ MaxVersion \in Nat /\ batches \in Seq(DataLoader!Batch)
      /\ Len(batches) \in Nat
  BY DEF DataLoader!LoaderAssumption, DataLoader!TypeOK
<1>1. batches' = [bs EXCEPT ![N] = r]
  OBVIOUS
<1>2. /\ DataLoader!EmptyBatch \in DataLoader!Batch /\ DataLoader!EmptyBatch.step = "open"
           /\ Len(DataLoader!EmptyBatch.keys) = 0
      /\ Made(DataLoader!EmptyBatch) /\ \A d : ~Has(DataLoader!EmptyBatch, d)
  <2>1. DataLoader!EmptyBatch = [step |-> "open", keys |-> <<>>, subscribers |-> <<>>,
                                 read |-> [j \in Items |-> 0]]
    BY DEF DataLoader!EmptyBatch
  <2>2. [j \in Items |-> 0] \in [Items -> 0 .. MaxVersion]
    BY <1>0
  <2>3. DataLoader!EmptyBatch \in DataLoader!Batch
    BY <2>1, <2>2 DEF DataLoader!Batch
  <2> QED
    BY <1>0, <2>1, <2>3 DEF Made, Has, Places
<1>3. /\ bs \in Seq(DataLoader!Batch) /\ N \in Nat /\ N # 0 /\ Len(batches) \in {N, N - 1}
      /\ Made(bs[N]) /\ bs[N].step = "open" /\ Len(bs[N].keys) < MaxBatch
      /\ \A n \in 1 .. N : n # N => n \in 1 .. Len(batches) /\ bs[n] = batches[n]
           /\ ~DataLoader!Growing(n)
      /\ N \in 1 .. Len(batches) => bs[N] = batches[N]
      /\ N \notin 1 .. Len(batches) => \A d : ~Has(bs[N], d)
  <2>1. CASE DataLoader!Growing(DataLoader!Current)
    <3>1. bs = batches
      BY <2>1 DEF DataLoader!WithCurrent
    <3>2. N # 0 /\ bs[N].step = "open" /\ Len(bs[N].keys) < MaxBatch
      BY <2>1, <3>1 DEF DataLoader!Growing, DataLoader!Current
    <3>3. N \in 1 .. Len(batches)
      BY <1>0, <3>1, <3>2
    <3> HIDE DEF bs, N
    <3> QED
      BY <1>0, <3>1, <3>2, <3>3 DEF OneGrows, N
  <2>2. CASE ~DataLoader!Growing(DataLoader!Current)
    <3>1. bs = Append(batches, DataLoader!EmptyBatch)
      BY <2>2 DEF DataLoader!WithCurrent
    <3>2. /\ bs \in Seq(DataLoader!Batch) /\ Len(bs) = Len(batches) + 1 /\ bs[Len(batches) + 1]
               = DataLoader!EmptyBatch
          /\ \A n \in 1 .. Len(batches) : bs[n] = batches[n]
      BY <1>0, <1>2, <3>1, AppendProperties
    <3> HIDE DEF bs
    <3>3. \A n \in 1 .. N : n # N => n \in 1 .. Len(batches)
      BY <1>0, <3>2
    <3>4. \A n \in 1 .. Len(batches) : ~DataLoader!Growing(n)
      BY <2>2 DEF OneGrows, DataLoader!Current
    <3>5. N \notin 1 .. Len(batches) /\ N # 0 /\ N \in Nat /\ Len(batches) = N - 1
      BY <1>0, <3>2
    <3>6. bs[N] = DataLoader!EmptyBatch
      BY <3>2
    <3> HIDE DEF N
    <3> QED
      BY <1>0, <1>2, <3>2, <3>3, <3>4, <3>5, <3>6
  <2> QED
    BY <2>1, <2>2
<1>4. /\ Made(r) /\ Len(r.keys) # 0 /\ r.step = "open" /\ Has(r, c)
      /\ \A i \in Places(r) : \A d \in r.subscribers[i] :
            \/ d = c /\ r.keys[i] = k
            \/ i \in Places(bs[N]) /\ d \in bs[N].subscribers[i] /\ r.keys[i] = bs[N].keys[i]
      /\ \A d : Has(bs[N], d) => Has(r, d)
  <2> HIDE DEF bs, N
  <2> QED
    BY <1>0, <1>3, Subscribes DEF Has
<1> HIDE DEF bs, N, r
<1>5. r \in DataLoader!Batch
  BY <1>4 DEF Made
<1>6. /\ batches' \in Seq(DataLoader!Batch) /\ Len(batches') = N /\ batches'[N] = r
      /\ \A n \in 1 .. N : n # N => batches'[n] = bs[n]
  <2>1. Len(bs) = N
    BY DEF N
  <2>2. N \in 1 .. Len(bs) /\ DOMAIN bs = 1 .. N
    BY <1>3, <2>1
  <2>3. batches' \in Seq(DataLoader!Batch) /\ Len(batches') = N
    <3>1. \A n \in 1 .. N : bs[n] \in DataLoader!Batch
      BY <1>3, <2>1, ElementOfSeq
    <3>2. batches' = [n \in 1 .. N |-> IF n = N THEN r ELSE bs[n]]
      BY <1>1, <2>2
    <3>3. batches' \in [1 .. N -> DataLoader!Batch]
      BY <1>5, <3>1, <3>2
    <3>4. N \in Nat
      BY <1>3
    <3>5. batches' \in Seq(DataLoader!Batch)
      BY <3>3, <3>4, SeqDef
    <3>6. DOMAIN batches' = 1 .. N /\ DOMAIN batches' = 1 .. Len(batches') /\ Len(batches') \in Nat
      BY <3>3, <3>5, LenProperties
    <3> QED
      BY <3>4, <3>5, <3>6
  <2> QED
    BY <1>1, <2>2, <2>3
<1>7. \A i \in Places(r) : \A d \in r.subscribers[i] :
          \/ d = c /\ r.keys[i] = k
          \/ /\ N \in 1 .. Len(batches) /\ batches[N].step = "open"
             /\ i \in Places(batches[N]) /\ d \in batches[N].subscribers[i]
             /\ r.keys[i] = batches[N].keys[i]
  BY <1>3, <1>4 DEF Has
<1> QED
  BY <1>3, <1>4, <1>6, <1>7 DEF Takes

LEMMA LoaderInit == DataLoader!LoaderAssumption /\ DataLoader!Init => LoaderIInv
<1> SUFFICES ASSUME DataLoader!LoaderAssumption, DataLoader!Init
             PROVE  LoaderIInv
  OBVIOUS
<1>1. DataLoader!TypeOK
  BY DEF DataLoader!LoaderAssumption, DataLoader!Init, DataLoader!TypeOK
<1> QED
  BY <1>1 DEF DataLoader!LoaderAssumption, DataLoader!Init, LoaderIInv, OneGrows, Joined, Recent

\* A load that starts is in no batch yet.
LEMMA NewIsNowhere ==
    ASSUME LoaderIInv, NEW c \in Pair, dlPhase[c] = "new", NEW n \in 1 .. Len(batches)
    PROVE  /\ ~Has(batches[n], c)
           /\ \A i \in Places(batches[n]) : c \notin batches[n].subscribers[i]
BY DEF LoaderIInv, Joined, Has

\* The parts of load() that all its outcomes share.
LEMMA LoadTypes ==
    ASSUME DataLoader!LoaderAssumption, LoaderIInv, NEW c \in Pair, NEW k \in Items,
           DataLoader!Load(c, k)
    PROVE  /\ dlOrigin' \in [Items -> 0 .. MaxVersion]
           /\ cache' \in [Items -> (0 .. MaxVersion) \cup {None}]
           /\ errors' \subseteq Items
           /\ dlPhase' \in [Pair -> {"new", "loading", "resolved", "rejected"}]
           /\ key' \in [Pair -> Items \cup {None}] /\ since' \in [Pair -> 0 .. MaxVersion]
           /\ got' \in [Pair -> (0 .. MaxVersion) \cup {None}]
           /\ dlOrigin' = dlOrigin /\ dlPhase[c] = "new" /\ dlPhase'[c] # "new"
           /\ key'[c] = k /\ since'[c] = dlOrigin[k]
           /\ \A d \in Pair \ {c} :
                 key'[d] = key[d] /\ since'[d] = since[d] /\ dlPhase'[d] = dlPhase[d]
           /\ \A d \in Pair : key'[d] # None => since'[d] <= dlOrigin'[key'[d]]
<1>1. DataLoader!TypeOK /\ MaxVersion \in Nat
  BY DEF LoaderIInv, DataLoader!LoaderAssumption
<1>2. /\ dlPhase[c] = "new" /\ key' = [key EXCEPT ![c] = k]
      /\ since' = [since EXCEPT ![c] = dlOrigin[k]] /\ UNCHANGED <<dlOrigin, cache, errors>>
      /\ \/ dlPhase' = [dlPhase EXCEPT ![c] = "rejected"] /\ got' = got
         \/ dlPhase' = [dlPhase EXCEPT ![c] = "resolved"] /\ got' = [got EXCEPT ![c] = cache[k]]
         \/ dlPhase' = [dlPhase EXCEPT ![c] = "loading"] /\ got' = got
  BY DEF DataLoader!Load
<1>3. dlOrigin[k] \in 0 .. MaxVersion /\ cache[k] \in (0 .. MaxVersion) \cup {None}
  BY <1>1 DEF DataLoader!TypeOK
<1>4. /\ dlOrigin' \in [Items -> 0 .. MaxVersion]
      /\ cache' \in [Items -> (0 .. MaxVersion) \cup {None}]
      /\ errors' \subseteq Items
      /\ dlPhase' \in [Pair -> {"new", "loading", "resolved", "rejected"}]
      /\ key' \in [Pair -> Items \cup {None}] /\ since' \in [Pair -> 0 .. MaxVersion]
      /\ got' \in [Pair -> (0 .. MaxVersion) \cup {None}]
  BY <1>1, <1>2, <1>3 DEF DataLoader!TypeOK
<1>5. /\ dlPhase'[c] # "new" /\ key'[c] = k /\ since'[c] = dlOrigin[k]
      /\ \A d \in Pair \ {c} :
            key'[d] = key[d] /\ since'[d] = since[d] /\ dlPhase'[d] = dlPhase[d]
  BY <1>1, <1>2 DEF DataLoader!TypeOK
<1>6. \A d \in Pair : key'[d] # None => since'[d] <= dlOrigin'[key'[d]]
  <2> TAKE d \in Pair
  <2>1. CASE d = c
    BY <1>2, <1>3, <1>5, <2>1
  <2>2. CASE d # c
    BY <1>2, <1>5, <2>2 DEF LoaderIInv, Recent
  <2> QED
    BY <2>1, <2>2
<1> QED
  BY <1>2, <1>4, <1>5, <1>6

LEMMA LoadKeeps ==
    ASSUME DataLoader!LoaderAssumption, LoaderIInv, NEW c \in Pair, NEW k \in Items,
           DataLoader!Load(c, k)
    PROVE  LoaderIInv'
<1>1. DataLoader!TypeOK /\ OneGrows /\ Joined /\ Recent /\ batches \in Seq(DataLoader!Batch)
      /\ Len(batches) \in Nat
  BY DEF LoaderIInv, DataLoader!TypeOK
<1>2. /\ dlOrigin' \in [Items -> 0 .. MaxVersion]
      /\ cache' \in [Items -> (0 .. MaxVersion) \cup {None}]
      /\ errors' \subseteq Items
      /\ dlPhase' \in [Pair -> {"new", "loading", "resolved", "rejected"}]
      /\ key' \in [Pair -> Items \cup {None}] /\ since' \in [Pair -> 0 .. MaxVersion]
      /\ got' \in [Pair -> (0 .. MaxVersion) \cup {None}]
  BY LoadTypes
<1>3. /\ dlOrigin' = dlOrigin /\ dlPhase[c] = "new" /\ dlPhase'[c] # "new"
      /\ key'[c] = k /\ since'[c] = dlOrigin[k]
      /\ \A d \in Pair \ {c} : key'[d] = key[d] /\ since'[d] = since[d] /\ dlPhase'[d] = dlPhase[d]
      /\ \A d \in Pair : key'[d] # None => since'[d] <= dlOrigin'[key'[d]]
  BY LoadTypes
<1>4. \A n \in 1 .. Len(batches) : /\ ~Has(batches[n], c) /\ Made(batches[n])
                                   /\ \A i \in Places(batches[n]) :
                                         /\ c \notin batches[n].subscribers[i]
                                         /\ batches[n].subscribers[i] \subseteq Pair
  <2> TAKE n \in 1 .. Len(batches)
  <2>1. Made(batches[n])
    BY <1>1 DEF OneGrows
  <2>2. \A i \in Places(batches[n]) : batches[n].subscribers[i] \subseteq Pair
    BY <2>1, BatchIs DEF Made, Places
  <2> QED
    BY <1>3, <2>1, <2>2, NewIsNowhere
<1>5. CASE batches' = batches /\ dlPhase'[c] # "loading"
  <2>1. DataLoader!TypeOK' /\ OneGrows'
    BY <1>1, <1>2, <1>5 DEF DataLoader!TypeOK, OneGrows, DataLoader!Growing
  <2>2. Joined'
    <3>1. ASSUME NEW n \in 1 .. Len(batches), NEW i \in Places(batches[n]),
                 NEW d \in batches[n].subscribers[i]
          PROVE  /\ key'[d] = batches[n].keys[i] /\ dlPhase'[d] # "new"
                 /\ batches[n].step # "settled" => dlPhase'[d] = "loading"
      <4>1. d \in Pair \ {c}
        BY <1>4
      <4> QED
        BY <1>1, <1>3, <4>1 DEF Joined
    <3>2. \A d \in Pair : dlPhase'[d] = "loading" => d \in Pair \ {c} /\ dlPhase[d] = "loading"
      BY <1>3, <1>5
    <3> QED
      BY <1>1, <1>5, <3>1, <3>2 DEF Joined
  <2>3. Recent'
    <3>1. ASSUME NEW n \in 1 .. Len(batches), batches[n].step = "calling",
                 NEW d \in Pair, Has(batches[n], d)
          PROVE  since'[d] <= batches[n].read[key'[d]]
      <4>1. d \in Pair \ {c}
        BY <1>4, <3>1
      <4> QED
        BY <1>1, <1>3, <3>1, <4>1 DEF Recent
    <3> QED
      BY <1>3, <1>5, <3>1 DEF Recent
  <2> QED
    BY <2>1, <2>2, <2>3 DEF LoaderIInv
<1>6. CASE Takes(c, k) /\ dlPhase'[c] = "loading"
  <2> DEFINE N == Len(batches')
  <2>1. /\ batches' \in Seq(DataLoader!Batch) /\ N \in Nat /\ N # 0 /\ N \in 1 .. N
        /\ Len(batches) \in {N, N - 1}
        /\ \A n \in 1 .. N : n # N =>
              n \in 1 .. Len(batches) /\ batches'[n] = batches[n] /\ ~DataLoader!Growing(n)
        /\ Made(batches'[N]) /\ Len(batches'[N].keys) # 0 /\ batches'[N].step = "open"
        /\ Has(batches'[N], c)
        /\ \A i \in Places(batches'[N]) : \A d \in batches'[N].subscribers[i] :
              \/ d = c /\ batches'[N].keys[i] = k
              \/ /\ N \in 1 .. Len(batches) /\ batches[N].step = "open"
                 /\ i \in Places(batches[N]) /\ d \in batches[N].subscribers[i]
                 /\ batches'[N].keys[i] = batches[N].keys[i]
        /\ N \in 1 .. Len(batches) => \A d : Has(batches[N], d) => Has(batches'[N], d)
    BY <1>6 DEF Takes
  <2> HIDE DEF N
  <2>2. Len(batches') = N
    BY DEF N
  <2>3. DataLoader!TypeOK'
    BY <1>2, <2>1 DEF DataLoader!TypeOK
  <2>4. OneGrows'
    <3>1. ASSUME NEW n \in 1 .. N
          PROVE  Made(batches'[n]) /\ Len(batches'[n].keys) # 0 /\ (n # N
              => ~DataLoader!Growing(n)')
      BY <1>1, <2>1 DEF OneGrows, DataLoader!Growing
    <3> QED
      BY <2>2, <3>1 DEF OneGrows
  <2>5. \A n \in 1 .. N : \A d :
           Has(batches'[n], d) /\ d # c => n \in 1 .. Len(batches) /\ Has(batches[n], d)
    <3> SUFFICES ASSUME NEW n \in 1 .. N, NEW d, Has(batches'[n], d), d # c
                 PROVE  n \in 1 .. Len(batches) /\ Has(batches[n], d)
      OBVIOUS
    <3>1. CASE n = N
      BY <2>1, <3>1 DEF Has
    <3>2. CASE n # N
      BY <2>1, <3>2
    <3> QED
      BY <3>1, <3>2
  <2>6. \A n \in 1 .. Len(batches) : n \in 1 .. N /\ \A d : Has(batches[n], d)
          => Has(batches'[n], d)
    <3> TAKE n \in 1 .. Len(batches)
    <3>1. n \in 1 .. N
      BY <1>1, <2>1
    <3> QED
      BY <2>1, <3>1
  <2>7. \A n \in 1 .. N : Has(batches'[n], c) => n = N
    BY <1>4, <2>1
  <2>8. Joined'
    <3>1. ASSUME NEW n \in 1 .. N, NEW i \in Places(batches'[n]),
                 NEW d \in batches'[n].subscribers[i]
          PROVE  /\ key'[d] = batches'[n].keys[i] /\ dlPhase'[d] # "new"
                 /\ batches'[n].step # "settled" => dlPhase'[d] = "loading"
      <4>1. CASE d = c
        <5>1. n = N
          BY <2>7, <4>1 DEF Has
        <5>2. batches'[n].keys[i] = k
          BY <1>4, <2>1, <4>1, <5>1
        <5> QED
          BY <1>3, <1>6, <4>1, <5>2
      <4>2. CASE d # c
        <5>1. /\ n \in 1 .. Len(batches) /\ i \in Places(batches[n])
              /\ d \in batches[n].subscribers[i] /\ batches'[n].keys[i] = batches[n].keys[i]
              /\ n = N => batches[n].step = "open"
              /\ n # N => batches'[n] = batches[n]
          BY <2>1, <4>2
        <5>2. d \in Pair \ {c}
          BY <1>4, <4>2, <5>1
        <5>3. key[d] = batches[n].keys[i] /\ dlPhase[d] # "new"
              /\ (batches[n].step # "settled" => dlPhase[d] = "loading")
          BY <1>1, <5>1 DEF Joined
        <5> QED
          BY <1>3, <5>1, <5>2, <5>3
      <4> QED
        BY <4>1, <4>2
    <3>2. ASSUME NEW d \in Pair, NEW m \in 1 .. N, NEW n \in 1 .. N,
                 Has(batches'[m], d), Has(batches'[n], d)
          PROVE  m = n
      <4>1. CASE d = c
        BY <2>7, <3>2, <4>1
      <4>2. CASE d # c
        BY <1>1, <2>5, <3>2, <4>2 DEF Joined
      <4> QED
        BY <4>1, <4>2
    <3>3. ASSUME NEW d \in Pair, dlPhase'[d] = "loading"
          PROVE  \E n \in 1 .. N : batches'[n].step # "settled" /\ Has(batches'[n], d)
      <4>1. CASE d = c
        BY <2>1, <4>1
      <4>2. CASE d # c
        <5>1. PICK n \in 1 .. Len(batches) : batches[n].step # "settled" /\ Has(batches[n], d)
          BY <1>1, <1>3, <3>3, <4>2 DEF Joined
        <5>2. n \in 1 .. N /\ Has(batches'[n], d)
          BY <2>6, <5>1
        <5>3. batches'[n].step # "settled"
          BY <2>1, <5>1, <5>2
        <5> QED
          BY <5>2, <5>3
      <4> QED
        BY <4>1, <4>2
    <3> QED
      BY <2>2, <3>1, <3>2, <3>3 DEF Joined
  <2>9. Recent'
    <3>1. ASSUME NEW n \in 1 .. N, batches'[n].step = "calling", NEW d \in Pair, Has(batches'[n], d)
          PROVE  since'[d] <= batches'[n].read[key'[d]]
      <4>1. n # N
        BY <2>1, <3>1
      <4>2. n \in 1 .. Len(batches) /\ batches'[n] = batches[n]
        BY <2>1, <4>1
      <4>3. d # c
        BY <1>4, <3>1, <4>2
      <4> QED
        BY <1>1, <1>3, <3>1, <4>2, <4>3 DEF Recent
    <3> QED
      BY <1>3, <2>2, <3>1 DEF Recent
  <2> QED
    BY <2>3, <2>4, <2>8, <2>9 DEF LoaderIInv
<1>7. CASE batches' = LET bs == DataLoader!WithCurrent
                      IN  [bs EXCEPT ![Len(bs)] = DataLoader!Subscribe(@, c, k)]
  <2>1. Takes(c, k)
    BY <1>1, <1>7, LoadTakes
  <2>2. CASE dlPhase'[c] = "loading"
    BY <1>6, <2>1, <2>2
  <2> QED
    BY <2>2, <1>5, <1>1, <1>7 DEF DataLoader!Load, DataLoader!TypeOK
<1> QED
  BY <1>1, <1>5, <1>7 DEF DataLoader!Load, DataLoader!TypeOK

\* What the other steps do to the batches: at most one goes on.
GoesOn(n, from, s) ==
    /\ batches[n].step = from /\ s # "open"
    /\ batches' \in Seq(DataLoader!Batch) /\ Len(batches') = Len(batches)
    /\ \A m \in 1 .. Len(batches) :
          /\ batches'[m].keys = batches[m].keys /\ batches'[m].subscribers = batches[m].subscribers
          /\ m # n => batches'[m] = batches[m]
          /\ Made(batches'[m]) /\ Len(batches'[m].keys) # 0
          /\ DataLoader!Growing(m)' => DataLoader!Growing(m)
          /\ \A d : Has(batches'[m], d) <=> Has(batches[m], d)
    /\ batches'[n].step = s

LEMMA StepGoesOn ==
    ASSUME LoaderIInv, NEW n \in 1 .. Len(batches), NEW s \in {"calling", "settled"},
           \/ batches' = [batches EXCEPT ![n].step = s]
           \/ batches' = [batches EXCEPT ![n].step = s, ![n].read = dlOrigin]
    PROVE  GoesOn(n, batches[n].step, s) /\ OneGrows'
<1>1. /\ batches \in Seq(DataLoader!Batch) /\ Len(batches) \in Nat /\ DOMAIN batches
           = 1 .. Len(batches)
      /\ dlOrigin \in [Items -> 0 .. MaxVersion]
  BY DEF LoaderIInv, DataLoader!TypeOK
<1>2. \A m \in 1 .. Len(batches) : /\ batches[m] \in DataLoader!Batch /\ Made(batches[m])
                                   /\ Len(batches[m].keys) # 0
  BY <1>1, ElementOfSeq DEF LoaderIInv, OneGrows
<1> DEFINE r == IF batches' = [batches EXCEPT ![n].step = s]
                THEN [batches[n] EXCEPT !.step = s]
                ELSE [batches[n] EXCEPT !.step = s, !.read = dlOrigin]
<1>3. r \in DataLoader!Batch /\ r.keys = batches[n].keys /\ r.subscribers
        = batches[n].subscribers /\ r.step = s
  BY <1>1, <1>2 DEF DataLoader!Batch
<1>4. batches' = [batches EXCEPT ![n] = r]
  BY <1>1, <1>2 DEF DataLoader!Batch
<1> HIDE DEF r
<1>5. batches' = [m \in 1 .. Len(batches) |-> IF m = n THEN r ELSE batches[m]]
  BY <1>1, <1>4
<1>6. batches' \in Seq(DataLoader!Batch) /\ Len(batches') = Len(batches)
  <2>1. batches' \in [1 .. Len(batches) -> DataLoader!Batch]
    BY <1>2, <1>3, <1>5
  <2>2. batches' \in Seq(DataLoader!Batch)
    BY <1>1, <2>1, SeqDef
  <2>3. /\ DOMAIN batches' = 1 .. Len(batches) /\ DOMAIN batches' = 1 .. Len(batches')
        /\ Len(batches') \in Nat
    BY <2>1, <2>2, LenProperties
  <2> QED
    BY <1>1, <2>2, <2>3
<1>7. \A m \in 1 .. Len(batches) :
         /\ batches'[m].keys = batches[m].keys /\ batches'[m].subscribers = batches[m].subscribers
         /\ m # n => batches'[m] = batches[m]
         /\ batches'[m] \in DataLoader!Batch
  BY <1>2, <1>3, <1>5
<1>8. batches'[n] = r
  BY <1>5
<1>9. \A m \in 1 .. Len(batches) : Made(batches'[m]) /\ Len(batches'[m].keys) # 0
  BY <1>2, <1>7 DEF Made, Places
<1>10. \A m \in 1 .. Len(batches) : DataLoader!Growing(m)' => DataLoader!Growing(m)
  <2> SUFFICES ASSUME NEW m \in 1 .. Len(batches), DataLoader!Growing(m)'
               PROVE  DataLoader!Growing(m)
    OBVIOUS
  <2>1. m > 0 /\ batches'[m].step = "open" /\ Len(batches'[m].keys) < MaxBatch
    BY DEF DataLoader!Growing
  <2>2. m # n
    BY <1>3, <1>8, <2>1
  <2> QED
    BY <1>7, <2>1, <2>2 DEF DataLoader!Growing
<1>11. \A m \in 1 .. Len(batches) : \A d : Has(batches'[m], d) <=> Has(batches[m], d)
  BY <1>7 DEF Has, Places
<1>12. OneGrows'
  BY <1>6, <1>9, <1>10 DEF OneGrows, LoaderIInv
<1> QED
  BY <1>3, <1>6, <1>7, <1>8, <1>9, <1>10, <1>11, <1>12 DEF GoesOn

LEMMA DispatchKeeps ==
    ASSUME DataLoader!LoaderAssumption, LoaderIInv, NEW n \in 1 .. Len(batches),
           DataLoader!Dispatch(n)
    PROVE  LoaderIInv'
<1>1. GoesOn(n, "open", "calling") /\ OneGrows'
  BY StepGoesOn DEF DataLoader!Dispatch
<1>2. batches[n].step = "open" /\ UNCHANGED <<dlOrigin, cache, errors, dlPhase, key, since, got>>
      /\ batches'[n].read = dlOrigin
  <2>1. batches[n] \in DataLoader!Batch
    BY ElementOfSeq DEF LoaderIInv, DataLoader!TypeOK
  <2>2. DOMAIN batches = 1 .. Len(batches)
    BY DEF LoaderIInv, DataLoader!TypeOK
  <2> QED
    BY <2>1, <2>2 DEF DataLoader!Dispatch, DataLoader!Batch
<1>3. DataLoader!TypeOK'
  BY <1>1, <1>2 DEF LoaderIInv, DataLoader!TypeOK, GoesOn
<1>4. Joined'
  <2>1. \A m \in 1 .. Len(batches) : batches'[m].step # "settled" <=> batches[m].step # "settled"
    BY <1>1, <1>2 DEF GoesOn
  <2>2. \A m \in 1 .. Len(batches) : Places(batches'[m]) = Places(batches[m])
    BY <1>1 DEF GoesOn, Places
  <2>3. \A m \in 1 .. Len(batches) : \A i \in Places(batches[m]) :
           \A c \in batches'[m].subscribers[i] :
               /\ key[c] = batches'[m].keys[i] /\ dlPhase[c] # "new"
               /\ batches'[m].step # "settled" => dlPhase[c] = "loading"
    BY <1>1, <2>1 DEF LoaderIInv, Joined, GoesOn
  <2>4. \A m \in 1 .. Len(batches) : \A c : Has(batches'[m], c) <=> Has(batches[m], c)
    BY <1>1 DEF GoesOn
  <2>5. Len(batches') = Len(batches)
    BY <1>1 DEF GoesOn
  <2>6. \A c \in Pair : \A l, m \in 1 .. Len(batches') :
            Has(batches'[l], c) /\ Has(batches'[m], c) => l = m
    BY <2>4, <2>5 DEF LoaderIInv, Joined
  <2>7. \A c \in Pair : dlPhase[c] = "loading" =>
            \E m \in 1 .. Len(batches') : batches'[m].step # "settled" /\ Has(batches'[m], c)
    BY <2>1, <2>4, <2>5 DEF LoaderIInv, Joined
  <2> QED
    BY <1>2, <2>2, <2>3, <2>5, <2>6, <2>7 DEF Joined
<1>5. Recent'
  <2>1. ASSUME NEW m \in 1 .. Len(batches), batches'[m].step = "calling",
               NEW d \in Pair, Has(batches'[m], d)
        PROVE  since[d] <= batches'[m].read[key[d]]
    <3>1. Has(batches[m], d)
      BY <1>1, <2>1 DEF GoesOn
    <3>2. CASE m = n
      <4>1. key[d] # None
        <5>1. PICK i \in Places(batches[n]) : d \in batches[n].subscribers[i]
          BY <3>1, <3>2 DEF Has
        <5>2. key[d] = batches[n].keys[i]
          BY <5>1 DEF LoaderIInv, Joined
        <5>3. batches[n].keys[i] \in Items
          BY <5>1, BatchIs DEF LoaderIInv, OneGrows, Made, Places
        <5> QED
          BY <5>2, <5>3 DEF DataLoader!LoaderAssumption
      <4> QED
        BY <1>2, <3>2, <4>1 DEF LoaderIInv, Recent
    <3>3. CASE m # n
      BY <1>1, <2>1, <3>1, <3>3 DEF GoesOn, LoaderIInv, Recent
    <3> QED
      BY <3>2, <3>3
  <2> QED
    BY <1>1, <1>2, <2>1 DEF LoaderIInv, Recent, GoesOn
<1> QED
  BY <1>1, <1>3, <1>4, <1>5 DEF LoaderIInv

\* A batch settles, and all its subscribers with it, and nobody else.
LEMMA SettledKeeps ==
    ASSUME LoaderIInv, NEW n \in 1 .. Len(batches), GoesOn(n, "calling", "settled"), OneGrows',
           DataLoader!TypeOK',
           UNCHANGED <<dlOrigin, key, since>>,
           \A c \in Pair : IF Has(batches[n], c) THEN dlPhase'[c] \in {"resolved", "rejected"}
                           ELSE dlPhase'[c] = dlPhase[c]
    PROVE  LoaderIInv'
<1>1. Joined'
  <2>1. ASSUME NEW m \in 1 .. Len(batches), NEW i \in Places(batches[m]),
               NEW d \in batches[m].subscribers[i]
        PROVE  /\ key[d] = batches[m].keys[i] /\ dlPhase'[d] # "new"
               /\ batches'[m].step # "settled" => dlPhase'[d] = "loading"
    <3>1. d \in Pair /\ Has(batches[m], d)
      <4>1. batches[m].subscribers[i] \subseteq Pair
        BY BatchIs DEF LoaderIInv, OneGrows, Made, Places
      <4> QED
        BY <4>1 DEF Has
    <3>2. key[d] = batches[m].keys[i] /\ dlPhase[d] # "new"
          /\ (batches[m].step # "settled" => dlPhase[d] = "loading")
      BY DEF LoaderIInv, Joined
    <3>3. CASE m = n
      BY <3>1, <3>2, <3>3 DEF GoesOn
    <3>4. CASE m # n
      <4>1. ~Has(batches[n], d)
        BY <3>1, <3>4 DEF LoaderIInv, Joined
      <4>2. dlPhase'[d] = dlPhase[d] /\ batches'[m] = batches[m]
        BY <3>1, <3>4, <4>1 DEF GoesOn
      <4> QED
        BY <3>2, <4>2
    <3> QED
      BY <3>3, <3>4
  <2>2. ASSUME NEW d \in Pair, dlPhase'[d] = "loading"
        PROVE  \E m \in 1 .. Len(batches) : batches'[m].step # "settled" /\ Has(batches'[m], d)
    <3>1. ~Has(batches[n], d) /\ dlPhase[d] = "loading"
      BY <2>2
    <3>2. PICK m \in 1 .. Len(batches) : batches[m].step # "settled" /\ Has(batches[m], d)
      BY <3>1 DEF LoaderIInv, Joined
    <3>3. batches'[m] = batches[m]
      BY <3>1, <3>2 DEF GoesOn
    <3> QED
      BY <3>2, <3>3
  <2>3. \A d \in Pair : \A l, m \in 1 .. Len(batches) :
            Has(batches'[l], d) /\ Has(batches'[m], d) => l = m
    BY DEF LoaderIInv, Joined, GoesOn
  <2> QED
    BY <2>1, <2>2, <2>3 DEF Joined, GoesOn, Places
<1>2. Recent'
  BY DEF LoaderIInv, Recent, GoesOn
<1> QED
  BY <1>1, <1>2 DEF LoaderIInv

\* Who is served, and what by.
LEMMA SubscribersServed ==
    ASSUME DataLoader!LoaderAssumption, LoaderIInv, NEW n \in 1 .. Len(batches),
           NEW failing \in SUBSET DataLoader!KeysOf(n)
    PROVE  /\ \A c : c \in DataLoader!Subscribers(n) <=> Has(batches[n], c)
           /\ DataLoader!KeysOf(n) \subseteq Items /\ DataLoader!Subscribers(n) \subseteq Pair
           /\ \A k \in DataLoader!KeysOf(n) : \A c \in DataLoader!Subscribed(n, k) :
                 c \in DataLoader!Subscribers(n) /\ key[c] = k
<1>1. Made(batches[n]) /\ batches[n] \in DataLoader!Batch /\ Len(batches[n].subscribers)
        = Len(batches[n].keys)
  BY DEF LoaderIInv, OneGrows, Made
<1>2. /\ \A i \in 1 .. Len(batches[n].keys) : batches[n].keys[i] \in Items
      /\ \A i \in 1 .. Len(batches[n].keys) : batches[n].subscribers[i] \subseteq Pair
  BY <1>1, BatchIs
<1>3. \A c : c \in DataLoader!Subscribers(n) <=> Has(batches[n], c)
  BY DEF DataLoader!Subscribers, Has, Places
<1>4. DataLoader!KeysOf(n) \subseteq Items /\ DataLoader!Subscribers(n) \subseteq Pair
  BY <1>2 DEF DataLoader!KeysOf, DataLoader!Subscribers
<1>5. ASSUME NEW k \in DataLoader!KeysOf(n), NEW c \in DataLoader!Subscribed(n, k)
      PROVE  c \in DataLoader!Subscribers(n) /\ key[c] = k
  <2> DEFINE at == DataLoader!IndexOf(batches[n], k)
  <2>1. at \in 1 .. Len(batches[n].keys) /\ batches[n].keys[at] = k
    BY DEF DataLoader!KeysOf, DataLoader!IndexOf
  <2>2. c \in batches[n].subscribers[at]
    BY DEF DataLoader!Subscribed
  <2> HIDE DEF at
  <2> QED
    BY <2>1, <2>2 DEF DataLoader!Subscribers, LoaderIInv, Joined, Places
<1> QED
  BY <1>3, <1>4, <1>5

LEMMA FailKeeps ==
    ASSUME DataLoader!LoaderAssumption, LoaderIInv, NEW n \in 1 .. Len(batches), DataLoader!Fail(n)
    PROVE  LoaderIInv'
<1>1. GoesOn(n, "calling", "settled") /\ OneGrows'
  BY StepGoesOn DEF DataLoader!Fail
<1>2. \A c : c \in DataLoader!Subscribers(n) <=> Has(batches[n], c)
  BY SubscribersServed
<1>3. /\ UNCHANGED <<dlOrigin, cache, errors, key, since, got>>
      /\ dlPhase' = [c \in Pair |-> IF Has(batches[n], c) THEN "rejected" ELSE dlPhase[c]]
  BY <1>2 DEF DataLoader!Fail
<1>4. DataLoader!TypeOK'
  BY <1>1, <1>3 DEF LoaderIInv, DataLoader!TypeOK, GoesOn
<1> QED
  BY <1>1, <1>3, <1>4, SettledKeeps

LEMMA SettleKeeps ==
    ASSUME DataLoader!LoaderAssumption, LoaderIInv, NEW n \in 1 .. Len(batches),
           NEW failing \in SUBSET DataLoader!KeysOf(n), DataLoader!Settle(n, failing)
    PROVE  LoaderIInv'
<1> DEFINE served == UNION {DataLoader!Subscribed(n, k) : k \in DataLoader!KeysOf(n) \ failing}
<1>1. GoesOn(n, "calling", "settled") /\ OneGrows'
  BY StepGoesOn DEF DataLoader!Settle
<1>2. /\ \A c : c \in DataLoader!Subscribers(n) <=> Has(batches[n], c)
      /\ DataLoader!KeysOf(n) \subseteq Items
      /\ \A c \in served : c \in DataLoader!Subscribers(n) /\ key[c] \in DataLoader!KeysOf(n)
  <2>1. (\A c : c \in DataLoader!Subscribers(n) <=> Has(batches[n], c))
        /\ DataLoader!KeysOf(n) \subseteq Items
    BY SubscribersServed
  <2>2. ASSUME NEW c \in served
        PROVE  c \in DataLoader!Subscribers(n) /\ key[c] \in DataLoader!KeysOf(n)
    <3>1. PICK k \in DataLoader!KeysOf(n) \ failing : c \in DataLoader!Subscribed(n, k)
      OBVIOUS
    <3>2. k \in DataLoader!KeysOf(n) /\ c \in DataLoader!Subscribers(n) /\ key[c] = k
      BY <3>1, SubscribersServed
    <3> QED
      BY <3>2
  <2> QED
    BY <2>1, <2>2
<1> HIDE DEF served
<1>3. /\ UNCHANGED <<dlOrigin, key, since>>
      /\ cache' = [k \in Items |->
             IF k \in DataLoader!KeysOf(n) \ failing THEN batches[n].read[k] ELSE cache[k]]
      /\ errors' = IF CacheErrors THEN errors \cup failing ELSE errors
      /\ dlPhase' = [c \in Pair |->
             IF c \in served THEN "resolved"
             ELSE IF c \in DataLoader!Subscribers(n) THEN "rejected" ELSE dlPhase[c]]
      /\ got' = [c \in Pair |-> IF c \in served THEN batches[n].read[key[c]] ELSE got[c]]
  BY DEF DataLoader!Settle, served
<1>4. batches[n].read \in [Items -> 0 .. MaxVersion]
  BY BatchIs DEF LoaderIInv, OneGrows, Made
<1>5. DataLoader!TypeOK'
  <2>1. cache' \in [Items -> (0 .. MaxVersion) \cup {None}] /\ errors' \subseteq Items
    BY <1>2, <1>3, <1>4 DEF LoaderIInv, DataLoader!TypeOK
  <2>2. got' \in [Pair -> (0 .. MaxVersion) \cup {None}]
    <3>1. \A c \in served : batches[n].read[key[c]] \in 0 .. MaxVersion
      BY <1>2, <1>4
    <3> QED
      BY <1>3, <3>1 DEF LoaderIInv, DataLoader!TypeOK
  <2>3. dlPhase' \in [Pair -> {"new", "loading", "resolved", "rejected"}]
    BY <1>3 DEF LoaderIInv, DataLoader!TypeOK
  <2> QED
    BY <1>1, <1>3, <2>1, <2>2, <2>3 DEF LoaderIInv, DataLoader!TypeOK, GoesOn
<1>6. \A c \in Pair : IF Has(batches[n], c) THEN dlPhase'[c] \in {"resolved", "rejected"}
                      ELSE dlPhase'[c] = dlPhase[c]
  BY <1>2, <1>3
<1> QED
  BY <1>1, <1>3, <1>5, <1>6, SettledKeeps

LEMMA CacheKeeps ==
    ASSUME DataLoader!LoaderAssumption, LoaderIInv, NEW k \in Items,
           \/ DataLoader!Prime(k) \/ DataLoader!Change(k)
           \/ DataLoader!Clear({k}) \/ DataLoader!Clear(Items)
    PROVE  LoaderIInv'
<1>1. UNCHANGED <<batches, dlPhase, key, since, got>>
  BY DEF DataLoader!Prime, DataLoader!Change, DataLoader!Clear
<1>2. /\ dlOrigin \in [Items -> 0 .. MaxVersion] /\ since \in [Pair -> 0 .. MaxVersion]
      /\ key \in [Pair -> Items \cup {None}] /\ MaxVersion \in Nat
  BY DEF LoaderIInv, DataLoader!TypeOK, DataLoader!LoaderAssumption
<1>3. dlOrigin' \in [Items -> 0 .. MaxVersion] /\ \A j \in Items : dlOrigin[j] <= dlOrigin'[j]
  <2>1. CASE DataLoader!Change(k)
    <3>1. dlOrigin[k] \in 0 .. MaxVersion /\ dlOrigin[k] < MaxVersion
      BY <1>2, <2>1 DEF DataLoader!Change
    <3>2. dlOrigin[k] + 1 \in 0 .. MaxVersion
      BY <1>2, <3>1
    <3> QED
      BY <1>2, <2>1, <3>1, <3>2 DEF DataLoader!Change
  <2>2. CASE dlOrigin' = dlOrigin
    BY <1>2, <2>2
  <2> QED
    BY <2>1, <2>2 DEF DataLoader!Prime, DataLoader!Clear
<1>4. DataLoader!TypeOK'
  <2>1. cache' \in [Items -> (0 .. MaxVersion) \cup {None}] /\ errors' \subseteq Items
    BY <1>2 DEF LoaderIInv, DataLoader!TypeOK, DataLoader!Prime, DataLoader!Change, DataLoader!Clear
  <2> QED
    BY <1>1, <1>3, <2>1 DEF LoaderIInv, DataLoader!TypeOK
<1>5. OneGrows' /\ Joined'
  BY <1>1 DEF LoaderIInv, OneGrows, Joined, DataLoader!Growing
<1>6. Recent'
  <2>1. \A c \in Pair : key[c] # None => since[c] <= dlOrigin'[key[c]]
    <3> SUFFICES ASSUME NEW c \in Pair, key[c] # None
                 PROVE  since[c] <= dlOrigin'[key[c]]
      OBVIOUS
    <3>1. key[c] \in Items /\ since[c] <= dlOrigin[key[c]] /\ since[c] \in Nat
      BY <1>2 DEF LoaderIInv, Recent
    <3>2. dlOrigin[key[c]] <= dlOrigin'[key[c]] /\ dlOrigin[key[c]] \in Nat
          /\ dlOrigin'[key[c]] \in Nat
      BY <1>2, <1>3, <3>1
    <3> QED
      BY <3>1, <3>2
  <2> QED
    BY <1>1, <2>1 DEF LoaderIInv, Recent
<1> QED
  BY <1>4, <1>5, <1>6 DEF LoaderIInv

LEMMA LoaderNext == DataLoader!LoaderAssumption /\ LoaderIInv
  /\ [DataLoader!Next]_(DataLoader!vars) => LoaderIInv'
<1> SUFFICES ASSUME DataLoader!LoaderAssumption, LoaderIInv, [DataLoader!Next]_(DataLoader!vars)
             PROVE  LoaderIInv'
  OBVIOUS
<1>1. CASE UNCHANGED DataLoader!vars
  BY <1>1
  DEF DataLoader!vars, LoaderIInv, DataLoader!TypeOK, OneGrows, Joined, Recent, DataLoader!Growing
<1>2. CASE DataLoader!Next
  <2>1. ASSUME DataLoader!Clear(Items)
        PROVE  LoaderIInv'
    <3>1. CASE Items = {}
      BY <2>1, <3>1
      DEF DataLoader!Clear, LoaderIInv, DataLoader!TypeOK, OneGrows, Joined, Recent,
          DataLoader!Growing
    <3>2. CASE Items # {}
      BY <2>1, <3>2, CacheKeeps
    <3> QED
      BY <3>1, <3>2
  <2> QED
    BY <1>2, <2>1, LoadKeeps, DispatchKeeps, FailKeeps, SettleKeeps, CacheKeeps DEF DataLoader!Next
<1> QED
  BY <1>1, <1>2

LEMMA LoaderInv == DataLoader!LoaderAssumption /\ LoaderIInv => DataLoader!LoadsCarried
  /\ DataLoader!BatchesBounded
<1> SUFFICES ASSUME DataLoader!LoaderAssumption, LoaderIInv
             PROVE  DataLoader!LoadsCarried /\ DataLoader!BatchesBounded
  OBVIOUS
<1>1. DataLoader!LoadsCarried
  BY DEF DataLoader!LoadsCarried, LoaderIInv, Joined, Has, Places
<1>2. ASSUME NEW n \in 1 .. Len(batches)
      PROVE  /\ Len(batches[n].keys) \in 1 .. MaxBatch
             /\ Cardinality(DataLoader!KeysOf(n)) = Len(batches[n].keys)
             /\ DataLoader!Growing(n) => n = DataLoader!Current
  <2> DEFINE ks == batches[n].keys
  <2>1. /\ ks \in Seq(Items) /\ Len(ks) \in Nat /\ Len(ks) # 0 /\ Len(ks) <= MaxBatch
        /\ \A i, j \in 1 .. Len(ks) : ks[i] = ks[j] => i = j
    BY BatchIs DEF LoaderIInv, OneGrows, Made, Places
  <2>2. DataLoader!KeysOf(n) = {ks[i] : i \in 1 .. Len(ks)}
    BY DEF DataLoader!KeysOf
  <2>3. DataLoader!Growing(n) => n = DataLoader!Current
    BY DEF LoaderIInv, OneGrows, DataLoader!Current
  <2> HIDE DEF ks
  <2>4. Cardinality(DataLoader!KeysOf(n)) = Len(ks)
    <3>1. IsFiniteSet(1 .. Len(ks)) /\ Cardinality(1 .. Len(ks)) = Len(ks)
      <4>1. Len(ks) \in Nat /\ Len(ks) # 0
        BY <2>1
      <4>2. IsFiniteSet(1 .. Len(ks))
            /\ Cardinality(1 .. Len(ks)) = IF 1 <= Len(ks) THEN Len(ks) - 1 + 1 ELSE 0
        BY <4>1, FS_Interval
      <4> QED
        BY <4>1, <4>2
    <3> DEFINE f == [i \in 1 .. Len(ks) |-> ks[i]]
    <3>2. f \in Bijection(1 .. Len(ks), DataLoader!KeysOf(n))
      BY <2>1, <2>2 DEF Bijection, Injection, Surjection, IsInjective
    <3> HIDE DEF f
    <3> QED
      BY <3>1, <3>2, FS_Bijection DEF ExistsBijection
  <2> QED
    BY <2>1, <2>3, <2>4 DEF ks, DataLoader!LoaderAssumption
<1>3. DataLoader!BatchesBounded
  BY <1>2, LoaderFinite DEF DataLoader!BatchesBounded
<1> QED
  BY <1>1, <1>3

\* Whoever a batch resolves has a value that is no older than its call.
LEMMA NoStale ==
    DataLoader!LoaderAssumption /\ LoaderIInv /\ [DataLoader!Next]_(DataLoader!vars) =>
        [\A c \in Pair :
            dlPhase[c] = "loading" /\ dlPhase'[c] = "resolved"
                => got'[c] >= since[c]]_(DataLoader!vars)
<1> SUFFICES ASSUME DataLoader!LoaderAssumption, LoaderIInv, DataLoader!Next, NEW c \in Pair,
                    dlPhase[c] = "loading", dlPhase'[c] = "resolved"
             PROVE  got'[c] >= since[c]
  OBVIOUS
<1>1. ASSUME NEW n \in 1 .. Len(batches), NEW failing \in SUBSET DataLoader!KeysOf(n),
             DataLoader!Settle(n, failing)
      PROVE  got'[c] >= since[c]
  <2> DEFINE served == UNION {DataLoader!Subscribed(n, k) : k \in DataLoader!KeysOf(n) \ failing}
  <2>1. c \in served /\ got'[c] = batches[n].read[key[c]] /\ batches[n].step = "calling"
    BY <1>1 DEF DataLoader!Settle, LoaderIInv, DataLoader!TypeOK
  <2>2. Has(batches[n], c) /\ key[c] \in Items
    <3>1. PICK k \in DataLoader!KeysOf(n) \ failing : c \in DataLoader!Subscribed(n, k)
      BY <2>1
    <3>2. k \in DataLoader!KeysOf(n) /\ DataLoader!KeysOf(n) \subseteq Items
          /\ c \in DataLoader!Subscribers(n) /\ key[c] = k
      BY <3>1, SubscribersServed
    <3> QED
      BY <3>2, SubscribersServed
  <2>3. since[c] <= batches[n].read[key[c]]
    BY <2>1, <2>2 DEF LoaderIInv, Recent
  <2>4. batches[n].read[key[c]] \in Nat /\ since[c] \in Nat
    <3>1. batches[n].read \in [Items -> 0 .. MaxVersion]
      BY BatchIs DEF LoaderIInv, OneGrows, Made
    <3> QED
      BY <2>2, <3>1 DEF LoaderIInv, DataLoader!TypeOK
  <2> QED
    BY <2>1, <2>3, <2>4
<1>2. ASSUME NEW d \in Pair, NEW k \in Items, DataLoader!Load(d, k)
      PROVE  FALSE
  BY <1>2, LoadTypes
<1>3. ASSUME NEW n \in 1 .. Len(batches), DataLoader!Dispatch(n) \/ DataLoader!Fail(n)
      PROVE  FALSE
  BY <1>3 DEF DataLoader!Dispatch, DataLoader!Fail, LoaderIInv, DataLoader!TypeOK
<1>4. ASSUME NEW k,
             \/ DataLoader!Prime(k) \/ DataLoader!Change(k)
             \/ DataLoader!Clear({k}) \/ DataLoader!Clear(Items)
      PROVE  FALSE
  BY <1>4 DEF DataLoader!Prime, DataLoader!Change, DataLoader!Clear
<1> QED
  BY <1>1, <1>2, <1>3, <1>4 DEF DataLoader!Next

-------------------------------------------------------------------------------
LEMMA LoaderMoves == Spec => DataLoader!Spec
<1>1. Init => DataLoader!Init
  BY DEF Init
<1>2. [Next]_vars => [DataLoader!Next]_(DataLoader!vars)
  BY DEF Next, vars, loader, DataLoader!vars
<1> QED
  BY <1>1, <1>2, PTL DEF Spec, DataLoader!Spec

LEMMA LoaderHolds == Spec => []LoaderIInv
<1>1. DataLoader!Init => LoaderIInv
  BY LoaderInit, DataLayerAssumption
<1>2. LoaderIInv /\ [DataLoader!Next]_(DataLoader!vars) => LoaderIInv'
  BY LoaderNext, DataLayerAssumption
<1> QED
  BY <1>1, <1>2, LoaderMoves, PTL DEF DataLoader!Spec

\* No load() of the dataloader is lost: whoever waits is subscribed to a batch that
\* has yet to settle, and only those, however loads, dispatches, failures and clears
\* interleave.
THEOREM LoadsCarriedHolds == Spec => []LoadsCarried
<1>1. LoaderIInv => LoadsCarried
  BY LoaderInv, DataLayerAssumption DEF LoadsCarried
<1> QED
  BY <1>1, LoaderHolds, PTL

\* A batch has at most maxBatchSize keys, each once, and only the last one grows.
THEOREM BatchesBoundedHolds == Spec => []BatchesBounded
<1>1. LoaderIInv => BatchesBounded
  BY LoaderInv, DataLayerAssumption DEF BatchesBounded
<1> QED
  BY <1>1, LoaderHolds, PTL

\* No load is resolved by a batch with a value from before its call.
THEOREM NoStaleJoinHolds == Spec => NoStaleJoin
<1>1. LoaderIInv /\ [DataLoader!Next]_(DataLoader!vars) =>
        [\A c \in Pair :
            dlPhase[c] = "loading" /\ dlPhase'[c] = "resolved" => got'[c] >= since[c]
        ]_(DataLoader!vars)
  BY NoStale, DataLayerAssumption
<1> QED
  BY <1>1, LoaderMoves, LoaderHolds, PTL
     DEF DataLoader!Spec, NoStaleJoin, DataLoader!NoStaleJoin

-------------------------------------------------------------------------------
LEMMA RateFinite ==
    /\ \A S : RateLimit!IsFiniteSet(S) = IsFiniteSet(S)
    /\ \A S : RateLimit!Cardinality(S) = Cardinality(S)
<1>1. \A S : RateLimit!IsFiniteSet(S) = IsFiniteSet(S)
  BY DEF RateLimit!IsFiniteSet, IsFiniteSet
<1>2. \A S : RateLimit!Cardinality(S) = Cardinality(S)
  BY DEF RateLimit!Cardinality, Cardinality
<1> QED
  BY <1>1, <1>2

InProcess == setup.store = "local"
Bucket == setup.algorithm = "token-bucket"

\* Those that have passed asked before now, and nobody waits for Redis.
Asked ==
    /\ rlNow \in Nat /\ setup \in Setups
    /\ rlPhase \in [Attempts -> {"new", "passed", "rejected", "unchecked", "refused",
                                 "expiring", "crashed"}]
    /\ asked \in [Attempts -> Nat \cup {None}]
    /\ \A r \in Attempts : rlPhase[r] \in {"passed", "expiring"} => asked[r] \in 0 .. rlNow
    /\ evictions \in Nat
    /\ InProcess =>
          /\ admitted \in [Attempts -> Nat \cup {None}]
          /\ \A r \in Attempts : rlPhase[r] = "passed" => admitted[r] \in 0 .. evictions
          /\ \A r \in Attempts : rlPhase[r] # "expiring"

\* Those that have passed since the store has evicted the entry for the last time.
Current == {r \in Attempts : rlPhase[r] = "passed" /\ admitted[r] = evictions}
InEra(a, b) == {r \in Current : asked[r] \in a .. b}

\* Those that passed after so many evictions.
OfEra(g, a, b) ==
    {r \in Attempts : rlPhase[r] = "passed" /\ admitted[r] = g /\ asked[r] \in a .. b}

\* Those that have passed since a time, and how many.
PassedSince(a) == {r \in Current : asked[r] \in Int /\ asked[r] >= a}
Since(a) == Cardinality(PassedSince(a))
Within(a, b) == Cardinality(InEra(a, b))

\* The window that the entry is about, and what has passed in it and in the one before.
\* The sliding window never has a previous one: its entry ends with its window.
Begun == IF setup.algorithm = "fixed-window" THEN rlEntry.state.resetTime - Window
         ELSE rlEntry.state.windowStart
WindowKept ==
    /\ IF setup.algorithm = "fixed-window" THEN rlEntry.state \in RateLimit!FixedWindowEntry
       ELSE rlEntry.state \in RateLimit!SlidingWindowEntry /\ rlEntry.state.prevCount = 0
    /\ Begun \in Int /\ Begun <= rlNow /\ rlEntry.expires = Begun + Window
    /\ Since(Begun) <= rlEntry.state.count /\ Since(Begun) <= MaxRequests
    /\ Within(Begun - Window, Begun - 1) <= MaxRequests
    /\ \A r \in Current : asked[r] < Begun + Window

\* What has passed since t has been paid for by a full bucket, by what has flowed in
\* twice over, and by one more token; and while the entry can still be forgotten, by
\* what will have flowed in by then.
Missing == RateLimit!Capacity - rlEntry.state.tokens
Flown(from, to) == 2 * ((to - from) * MaxRequests)
BucketKept ==
    LET last == rlEntry.state.lastRefill
    IN  /\ rlEntry.state \in RateLimit!TokenBucketEntry /\ last <= rlNow
        /\ Missing \in Nat /\ (MaxRequests >= 2 => Missing >= Window)
        /\ \A r \in Current : asked[r] <= last
        /\ \A t \in Int : t <= last => Since(t) * Window <= Window + Flown(t, last) + Missing
        /\ rlEntry.expires # None => \A t \in Int : t <= last =>
               Since(t) * Window <= Window + Flown(t, rlEntry.expires)

BurstKept == \A t \in Int : Within(t, t + Window - 1) <= RateLimit!BurstLimit
EarlierKept ==
    \A g \in Nat, t \in Int :
        g < evictions => Cardinality(OfEra(g, t, t + Window - 1)) <= RateLimit!BurstLimit

LimitKept ==
    InProcess =>
        /\ BurstKept /\ EarlierKept
        /\ IF rlEntry = None THEN Current = {}
           ELSE /\ rlEntry.expires \in Nat \cup {None}
                /\ IF Bucket THEN BucketKept ELSE WindowKept

-------------------------------------------------------------------------------
\* Integer division rounds as its names say.
LEMMA Divides == ASSUME NEW a \in Nat, NEW b \in Nat \ {0} PROVE (a * b) \div b = a
OBVIOUS

LEMMA Ceiling ==
    ASSUME NEW a \in Nat, NEW b \in Nat \ {0}
    PROVE  /\ RateLimit!CeilDiv(a, b) \in Nat
           /\ a <= RateLimit!CeilDiv(a, b) * b
           /\ RateLimit!CeilDiv(a, b) * b < a + b
<1> DEFINE c == (a + b - 1) \div b
           m == (a + b - 1) % b
<1>1. c \in Nat /\ m \in Nat /\ m < b /\ a + b - 1 = b * c + m
  OBVIOUS
<1>2. RateLimit!CeilDiv(a, b) = c
  BY DEF RateLimit!CeilDiv
<1> HIDE DEF c, m
<1>3. c * b = b * c /\ b * c \in Nat
  BY <1>1
<1> QED
  BY <1>1, <1>2, <1>3

LEMMA Grows ==
    ASSUME NEW a \in Int, NEW b \in Int, NEW m \in Nat, a <= b
    PROVE  a * m <= b * m /\ a * m \in Int /\ b * m \in Int
OBVIOUS

-------------------------------------------------------------------------------
LEMMA Sizes ==
    ASSUME RateLimit!RateAssumption, NEW U \in SUBSET Attempts
    PROVE  /\ IsFiniteSet(U) /\ Cardinality(U) \in Nat
           /\ \A T \in SUBSET U : Cardinality(T) \in Nat /\ Cardinality(T) <= Cardinality(U)
           /\ \A r : Cardinality(U \cup {r}) \in Nat
                /\ Cardinality(U \cup {r}) <= Cardinality(U) + 1
<1>1. IsFiniteSet(U)
  BY FS_Subset, RateFinite DEF RateLimit!RateAssumption
<1>2. Cardinality(U) \in Nat
  BY <1>1, FS_CardinalityType
<1>3. \A T \in SUBSET U : Cardinality(T) \in Nat /\ Cardinality(T) <= Cardinality(U)
  BY <1>1, FS_Subset, FS_CardinalityType
<1>4. \A r : Cardinality(U \cup {r}) \in Nat /\ Cardinality(U \cup {r}) <= Cardinality(U) + 1
  <2> TAKE r
  <2>1. /\ IsFiniteSet(U \cup {r})
        /\ Cardinality(U \cup {r}) = IF r \in U THEN Cardinality(U) ELSE Cardinality(U) + 1
    BY <1>1, FS_AddElement
  <2> QED
    BY <1>2, <2>1
<1> QED
  BY <1>1, <1>2, <1>3, <1>4

LEMMA Counts ==
    ASSUME RateLimit!RateAssumption, NEW a \in Int, NEW b \in Int
    PROVE  /\ Since(a) \in Nat /\ Within(a, b) \in Nat
           /\ \A c \in Int : c <= a => Since(a) <= Since(c) /\ Within(a, b) <= Since(c)
           /\ \A c, d \in Int : c <= a /\ b <= d => Within(a, b) <= Within(c, d)
           /\ \A c, d \in Int : d = c - 1 => Within(a, b) <= Within(a, d) + Within(c, b)
<1>1. /\ PassedSince(a) \subseteq Attempts /\ InEra(a, b) \subseteq Attempts
      /\ \A c \in Int : PassedSince(c) \subseteq Attempts
      /\ \A c, d \in Int : InEra(c, d) \subseteq Attempts
  BY DEF PassedSince, InEra, Current
<1>2. Since(a) \in Nat /\ Within(a, b) \in Nat
  BY <1>1, Sizes DEF Since, Within
<1>3. ASSUME NEW c \in Int, c <= a
      PROVE  Since(a) <= Since(c) /\ Within(a, b) <= Since(c)
  <2>1. PassedSince(a) \subseteq PassedSince(c) /\ InEra(a, b) \subseteq PassedSince(c)
    BY <1>3 DEF PassedSince, InEra
  <2> QED
    BY <1>1, <2>1, Sizes DEF Since, Within
<1>4. ASSUME NEW c \in Int, NEW d \in Int, c <= a, b <= d
      PROVE  Within(a, b) <= Within(c, d)
  <2>1. InEra(a, b) \subseteq InEra(c, d)
    BY <1>4 DEF InEra
  <2> QED
    BY <1>1, <2>1, Sizes DEF Within
<1>5. ASSUME NEW c \in Int, NEW d \in Int, d = c - 1
      PROVE  Within(a, b) <= Within(a, d) + Within(c, b)
  <2> DEFINE T == InEra(a, d)
             U == InEra(c, b)
  <2>1. InEra(a, b) \subseteq T \cup U
    BY <1>5 DEF InEra
  <2>2. T \subseteq Attempts /\ U \subseteq Attempts
    BY <1>1
  <2> HIDE DEF T, U
  <2>3. /\ IsFiniteSet(T) /\ IsFiniteSet(U) /\ T \cup U \subseteq Attempts
        /\ Cardinality(T) \in Nat /\ Cardinality(U) \in Nat
    BY <2>2, Sizes
  <2>4. Cardinality(T \cup U) = Cardinality(T) + Cardinality(U) - Cardinality(T \cap U)
    BY <2>3, FS_Union
  <2>5. Cardinality(T \cap U) \in Nat /\ Cardinality(T \cup U) \in Nat
    <3>1. T \cap U \subseteq Attempts
      BY <2>2
    <3> QED
      BY <2>3, <3>1, Sizes
  <2>6. Cardinality(InEra(a, b)) <= Cardinality(T \cup U)
        /\ Cardinality(InEra(a, b)) \in Nat
    BY <2>1, <2>3, Sizes
  <2> QED
    BY <2>3, <2>4, <2>5, <2>6 DEF T, U, Within
<1> QED
  BY <1>2, <1>3, <1>4, <1>5

\* Whoever passed did so in the past.
LEMMA NothingLater ==
    ASSUME Asked, NEW a \in Int, a > rlNow
    PROVE  PassedSince(a) = {} /\ \A b \in Int : InEra(a, b) = {}
BY DEF Asked, PassedSince, InEra, Current

\* What a check does to the numbers: one more has passed, now, or nobody has.
LEMMA CheckCounts ==
    ASSUME RateLimit!RateAssumption, Asked, NEW r \in Attempts, RateLimit!CheckLocal(r)
    PROVE  /\ Asked' /\ rlNow' = rlNow /\ setup' = setup /\ rlPhase'[r] \in {"passed", "rejected"}
           /\ \A a \in Int : /\ Since(a)' \in Nat /\ Since(a)' <= Since(a) + 1
                             /\ rlPhase'[r] = "rejected" \/ rlNow < a => Since(a)' = Since(a)
           /\ \A a, b \in Int : /\ Within(a, b)' \in Nat /\ Within(a, b)' <= Within(a, b) + 1
                                /\ rlPhase'[r] = "rejected" \/ rlNow \notin a .. b
                                      => Within(a, b)' = Within(a, b)
           /\ \A q \in Current' : asked'[q] = rlNow \/ (q \in Current
                /\ asked'[q] = asked[q])
           /\ evictions' = evictions /\ (EarlierKept => EarlierKept')
<1>1. /\ rlPhase[r] = "new" /\ asked' = [asked EXCEPT ![r] = rlNow]
      /\ setup.store = "local" /\ UNCHANGED <<setup, rlNow, counter, evictions>>
      /\ evictions \in Nat /\ admitted \in [Attempts -> Nat \cup {None}]
  BY DEF RateLimit!CheckLocal, RateLimit!Ask, RateLimit!IsNext, Asked, InProcess
<1>2. \/ /\ rlPhase' = [rlPhase EXCEPT ![r] = "passed"]
         /\ admitted' = [admitted EXCEPT ![r] = evictions]
      \/ /\ rlPhase' = [rlPhase EXCEPT ![r] = "rejected"]
         /\ admitted' = [admitted EXCEPT ![r] = None]
  BY DEF RateLimit!CheckLocal, RateLimit!Settle
<1>3. \A q \in Attempts : q # r =>
         rlPhase'[q] = rlPhase[q] /\ asked'[q] = asked[q] /\ admitted'[q] = admitted[q]
  BY <1>1, <1>2 DEF Asked
<1>4. /\ asked'[r] = rlNow /\ rlPhase'[r] \in {"passed", "rejected"} /\ rlNow \in Nat
      /\ rlPhase'[r] = "passed" => admitted'[r] = evictions
      /\ admitted' \in [Attempts -> Nat \cup {None}]
  BY <1>1, <1>2 DEF Asked
<1>5. Current' = IF rlPhase'[r] = "passed" THEN Current \cup {r} ELSE Current
  BY <1>1, <1>3, <1>4 DEF Current
<1>6. r \notin Current
  BY <1>1 DEF Current
<1>7. Asked'
  <2>1. rlPhase' \in [Attempts -> {"new", "passed", "rejected", "unchecked", "refused",
                                   "expiring", "crashed"}]
        /\ asked' \in [Attempts -> Nat \cup {None}]
    BY <1>1, <1>2, <1>4 DEF Asked
  <2>2. \A q \in Attempts : rlPhase'[q] = "passed" =>
           asked'[q] \in 0 .. rlNow /\ admitted'[q] \in 0 .. evictions
    BY <1>1, <1>3, <1>4 DEF Asked, InProcess
  <2>3. \A q \in Attempts : rlPhase'[q] # "expiring"
    BY <1>1, <1>3, <1>4 DEF Asked, InProcess
  <2> QED
    BY <1>1, <1>4, <2>1, <2>2, <2>3 DEF Asked, InProcess
<1>8. ASSUME NEW a \in Int
      PROVE  /\ Since(a)' \in Nat /\ Since(a)' <= Since(a) + 1
             /\ rlPhase'[r] = "rejected" \/ rlNow < a => Since(a)' = Since(a)
  <2>1. PassedSince(a)' = IF rlPhase'[r] = "passed" /\ rlNow >= a THEN PassedSince(a) \cup {r}
                          ELSE PassedSince(a)
    BY <1>3, <1>4, <1>5, <1>6 DEF PassedSince, Current
  <2>2. PassedSince(a) \subseteq Attempts
    BY DEF PassedSince, Current
  <2>3. Since(a) \in Nat /\ Cardinality(PassedSince(a) \cup {r}) \in Nat
        /\ Cardinality(PassedSince(a) \cup {r}) <= Since(a) + 1
    BY <2>2, Sizes DEF Since
  <2> QED
    BY <1>4, <2>1, <2>3 DEF Since
<1>9. ASSUME NEW a \in Int, NEW b \in Int
      PROVE  /\ Within(a, b)' \in Nat /\ Within(a, b)' <= Within(a, b) + 1
             /\ rlPhase'[r] = "rejected" \/ rlNow \notin a .. b => Within(a, b)' = Within(a, b)
  <2>1. InEra(a, b)' = IF rlPhase'[r] = "passed"
        /\ rlNow \in a .. b THEN InEra(a, b) \cup {r}
                                    ELSE InEra(a, b)
    BY <1>3, <1>4, <1>5, <1>6 DEF InEra, Current
  <2>2. InEra(a, b) \subseteq Attempts
    BY DEF InEra, Current
  <2>3. Within(a, b) \in Nat /\ Cardinality(InEra(a, b) \cup {r}) \in Nat
        /\ Cardinality(InEra(a, b) \cup {r}) <= Within(a, b) + 1
    BY <2>2, Sizes DEF Within
  <2> QED
    BY <1>4, <2>1, <2>3 DEF Within
<1>10. \A q \in Current' : asked'[q] = rlNow \/ (q \in Current /\ asked'[q]
         = asked[q])
  BY <1>3, <1>4, <1>5, <1>6 DEF Current
<1>11. EarlierKept => EarlierKept'
  <2>1. \A g, a, b : g # evictions => OfEra(g, a, b)' = OfEra(g, a, b)
    BY <1>1, <1>3, <1>4 DEF OfEra
  <2>2. RateLimit!BurstLimit' = RateLimit!BurstLimit
    BY <1>1 DEF RateLimit!BurstLimit
  <2> QED
    BY <1>1, <2>1, <2>2 DEF EarlierKept
<1> QED
  BY <1>1, <1>4, <1>7, <1>8, <1>9, <1>10, <1>11

-------------------------------------------------------------------------------
LEMMA FixedChecks ==
    ASSUME RateLimit!RateAssumption, NEW t \in Nat, NEW e \in RateLimit!FixedWindowEntry,
           e.resetTime > t
    PROVE  RateLimit!CheckFixedWindow(e, t) =
               RateLimit!Decision(e.count + 1 <= MaxRequests, e.resetTime,
                                  [count |-> e.count + 1, resetTime |-> e.resetTime])
<1>1. e = [count |-> e.count, resetTime |-> e.resetTime] /\ ~(e.resetTime <= t)
  BY DEF RateLimit!FixedWindowEntry
<1>2. [e EXCEPT !.count = @ + 1] = [count |-> e.count + 1, resetTime |-> e.resetTime]
  BY <1>1
<1> QED
  BY <1>1, <1>2 DEF RateLimit!CheckFixedWindow

LEMMA SlidingChecks ==
    ASSUME RateLimit!RateAssumption, NEW t \in Nat, NEW e \in RateLimit!SlidingWindowEntry,
           e.prevCount = 0,
           e.windowStart <= t, t < e.windowStart + Window
    PROVE  RateLimit!CheckSlidingWindow(e, t) =
               RateLimit!Decision(e.count + 1 <= MaxRequests, e.windowStart + Window,
                                  [windowStart |-> e.windowStart, count |-> e.count + 1,
                                   prevCount |-> 0])
<1>1. e = [windowStart |-> e.windowStart, count |-> e.count, prevCount |-> 0]
      /\ e.windowStart \in Nat /\ e.count \in Nat
  BY DEF RateLimit!SlidingWindowEntry
<1>2. Window \in Nat \ {0}
  BY DEF RateLimit!RateAssumption
<1> DEFINE elapsed == (t - e.windowStart) \div Window
           into == RateLimit!Least(Window, RateLimit!Greatest(0, t - e.windowStart))
           consumed == ((e.prevCount * (Window - into) + e.count * Window) \div Window) + 1
<1>3. elapsed < 1
  BY <1>1, <1>2
<1>4. consumed = e.count + 1
  <2>1. into \in Int
    BY <1>1, <1>2 DEF RateLimit!Least, RateLimit!Greatest
  <2> HIDE DEF into
  <2>2. e.prevCount * (Window - into) + e.count * Window = e.count * Window
    <3>1. e.prevCount * (Window - into) = 0 /\ e.count * Window \in Int
      BY <1>1, <1>2, <2>1
    <3> QED
      BY <3>1
  <2>3. (e.count * Window) \div Window = e.count
    BY <1>1, <1>2, Divides
  <2> QED
    BY <2>2, <2>3
<1>5. RateLimit!CheckSlidingWindow(e, t) =
          RateLimit!Decision(consumed <= MaxRequests, e.windowStart + Window, [e EXCEPT !.count
              = @ + 1])
  BY <1>3 DEF RateLimit!CheckSlidingWindow
<1>6. [e EXCEPT !.count = @ + 1]
        = [windowStart |-> e.windowStart, count |-> e.count + 1, prevCount |-> 0]
  BY <1>1
<1> QED
  BY <1>4, <1>5, <1>6

\* A check with one of the window algorithms: it counts on, or a window begins.
LEMMA WindowChecks ==
    ASSUME RateLimit!RateAssumption, Asked, InProcess, ~Bucket, LimitKept, NEW r \in Attempts,
           RateLimit!CheckLocal(r)
    PROVE  LET fresh == rlEntry = None \/ rlEntry.expires <= rlNow
               start == IF fresh THEN rlNow ELSE Begun
               n == IF fresh THEN 1 ELSE rlEntry.state.count + 1
           IN  /\ rlEntry' # None /\ rlEntry'.expires = start + Window /\ rlEntry'.state.count = n
               /\ IF setup.algorithm = "fixed-window"
                  THEN rlEntry'.state \in RateLimit!FixedWindowEntry /\ rlEntry'.state.resetTime
                      = start + Window
                  ELSE /\ rlEntry'.state \in RateLimit!SlidingWindowEntry
                    /\ rlEntry'.state.prevCount = 0
                       /\ rlEntry'.state.windowStart = start
               /\ rlPhase'[r] = IF n <= MaxRequests THEN "passed" ELSE "rejected"
<1> DEFINE fresh == rlEntry = None \/ rlEntry.expires <= rlNow
           start == IF fresh THEN rlNow ELSE Begun
           n == IF fresh THEN 1 ELSE rlEntry.state.count + 1
           found == RateLimit!Lookup(rlEntry, rlNow)
           d == RateLimit!Decide(found, rlNow)
<1>1. /\ rlNow \in Nat /\ Window \in Nat \ {0} /\ MaxRequests \in Nat \ {0}
      /\ None \notin Nat /\ None \notin RateLimit!States
      /\ None \notin [state : RateLimit!States, expires : Nat \cup {None}]
      /\ setup.algorithm \in {"fixed-window", "sliding-window"}
  BY DEF RateLimit!RateAssumption, Asked, Bucket, RateLimit!Algorithms
<1>2. /\ rlEntry' = RateLimit!Stored(d.state, RateLimit!Life(d.reset, rlNow), rlNow)
      /\ rlPhase' = [rlPhase EXCEPT ![r] = IF d.allowed THEN "passed" ELSE "rejected"]
      /\ rlPhase[r] = "new"
  BY DEF RateLimit!CheckLocal, RateLimit!Settle, RateLimit!Ask, RateLimit!IsNext
<1>3. rlPhase'[r] = IF d.allowed THEN "passed" ELSE "rejected"
  BY <1>2 DEF Asked
<1>4. rlEntry # None => /\ rlEntry.expires = Begun + Window /\ Begun \in Int /\ Begun <= rlNow
                        /\ rlEntry.expires \in Nat
                        /\ IF setup.algorithm = "fixed-window"
                           THEN rlEntry.state \in RateLimit!FixedWindowEntry
                                /\ rlEntry.state.resetTime = Begun + Window
                           ELSE /\ rlEntry.state \in RateLimit!SlidingWindowEntry
                             /\ rlEntry.state.prevCount = 0
                                /\ rlEntry.state.windowStart = Begun
  BY <1>1 DEF LimitKept, WindowKept, Begun, RateLimit!FixedWindowEntry, RateLimit!SlidingWindowEntry
<1>5. found = IF fresh THEN None ELSE rlEntry.state
  BY <1>1, <1>4 DEF RateLimit!Lookup
<1>6. ~fresh => rlEntry.state # None
  BY <1>1, <1>4 DEF RateLimit!States
<1>7. ~fresh => rlNow < Begun + Window /\ rlEntry # None
  BY <1>1, <1>4
<1> HIDE DEF fresh, found
<1>8. d = RateLimit!Check(setup.algorithm,
                          IF fresh THEN RateLimit!Fresh(setup.algorithm, rlNow) ELSE rlEntry.state,
                          rlNow)
  BY <1>5, <1>6 DEF RateLimit!Decide
<1>9. start \in Int /\ start <= rlNow /\ rlNow < start + Window
  BY <1>1, <1>4, <1>7
<1>10. n \in Nat /\ start + Window \in Nat
  BY <1>1, <1>4, <1>7 DEF RateLimit!FixedWindowEntry, RateLimit!SlidingWindowEntry
<1>11. CASE setup.algorithm = "fixed-window"
  <2> DEFINE e == IF fresh THEN RateLimit!FreshFixedWindow(rlNow) ELSE rlEntry.state
  <2>1. e \in RateLimit!FixedWindowEntry /\ e.resetTime = start + Window /\ e.count + 1 = n
    <3>1. CASE fresh
      <4>1. e = [count |-> 0, resetTime |-> rlNow + Window]
        BY <3>1 DEF RateLimit!FreshFixedWindow
      <4> QED
        BY <1>1, <3>1, <4>1 DEF RateLimit!FixedWindowEntry
    <3>2. CASE ~fresh
      BY <1>4, <1>7, <1>11, <3>2
    <3> QED
      BY <3>1, <3>2
  <2>2. d = RateLimit!CheckFixedWindow(e, rlNow)
    BY <1>8, <1>11 DEF RateLimit!Check, RateLimit!Fresh
  <2> HIDE DEF e, d, n, start
  <2>3. d = RateLimit!Decision(n <= MaxRequests, start + Window,
                               [count |-> n, resetTime |-> start + Window])
    BY <1>1, <1>9, <2>1, <2>2, FixedChecks
  <2>4. /\ d.allowed = (n <= MaxRequests) /\ d.reset = start + Window
        /\ d.state = [count |-> n, resetTime |-> start + Window]
    BY <2>3 DEF RateLimit!Decision
  <2>5. d.state \in RateLimit!FixedWindowEntry /\ d.state.count = n /\ d.state.resetTime
          = start + Window
    BY <1>10, <2>4 DEF RateLimit!FixedWindowEntry
  <2>6. rlEntry' = [state |-> d.state, expires |-> start + Window]
    <3>1. RateLimit!Life(d.reset, rlNow) = start + Window - rlNow /\ start + Window - rlNow > 0
      BY <1>1, <1>9, <2>4 DEF RateLimit!Life, RateLimit!Greatest
    <3> QED
      BY <1>1, <1>2, <1>9, <3>1 DEF RateLimit!Stored
  <2>7. rlEntry' # None
    BY <1>1, <1>10, <2>5, <2>6 DEF RateLimit!States
  <2> QED
    BY <1>3, <1>11, <2>4, <2>5, <2>6, <2>7 DEF n, start, fresh
<1>12. CASE setup.algorithm = "sliding-window"
  <2> DEFINE e == IF fresh THEN RateLimit!FreshSlidingWindow(rlNow) ELSE rlEntry.state
  <2>1. /\ e \in RateLimit!SlidingWindowEntry /\ e.prevCount = 0
        /\ e.windowStart = start /\ e.count + 1 = n
    <3>1. CASE fresh
      <4>1. e = [windowStart |-> rlNow, count |-> 0, prevCount |-> 0]
        BY <3>1 DEF RateLimit!FreshSlidingWindow
      <4> QED
        BY <1>1, <3>1, <4>1 DEF RateLimit!SlidingWindowEntry
    <3>2. CASE ~fresh
      BY <1>4, <1>7, <1>12, <3>2
    <3> QED
      BY <3>1, <3>2
  <2>2. d = RateLimit!CheckSlidingWindow(e, rlNow)
    BY <1>8, <1>12 DEF RateLimit!Check, RateLimit!Fresh
  <2> HIDE DEF e, d, n, start
  <2>3. d = RateLimit!Decision(n <= MaxRequests, start + Window,
                               [windowStart |-> start, count |-> n, prevCount |-> 0])
    BY <1>1, <1>9, <2>1, <2>2, SlidingChecks
  <2>4. /\ d.allowed = (n <= MaxRequests) /\ d.reset = start + Window
        /\ d.state = [windowStart |-> start, count |-> n, prevCount |-> 0]
    BY <2>3 DEF RateLimit!Decision
  <2>5. start \in Nat
    BY <2>1 DEF RateLimit!SlidingWindowEntry
  <2>6. /\ d.state \in RateLimit!SlidingWindowEntry /\ d.state.count = n
        /\ d.state.windowStart = start /\ d.state.prevCount = 0
    BY <1>10, <2>4, <2>5 DEF RateLimit!SlidingWindowEntry
  <2>7. rlEntry' = [state |-> d.state, expires |-> start + Window]
    <3>1. RateLimit!Life(d.reset, rlNow) = start + Window - rlNow /\ start + Window - rlNow > 0
      BY <1>1, <1>9, <2>4 DEF RateLimit!Life, RateLimit!Greatest
    <3> QED
      BY <1>1, <1>2, <1>9, <3>1 DEF RateLimit!Stored
  <2>8. rlEntry' # None
    BY <1>1, <1>10, <2>6, <2>7 DEF RateLimit!States
  <2> QED
    BY <1>3, <1>12, <2>4, <2>6, <2>7, <2>8 DEF n, start, fresh
<1> QED
  BY <1>1, <1>11, <1>12

\* The stretch of one window that a time falls in begins within the last window.
LEMMA WindowKeeps ==
    ASSUME RateLimit!RateAssumption, Asked, InProcess, ~Bucket, LimitKept, NEW r \in Attempts,
           RateLimit!CheckLocal(r)
    PROVE  BurstKept' /\ rlEntry' # None /\ rlEntry'.expires \in Nat /\ WindowKept'
<1> DEFINE Typed(e, s) ==
               IF setup.algorithm = "fixed-window"
               THEN e \in RateLimit!FixedWindowEntry /\ e.resetTime = s + Window
               ELSE e \in RateLimit!SlidingWindowEntry /\ e.prevCount = 0 /\ e.windowStart = s
<1>1. /\ rlNow \in Nat /\ Window \in Nat \ {0} /\ MaxRequests \in Nat \ {0}
      /\ setup.algorithm \in {"fixed-window", "sliding-window"}
      /\ \A q \in Current : asked[q] \in Int
  BY DEF RateLimit!RateAssumption, Asked, Current, Bucket, RateLimit!Algorithms
<1>2. PICK s \in Int, n \in Int :
          /\ rlEntry' # None /\ rlEntry'.expires = s + Window /\ rlEntry'.state.count = n
          /\ Typed(rlEntry'.state, s)
          /\ rlPhase'[r] = IF n <= MaxRequests THEN "passed" ELSE "rejected"
          /\ s <= rlNow /\ rlNow < s + Window
          /\ Since(s) < n /\ Since(s) <= MaxRequests
          /\ Within(s - Window, s - 1) <= MaxRequests
          /\ \A q \in Current : asked[q] < s + Window
  <2>1. CASE rlEntry = None
    <3>1. Current = {}
      BY <2>1 DEF LimitKept
    <3>2. PassedSince(rlNow) = {} /\ InEra(rlNow - Window, rlNow - 1) = {}
      BY <3>1 DEF PassedSince, InEra
    <3>3. Since(rlNow) = 0 /\ Within(rlNow - Window, rlNow - 1) = 0
      BY <3>2, FS_EmptySet DEF Since, Within
    <3> rlNow \in Int
      BY <1>1
    <3> WITNESS rlNow \in Int, 1 \in Int
    <3> QED
      BY <1>1, <2>1, <3>1, <3>3, WindowChecks
  <2>2. CASE rlEntry # None /\ rlEntry.expires <= rlNow
    <3>1. WindowKept
      BY <2>2 DEF LimitKept
    <3>2. /\ Begun \in Int /\ Begun + Window <= rlNow /\ Since(Begun) <= MaxRequests
          /\ \A q \in Current : asked[q] < rlNow
      BY <1>1, <2>2, <3>1 DEF WindowKept
    <3>3. PassedSince(rlNow) = {}
      BY <1>1, <3>2 DEF PassedSince
    <3>4. Since(rlNow) = 0
      BY <3>3, FS_EmptySet DEF Since
    <3>5. Within(rlNow - Window, rlNow - 1) <= MaxRequests
      <4> PICK b \in Int : b = Begun
        BY <3>2
      <4> PICK a \in Int : a = rlNow - Window
        BY <1>1
      <4> PICK c \in Int : c = rlNow - 1
        BY <1>1
      <4>1. Within(a, c) <= Since(b) /\ Within(a, c) \in Nat /\ Since(b) \in Nat
        <5>1. b <= a
          BY <1>1, <3>2
        <5> QED
          BY <5>1, Counts
      <4> QED
        BY <1>1, <3>2, <4>1
    <3> rlNow \in Int
      BY <1>1
    <3> WITNESS rlNow \in Int, 1 \in Int
    <3> QED
      BY <1>1, <2>2, <3>2, <3>4, <3>5, WindowChecks
  <2>3. CASE rlEntry # None /\ ~(rlEntry.expires <= rlNow)
    <3>1. WindowKept
      BY <2>3 DEF LimitKept
    <3>2. /\ Begun \in Int /\ Begun <= rlNow /\ rlNow < Begun + Window
          /\ rlEntry.state.count \in Nat /\ rlEntry.state.count + 1 \in Int
      BY <1>1, <2>3, <3>1 DEF WindowKept, RateLimit!FixedWindowEntry, RateLimit!SlidingWindowEntry
    <3>3. Since(Begun) \in Nat
      BY <3>2, Counts
    <3> Begun \in Int /\ rlEntry.state.count + 1 \in Int
      BY <3>2
    <3> WITNESS Begun \in Int, (rlEntry.state.count + 1) \in Int
    <3>4. Since(Begun) < rlEntry.state.count + 1
      BY <3>1, <3>2, <3>3 DEF WindowKept
    <3>5. /\ Since(Begun) <= MaxRequests /\ Within(Begun - Window, Begun - 1) <= MaxRequests
          /\ \A q \in Current : asked[q] < Begun + Window
      BY <3>1 DEF WindowKept
    <3> QED
      BY <1>1, <2>3, <3>2, <3>4, <3>5, WindowChecks
  <2> QED
    BY <2>1, <2>2, <2>3
<1> HIDE DEF Typed
<1>3. /\ setup' = setup /\ rlNow' = rlNow /\ rlPhase'[r] \in {"passed", "rejected"}
      /\ \A a \in Int : /\ Since(a)' \in Nat /\ Since(a)' <= Since(a) + 1
                        /\ rlPhase'[r] = "rejected" => Since(a)' = Since(a)
      /\ \A a, b \in Int : /\ Within(a, b)' \in Nat /\ Within(a, b)' <= Within(a, b) + 1
                           /\ rlPhase'[r] = "rejected" \/ rlNow \notin a .. b
                                 => Within(a, b)' = Within(a, b)
      /\ \A q \in Current' : asked'[q] = rlNow \/ (q \in Current /\ asked'[q]
           = asked[q])
  BY CheckCounts
<1>4. Since(s) \in Nat /\ Since(s)' \in Nat /\ Since(s)' <= n /\ Since(s)' <= MaxRequests
  <2>1. Since(s) \in Nat
    BY Counts
  <2>4. /\ Since(s)' \in Nat /\ Since(s)' <= Since(s) + 1
        /\ rlPhase'[r] = "rejected" => Since(s)' = Since(s)
    BY <1>3
  <2> HIDE DEF Since
  <2>5. Since(s) < n /\ Since(s) <= MaxRequests
    BY <1>2
  <2>2. CASE rlPhase'[r] = "rejected"
    BY <1>1, <2>1, <2>2, <2>4, <2>5
  <2>3. CASE rlPhase'[r] = "passed" /\ n <= MaxRequests
    BY <1>1, <2>1, <2>3, <2>4, <2>5
  <2> QED
    BY <1>2, <2>2, <2>3
<1>5. Within(s - Window, s - 1)' <= MaxRequests
  <2>1. rlNow \notin s - Window .. s - 1
    BY <1>1, <1>2
  <2> QED
    BY <1>1, <1>2, <1>3, <2>1
<1>6. Begun' = s
  <2>1. s = (s + Window) - Window
    BY <1>1
  <2>2. CASE setup.algorithm = "fixed-window"
    BY <1>2, <1>3, <2>1, <2>2 DEF Begun, Typed
  <2>3. CASE setup.algorithm = "sliding-window"
    BY <1>2, <1>3, <2>3 DEF Begun, Typed
  <2> QED
    BY <1>1, <2>2, <2>3
<1>7. WindowKept'
  <2>1. \A q \in Current' : asked'[q] < s + Window
    BY <1>2, <1>3
  <2>2. s + Window \in Int
    BY <1>1
  <2>3. /\ Since(Begun)' <= rlEntry'.state.count /\ Since(Begun)' <= MaxRequests
        /\ Within(Begun - Window, Begun - 1)' <= MaxRequests
    BY <1>2, <1>4, <1>5, <1>6 DEF Since, Within, PassedSince, InEra
  <2> QED
    BY <1>2, <1>3, <1>6, <2>1, <2>3 DEF WindowKept, Typed
<1>8. ASSUME NEW t \in Int PROVE (Within(t, t + Window - 1) <= RateLimit!BurstLimit)'
  <2> DEFINE z == t + Window - 1
  <2> SUFFICES (Within(t, z) <= RateLimit!BurstLimit)'
    OBVIOUS
  <2>1. z \in Int /\ RateLimit!BurstLimit = 2 * MaxRequests /\ RateLimit!BurstLimit'
          = RateLimit!BurstLimit
    <3>1. z \in Int
      BY <1>1
    <3>2. RateLimit!BurstLimit = 2 * MaxRequests /\ RateLimit!BurstLimit' = 2 * MaxRequests
      BY <1>1, <1>3 DEF RateLimit!BurstLimit
    <3> QED
      BY <3>1, <3>2
  <2> HIDE DEF z
  <2>2. Within(t, z) \in Nat /\ Within(t, z) <= RateLimit!BurstLimit
    <3>1. Within(t, z) <= RateLimit!BurstLimit
      BY DEF z, LimitKept, BurstKept
    <3> QED
      BY <2>1, <3>1, Counts
  <2>3. CASE rlPhase'[r] = "rejected" \/ rlNow \notin t .. z
    <3>1. Within(t, z)' = Within(t, z)
      BY <1>3, <2>1, <2>3
    <3> QED
      BY <2>1, <2>2, <3>1
  <2>4. CASE rlPhase'[r] = "passed" /\ rlNow \in t .. z /\ t >= s
    <3>1. Within(t, z) <= Since(s)
      BY <1>1, <2>1, <2>4, Counts
    <3>2. Within(t, z)' <= Within(t, z) + 1 /\ Within(t, z)' \in Nat /\ n <= MaxRequests
      BY <1>2, <1>3, <2>1, <2>4
    <3>3. Within(t, z)' <= RateLimit!BurstLimit
      BY <1>1, <1>2, <1>4, <2>1, <2>2, <3>1, <3>2
    <3> QED
      BY <2>1, <3>3
  <2>5. CASE rlPhase'[r] = "passed" /\ rlNow \in t .. z /\ t < s
    <3>1. Within(t, z) <= Within(t, s - 1) + Within(s, z)
      BY <1>1, <2>1, Counts
    <3>2. Within(t, s - 1) <= Within(s - Window, s - 1) /\ Within(t, s - 1) \in Nat
          /\ Within(s - Window, s - 1) \in Nat
      <4>1. s - Window <= t /\ s - Window \in Int /\ s - 1 \in Int
        BY <1>1, <1>2, <2>5 DEF z
      <4> QED
        BY <4>1, Counts
    <3>3. Within(s, z) <= Since(s) /\ Within(s, z) \in Nat
      <4>1. s <= s
        OBVIOUS
      <4> QED
        BY <2>1, <4>1, Counts
    <3>4. Within(t, z)' <= Within(t, z) + 1 /\ Within(t, z)' \in Nat /\ n <= MaxRequests
      BY <1>2, <1>3, <2>1, <2>5
    <3>5. Within(t, z)' <= RateLimit!BurstLimit
      BY <1>1, <1>2, <1>4, <2>1, <2>2, <3>1, <3>2, <3>3, <3>4
    <3> QED
      BY <2>1, <3>5
  <2> QED
    BY <1>1, <1>2, <1>3, <2>1, <2>3, <2>4, <2>5
<1>9. rlEntry'.expires \in Nat
  BY <1>1, <1>2
<1> QED
  BY <1>2, <1>7, <1>8, <1>9 DEF BurstKept
-------------------------------------------------------------------------------
LEMMA Flows ==
    ASSUME RateLimit!RateAssumption, NEW a \in Int, NEW b \in Int, NEW c \in Int, a <= b, b <= c
    PROVE  /\ Flown(a, b) \in Nat /\ Flown(a, c) \in Nat /\ (c - b) * MaxRequests \in Nat
           /\ Flown(a, c) = Flown(a, b) + 2 * ((c - b) * MaxRequests)
<1>1. MaxRequests \in Nat /\ b - a \in Nat /\ c - b \in Nat /\ c - a \in Nat
  BY DEF RateLimit!RateAssumption
<1>2. (c - a) * MaxRequests = (b - a) * MaxRequests + (c - b) * MaxRequests
  BY <1>1
<1>3. /\ (b - a) * MaxRequests \in Nat /\ (c - b) * MaxRequests \in Nat
      /\ (c - a) * MaxRequests \in Nat
  BY <1>1
<1> QED
  BY <1>2, <1>3 DEF Flown

LEMMA Capacities ==
    ASSUME RateLimit!RateAssumption
    PROVE  /\ RateLimit!Capacity \in Nat /\ Window <= RateLimit!Capacity /\ Window \in Nat \ {0}
           /\ MaxRequests \in Nat \ {0}
           /\ MaxRequests = 1 => RateLimit!Capacity = Window
           /\ MaxRequests >= 2 => RateLimit!Capacity >= 2 * Window
<1>1. Window \in Nat \ {0} /\ MaxRequests \in Nat \ {0}
  BY DEF RateLimit!RateAssumption
<1>2. RateLimit!Capacity = MaxRequests * Window /\ RateLimit!Capacity \in Nat
  BY <1>1 DEF RateLimit!Capacity
<1>3. 1 * Window <= MaxRequests * Window
  BY <1>1
<1>4. MaxRequests >= 2 => 2 * Window <= MaxRequests * Window
  BY <1>1
<1>5. MaxRequests = 1 => MaxRequests * Window = Window
  BY <1>1
<1> QED
  BY <1>1, <1>2, <1>3, <1>4, <1>5

\* A check with the token bucket, in what is missing from the bucket.
LEMMA BucketChecks ==
    ASSUME RateLimit!RateAssumption, Asked, InProcess, Bucket, LimitKept, NEW r \in Attempts,
           RateLimit!CheckLocal(r)
    PROVE  LET fresh == rlEntry = None \/ (rlEntry.expires # None /\ rlEntry.expires <= rlNow)
               last == IF fresh THEN rlNow ELSE rlEntry.state.lastRefill
               owed == IF fresh THEN 0 ELSE Missing
               left == RateLimit!Greatest(0, owed - (rlNow - last) * MaxRequests)
               end == last + RateLimit!CeilDiv(owed, MaxRequests)
               allowed == RateLimit!Capacity - left >= Window
           IN  /\ rlEntry' # None /\ rlEntry'.state \in RateLimit!TokenBucketEntry
               /\ rlEntry'.state.lastRefill = rlNow
               /\ rlEntry'.expires = IF end > rlNow THEN end ELSE None
               /\ Missing' = IF allowed THEN left + Window ELSE left
               /\ rlPhase'[r] = IF allowed THEN "passed" ELSE "rejected"
<1> DEFINE fresh == rlEntry = None \/ (rlEntry.expires # None /\ rlEntry.expires <= rlNow)
           last == IF fresh THEN rlNow ELSE rlEntry.state.lastRefill
           owed == IF fresh THEN 0 ELSE Missing
           left == RateLimit!Greatest(0, owed - (rlNow - last) * MaxRequests)
           end == last + RateLimit!CeilDiv(owed, MaxRequests)
           allowed == RateLimit!Capacity - left >= Window
           found == RateLimit!Lookup(rlEntry, rlNow)
           d == RateLimit!Decide(found, rlNow)
           e == IF fresh THEN RateLimit!FreshTokenBucket(rlNow) ELSE rlEntry.state
<1>1. /\ rlNow \in Nat /\ None \notin Nat /\ None \notin RateLimit!States
      /\ None \notin [state : RateLimit!States, expires : Nat \cup {None}]
      /\ setup.algorithm = "token-bucket"
  BY DEF RateLimit!RateAssumption, Asked, Bucket
<1>2. /\ RateLimit!Capacity \in Nat /\ Window <= RateLimit!Capacity /\ Window \in Nat \ {0}
      /\ MaxRequests \in Nat \ {0}
  BY Capacities
<1>3. /\ rlEntry' = RateLimit!Stored(d.state, RateLimit!Life(d.reset, rlNow), rlNow)
      /\ rlPhase' = [rlPhase EXCEPT ![r] = IF d.allowed THEN "passed" ELSE "rejected"]
  BY DEF RateLimit!CheckLocal, RateLimit!Settle
<1>4. rlPhase'[r] = IF d.allowed THEN "passed" ELSE "rejected"
  BY <1>3 DEF Asked
<1>5. rlEntry # None => /\ rlEntry.state \in RateLimit!TokenBucketEntry
      /\ rlEntry.state.lastRefill <= rlNow
                        /\ Missing \in Nat
  BY <1>1 DEF LimitKept, BucketKept, Bucket
<1>6. ~fresh => rlEntry # None /\ rlEntry.state # None
  BY <1>1, <1>5 DEF RateLimit!States
<1>7. found = IF fresh THEN None ELSE rlEntry.state
  BY DEF RateLimit!Lookup
<1> HIDE DEF fresh, found
<1>8. d = RateLimit!CheckTokenBucket(e, rlNow)
  BY <1>1, <1>6, <1>7 DEF RateLimit!Decide, RateLimit!Check, RateLimit!Fresh
<1>9. /\ e.tokens = RateLimit!Capacity - owed /\ e.lastRefill = last /\ owed \in Nat
      /\ last \in Nat /\ last <= rlNow /\ e.tokens \in Nat
  <2>1. CASE fresh
    BY <1>1, <1>2, <2>1 DEF RateLimit!FreshTokenBucket
  <2>2. CASE ~fresh
    <3>1. rlEntry.state.tokens \in Nat /\ rlEntry.state.lastRefill \in Nat
      BY <1>5, <1>6, <2>2 DEF RateLimit!TokenBucketEntry
    <3>2. Missing = RateLimit!Capacity - rlEntry.state.tokens
      BY DEF Missing
    <3> QED
      BY <1>2, <1>5, <1>6, <2>2, <3>1, <3>2
  <2> QED
    BY <2>1, <2>2
<1> HIDE DEF last, owed, e, d
<1>10. (rlNow - last) * MaxRequests \in Nat
  BY <1>1, <1>2, <1>9
<1>11. left \in Nat /\ left <= owed
  BY <1>9, <1>10 DEF RateLimit!Greatest
<1>12. RateLimit!Capacity - left =
           RateLimit!Least(RateLimit!Capacity, e.tokens + RateLimit!Greatest(0,
           rlNow - e.lastRefill) * MaxRequests)
  <2>1. RateLimit!Greatest(0, rlNow - e.lastRefill) = rlNow - last
    BY <1>1, <1>9 DEF RateLimit!Greatest
  <2> QED
    BY <1>2, <1>9, <1>10, <2>1 DEF RateLimit!Least, RateLimit!Greatest
<1>13. RateLimit!CeilDiv(RateLimit!Capacity - e.tokens, MaxRequests)
         = RateLimit!CeilDiv(owed, MaxRequests)
  <2>1. RateLimit!Capacity - e.tokens = owed
    BY <1>2, <1>9
  <2> QED
    BY <2>1
<1> HIDE DEF left
<1>14. end \in Nat
  BY <1>2, <1>9, Ceiling
<1>15. d = RateLimit!Decision(allowed, RateLimit!Greatest(rlNow, end),
                              [tokens |-> IF allowed THEN RateLimit!Capacity - left - Window
                                          ELSE RateLimit!Capacity - left,
                               lastRefill |-> rlNow])
  BY <1>8, <1>9, <1>12, <1>13 DEF RateLimit!CheckTokenBucket
<1> HIDE DEF end
<1>16. /\ d.allowed = allowed /\ d.reset = RateLimit!Greatest(rlNow, end)
       /\ d.state = [tokens |-> IF allowed THEN RateLimit!Capacity - left - Window
                                ELSE RateLimit!Capacity - left,
                     lastRefill |-> rlNow]
  BY <1>15 DEF RateLimit!Decision
<1>17. /\ d.state \in RateLimit!TokenBucketEntry /\ d.state.lastRefill = rlNow
       /\ RateLimit!Capacity - d.state.tokens = IF allowed THEN left + Window ELSE left
  <2>1. left <= RateLimit!Capacity
    BY <1>2, <1>9, <1>11
  <2>2. CASE allowed
    <3>1. d.state = [tokens |-> RateLimit!Capacity - left - Window, lastRefill |-> rlNow]
      BY <1>16, <2>2
    <3>2. RateLimit!Capacity - left - Window \in Nat
          /\ RateLimit!Capacity - (RateLimit!Capacity - left - Window) = left + Window
      BY <1>2, <1>11, <2>2
    <3> QED
      BY <1>1, <2>2, <3>1, <3>2 DEF RateLimit!TokenBucketEntry
  <2>3. CASE ~allowed
    <3>1. d.state = [tokens |-> RateLimit!Capacity - left, lastRefill |-> rlNow]
      BY <1>16, <2>3
    <3>2. RateLimit!Capacity - left \in Nat /\ RateLimit!Capacity - (RateLimit!Capacity - left)
            = left
      BY <1>2, <1>11, <2>1
    <3> QED
      BY <1>1, <2>3, <3>1, <3>2 DEF RateLimit!TokenBucketEntry
  <2> QED
    BY <2>2, <2>3
<1>18. rlEntry' = [state |-> d.state, expires |-> IF end > rlNow THEN end ELSE None]
  <2>1. CASE end > rlNow
    <3>1. RateLimit!Life(d.reset, rlNow) = end - rlNow /\ end - rlNow > 0
          /\ rlNow + (end - rlNow) = end
      BY <1>1, <1>14, <1>16, <2>1 DEF RateLimit!Life, RateLimit!Greatest
    <3> QED
      BY <1>3, <2>1, <3>1 DEF RateLimit!Stored
  <2>2. CASE ~(end > rlNow)
    <3>1. RateLimit!Life(d.reset, rlNow) = 0
      BY <1>1, <1>14, <1>16, <2>2 DEF RateLimit!Life, RateLimit!Greatest
    <3> QED
      BY <1>3, <2>2, <3>1 DEF RateLimit!Stored
  <2> QED
    BY <2>1, <2>2
<1>19. rlEntry' # None
  <2>1. d.state \in RateLimit!States
    BY <1>17 DEF RateLimit!States
  <2>2. rlEntry' \in [state : RateLimit!States, expires : Nat \cup {None}]
    BY <1>14, <1>18, <2>1
  <2> QED
    BY <1>1, <2>2
<1>20. Missing' = RateLimit!Capacity - rlEntry'.state.tokens
  BY DEF Missing
<1> QED
  BY <1>4, <1>16, <1>17, <1>18, <1>19, <1>20 DEF left, end, owed, last, fresh

\* What has passed before a check is paid for: by what is missing from the bucket now,
\* and, while its entry can be forgotten, by what will have flowed in until then, with
\* room for the request that the check lets pass.
LEMMA BucketPays ==
    ASSUME RateLimit!RateAssumption, Asked, InProcess, Bucket, LimitKept, NEW r \in Attempts,
           RateLimit!CheckLocal(r)
    PROVE  \E left, end \in Nat :
               LET allowed == RateLimit!Capacity - left >= Window
               IN  /\ rlEntry' # None /\ rlEntry'.state \in RateLimit!TokenBucketEntry
                   /\ rlEntry'.state.lastRefill = rlNow
                   /\ rlEntry'.expires = IF end > rlNow THEN end ELSE None
                   /\ Missing' = IF allowed THEN left + Window ELSE left
                   /\ rlPhase'[r] = IF allowed THEN "passed" ELSE "rejected"
                   /\ \A t \in Int : t <= rlNow =>
                          Since(t) * Window <= Window + Flown(t, rlNow) + left
                   /\ end > rlNow => \A t \in Int : t <= rlNow =>
                          Since(t) * Window + (IF allowed THEN Window ELSE 0)
                              <= Window + Flown(t, end)
<1>1. /\ rlNow \in Nat /\ RateLimit!Capacity \in Nat /\ Window \in Nat \ {0}
           /\ MaxRequests \in Nat \ {0}
      /\ None \notin Nat
      /\ MaxRequests = 1 => RateLimit!Capacity = Window
  BY Capacities DEF Asked, RateLimit!RateAssumption
<1>2. \A t \in Int : Since(t) \in Nat /\ Since(t) * Window \in Nat
  <2>1. \A t \in Int : Since(t) \in Nat
    BY Counts
  <2> QED
    BY <1>1, <2>1
<1>3. \A t \in Int : t <= rlNow => Flown(t, rlNow) \in Nat
  BY <1>1, Flows
<1>4. CASE rlEntry = None \/ (rlEntry.expires # None /\ rlEntry.expires <= rlNow)
  <2>1. RateLimit!CeilDiv(0, MaxRequests) = 0
    <3>1. RateLimit!CeilDiv(0, MaxRequests) \in Nat
          /\ RateLimit!CeilDiv(0, MaxRequests) * MaxRequests < MaxRequests
      BY <1>1, Ceiling
    <3>2. 1 <= RateLimit!CeilDiv(0, MaxRequests)
            => 1 * MaxRequests <= RateLimit!CeilDiv(0, MaxRequests) * MaxRequests
      BY <1>1, <3>1, Grows
    <3> QED
      BY <1>1, <3>1, <3>2
  <2>2. (rlNow - rlNow) * MaxRequests = 0
    BY <1>1
  <2>3. RateLimit!Greatest(0, 0 - (rlNow - rlNow) * MaxRequests) = 0
    BY <2>2 DEF RateLimit!Greatest
  <2>4. \A t \in Int : t <= rlNow => Since(t) * Window <= Window + Flown(t, rlNow) + 0
    <3> SUFFICES ASSUME NEW t \in Int, t <= rlNow
                 PROVE  Since(t) * Window <= Window + Flown(t, rlNow) + 0
      OBVIOUS
    <3>1. CASE PassedSince(t) = {}
      <4>1. Since(t) = 0
        BY <3>1, FS_EmptySet DEF Since
      <4>2. Since(t) * Window = 0
        BY <1>1, <4>1
      <4> QED
        BY <1>1, <1>3, <4>2
    <3>2. CASE PassedSince(t) # {}
      <4>1. Current # {} /\ rlEntry # None /\ rlEntry.expires # None
            /\ rlEntry.expires <= rlNow
        BY <1>4, <3>2 DEF PassedSince, LimitKept
      <4>2. BucketKept /\ rlEntry.expires \in Nat
        BY <4>1 DEF LimitKept
      <4>3. t <= rlEntry.state.lastRefill
        BY <1>1, <3>2, <4>2 DEF BucketKept, PassedSince, RateLimit!TokenBucketEntry
      <4>4. Since(t) * Window <= Window + Flown(t, rlEntry.expires)
        BY <4>1, <4>2, <4>3 DEF BucketKept
      <4>5. Flown(t, rlEntry.expires) <= Flown(t, rlNow) /\ Flown(t, rlEntry.expires) \in Int
        <5>1. rlEntry.expires - t \in Int /\ rlNow - t \in Int /\ rlEntry.expires - t <= rlNow - t
          BY <1>1, <4>1, <4>2
        <5>2. /\ (rlEntry.expires - t) * MaxRequests <= (rlNow - t) * MaxRequests
              /\ (rlEntry.expires - t) * MaxRequests \in Int /\ (rlNow - t) * MaxRequests \in Int
          BY <1>1, <5>1, Grows
        <5> QED
          BY <5>2 DEF Flown
      <4> QED
        BY <1>1, <1>2, <1>3, <4>4, <4>5
    <3> QED
      BY <3>1, <3>2
  <2> rlNow \in Nat
    BY <1>1
  <2>6. rlNow + 0 = rlNow /\ ~(rlNow > rlNow)
    BY <1>1
  <2> WITNESS 0 \in Nat, rlNow \in Nat
  <2> QED
    BY <1>4, <2>1, <2>3, <2>4, <2>6, BucketChecks
<1>5. CASE ~(rlEntry = None \/ (rlEntry.expires # None /\ rlEntry.expires <= rlNow))
  <2>1. BucketKept
    BY <1>5 DEF LimitKept
  <2>2. /\ rlEntry.state.lastRefill \in Nat /\ rlEntry.state.lastRefill <= rlNow /\ Missing \in Nat
        /\ (MaxRequests >= 2 => Missing >= Window)
    BY <2>1 DEF BucketKept, RateLimit!TokenBucketEntry
  <2> PICK last \in Nat : last = rlEntry.state.lastRefill
    BY <2>2
  <2> PICK owed \in Nat : owed = Missing
    BY <2>2
  <2> DEFINE left == RateLimit!Greatest(0, owed - (rlNow - last) * MaxRequests)
             end == last + RateLimit!CeilDiv(owed, MaxRequests)
             allowed == RateLimit!Capacity - left >= Window
             spent == (rlNow - last) * MaxRequests
             due == (end - last) * MaxRequests
  <2>3. /\ rlEntry' # None /\ rlEntry'.state \in RateLimit!TokenBucketEntry
        /\ rlEntry'.state.lastRefill = rlNow
        /\ rlEntry'.expires = IF end > rlNow THEN end ELSE None
        /\ Missing' = IF allowed THEN left + Window ELSE left
        /\ rlPhase'[r] = IF allowed THEN "passed" ELSE "rejected"
    BY <1>5, BucketChecks
  <2>4. spent \in Nat /\ left \in Nat /\ owed <= left + spent /\ (left = 0 \/ left + spent = owed)
    <3>1. spent \in Nat
      BY <1>1, <2>2
    <3> QED
      BY <3>1 DEF RateLimit!Greatest
  <2>5. /\ RateLimit!CeilDiv(owed, MaxRequests) \in Nat /\ end \in Nat
        /\ due = RateLimit!CeilDiv(owed, MaxRequests) * MaxRequests
        /\ owed <= due /\ due < owed + MaxRequests /\ due \in Nat
    <3>1. /\ RateLimit!CeilDiv(owed, MaxRequests) \in Nat
          /\ owed <= RateLimit!CeilDiv(owed, MaxRequests) * MaxRequests
          /\ RateLimit!CeilDiv(owed, MaxRequests) * MaxRequests < owed + MaxRequests
      BY <1>1, Ceiling
    <3>2. end - last = RateLimit!CeilDiv(owed, MaxRequests) /\ end \in Nat
      BY <3>1
    <3>3. RateLimit!CeilDiv(owed, MaxRequests) * MaxRequests \in Nat
      BY <1>1, <3>1
    <3> QED
      BY <3>1, <3>2, <3>3
  <2>6. ASSUME NEW t \in Int, t > last PROVE Since(t) = 0 /\ Since(t) * Window = 0
    <3>1. PassedSince(t) = {}
      BY <2>1, <2>6 DEF BucketKept, PassedSince
    <3>2. Since(t) = 0
      BY <3>1, FS_EmptySet DEF Since
    <3> QED
      BY <1>1, <3>2
  <2>7. \A t \in Int : t <= last => Since(t) * Window <= Window + Flown(t, last) + owed
    BY <2>1 DEF BucketKept
  <2>8. ASSUME NEW t \in Int, t <= rlNow
        PROVE  Since(t) * Window <= Window + Flown(t, rlNow) + left
    <3>1. CASE t <= last
      <4>1. Flown(t, rlNow) = Flown(t, last) + 2 * spent /\ Flown(t, last) \in Nat
        <5>1. last \in Int /\ rlNow \in Int /\ last <= rlNow
          BY <1>1, <2>2
        <5> QED
          BY <3>1, <5>1, Flows
      <4>2. Since(t) * Window <= Window + Flown(t, last) + owed /\ Since(t) * Window \in Nat
        BY <1>2, <2>7, <3>1
      <4> HIDE DEF spent, left
      <4> QED
        BY <1>1, <2>4, <4>1, <4>2
    <3>2. CASE ~(t <= last)
      <4>1. Since(t) * Window = 0
        BY <2>6, <3>2
      <4> HIDE DEF spent, left
      <4> QED
        BY <1>1, <1>3, <2>4, <2>8, <4>1
    <3> QED
      BY <3>1, <3>2
  <2>9. ASSUME end > rlNow, allowed PROVE Window <= due
    <3>1. CASE MaxRequests = 1
      <4>1. left = 0
        <5> HIDE DEF left, spent
        <5> QED
          BY <1>1, <2>4, <2>9, <3>1
      <4>2. owed <= rlNow - last
        <5>1. spent = rlNow - last
          BY <1>1, <3>1
        <5> HIDE DEF left, spent
        <5> QED
          BY <2>4, <4>1, <5>1
      <4>3. due = end - last
        BY <1>1, <2>5, <3>1
      <4> HIDE DEF end, due
      <4> QED
        BY <1>1, <2>5, <2>9, <3>1, <4>2, <4>3
    <3>2. CASE MaxRequests >= 2
      <4> HIDE DEF due
      <4> QED
        BY <1>1, <2>2, <2>5, <3>2
    <3> QED
      BY <1>1, <3>1, <3>2
  <2>10. ASSUME end > rlNow, NEW t \in Int, t <= rlNow
         PROVE  Since(t) * Window + (IF allowed THEN Window ELSE 0) <= Window + Flown(t, end)
    <3>1. CASE t <= last
      <4>1. last <= end
        <5> HIDE DEF end
        <5> QED
          BY <1>1, <2>2, <2>5, <2>10
      <4>2. Flown(t, end) = Flown(t, last) + 2 * due /\ Flown(t, last) \in Nat
        <5>1. end \in Int /\ last \in Int
          BY <2>5
        <5> HIDE DEF end
        <5> QED
          BY <3>1, <4>1, <5>1, Flows
      <4>3. Since(t) * Window <= Window + Flown(t, last) + owed /\ Since(t) * Window \in Nat
        BY <1>2, <2>7, <3>1
      <4>4. allowed => Window <= due
        BY <2>9, <2>10
      <4> HIDE DEF due, allowed, end
      <4> QED
        BY <1>1, <2>5, <4>2, <4>3, <4>4
    <3>2. CASE ~(t <= last)
      <4>1. Since(t) * Window = 0
        BY <2>6, <3>2
      <4>2. Flown(t, end) \in Nat
        <5>1. end \in Int
          BY <2>5
        <5> HIDE DEF end
        <5>2. t <= rlNow /\ rlNow <= end /\ rlNow \in Int
          BY <1>1, <2>10, <5>1
        <5> QED
          BY <5>1, <5>2, Flows
      <4> HIDE DEF allowed, end
      <4> QED
        BY <1>1, <4>1, <4>2
    <3> QED
      BY <3>1, <3>2
  <2> left \in Nat /\ end \in Nat
    BY <2>4, <2>5
  <2> HIDE DEF left, end, spent, due
  <2> WITNESS left \in Nat, end \in Nat
  <2> QED
    BY <2>3, <2>8, <2>10
<1> QED
  BY <1>4, <1>5

\* A check with the token bucket keeps all of it.
LEMMA BucketKeeps ==
    ASSUME RateLimit!RateAssumption, Asked, InProcess, Bucket, LimitKept, NEW r \in Attempts,
           RateLimit!CheckLocal(r)
    PROVE  /\ BurstKept' /\ rlEntry' # None /\ rlEntry'.expires \in Nat \cup {None}
           /\ BucketKept'
<1> PICK left \in Nat, end \in Nat :
        LET allowed == RateLimit!Capacity - left >= Window
        IN  /\ rlEntry' # None /\ rlEntry'.state \in RateLimit!TokenBucketEntry
            /\ rlEntry'.state.lastRefill = rlNow
            /\ rlEntry'.expires = IF end > rlNow THEN end ELSE None
            /\ Missing' = IF allowed THEN left + Window ELSE left
            /\ rlPhase'[r] = IF allowed THEN "passed" ELSE "rejected"
            /\ \A t \in Int : t <= rlNow =>
                   Since(t) * Window <= Window + Flown(t, rlNow) + left
            /\ end > rlNow => \A t \in Int : t <= rlNow =>
                   Since(t) * Window + (IF allowed THEN Window ELSE 0)
                       <= Window + Flown(t, end)
  BY BucketPays
<1> DEFINE allowed == RateLimit!Capacity - left >= Window
<1>1. /\ rlNow \in Nat /\ RateLimit!Capacity \in Nat /\ Window \in Nat \ {0}
           /\ MaxRequests \in Nat \ {0}
      /\ Window <= RateLimit!Capacity /\ None \notin Nat
      /\ MaxRequests >= 2 => RateLimit!Capacity >= 2 * Window
  BY Capacities DEF Asked, RateLimit!RateAssumption
<1>2. /\ setup' = setup /\ rlNow' = rlNow /\ rlPhase'[r] \in {"passed", "rejected"}
      /\ \A a \in Int : /\ Since(a)' \in Nat /\ Since(a)' <= Since(a) + 1
                        /\ rlPhase'[r] = "rejected" => Since(a)' = Since(a)
      /\ \A a, b \in Int : /\ Within(a, b)' \in Nat /\ Within(a, b)' <= Within(a, b) + 1
                           /\ rlPhase'[r] = "rejected" \/ rlNow \notin a .. b
                                 => Within(a, b)' = Within(a, b)
      /\ \A q \in Current' : asked'[q] = rlNow \/ (q \in Current /\ asked'[q]
           = asked[q])
  BY CheckCounts
<1>3. Missing' \in Nat /\ (MaxRequests >= 2 => Missing' >= Window)
  BY <1>1
<1>4. \A t \in Int : t <= rlNow => Flown(t, rlNow) \in Nat
  BY <1>1, Flows
<1>5. \A t \in Int : /\ Since(t) \in Nat /\ Since(t) * Window \in Nat /\ Since(t)' * Window \in Nat
                     /\ Since(t)' * Window <= Since(t) * Window + (IF allowed THEN Window ELSE 0)
  <2> TAKE t \in Int
  <2>1. Since(t) \in Nat
    BY Counts
  <2>2. /\ Since(t)' \in Nat /\ Since(t)' <= Since(t) + 1
        /\ rlPhase'[r] = "rejected" => Since(t)' = Since(t)
    BY <1>2
  <2>3. Since(t)' * Window \in Nat /\ Since(t) * Window \in Nat
    BY <1>1, <2>1, <2>2
  <2>4. CASE allowed
    <3>1. Since(t)' * Window <= (Since(t) + 1) * Window
      BY <1>1, <2>1, <2>2, Grows
    <3>2. (Since(t) + 1) * Window = Since(t) * Window + Window
      BY <1>1, <2>1
    <3> QED
      BY <1>1, <2>1, <2>3, <2>4, <3>1, <3>2
  <2>5. CASE ~allowed
    <3>1. Since(t)' = Since(t)
      BY <2>2, <2>5
    <3> QED
      BY <1>1, <2>1, <2>3, <2>5, <3>1
  <2> QED
    BY <2>1, <2>3, <2>4, <2>5
<1>6. ASSUME NEW t \in Int, t <= rlNow
      PROVE  Since(t)' * Window <= Window + Flown(t, rlNow) + Missing'
  <2>1. Since(t) * Window <= Window + Flown(t, rlNow) + left
    BY <1>6
  <2>2. Missing' = left + (IF allowed THEN Window ELSE 0)
    BY <1>1
  <2> QED
    BY <1>1, <1>3, <1>4, <1>5, <1>6, <2>1, <2>2
<1>7. ASSUME NEW t \in Int, t <= rlNow, end > rlNow
      PROVE  Since(t)' * Window <= Window + Flown(t, end)
  <2>1. Since(t) * Window + (IF allowed THEN Window ELSE 0) <= Window + Flown(t, end)
    BY <1>7
  <2>2. Flown(t, end) \in Nat
    BY <1>1, <1>7, Flows
  <2> QED
    BY <1>1, <1>5, <2>1, <2>2
<1>8. BucketKept'
  <2>1. \A q \in Current' : asked'[q] <= rlNow
    <3>1. \A q \in Current : asked[q] <= rlNow
      BY <1>1 DEF Asked, Current
    <3>2. rlNow <= rlNow
      BY <1>1
    <3> QED
      BY <1>2, <3>1, <3>2
  <2>2. \A t \in Int : t <= rlNow => Since(t)' * Window <= Window + Flown(t, rlNow) + Missing'
    BY <1>6
  <2>3. rlEntry'.expires # None => \A t \in Int : t <= rlNow =>
            Since(t)' * Window <= Window + Flown(t, rlEntry'.expires)
    BY <1>7
  <2>4. rlNow <= rlNow
    BY <1>1
  <2> QED
    BY <1>2, <1>3, <2>1, <2>2, <2>3, <2>4 DEF BucketKept, Flown
<1>9. ASSUME NEW t \in Int PROVE (Within(t, t + Window - 1) <= RateLimit!BurstLimit)'
  <2> DEFINE z == t + Window - 1
  <2> SUFFICES (Within(t, z) <= RateLimit!BurstLimit)'
    OBVIOUS
  <2>1. z \in Int /\ RateLimit!BurstLimit = 3 * MaxRequests /\ RateLimit!BurstLimit'
          = RateLimit!BurstLimit
    <3>1. z \in Int
      BY <1>1
    <3>2. RateLimit!BurstLimit = 3 * MaxRequests /\ RateLimit!BurstLimit' = 3 * MaxRequests
      BY <1>2 DEF RateLimit!BurstLimit, Bucket
    <3> QED
      BY <3>1, <3>2
  <2>2. Within(t, z) \in Nat /\ Within(t, z) <= RateLimit!BurstLimit
    <3>1. Within(t, z) <= RateLimit!BurstLimit
      BY DEF LimitKept, BurstKept
    <3> QED
      BY <2>1, <3>1, Counts
  <2>3. CASE rlPhase'[r] = "rejected" \/ rlNow \notin t .. z
    <3>1. Within(t, z)' = Within(t, z)
      BY <1>2, <2>1, <2>3
    <3> QED
      BY <2>1, <2>2, <3>1
  <2>4. CASE rlPhase'[r] = "passed" /\ rlNow \in t .. z
    <3>1. t <= rlNow /\ rlNow - t <= Window - 1 /\ allowed
      BY <1>1, <2>4
    <3>2. Within(t, z) <= Since(t)
      <4>1. t <= t
        OBVIOUS
      <4> QED
        BY <2>1, <4>1, Counts
    <3>3. Since(t) * Window <= Window + Flown(t, rlNow) + left
      BY <3>1
    <3>4. Flown(t, rlNow) <= 2 * ((Window - 1) * MaxRequests)
      <4>1. (rlNow - t) * MaxRequests <= (Window - 1) * MaxRequests
            /\ (rlNow - t) * MaxRequests \in Int /\ (Window - 1) * MaxRequests \in Int
        BY <1>1, <3>1, Grows
      <4> QED
        BY <4>1 DEF Flown
    <3>5. (Window - 1) * MaxRequests = RateLimit!Capacity - MaxRequests
      BY <1>1 DEF RateLimit!Capacity
    <3>6. Since(t) * Window < 3 * RateLimit!Capacity
      BY <1>1, <1>4, <1>5, <3>1, <3>3, <3>4, <3>5
    <3>7. Since(t) < 3 * MaxRequests
      <4>1. 3 * RateLimit!Capacity = (3 * MaxRequests) * Window
        BY <1>1 DEF RateLimit!Capacity
      <4>2. 3 * MaxRequests <= Since(t) => (3 * MaxRequests) * Window <= Since(t) * Window
        <5>1. 3 * MaxRequests \in Int /\ Since(t) \in Int /\ Window \in Nat
          BY <1>1, <1>5
        <5> QED
          BY <5>1, Grows
      <4> QED
        BY <1>1, <1>5, <3>6, <4>1, <4>2
    <3>8. Within(t, z)' \in Nat /\ Within(t, z)' <= Within(t, z) + 1
      BY <1>2, <2>1
    <3>9. Within(t, z)' <= RateLimit!BurstLimit
      <4>1. Since(t) \in Nat
        BY <1>5
      <4> HIDE DEF z
      <4> QED
        BY <1>1, <2>1, <2>2, <3>2, <3>7, <3>8, <4>1
    <3> QED
      BY <2>1, <3>9
  <2> QED
    BY <1>2, <2>3, <2>4
<1>10. rlEntry'.expires \in Nat \cup {None}
  OBVIOUS
<1> QED
  BY <1>8, <1>9, <1>10 DEF BurstKept

-------------------------------------------------------------------------------
LEMMA LimitStarts == ASSUME RateLimit!RateAssumption, RateLimit!Init PROVE Asked /\ LimitKept
<1>1. Current = {}
  BY DEF RateLimit!Init, Current
<1>2. Asked
  BY DEF RateLimit!Init, Asked, InProcess
<1>a. EarlierKept
  BY DEF EarlierKept, RateLimit!Init
<1>3. BurstKept
  <2> SUFFICES ASSUME NEW t \in Int PROVE Within(t, t + Window - 1) <= RateLimit!BurstLimit
    BY DEF BurstKept
  <2>1. InEra(t, t + Window - 1) = {}
    BY <1>1 DEF InEra
  <2>2. Within(t, t + Window - 1) = 0
    BY <2>1, FS_EmptySet DEF Within
  <2>3. RateLimit!BurstLimit \in Nat
    BY DEF RateLimit!BurstLimit, RateLimit!RateAssumption
  <2> QED
    BY <2>2, <2>3
<1> QED
  BY <1>1, <1>2, <1>3, <1>a DEF LimitKept, RateLimit!Init

\* Only a check, and time, concern the limiter of one process.
LEMMA LimitLocal ==
    ASSUME RateLimit!RateAssumption, Asked, LimitKept, [RateLimit!Next]_(RateLimit!vars),
           ~(\E r \in Attempts : RateLimit!CheckLocal(r))
    PROVE  Asked' /\ LimitKept'
<1>1. CASE UNCHANGED RateLimit!vars
  <2>1. UNCHANGED <<setup, rlNow, rlEntry, counter, rlPhase, asked, admitted, evictions>>
    BY <1>1 DEF RateLimit!vars
  <2>2. Asked'
    BY <2>1 DEF Asked, InProcess
  <2>3. /\ Current' = Current /\ Missing' = Missing /\ RateLimit!BurstLimit' = RateLimit!BurstLimit
        /\ (Bucket <=> Bucket') /\ (InProcess <=> InProcess')
        /\ \A a, b : Within(a, b)' = Within(a, b)
    BY <2>1 DEF Current, Missing, RateLimit!BurstLimit, Bucket, InProcess, Within, InEra
  <2>4. WindowKept => WindowKept'
    BY <2>1 DEF WindowKept, Begun, Since, Within, PassedSince, InEra, Current
  <2>5. BucketKept => BucketKept'
    BY <2>1 DEF BucketKept, Missing, Since, PassedSince, Current, Flown
  <2>6. (BurstKept => BurstKept') /\ (EarlierKept => EarlierKept')
    BY <2>1, <2>3 DEF BurstKept, EarlierKept, OfEra
  <2> QED
    BY <2>1, <2>2, <2>3, <2>4, <2>5, <2>6 DEF LimitKept
<1>2. CASE RateLimit!Tick
  <2>1. UNCHANGED <<setup, rlEntry, counter, rlPhase, asked, admitted, evictions>> /\ rlNow' = rlNow + 1
    BY <1>2 DEF RateLimit!Tick
  <2>2. Asked'
    BY <2>1 DEF Asked, InProcess, Current
  <2>3. /\ Current' = Current /\ Begun' = Begun /\ Missing' = Missing
             /\ RateLimit!BurstLimit' = RateLimit!BurstLimit
        /\ (Bucket <=> Bucket') /\ (InProcess <=> InProcess')
        /\ \A a \in Int : Since(a)' = Since(a)
        /\ \A a, b \in Int : Within(a, b)' = Within(a, b)
    BY <2>1
    DEF Current, Begun, Missing, RateLimit!BurstLimit, Bucket, InProcess, Since,
        PassedSince, Within, InEra
  <2>4. WindowKept => WindowKept'
    BY <2>1
    DEF WindowKept, Begun, Asked, Since, Within, PassedSince, InEra, Current
  <2>5. BucketKept => BucketKept'
    BY <2>1
    DEF BucketKept, Missing, Asked, Since, PassedSince, Current,
        RateLimit!TokenBucketEntry, Flown
  <2>6. BurstKept => BurstKept'
    BY <2>1 DEF BurstKept, Within, InEra, Current, RateLimit!BurstLimit
  <2>7. EarlierKept => EarlierKept'
    BY <2>1 DEF EarlierKept, OfEra, RateLimit!BurstLimit
  <2> QED
    BY <2>1, <2>2, <2>3, <2>4, <2>5, <2>6, <2>7 DEF LimitKept
<1>4. CASE RateLimit!Evict
  <2>1. /\ UNCHANGED <<setup, rlNow, rlPhase, asked, admitted>> /\ InProcess
        /\ rlEntry' = None /\ evictions' = evictions + 1 /\ evictions \in Nat
    BY <1>4 DEF RateLimit!Evict, InProcess, Asked
  <2>2. Asked'
    BY <2>1 DEF Asked, InProcess
  <2>3. Current' = {}
    BY <2>1 DEF Asked, InProcess, Current
  <2>4. \A a, b : Within(a, b)' = 0
    <3> TAKE a, b
    <3>1. InEra(a, b)' = {}
      BY <2>3 DEF InEra
    <3> QED
      BY <3>1, FS_EmptySet DEF Within
  <2>5. RateLimit!BurstLimit' = RateLimit!BurstLimit /\ RateLimit!BurstLimit \in Nat
    BY <2>1 DEF RateLimit!BurstLimit, RateLimit!RateAssumption
  <2>6. BurstKept'
    BY <2>4, <2>5 DEF BurstKept
  <2>7. EarlierKept'
    <3> SUFFICES ASSUME NEW g \in Nat, NEW t \in Int, g < evictions'
                 PROVE  Cardinality(OfEra(g, t, t + Window - 1)') <= RateLimit!BurstLimit
      BY <2>5 DEF EarlierKept
    <3>1. OfEra(g, t, t + Window - 1)' = OfEra(g, t, t + Window - 1)
      BY <2>1 DEF OfEra
    <3>2. CASE g < evictions
      BY <2>1, <3>1, <3>2 DEF LimitKept, EarlierKept
    <3>3. CASE g = evictions
      <4>1. OfEra(g, t, t + Window - 1) = InEra(t, t + Window - 1)
        BY <3>3 DEF OfEra, InEra, Current
      <4>2. Within(t, t + Window - 1) <= RateLimit!BurstLimit
        BY <2>1 DEF LimitKept, BurstKept
      <4> QED
        BY <3>1, <4>1, <4>2 DEF Within
    <3> QED
      BY <2>1, <3>2, <3>3
  <2> QED
    BY <2>1, <2>2, <2>3, <2>6, <2>7 DEF LimitKept
<1>3. ASSUME NEW r \in Attempts,
             RateLimit!StoreFails(r) \/ RateLimit!Incr(r) \/ RateLimit!Pexpire(r) \/ RateLimit!Crash(r)
      PROVE  Asked' /\ ~InProcess'
  <2>1. /\ UNCHANGED <<setup, rlNow, rlEntry, evictions>> /\ ~InProcess
    BY <1>3
    DEF RateLimit!StoreFails, RateLimit!Incr, RateLimit!Pexpire, RateLimit!Crash,
        RateLimit!UsesIncr, InProcess, Asked
  <2>2. \/ asked' = asked
        \/ asked' = [asked EXCEPT ![r] = rlNow]
    BY <1>3
    DEF RateLimit!StoreFails, RateLimit!Incr, RateLimit!Pexpire, RateLimit!Crash, RateLimit!Ask
  <2>3. rlPhase[r] \in {"new", "expiring"}
    BY <1>3
    DEF RateLimit!StoreFails, RateLimit!Incr, RateLimit!Pexpire, RateLimit!Crash, RateLimit!Ask,
        RateLimit!IsNext
  <2>4. \E p \in {"unchecked", "refused", "expiring", "passed", "rejected", "crashed"} :
            rlPhase' = [rlPhase EXCEPT ![r] = p]
    BY <1>3
    DEF RateLimit!StoreFails, RateLimit!Incr, RateLimit!Pexpire, RateLimit!Crash, RateLimit!Settle
  <2>5. asked'[r] \in 0 .. rlNow
    <3>1. CASE asked' = [asked EXCEPT ![r] = rlNow]
      BY <3>1 DEF Asked
    <3>2. CASE asked' = asked /\ rlPhase[r] = "expiring"
      BY <3>2 DEF Asked
    <3> QED
      BY <1>3, <3>1, <3>2
      DEF RateLimit!StoreFails, RateLimit!Incr, RateLimit!Pexpire, RateLimit!Crash, RateLimit!Ask
  <2>6. \A q \in Attempts : q # r => rlPhase'[q] = rlPhase[q] /\ asked'[q] = asked[q]
    BY <2>2, <2>4 DEF Asked
  <2>7. /\ rlPhase' \in [Attempts -> {"new", "passed", "rejected", "unchecked", "refused",
                                      "expiring", "crashed"}]
        /\ asked' \in [Attempts -> Nat \cup {None}]
    BY <2>2, <2>4 DEF Asked
  <2>8. \A q \in Attempts : rlPhase'[q] \in {"passed", "expiring"} => asked'[q] \in 0 .. rlNow
    BY <2>5, <2>6 DEF Asked
  <2> QED
    BY <2>1, <2>7, <2>8 DEF Asked, InProcess
<1> QED
  BY <1>1, <1>2, <1>3, <1>4 DEF RateLimit!Next, LimitKept

LEMMA LimitSteps ==
    ASSUME RateLimit!RateAssumption, Asked, LimitKept, [RateLimit!Next]_(RateLimit!vars)
    PROVE  Asked' /\ LimitKept'
<1>1. CASE \E r \in Attempts : RateLimit!CheckLocal(r)
  <2> PICK r \in Attempts : RateLimit!CheckLocal(r)
    BY <1>1
  <2>1. InProcess /\ Asked'
    BY CheckCounts DEF RateLimit!CheckLocal, InProcess
  <2>2. (Bucket <=> Bucket')
    BY DEF RateLimit!CheckLocal, Bucket
  <2> QED
    BY <2>1, <2>2, WindowKeeps, BucketKeeps, CheckCounts DEF LimitKept
<1> QED
  BY <1>1, LimitLocal

LEMMA LimitMeans == ASSUME RateLimit!RateAssumption, Asked, LimitKept PROVE RateLimit!BurstBounded
<1> SUFFICES ASSUME InProcess, NEW t \in 0 .. rlNow, NEW g \in 0 .. evictions
             PROVE  Cardinality({r \in RateLimit!PassedIn(t, t + Window - 1) : admitted[r] = g})
                        <= RateLimit!BurstLimit
  BY RateFinite DEF RateLimit!BurstBounded, InProcess
<1>1. t \in Int /\ g \in Nat /\ evictions \in Nat
  BY DEF Asked
<1>2. {r \in RateLimit!PassedIn(t, t + Window - 1) : admitted[r] = g}
        = OfEra(g, t, t + Window - 1)
  BY DEF OfEra, RateLimit!PassedIn, RateLimit!Passed
<1>3. g = evictions => OfEra(g, t, t + Window - 1) = InEra(t, t + Window - 1)
  BY DEF OfEra, InEra, Current
<1>4. CASE g = evictions
  BY <1>1, <1>2, <1>3, <1>4 DEF LimitKept, BurstKept, Within
<1>5. CASE g < evictions
  BY <1>1, <1>2, <1>5 DEF LimitKept, EarlierKept
<1> QED
  BY <1>1, <1>4, <1>5

-------------------------------------------------------------------------------
\* What belongs to a generation of the Redis counter: who has passed in it and, in
\* the last one, who is about to set its life time.
Expiring == {r \in Attempts : rlPhase[r] = "expiring"}
Claimed(g) == {r \in RateLimit!Passed : admitted[r] = g}
                  \cup (IF g = counter.generation THEN Expiring ELSE {})
Claims(g) == Cardinality(Claimed(g))

\* As long as somebody is about to set it the counter has no end, so it is the counter
\* that they have made.
CounterKept ==
    /\ setup \in Setups /\ rlNow \in Nat
    /\ rlPhase \in [Attempts -> {"new", "passed", "rejected", "unchecked", "refused",
                                 "expiring", "crashed"}]
    /\ admitted \in [Attempts -> Nat \cup {None}] /\ evictions \in Nat
    /\ counter \in [count : Nat, expires : Nat \cup {None}, generation : Nat]
    /\ RateLimit!UsesIncr =>
        /\ \A r \in RateLimit!Passed : admitted[r] \in 0 .. counter.generation
        /\ Expiring # {} => counter.expires = None
        /\ \A q, r \in Expiring : q = r
        /\ Claims(counter.generation) <= counter.count
        /\ \A g \in Nat : Claims(g) <= MaxRequests

LEMMA CounterStarts == ASSUME RateLimit!RateAssumption, RateLimit!Init PROVE CounterKept
<1>1. RateLimit!Passed = {} /\ Expiring = {}
  BY DEF RateLimit!Init, RateLimit!Passed, Expiring
<1>2. \A g : Claimed(g) = {}
  BY <1>1 DEF Claimed
<1>3. \A g : Claims(g) = 0
  BY <1>2, FS_EmptySet DEF Claims
<1> QED
  BY <1>1, <1>3 DEF RateLimit!Init, CounterKept, RateLimit!RateAssumption

\* Nothing but the requests of the counter changes what belongs to it.
LEMMA SameClaims ==
    ASSUME RateLimit!RateAssumption, CounterKept, RateLimit!UsesIncr, UNCHANGED <<setup, rlNow,
           counter, evictions>>,
           rlPhase' \in [Attempts -> {"new", "passed", "rejected", "unchecked", "refused",
                                      "expiring", "crashed"}],
           admitted' \in [Attempts -> Nat \cup {None}],
           \A g \in Nat : Claimed(g)' \subseteq Claimed(g),
           \A r \in RateLimit!Passed' : admitted'[r] \in 0 .. counter.generation,
           Expiring' \subseteq Expiring
    PROVE  CounterKept'
<1>1. \A g \in Nat : Claims(g)' <= Claims(g) /\ Claims(g) \in Nat /\ Claims(g)' \in Nat
  <2> TAKE g \in Nat
  <2>1. Claimed(g) \subseteq Attempts
    BY DEF Claimed, RateLimit!Passed, Expiring
  <2> QED
    BY <2>1, Sizes DEF Claims
<1>2. counter.generation \in Nat /\ counter.count \in Nat /\ MaxRequests \in Nat
  BY DEF CounterKept, RateLimit!RateAssumption
<1>3. \A g \in Nat : Claims(g)' <= MaxRequests
  BY <1>1, <1>2 DEF CounterKept
<1>4. Claims(counter.generation)' <= counter'.count
  <2> PICK g \in Nat : g = counter.generation
    BY <1>2
  <2>1. Claims(g)' <= counter.count
    BY <1>1, <1>2 DEF CounterKept
  <2>2. Claims(counter.generation)' = Claims(g)'
    BY DEF Claims, Claimed, RateLimit!Passed, Expiring
  <2> QED
    BY <2>1, <2>2
<1> QED
  BY <1>3, <1>4 DEF CounterKept

LEMMA IncrCounts ==
    ASSUME RateLimit!RateAssumption, CounterKept, NEW r \in Attempts, RateLimit!Incr(r)
    PROVE  CounterKept'
<1> DEFINE gone == counter.count = 0 \/ (counter.expires # None /\ counter.expires <= rlNow)
           made == [count |-> 1, expires |-> None, generation |-> counter.generation + 1]
           counted == [counter EXCEPT !.count = @ + 1]
<1>1. /\ RateLimit!UsesIncr /\ RateLimit!UsesIncr' /\ UNCHANGED <<setup, evictions>> /\ rlPhase[r] = "new"
      /\ MaxRequests \in Nat \ {0}
      /\ counter \in [count : Nat, expires : Nat \cup {None}, generation : Nat]
      /\ \A g \in Nat : Claims(g) <= MaxRequests
      /\ Claims(counter.generation) <= counter.count
      /\ \A q \in RateLimit!Passed : admitted[q] \in 0 .. counter.generation
      /\ rlNow' = rlNow /\ rlNow \in Nat /\ \A p, q \in Expiring : p = q
  BY DEF RateLimit!Incr, CounterKept, RateLimit!RateAssumption, RateLimit!UsesIncr, RateLimit!Ask,
         RateLimit!IsNext
<1>2. \A g : Claimed(g) \subseteq Attempts
  BY DEF Claimed, RateLimit!Passed, Expiring
<1>3. \A g \in Nat : Claims(g) \in Nat
  BY <1>2, Sizes DEF Claims
<1>4. r \notin RateLimit!Passed /\ r \notin Expiring
  BY <1>1 DEF RateLimit!Passed, Expiring
<1>5. CASE gone
  <2>1. counter' = made /\ counter'.generation \in Nat /\ counter'.generation
          = counter.generation + 1
    BY <1>1, <1>5 DEF RateLimit!Incr
  <2>2. rlPhase' = [rlPhase EXCEPT ![r] = "expiring"] /\ admitted' = admitted
    BY <1>1, <1>5 DEF RateLimit!Incr
  <2>3. Expiring = {}
    <3>1. CASE counter.count = 0
      <4> PICK g \in Nat : g = counter.generation
        BY <1>1
      <4>1. Claims(g) = 0
        BY <1>1, <1>3, <3>1
      <4>2. IsFiniteSet(Claimed(g))
        BY <1>2, Sizes
      <4>3. Claimed(g) = {}
        BY <4>1, <4>2, FS_EmptySet DEF Claims
      <4> QED
        BY <4>3 DEF Claimed
    <3>2. CASE counter.expires # None
      BY <1>1, <3>2 DEF CounterKept
    <3> QED
      BY <1>5, <3>1, <3>2
  <2>4. Expiring' = {r} /\ RateLimit!Passed' = RateLimit!Passed
    BY <1>4, <2>2, <2>3 DEF Expiring, RateLimit!Passed, CounterKept
  <2>5. \A g \in Nat : g # counter.generation + 1 => Claimed(g)' = {q \in RateLimit!Passed :
          admitted[q] = g}
    BY <2>1, <2>2, <2>4 DEF Claimed
  <2>6. ASSUME NEW g \in Nat, g # counter.generation + 1 PROVE Claims(g)' <= MaxRequests
    <3>1. Claimed(g)' \subseteq Claimed(g)
      BY <2>5, <2>6 DEF Claimed
    <3>2. Claims(g)' \in Nat /\ Claims(g)' <= Claims(g)
      BY <1>2, <3>1, Sizes DEF Claims
    <3> QED
      BY <1>1, <1>3, <3>2
  <2>7. ASSUME NEW g \in Nat, g = counter.generation + 1 PROVE Claims(g)' = 1
    <3>1. ~(\E q \in RateLimit!Passed : admitted[q] = g)
      BY <1>1, <2>7
    <3>2. Claimed(g)' = {r}
      BY <2>1, <2>2, <2>4, <2>7, <3>1 DEF Claimed
    <3> QED
      BY <3>2, FS_Singleton DEF Claims
  <2>8. Claims(counter.generation)' <= counter'.count
    <3> PICK g \in Nat : g = counter.generation + 1
      BY <1>1
    <3>1. Claims(g)' = 1
      BY <2>7
    <3>2. Claims(counter.generation)' = Claims(g)'
      BY <2>1 DEF Claims, Claimed, RateLimit!Passed, Expiring
    <3> QED
      BY <2>1, <3>1, <3>2
  <2>9. \A g \in Nat : Claims(g)' <= MaxRequests
    BY <1>1, <2>6, <2>7
  <2>10. \A q \in RateLimit!Passed' : admitted'[q] \in 0 .. counter'.generation
    BY <1>1, <2>1, <2>2, <2>4
  <2>11. counter' \in [count : Nat, expires : Nat \cup {None}, generation : Nat]
         /\ counter'.expires = None
    BY <1>1, <2>1
  <2> QED
    BY <1>1, <2>2, <2>4, <2>8, <2>9, <2>10, <2>11 DEF CounterKept
<1>6. CASE ~gone
  <2> DEFINE n == counter.count + 1
             allowed == n <= MaxRequests
  <2>1. /\ counter' = counted /\ counter.count # 0 /\ counter'.count = n /\ n \in Nat /\ n # 1
        /\ counter'.generation = counter.generation /\ counter'.expires = counter.expires
    BY <1>1, <1>6 DEF RateLimit!Incr
  <2>2. /\ rlPhase' = [rlPhase EXCEPT ![r] = IF allowed THEN "passed" ELSE "rejected"]
        /\ admitted' = [admitted EXCEPT ![r] = IF allowed THEN counter.generation ELSE None]
    BY <1>1, <1>6, <2>1 DEF RateLimit!Incr
  <2>3. /\ rlPhase'[r] = (IF allowed THEN "passed" ELSE "rejected")
        /\ admitted'[r] = (IF allowed THEN counter.generation ELSE None)
        /\ \A q \in Attempts : q # r => rlPhase'[q] = rlPhase[q] /\ admitted'[q] = admitted[q]
    BY <2>2 DEF CounterKept
  <2>4. Expiring' = Expiring /\ RateLimit!Passed'
          = IF allowed THEN RateLimit!Passed \cup {r} ELSE RateLimit!Passed
    BY <1>4, <2>3 DEF Expiring, RateLimit!Passed
  <2>5. ASSUME NEW g \in Nat, g # counter.generation \/ ~allowed
        PROVE  Claims(g)' = Claims(g)
    <3>1. Claimed(g)' = Claimed(g)
      BY <1>1, <1>4, <2>1, <2>3, <2>4, <2>5 DEF Claimed, RateLimit!Passed
    <3> QED
      BY <3>1 DEF Claims
  <2>6. ASSUME NEW g \in Nat, g = counter.generation, allowed
        PROVE  Claims(g)' \in Nat /\ Claims(g)' <= Claims(g) + 1
    <3>1. Claimed(g)' = Claimed(g) \cup {r}
      BY <1>1, <1>4, <2>1, <2>3, <2>4, <2>6 DEF Claimed, RateLimit!Passed
    <3> QED
      BY <1>2, <3>1, Sizes DEF Claims
  <2>7. ASSUME NEW g \in Nat, g = counter.generation
        PROVE  Claims(g)' <= n /\ Claims(g)' <= MaxRequests
    <3>1. Claims(g) <= counter.count /\ Claims(g) \in Nat /\ Claims(g) <= MaxRequests
      BY <1>1, <1>3, <2>7
    <3>2. CASE allowed
      <4>1. Claims(g)' \in Nat /\ Claims(g)' <= Claims(g) + 1
        BY <2>6, <2>7, <3>2
      <4> QED
        BY <1>1, <3>1, <3>2, <4>1
    <3>3. CASE ~allowed
      BY <1>1, <2>5, <3>1, <3>3
    <3> QED
      BY <3>2, <3>3
  <2>8. \A g \in Nat : Claims(g)' <= MaxRequests
    BY <1>1, <2>5, <2>7
  <2>9. Claims(counter.generation)' <= counter'.count
    <3> PICK g \in Nat : g = counter.generation
      BY <1>1
    <3>1. Claims(g)' <= n
      BY <2>7
    <3>2. Claims(counter.generation)' = Claims(g)'
      BY <2>1 DEF Claims, Claimed, RateLimit!Passed, Expiring
    <3> QED
      BY <2>1, <3>1, <3>2
  <2>10. \A q \in RateLimit!Passed' : admitted'[q] \in 0 .. counter'.generation
    BY <1>1, <2>1, <2>3, <2>4 DEF RateLimit!Passed
  <2>11. counter' \in [count : Nat, expires : Nat \cup {None}, generation : Nat]
    BY <1>1, <2>1
  <2>12. /\ rlPhase' \in [Attempts -> {"new", "passed", "rejected", "unchecked", "refused",
                                       "expiring", "crashed"}]
         /\ admitted' \in [Attempts -> Nat \cup {None}]
    BY <1>1, <2>2 DEF CounterKept
  <2> QED
    BY <1>1, <2>1, <2>4, <2>8, <2>9, <2>10, <2>11, <2>12 DEF CounterKept
<1> QED
  BY <1>5, <1>6

LEMMA CounterSteps ==
    ASSUME RateLimit!RateAssumption, CounterKept, [RateLimit!Next]_(RateLimit!vars)
    PROVE  CounterKept'
<1>1. CASE UNCHANGED <<setup, counter, rlPhase, admitted>> /\ rlNow' \in Nat /\ evictions' \in Nat
  BY <1>1 DEF CounterKept, RateLimit!UsesIncr, RateLimit!Passed, Expiring, Claims, Claimed
<1>2. ASSUME NEW r \in Attempts, RateLimit!Incr(r) PROVE CounterKept'
  BY <1>2, IncrCounts
<1>3. ASSUME NEW r \in Attempts, RateLimit!CheckLocal(r) PROVE CounterKept'
  <2>1. ~RateLimit!UsesIncr' /\ UNCHANGED <<setup, rlNow, counter, evictions>>
    BY <1>3 DEF RateLimit!CheckLocal, RateLimit!UsesIncr
  <2>2. /\ rlPhase' \in [Attempts -> {"new", "passed", "rejected", "unchecked", "refused",
                                      "expiring", "crashed"}]
        /\ admitted' \in [Attempts -> Nat \cup {None}]
    <3>1. \E p \in {"passed", "rejected"}, e \in {evictions, None} :
             /\ rlPhase' = [rlPhase EXCEPT ![r] = p]
             /\ admitted' = [admitted EXCEPT ![r] = e]
      BY <1>3 DEF RateLimit!CheckLocal, RateLimit!Settle
    <3> QED
      BY <3>1 DEF CounterKept
  <2> QED
    BY <2>1, <2>2 DEF CounterKept
<1>4. ASSUME NEW r \in Attempts, RateLimit!StoreFails(r) \/ RateLimit!Crash(r) PROVE CounterKept'
  <2>1. /\ UNCHANGED <<setup, rlNow, counter, admitted, evictions>>
        /\ \E p \in {"unchecked", "refused", "crashed"} : rlPhase' = [rlPhase EXCEPT ![r] = p]
    BY <1>4 DEF RateLimit!StoreFails, RateLimit!Crash
  <2>2. rlPhase[r] \in {"new", "expiring"}
    BY <1>4 DEF RateLimit!StoreFails, RateLimit!Crash, RateLimit!Ask, RateLimit!IsNext
  <2>3. RateLimit!Passed' = RateLimit!Passed /\ Expiring' \subseteq Expiring
    BY <2>1, <2>2 DEF RateLimit!Passed, Expiring, CounterKept
  <2>4. \A g \in Nat : Claimed(g)' \subseteq Claimed(g)
    BY <2>1, <2>3 DEF Claimed
  <2>5. rlPhase' \in [Attempts -> {"new", "passed", "rejected", "unchecked", "refused",
                                   "expiring", "crashed"}]
    BY <2>1 DEF CounterKept
  <2>6. CASE RateLimit!UsesIncr
    BY <2>1, <2>3, <2>4, <2>5, <2>6, SameClaims DEF CounterKept
  <2>7. CASE ~RateLimit!UsesIncr
    BY <2>1, <2>5, <2>7 DEF CounterKept, RateLimit!UsesIncr
  <2> QED
    BY <2>6, <2>7
<1>5. ASSUME NEW r \in Attempts, RateLimit!Pexpire(r) PROVE CounterKept'
  <2>1. /\ rlPhase[r] = "expiring" /\ UNCHANGED <<setup, rlNow, evictions>> /\ MaxRequests \in Nat \ {0}
        /\ Window \in Nat
        /\ counter' = [counter EXCEPT !.expires = rlNow + Window]
    BY <1>5 DEF RateLimit!Pexpire, RateLimit!RateAssumption
  <2>2. /\ rlPhase' = [rlPhase EXCEPT ![r] = "passed"]
        /\ admitted' = [admitted EXCEPT ![r] = counter.generation]
    <3>1. 1 <= MaxRequests
      BY <2>1
    <3> QED
      BY <1>5, <3>1 DEF RateLimit!Pexpire, RateLimit!Settle
  <2>3. /\ counter' \in [count : Nat, expires : Nat \cup {None}, generation : Nat]
        /\ counter'.generation = counter.generation /\ counter'.count = counter.count
        /\ rlPhase' \in [Attempts -> {"new", "passed", "rejected", "unchecked", "refused",
                                      "expiring", "crashed"}]
        /\ admitted' \in [Attempts -> Nat \cup {None}]
    BY <2>1, <2>2 DEF CounterKept
  <2>4. CASE RateLimit!UsesIncr
    <3>1. /\ Expiring = {r} /\ \A q \in RateLimit!Passed : admitted[q] \in 0 .. counter.generation
          /\ counter.generation \in Nat
      BY <2>1, <2>4 DEF CounterKept, Expiring
    <3>2. /\ rlPhase'[r] = "passed" /\ admitted'[r] = counter.generation
          /\ \A q \in Attempts : q # r => rlPhase'[q] = rlPhase[q] /\ admitted'[q] = admitted[q]
      BY <2>2 DEF CounterKept
    <3>3. Expiring' = {} /\ RateLimit!Passed' = RateLimit!Passed \cup {r}
          /\ r \notin RateLimit!Passed
      BY <2>1, <3>1, <3>2 DEF Expiring, RateLimit!Passed
    <3>4. \A g \in Nat : Claimed(g)' = Claimed(g)
      BY <2>3, <3>1, <3>2, <3>3 DEF Claimed, RateLimit!Passed
    <3>5. \A g \in Nat : Claims(g)' = Claims(g)
      BY <3>4 DEF Claims
    <3>6. Claims(counter.generation)' = Claims(counter.generation)
      <4> PICK g \in Nat : g = counter.generation
        BY <3>1
      <4>1. Claims(counter.generation)' = Claims(g)'
        BY <2>3 DEF Claims, Claimed, RateLimit!Passed, Expiring
      <4> QED
        BY <3>5, <4>1
    <3>7. \A q \in RateLimit!Passed' : admitted'[q] \in 0 .. counter.generation
      BY <3>1, <3>2, <3>3 DEF RateLimit!Passed
    <3> QED
      BY <2>1, <2>3, <2>4, <3>3, <3>5, <3>6, <3>7 DEF CounterKept
  <2>5. CASE ~RateLimit!UsesIncr
    BY <2>1, <2>3, <2>5 DEF CounterKept, RateLimit!UsesIncr
  <2> QED
    BY <2>4, <2>5
<1>6. CASE RateLimit!Tick
  BY <1>1, <1>6 DEF RateLimit!Tick, CounterKept
<1>8. CASE RateLimit!Evict
  BY <1>1, <1>8 DEF RateLimit!Evict, CounterKept
<1>7. CASE UNCHANGED RateLimit!vars
  BY <1>1, <1>7 DEF RateLimit!vars, CounterKept
<1> QED
  BY <1>2, <1>3, <1>4, <1>5, <1>6, <1>7, <1>8 DEF RateLimit!Next

LEMMA CounterMeans == ASSUME RateLimit!RateAssumption, CounterKept PROVE RateLimit!AtomicExact
<1> SUFFICES ASSUME RateLimit!UsesIncr, NEW g \in 1 .. counter.generation
             PROVE  Cardinality({r \in RateLimit!Passed : admitted[r] = g}) <= MaxRequests
  BY RateFinite DEF RateLimit!AtomicExact
<1>1. g \in Nat /\ MaxRequests \in Nat
  BY DEF CounterKept, RateLimit!RateAssumption
<1>2. Claimed(g) \subseteq Attempts /\ {r \in RateLimit!Passed : admitted[r]
        = g} \subseteq Claimed(g)
  BY DEF Claimed, RateLimit!Passed, Expiring
<1>3. Claims(g) <= MaxRequests
  BY <1>1 DEF CounterKept
<1> QED
  BY <1>1, <1>2, <1>3, Sizes, RateFinite DEF Claims

-------------------------------------------------------------------------------
\* The fixed window keeps its entry until the window ends, when a new one begins
\* whether the old one is remembered or not.
SameWindow ==
    setup.algorithm = "fixed-window" =>
        /\ ~differs
        /\ rlEntry = None => whole = None
        /\ rlEntry # None =>
              /\ rlEntry.state \in RateLimit!FixedWindowEntry
              /\ whole = rlEntry.state /\ rlEntry.expires = rlEntry.state.resetTime

LEMMA WindowStarts == ASSUME RateLimit!Init PROVE SameWindow /\ rlNow \in Nat
BY DEF RateLimit!Init, SameWindow

LEMMA FixedWindows ==
    ASSUME RateLimit!RateAssumption, NEW t \in Nat, NEW e \in RateLimit!FixedWindowEntry
    PROVE  LET f == RateLimit!CheckFixedWindow(RateLimit!FreshFixedWindow(t), t)
               d == RateLimit!CheckFixedWindow(e, t)
           IN  /\ e.resetTime <= t => d = f
               /\ d.state \in RateLimit!FixedWindowEntry /\ d.reset = d.state.resetTime
                    /\ d.reset > t
               /\ f.state \in RateLimit!FixedWindowEntry /\ f.reset = f.state.resetTime
                    /\ f.reset > t
<1>1. Window \in Nat \ {0} /\ t + Window \in Nat /\ t + Window > t
  BY DEF RateLimit!RateAssumption
<1>2. RateLimit!FreshFixedWindow(t) = [count |-> 0, resetTime |-> t + Window]
  BY DEF RateLimit!FreshFixedWindow
<1>3. [RateLimit!FreshFixedWindow(t) EXCEPT !.count = 1] = [count |-> 1, resetTime |-> t + Window]
      /\ [RateLimit!FreshFixedWindow(t) EXCEPT !.count = @ + 1]
           = [count |-> 1, resetTime |-> t + Window]
  BY <1>2
<1>4. RateLimit!FreshFixedWindow(t).resetTime = t + Window /\ ~(t + Window <= t)
  BY <1>1, <1>2
<1> DEFINE n == [count |-> 1, resetTime |-> t + Window]
<1>5. RateLimit!CheckFixedWindow(RateLimit!FreshFixedWindow(t), t)
        = RateLimit!Decision(n.count <= MaxRequests, n.resetTime, n)
  BY <1>3, <1>4 DEF RateLimit!CheckFixedWindow
<1>6. e.resetTime <= t =>
          RateLimit!CheckFixedWindow(e, t) = RateLimit!Decision(n.count <= MaxRequests,
          n.resetTime, n)
  BY <1>3 DEF RateLimit!CheckFixedWindow
<1>7. n \in RateLimit!FixedWindowEntry /\ n.resetTime > t
  BY <1>1 DEF RateLimit!FixedWindowEntry
<1>8. e.resetTime > t =>
          RateLimit!CheckFixedWindow(e, t) =
              RateLimit!Decision(e.count + 1 <= MaxRequests, e.resetTime,
                                 [count |-> e.count + 1, resetTime |-> e.resetTime])
  BY FixedChecks
<1>9. [count |-> e.count + 1, resetTime |-> e.resetTime] \in RateLimit!FixedWindowEntry
  BY DEF RateLimit!FixedWindowEntry
<1>10. e.resetTime \in Nat
  BY DEF RateLimit!FixedWindowEntry
<1> QED
  BY <1>5, <1>6, <1>7, <1>8, <1>9, <1>10 DEF RateLimit!Decision

LEMMA WindowSteps ==
    ASSUME RateLimit!RateAssumption, SameWindow, rlNow \in Nat, [RateLimit!Next]_(RateLimit!vars)
    PROVE  SameWindow' /\ rlNow' \in Nat
<1>1. CASE UNCHANGED <<setup, rlEntry, whole, differs>> /\ rlNow' \in {rlNow, rlNow + 1}
  BY <1>1 DEF SameWindow
<1>2. ASSUME NEW r \in Attempts, RateLimit!CheckLocal(r) PROVE SameWindow' /\ rlNow' \in Nat
  <2> DEFINE found == RateLimit!Lookup(rlEntry, rlNow)
             d == RateLimit!Decide(found, rlNow)
             w == RateLimit!Decide(whole, rlNow)
             f == RateLimit!CheckFixedWindow(RateLimit!FreshFixedWindow(rlNow), rlNow)
  <2>1. /\ rlEntry' = RateLimit!Stored(d.state, RateLimit!Life(d.reset, rlNow), rlNow) /\ whole'
             = w.state
        /\ differs' = (differs \/ w.allowed # d.allowed) /\ UNCHANGED <<setup, rlNow>>
    BY <1>2 DEF RateLimit!CheckLocal
  <2>2. CASE setup.algorithm = "fixed-window"
    <3>1. None \notin Nat /\ None \notin RateLimit!States
          /\ None \notin [state : RateLimit!States, expires : Nat \cup {None}]
      BY DEF RateLimit!RateAssumption
    <3>2. [count |-> 0, resetTime |-> 0] \in RateLimit!FixedWindowEntry
      BY DEF RateLimit!FixedWindowEntry
    <3>3. f.state \in RateLimit!FixedWindowEntry /\ f.reset = f.state.resetTime /\ f.reset > rlNow
      BY <3>2, FixedWindows
    <3>4. /\ d = w /\ d.state \in RateLimit!FixedWindowEntry
          /\ d.reset = d.state.resetTime /\ d.reset > rlNow
      <4>1. CASE rlEntry = None
        <5>1. d = f /\ w = f
          BY <2>2, <4>1
          DEF RateLimit!Lookup, RateLimit!Decide, RateLimit!Check, RateLimit!Fresh, SameWindow
        <5> QED
          BY <3>3, <5>1
      <4>2. CASE rlEntry # None
        <5>1. /\ rlEntry.state \in RateLimit!FixedWindowEntry /\ whole = rlEntry.state
                   /\ rlEntry.state # None
              /\ rlEntry.expires = rlEntry.state.resetTime /\ rlEntry.expires # None
          BY <2>2, <3>1, <4>2 DEF SameWindow, RateLimit!States, RateLimit!FixedWindowEntry
        <5>2. w = RateLimit!CheckFixedWindow(rlEntry.state, rlNow)
          BY <2>2, <5>1 DEF RateLimit!Decide, RateLimit!Check
        <5>3. CASE rlEntry.expires <= rlNow
          <6>1. found = None
            BY <4>2, <5>1, <5>3 DEF RateLimit!Lookup
          <6>2. d = f
            BY <2>2, <6>1 DEF RateLimit!Decide, RateLimit!Check, RateLimit!Fresh
          <6>3. w = f
            BY <5>1, <5>2, <5>3, FixedWindows
          <6> QED
            BY <3>3, <6>2, <6>3
        <5>4. CASE ~(rlEntry.expires <= rlNow)
          <6>1. found = rlEntry.state
            BY <4>2, <5>4 DEF RateLimit!Lookup
          <6>2. d = w
            BY <5>1, <6>1
          <6> QED
            BY <5>1, <5>2, <6>2, FixedWindows
        <5> QED
          BY <5>3, <5>4
      <4> QED
        BY <4>1, <4>2
    <3> HIDE DEF d, w, found
    <3>5. d.state.resetTime \in Nat
      BY <3>4 DEF RateLimit!FixedWindowEntry
    <3>6. RateLimit!Life(d.reset, rlNow) = d.reset - rlNow /\ d.reset - rlNow > 0
      BY <3>4, <3>5 DEF RateLimit!Life, RateLimit!Greatest
    <3>7. rlEntry' = [state |-> d.state, expires |-> d.reset]
      BY <2>1, <3>4, <3>5, <3>6 DEF RateLimit!Stored
    <3>8. rlEntry' # None
      <4>1. rlEntry' \in [state : RateLimit!States, expires : Nat \cup {None}]
        BY <3>4, <3>5, <3>7 DEF RateLimit!States
      <4> QED
        BY <3>1, <4>1
    <3>9. ~differs'
      BY <2>1, <2>2, <3>4 DEF SameWindow
    <3> QED
      BY <2>1, <2>2, <3>4, <3>7, <3>8, <3>9 DEF SameWindow
  <2>3. CASE setup.algorithm # "fixed-window"
    BY <2>1, <2>3 DEF SameWindow
  <2> QED
    BY <2>2, <2>3
<1>3. ASSUME NEW r \in Attempts,
             RateLimit!StoreFails(r) \/ RateLimit!Incr(r) \/ RateLimit!Pexpire(r) \/ RateLimit!Crash(r)
      PROVE  UNCHANGED <<setup, rlEntry, whole, differs, rlNow>>
  BY <1>3
  DEF RateLimit!StoreFails, RateLimit!Incr, RateLimit!Pexpire, RateLimit!Crash, RateLimit!ghost
<1>4. CASE RateLimit!Evict
  BY <1>4 DEF RateLimit!Evict, SameWindow
<1> QED
  BY <1>1, <1>2, <1>3, <1>4 DEF RateLimit!Next, RateLimit!Tick, RateLimit!vars, RateLimit!ghost

-------------------------------------------------------------------------------
LEMMA RateMoves == Spec => RateLimit!Spec
<1>1. Init => RateLimit!Init
  BY DEF Init
<1>2. [Next]_vars => [RateLimit!Next]_(RateLimit!vars)
  BY DEF Next, vars, rateLimit, RateLimit!vars, RateLimit!ghost
<1> QED
  BY <1>1, <1>2, PTL DEF Spec, RateLimit!Spec

\* From one eviction of the entry to the next the limiter of one process lets at most
\* twice the budget pass in any stretch of one window with the window algorithms,
\* and at most three times with the token bucket, for every budget, window and
\* moments of the requests; an eviction gives a client that much once more.
THEOREM BurstBoundedHolds == Spec => []BurstBounded
<1>1. RateLimit!Init => Asked /\ LimitKept
  BY LimitStarts, DataLayerAssumption
<1>2. (Asked /\ LimitKept) /\ [RateLimit!Next]_(RateLimit!vars) => (Asked /\ LimitKept)'
  BY LimitSteps, DataLayerAssumption
<1>3. Asked /\ LimitKept => BurstBounded
  BY LimitMeans, DataLayerAssumption DEF BurstBounded
<1> QED
  BY <1>1, <1>2, <1>3, RateMoves, PTL DEF RateLimit!Spec

\* However the replicas interleave, one life of the Redis counter lets no more than
\* the budget pass, although INCR and PEXPIRE are two commands and either may fail.
THEOREM AtomicExactHolds == Spec => []AtomicExact
<1>1. RateLimit!Init => CounterKept
  BY CounterStarts, DataLayerAssumption
<1>2. CounterKept /\ [RateLimit!Next]_(RateLimit!vars) => CounterKept'
  BY CounterSteps, DataLayerAssumption
<1>3. CounterKept => AtomicExact
  BY CounterMeans, DataLayerAssumption DEF AtomicExact
<1> QED
  BY <1>1, <1>2, <1>3, RateMoves, PTL DEF RateLimit!Spec

\* That the store forgets the entry of the fixed window at its end changes no decision.
THEOREM FixedWindowKeptHolds == Spec => []FixedWindowKept
<1>1. RateLimit!Init => SameWindow /\ rlNow \in Nat
  BY WindowStarts
<1>2. (SameWindow /\ rlNow \in Nat) /\ [RateLimit!Next]_(RateLimit!vars)
        => (SameWindow /\ rlNow \in Nat)'
  BY WindowSteps, DataLayerAssumption
<1>3. SameWindow => FixedWindowKept
  BY DEF SameWindow, FixedWindowKept, RateLimit!FixedWindowKept
<1> QED
  BY <1>1, <1>2, <1>3, RateMoves, PTL DEF RateLimit!Spec
===============================================================================
