------------------------------- MODULE FileStore -------------------------------
(***************************************************************************)
(* The memory and file drivers of packages/core/src/data/store: a map with  *)
(* expiring entries and a hard cap, kept in memory (memory.ts), rewritten   *)
(* to a file on every mutation, or with the rewrites coalesced (file.ts).   *)
(* The process crashes and comes back.                                      *)
(*                                                                          *)
(* The drivers are synchronous: one action is one call.  A crash inside the *)
(* rewrite leaves the old file, because the new one is renamed into place.  *)
(***************************************************************************)
EXTENDS FiniteSets, Integers, Sequences, Subsequence

CONSTANTS Keys,
          Values,
          Ttl,         \* the ttlMs that set() and touch() may be given, else 0
          MaxEntries,  \* maxEntries
          Coalesce,    \* writeCoalesceMs of the coalescing driver
          Drivers,     \* which of "memory", "file" and "coalesced" to choose from
          TouchesDead, \* TRUE: callers touch() keys whose entry has expired
          MaxTime, MaxCrashes, MaxFaults,  \* bounds
          None

\* What the constants must be.
StoreAssumption ==
    /\ Ttl \in Nat \ {0} /\ MaxEntries \in Nat \ {0} /\ Coalesce \in Nat \ {0}
    /\ MaxTime \in Nat /\ MaxCrashes \in Nat /\ MaxFaults \in Nat
    /\ None \notin Values \cup Nat
    /\ Drivers \subseteq {"memory", "file", "coalesced"}
    /\ TouchesDead \in BOOLEAN

VARIABLES driver,
          now,
          entries,  \* the Map: entries in the order their keys were first inserted
          file,     \* the entries in the file
          timer,    \* when the coalesced write is due, or None
          up,       \* the process runs
          crashes, faults,  \* counted for the bounds
          apart,    \* history: since when the file differs from the map, or None
          failed,   \* history: the last rewrite failed
          call      \* history: the key and value of the set() just made, or None

counts == <<crashes, faults>>
vars == <<driver, now, entries, file, timer, up, counts, apart, failed, call>>

Entry(k, v, ttl) == [key |-> k, value |-> v, expires |-> IF ttl = 0 THEN 0 ELSE now + ttl]
Expired(e) == e.expires # 0 /\ e.expires <= now
At(es, k) == {i \in DOMAIN es : es[i].key = k}
Dead(es) == {i \in DOMAIN es : Expired(es[i])}

Init ==
    /\ driver \in Drivers
    /\ now = 0
    /\ entries = <<>> /\ file = <<>>
    /\ timer = None
    /\ up = TRUE
    /\ crashes = 0 /\ faults = 0
    /\ apart = None /\ failed = FALSE /\ call = None

-------------------------------------------------------------------------------
\* Map.set(): a key that is there keeps its place.
Put(es, e) ==
    IF At(es, e.key) = {} THEN Append(es, e)
    ELSE [i \in DOMAIN es |-> IF es[i].key = e.key THEN e ELSE es[i]]

\* enforceCap() of memory.ts, before the insertion: at the cap it sweeps, and then
\* evicts the oldest until one more fits.
MakeRoom(es) ==
    IF Len(es) < MaxEntries THEN es
    ELSE LET alive == Without(es, Dead(es))
             over == Len(alive) - (MaxEntries - 1)
         IN  IF over > 0 THEN SubSeq(alive, over + 1, Len(alive)) ELSE alive

\* enforceCap() of file.ts, after it: only as many go as are too many, the expired
\* ones first.
TooMany(es) == Len(es) - MaxEntries
\* Mutant: the newest entries go.
TrimNewest(es) == IF TooMany(es) <= 0 THEN es ELSE SubSeq(es, 1, MaxEntries)
Trim(es) ==
    IF TooMany(es) <= 0 THEN es
    ELSE LET rest == Without(es, {i \in Dead(es) : Rank(Dead(es), i) <= TooMany(es)})
         IN  IF TooMany(rest) > 0 THEN SubSeq(rest, TooMany(rest) + 1, Len(rest)) ELSE rest

\* persistNow(): the file takes the map, or the disk refuses.
PersistNow ==
    \/ file' = entries' /\ failed' = FALSE /\ UNCHANGED faults
    \/ faults < MaxFaults /\ faults' = faults + 1 /\ failed' = TRUE /\ UNCHANGED file

\* Mutant: every mutation starts the window again.
PersistDebounced ==
    CASE driver = "memory" -> UNCHANGED <<file, timer, faults, failed>>
      [] driver = "file" -> PersistNow /\ UNCHANGED timer
      [] driver = "coalesced" -> timer' = now + Coalesce /\ UNCHANGED <<file, faults, failed>>

\* persist(): now, or once within the window.
Persist ==
    CASE driver = "memory" -> UNCHANGED <<file, timer, faults, failed>>
      [] driver = "file" -> PersistNow /\ UNCHANGED timer
      [] driver = "coalesced" ->
            /\ timer' = IF timer = None THEN now + Coalesce ELSE timer
            /\ UNCHANGED <<file, faults, failed>>

Same == UNCHANGED <<file, timer, faults, failed>>
Call == up /\ UNCHANGED <<driver, now, up, crashes>>

Set(k, v, ttl) ==
    /\ Call
    /\ entries' = IF driver = "memory" THEN Put(MakeRoom(entries), Entry(k, v, ttl))
                  ELSE Trim(Put(entries, Entry(k, v, ttl)))
    /\ Persist

Delete(k) ==
    /\ Call
    /\ At(entries, k) # {}
    /\ entries' = Without(entries, At(entries, k))
    /\ Persist

\* get() of an expired entry deletes it.
GetExpired(k) ==
    /\ Call
    /\ \E i \in At(entries, k) : Expired(entries[i])
    /\ entries' = Without(entries, At(entries, k))
    /\ Persist

\* touch() does not look whether the entry has expired.
Touch(k, ttl) ==
    /\ Call
    /\ \E i \in At(entries, k) :
        /\ TouchesDead \/ ~Expired(entries[i])
        /\ entries' = [entries EXCEPT ![i] = Entry(k, @.value, ttl)]
    /\ Persist

\* The interval of the memory driver.
Sweep ==
    /\ Call
    /\ driver = "memory"
    /\ entries' = Without(entries, Dead(entries))
    /\ Same

\* The window of a coalesced write is over, or close() flushes it early.
Flush ==
    /\ Call
    /\ timer # None
    /\ timer' = None
    /\ UNCHANGED entries
    /\ PersistNow

Crash ==
    /\ up /\ crashes < MaxCrashes
    /\ crashes' = crashes + 1
    /\ up' = FALSE
    /\ entries' = <<>>
    /\ timer' = None
    /\ UNCHANGED <<driver, now, file, faults, failed>>

\* load(): the file, trimmed to the cap.
Restart ==
    /\ ~up
    /\ up' = TRUE
    /\ entries' = Trim(file)
    /\ failed' = FALSE
    /\ UNCHANGED <<driver, now, file, timer, counts>>

\* A due timer fires before the clock goes on.
Tick ==
    /\ now < MaxTime /\ timer # now
    /\ now' = now + 1
    /\ UNCHANGED <<driver, entries, file, timer, up, counts, failed>>

\* Every call but set(), and everything that is no call.
Other ==
    \/ \E k \in Keys :
        \/ \E ttl \in {0, Ttl} : Touch(k, ttl)
        \/ Delete(k) \/ GetExpired(k)
    \/ Sweep \/ Flush \/ Crash \/ Restart \/ Tick

Next ==
    /\ \/ \E k \in Keys, v \in Values, ttl \in {0, Ttl} : Set(k, v, ttl) /\ call' = <<k, v>>
       \/ Other /\ call' = None
    /\ apart' = IF ~up' \/ entries' = file' THEN None ELSE IF apart = None THEN now ELSE apart

Spec == Init /\ [][Next]_vars

-------------------------------------------------------------------------------
\* The trade-off of writeCoalesceMs is a bounded loss window, and without it there
\* is none: unless the disk refuses a write, the file is never behind the map for
\* longer than the window, whichever operation changed it.
LossBounded ==
    up /\ apart # None /\ ~failed =>
        CASE driver = "memory" -> TRUE
          [] driver = "file" -> FALSE
          [] driver = "coalesced" -> now - apart <= Coalesce

\* The cap is hard, at every moment and after every reload, and a key has one entry.
CapKept ==
    /\ Len(entries) <= MaxEntries
    /\ \A i, j \in DOMAIN entries : entries[i].key = entries[j].key => i = j

\* The drivers keep the contract of Store, crashes and refused writes included, as
\* long as touch() is for live entries: refinement of KeyValue.
ValueIn(es, k) == LET live == {i \in At(es, k) : ~Expired(es[i])}
                  IN  IF live = {} THEN None ELSE es[CHOOSE i \in live : TRUE].value
Contract == INSTANCE KeyValue WITH
    Gone <- None, open <- up,
    value <- [k \in Keys |-> ValueIn(entries, k)],
    saved <- [k \in Keys |-> ValueIn(file, k)]
KeyValueSpec == Contract!Spec
===============================================================================
