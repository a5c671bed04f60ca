-------------------------------- MODULE Sessions --------------------------------
(***************************************************************************)
(* Store-backed sessions: the requests of one client that load, change,     *)
(* touch, rotate, update and destroy a session                              *)
(* (packages/core/src/security/session.ts, plugins/session.ts) over a store *)
(* that applies its mutations one after the other                           *)
(* (security/session-store.ts).                                             *)
(*                                                                          *)
(* The data of a session is the set of requests whose change it holds.  A   *)
(* request does at most one operation, and after destroy() one more with    *)
(* the object that it still has.  A mutation may fail in the store.         *)
(* Cookies are taken as valid: their signature and expiry are pure          *)
(* functions.                                                               *)
(***************************************************************************)
EXTENDS FiniteSets, Integers, Sequences

CONSTANTS Requests,  \* the requests of one client
          Ids,       \* 1 .. n: bound on the session ids that are minted
          Creates,   \* createIfMissing of the plugin: "never", "eager" or "lazy"
          Rollings,  \* rolling
          None

Phases == {"new", "loading", "loaded", "handling", "awaiting", "rotating", "rotated",
           "destroyed", "afterwards", "ending", "done"}

\* What the constants must be.
SessionAssumption ==
    /\ 1 \in Ids /\ Ids \subseteq Nat \ {0}
    /\ None \notin Ids /\ None \notin Phases

VARIABLES create, rolling,  \* the options of the plugin
          rows,      \* rows[i]: the stored data of session i, or None
          chain,     \* mutationTail: the mutations not yet applied, oldest first
          minted,    \* the ids given out so far
          jar,       \* the session cookie of the client, or None
          phase,     \* phase[r]: how far request r is
          cookie,    \* cookie[r]: the cookie r came with
          sent,      \* sent[r]: the Set-Cookie of its response: an id, Cleared or None
          holds,     \* holds[r]: the id of the session object of r, or None
          old,       \* old[r]: oldId of its rotate(), or None
          data,      \* data[r]: the copy of the data in that object
          dead,      \* history: ids whose destroy() or rotate() has resolved
          late,      \* history: requests that came after that with such an id
          ever       \* history: ids that have had a row

history == <<dead, late, ever>>
vars == <<create, rolling, rows, chain, minted, jar, phase, cookie, sent, holds, old, data,
          history>>

\* The Set-Cookie that takes the cookie away.
Cleared == 0

Init ==
    /\ create \in Creates /\ rolling \in Rollings
    \* the client has no session yet, or has session 1 from an earlier visit
    /\ minted \in {{}, {1}}
    /\ rows = [i \in Ids |-> IF i \in minted THEN {} ELSE None]
    /\ jar = IF minted = {} THEN None ELSE 1
    /\ chain = <<>>
    /\ phase = [r \in Requests |-> "new"]
    /\ cookie = [r \in Requests |-> None]
    /\ sent = [r \in Requests |-> None]
    /\ holds = [r \in Requests |-> None]
    /\ old = [r \in Requests |-> None]
    /\ data = [r \in Requests |-> {}]
    /\ dead = {} /\ late = {} /\ ever = minted

-------------------------------------------------------------------------------
Writes(ms, i) == \E n \in 1 .. Len(ms) : ms[n].id = i /\ ms[n].kind # "delete"
HeldBy(r, i) == holds[r] = i /\ phase[r] # "done"

\* serialize(): the mutation joins the chain; `then` is the phase that the caller
\* goes to when it has been applied, None where nobody awaits it.
Mutation(kind, id, r, value, then) ==
    [kind |-> kind, id |-> id, by |-> r, value |-> value, then |-> then]
Enqueue(m) == chain' = Append(chain, m)

\* persist(): set() in the store, and only then the cookie.
Persist(r, id, value, then) == Enqueue(Mutation("set", id, r, value, then))

\* Mutant: the id of a cookie whose row is gone is used again.
CreateNewAdopts(r, then) ==
    \E id \in Ids :
        /\ id = cookie[r] \/ (cookie[r] = None /\ id \notin minted /\ \A i \in Ids \ minted : id <= i)
        /\ minted' = minted \cup {id}
        /\ holds' = [holds EXCEPT ![r] = id]
        /\ data' = [data EXCEPT ![r] = {}]
        /\ Persist(r, id, {}, then)
\* createNew(): the object, the row, then the cookie.
CreateNew(r, then) ==
    \E id \in Ids \ minted :
        /\ \A i \in Ids \ minted : id <= i
        /\ minted' = minted \cup {id}
        /\ holds' = [holds EXCEPT ![r] = id]
        /\ data' = [data EXCEPT ![r] = {}]
        /\ Persist(r, id, {}, then)

-------------------------------------------------------------------------------
\* A request comes with the cookie the client has now.
Arrive(r) ==
    /\ phase[r] = "new"
    /\ phase' = [phase EXCEPT ![r] = "loading"]
    /\ cookie' = [cookie EXCEPT ![r] = jar]
    /\ late' = IF jar \in dead THEN late \cup {r} ELSE late
    /\ UNCHANGED <<create, rolling, rows, chain, minted, jar, sent, holds, old, data, dead, ever>>

Row(id) == IF id = None THEN None ELSE rows[id]

\* resolveSession() finds the row and makes a session object of it.
Load(r) ==
    /\ phase[r] = "loading"
    /\ Row(cookie[r]) # None
    /\ holds' = [holds EXCEPT ![r] = cookie[r]]
    /\ data' = [data EXCEPT ![r] = rows[cookie[r]]]
    /\ phase' = [phase EXCEPT ![r] = "loaded"]
    /\ UNCHANGED <<create, rolling, rows, chain, minted, jar, cookie, sent, old, history>>

\* attachExisting(), an await later: with `rolling` the session is persisted once
\* more, with the data as it was read, before the handler runs.
Attach(r) ==
    /\ phase[r] = "loaded"
    /\ IF rolling
       THEN /\ Persist(r, holds[r], data[r], "handling")
            /\ phase' = [phase EXCEPT ![r] = "awaiting"]
       ELSE /\ phase' = [phase EXCEPT ![r] = "handling"]
            /\ UNCHANGED chain
    /\ UNCHANGED <<create, rolling, rows, minted, jar, cookie, sent, holds, old, data, history>>

\* No session: a cookie whose row is gone is cleared; the session is created now,
\* later or never.
Missing(r) ==
    /\ phase[r] = "loading"
    /\ Row(cookie[r]) = None
    /\ sent' = IF cookie[r] # None THEN [sent EXCEPT ![r] = Cleared] ELSE sent
    /\ IF create = "eager"
       THEN CreateNew(r, "handling") /\ phase' = [phase EXCEPT ![r] = "awaiting"]
       ELSE /\ phase' = [phase EXCEPT ![r] = "handling"]
            /\ UNCHANGED <<chain, minted, holds, data>>
    /\ UNCHANGED <<create, rolling, rows, jar, cookie, old, history>>

\* getSession() of a lazy session: loadOrCreate() looks the cookie up again.
ReadLazy(r) ==
    /\ phase[r] = "handling" /\ holds[r] = None /\ create = "lazy"
    /\ IF Row(cookie[r]) # None
       THEN /\ holds' = [holds EXCEPT ![r] = cookie[r]]
            /\ data' = [data EXCEPT ![r] = rows[cookie[r]]]
            /\ UNCHANGED <<phase, chain, minted>>
       ELSE CreateNew(r, "handling") /\ phase' = [phase EXCEPT ![r] = "awaiting"]
    /\ UNCHANGED <<create, rolling, rows, jar, cookie, sent, old, history>>

\* The handler has a session object; destroy() does not take it away.
InHand(r) == phase[r] \in {"handling", "afterwards"} /\ holds[r] # None

\* The handler changes its copy and calls save().
Save(r) ==
    /\ InHand(r)
    /\ data' = [data EXCEPT ![r] = @ \cup {r}]
    /\ Persist(r, holds[r], data[r] \cup {r}, "ending")
    /\ phase' = [phase EXCEPT ![r] = "awaiting"]
    /\ UNCHANGED <<create, rolling, rows, minted, jar, cookie, sent, holds, old, history>>

\* touch() persists too, and is not awaited.
Touch(r) ==
    /\ InHand(r)
    /\ Persist(r, holds[r], data[r], None)
    /\ phase' = [phase EXCEPT ![r] = "ending"]
    /\ UNCHANGED <<create, rolling, rows, minted, jar, cookie, sent, holds, old, data, history>>

\* The application changes the row with update() of the store.
Update(r) ==
    /\ InHand(r)
    /\ Enqueue(Mutation("read", holds[r], r, {}, "ending"))
    /\ phase' = [phase EXCEPT ![r] = "awaiting"]
    /\ UNCHANGED <<create, rolling, rows, minted, jar, cookie, sent, holds, old, data, history>>

Destroy(r) ==
    /\ InHand(r)
    /\ Enqueue(Mutation("delete", holds[r], r, {}, "destroyed"))
    /\ phase' = [phase EXCEPT ![r] = "awaiting"]
    /\ UNCHANGED <<create, rolling, rows, minted, jar, cookie, sent, holds, old, data, history>>

\* rotate(): the same data under a fresh id first ...
Rotate(r) ==
    /\ InHand(r)
    /\ old' = [old EXCEPT ![r] = holds[r]]
    /\ \E id \in Ids \ minted :
        /\ \A i \in Ids \ minted : id <= i
        /\ minted' = minted \cup {id}
        /\ holds' = [holds EXCEPT ![r] = id]
        /\ Persist(r, id, data[r], "rotating")
    /\ phase' = [phase EXCEPT ![r] = "awaiting"]
    /\ UNCHANGED <<create, rolling, rows, jar, cookie, sent, data, history>>

\* ... then the old row is deleted.
Rotated(r) ==
    /\ phase[r] = "rotating"
    /\ Enqueue(Mutation("delete", old[r], r, {}, "rotated"))
    /\ phase' = [phase EXCEPT ![r] = "awaiting"]
    /\ UNCHANGED <<create, rolling, rows, minted, jar, cookie, sent, holds, old, data, history>>

\* destroy() resolves: the cookie goes, the object stays with the handler.
Destroyed(r) ==
    /\ phase[r] = "destroyed"
    /\ dead' = dead \cup {holds[r]}
    /\ sent' = [sent EXCEPT ![r] = Cleared]
    /\ phase' = [phase EXCEPT ![r] = "afterwards"]
    /\ UNCHANGED <<create, rolling, rows, chain, minted, jar, cookie, holds, old, data, late, ever>>

\* rotate() resolves, also when the old row could not be deleted.
Renewed(r) ==
    /\ phase[r] = "rotated"
    /\ dead' = dead \cup {old[r]}
    /\ phase' = [phase EXCEPT ![r] = "ending"]
    /\ UNCHANGED <<create, rolling, rows, chain, minted, jar, cookie, sent, holds, old, data, late,
                   ever>>

\* The response reaches the client, which keeps the cookie or drops it.
Respond(r) ==
    /\ phase[r] \in {"handling", "afterwards", "ending"}
    /\ phase' = [phase EXCEPT ![r] = "done"]
    /\ jar' = IF sent[r] = None THEN jar ELSE IF sent[r] = Cleared THEN None ELSE sent[r]
    /\ UNCHANGED <<create, rolling, rows, chain, minted, cookie, sent, holds, old, data, history>>

-------------------------------------------------------------------------------
\* update() has read: the write comes before any other mutation.
Changed(m) == [m EXCEPT !.kind = "write",
                        !.value = (IF rows[m.id] = None THEN {} ELSE rows[m.id]) \cup {m.by}]
\* Mutant: the write joins the chain like a mutation of its own.
WrittenLater(m) == Append(Tail(chain), Changed(m))
Written(m) == <<Changed(m)>> \o Tail(chain)

\* The store applies the next mutation and its caller goes on: persist() writes
\* the cookie, too late for a response that has left.  update() reads, runs the
\* updater, and writes before the chain moves on.
Apply ==
    /\ chain # <<>>
    /\ LET m == Head(chain)
           r == m.by
       IN  /\ rows' = CASE m.kind \in {"set", "write"} -> [rows EXCEPT ![m.id] = m.value]
                        [] m.kind = "delete" -> [rows EXCEPT ![m.id] = None]
                        [] m.kind = "read" -> rows
           /\ ever' = IF m.kind = "set" THEN ever \cup {m.id} ELSE ever
           /\ IF m.kind = "read"
              THEN /\ chain' = Written(m)
                   /\ UNCHANGED <<phase, sent>>
              ELSE /\ chain' = Tail(chain)
                   /\ phase' = IF m.then = None THEN phase ELSE [phase EXCEPT ![r] = m.then]
                   /\ sent' = IF m.kind = "set" /\ phase[r] # "done" THEN [sent EXCEPT ![r] = m.id] ELSE sent
    /\ UNCHANGED <<create, rolling, minted, jar, cookie, holds, old, data, dead, late>>

\* The store rejects the next mutation: the chain goes on, and the rejection ends the
\* request that awaits it.  rotate() and touch() swallow it.
ApplyFails ==
    /\ chain # <<>>
    /\ chain' = Tail(chain)
    /\ LET m == Head(chain)
       IN  phase' = IF m.then = None THEN phase
                    ELSE [phase EXCEPT ![m.by] = IF m.then = "rotated" THEN "rotated" ELSE "ending"]
    /\ UNCHANGED <<create, rolling, rows, minted, jar, cookie, sent, holds, old, data, history>>

\* External: the row expires, or the store has lost it in a restart.
Expire(i) ==
    /\ rows[i] # None
    /\ rows' = [rows EXCEPT ![i] = None]
    /\ UNCHANGED <<create, rolling, chain, minted, jar, phase, cookie, sent, holds, old, data,
                   history>>

Next ==
    \/ \E r \in Requests :
        \/ Arrive(r) \/ Load(r) \/ Attach(r) \/ Missing(r) \/ ReadLazy(r)
        \/ Save(r) \/ Touch(r) \/ Update(r) \/ Destroy(r) \/ Destroyed(r)
        \/ Rotate(r) \/ Rotated(r) \/ Renewed(r) \/ Respond(r)
    \/ Apply \/ ApplyFails
    \/ \E i \in Ids : Expire(i)

Spec == Init /\ [][Next]_vars

-------------------------------------------------------------------------------
\* No cookie is sent, nor kept by the client, for an id whose first row still waits
\* in the chain: the client can never come back before its session exists.
CookieAfterRow == \A i \in Ids : i = jar \/ (\E r \in Requests : sent[r] = i) => i \in ever

\* update() loses nothing: while only update() writes a row, it keeps every
\* change that it has held.
UpdateKeepsChanges ==
    [][\A i \in Ids :
        /\ rows[i] # None
        /\ \E n \in 1 .. Len(chain) : /\ chain[n].kind = "write" /\ chain[n].id = i
                                       /\ chain' = Tail(chain) /\ rows'[i] = chain[n].value
        => rows[i] \subseteq rows'[i]]_vars

\* Nothing is left of a session: no row, no write of it in the chain, no request that
\* has an object of it.
Gone(i) ==
    /\ i \in minted /\ rows[i] = None /\ ~Writes(chain, i)
    /\ \A r \in Requests : ~HeldBy(r, i)

\* A deleted session comes back only through a request that read it before the
\* delete, or that deleted it and goes on with its object: once nothing is left
\* of an id it never has a row again and is never handed out again, whoever
\* still comes with its cookie.
BuriedForGood == [][\A i \in Ids : Gone(i) => Gone(i)']_vars

\* "the old cookie value is dead immediately": a request that comes with an id
\* whose rotate() or destroy() has resolved gets no session.
DeadCookieRefused == \A r \in late : holds[r] # cookie[r]
===============================================================================
