----------------------------- MODULE StoresProofs -----------------------------
(***************************************************************************)
(* What the sessions and the key-value drivers promise, for any number of   *)
(* requests, session ids, keys and crashes.                                 *)
(***************************************************************************)
EXTENDS DataLayer, FiniteSetTheorems, SequenceTheorems, TLAPS

Mutations == [kind : {"set", "read", "write", "delete"}, id : Ids, by : Pair,
              value : SUBSET Pair, then : Sessions!Phases \cup {None}]

SessionTypes ==
    /\ rows \in [Ids -> (SUBSET Pair) \cup {None}]
    /\ chain \in Seq(Mutations)
    /\ minted \subseteq Ids
    /\ sessPhase \in [Pair -> Sessions!Phases]
    /\ jar \in minted \cup {None}
    /\ cookie \in [Pair -> minted \cup {None}]
    /\ sent \in [Pair -> minted \cup {None, Sessions!Cleared}]
    /\ holds \in [Pair -> minted \cup {None}]
    /\ old \in [Pair -> minted \cup {None}]
    /\ data \in [Pair -> SUBSET Pair]

\* A mutation that its caller awaits: the caller waits for this one and no other.
Awaited(m) == m.then # None
OneAwaited ==
    /\ \A n \in 1 .. Len(chain) : Awaited(chain[n]) => sessPhase[chain[n].by] = "awaiting"
    /\ \A m, n \in 1 .. Len(chain) :
          Awaited(chain[m]) /\ Awaited(chain[n]) /\ chain[m].by = chain[n].by => m = n

\* A mutation is about an id that was given out; who rotates has an old id, who has
\* found a row has a session.
Firm(r, there) == (there = "rotating" => old[r] # None) /\ (there = "loaded" => holds[r] # None)
Proper(m) ==
    /\ m.id \in minted
    /\ m.then \notin {"awaiting", "loaded"} /\ (m.then = "rotating" => old[m.by] # None)
AllProper ==
    /\ \A n \in 1 .. Len(chain) : Proper(chain[n])
    /\ \A r \in Pair : Firm(r, sessPhase[r])

\* The write of update() is at the head of the chain, and holds all that the row has.
WriteFirst ==
    \A n \in 1 .. Len(chain) : chain[n].kind = "write" =>
        /\ n = 1
        /\ rows[chain[n].id] # None => rows[chain[n].id] \subseteq chain[n].value

SessionIInv == SessionTypes /\ OneAwaited /\ AllProper /\ WriteFirst

-------------------------------------------------------------------------------
LEMMA Appended ==
    ASSUME NEW S, NEW s \in Seq(S), NEW e \in S
    PROVE  /\ Append(s, e) \in Seq(S)
           /\ Len(Append(s, e)) = Len(s) + 1
           /\ \A n \in 1 .. Len(s) : Append(s, e)[n] = s[n]
           /\ Append(s, e)[Len(s) + 1] = e
OBVIOUS

LEMMA SessionInit == ASSUME Sessions!SessionAssumption, Sessions!Init PROVE SessionIInv
BY DEF Sessions!Init, SessionIInv, SessionTypes, OneAwaited, AllProper, Firm, WriteFirst,
       Sessions!Phases, Sessions!SessionAssumption, Sessions!Cleared

\* What a request does to the chain: nothing, or one mutation at its end, which
\* it did not await anything else for.  What it has written is its own session.
JoinsChain(r, m) ==
    /\ m \in Mutations /\ m.by = r /\ m.kind # "write"
    /\ m.then # None => sessPhase'[r] = "awaiting"
    /\ chain' = Append(chain, m)
    /\ m.kind # "delete" => m.id = holds'[r]

\* One request goes on; the store stays.  A session that it gets is new, or has a row.
RequestMoves(r) ==
    /\ UNCHANGED rows
    /\ sessPhase[r] \notin {"awaiting", "done"} /\ Firm(r, sessPhase[r])'
    /\ \A q \in Pair \ {r} :
          sessPhase'[q] = sessPhase[q] /\ holds'[q] = holds[q] /\ old'[q] = old[q]
    /\ holds'[r] # holds[r] => holds'[r] \notin minted \/ rows[holds'[r]] # None
    /\ minted \subseteq minted'
    /\ \/ chain' = chain
       \/ \E m \in Mutations : JoinsChain(r, m) /\ Proper(m)'

LEMMA RequestKeeps ==
    ASSUME Sessions!SessionAssumption, SessionIInv, NEW r \in Pair, RequestMoves(r), SessionTypes'
    PROVE  SessionIInv'
<1> USE DEF RequestMoves
<1>0. /\ chain \in Seq(Mutations) /\ chain' \in Seq(Mutations)
      /\ sessPhase \in [Pair -> Sessions!Phases]
  BY DEF SessionIInv, SessionTypes
<1>1. \A n \in 1 .. Len(chain) : chain[n] \in Mutations
  BY <1>0, ElementOfSeq
<1>2. \A n \in 1 .. Len(chain) : Awaited(chain[n]) => chain[n].by # r
  BY DEF SessionIInv, OneAwaited
<1>3. \A m \in Mutations : Proper(m) /\ (Awaited(m) => m.by # r) => Proper(m)'
  BY DEF Proper, Mutations, Awaited, Sessions!SessionAssumption, Sessions!Phases
<1>4. \A n \in 1 .. Len(chain) : Proper(chain[n]) /\ (chain'[n] = chain[n] => Proper(chain[n])')
  BY <1>1, <1>2, <1>3 DEF SessionIInv, AllProper
<1>5. \A q \in Pair : Firm(q, sessPhase[q])'
  BY DEF SessionIInv, AllProper, Firm
<1>7. CASE chain' = chain
  <2>1. OneAwaited'
    BY <1>1, <1>2, <1>7 DEF SessionIInv, OneAwaited, Awaited, Mutations
  <2>2. AllProper'
    BY <1>4, <1>5, <1>7 DEF AllProper
  <2>3. WriteFirst'
    BY <1>7 DEF SessionIInv, WriteFirst
  <2> QED
    BY <2>1, <2>2, <2>3 DEF SessionIInv
<1>8. CASE \E m \in Mutations : JoinsChain(r, m) /\ Proper(m)'
  <2>0. PICK m \in Mutations : JoinsChain(r, m) /\ Proper(m)'
    BY <1>8
  <2>1. /\ Len(chain') = Len(chain) + 1 /\ Len(chain) \in Nat
        /\ \A n \in 1 .. Len(chain) : chain'[n] = chain[n]
        /\ chain'[Len(chain) + 1] = m
    BY <1>0, <2>0, Appended DEF JoinsChain
  <2>2. \A n \in 1 .. Len(chain') : n \in 1 .. Len(chain) \/ n = Len(chain) + 1
    BY <2>1
  <2>3. OneAwaited'
    BY <1>1, <1>2, <2>0, <2>1, <2>2 DEF SessionIInv, OneAwaited, Awaited, Mutations, JoinsChain
  <2>4. AllProper'
    BY <1>4, <1>5, <2>0, <2>1, <2>2 DEF AllProper
  <2>5. WriteFirst'
    BY <2>0, <2>1, <2>2 DEF SessionIInv, WriteFirst, JoinsChain
  <2> QED
    BY <2>3, <2>4, <2>5 DEF SessionIInv
<1> QED
  BY <1>7, <1>8

\* Nothing that one request does brings back a session of which nothing is left.
LEMMA RequestLeavesGone ==
    ASSUME Sessions!SessionAssumption, SessionIInv, NEW r \in Pair, RequestMoves(r),
           NEW i \in Ids, Sessions!Gone(i)
    PROVE  Sessions!Gone(i)'
<1> USE DEF RequestMoves
<1>1. holds'[r] # i
  BY DEF Sessions!Gone, Sessions!HeldBy
<1>2. \A q \in Pair : ~Sessions!HeldBy(q, i)'
  BY <1>1 DEF Sessions!Gone, Sessions!HeldBy
<1>3. CASE chain' = chain
  BY <1>2, <1>3 DEF Sessions!Gone
<1>4. CASE \E m \in Mutations : JoinsChain(r, m) /\ Proper(m)'
  <2>0. PICK m \in Mutations : JoinsChain(r, m)
    BY <1>4
  <2>1. /\ Len(chain') = Len(chain) + 1 /\ Len(chain) \in Nat
        /\ \A n \in 1 .. Len(chain) : chain'[n] = chain[n]
        /\ chain'[Len(chain) + 1] = m
    BY <2>0, Appended DEF JoinsChain, SessionIInv, SessionTypes
  <2>2. \A n \in 1 .. Len(chain') : n \in 1 .. Len(chain) \/ n = Len(chain) + 1
    BY <2>1
  <2>3. ~Sessions!Writes(chain', i)
    BY <1>1, <2>0, <2>1, <2>2 DEF Sessions!Gone, Sessions!Writes, JoinsChain
  <2> QED
    BY <1>2, <2>3 DEF Sessions!Gone
<1> QED
  BY <1>3, <1>4

-------------------------------------------------------------------------------
\* A mutation joins the chain.
LEMMA Enqueued ==
    ASSUME Sessions!SessionAssumption, SessionIInv, NEW kind \in {"set", "read", "delete"},
           NEW id \in Ids,
           NEW r \in Pair, NEW value \in SUBSET Pair,
           NEW then \in {"handling", "ending", "rotating", "destroyed", "rotated", None},
           Sessions!Enqueue(Sessions!Mutation(kind, id, r, value, then)),
           then # None => sessPhase'[r] = "awaiting",
           id \in minted', kind # "delete" => id = holds'[r],
           then = "rotating" => (old[r] # None)'
    PROVE  /\ chain' \in Seq(Mutations)
           /\ \E m \in Mutations : JoinsChain(r, m) /\ Proper(m)'
<1>1. PICK m : m = Sessions!Mutation(kind, id, r, value, then)
  OBVIOUS
<1>2. /\ m \in Mutations
      /\ m.kind = kind /\ m.id = id /\ m.by = r /\ m.then = then
  BY <1>1 DEF Sessions!Mutation, Mutations, Sessions!Phases
<1>3. chain' = Append(chain, m)
  BY <1>1 DEF Sessions!Enqueue
<1>4. chain' \in Seq(Mutations)
  BY <1>2, <1>3, Appended DEF SessionIInv, SessionTypes
<1>5. JoinsChain(r, m)
  BY <1>2, <1>3 DEF JoinsChain
<1>6. Proper(m)'
  BY <1>2 DEF Proper, Sessions!SessionAssumption, Sessions!Phases
<1> QED
  BY <1>2, <1>4, <1>5, <1>6

LEMMA ArriveMoves == ASSUME Sessions!SessionAssumption, SessionIInv, NEW r \in Pair,
                            Sessions!Arrive(r)
                     PROVE  RequestMoves(r) /\ SessionTypes'
BY DEF Sessions!Arrive, RequestMoves, Firm, SessionIInv, SessionTypes, Sessions!Phases

LEMMA LoadMoves == ASSUME Sessions!SessionAssumption, SessionIInv, NEW r \in Pair,
                          Sessions!Load(r)
                   PROVE  RequestMoves(r) /\ SessionTypes'
<1> USE DEF Sessions!Load, Sessions!history
<1>1. /\ cookie[r] \in minted /\ cookie[r] # None
      /\ rows[cookie[r]] \in SUBSET Pair /\ rows[cookie[r]] # None
  BY DEF SessionIInv, SessionTypes, Sessions!Row
<1> QED
  BY <1>1 DEF RequestMoves, Firm, SessionIInv, SessionTypes, Sessions!Phases

LEMMA AttachMoves == ASSUME Sessions!SessionAssumption, SessionIInv, NEW r \in Pair,
                            Sessions!Attach(r)
                     PROVE  RequestMoves(r) /\ SessionTypes'
<1> USE DEF Sessions!Attach, Sessions!history
<1>1. holds[r] # None
  BY DEF SessionIInv, AllProper, Firm
<1>2. CASE ~rolling
  BY <1>2 DEF RequestMoves, Firm, SessionIInv, SessionTypes, Sessions!Phases
<1>3. CASE rolling
  <2>1. holds[r] \in minted /\ data[r] \in SUBSET Pair
    BY <1>1 DEF SessionIInv, SessionTypes
  <2>2. chain' \in Seq(Mutations) /\ \E m \in Mutations : JoinsChain(r, m) /\ Proper(m)'
    BY <1>3, <2>1, Enqueued DEF Sessions!Persist, SessionIInv, SessionTypes, Sessions!Phases
  <2>3. SessionTypes'
    BY <1>3, <2>2 DEF SessionIInv, SessionTypes, Sessions!Phases
  <2> QED
    BY <1>3, <2>2, <2>3 DEF RequestMoves, Firm, SessionIInv, SessionTypes
<1> QED
  BY <1>2, <1>3

\* A new session: its id has never been given out.
LEMMA CreateNewMoves ==
    ASSUME Sessions!SessionAssumption, SessionIInv, NEW r \in Pair, Sessions!CreateNew(r,
           "handling"),
           sessPhase[r] \in {"loading", "handling"}, sessPhase' = [sessPhase EXCEPT ![r]
               = "awaiting"],
           sent' \in [Pair -> minted' \cup {None, Sessions!Cleared}],
           UNCHANGED <<rows, jar, cookie, old>>
    PROVE  RequestMoves(r) /\ SessionTypes'
<1>1. PICK id \in Ids \ minted :
        /\ minted' = minted \cup {id}
        /\ holds' = [holds EXCEPT ![r] = id]
        /\ data' = [data EXCEPT ![r] = {}]
        /\ Sessions!Persist(r, id, {}, "handling")
  BY DEF Sessions!CreateNew
<1>2. chain' \in Seq(Mutations) /\ \E m \in Mutations : JoinsChain(r, m) /\ Proper(m)'
  BY <1>1, Enqueued DEF Sessions!Persist, SessionIInv, SessionTypes
<1>4. SessionTypes'
  BY <1>1, <1>2 DEF SessionIInv, SessionTypes, Sessions!Phases
<1> QED
  BY <1>1, <1>2, <1>4 DEF RequestMoves, Firm, SessionIInv, SessionTypes

LEMMA MissingMoves == ASSUME Sessions!SessionAssumption, SessionIInv, NEW r \in Pair,
                             Sessions!Missing(r)
                      PROVE  RequestMoves(r) /\ SessionTypes'
<1> USE DEF Sessions!Missing, Sessions!history
<1>1. sent' \in [Pair -> minted \cup {None, Sessions!Cleared}]
  BY DEF SessionIInv, SessionTypes
<1>2. CASE create = "eager"
  <2>1. sent' \in [Pair -> minted' \cup {None, Sessions!Cleared}]
    BY <1>1, <1>2 DEF Sessions!CreateNew
  <2> QED
    BY <1>2, <2>1, CreateNewMoves
<1>3. CASE create # "eager"
  BY <1>1, <1>3
  DEF RequestMoves, Firm, SessionIInv, SessionTypes, Sessions!Phases
<1> QED
  BY <1>2, <1>3

LEMMA ReadLazyMoves == ASSUME Sessions!SessionAssumption, SessionIInv, NEW r \in Pair,
                              Sessions!ReadLazy(r)
                       PROVE  RequestMoves(r) /\ SessionTypes'
<1> USE DEF Sessions!ReadLazy, Sessions!history
<1>1. CASE Sessions!Row(cookie[r]) # None
  <2>1. cookie[r] \in minted /\ rows[cookie[r]] \in SUBSET Pair /\ rows[cookie[r]] # None
    BY <1>1 DEF SessionIInv, SessionTypes, Sessions!Row
  <2> QED
    BY <1>1, <2>1
    DEF RequestMoves, Firm, SessionIInv, SessionTypes, Sessions!Phases
<1>2. CASE Sessions!Row(cookie[r]) = None
  <2>1. sent' \in [Pair -> minted' \cup {None, Sessions!Cleared}]
    BY <1>2 DEF Sessions!CreateNew, SessionIInv, SessionTypes
  <2> QED
    BY <1>2, <2>1, CreateNewMoves
<1> QED
  BY <1>1, <1>2

\* The handler changes the session it holds, or has it changed or deleted.
LEMMA HandlerMoves ==
    ASSUME Sessions!SessionAssumption, SessionIInv, NEW r \in Pair,
           Sessions!Save(r) \/ Sessions!Touch(r) \/ Sessions!Update(r) \/ Sessions!Destroy(r)
    PROVE  RequestMoves(r) /\ SessionTypes'
<1> USE DEF Sessions!Save, Sessions!Touch, Sessions!Update, Sessions!Destroy, Sessions!history
<1>1. sessPhase[r] \in {"handling", "afterwards"} /\ holds[r] \in minted
  BY DEF SessionIInv, SessionTypes, Sessions!InHand
<1>2. \E kind \in {"set", "read", "delete"}, value \in SUBSET Pair,
         then \in {"ending", "destroyed", None} :
        /\ Sessions!Enqueue(Sessions!Mutation(kind, holds[r], r, value, then))
        /\ then = "destroyed" <=> kind = "delete"
        /\ then # None => sessPhase' = [sessPhase EXCEPT ![r] = "awaiting"]
        /\ then = None => sessPhase' = [sessPhase EXCEPT ![r] = "ending"]
  BY <1>1
  DEF Sessions!Persist, SessionIInv, SessionTypes, Sessions!SessionAssumption,
      Sessions!Phases
<1>3. PICK kind \in {"set", "read", "delete"}, value \in SUBSET Pair,
           then \in {"ending", "destroyed", None} :
        /\ Sessions!Enqueue(Sessions!Mutation(kind, holds[r], r, value, then))
        /\ then = "destroyed" <=> kind = "delete"
        /\ then # None => sessPhase' = [sessPhase EXCEPT ![r] = "awaiting"]
        /\ then = None => sessPhase' = [sessPhase EXCEPT ![r] = "ending"]
  BY <1>2
<1>4. chain' \in Seq(Mutations) /\ \E m \in Mutations : JoinsChain(r, m) /\ Proper(m)'
  BY <1>1, <1>3, Enqueued
  DEF SessionIInv, SessionTypes, Sessions!SessionAssumption, Sessions!Phases
<1>5. data' \in [Pair -> SUBSET Pair] /\ sessPhase' \in [Pair -> Sessions!Phases]
  BY <1>1 DEF SessionIInv, SessionTypes, Sessions!Phases
<1>6. SessionTypes'
  BY <1>1, <1>4, <1>5 DEF SessionIInv, SessionTypes, Sessions!Phases
<1> QED
  BY <1>1, <1>3, <1>4, <1>6
  DEF RequestMoves, Firm, SessionIInv, SessionTypes, Sessions!Phases

\* rotate() takes a fresh id, and has the old row deleted when the new one is stored.
LEMMA RotateMoves == ASSUME Sessions!SessionAssumption, SessionIInv, NEW r \in Pair,
                            Sessions!Rotate(r)
                     PROVE  RequestMoves(r) /\ SessionTypes'
<1> USE DEF Sessions!Rotate, Sessions!history, Sessions!InHand
<1>1. PICK id \in Ids \ minted :
        /\ minted' = minted \cup {id}
        /\ holds' = [holds EXCEPT ![r] = id]
        /\ Sessions!Persist(r, id, data[r], "rotating")
  OBVIOUS
<1>2. holds'[r] = id /\ data[r] \in SUBSET Pair
  BY <1>1 DEF SessionIInv, SessionTypes
<1>3. (old[r] # None)' /\ old' \in [Pair -> minted' \cup {None}]
  BY <1>1 DEF SessionIInv, SessionTypes
<1>a. sessPhase'[r] = "awaiting" /\ sessPhase' \in [Pair -> Sessions!Phases]
  BY DEF SessionIInv, SessionTypes, Sessions!Phases
<1>4. chain' \in Seq(Mutations) /\ \E m \in Mutations : JoinsChain(r, m) /\ Proper(m)'
  BY <1>1, <1>2, <1>3, <1>a, Enqueued DEF Sessions!Persist
<1>5. SessionTypes'
  BY <1>1, <1>3, <1>4, <1>a DEF SessionIInv, SessionTypes
<1> QED
  BY <1>1, <1>2, <1>4, <1>5, <1>a DEF RequestMoves, Firm, SessionIInv, SessionTypes

LEMMA RotatedMoves == ASSUME Sessions!SessionAssumption, SessionIInv, NEW r \in Pair,
                             Sessions!Rotated(r)
                      PROVE  RequestMoves(r) /\ SessionTypes'
<1> USE DEF Sessions!Rotated, Sessions!history
<1>1. old[r] \in minted
  BY DEF SessionIInv, SessionTypes, AllProper, Firm
<1>2. chain' \in Seq(Mutations) /\ \E m \in Mutations : JoinsChain(r, m) /\ Proper(m)'
  BY <1>1, Enqueued DEF SessionIInv, SessionTypes
<1>4. SessionTypes'
  BY <1>1, <1>2 DEF SessionIInv, SessionTypes, Sessions!Phases
<1> QED
  BY <1>1, <1>2, <1>4 DEF RequestMoves, Firm, SessionIInv, SessionTypes

LEMMA EndMoves == ASSUME Sessions!SessionAssumption, SessionIInv, NEW r \in Pair,
                         Sessions!Destroyed(r) \/ Sessions!Renewed(r) \/ Sessions!Respond(r)
                  PROVE  RequestMoves(r) /\ SessionTypes'
<1> USE DEF Sessions!Destroyed, Sessions!Renewed, Sessions!Respond, Sessions!history
<1>1. sessPhase' \in [Pair -> Sessions!Phases] /\ jar' \in minted \cup {None}
  BY DEF SessionIInv, SessionTypes, Sessions!Phases
<1>2. sent' \in [Pair -> minted \cup {None, Sessions!Cleared}]
  BY DEF SessionIInv, SessionTypes
<1>4. SessionTypes'
  BY <1>1, <1>2 DEF SessionIInv, SessionTypes
<1> QED
  BY <1>4 DEF RequestMoves, Firm, SessionIInv, SessionTypes, Sessions!Phases

-------------------------------------------------------------------------------
LEMMA ExpireKeeps == ASSUME Sessions!SessionAssumption, SessionIInv, NEW i \in Ids,
                            Sessions!Expire(i)
                     PROVE  SessionIInv'
<1> USE DEF Sessions!Expire, Sessions!history
<1>1. SessionTypes'
  BY DEF SessionIInv, SessionTypes
<1>2. OneAwaited' /\ AllProper'
  BY DEF SessionIInv, OneAwaited, AllProper, Proper, Firm
<1>3. \A j \in Ids : rows'[j] \in {rows[j], None}
  BY DEF SessionIInv, SessionTypes
<1>4. WriteFirst'
  BY <1>3, ElementOfSeq DEF SessionIInv, SessionTypes, WriteFirst, Mutations
<1> QED
  BY <1>1, <1>2, <1>4 DEF SessionIInv

\* What the sequence operators of Apply give.
LEMMA Shortened ==
    ASSUME NEW S, NEW s \in Seq(S), s # <<>>, NEW e \in S
    PROVE  /\ Len(s) \in Nat \ {0} /\ Head(s) = s[1] /\ s[1] \in S
           /\ Tail(s) \in Seq(S) /\ Len(Tail(s)) = Len(s) - 1
           /\ \A n \in 1 .. Len(s) - 1 : Tail(s)[n] = s[n + 1]
           /\ <<e>> \o Tail(s) \in Seq(S) /\ Len(<<e>> \o Tail(s)) = Len(s)
           /\ (<<e>> \o Tail(s))[1] = e
           /\ \A n \in 2 .. Len(s) : (<<e>> \o Tail(s))[n] = s[n]
OBVIOUS

\* The head of the chain is done with, and who awaits it goes on.
LEMMA HeadLeaves ==
    ASSUME Sessions!SessionAssumption, SessionIInv, chain # <<>>, chain' = Tail(chain),
           NEW m, m = Head(chain), UNCHANGED <<minted, jar, cookie, holds, old, data>>,
           NEW there \in {m.then, "rotated", "ending"},
           sessPhase' = IF m.then = None THEN sessPhase ELSE [sessPhase EXCEPT ![m.by] = there],
           rows' \in [Ids -> (SUBSET Pair) \cup {None}],
           sent' \in [Pair -> minted \cup {None, Sessions!Cleared}]
    PROVE  SessionIInv'
<1> DEFINE r == m.by
<1>0. /\ m \in Mutations /\ m = chain[1] /\ 1 \in 1 .. Len(chain) /\ Len(chain) \in Nat
      /\ Proper(m)
  <2>1. m \in Mutations /\ m = chain[1] /\ Len(chain) \in Nat \ {0}
    BY Shortened DEF SessionIInv, SessionTypes
  <2> QED
    BY <2>1 DEF SessionIInv, AllProper
<1>1. \A n \in 1 .. Len(chain) : chain[n] \in Mutations
  BY ElementOfSeq DEF SessionIInv, SessionTypes
<1>b. \A o : Proper(o) => Proper(o)'
  BY DEF Proper
<1>3. \A n \in 2 .. Len(chain) : /\ chain[n].kind # "write"
                                 /\ Proper(chain[n])
                                 /\ Awaited(chain[n]) /\ Awaited(m) => chain[n].by # r
  <2>1. \A n \in 2 .. Len(chain) : n \in 1 .. Len(chain) /\ n # 1
    BY <1>0
  <2>2. \A n \in 2 .. Len(chain) : Proper(chain[n])
    BY <2>1 DEF SessionIInv, AllProper
  <2> QED
    BY <1>0, <2>1, <2>2 DEF SessionIInv, OneAwaited, WriteFirst
<1>4. /\ chain' \in Seq(Mutations) /\ Len(chain') = Len(chain) - 1
      /\ \A n \in 1 .. Len(chain') : chain'[n] = chain[n + 1] /\ n + 1 \in 2 .. Len(chain)
  BY <1>0, Shortened DEF SessionIInv, SessionTypes
<1>5. SessionTypes'
  <2>1. r \in Pair /\ m.then \in Sessions!Phases \cup {None}
    BY <1>0 DEF Mutations
  <2>2. sessPhase' \in [Pair -> Sessions!Phases]
    BY <2>1 DEF SessionIInv, SessionTypes, Sessions!Phases
  <2> QED
    BY <1>4, <2>2 DEF SessionIInv, SessionTypes
<1>6. \A q \in Pair :
         sessPhase'[q] = sessPhase[q] \/ (Awaited(m) /\ q = r /\ sessPhase'[q] = there)
  BY <1>0 DEF SessionIInv, SessionTypes, Awaited, Mutations
<1>7. OneAwaited'
  <2>1. \A n \in 1 .. Len(chain') :
           Awaited(chain'[n]) => sessPhase'[chain'[n].by] = "awaiting"
    BY <1>0, <1>1, <1>3, <1>4, <1>6 DEF SessionIInv, OneAwaited, Mutations
  <2>2. \A j, n \in 1 .. Len(chain') :
           Awaited(chain'[j]) /\ Awaited(chain'[n]) /\ chain'[j].by = chain'[n].by => j = n
    <3> SUFFICES ASSUME NEW j \in 1 .. Len(chain'), NEW n \in 1 .. Len(chain'),
                        Awaited(chain'[j]) /\ Awaited(chain'[n]) /\ chain'[j].by = chain'[n].by
                 PROVE  j = n
      OBVIOUS
    <3>1. j + 1 \in 1 .. Len(chain) /\ n + 1 \in 1 .. Len(chain) /\ j \in Int /\ n \in Int
      BY <1>4
    <3>2. j + 1 = n + 1
      BY <1>4, <3>1 DEF SessionIInv, OneAwaited
    <3> QED
      BY <3>1, <3>2
  <2> QED
    BY <2>1, <2>2 DEF OneAwaited, Awaited
<1>8. AllProper'
  <2>1. \A q \in Pair : Firm(q, sessPhase[q])'
    BY <1>0, <1>6 DEF SessionIInv, AllProper, Proper, Firm
  <2> QED
    BY <1>b, <1>3, <1>4, <2>1 DEF AllProper
<1>9. WriteFirst'
  BY <1>3, <1>4 DEF WriteFirst
<1> QED
  BY <1>5, <1>7, <1>8, <1>9 DEF SessionIInv

\* The store applies the head of the chain, or rejects it.
LEMMA ApplyFailsKeeps == ASSUME Sessions!SessionAssumption, SessionIInv, Sessions!ApplyFails
                         PROVE  SessionIInv'
<1> USE DEF Sessions!ApplyFails, Sessions!history
<1>1. PICK m : m = Head(chain)
  OBVIOUS
<1>2. rows' \in [Ids -> (SUBSET Pair) \cup {None}]
      /\ sent' \in [Pair -> minted \cup {None, Sessions!Cleared}]
  BY DEF SessionIInv, SessionTypes
<1>3. \E there \in {m.then, "rotated", "ending"} :
        sessPhase' = IF m.then = None THEN sessPhase ELSE [sessPhase EXCEPT ![m.by] = there]
  BY <1>1
<1> QED
  BY <1>1, <1>2, <1>3, HeadLeaves

LEMMA ApplyKeeps == ASSUME Sessions!SessionAssumption, SessionIInv, Sessions!Apply
                    PROVE  SessionIInv'
<1>a. PICK m : m = Head(chain)
  OBVIOUS
<1>0. /\ m \in Mutations /\ m = chain[1] /\ 1 \in 1 .. Len(chain)
      /\ Sessions!Changed(m) \in Mutations
      /\ Len(chain) \in Nat
      /\ Proper(m)
  <2>1. m \in Mutations /\ m = chain[1] /\ Len(chain) \in Nat \ {0}
    BY <1>a, Shortened DEF SessionIInv, SessionTypes, Sessions!Apply
  <2>2. Sessions!Changed(m) \in Mutations
    BY <2>1 DEF Sessions!Changed, Mutations, SessionIInv, SessionTypes
  <2> QED
    BY <2>1, <2>2 DEF SessionIInv, AllProper
<1>2. UNCHANGED <<minted, jar, cookie, holds, old, data>>
  BY DEF Sessions!Apply
<1>5. CASE m.kind = "read"
  <2>1. chain' = Sessions!Written(m) /\ UNCHANGED <<rows, sessPhase, sent>>
    BY <1>a, <1>5 DEF Sessions!Apply
  <2>2. /\ chain' \in Seq(Mutations) /\ Len(chain') = Len(chain) /\ chain'[1] = Sessions!Changed(m)
        /\ \A n \in 2 .. Len(chain) : chain'[n] = chain[n]
    BY <1>a, <1>0, <2>1, Shortened DEF Sessions!Written, SessionIInv, SessionTypes, Sessions!Apply
  <2>3. /\ Sessions!Changed(m).id = m.id /\ Sessions!Changed(m).by = m.by
        /\ Sessions!Changed(m).then = m.then
        /\ Sessions!Changed(m).kind = "write"
        /\ rows[m.id] # None => rows[m.id] \subseteq Sessions!Changed(m).value
    BY <1>0 DEF Sessions!Changed, Mutations
  <2>4. SessionTypes'
    BY <1>2, <2>1, <2>2 DEF SessionIInv, SessionTypes
  <2>5. \A n \in 1 .. Len(chain) : n = 1 \/ n \in 2 .. Len(chain)
    BY <1>0
  <2>6. OneAwaited'
    <3>1. \A n \in 1 .. Len(chain) : chain'[n].by = chain[n].by /\ chain'[n].then = chain[n].then
      BY <1>0, <2>2, <2>3, <2>5
    <3> QED
      BY <2>1, <2>2, <3>1 DEF SessionIInv, OneAwaited, Awaited
  <2>7. AllProper'
    <3>1. \A o : Proper(o) => Proper(o)'
      BY <1>2 DEF Proper
    <3>2. Proper(Sessions!Changed(m))
      BY <1>0, <2>3 DEF Proper
    <3>3. \A n \in 2 .. Len(chain) : n \in 1 .. Len(chain)
      BY <1>0
    <3>4. \A n \in 1 .. Len(chain') : Proper(chain'[n])
      BY <2>2, <2>5, <3>2, <3>3 DEF SessionIInv, AllProper
    <3> QED
      BY <1>2, <2>1, <3>1, <3>4 DEF SessionIInv, AllProper, Firm
  <2>8. WriteFirst'
    <3>1. \A n \in 2 .. Len(chain) : n \in 1 .. Len(chain) /\ n # 1
      BY <1>0
    <3>2. \A n \in 2 .. Len(chain) : chain[n].kind # "write"
      BY <3>1 DEF SessionIInv, WriteFirst
    <3> QED
      BY <1>0, <2>1, <2>2, <2>3, <2>5, <3>2 DEF WriteFirst
  <2> QED
    BY <2>4, <2>6, <2>7, <2>8 DEF SessionIInv
<1>6. CASE m.kind # "read"
  <2>1. /\ chain' = Tail(chain) /\ chain # <<>>
        /\ sessPhase' = IF m.then = None THEN sessPhase ELSE [sessPhase EXCEPT ![m.by] = m.then]
        /\ sent' = IF m.kind = "set" /\ sessPhase[m.by] # "done"
                   THEN [sent EXCEPT ![m.by] = m.id] ELSE sent
    BY <1>a, <1>6 DEF Sessions!Apply
  <2>2. rows' \in [Ids -> (SUBSET Pair) \cup {None}]
    BY <1>a, <1>0, <1>6 DEF SessionIInv, SessionTypes, Sessions!Apply, Mutations
  <2>3. sent' \in [Pair -> minted \cup {None, Sessions!Cleared}]
    BY <1>0, <2>1 DEF SessionIInv, SessionTypes, Proper, Mutations
  <2> QED
    BY <1>a, <1>2, <2>1, <2>2, <2>3, HeadLeaves
<1> QED
  BY <1>5, <1>6

\* What the store does to the chain does not bring such a session back either.
LEMMA StoreLeavesGone ==
    ASSUME Sessions!SessionAssumption, SessionIInv, NEW i \in Ids, Sessions!Gone(i),
           Sessions!Apply \/ Sessions!ApplyFails \/ \E j \in Ids : Sessions!Expire(j)
    PROVE  Sessions!Gone(i)'
<1>1. UNCHANGED <<minted, holds>>
  BY DEF Sessions!Apply, Sessions!ApplyFails, Sessions!Expire
<1>2. CASE \E j \in Ids : Sessions!Expire(j)
  BY <1>2 DEF Sessions!Expire, Sessions!Gone, Sessions!HeldBy, SessionIInv, SessionTypes
<1>3. CASE Sessions!Apply \/ Sessions!ApplyFails
  <2>a. PICK m : m = Head(chain)
    OBVIOUS
  <2>1. /\ m \in Mutations /\ m = chain[1] /\ Len(chain) \in Nat \ {0} /\ 1 \in 1 .. Len(chain)
        /\ Len(Tail(chain)) = Len(chain) - 1
        /\ \A n \in 1 .. Len(chain) - 1 : Tail(chain)[n] = chain[n + 1] /\ n + 1 \in 1 .. Len(chain)
    BY <1>3, <2>a, Shortened DEF SessionIInv, SessionTypes, Sessions!Apply, Sessions!ApplyFails
  <2>2. m.id = i => m.kind = "delete"
    BY <2>1 DEF Sessions!Gone, Sessions!Writes
  <2>3. rows'[i] = None
    BY <1>3, <2>a, <2>1, <2>2
    DEF Sessions!Apply, Sessions!ApplyFails, SessionIInv, SessionTypes, Mutations, Sessions!Gone
  <2>4. ~Sessions!Writes(Tail(chain), i)
    BY <2>1 DEF Sessions!Gone, Sessions!Writes
  <2>5. ~Sessions!Writes(chain', i)
    <3>1. CASE chain' = Tail(chain)
      BY <2>4, <3>1
    <3>2. CASE chain' = Sessions!Written(m) /\ m.kind = "read"
      <4>1. /\ Sessions!Changed(m) \in Mutations /\ Sessions!Changed(m).id = m.id
        BY <2>1 DEF Sessions!Changed, Mutations, SessionIInv, SessionTypes
      <4>2. /\ Len(chain') = Len(chain) /\ chain'[1] = Sessions!Changed(m)
            /\ \A n \in 2 .. Len(chain) : chain'[n] = chain[n]
        BY <2>1, <3>2, <4>1, Shortened DEF Sessions!Written, SessionIInv, SessionTypes
      <4>3. \A n \in 1 .. Len(chain) : n = 1 \/ n \in 2 .. Len(chain)
        BY <2>1
      <4> QED
        BY <2>2, <3>2, <4>1, <4>2, <4>3 DEF Sessions!Gone, Sessions!Writes
    <3> QED
      BY <1>3, <2>a, <3>1, <3>2 DEF Sessions!Apply, Sessions!ApplyFails
  <2>6. \A q \in Pair : sessPhase[q] = "done" => sessPhase'[q] = "done"
    <3>1. m.then # None => sessPhase[m.by] = "awaiting"
      BY <2>1 DEF SessionIInv, OneAwaited, Awaited
    <3> QED
      BY <1>3, <2>a, <2>1, <3>1
      DEF Sessions!Apply, Sessions!ApplyFails, SessionIInv, SessionTypes, Mutations
  <2> QED
    BY <1>1, <2>3, <2>5, <2>6 DEF Sessions!Gone, Sessions!HeldBy
<1> QED
  BY <1>2, <1>3

-------------------------------------------------------------------------------
LEMMA SessionStutter == ASSUME SessionIInv, UNCHANGED Sessions!vars PROVE SessionIInv'
BY DEF Sessions!vars, Sessions!history, SessionIInv, SessionTypes, OneAwaited,
       Awaited, AllProper, Proper, Firm, WriteFirst

RequestStep(r) ==
    \/ Sessions!Arrive(r) \/ Sessions!Load(r) \/ Sessions!Attach(r) \/ Sessions!Missing(r)
    \/ Sessions!ReadLazy(r) \/ Sessions!Save(r) \/ Sessions!Touch(r)
    \/ Sessions!Update(r) \/ Sessions!Destroy(r) \/ Sessions!Destroyed(r)
    \/ Sessions!Rotate(r) \/ Sessions!Rotated(r) \/ Sessions!Renewed(r) \/ Sessions!Respond(r)

LEMMA NextSplit ==
    Sessions!Next <=> \/ \E r \in Pair : RequestStep(r)
                      \/ Sessions!Apply \/ Sessions!ApplyFails
                      \/ \E i \in Ids : Sessions!Expire(i)
BY DEF Sessions!Next, RequestStep

LEMMA StepMoves ==
    ASSUME Sessions!SessionAssumption, SessionIInv, NEW r \in Pair, RequestStep(r)
    PROVE  RequestMoves(r) /\ SessionTypes'
BY ArriveMoves, LoadMoves, AttachMoves, MissingMoves, ReadLazyMoves, HandlerMoves, RotateMoves,
   RotatedMoves, EndMoves
DEF RequestStep

LEMMA SessionNext ==
    ASSUME Sessions!SessionAssumption, SessionIInv, [Sessions!Next]_(Sessions!vars)
    PROVE  SessionIInv'
<1>1. ASSUME NEW r \in Pair, RequestStep(r) PROVE SessionIInv'
  BY <1>1, StepMoves, RequestKeeps
<1> QED
  BY <1>1, ApplyKeeps, ApplyFailsKeeps, ExpireKeeps, SessionStutter, NextSplit

LEMMA GoneStays ==
    ASSUME Sessions!SessionAssumption, SessionIInv, [Sessions!Next]_(Sessions!vars),
           NEW i \in Ids, Sessions!Gone(i)
    PROVE  Sessions!Gone(i)'
<1>1. ASSUME NEW r \in Pair, RequestStep(r) PROVE Sessions!Gone(i)'
  BY <1>1, StepMoves, RequestLeavesGone
<1>2. CASE UNCHANGED Sessions!vars
  BY <1>2 DEF Sessions!vars, Sessions!Gone, Sessions!Writes, Sessions!HeldBy
<1> QED
  BY <1>1, <1>2, StoreLeavesGone, NextSplit

LEMMA SessionInv == ASSUME Sessions!SessionAssumption PROVE Sessions!Spec => []SessionIInv
<1>1. Sessions!Init => SessionIInv
  BY SessionInit
<1>2. SessionIInv /\ [Sessions!Next]_(Sessions!vars) => SessionIInv'
  BY SessionNext
<1> QED
  BY <1>1, <1>2, PTL DEF Sessions!Spec

\* A step that writes what update() has made of a row loses nothing of the row.
LEMMA WriteKeeps ==
    ASSUME SessionIInv, NEW i \in Ids, rows[i] # None,
           \E n \in 1 .. Len(chain) :
                /\ chain[n].kind = "write" /\ chain[n].id = i
                /\ chain' = Tail(chain) /\ rows'[i] = chain[n].value
    PROVE  rows[i] \subseteq rows'[i]
BY DEF SessionIInv, WriteFirst

\* Only Apply puts the id of a session into a response.
LEMMA CookieKeeps ==
    ASSUME Sessions!SessionAssumption, SessionIInv, Sessions!CookieAfterRow,
           [Sessions!Next]_(Sessions!vars)
    PROVE  Sessions!CookieAfterRow'
<1> SUFFICES ASSUME NEW i \in Ids, i = jar' \/ \E r \in Pair : sent'[r] = i
             PROVE  i \in ever'
  BY DEF Sessions!CookieAfterRow
<1>0. i # Sessions!Cleared /\ i # None /\ ever \subseteq ever'
  <2>1. i # Sessions!Cleared /\ i # None
    BY DEF Sessions!SessionAssumption, Sessions!Cleared
  <2>2. ever \subseteq ever'
    BY NextSplit
    DEF RequestStep, Sessions!Arrive, Sessions!Load, Sessions!Attach, Sessions!Missing,
        Sessions!ReadLazy, Sessions!Save, Sessions!Touch, Sessions!Update, Sessions!Destroy,
        Sessions!Destroyed, Sessions!Rotate, Sessions!Rotated, Sessions!Renewed, Sessions!Respond,
        Sessions!Apply, Sessions!ApplyFails, Sessions!Expire, Sessions!vars, Sessions!history
  <2> QED
    BY <2>1, <2>2
<1>1. ASSUME NEW r \in Pair, RequestStep(r) PROVE i \in ever'
  <2>1. /\ \A q \in Pair : sent'[q] \in {sent[q], Sessions!Cleared}
        /\ jar' \in {jar, None, sent[r]}
    BY <1>1
    DEF RequestStep, Sessions!Arrive, Sessions!Load, Sessions!Attach, Sessions!Missing,
        Sessions!ReadLazy, Sessions!Save, Sessions!Touch, Sessions!Update, Sessions!Destroy,
        Sessions!Destroyed, Sessions!Rotate, Sessions!Rotated, Sessions!Renewed, Sessions!Respond,
        Sessions!history, SessionIInv, SessionTypes
  <2> QED
    BY <1>0, <2>1 DEF Sessions!CookieAfterRow
<1>2. CASE Sessions!Apply
  <2>1. jar' = jar /\ Head(chain) \in Mutations
    BY <1>2, Shortened DEF Sessions!Apply, SessionIInv, SessionTypes
  <2>2. \A q \in Pair : \/ sent'[q] = sent[q]
                        \/ Head(chain).kind = "set" /\ sent'[q] = Head(chain).id
    BY <1>2, <2>1 DEF Sessions!Apply, SessionIInv, SessionTypes, Mutations
  <2> QED
    BY <1>0, <1>2, <2>1, <2>2 DEF Sessions!CookieAfterRow, Sessions!Apply
<1>3. CASE \E j \in Ids : Sessions!Expire(j)
  BY <1>0, <1>3 DEF Sessions!CookieAfterRow, Sessions!Expire
<1>4. CASE Sessions!ApplyFails \/ UNCHANGED Sessions!vars
  BY <1>0, <1>4 DEF Sessions!CookieAfterRow, Sessions!vars, Sessions!ApplyFails
<1> QED
  BY <1>1, <1>2, <1>3, <1>4, NextSplit

-------------------------------------------------------------------------------
LEMMA SessionsMove == Spec => Sessions!Spec
<1>1. Init => Sessions!Init
  BY DEF Init
<1>2. [Next]_vars => [Sessions!Next]_(Sessions!vars)
  BY DEF Next, vars, sessions, Sessions!vars, Sessions!history
<1> QED
  BY <1>1, <1>2, PTL DEF Spec, Sessions!Spec

LEMMA SessionsHold == Spec => []SessionIInv
BY SessionsMove, SessionInv, DataLayerAssumption, PTL

\* Once no row, no pending write and no session object of an id is left, the id never
\* has one again, for any number of requests and ids: a session that was deleted
\* comes back only through a request that had read it before.
THEOREM BuriedForGoodHolds == Spec => BuriedForGood
<1>1. SessionIInv /\ [Sessions!Next]_(Sessions!vars) =>
        [\A i \in Ids : Sessions!Gone(i) => Sessions!Gone(i)']_(Sessions!vars)
  BY GoneStays, DataLayerAssumption
<1>2. Sessions!Spec => [][Sessions!Next]_(Sessions!vars)
  BY DEF Sessions!Spec
<1> QED
  BY <1>1, <1>2, SessionsMove, SessionsHold, PTL DEF BuriedForGood, Sessions!BuriedForGood

\* The write of update() keeps all that the row holds when it is applied: no other
\* mutation comes between its read and its write.
THEOREM UpdateKeepsChangesHolds == Spec => UpdateKeepsChanges
<1>1. SessionIInv /\ [Next]_vars => [\A i \in Ids :
        /\ rows[i] # None
        /\ \E n \in 1 .. Len(chain) : /\ chain[n].kind = "write" /\ chain[n].id = i
                                       /\ chain' = Tail(chain) /\ rows'[i] = chain[n].value
        => rows[i] \subseteq rows'[i]]_(Sessions!vars)
  BY WriteKeeps
<1> QED
  BY <1>1, SessionsHold, PTL DEF Spec, UpdateKeepsChanges, Sessions!UpdateKeepsChanges

\* No cookie leaves before the row of its session has been stored.
THEOREM CookieAfterRowHolds == Spec => []CookieAfterRow
<1>1. Sessions!Init => Sessions!CookieAfterRow
  BY DataLayerAssumption DEF Sessions!Init, Sessions!CookieAfterRow, Sessions!SessionAssumption
<1>2. SessionIInv /\ Sessions!CookieAfterRow /\ [Sessions!Next]_(Sessions!vars)
        => Sessions!CookieAfterRow'
  BY CookieKeeps, DataLayerAssumption
<1> QED
  BY <1>1, <1>2, SessionInv, SessionsMove, DataLayerAssumption, PTL DEF Sessions!Spec, CookieAfterRow

-------------------------------------------------------------------------------
\* An instance has its own name for the operator of FiniteSets.
LEMMA FilesFinite == \A S : FileStore!Cardinality(S) = Cardinality(S)
BY DEF FileStore!Cardinality, Cardinality

Records == [key : Items, value : Values, expires : Nat]

\* A key has one entry.
OnePerKey(es) == \A i, j \in 1 .. Len(es) : es[i].key = es[j].key => i = j
GoodMap(es) == es \in Seq(Records) /\ OnePerKey(es) /\ Len(es) <= MaxEntries

FilesKept ==
    /\ GoodMap(entries) /\ GoodMap(file)
    /\ driver \in Drivers /\ fsNow \in Nat /\ up \in BOOLEAN /\ refused \in BOOLEAN
    /\ ~up => entries = <<>> /\ timer = None

\* The coalesced write is due within its window; while the file differs from the
\* map and no write was refused, it is due a window after the difference began.
WriteDue ==
    /\ timer # None => /\ driver = "coalesced"
                       /\ timer \in Nat /\ fsNow <= timer /\ timer <= fsNow + Coalesce
    /\ apart = None <=> ~up \/ entries = file
    /\ apart # None => apart \in Nat
    /\ up /\ ~refused /\ apart # None =>
          \/ driver = "memory"
          \/ driver = "coalesced" /\ timer # None /\ timer <= apart + Coalesce

FilesIInv == FilesKept /\ WriteDue

-------------------------------------------------------------------------------
LEMMA RankCounts == \A K, i : FileStore!Rank(K, i) = Cardinality({j \in K : j <= i})
BY FilesFinite DEF FileStore!Rank

LEMMA OnlyIs ==
    \A s, K : FileStore!Only(s, K) =
        [n \in 1 .. Cardinality(K) |-> s[CHOOSE i \in K : FileStore!Rank(K, i) = n]]
BY FilesFinite DEF FileStore!Only

\* The places in K, counted in their order: each has a rank of its own, and every
\* number up to the size of K is the rank of one.
LEMMA Ranks ==
    ASSUME NEW n \in Nat, NEW K \in SUBSET (1 .. n)
    PROVE  /\ IsFiniteSet(K) /\ Cardinality(K) \in Nat /\ Cardinality(K) <= n
           /\ \A i \in K : FileStore!Rank(K, i) \in 1 .. Cardinality(K)
           /\ \A i, j \in K : i < j => FileStore!Rank(K, i) < FileStore!Rank(K, j)
           /\ \A m \in 1 .. Cardinality(K) : \E i \in K : FileStore!Rank(K, i) = m
<1> DEFINE UpTo(i) == {j \in K : j <= i}
<1>1. IsFiniteSet(K) /\ Cardinality(K) \in Nat /\ Cardinality(K) <= n
  <2>1. IsFiniteSet(1 .. n) /\ Cardinality(1 .. n) = n
    BY FS_Interval
  <2> QED
    BY <2>1, FS_Subset, FS_CardinalityType
<1>2. \A i \in K : /\ UpTo(i) \subseteq K /\ i \in UpTo(i) /\ IsFiniteSet(UpTo(i))
                   /\ FileStore!Rank(K, i) = Cardinality(UpTo(i)) /\ Cardinality(UpTo(i)) \in Nat
                   /\ Cardinality(UpTo(i)) <= Cardinality(K)
  <2> TAKE i \in K
  <2>1. UpTo(i) \subseteq K /\ i \in UpTo(i)
    OBVIOUS
  <2>2. FileStore!Rank(K, i) = Cardinality(UpTo(i))
    BY RankCounts
  <2> HIDE DEF UpTo
  <2>3. IsFiniteSet(UpTo(i)) /\ Cardinality(UpTo(i)) <= Cardinality(K)
    BY <1>1, <2>1, FS_Subset
  <2> QED
    BY <2>1, <2>2, <2>3, FS_CardinalityType
<1>3. \A i \in K : FileStore!Rank(K, i) \in 1 .. Cardinality(K)
  <2> TAKE i \in K
  <2>1. Cardinality(UpTo(i)) # 0
    BY <1>2, FS_EmptySet
  <2> QED
    BY <1>1, <1>2, <2>1
<1>4. \A i, j \in K : i < j => FileStore!Rank(K, i) < FileStore!Rank(K, j)
  <2> SUFFICES ASSUME NEW i \in K, NEW j \in K, i < j
               PROVE  FileStore!Rank(K, i) < FileStore!Rank(K, j)
    OBVIOUS
  <2>1. UpTo(i) \subseteq UpTo(j) /\ j \notin UpTo(i)
    <3>1. i \in Nat /\ j \in Nat /\ \A x \in K : x \in Nat
      OBVIOUS
    <3>2. ~(j <= i) /\ \A x \in K : x <= i => x <= j
      BY <3>1
    <3> QED
      BY <3>2
  <2> HIDE DEF UpTo
  <2>2. Cardinality(UpTo(i)) <= Cardinality(UpTo(j))
        /\ (Cardinality(UpTo(j)) = Cardinality(UpTo(i)) => UpTo(j) = UpTo(i))
    BY <1>2, <2>1, FS_Subset
  <2> QED
    BY <1>2, <2>1, <2>2
<1>5. \A m \in 1 .. Cardinality(K) : \E i \in K : FileStore!Rank(K, i) = m
  <2> DEFINE r == [i \in K |-> FileStore!Rank(K, i)]
  <2>1. r \in [K -> 1 .. Cardinality(K)] /\ \A i, j \in K : i # j => r[i] # r[j]
    <3>1. \A i, j \in K : i # j => i < j \/ j < i
      OBVIOUS
    <3> QED
      BY <1>1, <1>3, <1>4, <3>1
  <2>2. r \in Injection(K, 1 .. Cardinality(K))
    BY <2>1 DEF Injection, IsInjective
  <2>3. IsFiniteSet(1 .. Cardinality(K)) /\ Cardinality(1 .. Cardinality(K)) = Cardinality(K)
    BY <1>1, FS_Interval
  <2> HIDE DEF r
  <2>4. r \in Surjection(K, 1 .. Cardinality(K))
    BY <2>2, <2>3, FS_Injection
  <2>5. \A m \in 1 .. Cardinality(K) : \E i \in K : r[i] = m
    BY <2>4 DEF Surjection
  <2> QED
    BY <2>5 DEF r
<1> QED
  BY <1>1, <1>3, <1>4, <1>5

\* What Only leaves of a sequence: the elements at K, in their order.
LEMMA OnlyKeeps ==
    ASSUME NEW S, NEW s \in Seq(S), NEW K \in SUBSET (1 .. Len(s))
    PROVE  /\ FileStore!Only(s, K) \in Seq(S)
           /\ Len(FileStore!Only(s, K)) = Cardinality(K) /\ Cardinality(K) \in Nat
           /\ Cardinality(K) <= Len(s)
           /\ \A m \in 1 .. Cardinality(K) : \E i \in K : FileStore!Rank(K, i) = m
                /\ FileStore!Only(s, K)[m] = s[i]
           /\ \A i \in K : FileStore!Rank(K, i) \in 1 .. Cardinality(K)
                /\ FileStore!Only(s, K)[FileStore!Rank(K, i)] = s[i]
           /\ \A i, j \in K : i < j => FileStore!Rank(K, i) < FileStore!Rank(K, j)
<1> DEFINE at(m) == CHOOSE i \in K : FileStore!Rank(K, i) = m
<1>0. Len(s) \in Nat
  OBVIOUS
<1>1. /\ IsFiniteSet(K) /\ Cardinality(K) \in Nat /\ Cardinality(K) <= Len(s)
      /\ \A i \in K : FileStore!Rank(K, i) \in 1 .. Cardinality(K)
      /\ \A i, j \in K : i < j => FileStore!Rank(K, i) < FileStore!Rank(K, j)
      /\ \A m \in 1 .. Cardinality(K) : \E i \in K : FileStore!Rank(K, i) = m
  BY <1>0, Ranks
<1>2. \A m \in 1 .. Cardinality(K) : at(m) \in K /\ FileStore!Rank(K, at(m)) = m
  BY <1>1
<1>3. \A i \in K : at(FileStore!Rank(K, i)) = i
  <2> TAKE i \in K
  <2> HIDE DEF at
  <2>1. PICK a \in K : a = at(FileStore!Rank(K, i)) /\ FileStore!Rank(K, a) = FileStore!Rank(K, i)
    BY <1>1, <1>2
  <2>2. a = i \/ a < i \/ i < a
    OBVIOUS
  <2>3. FileStore!Rank(K, a) \in Nat /\ FileStore!Rank(K, i) \in Nat
    BY <1>1
  <2>4. (a < i => FileStore!Rank(K, a) < FileStore!Rank(K, i)) /\ (i < a
          => FileStore!Rank(K, i) < FileStore!Rank(K, a))
    BY <1>1
  <2> QED
    BY <2>1, <2>2, <2>3, <2>4
<1>4. FileStore!Only(s, K) = [m \in 1 .. Cardinality(K) |-> s[at(m)]]
  BY OnlyIs
<1> HIDE DEF at
<1>5. FileStore!Only(s, K) \in [1 .. Cardinality(K) -> S]
  <2>1. \A i \in K : s[i] \in S
    BY ElementOfSeq
  <2> QED
    BY <1>2, <1>4, <2>1
<1>6. FileStore!Only(s, K) \in Seq(S) /\ Len(FileStore!Only(s, K)) = Cardinality(K)
  BY <1>1, <1>5
<1> QED
  BY <1>1, <1>2, <1>3, <1>4, <1>6

-------------------------------------------------------------------------------
\* Each entry of es is one of ds.
PartOf(es, ds) == \A i \in 1 .. Len(es) : \E j \in 1 .. Len(ds) : es[i] = ds[j]

\* Entries that go leave the others as they are, the last one last.
LEMMA WithoutKeeps ==
    ASSUME NEW es \in Seq(Records), OnePerKey(es), NEW K
    PROVE  /\ FileStore!Without(es, K) \in Seq(Records) /\ OnePerKey(FileStore!Without(es, K))
           /\ Len(FileStore!Without(es, K)) <= Len(es) /\ PartOf(FileStore!Without(es, K), es)
           /\ Len(es) > 0 /\ Len(es) \notin K =>
                 /\ Len(FileStore!Without(es, K)) > 0
                 /\ FileStore!Without(es, K)[Len(FileStore!Without(es, K))] = es[Len(es)]
<1> DEFINE D == DOMAIN es \ K
           r == FileStore!Without(es, K)
<1>1. D \in SUBSET (1 .. Len(es)) /\ r = FileStore!Only(es, D) /\ Len(es) \in Nat
  BY DEF FileStore!Without
<1> HIDE DEF D, r
<1>2. /\ r \in Seq(Records) /\ Len(r) = Cardinality(D) /\ Cardinality(D) \in Nat
      /\ Cardinality(D) <= Len(es)
      /\ \A m \in 1 .. Len(r) : \E i \in D : FileStore!Rank(D, i) = m /\ r[m] = es[i]
      /\ \A i \in D : FileStore!Rank(D, i) \in 1 .. Len(r) /\ r[FileStore!Rank(D, i)] = es[i]
      /\ \A i, j \in D : i < j => FileStore!Rank(D, i) < FileStore!Rank(D, j)
  BY <1>1, OnlyKeeps
<1>3. PartOf(r, es)
  BY <1>1, <1>2 DEF PartOf
<1>4. OnePerKey(r)
  <2> SUFFICES ASSUME NEW m \in 1 .. Len(r), NEW n \in 1 .. Len(r), r[m].key = r[n].key
               PROVE  m = n
    BY DEF OnePerKey
  <2>1. PICK i \in D : FileStore!Rank(D, i) = m /\ r[m] = es[i]
    BY <1>2
  <2>2. PICK j \in D : FileStore!Rank(D, j) = n /\ r[n] = es[j]
    BY <1>2
  <2>3. i \in 1 .. Len(es) /\ j \in 1 .. Len(es) /\ es[i].key = es[j].key
    BY <1>1, <2>1, <2>2
  <2>4. i = j
    BY <2>3 DEF OnePerKey
  <2> QED
    BY <2>1, <2>2, <2>4
<1>5. ASSUME Len(es) > 0, Len(es) \notin K
      PROVE  Len(r) > 0 /\ r[Len(r)] = es[Len(es)]
  <2>1. Len(es) \in D
    BY <1>5 DEF D
  <2>2. FileStore!Rank(D, Len(es)) \in 1 .. Len(r) /\ r[FileStore!Rank(D, Len(es))] = es[Len(es)]
    BY <1>2, <2>1
  <2>3. Len(r) \in 1 .. Len(r)
    BY <1>2, <2>2
  <2>4. PICK i \in D : FileStore!Rank(D, i) = Len(r)
    BY <1>2, <2>3
  <2>5. i = Len(es) \/ i < Len(es)
    BY <1>1, <2>4
  <2>6. ~(i < Len(es))
    <3>1. ~(Len(r) < FileStore!Rank(D, Len(es)))
      BY <1>2, <2>2
    <3> QED
      BY <1>2, <2>1, <2>4, <3>1
  <2> QED
    BY <2>2, <2>3, <2>4, <2>5, <2>6
<1> QED
  BY <1>2, <1>3, <1>4, <1>5, <1>1 DEF r

\* The newest entries keep their order too.
LEMMA NewestKeep ==
    ASSUME NEW es \in Seq(Records), OnePerKey(es), NEW d \in 0 .. Len(es)
    PROVE  /\ SubSeq(es, d + 1, Len(es)) \in Seq(Records)
           /\ OnePerKey(SubSeq(es, d + 1, Len(es)))
           /\ Len(SubSeq(es, d + 1, Len(es))) = Len(es) - d
           /\ PartOf(SubSeq(es, d + 1, Len(es)), es)
           /\ d < Len(es) => \E i \in 1 .. Len(SubSeq(es, d + 1, Len(es))) :
                                 SubSeq(es, d + 1, Len(es))[i] = es[Len(es)]
<1> DEFINE r == SubSeq(es, d + 1, Len(es))
<1>1. Len(es) \in Nat /\ d \in Nat /\ d + 1 \in Int
  OBVIOUS
<1>2. \A i \in d + 1 .. Len(es) : es[i] \in Records
  <2>1. \A i \in d + 1 .. Len(es) : i \in 1 .. Len(es)
    BY <1>1
  <2> QED
    BY <2>1, ElementOfSeq
<1>3. /\ r \in Seq(Records)
      /\ Len(r) = IF d + 1 <= Len(es) THEN Len(es) - (d + 1) + 1 ELSE 0
      /\ \A i \in 1 .. Len(es) - (d + 1) + 1 : r[i] = es[(d + 1) + i - 1]
  BY <1>1, <1>2, SubSeqProperties
<1> HIDE DEF r
<1>4. Len(r) = Len(es) - d /\ Len(es) - (d + 1) + 1 = Len(es) - d
  BY <1>1, <1>3
<1>5. \A i \in 1 .. Len(r) : r[i] = es[d + i] /\ d + i \in 1 .. Len(es)
  <2>1. \A i \in 1 .. Len(es) - d : (d + 1) + i - 1 = d + i /\ d + i \in 1 .. Len(es)
    BY <1>1
  <2> QED
    BY <1>3, <1>4, <2>1
<1>6. OnePerKey(r)
  <2> SUFFICES ASSUME NEW i \in 1 .. Len(r), NEW j \in 1 .. Len(r), r[i].key = r[j].key
               PROVE  i = j
    BY DEF OnePerKey
  <2>1. d + i = d + j
    BY <1>5 DEF OnePerKey
  <2>2. i \in Int /\ j \in Int
    OBVIOUS
  <2> QED
    BY <1>1, <2>1, <2>2
<1>7. d < Len(es) => Len(r) \in 1 .. Len(r) /\ d + Len(r) = Len(es)
  BY <1>1, <1>4
<1> QED
  BY <1>3, <1>4, <1>5, <1>6, <1>7 DEF r, PartOf

LEMMA PartOfPart ==
    ASSUME NEW a, NEW b, NEW c, PartOf(a, b), PartOf(b, c)
    PROVE  PartOf(a, c)
BY DEF PartOf

\* The memory driver makes room for one more, and only drops entries.
LEMMA MakeRoomKeeps ==
    ASSUME FileStore!StoreAssumption, NEW es, GoodMap(es)
    PROVE  /\ FileStore!MakeRoom(es) \in Seq(Records) /\ OnePerKey(FileStore!MakeRoom(es))
           /\ Len(FileStore!MakeRoom(es)) <= MaxEntries - 1 /\ PartOf(FileStore!MakeRoom(es), es)
<1>1. MaxEntries \in Nat \ {0} /\ es \in Seq(Records) /\ OnePerKey(es) /\ Len(es) \in Nat
  BY DEF FileStore!StoreAssumption, GoodMap
<1>2. CASE Len(es) < MaxEntries
  <2>1. FileStore!MakeRoom(es) = es
    BY <1>2 DEF FileStore!MakeRoom
  <2> QED
    BY <1>1, <1>2, <2>1 DEF PartOf
<1>3. CASE ~(Len(es) < MaxEntries)
  <2> DEFINE alive == FileStore!Without(es, FileStore!Dead(es))
             over == Len(alive) - (MaxEntries - 1)
  <2>1. /\ alive \in Seq(Records) /\ OnePerKey(alive) /\ Len(alive) <= Len(es) /\ PartOf(alive, es)
        /\ Len(alive) \in Nat
    BY <1>1, WithoutKeeps
  <2>2. FileStore!MakeRoom(es) = IF over > 0 THEN SubSeq(alive, over + 1, Len(alive)) ELSE alive
    BY <1>3 DEF FileStore!MakeRoom
  <2> HIDE DEF alive
  <2>3. CASE over > 0
    <3>1. over \in 0 .. Len(alive) /\ Len(alive) - over = MaxEntries - 1
      BY <1>1, <2>1, <2>3
    <3> QED
      BY <1>1, <2>1, <2>2, <2>3, <3>1, NewestKeep, PartOfPart
  <2>4. CASE ~(over > 0)
    BY <1>1, <2>1, <2>2, <2>4
  <2> QED
    BY <2>3, <2>4
<1> QED
  BY <1>2, <1>3

\* Map.set(): the entry is there, in the place of its key or at the end, and the
\* others are as they were.
LEMMA PutKeeps ==
    ASSUME NEW es \in Seq(Records), OnePerKey(es), NEW e \in Records
    PROVE  /\ FileStore!Put(es, e) \in Seq(Records) /\ OnePerKey(FileStore!Put(es, e))
           /\ \E i \in 1 .. Len(FileStore!Put(es, e)) : FileStore!Put(es, e)[i] = e
           /\ \A i \in 1 .. Len(FileStore!Put(es, e)) :
                 \/ FileStore!Put(es, e)[i] = e
                 \/ FileStore!Put(es, e)[i].key # e.key /\ \E j \in 1 .. Len(es) :
                     FileStore!Put(es, e)[i] = es[j]
           /\ \/ Len(FileStore!Put(es, e)) = Len(es)
              \/ Len(FileStore!Put(es, e)) = Len(es) + 1 /\ FileStore!Put(es, e)[Len(es) + 1] = e
<1>1. Len(es) \in Nat /\ DOMAIN es = 1 .. Len(es)
  OBVIOUS
<1>2. \A i \in 1 .. Len(es) : es[i] \in Records
  BY ElementOfSeq
<1>3. CASE FileStore!At(es, e.key) = {}
  <2> DEFINE r == Append(es, e)
  <2>1. FileStore!Put(es, e) = r
    BY <1>3 DEF FileStore!Put
  <2>2. /\ r \in Seq(Records) /\ Len(r) = Len(es) + 1 /\ r[Len(es) + 1] = e
        /\ \A i \in 1 .. Len(es) : r[i] = es[i]
    BY AppendProperties
  <2>3. \A i \in 1 .. Len(es) : es[i].key # e.key
    BY <1>1, <1>3 DEF FileStore!At
  <2> HIDE DEF r
  <2>4. \A i \in 1 .. Len(r) : i \in 1 .. Len(es) \/ i = Len(es) + 1
    BY <1>1, <2>2
  <2>5. OnePerKey(r)
    BY <2>2, <2>3, <2>4 DEF OnePerKey
  <2>6. Len(es) + 1 \in 1 .. Len(r)
    BY <1>1, <2>2
  <2> QED
    BY <2>1, <2>2, <2>3, <2>4, <2>5, <2>6
<1>4. CASE FileStore!At(es, e.key) # {}
  <2> DEFINE r == [i \in 1 .. Len(es) |-> IF es[i].key = e.key THEN e ELSE es[i]]
  <2>1. FileStore!Put(es, e) = r
    BY <1>1, <1>4 DEF FileStore!Put
  <2>2. r \in [1 .. Len(es) -> Records]
    BY <1>2
  <2>3. \A i \in 1 .. Len(es) : r[i] = IF es[i].key = e.key THEN e ELSE es[i]
    OBVIOUS
  <2> HIDE DEF r
  <2>4. r \in Seq(Records) /\ Len(r) = Len(es)
    BY <1>1, <2>2
  <2>5. OnePerKey(r)
    <3>1. \A i \in 1 .. Len(es) : r[i].key = es[i].key
      BY <2>3
    <3> QED
      BY <2>4, <3>1 DEF OnePerKey
  <2>6. \E i \in 1 .. Len(es) : r[i] = e
    BY <1>1, <1>4, <2>3 DEF FileStore!At
  <2> QED
    BY <2>1, <2>3, <2>4, <2>5, <2>6
<1> QED
  BY <1>3, <1>4

\* The file drivers drop what is too many, and the newest entry stays if it lives.
LEMMA TrimKeeps ==
    ASSUME FileStore!StoreAssumption, NEW es \in Seq(Records), OnePerKey(es)
    PROVE  /\ GoodMap(FileStore!Trim(es)) /\ PartOf(FileStore!Trim(es), es)
           /\ Len(es) <= MaxEntries => FileStore!Trim(es) = es
           /\ Len(es) > MaxEntries /\ ~FileStore!Expired(es[Len(es)]) =>
                 \E i \in 1 .. Len(FileStore!Trim(es)) : FileStore!Trim(es)[i] = es[Len(es)]
<1>1. MaxEntries \in Nat \ {0} /\ Len(es) \in Nat
  BY DEF FileStore!StoreAssumption
<1>2. CASE Len(es) <= MaxEntries
  <2>1. FileStore!Trim(es) = es
    BY <1>1, <1>2 DEF FileStore!Trim, FileStore!TooMany
  <2> QED
    BY <1>1, <1>2, <2>1 DEF GoodMap, PartOf
<1>3. CASE ~(Len(es) <= MaxEntries)
  <2> DEFINE gone == {i \in FileStore!Dead(es) :
        FileStore!Rank(FileStore!Dead(es), i) <= FileStore!TooMany(es)}
             rest == FileStore!Without(es, gone)
             over == Len(rest) - MaxEntries
  <2>1. FileStore!Trim(es) = IF over > 0 THEN SubSeq(rest, over + 1, Len(rest)) ELSE rest
    BY <1>1, <1>3 DEF FileStore!Trim, FileStore!TooMany
  <2>2. ~FileStore!Expired(es[Len(es)]) => Len(es) \notin gone
    BY DEF FileStore!Dead
  <2> HIDE DEF gone
  <2>3. /\ rest \in Seq(Records) /\ OnePerKey(rest) /\ Len(rest) <= Len(es) /\ PartOf(rest, es)
        /\ Len(rest) \in Nat
        /\ ~FileStore!Expired(es[Len(es)]) => Len(rest) > 0 /\ rest[Len(rest)] = es[Len(es)]
    BY <1>1, <1>3, <2>2, WithoutKeeps
  <2> HIDE DEF rest
  <2>4. CASE over > 0
    <3> DEFINE r == SubSeq(rest, over + 1, Len(rest))
    <3>1. over \in 0 .. Len(rest) /\ Len(rest) - over = MaxEntries /\ over < Len(rest)
      BY <1>1, <2>3, <2>4
    <3>2. /\ r \in Seq(Records) /\ OnePerKey(r) /\ Len(r) = MaxEntries /\ PartOf(r, rest)
          /\ \E i \in 1 .. Len(r) : r[i] = rest[Len(rest)]
      BY <2>3, <3>1, NewestKeep
    <3>3. FileStore!Trim(es) = r
      BY <2>1, <2>4
    <3> HIDE DEF r
    <3>4. GoodMap(r)
      BY <1>1, <3>2 DEF GoodMap
    <3>5. PartOf(r, es)
      BY <2>3, <3>2, PartOfPart
    <3> QED
      BY <1>3, <2>3, <3>2, <3>3, <3>4, <3>5
  <2>5. CASE ~(over > 0)
    <3>1. Len(rest) <= MaxEntries
      BY <1>1, <2>3, <2>5
    <3>2. Len(rest) > 0 => Len(rest) \in 1 .. Len(rest)
      BY <2>3
    <3> QED
      BY <1>3, <2>1, <2>3, <2>5, <3>1, <3>2 DEF GoodMap
  <2> QED
    BY <2>4, <2>5
<1> QED
  BY <1>2, <1>3

-------------------------------------------------------------------------------
\* Next's bookkeeping of when the file began to differ from the map.
Moved == apart' = IF ~up' \/ entries' = file' THEN None ELSE IF apart = None THEN fsNow ELSE apart

LEMMA EmptyGood == FileStore!StoreAssumption => GoodMap(<<>>)
BY DEF FileStore!StoreAssumption, GoodMap, OnePerKey

LEMMA GoodWithout ==
    ASSUME FileStore!StoreAssumption, NEW es, GoodMap(es), NEW K
    PROVE  GoodMap(FileStore!Without(es, K)) /\ PartOf(FileStore!Without(es, K), es)
<1>1. es \in Seq(Records) /\ OnePerKey(es) /\ Len(es) \in Nat /\ Len(es) <= MaxEntries
  BY DEF GoodMap
<1> DEFINE r == FileStore!Without(es, K)
<1>2. r \in Seq(Records) /\ OnePerKey(r) /\ Len(r) <= Len(es) /\ PartOf(r, es)
  BY <1>1, WithoutKeeps
<1> HIDE DEF r
<1>3. GoodMap(r)
  <2>1. Len(r) \in Nat /\ MaxEntries \in Nat
    BY <1>2 DEF FileStore!StoreAssumption
  <2> QED
    BY <1>1, <1>2, <2>1 DEF GoodMap
<1> QED
  BY <1>2, <1>3 DEF r

\* A call that leaves a good map and persists it keeps the invariant.
LEMMA PersistKeeps ==
    ASSUME FileStore!StoreAssumption, FilesIInv, FileStore!Call, GoodMap(entries'),
           FileStore!Persist, Moved
    PROVE  FilesIInv'
<1> USE DEF FileStore!Call
<1>1. /\ None \notin Nat /\ fsNow \in Nat /\ Coalesce \in Nat
      /\ driver \in {"memory", "file", "coalesced"}
  BY DEF FileStore!StoreAssumption, FilesIInv, FilesKept
<1>2. FilesKept'
  <2>1. UNCHANGED <<file, refused>> \/ FileStore!PersistNow
    BY <1>1 DEF FileStore!Persist
  <2>2. GoodMap(file') /\ refused' \in BOOLEAN
    BY <2>1 DEF FilesIInv, FilesKept, FileStore!PersistNow
  <2> QED
    BY <2>2 DEF FilesIInv, FilesKept
<1>3. CASE driver = "memory"
  BY <1>1, <1>2, <1>3 DEF FilesIInv, WriteDue, Moved, FileStore!Persist
<1>4. CASE driver = "file"
  <2>1. FileStore!PersistNow /\ UNCHANGED timer
    BY <1>4 DEF FileStore!Persist
  <2>2. CASE file' = entries' /\ refused' = FALSE
    BY <1>1, <1>2, <1>4, <2>1, <2>2 DEF FilesIInv, WriteDue, Moved
  <2>3. CASE refused' = TRUE /\ UNCHANGED file
    BY <1>1, <1>2, <1>4, <2>1, <2>3 DEF FilesIInv, WriteDue, Moved
  <2> QED
    BY <2>1, <2>2, <2>3 DEF FileStore!PersistNow
<1>5. CASE driver = "coalesced"
  <2>1. timer' = (IF timer = None THEN fsNow + Coalesce ELSE timer) /\ UNCHANGED <<file, refused>>
    BY <1>5 DEF FileStore!Persist
  <2>2. timer' # None /\ timer' \in Nat /\ fsNow <= timer' /\ timer' <= fsNow + Coalesce
    <3>1. CASE timer = None
      <4>1. timer' = fsNow + Coalesce
        BY <2>1, <3>1
      <4>2. fsNow + Coalesce \in Nat /\ fsNow <= fsNow + Coalesce
        BY <1>1
      <4> QED
        BY <1>1, <4>1, <4>2
    <3>2. CASE timer # None
      BY <2>1, <3>2 DEF FilesIInv, WriteDue
    <3> QED
      BY <3>1, <3>2
  <2>3. up /\ ~refused /\ apart # None => timer' <= apart + Coalesce
    BY <1>5, <2>1 DEF FilesIInv, WriteDue
  <2> QED
    BY <1>1, <1>2, <1>5, <2>1, <2>2, <2>3 DEF FilesIInv, WriteDue, Moved
<1> QED
  BY <1>1, <1>3, <1>4, <1>5

LEMMA EntryIs ==
    ASSUME FileStore!StoreAssumption, FilesKept, NEW k \in Items, NEW v \in Values, NEW ttl \in {0,
           Ttl}
    PROVE  /\ FileStore!Entry(k, v, ttl) \in Records
      /\ ~FileStore!Expired(FileStore!Entry(k, v, ttl))
           /\ FileStore!Entry(k, v, ttl).key = k /\ FileStore!Entry(k, v, ttl).value = v
<1>1. fsNow \in Nat /\ Ttl \in Nat \ {0}
  BY DEF FileStore!StoreAssumption, FilesKept
<1>2. (IF ttl = 0 THEN 0 ELSE fsNow + ttl) \in Nat
  BY <1>1
<1>3. FileStore!Entry(k, v, ttl) = [key |-> k, value |-> v, expires |-> IF ttl
        = 0 THEN 0 ELSE fsNow + ttl]
  BY DEF FileStore!Entry
<1> QED
  BY <1>1, <1>2, <1>3 DEF Records, FileStore!Expired

\* What set() leaves: the new entry, and of the others only what was there.
LEMMA SetLeaves ==
    ASSUME FileStore!StoreAssumption, FilesKept, NEW k \in Items, NEW v \in Values, NEW ttl \in {0,
           Ttl},
           FileStore!Set(k, v, ttl)
    PROVE  /\ GoodMap(entries')
           /\ \E i \in 1 .. Len(entries') : entries'[i] = FileStore!Entry(k, v, ttl)
           /\ \A i \in 1 .. Len(entries') :
                 \/ entries'[i] = FileStore!Entry(k, v, ttl)
                 \/ entries'[i].key # k /\ \E j \in 1 .. Len(entries) : entries'[i] = entries[j]
<1> DEFINE e == FileStore!Entry(k, v, ttl)
<1>1. e \in Records /\ ~FileStore!Expired(e) /\ e.key = k
  BY EntryIs
<1>2. /\ GoodMap(entries) /\ entries \in Seq(Records) /\ OnePerKey(entries) /\ Len(entries) \in Nat
      /\ Len(entries) <= MaxEntries /\ MaxEntries \in Nat \ {0}
  BY DEF FilesKept, GoodMap, FileStore!StoreAssumption
<1>3. entries' = IF driver = "memory" THEN FileStore!Put(FileStore!MakeRoom(entries), e)
                ELSE FileStore!Trim(FileStore!Put(entries, e))
  BY DEF FileStore!Set
<1> HIDE DEF e
<1>4. CASE driver = "memory"
  <2> DEFINE room == FileStore!MakeRoom(entries)
             r == FileStore!Put(room, e)
  <2>1. /\ room \in Seq(Records) /\ OnePerKey(room) /\ Len(room) <= MaxEntries - 1
        /\ PartOf(room, entries)
    BY <1>2, MakeRoomKeeps
  <2> HIDE DEF room
  <2>2. /\ r \in Seq(Records) /\ OnePerKey(r)
        /\ \E i \in 1 .. Len(r) : r[i] = e
        /\ \A i \in 1 .. Len(r) :
              \/ r[i] = e
              \/ r[i].key # e.key /\ \E j \in 1 .. Len(room) : r[i] = room[j]
        /\ Len(r) = Len(room) \/ Len(r) = Len(room) + 1
    BY <1>1, <2>1, PutKeeps
  <2>3. entries' = r
    BY <1>3, <1>4 DEF room
  <2> HIDE DEF r
  <2>4. GoodMap(r)
    <3>1. Len(room) \in Nat /\ Len(r) \in Nat
      BY <2>1, <2>2
    <3> QED
      BY <1>2, <2>1, <2>2, <3>1 DEF GoodMap
  <2>5. \A i \in 1 .. Len(r) :
           \/ r[i] = e
           \/ r[i].key # k /\ \E j \in 1 .. Len(entries) : r[i] = entries[j]
    BY <1>1, <2>1, <2>2 DEF PartOf
  <2> QED
    BY <2>2, <2>3, <2>4, <2>5 DEF e
<1>5. CASE driver # "memory"
  <2> DEFINE p == FileStore!Put(entries, e)
             r == FileStore!Trim(p)
  <2>1. /\ p \in Seq(Records) /\ OnePerKey(p)
        /\ \E i \in 1 .. Len(p) : p[i] = e
        /\ \A i \in 1 .. Len(p) :
              \/ p[i] = e
              \/ p[i].key # e.key /\ \E j \in 1 .. Len(entries) : p[i] = entries[j]
        /\ \/ Len(p) = Len(entries)
           \/ Len(p) = Len(entries) + 1 /\ p[Len(entries) + 1] = e
    BY <1>1, <1>2, PutKeeps
  <2> HIDE DEF p
  <2>2. /\ GoodMap(r) /\ PartOf(r, p)
        /\ Len(p) <= MaxEntries => r = p
        /\ Len(p) > MaxEntries /\ ~FileStore!Expired(p[Len(p)]) =>
              \E i \in 1 .. Len(r) : r[i] = p[Len(p)]
    BY <2>1, TrimKeeps
  <2>3. entries' = r
    BY <1>3, <1>5 DEF p
  <2> HIDE DEF r
  <2>4. Len(p) \in Nat
    BY <2>1
  <2>5. \E i \in 1 .. Len(r) : r[i] = e
    <3>1. CASE Len(p) <= MaxEntries
      BY <2>1, <2>2, <3>1
    <3>2. CASE ~(Len(p) <= MaxEntries)
      <4>1. Len(p) = Len(entries) + 1 /\ Len(p) > MaxEntries
        BY <1>2, <2>1, <2>4, <3>2
      <4>2. p[Len(p)] = e
        BY <1>2, <2>1, <4>1
      <4> QED
        BY <1>1, <2>2, <4>1, <4>2
    <3> QED
      BY <3>1, <3>2
  <2>6. \A i \in 1 .. Len(r) :
           \/ r[i] = e
           \/ r[i].key # k /\ \E j \in 1 .. Len(entries) : r[i] = entries[j]
    BY <1>1, <2>1, <2>2 DEF PartOf
  <2> QED
    BY <2>2, <2>3, <2>5, <2>6 DEF e
<1> QED
  BY <1>4, <1>5

\* What touch() leaves: the entry it renews, with the same key and value.
LEMMA TouchLeaves ==
    ASSUME FileStore!StoreAssumption, FilesKept, NEW k \in Items, NEW ttl \in {0, Ttl},
           FileStore!Touch(k, ttl)
    PROVE  /\ GoodMap(entries')
           /\ \A i \in 1 .. Len(entries') :
                 \/ entries'[i] = entries[i] /\ i \in 1 .. Len(entries)
                 \/ /\ i \in 1 .. Len(entries)
                    /\ entries'[i].key = entries[i].key /\ entries'[i].value = entries[i].value
                    /\ TouchesDead \/ ~FileStore!Expired(entries[i])
<1>1. PICK i \in FileStore!At(entries, k) : /\ TouchesDead \/ ~FileStore!Expired(entries[i])
                                            /\ entries' = [entries EXCEPT ![i]
                                                 = FileStore!Entry(k, @.value, ttl)]
  BY DEF FileStore!Touch
<1>2. entries \in Seq(Records) /\ OnePerKey(entries) /\ Len(entries) <= MaxEntries
      /\ Len(entries) \in Nat /\ DOMAIN entries = 1 .. Len(entries)
  BY DEF FilesKept, GoodMap
<1>3. i \in 1 .. Len(entries) /\ entries[i].key = k /\ entries[i] \in Records
  <2>1. i \in 1 .. Len(entries) /\ entries[i].key = k
    BY <1>2 DEF FileStore!At
  <2> QED
    BY <1>2, <2>1, ElementOfSeq
<1> DEFINE e == FileStore!Entry(k, entries[i].value, ttl)
<1>4. e \in Records /\ e.key = k /\ e.value = entries[i].value
  <2>1. entries[i].value \in Values
    BY <1>3 DEF Records
  <2> QED
    BY <2>1, EntryIs
<1>5. entries' = [entries EXCEPT ![i] = e]
  BY <1>1
<1> HIDE DEF e
<1>6. entries' \in Seq(Records) /\ Len(entries') = Len(entries)
  BY <1>2, <1>3, <1>4, <1>5
<1>7. \A j \in 1 .. Len(entries) : entries'[j] = IF j = i THEN e ELSE entries[j]
  BY <1>2, <1>5
<1>8. OnePerKey(entries')
  <2>1. \A j \in 1 .. Len(entries) : entries'[j].key = entries[j].key
    BY <1>3, <1>4, <1>7
  <2> QED
    BY <1>2, <1>6, <2>1 DEF OnePerKey
<1> QED
  BY <1>1, <1>2, <1>3, <1>4, <1>6, <1>7, <1>8 DEF GoodMap

\* What a restart loads is the file: it was trimmed before it was written.
LEMMA TrimsNothing ==
    ASSUME FileStore!StoreAssumption, NEW es, GoodMap(es)
    PROVE  FileStore!Trim(es) = es
<1>1. es \in Seq(Records) /\ OnePerKey(es) /\ Len(es) <= MaxEntries
  BY DEF GoodMap
<1> QED
  BY <1>1, TrimKeeps

LEMMA FilesInit == FileStore!StoreAssumption /\ FileStore!Init => FilesIInv
<1> SUFFICES ASSUME FileStore!StoreAssumption, FileStore!Init
             PROVE  FilesIInv
  OBVIOUS
<1>1. GoodMap(<<>>)
  BY EmptyGood
<1> QED
  BY <1>1 DEF FileStore!Init, FilesIInv, FilesKept, WriteDue, FileStore!StoreAssumption

LEMMA FilesNext == FileStore!StoreAssumption /\ FilesIInv /\ [FileStore!Next]_(FileStore!vars)
    => FilesIInv'
<1> SUFFICES ASSUME FileStore!StoreAssumption, FilesIInv, [FileStore!Next]_(FileStore!vars)
             PROVE  FilesIInv'
  OBVIOUS
<1>0. /\ None \notin Nat /\ fsNow \in Nat /\ Coalesce \in Nat
      /\ GoodMap(entries) /\ GoodMap(file) /\ FilesKept
  BY DEF FileStore!StoreAssumption, FilesIInv, FilesKept
<1>1. CASE UNCHANGED FileStore!vars
  BY <1>1 DEF FileStore!vars, FileStore!counts, FilesIInv, FilesKept, WriteDue
<1>2. ASSUME Moved, NEW k \in Items, NEW v \in Values, NEW ttl \in {0, Ttl}, FileStore!Set(k, v, ttl)
      PROVE  FilesIInv'
  <2>1. GoodMap(entries')
    BY <1>0, <1>2, SetLeaves
  <2>2. FileStore!Call /\ FileStore!Persist
    BY <1>2 DEF FileStore!Set
  <2> QED
    BY <1>2, <2>1, <2>2, PersistKeeps
<1>3. ASSUME Moved, NEW k \in Items, NEW ttl \in {0, Ttl}, FileStore!Touch(k, ttl)
      PROVE  FilesIInv'
  <2>1. GoodMap(entries')
    BY <1>0, <1>3, TouchLeaves
  <2>2. FileStore!Call /\ FileStore!Persist
    BY <1>3 DEF FileStore!Touch
  <2> QED
    BY <1>3, <2>1, <2>2, PersistKeeps
<1>4. ASSUME Moved, NEW k \in Items, FileStore!Delete(k) \/ FileStore!GetExpired(k)
      PROVE  FilesIInv'
  <2>1. FileStore!Call /\ FileStore!Persist /\ entries'
          = FileStore!Without(entries, FileStore!At(entries, k))
    BY <1>4 DEF FileStore!Delete, FileStore!GetExpired
  <2>2. GoodMap(entries')
    BY <1>0, <2>1, GoodWithout
  <2> QED
    BY <1>4, <2>1, <2>2, PersistKeeps
<1>5. ASSUME Moved, FileStore!Sweep
      PROVE  FilesIInv'
  <2>1. FileStore!Call /\ driver = "memory" /\ entries'
          = FileStore!Without(entries, FileStore!Dead(entries)) /\ FileStore!Same
    BY <1>5 DEF FileStore!Sweep
  <2>2. GoodMap(entries')
    BY <1>0, <2>1, GoodWithout
  <2>3. FileStore!Persist
    BY <2>1 DEF FileStore!Persist, FileStore!Same
  <2> QED
    BY <1>5, <2>1, <2>2, <2>3, PersistKeeps
<1>6. ASSUME Moved, FileStore!Flush
      PROVE  FilesIInv'
  <2>1. FileStore!Call /\ timer # None /\ timer' = None /\ entries' = entries
        /\ FileStore!PersistNow
    BY <1>6 DEF FileStore!Flush
  <2>2. CASE file' = entries' /\ refused' = FALSE
    BY <1>0, <1>6, <2>1, <2>2 DEF FileStore!Call, Moved, FilesIInv, FilesKept, WriteDue
  <2>3. CASE refused' = TRUE /\ UNCHANGED file
    BY <1>0, <1>6, <2>1, <2>3 DEF FileStore!Call, Moved, FilesIInv, FilesKept, WriteDue
  <2> QED
    BY <2>1, <2>2, <2>3 DEF FileStore!PersistNow
<1>7. ASSUME Moved, FileStore!Crash
      PROVE  FilesIInv'
  <2>1. GoodMap(<<>>)
    BY EmptyGood
  <2> QED
    BY <1>0, <1>7, <2>1 DEF FileStore!Crash, Moved, FilesIInv, FilesKept, WriteDue
<1>8. ASSUME Moved, FileStore!Restart
      PROVE  FilesIInv'
  <2>1. entries' = file
    BY <1>0, <1>8, TrimsNothing DEF FileStore!Restart
  <2> QED
    BY <1>0, <1>8, <2>1 DEF FileStore!Restart, Moved, FilesIInv, FilesKept, WriteDue
<1>9. ASSUME Moved, FileStore!Tick
      PROVE  FilesIInv'
  <2>1. fsNow' = fsNow + 1 /\ timer # fsNow
        /\ UNCHANGED <<driver, entries, file, timer, up, refused>>
    BY <1>9 DEF FileStore!Tick
  <2>2. timer # None => fsNow' <= timer /\ timer <= fsNow' + Coalesce
    <3>1. timer # None => timer \in Nat /\ fsNow <= timer /\ timer <= fsNow + Coalesce
      BY DEF FilesIInv, WriteDue
    <3> QED
      BY <1>0, <2>1, <3>1
  <2>3. apart' = apart
    BY <1>9, <2>1 DEF Moved, FilesIInv, WriteDue
  <2> QED
    BY <1>0, <2>1, <2>2, <2>3 DEF FilesIInv, FilesKept, WriteDue
<1>10. CASE FileStore!Next
  <2>1. Moved
    BY <1>10 DEF FileStore!Next, Moved
  <2> QED
    BY <1>2, <1>3, <1>4, <1>5, <1>6, <1>7, <1>8, <1>9, <1>10, <2>1
    DEF FileStore!Next, FileStore!Other
<1> QED
  BY <1>1, <1>10

LEMMA FilesInv == FileStore!StoreAssumption => (FilesIInv => FileStore!LossBounded
  /\ FileStore!CapKept)
<1> SUFFICES ASSUME FileStore!StoreAssumption, FilesIInv
             PROVE  FileStore!LossBounded /\ FileStore!CapKept
  OBVIOUS
<1>1. FileStore!LossBounded
  <2> SUFFICES ASSUME up, apart # None, ~refused
               PROVE  CASE driver = "memory" -> TRUE
                        [] driver = "file" -> FALSE
                        [] driver = "coalesced" -> fsNow - apart <= Coalesce
    BY DEF FileStore!LossBounded
  <2>1. CASE driver = "memory"
    BY <2>1
  <2>2. CASE driver = "coalesced"
    <3>1. fsNow \in Nat /\ apart \in Nat /\ timer \in Nat /\ Coalesce \in Nat
          /\ fsNow <= timer /\ timer <= apart + Coalesce
      BY <2>2 DEF FilesIInv, FilesKept, WriteDue, FileStore!StoreAssumption
    <3>2. fsNow - apart <= Coalesce
      BY <3>1
    <3> QED
      BY <2>2, <3>2
  <2> QED
    BY <2>1, <2>2 DEF FilesIInv, WriteDue
<1>2. FileStore!CapKept
  <2>1. entries \in Seq(Records) /\ OnePerKey(entries) /\ Len(entries) <= MaxEntries
    BY DEF FilesIInv, FilesKept, GoodMap
  <2> QED
    BY <2>1 DEF FileStore!CapKept, OnePerKey
<1> QED
  BY <1>1, <1>2

-------------------------------------------------------------------------------
\* The mapping of the refinement, with the time at which it is looked at.
LiveAt(e, t) == ~(e.expires # 0 /\ e.expires <= t)
ValueAt(es, k, t) ==
    LET live == {i \in FileStore!At(es, k) : LiveAt(es[i], t)}
    IN  IF live = {} THEN None ELSE es[CHOOSE i \in live : TRUE].value
Answers(es, t) == [k \in Items |-> ValueAt(es, k, t)]

LEMMA ValueOf ==
    ASSUME NEW es, GoodMap(es), NEW k \in Items, NEW t \in Nat
    PROVE  /\ ValueAt(es, k, t) \in Values \cup {None}
           /\ \A i \in 1 .. Len(es) :
                 es[i].key = k /\ LiveAt(es[i], t) => ValueAt(es, k, t) = es[i].value
           /\ ValueAt(es, k, t) # None =>
                 \E i \in 1 .. Len(es) :
                     es[i].key = k /\ LiveAt(es[i], t) /\ ValueAt(es, k, t) = es[i].value
<1> DEFINE live == {i \in FileStore!At(es, k) : LiveAt(es[i], t)}
           c == CHOOSE i \in live : TRUE
<1>1. ValueAt(es, k, t) = IF live = {} THEN None ELSE es[c].value
  BY DEF ValueAt
<1>2. es \in Seq(Records) /\ OnePerKey(es) /\ DOMAIN es = 1 .. Len(es)
  BY DEF GoodMap
<1>3. \A i : i \in live <=> i \in 1 .. Len(es) /\ es[i].key = k /\ LiveAt(es[i], t)
  BY <1>2 DEF FileStore!At
<1>4. live # {} => c \in live
  OBVIOUS
<1> HIDE DEF live, c
<1>5. \A i \in 1 .. Len(es) : es[i] \in Records
  BY <1>2, ElementOfSeq
<1>6. live # {} => c \in 1 .. Len(es) /\ es[c].key = k /\ LiveAt(es[c], t) /\ es[c].value \in Values
  BY <1>3, <1>4, <1>5 DEF Records
<1>7. \A i \in live : i = c
  BY <1>3, <1>4, <1>2 DEF OnePerKey
<1> QED
  BY <1>1, <1>3, <1>6, <1>7

LEMMA LiveBefore ==
    ASSUME NEW e \in Records, NEW t \in Nat, NEW u \in Nat, t <= u, LiveAt(e, u)
    PROVE  LiveAt(e, t)
<1>1. e.expires \in Nat
  BY DEF Records
<1> QED
  BY <1>1 DEF LiveAt

\* A list whose live entries for k were live in another answers what that one
\* answered, or nothing.
LEMMA Faded ==
    ASSUME NEW es, GoodMap(es), NEW ds, GoodMap(ds), NEW k \in Items, NEW t \in Nat, NEW u \in Nat,
           \A i \in 1 .. Len(es) : es[i].key = k /\ LiveAt(es[i], u) =>
               \E j \in 1 .. Len(ds) :
                   ds[j].key = k /\ ds[j].value = es[i].value /\ LiveAt(ds[j], t)
    PROVE  ValueAt(es, k, u) \in {ValueAt(ds, k, t), None}
<1>1. CASE ValueAt(es, k, u) = None
  BY <1>1
<1>2. CASE ValueAt(es, k, u) # None
  <2>1. PICK i \in 1 .. Len(es) :
                 es[i].key = k /\ LiveAt(es[i], u) /\ ValueAt(es, k, u) = es[i].value
    BY <1>2, ValueOf
  <2>2. PICK j \in 1 .. Len(ds) : ds[j].key = k /\ ds[j].value = es[i].value /\ LiveAt(ds[j], t)
    BY <2>1
  <2>3. ValueAt(ds, k, t) = ds[j].value
    BY <2>2, ValueOf
  <2> QED
    BY <2>1, <2>2, <2>3
<1> QED
  BY <1>1, <1>2

\* Time and dropping only make answers go.
LEMMA PartFades ==
    ASSUME NEW es, GoodMap(es), NEW ds, GoodMap(ds), PartOf(es, ds), NEW t \in Nat, NEW u \in Nat,
           t <= u
    PROVE  \A k \in Items : Answers(es, u)[k] \in {Answers(ds, t)[k], None}
<1> TAKE k \in Items
<1>1. ASSUME NEW i \in 1 .. Len(es), es[i].key = k, LiveAt(es[i], u)
      PROVE  \E j \in 1 .. Len(ds) :
                 ds[j].key = k /\ ds[j].value = es[i].value /\ LiveAt(ds[j], t)
  <2>1. es[i] \in Records
    BY ElementOfSeq DEF GoodMap
  <2>2. LiveAt(es[i], t)
    BY <1>1, <2>1, LiveBefore
  <2>3. PICK j \in 1 .. Len(ds) : es[i] = ds[j]
    BY DEF PartOf
  <2> QED
    BY <1>1, <2>2, <2>3
<1>2. ValueAt(es, k, u) \in {ValueAt(ds, k, t), None}
  BY <1>1, Faded
<1> QED
  BY <1>2 DEF Answers

LEMMA PartSelf == \A es : PartOf(es, es)
BY DEF PartOf

LEMMA AnswersType ==
    ASSUME NEW es, GoodMap(es), NEW t \in Nat
    PROVE  Answers(es, t) \in [Items -> Values \cup {None}]
BY ValueOf DEF Answers

LEMMA MappingIs ==
    /\ [k \in Items |-> FileStore!ValueIn(entries, k)] = Answers(entries, fsNow)
    /\ [k \in Items |-> FileStore!ValueIn(file, k)] = Answers(file, fsNow)
    /\ [k \in Items |-> FileStore!ValueIn(entries, k)]' = Answers(entries', fsNow')
    /\ [k \in Items |-> FileStore!ValueIn(file, k)]' = Answers(file', fsNow')
BY DEF FileStore!ValueIn, FileStore!Expired, FileStore!At, Answers, ValueAt, LiveAt

\* Whatever a step does, the file is the map or fades.
LEMMA FileFades ==
    ASSUME FileStore!StoreAssumption, FilesIInv, FilesIInv', file' = entries' \/ file' = file,
           fsNow' = fsNow \/ fsNow' = fsNow + 1
    PROVE  FileStore!Contract!Saves
<1> DEFINE v == [k \in Items |-> FileStore!ValueIn(entries, k)]
           w == [k \in Items |-> FileStore!ValueIn(file, k)]
<1>1. /\ GoodMap(file) /\ GoodMap(file') /\ GoodMap(entries') /\ fsNow \in Nat /\ fsNow' \in Nat
           /\ fsNow <= fsNow'
  BY DEF FilesIInv, FilesKept
<1>2. w = Answers(file, fsNow) /\ w' = Answers(file', fsNow') /\ v' = Answers(entries', fsNow')
  BY MappingIs
<1>3. w' \in [Items -> Values \cup {None}]
  BY <1>1, <1>2, AnswersType
<1>4. CASE file' = entries'
  <2>1. w' = v'
    BY <1>2, <1>4
  <2> QED
    BY <1>3, <2>1 DEF FileStore!Contract!Saves
<1>5. CASE file' = file
  <2>1. \A k \in Items : Answers(file', fsNow')[k] \in {Answers(file, fsNow)[k], None}
    BY <1>1, <1>5, PartFades, PartSelf
  <2>2. \A k \in Items : w'[k] \in {w[k], None}
    BY <1>2, <2>1
  <2> QED
    BY <1>3, <2>2 DEF FileStore!Contract!Saves, FileStore!Contract!Fades
<1> QED
  BY <1>4, <1>5

LEMMA InitMaps == FileStore!StoreAssumption /\ FileStore!Init => FileStore!Contract!Init
<1> SUFFICES ASSUME FileStore!StoreAssumption, FileStore!Init
             PROVE  FileStore!Contract!Init
  OBVIOUS
<1>1. \A k \in Items : FileStore!ValueIn(<<>>, k) = None
  BY DEF FileStore!ValueIn, FileStore!At
<1> QED
  BY <1>1 DEF FileStore!Init, FileStore!Contract!Init

\* Where no answer changes but to None the step is one that loses.
LEMMA Loses ==
    ASSUME FileStore!StoreAssumption, FilesIInv, FilesIInv', file' = entries' \/ file' = file,
           fsNow' = fsNow \/ fsNow' = fsNow + 1, up' = up, call' = None,
           \A k \in Items : Answers(entries', fsNow')[k] \in {Answers(entries, fsNow)[k], None}
    PROVE  FileStore!Contract!Lose
<1> DEFINE v == [k \in Items |-> FileStore!ValueIn(entries, k)]
<1>1. GoodMap(entries') /\ fsNow' \in Nat
  BY DEF FilesIInv, FilesKept
<1>2. v = Answers(entries, fsNow) /\ v' = Answers(entries', fsNow')
  BY MappingIs
<1>3. v' \in [Items -> Values \cup {None}]
  BY <1>1, <1>2, AnswersType
<1>4. \A k \in Items : v'[k] \in {v[k], None}
  BY <1>2
<1>5. FileStore!Contract!Saves
  BY FileFades
<1> QED
  BY <1>3, <1>4, <1>5 DEF FileStore!Contract!Lose, FileStore!Contract!Fades

LEMMA Persists == FileStore!StoreAssumption /\ FilesIInv /\ FileStore!Persist => file'
    = entries' \/ file' = file
<1> SUFFICES ASSUME FileStore!StoreAssumption, FilesIInv, FileStore!Persist
             PROVE  file' = entries' \/ file' = file
  OBVIOUS
<1>1. driver \in {"memory", "file", "coalesced"}
  BY DEF FileStore!StoreAssumption, FilesIInv, FilesKept
<1> QED
  BY <1>1 DEF FileStore!Persist, FileStore!PersistNow

LEMMA SetMaps ==
    ASSUME FileStore!StoreAssumption, FilesIInv, FilesIInv', NEW k \in Items, NEW v \in Values,
           NEW ttl \in {0, Ttl},
           FileStore!Set(k, v, ttl), call' = <<k, v>>
    PROVE  FileStore!Contract!Set(k, v)
<1> DEFINE val == [j \in Items |-> FileStore!ValueIn(entries, j)]
           e == FileStore!Entry(k, v, ttl)
<1>0. FilesKept /\ FileStore!Call /\ FileStore!Persist
  BY DEF FilesIInv, FileStore!Set
<1>1. up /\ up' = up /\ fsNow' = fsNow
  BY <1>0 DEF FileStore!Call
<1>2. GoodMap(entries) /\ GoodMap(entries') /\ fsNow \in Nat
  BY DEF FilesIInv, FilesKept
<1>3. e \in Records /\ LiveAt(e, fsNow) /\ e.key = k /\ e.value = v
  <2>1. ~FileStore!Expired(e)
    BY <1>0, EntryIs
  <2>2. e \in Records /\ e.key = k /\ e.value = v
    BY <1>0, EntryIs
  <2> QED
    BY <2>1, <2>2 DEF LiveAt, FileStore!Expired
<1>4. /\ \E i \in 1 .. Len(entries') : entries'[i] = e
      /\ \A i \in 1 .. Len(entries') :
            \/ entries'[i] = e
            \/ entries'[i].key # k /\ \E j \in 1 .. Len(entries) : entries'[i] = entries[j]
  BY <1>0, SetLeaves
<1> HIDE DEF e
<1>5. val = Answers(entries, fsNow) /\ val' = Answers(entries', fsNow)
  BY <1>1, MappingIs
<1> HIDE DEF val
<1>6. val' \in [Items -> Values \cup {None}]
  BY <1>2, <1>5, AnswersType
<1>7. val'[k] = v
  <2>1. ValueAt(entries', k, fsNow) = v
    BY <1>2, <1>3, <1>4, ValueOf
  <2> QED
    BY <1>5, <2>1 DEF Answers
<1>8. \A j \in Items \ {k} : val'[j] \in {val[j], None}
  <2> TAKE j \in Items \ {k}
  <2>1. ASSUME NEW i \in 1 .. Len(entries'), entries'[i].key = j, LiveAt(entries'[i], fsNow)
        PROVE  \E n \in 1 .. Len(entries) :
                   /\ entries[n].key = j /\ entries[n].value = entries'[i].value
                   /\ LiveAt(entries[n], fsNow)
    BY <1>3, <1>4, <2>1
  <2>2. ValueAt(entries', j, fsNow) \in {ValueAt(entries, j, fsNow), None}
    BY <1>2, <2>1, Faded
  <2> QED
    BY <1>5, <2>2 DEF Answers
<1>9. FileStore!Contract!Saves
  BY <1>0, <1>1, FileFades, Persists
<1> QED
  BY <1>1, <1>6, <1>7, <1>8, <1>9 DEF FileStore!Contract!Set, val

LEMMA TouchMaps ==
    ASSUME FileStore!StoreAssumption, ~TouchesDead, FilesIInv, FilesIInv', NEW k \in Items,
           NEW ttl \in {0, Ttl},
           FileStore!Touch(k, ttl), call' = None
    PROVE  FileStore!Contract!Lose
<1>0. FilesKept /\ FileStore!Call /\ FileStore!Persist
  BY DEF FilesIInv, FileStore!Touch
<1>1. up' = up /\ fsNow' = fsNow /\ GoodMap(entries) /\ GoodMap(entries') /\ fsNow \in Nat
  BY <1>0 DEF FileStore!Call, FilesIInv, FilesKept
<1>2. \A i \in 1 .. Len(entries') :
         \/ entries'[i] = entries[i] /\ i \in 1 .. Len(entries)
         \/ /\ i \in 1 .. Len(entries)
            /\ entries'[i].key = entries[i].key /\ entries'[i].value = entries[i].value
            /\ ~FileStore!Expired(entries[i])
  BY <1>0, TouchLeaves
<1>3. \A j \in Items : Answers(entries', fsNow')[j] \in {Answers(entries, fsNow)[j], None}
  <2> TAKE j \in Items
  <2>1. ASSUME NEW i \in 1 .. Len(entries'), entries'[i].key = j, LiveAt(entries'[i], fsNow)
        PROVE  \E n \in 1 .. Len(entries) :
                   /\ entries[n].key = j /\ entries[n].value = entries'[i].value
                   /\ LiveAt(entries[n], fsNow)
    BY <1>2, <2>1 DEF LiveAt, FileStore!Expired
  <2>2. ValueAt(entries', j, fsNow) \in {ValueAt(entries, j, fsNow), None}
    BY <1>1, <2>1, Faded
  <2> QED
    BY <1>1, <2>2 DEF Answers
<1> QED
  BY <1>0, <1>1, <1>3, Loses, Persists

LEMMA NextMaps ==
    ASSUME FileStore!StoreAssumption, ~TouchesDead, FilesIInv, FilesIInv',
           [FileStore!Next]_(FileStore!vars)
    PROVE  [FileStore!Contract!Next]_(FileStore!Contract!vars)
<1> DEFINE val == [k \in Items |-> FileStore!ValueIn(entries, k)]
           sav == [k \in Items |-> FileStore!ValueIn(file, k)]
<1>0. /\ GoodMap(entries) /\ GoodMap(file) /\ GoodMap(entries') /\ GoodMap(file')
      /\ fsNow \in Nat /\ fsNow' \in Nat /\ FilesKept
  BY DEF FilesIInv, FilesKept
<1>1. CASE UNCHANGED FileStore!vars
  BY <1>1
  DEF FileStore!vars, FileStore!counts, FileStore!Contract!vars, FileStore!ValueIn,
      FileStore!Expired, FileStore!At
<1>2. ASSUME NEW k \in Items, NEW v \in Values, NEW ttl \in {0, Ttl}, FileStore!Set(k, v, ttl),
             call' = <<k, v>>
      PROVE  FileStore!Contract!Next
  BY <1>2, SetMaps DEF FileStore!Contract!Next
<1>3. ASSUME NEW k \in Items, NEW ttl \in {0, Ttl}, FileStore!Touch(k, ttl), call' = None
      PROVE  FileStore!Contract!Next
  BY <1>3, TouchMaps DEF FileStore!Contract!Next
<1>4. ASSUME call' = None, NEW K, entries'
        = FileStore!Without(entries, K), FileStore!Call, FileStore!Persist \/ FileStore!Same
      PROVE  FileStore!Contract!Next
  <2>1. up' = up /\ fsNow' = fsNow /\ fsNow <= fsNow'
    BY <1>0, <1>4 DEF FileStore!Call
  <2>2. PartOf(entries', entries)
    BY <1>0, <1>4, GoodWithout
  <2>3. \A k \in Items : Answers(entries', fsNow')[k] \in {Answers(entries, fsNow)[k], None}
    BY <1>0, <2>1, <2>2, PartFades
  <2>4. file' = entries' \/ file' = file
    BY <1>4, Persists DEF FileStore!Same
  <2> QED
    BY <1>4, <2>1, <2>3, <2>4, Loses DEF FileStore!Contract!Next
<1>5. ASSUME NEW k \in Items, FileStore!Delete(k) \/ FileStore!GetExpired(k), call' = None
      PROVE  FileStore!Contract!Next
  BY <1>4, <1>5 DEF FileStore!Delete, FileStore!GetExpired
<1>6. ASSUME FileStore!Sweep, call' = None
      PROVE  FileStore!Contract!Next
  BY <1>4, <1>6 DEF FileStore!Sweep
<1>7. ASSUME FileStore!Flush \/ FileStore!Tick, call' = None
      PROVE  FileStore!Contract!Next
  <2>1. /\ entries' = entries /\ up' = up
        /\ fsNow' = fsNow \/ fsNow' = fsNow + 1
        /\ file' = entries' \/ file' = file
    BY <1>7 DEF FileStore!Flush, FileStore!Tick, FileStore!Call, FileStore!PersistNow
  <2>2. \A k \in Items : Answers(entries', fsNow')[k] \in {Answers(entries, fsNow)[k], None}
    <3>1. fsNow <= fsNow'
      BY <1>0, <2>1
    <3> QED
      BY <1>0, <2>1, <3>1, PartFades, PartSelf
  <2> QED
    BY <1>7, <2>1, <2>2, Loses DEF FileStore!Contract!Next
<1>8. ASSUME FileStore!Crash, call' = None
      PROVE  FileStore!Contract!Next
  <2>1. up /\ up' = FALSE /\ entries' = <<>> /\ file' = file /\ fsNow' = fsNow
    BY <1>8 DEF FileStore!Crash
  <2>2. val' = [k \in Items |-> None]
    <3>1. \A k \in Items : ValueAt(<<>>, k, fsNow') = None
      BY DEF ValueAt, FileStore!At
    <3> QED
      BY <2>1, <3>1, MappingIs DEF Answers
  <2>3. sav' = sav
    BY <2>1, MappingIs
  <2> QED
    BY <1>8, <2>1, <2>2, <2>3 DEF FileStore!Contract!Next, FileStore!Contract!Crash
<1>9. ASSUME FileStore!Restart, call' = None
      PROVE  FileStore!Contract!Next
  <2>1. ~up /\ up' = TRUE /\ entries' = file /\ file' = file /\ fsNow' = fsNow
    BY <1>0, <1>9, TrimsNothing DEF FileStore!Restart
  <2>2. val' = sav /\ sav' = sav
    BY <2>1, MappingIs
  <2>3. val' \in [Items -> Values \cup {None}]
    BY <1>0, <2>1, MappingIs, AnswersType
  <2> QED
    BY <1>9, <2>1, <2>2, <2>3
    DEF FileStore!Contract!Next, FileStore!Contract!Reopen, FileStore!Contract!Fades
<1> QED
  BY <1>1, <1>2, <1>3, <1>5, <1>6, <1>7, <1>8, <1>9 DEF FileStore!Next, FileStore!Other

-------------------------------------------------------------------------------
LEMMA FilesMove == Spec => FileStore!Spec
<1>1. Init => FileStore!Init
  BY DEF Init
<1>2. [Next]_vars => [FileStore!Next]_(FileStore!vars)
  BY DEF Next, vars, files, FileStore!vars, FileStore!counts
<1> QED
  BY <1>1, <1>2, PTL DEF Spec, FileStore!Spec

LEMMA FilesHold == Spec => []FilesIInv
<1>1. FileStore!Init => FilesIInv
  BY FilesInit, DataLayerAssumption
<1>2. FilesIInv /\ [FileStore!Next]_(FileStore!vars) => FilesIInv'
  BY FilesNext, DataLayerAssumption
<1> QED
  BY <1>1, <1>2, FilesMove, PTL DEF FileStore!Spec

\* The file is never behind the map for longer than the window of the coalescing
\* driver, and never at all with the other file driver, unless a write was refused:
\* for every number of keys, every cap, window and time to live.
THEOREM LossBoundedHolds == Spec => []LossBounded
<1>1. FilesIInv => LossBounded
  BY FilesInv, DataLayerAssumption DEF LossBounded
<1> QED
  BY <1>1, FilesHold, PTL

\* No driver ever has more entries than its cap, nor two of one key.
THEOREM CapKeptHolds == Spec => []CapKept
<1>1. FilesIInv => CapKept
  BY FilesInv, DataLayerAssumption DEF CapKept
<1> QED
  BY <1>1, FilesHold, PTL

\* Every driver implements the contract of Store, across crashes and refused writes,
\* if nobody calls touch() on an entry that has expired.
THEOREM KeyValueSpecHolds ==
    ASSUME ~TouchesDead
    PROVE  Spec => KeyValueSpec
<1>1. FileStore!Init => FileStore!Contract!Init
  BY InitMaps, DataLayerAssumption
<1>2. FilesIInv /\ FilesIInv' /\ [FileStore!Next]_(FileStore!vars)
        => [FileStore!Contract!Next]_(FileStore!Contract!vars)
  BY NextMaps, DataLayerAssumption
<1> QED
  BY <1>1, <1>2, FilesMove, FilesHold, PTL
     DEF FileStore!Spec, KeyValueSpec, FileStore!KeyValueSpec, FileStore!Contract!Spec
===============================================================================
