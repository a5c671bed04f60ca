--------------------------- MODULE WSHandlerProofs ---------------------------
(***************************************************************************)
(* For any sockets, any finite set of dispatches and any cap: the counters *)
(* of the WebSocket handler count exactly the unsettled hooks of connected *)
(* sockets, so the cap is kept, and is reached by nothing else.            *)
(***************************************************************************)
EXTENDS WSHandler, FiniteSetTheorems, SequenceTheorems, TLAPS

(* The types without the bounds, which follow from CountersExact. *)
Types ==
  /\ socket \in [Sockets -> {"new", "open", "closing", "closed"}]
  /\ phase \in [Messages -> {"new", "running", "pending", "done"}]
  /\ from \in [Messages -> Sockets]
  /\ inFlight \in Nat
  /\ slots \in [Sockets -> Nat]
  /\ registry \in SUBSET Sockets
  /\ running \in Messages \cup {None}
  /\ closing \in Seq(Sockets)

(* The dispatch on the stack is the one that is running. *)
RunningIsRunning == \A m \in Messages : running = m => phase[m] = "running"

(* No hook is unsettled for a socket that never connected, so an open()    *)
(* does not bring back slots.                                              *)
FromConnected == \A m \in Unsettled : socket[from[m]] # "new"

Shape == Types /\ RunningIsRunning /\ FromConnected

IInv == Shape /\ CountersExact /\ inFlight <= Cap

(* Dispatches are finitely many, so every set of them can be counted. *)
LEMMA HeldFinite ==
  /\ IsFiniteSet(Held)
  /\ \A s : IsFiniteSet(HeldBy(s)) /\ HeldBy(s) \in SUBSET Held
<1>1. Held \in SUBSET Messages
  BY DEF Held, Unsettled
<1>2. \A s : HeldBy(s) \in SUBSET Messages
  BY <1>1 DEF HeldBy
<1> QED
  BY <1>1, <1>2, FS_Subset, WSAssumption DEF HeldBy

(* The same, one step later. *)
LEMMA HeldFiniteNext ==
  /\ IsFiniteSet(Held')
  /\ \A s : IsFiniteSet(HeldBy(s)')
<1>1. Held' \in SUBSET Messages
  BY DEF Held, Unsettled
<1>2. \A s : HeldBy(s)' \in SUBSET Messages
  BY <1>1 DEF HeldBy
<1> QED
  BY <1>1, <1>2, FS_Subset, WSAssumption

(* What one socket holds is part of what the route holds. *)
LEMMA SlotsWithinRoute ==
  ASSUME Types, CountersExact, NEW s \in Sockets
  PROVE  slots[s] <= inFlight
BY HeldFinite, FS_Subset DEF CountersExact

(* A step after which the same dispatches are held, and that leaves the    *)
(* counters alone, leaves them exact.                                      *)
LEMMA SameHeld ==
  ASSUME CountersExact, Held' = Held, from' = from, UNCHANGED <<inFlight, slots>>
  PROVE  CountersExact'
<1>1. \A s \in Sockets : HeldBy(s)' = HeldBy(s)
  BY DEF HeldBy
<1> QED
  BY <1>1 DEF CountersExact

(* A dispatch adds one to the route and to its socket. *)
LEMMA DispatchCounts ==
  ASSUME IInv, NEW m \in Messages, Dispatch(m)
  PROVE  CountersExact'
<1> USE DEF IInv, Shape, Types
<1>1. m \notin Held
  BY DEF Dispatch, Held, Unsettled
<1>2. Live' = Live
  BY DEF Dispatch, Live
<1>3. Unsettled' = Unsettled \cup {m}
  BY DEF Dispatch, Unsettled
<1>4. Held' = Held \cup {m}
  BY <1>2, <1>3 DEF Dispatch, Held
<1>5. HeldBy(from[m])' = HeldBy(from[m]) \cup {m} /\ m \notin HeldBy(from[m])
  BY <1>1, <1>4 DEF Dispatch, HeldBy
<1>6. \A s \in Sockets : s # from[m] => HeldBy(s)' = HeldBy(s)
  BY <1>4 DEF Dispatch, HeldBy
<1>7. Cardinality(Held') = Cardinality(Held) + 1
  BY <1>1, <1>4, HeldFinite, FS_AddElement
<1>8. Cardinality(HeldBy(from[m])') = Cardinality(HeldBy(from[m])) + 1
  BY <1>5, HeldFinite, FS_AddElement
<1>9. inFlight' = Cardinality(Held')
  BY <1>7 DEF Dispatch, CountersExact
<1>10. ASSUME NEW s \in Sockets PROVE slots'[s] = Cardinality(HeldBy(s)')
  BY <1>6, <1>8 DEF Dispatch, CountersExact
<1> QED
  BY <1>9, <1>10 DEF CountersExact

(* A hook that is over gives back what it holds: one slot while its socket *)
(* is connected, nothing after.                                            *)
LEMMA ReleaseCounts ==
  ASSUME IInv, NEW m \in Messages, m \in Unsettled,
         phase' = [phase EXCEPT ![m] = "done"], ReleaseSlot(from[m]),
         UNCHANGED <<socket, from>>
  PROVE  CountersExact' /\ inFlight' \in Nat /\ slots' \in [Sockets -> Nat] /\ inFlight' <= inFlight
<1> USE DEF IInv, Shape, Types
<1> DEFINE f == from[m]
<1>1. Live' = Live /\ Unsettled' = Unsettled \ {m}
  BY DEF Live, Unsettled
<1>2. Held' = Held \ {m}
  BY <1>1 DEF Held
<1>3. \A s \in Sockets : HeldBy(s)' = HeldBy(s) \ {m}
  BY <1>2 DEF HeldBy
<1>4. \A s \in Sockets : s # f => m \notin HeldBy(s)
  BY DEF HeldBy
<1>5. \A s \in Sockets : s # f => HeldBy(s)' = HeldBy(s)
  BY <1>3, <1>4
<1>6. f \in Sockets
  OBVIOUS
<1>7. CASE m \in Held
  <2>1. m \in HeldBy(f)
    BY <1>7 DEF HeldBy
  <2>2a. Cardinality(Held') = Cardinality(Held) - 1
    BY <1>2, <1>7, HeldFinite, FS_RemoveElement
  <2>2b. Cardinality(HeldBy(f)') = Cardinality(HeldBy(f)) - 1
    <3> DEFINE H == HeldBy(f)
    <3>1. H' = H \ {m}
      BY <1>3, <1>6
    <3>2. m \in H /\ IsFiniteSet(H)
      BY <2>1, HeldFinite
    <3> HIDE DEF H
    <3>3. Cardinality(H \ {m}) = Cardinality(H) - 1
      BY <3>2, FS_RemoveElement
    <3>4. Cardinality(H') = Cardinality(H) - 1
      BY <3>1, <3>3
    <3> QED
      BY <3>4 DEF H
  <2>2. /\ Cardinality(Held') = Cardinality(Held) - 1
        /\ Cardinality(HeldBy(f)') = Cardinality(HeldBy(f)) - 1
    BY <2>2a, <2>2b
  <2>3. Cardinality(HeldBy(f)') \in Nat /\ Cardinality(Held') \in Nat
    BY HeldFiniteNext, FS_CardinalityType
  <2>4. slots[f] \in Nat /\ inFlight \in Nat /\ slots[f] > 0 /\ inFlight > 0
    BY <1>6, <2>2, <2>3 DEF CountersExact
  <2>5. slots' = [slots EXCEPT ![f] = slots[f] - 1] /\ inFlight' = inFlight - 1
    BY <2>4 DEF ReleaseSlot
  <2>6. inFlight' = Cardinality(Held')
    BY <2>2, <2>5 DEF CountersExact
  <2>7. ASSUME NEW s \in Sockets PROVE slots'[s] = Cardinality(HeldBy(s)')
    BY <1>5, <1>6, <2>2, <2>5 DEF CountersExact
  <2> QED
    BY <2>4, <2>5, <2>6, <2>7 DEF CountersExact
<1>8. CASE m \notin Held
  <2>1. HeldBy(f) = {}
    BY <1>8 DEF Held, HeldBy
  <2>2. slots[f] = 0
    BY <1>6, <2>1, FS_EmptySet DEF CountersExact
  <2>3. UNCHANGED <<inFlight, slots>>
    BY <2>2 DEF ReleaseSlot
  <2>4. Held' = Held
    BY <1>2, <1>8
  <2> QED
    BY <2>3, <2>4, SameHeld
<1> QED
  BY <1>7, <1>8

(* close() takes back exactly what its socket holds. *)
LEMMA CloseCounts ==
  ASSUME IInv, NEW s \in Sockets, Close(s)
  PROVE  CountersExact' /\ inFlight' \in Nat /\ slots' \in [Sockets -> Nat] /\ inFlight' <= inFlight
<1> USE DEF IInv, Shape, Types
<1>1. Live' = Live \ {s} /\ Unsettled' = Unsettled
  BY DEF Close, Live, Unsettled
<1>2. Held' = Held \ HeldBy(s)
  BY <1>1 DEF Close, Held, HeldBy
<1>3. \A t \in Sockets : t # s => HeldBy(t)' = HeldBy(t)
  BY <1>2 DEF Close, HeldBy
<1>4. HeldBy(s)' = {}
  BY <1>2 DEF Close, HeldBy
<1>5. Held \cap HeldBy(s) = HeldBy(s)
  BY DEF HeldBy
<1>6. Cardinality(Held') = Cardinality(Held) - Cardinality(HeldBy(s))
  BY <1>2, <1>5, HeldFinite, FS_Difference
<1>7. slots[s] <= inFlight /\ slots[s] \in Nat /\ inFlight \in Nat
  BY SlotsWithinRoute
<1>8. inFlight' = inFlight - slots[s]
  BY <1>7 DEF Close
<1>9. inFlight' = Cardinality(Held')
  BY <1>6, <1>8 DEF CountersExact
<1>10. slots' = [slots EXCEPT ![s] = 0]
  BY DEF Close
<1>11. ASSUME NEW t \in Sockets PROVE slots'[t] = Cardinality(HeldBy(t)')
  BY <1>3, <1>4, <1>10, FS_EmptySet DEF CountersExact
<1> QED
  BY <1>7, <1>8, <1>9, <1>10, <1>11 DEF CountersExact

(* The handler starts with nothing in flight. *)
THEOREM InitIInv == Init => IInv
<1> SUFFICES ASSUME Init PROVE IInv
  OBVIOUS
<1>1. Unsettled = {} /\ Held = {} /\ \A s : HeldBy(s) = {}
  BY DEF Init, Held, HeldBy, Unsettled
<1>2. CountersExact
  BY <1>1, FS_EmptySet DEF CountersExact, Init
<1>3. Shape
  BY <1>1, WSAssumption DEF Init, Shape, Types, RunningIsRunning, FromConnected
<1> QED
  BY <1>2, <1>3, WSAssumption DEF IInv, Init

(* The typed part of the step, once the counters are known to keep theirs. *)
LEMMA StepShape ==
  ASSUME Shape, [Next]_vars, inFlight' \in Nat, slots' \in [Sockets -> Nat]
  PROVE  Shape'
<1> USE DEF Shape, Types, RunningIsRunning, FromConnected, Unsettled
<1>1. ASSUME NEW s \in Sockets, Open(s) PROVE Shape'
  BY <1>1 DEF Open
<1>2. ASSUME NEW s \in Sockets, Refuse(s) PROVE Shape'
  BY <1>2 DEF Refuse
<1>3. ASSUME NEW s \in Sockets, Close(s) PROVE Shape'
  BY <1>3 DEF Close
<1>4. ASSUME NEW m \in Messages, Dispatch(m) PROVE Shape'
  BY <1>4 DEF Dispatch, Live
<1>5. ASSUME NEW m \in Messages, ReturnsValue(m) PROVE Shape'
  BY <1>5, WSAssumption DEF ReturnsValue
<1>6. ASSUME NEW m \in Messages, ReturnsPromise(m) PROVE Shape'
  BY <1>6, WSAssumption DEF ReturnsPromise
<1>7. ASSUME NEW m \in Messages, Settles(m) PROVE Shape'
  BY <1>7, WSAssumption DEF Settles, Idle
<1>8. ASSUME CloseReturns PROVE Shape'
  BY <1>8 DEF CloseReturns
<1>9. ASSUME UNCHANGED vars PROVE Shape'
  BY <1>9 DEF vars
<1> QED
  BY <1>1, <1>2, <1>3, <1>4, <1>5, <1>6, <1>7, <1>8, <1>9 DEF Next

(* Every step keeps the counters exact and under the cap. *)
LEMMA StepCounters ==
  ASSUME IInv, [Next]_vars
  PROVE  /\ CountersExact' /\ inFlight' <= Cap
         /\ inFlight' \in Nat /\ slots' \in [Sockets -> Nat]
<1> USE DEF IInv
<1> DEFINE Goal == /\ CountersExact' /\ inFlight' <= Cap
                   /\ inFlight' \in Nat /\ slots' \in [Sockets -> Nat]
<1>0. inFlight \in Nat /\ slots \in [Sockets -> Nat] /\ from \in [Messages -> Sockets]
  BY DEF Shape, Types
<1>1. ASSUME NEW s \in Sockets, Open(s) PROVE Goal
  <2>1. Held' = Held
    BY <1>1 DEF Open, Held, Unsettled, Live, Shape, Types, FromConnected
  <2> QED
    BY <1>0, <1>1, <2>1, SameHeld DEF Open
<1>2. ASSUME NEW s \in Sockets, Refuse(s) PROVE Goal
  <2>1. Live' = Live /\ Unsettled' = Unsettled
    BY <1>2 DEF Refuse, Live, Unsettled, Shape, Types
  <2>2. Held' = Held
    BY <1>2, <2>1 DEF Held, Refuse
  <2> QED
    BY <1>0, <1>2, <2>2, SameHeld DEF Refuse
<1>3. ASSUME NEW m \in Messages, Dispatch(m) PROVE Goal
  <2>1. CountersExact'
    BY <1>3, DispatchCounts
  <2>2. inFlight' <= Cap /\ inFlight' \in Nat /\ slots' \in [Sockets -> Nat]
    BY <1>0, <1>3, WSAssumption DEF Dispatch
  <2> QED
    BY <2>1, <2>2
<1>4. ASSUME NEW m \in Messages, ReturnsValue(m) PROVE Goal
  <2>1. m \in Unsettled
    BY <1>4 DEF ReturnsValue, Shape, RunningIsRunning, Unsettled
  <2>2. /\ phase' = [phase EXCEPT ![m] = "done"] /\ ReleaseSlot(from[m])
        /\ UNCHANGED <<socket, from>>
    BY <1>4 DEF ReturnsValue
  <2>3. /\ CountersExact' /\ inFlight' \in Nat /\ slots' \in [Sockets -> Nat]
        /\ inFlight' <= inFlight
    BY <2>1, <2>2, ReleaseCounts
  <2> QED
    BY <1>0, <2>3, WSAssumption
<1>5. ASSUME NEW m \in Messages, ReturnsPromise(m) PROVE Goal
  <2>1. Live' = Live /\ Unsettled' = Unsettled
    BY <1>5 DEF ReturnsPromise, Shape, RunningIsRunning, Live, Unsettled, Types
  <2>2. Held' = Held
    BY <1>5, <2>1 DEF Held, ReturnsPromise
  <2> QED
    BY <1>0, <1>5, <2>2, SameHeld DEF ReturnsPromise
<1>6. ASSUME NEW m \in Messages, Settles(m) PROVE Goal
  <2>1. m \in Unsettled
    BY <1>6 DEF Settles, Unsettled
  <2>2. /\ phase' = [phase EXCEPT ![m] = "done"] /\ ReleaseSlot(from[m])
        /\ UNCHANGED <<socket, from>>
    BY <1>6 DEF Settles
  <2>3. /\ CountersExact' /\ inFlight' \in Nat /\ slots' \in [Sockets -> Nat]
        /\ inFlight' <= inFlight
    BY <2>1, <2>2, ReleaseCounts
  <2> QED
    BY <1>0, <2>3, WSAssumption
<1>7. ASSUME NEW s \in Sockets, Close(s) PROVE Goal
  <2>1. /\ CountersExact' /\ inFlight' \in Nat /\ slots' \in [Sockets -> Nat]
        /\ inFlight' <= inFlight
    BY <1>7, CloseCounts
  <2> QED
    BY <1>0, <2>1, WSAssumption
<1>8. ASSUME CloseReturns PROVE Goal
  <2>1. Held' = Held
    BY <1>8 DEF CloseReturns, Held, Unsettled, Live
  <2> QED
    BY <1>0, <1>8, <2>1, SameHeld DEF CloseReturns
<1>9. ASSUME UNCHANGED vars PROVE Goal
  <2>1. Held' = Held
    BY <1>9 DEF vars, Held, Unsettled, Live
  <2> QED
    BY <1>0, <1>9, <2>1, SameHeld DEF vars
<1> QED
  BY <1>1, <1>2, <1>3, <1>4, <1>5, <1>6, <1>7, <1>8, <1>9 DEF Next

(* The invariant is inductive: its typed part and its counters, together. *)
THEOREM StepIInv == IInv /\ [Next]_vars => IInv'
BY StepShape, StepCounters DEF IInv

(* The cap is a bound of the work of connected sockets, always. *)
THEOREM CapHolds == Spec => []LiveWorkBounded
<1>1. IInv => LiveWorkBounded
  BY DEF IInv, CountersExact, LiveWorkBounded
<1> QED
  BY <1>1, InitIInv, StepIInv, PTL DEF Spec

(* The types, with the bounds that come from the counts. *)
THEOREM TypeCorrect == Spec => []TypeOK
<1>1. IInv => TypeOK
  <2> SUFFICES ASSUME IInv PROVE TypeOK
    OBVIOUS
  <2>1. ASSUME NEW s \in Sockets PROVE slots[s] \in 0 .. Cap
    BY SlotsWithinRoute, WSAssumption DEF IInv, Shape, Types
  <2>2. slots \in [Sockets -> 0 .. Cap]
    BY <2>1 DEF IInv, Shape, Types
  <2> QED
    BY <2>2, WSAssumption DEF IInv, Shape, Types, TypeOK
<1> QED
  BY <1>1, InitIInv, StepIInv, PTL DEF Spec

(* What the counters mean. *)
THEOREM CountersCorrect == Spec => []CountersExact
BY InitIInv, StepIInv, PTL DEF Spec, IInv

(* A refusal finds the cap used up by hooks of connected sockets. *)
THEOREM RefusalsJustified == Spec => RefusedOnlyAtCap
<1>1. IInv => \A s \in Sockets : Refuse(s) => Cardinality(Held) = Cap
  BY WSAssumption DEF IInv, Shape, Types, CountersExact, Refuse
<1>2. IInv /\ [Next]_vars => [\A s \in Sockets : Refuse(s) => Cardinality(Held) = Cap]_vars
  BY <1>1
<1> QED
  BY <1>2, InitIInv, StepIInv, PTL DEF Spec, RefusedOnlyAtCap

-----------------------------------------------------------------------------
(* The registry: connected sockets, and those whose close hook is still on *)
(* the stack, each of them once.                                           *)
OnStack == {closing[i] : i \in 1 .. Len(closing)}

RegistryExact ==
  /\ Types
  /\ \A i \in 1 .. Len(closing) : socket[closing[i]] = "closed"
  /\ \A i, j \in 1 .. Len(closing) : closing[i] = closing[j] => i = j
  /\ registry = Live \cup OnStack

(* Appending to, and popping, the stack of close hooks. *)
LEMMA PopStack ==
  ASSUME closing \in Seq(Sockets), closing # <<>>,
         closing' = SubSeq(closing, 1, Len(closing) - 1)
  PROVE  /\ Len(closing) \in Nat /\ Len(closing) > 0
         /\ closing' \in Seq(Sockets) /\ Len(closing') = Len(closing) - 1
         /\ \A i \in 1 .. Len(closing') : closing'[i] = closing[i]
<1> DEFINE n == Len(closing) - 1
<1>1. Len(closing) \in Nat /\ Len(closing) > 0
  OBVIOUS
<1>2. /\ SubSeq(closing, 1, n) \in Seq(Sockets)
      /\ Len(SubSeq(closing, 1, n)) = IF 1 <= n THEN n - 1 + 1 ELSE 0
      /\ \A i \in 1 .. n - 1 + 1 : SubSeq(closing, 1, n)[i] = closing[1 + i - 1]
  BY <1>1, SubSeqProperties
<1>3. n \in Nat /\ n - 1 + 1 = n /\ \A i \in 1 .. n : 1 + i - 1 = i
  BY <1>1
<1> HIDE DEF n
<1>4. Len(closing') = n
  BY <1>2, <1>3 DEF n
<1>5. \A i \in 1 .. n : closing'[i] = closing[i]
  BY <1>2, <1>3 DEF n
<1> QED
  BY <1>1, <1>2, <1>4, <1>5 DEF n

LEMMA StepRegistry ==
  ASSUME RegistryExact, Types', [Next]_vars
  PROVE  RegistryExact'
<1> USE DEF RegistryExact
<1>0. Len(closing) \in Nat
  BY DEF Types
<1>1. ASSUME NEW s \in Sockets, Open(s) PROVE RegistryExact'
  <2>1. closing' = closing /\ OnStack' = OnStack /\ OnStack = {}
    BY <1>1 DEF Open, Idle, OnStack
  <2>2. Live' = Live \cup {s}
    BY <1>1 DEF Open, Live, Types
  <2>3. closing = <<>>
    BY <1>1 DEF Open, Idle
  <2> QED
    BY <1>1, <2>1, <2>2, <2>3 DEF Open
<1>2. ASSUME NEW s \in Sockets, Refuse(s) PROVE RegistryExact'
  <2>1. closing' = closing /\ OnStack' = OnStack /\ closing = <<>>
    BY <1>2 DEF Refuse, Idle, OnStack
  <2>2. Live' = Live
    BY <1>2 DEF Refuse, Live, Types
  <2> QED
    BY <1>2, <2>1, <2>2 DEF Refuse
<1>3. ASSUME NEW s \in Sockets, Close(s) PROVE RegistryExact'
  <2>1. Live' = Live \ {s} /\ s \in Live
    BY <1>3 DEF Close, Live, Types
  <2>2. /\ closing' = Append(closing, s) /\ closing \in Seq(Sockets)
        /\ socket' = [socket EXCEPT ![s] = "closed"] /\ registry' = registry
    BY <1>3 DEF Close, Types
  <2>3. /\ Len(closing') = Len(closing) + 1 /\ closing'[Len(closing) + 1] = s
        /\ \A i \in 1 .. Len(closing) : closing'[i] = closing[i]
    BY <2>2
  <2>4. \A i \in 1 .. Len(closing) : closing[i] # s
    BY <2>1 DEF Live
  <2>5. OnStack' = OnStack \cup {s}
    BY <1>0, <2>3 DEF OnStack
  <2>6. ASSUME NEW i \in 1 .. Len(closing') PROVE socket'[closing'[i]] = "closed"
    <3>1. socket'[s] = "closed" /\ \A t \in Sockets : t # s => socket'[t] = socket[t]
      BY <2>2 DEF Types
    <3>2. CASE i = Len(closing) + 1
      BY <2>3, <3>1, <3>2
    <3>3. CASE i \in 1 .. Len(closing)
      <4>1. closing'[i] = closing[i] /\ closing[i] \in Sockets
        BY <2>2, <2>3, <3>3
      <4> QED
        BY <2>4, <3>1, <3>3, <4>1
    <3> QED
      BY <1>0, <2>3, <3>2, <3>3
  <2>7. \A i, j \in 1 .. Len(closing') : closing'[i] = closing'[j] => i = j
    BY <1>0, <2>3, <2>4
  <2>8. registry' = Live' \cup OnStack'
    BY <2>1, <2>2, <2>5
  <2> QED
    BY <2>6, <2>7, <2>8
<1>4. ASSUME CloseReturns PROVE RegistryExact'
  <2> DEFINE top == closing[Len(closing)]
  <2>1. /\ Len(closing) > 0 /\ Len(closing') = Len(closing) - 1
        /\ \A i \in 1 .. Len(closing') : closing'[i] = closing[i]
    BY <1>4, PopStack DEF CloseReturns, Types
  <2>2. socket' = socket /\ registry' = registry \ {top} /\ Live' = Live
    BY <1>4 DEF CloseReturns, Live
  <2>3. OnStack' = OnStack \ {top}
    BY <1>0, <2>1 DEF OnStack
  <2>4. top \notin Live
    BY <1>0, <2>1 DEF Live
  <2> HIDE DEF top
  <2>5. registry' = Live' \cup OnStack'
    BY <2>2, <2>3, <2>4
  <2>6. \A i \in 1 .. Len(closing') : socket'[closing'[i]] = "closed"
    BY <1>0, <2>1, <2>2
  <2>7. \A i, j \in 1 .. Len(closing') : closing'[i] = closing'[j] => i = j
    BY <1>0, <2>1
  <2> QED
    BY <2>5, <2>6, <2>7
<1>5. ASSUME UNCHANGED <<socket, registry, closing>> PROVE RegistryExact'
  <2>1. Live' = Live /\ OnStack' = OnStack
    BY <1>5 DEF Live, OnStack
  <2> QED
    BY <1>5, <2>1
<1> QED
  BY <1>1, <1>2, <1>3, <1>4, <1>5
  DEF Next, vars, Dispatch, ReturnsValue, ReturnsPromise, Settles

(* An idle event loop broadcasts to the connected sockets and to no other. *)
THEOREM RegistryHolds == Spec => []RegistryCurrent
<1>1. Init => RegistryExact
  <2> SUFFICES ASSUME Init PROVE RegistryExact
    OBVIOUS
  <2>1. Types
    BY InitIInv DEF IInv, Shape
  <2>2. Live = {} /\ OnStack = {}
    BY DEF Init, Live, OnStack
  <2> QED
    BY <2>1, <2>2 DEF Init, RegistryExact
<1>2. IInv' => Types'
  BY DEF IInv, Shape
<1>3. RegistryExact => RegistryCurrent
  BY DEF RegistryExact, RegistryCurrent, Idle, OnStack
<1>4. RegistryExact /\ IInv' /\ [Next]_vars => RegistryExact'
  BY <1>2, StepRegistry
<1> QED
  BY <1>1, <1>3, <1>4, InitIInv, StepIInv, PTL DEF Spec
=============================================================================
