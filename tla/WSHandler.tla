------------------------------ MODULE WSHandler ------------------------------
(***************************************************************************)
(* The dispatch of one WebSocket route: createWSHandler and its connection *)
(* registry (packages/core/src/http/ws.ts).  Handlers may be synchronous,  *)
(* may return a promise that settles late or never, and may close sockets  *)
(* while they run: Bun then calls close() before ws.close() returns, so    *)
(* close() nests in message() and in itself.                               *)
(*                                                                         *)
(* Left out: the parsing of messages, drain, and the transport limits that *)
(* are handed to Bun.  An open hook only runs user code; what it closes is *)
(* closed by the steps that follow it.                                     *)
(***************************************************************************)
EXTENDS Naturals, Sequences, FiniteSets

CONSTANTS Sockets,   \* raw sockets; each connects once
          Messages,  \* dispatches of the message hook that may happen
          Cap,       \* maxInflightMessages
          None       \* no message hook is on the call stack

ASSUME WSAssumption ==
  /\ IsFiniteSet(Messages)
  /\ Cap \in Nat
  /\ None \notin Messages

VARIABLES
  socket,    \* by socket: new, open, closing (ws.close() was called) or closed
  phase,     \* by dispatch: new, running, pending (its promise), or done
  from,      \* by dispatch: the socket it came from
  inFlight,  \* the route-wide counter
  slots,     \* inFlightBySocket; 0 when the map has no entry
  registry,  \* the sockets of `connections'
  running,   \* the dispatch whose hook is on the call stack
  closing    \* the close hooks on the call stack, outermost first

vars == <<socket, phase, from, inFlight, slots, registry, running, closing>>

Live == {s \in Sockets : socket[s] \in {"open", "closing"}}

(* The hooks that were called and have not settled, and those among them   *)
(* whose socket is still there.                                            *)
Unsettled == {m \in Messages : phase[m] \in {"running", "pending"}}
Held == {m \in Unsettled : from[m] \in Live}
HeldBy(s) == {m \in Held : from[m] = s}

(* No hook is on the stack: the event loop may deliver the next event. *)
Idle == running = None /\ closing = <<>>

Init ==
  /\ socket = [s \in Sockets |-> "new"]
  /\ phase = [m \in Messages |-> "new"]
  /\ from \in [Messages -> Sockets]
  /\ inFlight = 0
  /\ slots = [s \in Sockets |-> 0]
  /\ registry = {}
  /\ running = None
  /\ closing = <<>>

-----------------------------------------------------------------------------
Open(s) ==
  /\ Idle
  /\ socket[s] = "new"
  /\ socket' = [socket EXCEPT ![s] = "open"]
  /\ registry' = registry \cup {s}
  /\ UNCHANGED <<phase, from, inFlight, slots, running, closing>>

(* At the cap the socket is closed with 1013 instead of a dispatch. *)
Refuse(s) ==
  /\ Idle
  /\ s \in Live
  /\ inFlight >= Cap
  /\ socket' = [socket EXCEPT ![s] = "closing"]
  /\ UNCHANGED <<phase, from, inFlight, slots, registry, running, closing>>

Dispatch(m) ==
  /\ Idle
  /\ phase[m] = "new" /\ from[m] \in Live
  /\ inFlight < Cap
  /\ phase' = [phase EXCEPT ![m] = "running"]
  /\ running' = m
  /\ inFlight' = inFlight + 1
  /\ slots' = [slots EXCEPT ![from[m]] = @ + 1]
  /\ UNCHANGED <<socket, from, registry, closing>>

(* Mutant: a slot is given back whether or not its socket still holds one. *)
ReleaseAlways(s) ==
  /\ slots' = [slots EXCEPT ![s] = IF @ > 0 THEN @ - 1 ELSE 0]
  /\ inFlight' = IF inFlight > 0 THEN inFlight - 1 ELSE 0

(* releaseSlot: nothing when close() has released the socket's slots. *)
ReleaseSlot(s) ==
  IF slots[s] = 0
    THEN UNCHANGED <<slots, inFlight>>
    ELSE /\ slots' = [slots EXCEPT ![s] = @ - 1]
         /\ inFlight' = IF inFlight > 0 THEN inFlight - 1 ELSE 0

(* The hook returns or throws: its slot is free at once. *)
ReturnsValue(m) ==
  /\ running = m /\ closing = <<>>
  /\ running' = None
  /\ phase' = [phase EXCEPT ![m] = "done"]
  /\ ReleaseSlot(from[m])
  /\ UNCHANGED <<socket, from, registry, closing>>

ReturnsPromise(m) ==
  /\ running = m /\ closing = <<>>
  /\ running' = None
  /\ phase' = [phase EXCEPT ![m] = "pending"]
  /\ UNCHANGED <<socket, from, inFlight, slots, registry, closing>>

(* The promise fulfils or rejects, and its finally gives the slot back. *)
Settles(m) ==
  /\ Idle
  /\ phase[m] = "pending"
  /\ phase' = [phase EXCEPT ![m] = "done"]
  /\ ReleaseSlot(from[m])
  /\ UNCHANGED <<socket, from, registry, running, closing>>

(* Mutant: close() lets the counter fall below what other sockets hold. *)
CloseFreesRoute(s) ==
  /\ s \in Live
  /\ socket' = [socket EXCEPT ![s] = "closed"]
  /\ inFlight' = 0
  /\ slots' = [slots EXCEPT ![s] = 0]
  /\ closing' = Append(closing, s)
  /\ UNCHANGED <<phase, from, registry, running>>

(* close(): the peer went away, or a hook on the stack closed the socket. *)
(* Every slot of the socket is released before its close hook runs.       *)
Close(s) ==
  /\ s \in Live
  /\ socket' = [socket EXCEPT ![s] = "closed"]
  /\ inFlight' = IF inFlight > slots[s] THEN inFlight - slots[s] ELSE 0
  /\ slots' = [slots EXCEPT ![s] = 0]
  /\ closing' = Append(closing, s)
  /\ UNCHANGED <<phase, from, registry, running>>

(* Mutant: a close hook that throws skips the registry. *)
CloseThrows ==
  /\ closing # <<>>
  /\ closing' = SubSeq(closing, 1, Len(closing) - 1)
  /\ \/ registry' = registry \ {closing[Len(closing)]}
     \/ UNCHANGED registry
  /\ UNCHANGED <<socket, phase, from, inFlight, slots, running>>

(* The innermost close hook is over: the socket leaves the registry. *)
CloseReturns ==
  /\ closing # <<>>
  /\ closing' = SubSeq(closing, 1, Len(closing) - 1)
  /\ registry' = registry \ {closing[Len(closing)]}
  /\ UNCHANGED <<socket, phase, from, inFlight, slots, running>>

Next == \/ \E s \in Sockets : Open(s) \/ Refuse(s) \/ Close(s)
        \/ \E m \in Messages : Dispatch(m) \/ ReturnsValue(m) \/ ReturnsPromise(m)
                               \/ Settles(m)
        \/ CloseReturns

Spec == Init /\ [][Next]_vars

-----------------------------------------------------------------------------
(* Every variable keeps its type, and the route-wide counter never leaves  *)
(* 0 .. Cap.                                                               *)
TypeOK ==
  /\ socket \in [Sockets -> {"new", "open", "closing", "closed"}]
  /\ phase \in [Messages -> {"new", "running", "pending", "done"}]
  /\ from \in [Messages -> Sockets]
  /\ inFlight \in 0 .. Cap
  /\ slots \in [Sockets -> 0 .. Cap]
  /\ registry \in SUBSET Sockets
  /\ running \in Messages \cup {None}
  /\ closing \in Seq(Sockets)

(* The cap holds: however handlers settle, throw, close sockets or hang,   *)
(* sockets that are still connected never have more than Cap unsettled     *)
(* message handlers between them (message(), ws.ts:389-402).               *)
LiveWorkBounded == Cardinality(Held) <= Cap

(* ... and it is not held by ghosts: a message is refused with 1013 only   *)
(* when Cap handlers of connected sockets are unsettled at that moment; a  *)
(* handler that never settles stops counting when its socket closes        *)
(* (close(), ws.ts:411-417, against releaseSlot, 348-354).                 *)
RefusedOnlyAtCap ==
  [][\A s \in Sockets : Refuse(s) => Cardinality(Held) = Cap]_vars

(* Whenever the event loop is idle, the registry holds exactly the         *)
(* connected sockets, so a broadcast reaches all of them and no other      *)
(* (open() and close(), ws.ts:369-373 and 418-419).                        *)
RegistryCurrent == Idle => registry = Live

(* What the counters mean: the strengthening that makes the two properties *)
(* of the cap inductive.                                                   *)
CountersExact ==
  /\ inFlight = Cardinality(Held)
  /\ \A s \in Sockets : slots[s] = Cardinality(HeldBy(s))

(* The code does not promise this, whatever the comment at ws.ts:145 says: *)
(* handlers of closed sockets go on beyond the cap.                        *)
UnsettledBounded == Cardinality(Unsettled) <= Cap
=============================================================================
