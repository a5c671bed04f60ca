------------------------- MODULE AppLifecycleProofs -------------------------
(***************************************************************************)
(* For any number of plugins and any requests: the application starts only *)
(* when its plugins are ready, closes them only when its requests are      *)
(* served or cut off, and exits once, with 0 only after all of that.       *)
(***************************************************************************)
EXTENDS AppLifecycle, TLAPS

(* exit() has been called once at the most (finish).  *)
OneExit == exits \in {<<>>, <<0>>, <<1>>}

Types ==
  /\ strict \in BOOLEAN /\ early \in BOOLEAN /\ unseen \in BOOLEAN /\ lateBind \in BOOLEAN
  /\ armed \in BOOLEAN /\ draining \in BOOLEAN /\ deadline \in BOOLEAN
  /\ init \in {"none", "running", "ok", "failed"}
  /\ plugin \in [Plugins -> {"idle", "initialising", "ready", "failed"}]
  /\ boot \in {"idle", "strict", "onStart", "bound", "refused"}
  /\ listener \in {"null", "listening", "draining"}
  /\ request \in [Requests -> {"new", "active", "done", "cut"}]
  /\ stop \in [Stops -> StopPhase]
  /\ waits \in [Stops -> SUBSET Plugins]
  /\ closed \in SUBSET Plugins
  /\ OneExit

(* An init() that has resolved has initialised every plugin, for good, and *)
(* a strict serve() has gone on only after that.                           *)
BootOrder ==
  /\ init = "ok" => \A p \in Plugins : plugin[p] = "ready"
  /\ boot # "idle" /\ early /\ ~unseen => init = "ok"
  /\ strict /\ ~unseen /\ boot \in {"onStart", "bound"} => init = "ok"

(* The listener and the signal handlers come with the one bind.            *)
BoundFirst ==
  listener # "null" \/ armed \/ stop["signal"] # "idle" \/ deadline \/ exits # <<>> =>
    boot = "bound"

(* Only a listening server has requests, and plugins are told to close     *)
(* only by a stop() and without a server.                                  *)
NothingServed ==
  /\ listener = "null" => Active = {}
  /\ closed # {} => \E k \in Stops : stop[k] # "idle"
  /\ closed # {} /\ ~lateBind => listener = "null"

Clean == listener = "null" /\ Active = {} /\ closed = Plugins

(* What the signal's stop() has achieved by the time it waits for close(). *)
SignalClean == stop["signal"] \in {"close", "resolved"} \/ exits = <<0>> => Clean

IInv == Types /\ BootOrder /\ BoundFirst /\ NothingServed /\ SignalClean

-----------------------------------------------------------------------------
LEMMA InitIInv == ASSUME Init PROVE IInv
<1> USE DEF Init, Stops
<1>1. Types
  BY DEF Types, OneExit, StopPhase
<1>2. Active = {}
  BY DEF Active
<1> QED
  BY <1>1, <1>2 DEF IInv, BootOrder, BoundFirst, NothingServed, SignalClean

(* Steps of the boot that leave the listener alone. *)
LEMMA BootKeeps ==
  ASSUME IInv,
         EarlyInit \/ InitAllSettles \/ StrictRejects \/ \E p \in Plugins : InitSettles(p)
  PROVE  IInv'
<1> USE DEF EarlyInit, InitAllSettles, StrictRejects, InitSettles, CallInit, InitAll,
            stopVars, signalVars
<1>1. UNCHANGED <<strict, unseen, listener, request, stop, waits, closed, lateBind, armed,
                  draining, deadline, exits>>
  OBVIOUS
<1>2. Active' = Active
  BY <1>1 DEF Active
<1>3. /\ init' \in {"none", "running", "ok", "failed"}
      /\ plugin' \in [Plugins -> {"idle", "initialising", "ready", "failed"}]
      /\ early' \in BOOLEAN
      /\ boot' \in {"idle", "strict", "onStart", "bound", "refused"}
      /\ boot' = boot \/ (boot = "strict" /\ boot' = "refused")
  BY DEF IInv, Types
<1>4. Types'
  BY <1>1, <1>3 DEF IInv, Types, OneExit
<1>5. BootOrder'
  BY <1>1, <1>3 DEF IInv, Types, BootOrder
<1>6. BoundFirst' /\ NothingServed' /\ SignalClean'
  BY <1>1, <1>2, <1>3 DEF IInv, BoundFirst, NothingServed, SignalClean, Clean
<1> QED
  BY <1>4, <1>5, <1>6 DEF IInv

(* The bind, or the wait for onStart before it. *)
LEMMA OnStartKeeps ==
  ASSUME IInv, Serve \/ StrictResolves \/ OnStartSettles
  PROVE  IInv'
<1> USE DEF Serve, StrictResolves, OnStartSettles, OnStart, Bind, CallInit, InitAll,
            stopVars, signalVars
<1>1. UNCHANGED <<strict, early, request, stop, waits, closed, draining, deadline, exits>>
  OBVIOUS
<1>2. Active' = Active
  BY <1>1 DEF Active
<1>3. /\ boot \in {"idle", "strict", "onStart"}
      /\ unseen' = IF boot = "idle" THEN early /\ init # "ok" ELSE unseen
  OBVIOUS
<1>4. listener = "null" /\ ~armed /\ stop["signal"] = "idle" /\ ~deadline /\ exits = <<>>
  BY <1>3 DEF IInv, BoundFirst, Types
<1>5. \/ boot' = "bound" /\ listener' = "listening" /\ armed' = TRUE
         /\ lateBind' = (lateBind \/ \E k \in Stops : stop[k] # "idle")
      \/ boot' \in {"strict", "onStart", "refused"} /\ UNCHANGED <<listener, lateBind, armed>>
  BY <1>4
<1>6. Types'
  <2>1. /\ init' \in {"none", "running", "ok", "failed"}
        /\ plugin' \in [Plugins -> {"idle", "initialising", "ready", "failed"}]
    BY DEF IInv, Types
  <2>2. lateBind' \in BOOLEAN
    BY <1>5 DEF IInv, Types
  <2> QED
    BY <1>1, <1>3, <1>5, <2>1, <2>2 DEF IInv, Types, OneExit
<1>7. BootOrder'
  BY <1>1, <1>3, <1>5 DEF IInv, Types, BootOrder
<1>8. BoundFirst'
  BY <1>1, <1>4, <1>5 DEF BoundFirst
<1>9. NothingServed'
  BY <1>1, <1>2, <1>5 DEF IInv, NothingServed
<1>10. SignalClean'
  BY <1>1, <1>4 DEF IInv, SignalClean
<1> QED
  BY <1>6, <1>7, <1>8, <1>9, <1>10 DEF IInv

LEMMA RequestKeeps ==
  ASSUME IInv, NEW r \in Requests, Accept(r) \/ Respond(r)
  PROVE  IInv'
<1> USE DEF Accept, Respond, bootVars, stopVars, signalVars
<1>1. UNCHANGED <<bootVars, listener, stopVars, lateBind, armed, signalVars>>
  OBVIOUS
<1>2. Types'
  BY DEF IInv, Types, OneExit
<1>3. listener = "null" => Active' \subseteq Active
  BY DEF Active, IInv, Types
<1>4. BootOrder' /\ BoundFirst'
  BY DEF IInv, BootOrder, BoundFirst
<1>5. NothingServed' /\ SignalClean'
  BY <1>1, <1>3 DEF IInv, NothingServed, SignalClean, Clean
<1> QED
  BY <1>2, <1>4, <1>5 DEF IInv

(* closeAll, called when nothing is served: all plugins hear of it, or     *)
(* this stop() rejects.                                                    *)
LEMMA CloseAllKeeps ==
  ASSUME IInv, NEW k \in Stops, stop[k] # "idle", Active = {}, CloseAll(k),
         UNCHANGED <<bootVars, request, lateBind, armed, signalVars>>
  PROVE  IInv'
<1> USE DEF CloseAll, Goto, bootVars, signalVars
<1>1. closed' = Plugins \/ (closed \subseteq closed' /\ stop'[k] = "rejected")
  BY DEF IInv, Types
<1>2. \A j \in Stops : stop'[j] = IF j = k THEN stop'[k] ELSE stop[j]
  BY DEF IInv, Types
<1>3. stop'[k] \in {"close", "rejected"} /\ (stop'[k] = "close" => closed' = Plugins)
  BY DEF IInv, Types
<1>4. Active' = {} /\ listener' = "null"
  BY DEF Active
<1>5. Types'
  <2>1. stop' \in [Stops -> StopPhase]
    BY DEF IInv, Types, StopPhase
  <2>2. waits' \in [Stops -> SUBSET Plugins] /\ closed' \in SUBSET Plugins
    BY DEF IInv, Types
  <2> QED
    BY <1>4, <2>1, <2>2 DEF IInv, Types, OneExit
<1>6. BootOrder'
  BY DEF IInv, BootOrder
<1>7. BoundFirst'
  <2>1. stop'["signal"] # "idle" => stop["signal"] # "idle"
    BY <1>2 DEF Stops
  <2> QED
    BY <1>4, <2>1 DEF IInv, BoundFirst
<1>8. NothingServed'
  BY <1>3, <1>4 DEF NothingServed
<1>9. SignalClean'
  <2>1. CASE closed' = Plugins
    BY <1>4, <2>1 DEF SignalClean, Clean
  <2>2. CASE closed \subseteq closed' /\ stop'[k] = "rejected"
    <3>1. stop'["signal"] \in {"close", "resolved"} => stop["signal"] = stop'["signal"]
      BY <1>2, <2>2 DEF Stops
    <3>2. closed' \in SUBSET Plugins
      BY <1>5 DEF Types
    <3> QED
      BY <1>4, <2>2, <3>1, <3>2 DEF IInv, SignalClean, Clean
  <2> QED
    BY <1>1, <2>1, <2>2
<1> QED
  BY <1>5, <1>6, <1>7, <1>8, <1>9 DEF IInv

LEMMA StopKeeps ==
  ASSUME IInv, NEW k \in Stops,
         HooksSettle(k) \/ Drained(k) \/ StopResolves(k) \/ \E p \in Plugins : CloseSettles(k, p)
  PROVE  IInv'
<1> USE DEF bootVars, signalVars, Goto
<1>1. CASE HooksSettle(k) /\ listener = "null"
  BY <1>1, CloseAllKeeps DEF HooksSettle, IInv, NothingServed
<1>2. CASE HooksSettle(k) /\ listener # "null"
  <2> USE <1>2 DEF HooksSettle
  <2>1. /\ UNCHANGED <<bootVars, lateBind, armed, signalVars, waits, closed>>
        /\ listener' = "draining" /\ stop' = [stop EXCEPT ![k] = "drain"]
        /\ \E closeActive \in BOOLEAN : StopServer(closeActive)
    BY DEF StopServer
  <2>2. request' \in [Requests -> {"new", "active", "done", "cut"}]
    BY <2>1 DEF StopServer, IInv, Types
  <2> HIDE <1>2 DEF HooksSettle
  <2>3. Types'
    BY <2>1, <2>2 DEF IInv, Types, StopPhase, OneExit
  <2>4. stop'[k] = "drain" /\ \A j \in Stops \ {k} : stop'[j] = stop[j]
    BY <2>1 DEF IInv, Types
  <2>5. ~Clean
    BY <1>2 DEF Clean
  <2>6. boot = "bound"
    BY <1>2 DEF IInv, BoundFirst
  <2>7. BootOrder' /\ BoundFirst'
    BY <2>1, <2>6 DEF IInv, BootOrder, BoundFirst
  <2>8. NothingServed'
    BY <1>2, <2>1, <2>4 DEF IInv, NothingServed
  <2>9. SignalClean'
    BY <2>1, <2>4, <2>5 DEF IInv, SignalClean, Stops
  <2> QED
    BY <2>3, <2>7, <2>8, <2>9 DEF IInv
<1>3. CASE Drained(k)
  BY <1>3, CloseAllKeeps DEF Drained
<1>4. CASE StopResolves(k)
  <2> USE <1>4 DEF StopResolves
  <2>1. Types'
    BY DEF IInv, Types, StopPhase, OneExit
  <2>2. Active' = Active
    BY DEF Active
  <2>3. stop[k] = "close" /\ stop'[k] = "resolved" /\ \A j \in Stops \ {k} : stop'[j] = stop[j]
    BY DEF IInv, Types
  <2> QED
    BY <2>1, <2>2, <2>3
    DEF IInv, BootOrder, BoundFirst, NothingServed, SignalClean, Clean, Stops
<1>5. CASE \E p \in Plugins : CloseSettles(k, p)
  <2> USE <1>5 DEF CloseSettles
  <2>1. Types'
    BY DEF IInv, Types, OneExit
  <2>2. Active' = Active
    BY DEF Active
  <2> QED
    BY <2>1, <2>2 DEF IInv, BootOrder, BoundFirst, NothingServed, SignalClean, Clean
<1> QED
  BY <1>1, <1>2, <1>3, <1>4, <1>5

LEMMA ManualStopKeeps == ASSUME IInv, ManualStop PROVE IInv'
<1>1. /\ UNCHANGED <<strict, early, unseen, init, plugin, boot, listener, request, waits, closed,
                     lateBind, draining, deadline, exits>>
      /\ armed' = FALSE /\ stop' = [stop EXCEPT !["manual"] = "hooks"]
  BY DEF ManualStop, Goto, bootVars, signalVars
<1>2. Active' = Active
  BY <1>1 DEF Active
<1>3. stop' \in [Stops -> StopPhase] /\ stop'["manual"] = "hooks" /\ stop'["signal"] = stop["signal"]
  BY <1>1 DEF IInv, Types, StopPhase, Stops
<1>4. OneExit'
  BY <1>1 DEF IInv, Types, OneExit
<1>5. Types'
  BY <1>1, <1>3, <1>4 DEF IInv, Types
<1>6. BootOrder' /\ BoundFirst'
  BY <1>1, <1>3 DEF IInv, BootOrder, BoundFirst
<1>7. NothingServed'
  BY <1>1, <1>2, <1>3 DEF IInv, NothingServed, Stops
<1>8. SignalClean'
  BY <1>1, <1>2, <1>3 DEF IInv, SignalClean, Clean
<1> QED
  BY <1>5, <1>6, <1>7, <1>8 DEF IInv

(* The races for exit(): it is called with 0 only by a stop() that has     *)
(* resolved, and never again.                                              *)
LEMMA SignalKeeps == ASSUME IInv, Signal \/ DeadlineFires \/ DrainSettles PROVE IInv'
<1> USE DEF Signal, DeadlineFires, DrainSettles, Goto, Finish, bootVars, stopVars
<1>1. UNCHANGED <<strict, early, unseen, init, plugin, boot, listener, request, waits, closed,
                  lateBind, armed>>
  OBVIOUS
<1>2. Active' = Active
  BY <1>1 DEF Active
<1>3. /\ stop' \in [Stops -> StopPhase] /\ stop'["manual"] = stop["manual"]
      /\ stop'["signal"] \in {stop["signal"], "hooks", "over"}
      /\ stop["signal"] = "idle" => armed \/ stop'["signal"] = "idle"
  BY DEF IInv, Types, StopPhase, Stops
<1>4. /\ exits' \in {<<>>, <<0>>, <<1>>}
      /\ exits' = exits \/ exits = <<>>
      /\ exits' = <<0>> => exits = <<0>> \/ stop["signal"] = "resolved"
      /\ exits # exits' => armed \/ stop["signal"] # "idle" \/ deadline
  <2>1. CASE Signal
    BY <2>1 DEF IInv, Types, OneExit
  <2>2. CASE DeadlineFires
    BY <2>2 DEF IInv, Types, OneExit
  <2>3. CASE DrainSettles
    BY <2>3 DEF IInv, Types, OneExit
  <2> QED
    BY <2>1, <2>2, <2>3
<1>5. draining' \in BOOLEAN /\ deadline' \in BOOLEAN
  BY DEF IInv, Types
<1>6. Types'
  BY <1>1, <1>3, <1>4, <1>5 DEF IInv, Types, OneExit
<1>7. BootOrder'
  BY <1>1 DEF IInv, BootOrder
<1>8. deadline \/ exits # exits' \/ stop'["signal"] # "idle" => boot = "bound"
  BY <1>3, <1>4 DEF IInv, BoundFirst
<1>9. BoundFirst'
  BY <1>1, <1>8 DEF IInv, BoundFirst
<1>10. NothingServed'
  <2>1. (\E k \in Stops : stop[k] # "idle") => \E k \in Stops : stop'[k] # "idle"
    BY <1>3 DEF Stops
  <2> QED
    BY <1>1, <1>2, <2>1 DEF IInv, NothingServed
<1>11. SignalClean'
  BY <1>1, <1>2, <1>3, <1>4 DEF IInv, SignalClean, Clean
<1> QED
  BY <1>6, <1>7, <1>9, <1>10, <1>11 DEF IInv

LEMMA NextIInv == ASSUME IInv, [Next]_vars PROVE IInv'
<1>1. CASE Next
  BY <1>1, BootKeeps, OnStartKeeps, RequestKeeps, StopKeeps, ManualStopKeeps, SignalKeeps
  DEF Next
<1>2. CASE UNCHANGED vars
  <2> USE <1>2 DEF vars
  <2>1. Active' = Active
    BY DEF Active
  <2> QED
    BY <2>1 DEF IInv, Types, OneExit, BootOrder, BoundFirst, NothingServed, SignalClean, Clean
<1> QED
  BY <1>1, <1>2

LEMMA Invariance == Spec => []IInv
BY InitIInv, NextIInv, PTL DEF Spec

-----------------------------------------------------------------------------
(* Every variable of the lifecycle keeps its type, whoever stops it when.  *)
THEOREM TypeCorrect == Spec => []TypeOK
<1>1. OneExit => exits \in Seq({0, 1})
  <2>1. <<>> \in Seq({0, 1}) /\ <<0>> \in Seq({0, 1}) /\ <<1>> \in Seq({0, 1})
    OBVIOUS
  <2> QED
    BY <2>1 DEF OneExit
<1>2. IInv => TypeOK
  BY <1>1 DEF IInv, Types, TypeOK
<1> QED
  BY <1>2, Invariance, PTL

(* app-factory.ts, serve: strictInit opens the listener only when every    *)
(* plugin is ready, unless serve() found an init() of the embedder that    *)
(* had not succeeded, which it takes for done.                             *)
THEOREM StrictFailsClosedHolds == Spec => []StrictFailsClosed
<1>1. IInv => StrictFailsClosed
  BY DEF IInv, BootOrder, StrictFailsClosed
<1> QED
  BY <1>1, Invariance, PTL

(* app-factory.ts, stop: no plugin is closed under a request that is still *)
(* served, whichever calls of stop() overlap.                              *)
THEOREM DrainedBeforeCloseHolds == Spec => []DrainedBeforeClose
<1>1. IInv => DrainedBeforeClose
  BY DEF IInv, NothingServed, DrainedBeforeClose
<1> QED
  BY <1>1, Invariance, PTL

(* graceful-shutdown.ts: exit(0) means that nothing listens, no request is *)
(* in flight and every plugin was told to close.                           *)
THEOREM ExitZeroIsCleanHolds == Spec => []ExitZeroIsClean
<1>1. IInv => ExitZeroIsClean
  BY DEF IInv, SignalClean, Clean, ExitZeroIsClean
<1> QED
  BY <1>1, Invariance, PTL
=============================================================================
