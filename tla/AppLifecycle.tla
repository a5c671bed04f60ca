---------------------------- MODULE AppLifecycle ----------------------------
(***************************************************************************)
(* The life of one application: boot, serving, and stop.  createApp's      *)
(* init, serve and stop (packages/core/src/lifecycle/app-factory.ts), the  *)
(* plugin registry they drive (plugin/registry.ts) and the signal handling *)
(* of platform/graceful-shutdown.ts.                                       *)
(*                                                                         *)
(* A step is what the event loop does between two awaits.  User code --    *)
(* plugin init and close, onStart, stop hooks, request handlers -- settles *)
(* when it likes, or never.                                                *)
(***************************************************************************)
EXTENDS Naturals, Sequences, FiniteSets

CONSTANTS NumPlugins,  \* plugins, in registration order
          Requests     \* requests that clients may send

ASSUME AppAssumption == NumPlugins \in Nat

Plugins == 1 .. NumPlugins

(* The calls of app.stop(): one by the embedder, one by the signal handler. *)
Stops == {"manual", "signal"}

VARIABLES
  strict,    \* options.strictInit
  early,     \* the embedder called init() itself before serve()
  unseen,    \* and it had not succeeded when serve() was called (history)
  init,      \* the promise of initAll
  plugin,    \* by plugin: its init
  boot,      \* where serve() is
  listener,  \* `server': null, listening, or draining in server.stop()
  request,   \* by request: new, active, done or cut off
  stop,      \* by call: where stop() awaits
  waits,     \* by call: the close() promises that closeAll awaits
  closed,    \* plugins whose close() was called
  lateBind,  \* the listener was opened after a stop() had begun (history)
  armed,     \* the signal listeners are installed
  draining,  \* the first signal has been handled
  deadline,  \* its forced-exit timer is running
  exits      \* the codes that exit() was called with

vars == <<strict, early, unseen, init, plugin, boot, listener, request, stop, waits,
          closed, lateBind, armed, draining, deadline, exits>>
bootVars == <<strict, early, unseen, init, plugin, boot>>
stopVars == <<stop, waits, closed>>
signalVars == <<draining, deadline, exits>>

Active == {r \in Requests : request[r] = "active"}

Init ==
  /\ strict \in BOOLEAN
  /\ early = FALSE
  /\ unseen = FALSE
  /\ init = "none"
  /\ plugin = [p \in Plugins |-> "idle"]
  /\ boot = "idle"
  /\ listener = "null"
  /\ request = [r \in Requests |-> "new"]
  /\ stop = [k \in Stops |-> "idle"]
  /\ waits = [k \in Stops |-> {}]
  /\ closed = {}
  /\ lateBind = FALSE
  /\ armed = FALSE
  /\ draining = FALSE
  /\ deadline = FALSE
  /\ exits = <<>>

-----------------------------------------------------------------------------
(* Boot. *)

(* initAll calls the plugins' init in order.  An init that throws instead  *)
(* of returning a promise ends the loop: the later ones are never called.  *)
InitAll ==
  \/ /\ plugin' = [p \in Plugins |-> "initialising"]
     /\ init' = "running"
  \/ \E thrower \in Plugins :
       /\ plugin' = [p \in Plugins |-> IF p < thrower THEN "initialising"
                                       ELSE IF p = thrower THEN "failed" ELSE "idle"]
       /\ init' = "failed"

(* init(): the flag is set at once, so a second call returns immediately. *)
CallInit == IF init = "none" THEN InitAll ELSE UNCHANGED <<init, plugin>>

EarlyInit ==
  /\ boot = "idle" /\ ~early
  /\ early' = TRUE
  /\ CallInit
  /\ UNCHANGED <<strict, unseen, boot, listener, request, stopVars, lateBind, armed, signalVars>>

InitSettles(p) ==
  /\ plugin[p] = "initialising"
  /\ \E outcome \in {"ready", "failed"} : plugin' = [plugin EXCEPT ![p] = outcome]
  /\ UNCHANGED <<strict, early, unseen, init, boot, listener, request, stopVars, lateBind,
                 armed, signalVars>>

InitAllSettles ==
  /\ init = "running"
  /\ \A p \in Plugins : plugin[p] \in {"ready", "failed"}
  /\ init' = IF \E p \in Plugins : plugin[p] = "failed" THEN "failed" ELSE "ok"
  /\ UNCHANGED <<strict, early, unseen, plugin, boot, listener, request, stopVars, lateBind,
                 armed, signalVars>>

(* bind(): at most one server, and the signal listeners with it.  When     *)
(* Bun.serve throws (an address in use) there is neither, whether serve()  *)
(* throws on, strictInit reports it or the rejection is nobody's.  The     *)
(* second try in the catch block is the one that counts.                   *)
Bind ==
  \/ /\ boot' = "bound"
     /\ listener' = IF listener = "null" THEN "listening" ELSE listener
     /\ lateBind' = (lateBind \/ (listener = "null" /\ \E k \in Stops : stop[k] # "idle"))
     /\ armed' = (armed \/ listener = "null")
  \/ /\ listener = "null"
     /\ boot' = "refused"
     /\ UNCHANGED <<listener, lateBind, armed>>

(* bindAfterOnStart(): an asynchronous onStart defers the bind. *)
OnStart == \/ Bind
           \/ boot' = "onStart" /\ UNCHANGED <<listener, lateBind, armed>>

Serve ==
  /\ boot = "idle"
  /\ CallInit
  /\ unseen' = (early /\ init # "ok")
  /\ IF strict
       THEN boot' = "strict" /\ UNCHANGED <<listener, lateBind, armed>>
       ELSE OnStart
  /\ UNCHANGED <<strict, early, request, stopVars, signalVars>>

(* Mutant: serve does not await init. *)
StrictUnawaited ==
  /\ boot = "strict"
  /\ OnStart
  /\ UNCHANGED <<strict, early, unseen, init, plugin, request, stopVars, signalVars>>

(* strictInit: serve goes on when the init() it called has resolved. *)
StrictResolves ==
  /\ boot = "strict"
  /\ early \/ init = "ok"
  /\ OnStart
  /\ UNCHANGED <<strict, early, unseen, init, plugin, request, stopVars, signalVars>>

StrictRejects ==
  /\ boot = "strict"
  /\ ~early /\ init = "failed"
  /\ boot' = "refused"
  /\ UNCHANGED <<strict, early, unseen, init, plugin, listener, request, stopVars, lateBind,
                 armed, signalVars>>

OnStartSettles ==
  /\ boot = "onStart"
  /\ Bind
  /\ UNCHANGED <<strict, early, unseen, init, plugin, request, stopVars, signalVars>>

-----------------------------------------------------------------------------
(* Requests, as Bun serves them: accepted while listening, drained after.  *)
Accept(r) ==
  /\ listener = "listening" /\ request[r] = "new"
  /\ request' = [request EXCEPT ![r] = "active"]
  /\ UNCHANGED <<bootVars, listener, stopVars, lateBind, armed, signalVars>>

Respond(r) ==
  /\ request[r] = "active"
  /\ request' = [request EXCEPT ![r] = "done"]
  /\ UNCHANGED <<bootVars, listener, stopVars, lateBind, armed, signalVars>>

-----------------------------------------------------------------------------
(* stop(): hooks, then the drain, then the plugins. *)

Goto(k, phase) == stop' = [stop EXCEPT ![k] = phase]

ManualStop ==
  /\ stop["manual"] = "idle"
  /\ Goto("manual", "hooks")
  /\ armed' = FALSE
  /\ UNCHANGED <<bootVars, listener, request, waits, closed, lateBind, signalVars>>

(* closeAll calls every close(), last plugin first.  A close that throws   *)
(* instead of returning a promise ends that loop, and stop() rejects.      *)
CloseAll(k) ==
  /\ listener' = "null"
  /\ \/ /\ closed' = Plugins
        /\ waits' = [waits EXCEPT ![k] = Plugins]
        /\ Goto(k, "close")
     \/ \E thrower \in Plugins :
          /\ closed' = closed \cup {p \in Plugins : p >= thrower}
          /\ Goto(k, "rejected")
          /\ UNCHANGED waits

(* server.stop(closeActive) ends the listening; with closeActive it cuts   *)
(* off the requests in flight, so that nothing is left to wait for.        *)
StopServer(closeActive) ==
  /\ listener' = "draining"
  /\ request' = [r \in Requests |->
                   IF closeActive /\ request[r] = "active" THEN "cut" ELSE request[r]]

(* All stop hooks have settled.  Without a server there is nothing to      *)
(* drain; only the embedder's stop() may have been told to closeActive.    *)
HooksSettle(k) ==
  /\ stop[k] = "hooks"
  /\ \/ listener = "null" /\ CloseAll(k) /\ UNCHANGED request
     \/ /\ listener # "null"
        /\ StopServer(FALSE) \/ (k = "manual" /\ StopServer(TRUE))
        /\ Goto(k, "drain")
        /\ UNCHANGED <<waits, closed>>
  /\ UNCHANGED <<bootVars, lateBind, armed, signalVars>>

(* Mutant: server.stop is not awaited. *)
DrainUnawaited(k) ==
  /\ stop[k] = "drain"
  /\ CloseAll(k)
  /\ UNCHANGED <<bootVars, request, lateBind, armed, signalVars>>

(* server.stop resolves: no request is in flight any more. *)
Drained(k) ==
  /\ stop[k] = "drain"
  /\ Active = {}
  /\ CloseAll(k)
  /\ UNCHANGED <<bootVars, request, lateBind, armed, signalVars>>

CloseSettles(k, p) ==
  /\ p \in waits[k]
  /\ waits' = [waits EXCEPT ![k] = @ \ {p}]
  /\ UNCHANGED <<bootVars, listener, request, stop, closed, lateBind, armed, signalVars>>

(* stop() resolves when every close() has settled or stopDeadlineMs is over. *)
StopResolves(k) ==
  /\ stop[k] = "close"
  /\ Goto(k, "resolved")
  /\ waits' = [waits EXCEPT ![k] = {}]
  /\ UNCHANGED <<bootVars, listener, request, closed, lateBind, armed, signalVars>>

-----------------------------------------------------------------------------
(* installGracefulShutdown. *)

(* finish(code): exit is called once, whoever comes first.  The process    *)
(* goes on when exit is an injected hook.                                  *)
Finish(code) == exits' = IF exits = <<>> THEN <<code>> ELSE exits

Signal ==
  /\ armed
  /\ IF draining
       THEN Finish(1) /\ UNCHANGED <<stop, draining, deadline>>
       ELSE /\ draining' = TRUE
            /\ deadline' = TRUE
            /\ Goto("signal", "hooks")
            /\ UNCHANGED exits
  /\ UNCHANGED <<bootVars, listener, request, waits, closed, lateBind, armed>>

(* Mutant: the deadline is logged and nothing else. *)
DeadlineLogs ==
  /\ deadline
  /\ deadline' = FALSE
  /\ UNCHANGED <<bootVars, listener, request, stopVars, lateBind, armed, draining, exits>>

DeadlineFires ==
  /\ deadline
  /\ deadline' = FALSE
  /\ Finish(1)
  /\ UNCHANGED <<bootVars, listener, request, stopVars, lateBind, armed, draining>>

(* Mutant: a drain that rejected counts as done. *)
DrainSettlesAnyhow ==
  /\ stop["signal"] \in {"resolved", "rejected"}
  /\ Finish(0)
  /\ deadline' = FALSE
  /\ Goto("signal", "over")
  /\ UNCHANGED <<bootVars, listener, request, waits, closed, lateBind, armed, draining>>

(* The drain settles: the call of stop() it made has. *)
DrainSettles ==
  /\ stop["signal"] \in {"resolved", "rejected"}
  /\ Finish(IF stop["signal"] = "resolved" THEN 0 ELSE 1)
  /\ deadline' = FALSE
  /\ Goto("signal", "over")
  /\ UNCHANGED <<bootVars, listener, request, waits, closed, lateBind, armed, draining>>

-----------------------------------------------------------------------------
Next ==
  \/ EarlyInit \/ Serve \/ InitAllSettles
  \/ StrictResolves \/ StrictRejects \/ OnStartSettles
  \/ \E p \in Plugins : InitSettles(p)
  \/ \E r \in Requests : Accept(r) \/ Respond(r)
  \/ ManualStop
  \/ \E k \in Stops : \/ HooksSettle(k) \/ Drained(k) \/ StopResolves(k)
                      \/ \E p \in Plugins : CloseSettles(k, p)
  \/ Signal \/ DeadlineFires \/ DrainSettles

Spec == Init /\ [][Next]_vars

(* Timers fire, promise reactions run and a server without requests stops; *)
(* user code need not settle.                                              *)
FairSpec ==
  /\ Spec
  /\ WF_vars(DeadlineFires) /\ WF_vars(DrainSettles)
  /\ \A k \in Stops : WF_vars(Drained(k)) /\ WF_vars(StopResolves(k))

-----------------------------------------------------------------------------
StopPhase == {"idle", "hooks", "drain", "close", "resolved", "rejected", "over"}

TypeOK ==
  /\ {strict, early, unseen, lateBind, armed, draining, deadline} \subseteq BOOLEAN
  /\ init \in {"none", "running", "ok", "failed"}
  /\ plugin \in [Plugins -> {"idle", "initialising", "ready", "failed"}]
  /\ boot \in {"idle", "strict", "onStart", "bound", "refused"}
  /\ listener \in {"null", "listening", "draining"}
  /\ request \in [Requests -> {"new", "active", "done", "cut"}]
  /\ stop \in [Stops -> StopPhase]
  /\ waits \in [Stops -> SUBSET Plugins]
  /\ closed \subseteq Plugins
  /\ exits \in Seq({0, 1})

(* strictInit fails closed (app-factory.ts, serve): the listener is opened *)
(* only when every plugin is initialised.  It does not hold, and is not    *)
(* stated, where serve() finds an init() of the embedder that has failed   *)
(* or still runs: the init() it calls then returns at once.                *)
StrictFailsClosed ==
  strict /\ ~unseen /\ boot \in {"onStart", "bound"} =>
    \A p \in Plugins : plugin[p] = "ready"

(* Resources close only after the last request is served (app-factory.ts,  *)
(* stop), or cut off by a stop() that was told to, whichever calls of      *)
(* stop() overlap, unless an onStart or init that was pending when stop()  *)
(* was called opened the listener afterwards.                              *)
DrainedBeforeClose == closed # {} /\ ~lateBind => Active = {}

(* exit(0) means a completed drain (graceful-shutdown.ts), whichever of    *)
(* second signal, deadline and late drain come before it: nothing listens  *)
(* any more, the exit cuts off no request, and every plugin was told to    *)
(* close.                                                                  *)
ExitZeroIsClean ==
  exits = <<0>> => listener = "null" /\ Active = {} /\ closed = Plugins

(* One wedged hook, connection or plugin never holds a deploy hostage      *)
(* (graceful-shutdown.ts): after the first signal the process exits.       *)
ShutdownEnds == draining ~> exits # <<>>

(* A stop() settles, unless a stop hook never does or a request is never   *)
(* answered, which nothing bounds but the exit after a signal: a plugin's  *)
(* close() never hangs it (app-factory.ts, stop).                          *)
StopSettles ==
  \A k \in Stops : stop[k] # "idle" ~>
    \/ stop[k] \in {"resolved", "rejected", "over"}
    \/ [](stop[k] = "hooks")
    \/ [](stop[k] = "drain" /\ Active # {})

(* The process exits after a signal, and a stop() waits for ever on stop   *)
(* hooks and requests only.                                                *)
StopsEnd == ShutdownEnds /\ StopSettles

(* allSettled: one plugin's failing close never skips the cleanup of the   *)
(* others (plugin/registry.ts, closeAll).                                  *)
CloseReachesAll ==
  \A k \in Stops : stop[k] \in {"close", "resolved", "rejected"} => closed = Plugins

(* After stop() has resolved the application does not listen any more.     *)
StaysStopped == stop["manual"] = "resolved" => listener # "listening"
=============================================================================
