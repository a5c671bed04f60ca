------------------------------- MODULE DevServer -------------------------------
(***************************************************************************)
(* The loop behind `ignex dev`, packages/cli/src/commands/dev.ts: file      *)
(* changes are debounced into builds, a build restarts the server process,  *)
(* a server that crashes is restarted with backoff, and a signal stops the  *)
(* server and ends the loop.                                                *)
(*                                                                          *)
(* The processes are external: they exit when they like, and one that gets  *)
(* SIGTERM may ignore it.                                                   *)
(***************************************************************************)
EXTENDS Subsequence

CONSTANTS MaxChanges,  \* bound on the file changes
          MaxCrashes,  \* bound on the crashes and failed spawns
          MaxRestarts  \* MAX_CRASH_RESTARTS

\* What the constants must be.
DevAssumption == MaxChanges \in Nat /\ MaxCrashes \in Nat /\ MaxRestarts \in Nat

\* The server processes there can be, in the order they are spawned.
Procs == 1 .. (1 + MaxChanges + MaxCrashes)

VARIABLES proc,           \* proc[p]: "unborn", "running", "term", "kill" or "dead"
          child,          \* this.child, or 0
          waits,          \* the stopChild() calls that await an exit, oldest first
          stoppingChild,
          begun,          \* start() has called buildOnce()
          build,          \* buildOnce(): "idle", "building", "restarting", "marking"
                          \* while the marker file is written
          pending,
          debounce,       \* the rebuild timer is armed
          crashTimers,    \* the crash-restart timers that are armed
          attempts,       \* crashRestartAttempts
          stopping,
          exited,         \* process.exit() was called
          changes, crashes,  \* counted for the bounds
          dirty,          \* history: a change that no build has begun after
          crossed,        \* history: a build started the server beside a crash timer
          raced           \* history: shutdown() came while restart() awaited an exit

loop == <<begun, build, pending, debounce>>
server == <<proc, child, waits, stoppingChild, crashTimers, attempts>>
bounds == <<changes, crashes>>
vars == <<loop, server, bounds, stopping, exited, dirty, crossed, raced>>

Running == {p \in Procs : proc[p] \in {"running", "term", "kill"}}

Init ==
    /\ proc = [p \in Procs |-> "unborn"]
    /\ child = 0
    /\ waits = <<>>
    /\ stoppingChild = FALSE
    /\ begun = FALSE
    /\ build = "idle" /\ pending = FALSE /\ debounce = FALSE
    /\ crashTimers = 0 /\ attempts = 0
    /\ stopping = FALSE /\ exited = FALSE
    /\ changes = 0 /\ crashes = 0
    /\ dirty = FALSE /\ crossed = FALSE /\ raced = FALSE

-------------------------------------------------------------------------------
\* Mutant: a change that comes during a build is dropped.
BuildOnceBusy ==
    /\ IF build = "idle" THEN build' = "building" /\ dirty' = FALSE
                         ELSE UNCHANGED <<build, dirty>>
    /\ UNCHANGED pending
\* buildOnce() up to its first await: one build at a time, and one more after it.
BuildOnce ==
    IF build = "idle"
    THEN build' = "building" /\ dirty' = FALSE /\ UNCHANGED pending
    ELSE pending' = TRUE /\ UNCHANGED <<build, dirty>>

\* start(): the watchers are attached before the first build, which waits for the port;
\* a change may have begun one already.
FirstBuild ==
    /\ ~begun /\ ~exited
    /\ begun' = TRUE
    /\ BuildOnce
    /\ UNCHANGED <<debounce, server, bounds, stopping, exited, crossed, raced>>

\* scheduleRebuild(), by a watcher.
Change ==
    /\ changes < MaxChanges /\ ~stopping
    /\ changes' = changes + 1
    /\ debounce' = TRUE
    /\ dirty' = TRUE
    /\ UNCHANGED <<begun, build, pending, server, crashes, stopping, exited, crossed, raced>>

DebounceFires ==
    /\ debounce /\ ~exited
    /\ debounce' = FALSE
    /\ BuildOnce
    /\ UNCHANGED <<begun, server, bounds, stopping, exited, crossed, raced>>

-------------------------------------------------------------------------------
\* A crash or a failed spawn is retried after a delay, MaxRestarts times in a row.
Crashed(before, timers) ==
    /\ attempts' = before + 1
    /\ crashTimers' = timers + (IF before + 1 > MaxRestarts THEN 0 ELSE 1)

\* startChild(): the next process runs, or its spawn fails, which is no crash while
\* the loop is `quiet'.  `before' are the attempts so far, `timers' the timers armed.
StartChild(procs, before, timers, quiet) ==
    \E p \in Procs :
        /\ procs[p] = "unborn" /\ \A q \in Procs : q < p => procs[q] # "unborn"
        /\ \/ /\ proc' = [procs EXCEPT ![p] = "running"]
              /\ child' = p
              /\ attempts' = before /\ crashTimers' = timers
              /\ UNCHANGED crashes
           \/ /\ crashes < MaxCrashes /\ crashes' = crashes + 1
              /\ proc' = [procs EXCEPT ![p] = "dead"]
              /\ child' = 0
              /\ IF quiet THEN attempts' = before /\ crashTimers' = timers
                          ELSE Crashed(before, timers)

\* stopChild() of a child that runs: SIGTERM, then it awaits the exit.
Await(who) ==
    /\ stoppingChild' = TRUE
    /\ proc' = [proc EXCEPT ![child] = IF @ = "running" THEN "term" ELSE @]
    /\ waits' = Append(waits, [who |-> who, proc |-> child])

\* The build is done and has an entry: restart().
BuildSucceeds ==
    /\ build = "building" /\ ~exited
    /\ IF child = 0
       THEN /\ StartChild(proc, 0, crashTimers, stopping)
            /\ build' = "marking"
            /\ crossed' = (crossed \/ crashTimers > 0)
            /\ UNCHANGED <<waits, stoppingChild>>
       ELSE /\ Await("restart")
            /\ build' = "restarting"
            /\ UNCHANGED <<child, crashTimers, attempts, crashes, crossed>>
    /\ UNCHANGED <<begun, pending, debounce, changes, stopping, exited, dirty, raced>>

\* It has no entry to start, or it fails and the server goes on as it is.
BuildLeavesServer ==
    /\ build = "building" /\ ~exited
    /\ build' = "marking"
    /\ attempts' \in {0, attempts}
    /\ UNCHANGED <<begun, pending, debounce, proc, child, waits, stoppingChild, crashTimers,
                   bounds, stopping, exited, dirty, crossed, raced>>

\* The marker is written: the finally block runs the pending build.
BuildEnds ==
    /\ build = "marking" /\ ~exited
    /\ build' = IF pending THEN "building" ELSE "idle"
    /\ dirty' = (dirty /\ ~pending)
    /\ pending' = FALSE
    /\ UNCHANGED <<begun, debounce, server, bounds, stopping, exited, crossed, raced>>

-------------------------------------------------------------------------------
\* The stopChild() calls that await p resume in the order they were made: restart()
\* starts the next server, shutdown() ends the process.
Woken(p) == {i \in 1 .. Len(waits) : waits[i].proc = p}
First(p) == CHOOSE i \in Woken(p) : \A j \in Woken(p) : i <= j

ExitsAwaited(p) ==
    /\ Woken(p) # {} /\ ~exited
    /\ stoppingChild' = FALSE
    /\ waits' = Without(waits, Woken(p))
    /\ exited' = (\E i \in Woken(p) : waits[i].who = "shutdown")
    /\ IF waits[First(p)].who = "restart"
       THEN /\ StartChild([proc EXCEPT ![p] = "dead"], 0, crashTimers, stopping)
            /\ build' = "marking"
            /\ crossed' = (crossed \/ crashTimers > 0)
       ELSE /\ proc' = [proc EXCEPT ![p] = "dead"]
            /\ child' = 0
            /\ UNCHANGED <<build, attempts, crashTimers, crashes, crossed>>
    /\ UNCHANGED <<begun, pending, debounce, changes, stopping, dirty, raced>>

\* Nobody awaits p: the exit listener.
ExitsUnawaited(p) ==
    /\ Woken(p) = {} /\ ~exited
    /\ proc' = [proc EXCEPT ![p] = "dead"]
    /\ child' = IF child = p THEN 0 ELSE child
    /\ \/ UNCHANGED <<attempts, crashTimers, crashes>>  \* a clean exit
       \/ /\ crashes < MaxCrashes /\ crashes' = crashes + 1
          /\ IF stopping \/ stoppingChild
             THEN UNCHANGED <<attempts, crashTimers>>
             ELSE Crashed(attempts, crashTimers)
    /\ UNCHANGED <<waits, stoppingChild, loop, changes, stopping, exited, dirty, crossed, raced>>

Exit(p) == p \in Running /\ (ExitsAwaited(p) \/ ExitsUnawaited(p))

\* Two seconds after SIGTERM: SIGKILL.
ForceKill(p) ==
    /\ proc[p] = "term" /\ ~exited
    /\ proc' = [proc EXCEPT ![p] = "kill"]
    /\ UNCHANGED <<child, waits, stoppingChild, crashTimers, attempts, loop, bounds,
                   stopping, exited, dirty, crossed, raced>>

\* A crash-restart timer fires; nothing but shutdown() takes it back.
CrashTimerFires ==
    /\ crashTimers > 0 /\ ~exited
    /\ IF stopping
       THEN /\ crashTimers' = crashTimers - 1
            /\ UNCHANGED <<proc, child, attempts, crashes>>
       ELSE StartChild(proc, attempts, crashTimers - 1, stoppingChild)
    /\ UNCHANGED <<waits, stoppingChild, loop, changes, stopping, exited, dirty, crossed, raced>>

\* The health timer of a server that has run long enough.
Healthy ==
    /\ \E p \in Procs : proc[p] = "running"
    /\ attempts > 0 /\ ~exited
    /\ attempts' = 0
    /\ UNCHANGED <<proc, child, waits, stoppingChild, crashTimers, loop, bounds,
                   stopping, exited, dirty, crossed, raced>>

\* Mutant: the loop does not await the exit of the server.
ShutdownUnawaited ==
    /\ ~stopping
    /\ stopping' = TRUE /\ exited' = TRUE
    /\ debounce' = FALSE
    /\ crashTimers' = IF crashTimers > 0 THEN crashTimers - 1 ELSE 0
    /\ raced' = (build = "restarting")
    /\ UNCHANGED <<begun, build, pending, proc, child, waits, stoppingChild, attempts, bounds, dirty, crossed>>

\* shutdown(): the first signal.  It clears the crash timer it knows of; any other
\* does nothing when it fires.
Shutdown ==
    /\ ~stopping
    /\ stopping' = TRUE
    /\ debounce' = FALSE
    /\ crashTimers' = IF crashTimers > 0 THEN crashTimers - 1 ELSE 0
    /\ raced' = (build = "restarting")
    /\ IF child = 0
       THEN exited' = TRUE /\ UNCHANGED <<proc, waits, stoppingChild>>
       ELSE Await("shutdown") /\ UNCHANGED exited
    /\ UNCHANGED <<begun, build, pending, child, attempts, bounds, dirty, crossed>>

Next ==
    \/ FirstBuild \/ Change \/ DebounceFires
    \/ BuildSucceeds \/ BuildLeavesServer \/ BuildEnds
    \/ \E p \in Procs : Exit(p) \/ ForceKill(p)
    \/ CrashTimerFires \/ Healthy \/ Shutdown

Spec == Init /\ [][Next]_vars

\* Timers fire, builds and file writes end, and a process dies of SIGKILL.
FairSpec ==
    /\ Spec
    /\ WF_vars(FirstBuild) /\ WF_vars(DebounceFires)
    /\ WF_vars(BuildSucceeds \/ BuildLeavesServer) /\ WF_vars(BuildEnds)
    /\ \A p \in Procs : WF_vars(ForceKill(p)) /\ WF_vars(proc[p] = "kill" /\ Exit(p))

-------------------------------------------------------------------------------
\* "Stop the current child and await its exit so the port is released before a new
\* server spawns": the loop never runs two servers, and leaves none behind when it
\* exits, as long as no crash timer was armed when a build started the server and
\* no signal came while restart() awaited the old one.  Both conditions are needed.
OneServer ==
    ~crossed => /\ Running \subseteq {child}
                /\ exited /\ ~raced => Running = {}

\* Every change is built: whatever builds, restarts and crashes are under way, a
\* build begins after the last change; and a signal ends the loop even if the
\* server ignores SIGTERM.
LoopLives == /\ dirty ~> (~dirty \/ stopping)
             /\ stopping ~> exited

\* Without the conditions: not what the code does.
NoServerLeft == exited => Running = {}
===============================================================================
