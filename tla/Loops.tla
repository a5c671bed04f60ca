-------------------------------- MODULE Loops --------------------------------
(***************************************************************************)
(* Three loops that must not hang, side by side: the in-process job queue,  *)
(* the dev server and the event stream.  They share no state: in one        *)
(* behaviour only the component that `part' names moves, and the others     *)
(* stay as they began.                                                      *)
(***************************************************************************)
EXTENDS FiniteSets, Naturals, Sequences

CONSTANTS Jobs, MaxRuns, Concurrency, Retries, Stuck,  \* the job queue
          MaxChanges, MaxCrashes, MaxRestarts          \* the dev server

VARIABLES part,
  kind, timer, cancelled, queue, phase, failed, stop,
  proc, child, waits, stoppingChild, begun, build, pending, debounce, crashTimers, attempts,
  stopping, exited, changes, crashes, dirty, crossed, raced,
  generator, returning, pump, stream, queued, stopped, aborted, listening

JobQueue == INSTANCE JobQueue
DevServer == INSTANCE DevServer
ServerSentEvents == INSTANCE ServerSentEvents

ASSUME LoopsAssumption == JobQueue!QueueAssumption /\ DevServer!DevAssumption

(* The variables of each. *)
jobs == <<kind, timer, cancelled, queue, phase, failed, stop>>
dev == <<proc, child, waits, stoppingChild, begun, build, pending, debounce, crashTimers,
         attempts, stopping, exited, changes, crashes, dirty, crossed,
         raced>>
sse == <<generator, returning, pump, stream, queued, stopped, aborted, listening>>

Init ==
  /\ part \in {"jobs", "dev", "sse"}
  /\ JobQueue!Init
  /\ DevServer!Init
  /\ ServerSentEvents!Init /\ (part # "sse" => ~aborted)

Next ==
  \/ part = "jobs" /\ JobQueue!Next /\ UNCHANGED <<part, dev, sse>>
  \/ part = "dev" /\ DevServer!Next /\ UNCHANGED <<part, jobs, sse>>
  \/ part = "sse" /\ ServerSentEvents!Next /\ UNCHANGED <<part, jobs, dev>>

vars == <<part, jobs, dev, sse>>

(* The fairness of each, for the one that moves. *)
FairJobs ==
  /\ \A j \in Jobs : WF_jobs(part = "jobs" /\ JobQueue!DelayOver(j))
  /\ \A r \in JobQueue!Runs :
       /\ WF_jobs(part = "jobs" /\ JobQueue!Retry(r))
       /\ r \notin Stuck =>
            WF_jobs(part = "jobs" /\ (JobQueue!Succeed(r) \/ JobQueue!Fail(r)))
  /\ WF_jobs(part = "jobs" /\ (JobQueue!StopDrained \/ JobQueue!StopGivesUp))

FairDev ==
  /\ WF_dev(part = "dev" /\ DevServer!FirstBuild)
  /\ WF_dev(part = "dev" /\ DevServer!DebounceFires)
  /\ WF_dev(part = "dev" /\ (DevServer!BuildSucceeds \/ DevServer!BuildLeavesServer))
  /\ WF_dev(part = "dev" /\ DevServer!BuildEnds)
  /\ \A p \in DevServer!Procs :
       /\ WF_dev(part = "dev" /\ DevServer!ForceKill(p))
       /\ WF_dev(part = "dev" /\ proc[p] = "kill" /\ DevServer!Exit(p))

FairSse ==
  /\ WF_sse(part = "sse" /\ ServerSentEvents!Pull)
  /\ WF_sse(part = "sse" /\ (ServerSentEvents!Drained \/ ServerSentEvents!GraceOver))

Spec == Init /\ [][Next]_vars

FairSpec == Spec /\ FairJobs /\ FairDev /\ FairSse

(***************************************************************************)
(* The properties of the components, under their own names.                *)
(***************************************************************************)
\* cancel() is final for the timers of a job (jobs.ts).
CancelFinal == JobQueue!CancelFinal
\* No slot is idle while a run waits.
NoIdleSlot == JobQueue!NoIdleSlot
\* The queue and the phases of the runs agree.
QueueExact == JobQueue!QueueExact
\* The queue refines a bounded pool that closes.
PoolSpec == JobQueue!PoolSpec
\* stop() resolves, and the queue empties.
QueueLives == JobQueue!QueueLives

\* Never two servers, none left behind (dev.ts).
OneServer == DevServer!OneServer
\* Every change is built, and a signal ends the loop.
LoopLives == DevServer!LoopLives
\* None left behind, whatever was under way: violated.
NoServerLeft == DevServer!NoServerLeft

\* The generator of a dead stream is closed as soon as its body lets it (sse.ts).
Released == ServerSentEvents!Released
\* At most one chunk waits for a slow consumer.
BacklogBounded == ServerSentEvents!BacklogBounded
==============================================================================
