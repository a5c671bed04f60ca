----------------------------- MODULE Scheduler -----------------------------
(***************************************************************************)
(* One cron schedule of packages/core/src/platform/scheduler.ts, served by *)
(* the processes that registered it (Schedulers) over one durable job      *)
(* store, beside a schedule:run worker.  A tick checks the overlap guard,  *)
(* awaits, enqueues a run, and leaves behind an inline runner that claims  *)
(* the run by id after a second if no worker has it yet.                   *)
(*                                                                         *)
(* The worker is the durable queue of DurableJobs seen from outside: it    *)
(* releases expired leases, claims due runs and, being timely, renews its  *)
(* own leases.  The inline runner never renews the one lease it takes.     *)
(*                                                                         *)
(* Every store operation of the scheduler, and the bookkeeping of the      *)
(* worker, may reject; a write that rejects has not been applied.          *)
(***************************************************************************)
EXTENDS JobStore

CONSTANTS Schedulers,
          HasWorker,     \* a schedule:run worker serves the store
          WorkerLease,   \* the worker's leaseMs
          InlineLease,   \* the 30 s of claimOne
          SlowTasks,     \* a task may outlive InlineLease
          TasksFail,     \* a task may throw
          MaxCrashes,    \* bound: crashes of scheduler processes
          MaxFaults      \* bound: store operations that reject

ASSUME SchedulerAssumption ==
  /\ {HasWorker, SlowTasks, TasksFail} \subseteq BOOLEAN
  /\ {WorkerLease, InlineLease, MaxCrashes, MaxFaults} \subseteq Nat

VARIABLES
  jobs, nextId,  \* the store and the next run id
  started,       \* by scheduler: started.value
  armed,         \* by scheduler: the tick handle has not been stopped
  tick,          \* by scheduler: where its handleTick awaits
  inline,        \* by run: its runIfUnclaimed
  worker,        \* by run: the worker's runClaimed
  starts,        \* by run: how often its task was started (history)
  crashes,
  faults         \* by kind: how many store operations rejected

vars == <<jobs, nextId, started, armed, tick, inline, worker, starts, crashes, faults>>

Runner == [phase: {"none", "wait", "task", "complete", "fail"},
           owner: Tokens \cup {NoToken}, by: Schedulers \cup {NoToken}]
NoRunner == [phase |-> "none", owner |-> NoToken, by |-> NoToken]

Run == [recurring |-> FALSE, handled |-> TRUE, maxAttempts |-> 1]

ASSUME RunAssumption == Run \in Specs

FaultKinds == {"check", "enqueue", "claim", "end"}

Rejects(kind) ==
  /\ faults["check"] + faults["enqueue"] + faults["claim"] + faults["end"] < MaxFaults
  /\ faults' = [faults EXCEPT ![kind] = @ + 1]

FreeTokens ==
  {t \in Tokens : \A j \in JobIds : /\ jobs[j] # NoJob => jobs[j].owner # t
                                    /\ inline[j].owner # t
                                    /\ worker[j].owner # t}

Init ==
  /\ jobs = [j \in JobIds |-> NoJob]
  /\ nextId = 1
  /\ started = [s \in Schedulers |-> FALSE]
  /\ armed = [s \in Schedulers |-> TRUE]
  /\ tick = [s \in Schedulers |-> "idle"]
  /\ inline = [j \in JobIds |-> NoRunner]
  /\ worker = [j \in JobIds |-> NoRunner]
  /\ starts = [j \in JobIds |-> 0]
  /\ crashes = 0
  /\ faults = [kind \in FaultKinds |-> 0]

-----------------------------------------------------------------------------
Start(s) ==
  /\ ~started[s]
  /\ started' = [started EXCEPT ![s] = TRUE]
  /\ UNCHANGED <<jobs, nextId, armed, tick, inline, worker, starts, crashes, faults>>

(* stop() stops the handles for good; start() only sets the flag again. *)
Stop(s) ==
  /\ started[s]
  /\ started' = [started EXCEPT ![s] = FALSE]
  /\ armed' = [armed EXCEPT ![s] = FALSE]
  /\ UNCHANGED <<jobs, nextId, tick, inline, worker, starts, crashes, faults>>

(* onTick.  A tick is assumed to have awaited its two store operations     *)
(* before the next one is due; the bound on ids ends the schedule.         *)
CronFires(s) ==
  /\ armed[s] /\ started[s]
  /\ tick[s] = "idle"
  /\ nextId \in JobIds
  /\ tick' = [tick EXCEPT ![s] = "check"]
  /\ UNCHANGED <<jobs, nextId, started, armed, inline, worker, starts, crashes, faults>>

(* Mutant: the guard looks for running runs only. *)
HasRunning == With(jobs, {"running"}) # {}

(* Mutant: the guard counts the completed runs too. *)
HasAnyRun == With(jobs, Status) # {}

(* hasInFlight: any run of the name that is not completed. *)
HasInFlight == With(jobs, Status \ {"completed"}) # {}

Check(s) ==
  /\ tick[s] = "check"
  /\ tick' = [tick EXCEPT ![s] = IF HasInFlight THEN "idle" ELSE "enqueue"]
  /\ UNCHANGED <<jobs, nextId, started, armed, inline, worker, starts, crashes, faults>>

(* store.list rejects: hasInFlight answers false. *)
CheckFault(s) ==
  /\ tick[s] = "check"
  /\ Rejects("check")
  /\ tick' = [tick EXCEPT ![s] = "enqueue"]
  /\ UNCHANGED <<jobs, nextId, started, armed, inline, worker, starts, crashes>>

(* now is what Date.now() reads for createdAt. *)
Enqueue(s, now) ==
  /\ tick[s] = "enqueue"
  /\ nextId \in JobIds
  /\ jobs' = Put(jobs, nextId, NewJob(Run, 0, now, nextId))
  /\ nextId' = nextId + 1
  /\ inline' = [inline EXCEPT ![nextId] = [NoRunner EXCEPT !.phase = "wait", !.by = s]]
  /\ tick' = [tick EXCEPT ![s] = "idle"]
  /\ UNCHANGED <<started, armed, worker, starts, crashes, faults>>

(* store.enqueue rejects: this tick has no run. *)
EnqueueFault(s) ==
  /\ tick[s] = "enqueue"
  /\ Rejects("enqueue")
  /\ tick' = [tick EXCEPT ![s] = "idle"]
  /\ UNCHANGED <<jobs, nextId, started, armed, inline, worker, starts, crashes>>

-----------------------------------------------------------------------------
(* runIfUnclaimed: after its second it claims this run, or lets it be. *)

ClaimOne(j) ==
  /\ inline[j].phase = "wait"
  /\ IF j \in Due(jobs, 0)
       THEN \E t \in FreeTokens :
              /\ t = CHOOSE u \in FreeTokens : TRUE
              /\ jobs' = ClaimJobs(jobs, [i \in {j} |-> t], InlineLease)
              /\ inline' = [inline EXCEPT ![j].phase = "task", ![j].owner = t]
              /\ starts' = [starts EXCEPT ![j] = @ + 1]
       ELSE /\ inline' = [inline EXCEPT ![j] = NoRunner]
            /\ UNCHANGED <<jobs, starts>>
  /\ UNCHANGED <<nextId, started, armed, tick, worker, crashes, faults>>

(* store.claimOne rejects: the runner gives the run up. *)
ClaimFault(j) ==
  /\ inline[j].phase = "wait"
  /\ Rejects("claim")
  /\ inline' = [inline EXCEPT ![j] = NoRunner]
  /\ UNCHANGED <<jobs, nextId, started, armed, tick, worker, starts, crashes>>

InlineReturns(j) ==
  /\ inline[j].phase = "task"
  /\ inline' = [inline EXCEPT ![j].phase = "complete"]
  /\ UNCHANGED <<jobs, nextId, started, armed, tick, worker, starts, crashes, faults>>

InlineThrows(j) ==
  /\ TasksFail
  /\ inline[j].phase = "task"
  /\ inline' = [inline EXCEPT ![j].phase = "fail"]
  /\ UNCHANGED <<jobs, nextId, started, armed, tick, worker, starts, crashes, faults>>

InlineEnds(j) ==
  /\ inline[j].phase \in {"complete", "fail"}
  /\ jobs' = IF inline[j].phase = "complete"
               THEN CompleteJob(jobs, j, inline[j].owner)
               ELSE GiveUpJob(jobs, j, inline[j].owner)
  /\ inline' = [inline EXCEPT ![j] = NoRunner]
  /\ UNCHANGED <<nextId, started, armed, tick, worker, starts, crashes, faults>>

(* store.complete or store.fail rejects: the run stays running. *)
InlineEndsFault(j) ==
  /\ inline[j].phase \in {"complete", "fail"}
  /\ Rejects("end")
  /\ inline' = [inline EXCEPT ![j] = NoRunner]
  /\ UNCHANGED <<jobs, nextId, started, armed, tick, worker, starts, crashes>>

-----------------------------------------------------------------------------
(* The schedule:run worker. *)

WorkerReleases ==
  /\ HasWorker
  /\ Expired(jobs, 0) # {}
  /\ jobs' = ReleaseExpired(jobs, 0)
  /\ UNCHANGED <<nextId, started, armed, tick, inline, worker, starts, crashes, faults>>

WorkerClaims(j) ==
  /\ HasWorker
  /\ j \in Due(jobs, 0)
  /\ worker[j] = NoRunner
  /\ \E t \in FreeTokens :
       /\ t = CHOOSE u \in FreeTokens : TRUE
       /\ jobs' = ClaimJobs(jobs, [i \in {j} |-> t], WorkerLease)
       /\ worker' = [worker EXCEPT ![j].phase = "task", ![j].owner = t]
  /\ starts' = [starts EXCEPT ![j] = @ + 1]
  /\ UNCHANGED <<nextId, started, armed, tick, inline, crashes, faults>>

WorkerEnds(j) ==
  /\ worker[j].phase = "task"
  /\ \/ jobs' = CompleteJob(jobs, j, worker[j].owner)
     \/ TasksFail /\ jobs' = GiveUpJob(jobs, j, worker[j].owner)
  /\ worker' = [worker EXCEPT ![j] = NoRunner]
  /\ UNCHANGED <<nextId, started, armed, tick, inline, starts, crashes, faults>>

(* The worker's store.complete rejects, so that the run fails, or its       *)
(* store.fail rejects and the run stays running.                            *)
WorkerEndsFault(j) ==
  /\ worker[j].phase = "task"
  /\ Rejects("end")
  /\ jobs' \in {GiveUpJob(jobs, j, worker[j].owner), jobs}
  /\ worker' = [worker EXCEPT ![j] = NoRunner]
  /\ UNCHANGED <<nextId, started, armed, tick, inline, starts, crashes>>

-----------------------------------------------------------------------------
(* A scheduler process dies and comes up again, its schedule registered    *)
(* but not yet started.                                                    *)
Crash(s) ==
  /\ crashes < MaxCrashes
  /\ crashes' = crashes + 1
  /\ started' = [started EXCEPT ![s] = FALSE]
  /\ armed' = [armed EXCEPT ![s] = TRUE]
  /\ tick' = [tick EXCEPT ![s] = "idle"]
  /\ inline' = [j \in JobIds |-> IF inline[j].by = s THEN NoRunner ELSE inline[j]]
  /\ UNCHANGED <<jobs, nextId, worker, starts, faults>>

(* One unit of time; the worker's heartbeats keep its leases fresh. *)
Renewed(j) == /\ jobs[j] # NoJob /\ worker[j].phase = "task"
              /\ jobs[j].owner = worker[j].owner

AdvanceTime ==
  /\ ~SlowTasks => \A j \in JobIds :
       inline[j].phase # "none" /\ VerifyOwner(jobs, j, inline[j].owner)
       /\ inline[j].owner # NoToken => jobs[j].leaseIn > 0
  /\ jobs' = [j \in JobIds |-> IF Renewed(j) THEN jobs[j] ELSE Elapse(jobs)[j]]
  /\ UNCHANGED <<nextId, started, armed, tick, inline, worker, starts, crashes, faults>>

-----------------------------------------------------------------------------
SchedulerStep(s) == CronFires(s) \/ Check(s) \/ \E now \in Instants : Enqueue(s, now)
RunnerStep(j) == \/ ClaimOne(j) \/ InlineReturns(j) \/ InlineThrows(j) \/ InlineEnds(j)
                 \/ WorkerClaims(j) \/ WorkerEnds(j)
StoreRejects ==
  \/ \E s \in Schedulers : CheckFault(s) \/ EnqueueFault(s)
  \/ \E j \in JobIds : ClaimFault(j) \/ InlineEndsFault(j) \/ WorkerEndsFault(j)

Next ==
  \/ \E s \in Schedulers : SchedulerStep(s) \/ Start(s) \/ Stop(s) \/ Crash(s)
  \/ \E j \in JobIds : RunnerStep(j)
  \/ WorkerReleases
  \/ StoreRejects
  \/ AdvanceTime

Spec == Init /\ [][Next]_vars

(* Cron keeps firing, awaited operations and tasks answer, time passes,    *)
(* and a process that came up is started.                                  *)
FairSpec ==
  /\ Spec
  /\ WF_vars(AdvanceTime) /\ WF_vars(WorkerReleases)
  /\ \A s \in Schedulers : WF_vars(SchedulerStep(s)) /\ WF_vars(Start(s))
  /\ \A j \in JobIds : WF_vars(RunnerStep(j))

-----------------------------------------------------------------------------
TypeOK ==
  /\ jobs \in [JobIds -> Job \cup {NoJob}]
  /\ nextId \in 1 .. (MaxJobs + 1)
  /\ started \in [Schedulers -> BOOLEAN]
  /\ armed \in [Schedulers -> BOOLEAN]
  /\ tick \in [Schedulers -> {"idle", "check", "enqueue"}]
  /\ inline \in [JobIds -> Runner]
  /\ worker \in [JobIds -> Runner]
  /\ starts \in [JobIds -> Nat]
  /\ crashes \in 0 .. MaxCrashes
  /\ faults \in [FaultKinds -> Nat]

(* The overlap guard (scheduler.ts, handleTick): slow runs pile up only as *)
(* often as the store was unavailable to it (hasInFlight then answers      *)
(* false); otherwise one run of the name at most is queued or running.     *)
NoPileUp == Cardinality(Live(jobs)) <= 1 + faults["check"]

(* Each tick's run is executed exactly once (scheduler.ts, cron), by the   *)
(* worker or by the inline runner, whoever claims it first; only a crash,  *)
(* or a store that fails when the end of the run is written down, may have *)
(* it started again, once each (runIfUnclaimed warns of the latter).       *)
RunsOnce == \A j \in JobIds : starts[j] <= 1 + crashes + faults["end"]

(* Owner tokens (scheduler.ts, runIfUnclaimed): a run is only ever ended   *)
(* by the runner that holds its lease at that moment, never by one that    *)
(* lost it to a release and a second claim.                                *)
EndedByRunner ==
  [][\A j \in JobIds :
       j \in Live(jobs) /\ j \notin Live(jobs)' =>
         \/ inline[j].owner = jobs[j].owner /\ inline'[j] = NoRunner
         \/ worker[j].owner = jobs[j].owner /\ worker'[j] = NoRunner]_vars

(* The schedule keeps ticking: when a run is over, the next one follows.   *)
ScheduleGoesOn ==
  \A j \in JobIds \ {MaxJobs} :
    (j < nextId /\ j \notin Live(jobs)) ~>
      (nextId > j + 1 \/ \A s \in Schedulers : ~armed[s])

(* start() begins ticking (scheduler.ts, Scheduler): a started scheduler   *)
(* ticks sooner or later, unless it is stopped again.                      *)
StartTicks ==
  \A s \in Schedulers : started[s] ~>
    (tick[s] # "idle" \/ ~started[s] \/ nextId \notin JobIds)

(* A crash between due and done recovers via claim and lease               *)
(* (scheduler.ts, file comment): a run that was enqueued is over one day.  *)
RunsEnd == \A j \in JobIds : (j \in Live(jobs)) ~> (j \notin Live(jobs))

(* The schedule is alive: each run ends, and the next one follows as long  *)
(* as none has failed.  A failed run closes the overlap guard for good:    *)
(* that is why ScheduleGoesOn does not hold where tasks may throw.         *)
ScheduleLives ==
  /\ RunsEnd
  /\ \A j \in JobIds \ {MaxJobs} :
       (j < nextId /\ j \notin Live(jobs)) ~>
         \/ nextId > j + 1 \/ \A s \in Schedulers : ~armed[s]
         \/ With(jobs, {"failed"}) # {}
=============================================================================
