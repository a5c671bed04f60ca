---------------------------- MODULE DurableJobs ----------------------------
(***************************************************************************)
(* The durable queue of packages/core/src/platform/jobs-durable.ts: worker *)
(* processes that share one job store, each with a poll loop that renews   *)
(* the leases of its own jobs, releases expired ones, claims due jobs and  *)
(* runs their handlers.  A worker is a process: it may crash, which leaves *)
(* only the store, and it may be stopped and started by the application.   *)
(*                                                                         *)
(* A step is what the event loop does between two awaits, together with    *)
(* the store mutation that it awaits.  Mutations are atomic here: within   *)
(* one process the store's mutation chain serializes them, and across      *)
(* processes the driver is assumed to.                                     *)
(***************************************************************************)
EXTENDS JobStore

CONSTANTS Workers,
          Concurrency,  \* options.concurrency
          Lease,        \* options.leaseMs
          Interval,     \* intervalMs of a recurring job
          Timely,       \* a started worker ticks at least every MaxLag
          MaxCrashes, MaxFaults, MaxStops,   \* bounds on what may go wrong
          NoTask

TaskPhase == {"claimed", "handler", "complete", "requeue", "fail"}
Task == [worker: Workers, job: JobIds, spec: Specs, attempts: Nat,
         created: Instants, payload: JobIds, phase: TaskPhase]

ASSUME TimingAssumption == /\ Concurrency \in Nat \ {0}
                           /\ Lease \in Nat
                           /\ Interval \in Nat
                           /\ Timely \in BOOLEAN
ASSUME NoTaskAssumption == NoTask \notin Task
ASSUME BudgetAssumption == {MaxCrashes, MaxFaults, MaxStops} \subseteq Nat

VARIABLES
  jobs,     \* the job map in the store
  nextId,   \* the next id that newJobId returns
  task,     \* by leaseOwner token: the runClaimed promise that holds it
  held,     \* by worker and job: its inFlight keys and its owners map
  tick,     \* by worker: where its tick() awaits
  age,      \* by worker: how long ago its last tick read `now'
  mode,     \* by worker: new, started, stopping, settled, gaveUp or down
  mishaps,  \* how many crashes, store faults and stops there were
  going,    \* history: the chains of recurring jobs that should have a next run
  stolen    \* history: the chains whose run was released while its task lived

vars == <<jobs, nextId, task, held, tick, age, mode, mishaps, going, stolen>>

-----------------------------------------------------------------------------
Mode == {"new", "started", "stopping", "settled", "gaveUp", "down"}
TickPhase == {"idle", "renew", "claim", "launch"}
Idle == [phase |-> "idle", todo |-> {}, capacity |-> 0]

IsTask(t) == task[t] # NoTask
TasksOf(w) == {t \in Tokens : IsTask(t) /\ task[t].worker = w}

(* The counter `running': tasks between the launch and the finally. *)
Running(w) == {t \in TasksOf(w) : task[t].phase # "claimed"}
InFlight(w) == {j \in JobIds : held[w][j] # NoToken}

(* randomToken never returns a token that is in use. *)
FreeTokens ==
  {t \in Tokens : ~IsTask(t) /\ \A j \in JobIds : jobs[j] # NoJob => jobs[j].owner # t}

Mintings(S) == {f \in [S -> FreeTokens] : \A a, b \in S : f[a] = f[b] => a = b}

Count(kind, bound) ==
  mishaps[kind] < bound /\ mishaps' = [mishaps EXCEPT ![kind] = @ + 1]

Init ==
  /\ jobs = [j \in JobIds |-> NoJob]
  /\ nextId = 1
  /\ task = [t \in Tokens |-> NoTask]
  /\ held = [w \in Workers |-> [j \in JobIds |-> NoToken]]
  /\ tick = [w \in Workers |-> Idle]
  /\ age = [w \in Workers |-> 0]
  /\ mode = [w \in Workers |-> "new"]
  /\ mishaps = [kind \in {"crash", "fault", "stop"} |-> 0]
  /\ going = {} /\ stolen = {}

-----------------------------------------------------------------------------
(* queue.enqueue(spec), from any process, by whose clock it is `now'. *)
Enqueue(spec, delay, now) ==
  /\ nextId \in JobIds
  /\ jobs' = Put(jobs, nextId, NewJob(spec, delay, now, nextId))
  /\ nextId' = nextId + 1
  /\ going' = IF spec.recurring THEN going \cup {nextId} ELSE going
  /\ UNCHANGED <<task, held, tick, age, mode, mishaps, stolen>>

-----------------------------------------------------------------------------
(* tick(), one action per await.  The overlap guard `ticking' is tick[w]   *)
(* not being idle; `stopped' is read only when the tick begins.            *)

(* Mutant: the heartbeat loop finds nothing to renew. *)
BeginTickNoRenewal(w) ==
  /\ tick' = [tick EXCEPT ![w] = [phase |-> "renew", todo |-> {}, capacity |-> 0]]
  /\ age' = [age EXCEPT ![w] = 0]

BeginTick(w) ==
  /\ tick' = [tick EXCEPT ![w] = [phase |-> "renew", todo |-> InFlight(w), capacity |-> 0]]
  /\ age' = [age EXCEPT ![w] = 0]

PollFires(w) ==
  /\ mode[w] = "started"
  /\ tick[w].phase = "idle"
  /\ BeginTick(w)
  /\ UNCHANGED <<jobs, nextId, task, held, mode, mishaps, going, stolen>>

(* The live iteration over inFlight.keys() skips the jobs that settled. *)
ToRenew(w) == tick[w].todo \cap InFlight(w)

Renew(w) ==
  /\ tick[w].phase = "renew"
  /\ \E j \in ToRenew(w) :
       /\ jobs' = HeartbeatJob(jobs, j, held[w][j], Lease - age[w])
       /\ tick' = [tick EXCEPT ![w].todo = @ \ {j}]
  /\ UNCHANGED <<nextId, task, held, age, mode, mishaps, going, stolen>>

(* The chains of recurring jobs that a live task loses to the release. *)
Lost(expired) ==
  {jobs[j].payload : j \in {i \in expired : jobs[i].spec.recurring
                                           /\ \E t \in Tokens : jobs[i].owner = t /\ IsTask(t)}}

(* Mutant: the capacity does not subtract the running jobs. *)
ReleaseFullCapacity(w) ==
  /\ tick[w].phase = "renew"
  /\ ToRenew(w) = {}
  /\ jobs' = ReleaseExpired(jobs, age[w])
  /\ stolen' = stolen \cup Lost(Expired(jobs, age[w]))
  /\ tick' = [tick EXCEPT ![w] =
                [phase |-> "claim", todo |-> {}, capacity |-> Concurrency]]
  /\ UNCHANGED <<nextId, task, held, age, mode, mishaps, going>>

Release(w) ==
  /\ tick[w].phase = "renew"
  /\ ToRenew(w) = {}
  /\ jobs' = ReleaseExpired(jobs, age[w])
  /\ stolen' = stolen \cup Lost(Expired(jobs, age[w]))
  /\ LET capacity == AtLeast(0, Concurrency - Cardinality(Running(w)))
     IN tick' = [tick EXCEPT ![w] =
                   IF capacity = 0 THEN Idle
                   ELSE [phase |-> "claim", todo |-> {}, capacity |-> capacity]]
  /\ UNCHANGED <<nextId, task, held, age, mode, mishaps, going>>

(* Which fresh tokens are minted makes no difference: CHOOSE takes some. *)
Claim(w) ==
  /\ tick[w].phase = "claim"
  /\ \E S \in ClaimChoices(jobs, tick[w].capacity, age[w]) :
       /\ Mintings(S) # {}
       /\ LET token == CHOOSE f \in Mintings(S) : TRUE
          IN /\ jobs' = IF S = {} THEN jobs
                        ELSE ClaimJobs(jobs, token, Lease - age[w])
             /\ task' = [t \in Tokens |->
                  IF \E j \in S : token[j] = t
                    THEN LET j == CHOOSE j \in S : token[j] = t
                         IN [worker |-> w, job |-> j, spec |-> jobs[j].spec,
                             attempts |-> jobs[j].attempts,
                             created |-> jobs[j].created, payload |-> jobs[j].payload,
                             phase |-> "claimed"]
                    ELSE task[t]]
       /\ tick' = [tick EXCEPT ![w] =
                     IF S = {} THEN Idle
                     ELSE [phase |-> "launch", todo |-> {}, capacity |-> 0]]
  /\ UNCHANGED <<nextId, held, age, mode, mishaps, going, stolen>>

(* The loop over the claimed jobs: runClaimed starts each of them, and     *)
(* goes straight to store.fail when no handler has the job's name.         *)
Launch(w) ==
  /\ tick[w].phase = "launch"
  /\ LET claimed == TasksOf(w) \ Running(w)
     IN /\ task' = [t \in Tokens |->
             IF t \in claimed
               THEN [task[t] EXCEPT !.phase = IF task[t].spec.handled
                                                THEN "handler" ELSE "fail"]
               ELSE task[t]]
        /\ held' = [held EXCEPT ![w] = [j \in JobIds |->
             IF \E t \in claimed : task[t].job = j
               THEN CHOOSE t \in claimed : task[t].job = j
               ELSE @[j]]]
  /\ tick' = [tick EXCEPT ![w] = Idle]
  /\ UNCHANGED <<jobs, nextId, age, mode, mishaps, going, stolen>>

(* A store operation of the tick rejects: onError, and the tick ends. *)
TickFault(w) ==
  /\ tick[w].phase \in {"renew", "claim"}
  /\ Count("fault", MaxFaults)
  /\ tick' = [tick EXCEPT ![w] = Idle]
  /\ UNCHANGED <<jobs, nextId, task, held, age, mode, going, stolen>>

-----------------------------------------------------------------------------
(* runClaimed(job): the task that holds token t. *)

InPhase(t, phase) == IsTask(t) /\ task[t].phase = phase
Goto(t, phase) == task' = [task EXCEPT ![t].phase = phase] /\ UNCHANGED held

(* Mutant: owners.delete and inFlight.delete are forgotten. *)
SettleStaysHeld(t) ==
  /\ task' = [task EXCEPT ![t] = NoTask]
  /\ UNCHANGED held

(* The finally block: it deletes by job id, whatever token is there. *)
Settle(t) ==
  /\ task' = [task EXCEPT ![t] = NoTask]
  /\ held' = [held EXCEPT ![task[t].worker][task[t].job] = NoToken]

HandlerReturns(t) ==
  /\ InPhase(t, "handler")
  /\ Goto(t, "complete")
  /\ UNCHANGED <<jobs, nextId, tick, age, mode, mishaps, going, stolen>>

HandlerThrows(t) ==
  /\ InPhase(t, "handler")
  /\ Goto(t, "fail")
  /\ UNCHANGED <<jobs, nextId, tick, age, mode, mishaps, going, stolen>>

Complete(t) ==
  /\ InPhase(t, "complete")
  /\ jobs' = CompleteJob(jobs, task[t].job, t)
  /\ IF task[t].spec.recurring THEN Goto(t, "requeue") ELSE Settle(t)
  /\ UNCHANGED <<nextId, tick, age, mode, mishaps, going, stolen>>

(* The next run of a recurring job copies the old record: payload and       *)
(* createdAt too.                                                           *)
EnqueueNext(t) ==
  /\ nextId \in JobIds
  /\ jobs' = Put(jobs, nextId,
                 NewJob(task[t].spec, Interval, task[t].created, task[t].payload))
  /\ nextId' = nextId + 1

Requeue(t) ==
  /\ InPhase(t, "requeue")
  /\ EnqueueNext(t)
  /\ Settle(t)
  /\ UNCHANGED <<tick, age, mode, mishaps, going, stolen>>

(* Exponential backoff; the unit of time is its base. *)
backoffFor(attempt) == 2 ^ (attempt - 1)

(* A job without a handler is failed for good at once, any other job when  *)
(* this was its last attempt by the count in the claimed snapshot.         *)
Retries(t) == /\ task[t].spec.handled
              /\ task[t].attempts + 1 < task[t].spec.maxAttempts

Fail(t) ==
  /\ InPhase(t, "fail")
  /\ jobs' = IF Retries(t)
               THEN RetryJob(jobs, task[t].job, t, backoffFor(task[t].attempts + 1))
               ELSE GiveUpJob(jobs, task[t].job, t)
  /\ going' = IF ~Retries(t) /\ VerifyOwner(jobs, task[t].job, t)
                THEN going \ {task[t].payload} ELSE going
  /\ Settle(t)
  /\ UNCHANGED <<nextId, tick, age, mode, mishaps, stolen>>

(* A store operation that the try block awaits rejects: the catch block    *)
(* takes the run for a failed one.                                         *)
BookkeepingFault(t) ==
  /\ InPhase(t, "complete") \/ InPhase(t, "requeue")
  /\ Count("fault", MaxFaults)
  /\ Goto(t, "fail")
  /\ going' = IF InPhase(t, "requeue") THEN going \ {task[t].payload} ELSE going
  /\ UNCHANGED <<jobs, nextId, tick, age, mode, stolen>>

(* Mutant: onComplete is called before the next run is enqueued. *)
OnCompleteThrowsEarly(t) ==
  /\ \/ InPhase(t, "complete") /\ ~task[t].spec.recurring
     \/ InPhase(t, "requeue")
  /\ jobs' = CompleteJob(jobs, task[t].job, t)
  /\ Count("fault", MaxFaults)
  /\ Goto(t, "fail")
  /\ UNCHANGED <<nextId, tick, age, mode, going, stolen>>

(* So it does when onComplete throws, after the bookkeeping is done. *)
OnCompleteThrows(t) ==
  /\ \/ /\ InPhase(t, "complete") /\ ~task[t].spec.recurring
        /\ jobs' = CompleteJob(jobs, task[t].job, t)
        /\ UNCHANGED nextId
     \/ InPhase(t, "requeue") /\ EnqueueNext(t)
  /\ Count("fault", MaxFaults)
  /\ Goto(t, "fail")
  /\ UNCHANGED <<tick, age, mode, going, stolen>>

(* store.fail rejects: the task rejects too, and onError hears of it. *)
FailFault(t) ==
  /\ InPhase(t, "fail")
  /\ Count("fault", MaxFaults)
  /\ Settle(t)
  /\ UNCHANGED <<jobs, nextId, tick, age, mode, going, stolen>>

-----------------------------------------------------------------------------
(* The life of a worker. *)

Start(w) ==
  /\ mode[w] \in {"new", "stopping", "settled", "gaveUp"}
  /\ mode' = [mode EXCEPT ![w] = "started"]
  /\ IF tick[w].phase = "idle" THEN BeginTick(w) ELSE UNCHANGED <<tick, age>>
  /\ UNCHANGED <<jobs, nextId, task, held, mishaps, going, stolen>>

Stop(w) ==
  /\ mode[w] = "started"
  /\ Count("stop", MaxStops)
  /\ mode' = [mode EXCEPT ![w] = "stopping"]
  /\ UNCHANGED <<jobs, nextId, task, held, tick, age, going, stolen>>

(* stop() resolves: `running' is zero, or the deadline has passed. *)
StopResolves(w) ==
  /\ mode[w] = "stopping"
  /\ mode' = [mode EXCEPT ![w] = IF Running(w) = {} THEN "settled" ELSE "gaveUp"]
  /\ UNCHANGED <<jobs, nextId, task, held, tick, age, mishaps, going, stolen>>

Crash(w) ==
  /\ mode[w] # "down"
  /\ Count("crash", MaxCrashes)
  /\ mode' = [mode EXCEPT ![w] = "down"]
  /\ task' = [t \in Tokens |-> IF t \in TasksOf(w) THEN NoTask ELSE task[t]]
  /\ held' = [held EXCEPT ![w] = [j \in JobIds |-> NoToken]]
  /\ tick' = [tick EXCEPT ![w] = Idle]
  /\ age' = [age EXCEPT ![w] = 0]
  /\ going' = going \ {task[t].payload : t \in {u \in TasksOf(w) : InPhase(u, "requeue")}}
  /\ UNCHANGED <<jobs, nextId, stolen>>

Restart(w) ==
  /\ mode[w] = "down"
  /\ mode' = [mode EXCEPT ![w] = "new"]
  /\ UNCHANGED <<jobs, nextId, task, held, tick, age, mishaps, going, stolen>>

-----------------------------------------------------------------------------
(* One unit of time.  A tick takes at most MaxLag; when Timely, a started  *)
(* worker also begins its next tick by then.                               *)
MustTick(w) == tick[w].phase # "idle" \/ (Timely /\ mode[w] = "started")

AdvanceTime ==
  /\ \A w \in Workers : MustTick(w) => age[w] < MaxLag
  /\ jobs' = Elapse(jobs)
  /\ age' = [w \in Workers |-> IF age[w] < MaxLag THEN age[w] + 1 ELSE age[w]]
  /\ UNCHANGED <<nextId, task, held, tick, mode, mishaps, going, stolen>>

-----------------------------------------------------------------------------
TickStep(w) == PollFires(w) \/ Renew(w) \/ Release(w) \/ Claim(w) \/ Launch(w)
TaskStep(t) == HandlerReturns(t) \/ Complete(t) \/ Requeue(t) \/ Fail(t)

Next ==
  \/ \E spec \in Specs, delay \in {0, Interval}, now \in Instants : Enqueue(spec, delay, now)
  \/ \E w \in Workers : \/ TickStep(w) \/ TickFault(w)
                        \/ Start(w) \/ Stop(w) \/ StopResolves(w)
                        \/ Crash(w) \/ Restart(w)
  \/ \E t \in Tokens : \/ TaskStep(t) \/ HandlerThrows(t)
                       \/ BookkeepingFault(t) \/ OnCompleteThrows(t) \/ FailFault(t)
  \/ AdvanceTime

Spec == Init /\ [][Next]_vars

(* setInterval keeps firing, awaited store operations and handlers answer, *)
(* time passes, and a supervisor brings a dead worker back and starts it.  *)
FairSpec ==
  /\ Spec
  /\ WF_vars(AdvanceTime)
  /\ \A w \in Workers : WF_vars(TickStep(w)) /\ WF_vars(Start(w)) /\ WF_vars(Restart(w))
  /\ \A t \in Tokens : WF_vars(TaskStep(t) \/ HandlerThrows(t))
-----------------------------------------------------------------------------
(* Properties. *)

(* Every variable holds what the code can put there. *)
TypeOK ==
  /\ jobs \in [JobIds -> Job \cup {NoJob}]
  /\ nextId \in 1 .. (MaxJobs + 1)
  /\ task \in [Tokens -> Task \cup {NoTask}]
  /\ held \in [Workers -> [JobIds -> Tokens \cup {NoToken}]]
  /\ tick \in [Workers -> [phase: TickPhase, todo: SUBSET JobIds, capacity: Nat]]
  /\ age \in [Workers -> 0 .. MaxLag]
  /\ mode \in [Workers -> Mode]
  /\ mishaps \in [{"crash", "fault", "stop"} -> Nat]
  /\ going \in SUBSET JobIds
  /\ stolen \in SUBSET JobIds

(* A record has a leaseOwner exactly while its job runs. *)
OwnedWhileRunning ==
  \A j \in JobIds : jobs[j] # NoJob =>
    (jobs[j].status = "running" <=> jobs[j].owner # NoToken)

(* No two records carry the same leaseOwner. *)
OneJobPerToken ==
  \A i, j \in JobIds :
    /\ jobs[i] # NoJob /\ jobs[j] # NoJob
    /\ jobs[i].owner = jobs[j].owner /\ jobs[i].owner # NoToken
    => i = j

(* The task whose token a record carries runs that very job, and its claim *)
(* snapshot still agrees with the record on the attempts spent and on what  *)
(* the next run of a recurring job copies.                                  *)
SnapshotCurrent ==
  \A t \in Tokens, j \in JobIds :
    IsTask(t) /\ jobs[j] # NoJob /\ jobs[j].owner = t =>
      /\ task[t].job = j
      /\ task[t].spec = jobs[j].spec
      /\ task[t].attempts = jobs[j].attempts
      /\ task[t].created = jobs[j].created
      /\ task[t].payload = jobs[j].payload

(* A live job has an attempt left, a finished one overspent none. *)
AttemptsBounded ==
  \A j \in JobIds : jobs[j] # NoJob =>
    /\ jobs[j].attempts <= jobs[j].spec.maxAttempts
    /\ jobs[j].status # "failed" => jobs[j].attempts < jobs[j].spec.maxAttempts

(* Owner-token leases (jobs-store.ts, verifyOwner): whatever the timing,   *)
(* at most one task can still finish a job, and it is the one that the     *)
(* record names.                                                           *)
LeaseOwnership ==
  OwnedWhileRunning /\ OneJobPerToken /\ SnapshotCurrent /\ AttemptsBounded

(* owners/inFlight of a worker name launched tasks of that worker only,    *)
(* although the finally block deletes by job id and not by token.          *)
HeldByOwnTask ==
  \A w \in Workers, j \in JobIds : held[w][j] # NoToken =>
    /\ held[w][j] \in Running(w)
    /\ task[held[w][j]].job = j

(* tick's overlap guard and capacity: a worker never runs more handlers at *)
(* a time than options.concurrency, stopped and restarted or not.          *)
ConcurrencyBounded == \A w \in Workers : Cardinality(TasksOf(w)) <= Concurrency

(* Leases are renewed on every tick so that slow jobs are never stolen     *)
(* (jobs-durable.ts, tick): while a handler runs in a live process, its    *)
(* task is renewed by its worker and still owns the job, crashes of other   *)
(* workers or not, as long as no store operation has failed and no worker   *)
(* was told to stop, which ends its renewals.                               *)
NeverStolen ==
  mishaps["fault"] = 0 /\ mishaps["stop"] = 0 =>
    \A t \in Tokens : InPhase(t, "handler") =>
      /\ held[task[t].worker][task[t].job] = t
      /\ VerifyOwner(jobs, task[t].job, t)

(* stop() waits for the jobs in flight to settle: once it has resolved     *)
(* because none was left, no handler of that worker is running.            *)
StopSettles ==
  \A w \in Workers : mode[w] = "settled" => Running(w) = {}

(* Re-enqueue after completion (jobs-durable.ts, runClaimed): a chain has a *)
(* next run in the store, or a task about to enqueue it, from its first run *)
(* until a run fails for good, or a crash or a store that fails comes       *)
(* between the completion and the enqueue; then `going' drops it.           *)
ChainAlive ==
  \A p \in going :
    \/ \E j \in Live(jobs) : jobs[j].spec.recurring /\ jobs[j].payload = p
    \/ \E t \in Tokens : InPhase(t, "requeue") /\ task[t].payload = p

(* A recurring job is re-enqueued once per completed run: no two live       *)
(* records of one chain, whoever runs it, unless the lease of a run was     *)
(* released while its task lived, which then re-enqueues as well.           *)
ChainUnique ==
  \A i, j \in Live(jobs) :
    /\ jobs[i].spec.recurring /\ jobs[j].spec.recurring
    /\ jobs[i].payload = jobs[j].payload /\ jobs[i].payload \notin stolen
    => i = j

(* Through crashes, store faults, stops, late ticks and retries, a chain    *)
(* ends and forks in those two ways only (jobs-durable.ts, runClaimed).     *)
ChainIntact == ChainAlive /\ ChainUnique

(* Not what the code does: a chain ends only when a run of it fails.        *)
ChainGoesOn ==
  \A j \in With(jobs, {"completed"}) : jobs[j].spec.recurring =>
    \/ \E i \in JobIds : i > j /\ jobs[i] # NoJob /\ jobs[i].payload = jobs[j].payload
    \/ \E t \in Tokens : InPhase(t, "requeue") /\ task[t].payload = jobs[j].payload

(* Retention keeps the newest: what a write drops is no newer, by the       *)
(* clocks of the enqueuers, than any finished record that stays; of one     *)
(* millisecond, as of the runs of one chain, the first enqueued stay.       *)
NewestHistoryKept ==
  [][\A i, j \in JobIds :
       jobs[j] # NoJob /\ jobs'[j] = NoJob /\ i \in Finished(jobs)' =>
         \/ jobs'[i].created > jobs[j].created
         \/ jobs'[i].created = jobs[j].created /\ i < j]_jobs

(* Its lease holder reports how the run of j ended. *)
Reported(j) ==
  /\ j \in With(jobs, {"running"})
  /\ \E t \in Tokens : /\ jobs[j].owner = t
                       /\ InPhase(t, "complete") \/ InPhase(t, "fail")

(* What becomes of each job, in the terms of JobLifecycle. *)
StatusOf == [j \in JobIds |-> IF Reported(j) THEN "reported"
                             ELSE IF jobs[j] # NoJob THEN jobs[j].status
                             ELSE IF j < nextId THEN "forgotten" ELSE "absent"]
AttemptsLeft == [j \in JobIds |->
  IF jobs[j] = NoJob THEN 0 ELSE jobs[j].spec.maxAttempts - jobs[j].attempts]

Lifecycle == INSTANCE JobLifecycle
               WITH Ids <- JobIds, status <- StatusOf, left <- AttemptsLeft

(* Refinement: whatever workers, leases and crashes do, every job lives    *)
(* the life of JobLifecycle.                                               *)
LifecycleSpec == Lifecycle!Spec

(* Every job that is enqueued is eventually completed or failed, through   *)
(* crashes and store faults: lease expiry and retries never strand it.     *)
JobsFinish == \A j \in JobIds : (j \in Live(jobs)) ~> (j \notin Live(jobs))
=============================================================================
