# A TLA+ model of ignex

ignex is a TypeScript web framework with an ahead-of-time compiler. The
specifications beside this file model the parts of its runtime in which order,
failure and time matter: the durable jobs and the cron scheduler, the life of an
application from `serve` to `exit`, the way of one request through its hooks, the
websocket handler, the caches, the dataloader, sessions, rate limits and stores
behind them, the in-process queue, event streams, and the loop of the dev server.
TLC checks them on small instances, and TLAPS proves nearly all of the safety
properties for every instance; liveness stays with TLC.

Paths below are relative to `packages/core/src/` unless they start with
`packages/` or `docs/`. `PROJECT.json` maps every definition to the lines it
stands for, and lists the runs, the hazards and the theorems.

Contents: 1 the system; 2 the modules; 3 how the code is abstracted; 4 the runs;
5 what was found; 6 fairness; 7 the proofs; 8 what is only model-checked; 9 what
is not modelled; 10 the plan; 11 how to run everything.

## 1. The system

### 1.1 Inventory

| part | state it keeps | operations | what is hard about it |
|---|---|---|---|
| job store, `platform/jobs-store.ts` | one map from id to job record under a single key of a key-value driver; a promise chain that serialises mutations | enqueue, claim, claimOne, complete, fail, heartbeat, releaseExpired, list, pruning before each write | leases and owner tokens held by processes that may be dead; retention that deletes what others refer to |
| durable queue, `platform/jobs-durable.ts` | per worker: `inFlight`, `owners`, `running`, `ticking`, `stopped`, a poll timer | enqueue, tick, runClaimed, start, stop | several workers; awaits between every two store operations; late handlers; crash, stop and restart in mid-tick |
| scheduler, `platform/scheduler.ts` | cron handles, a `started` flag; everything else is in the store | cron tick with overlap guard, inline runner after one second, start, stop | the guard is read before an await and used after it; two runners race for each run |
| in-process queue, `platform/jobs.ts` | a FIFO queue, timers, `active`, `stopped` | run, schedule, every, once, stop | timers that fire during a stop, re-entrant drain, a stop deadline |
| application, `lifecycle/app-factory.ts`, `lifecycle/plugin/registry.ts` | `server`, `initialized`, the plugins | init, serve, bind, stop | plugin promises that hang or fail; stop during boot; two stops at once |
| graceful shutdown, `platform/graceful-shutdown.ts` | `draining`, `exited`, a deadline timer | the signal handlers | second signal, deadline and drain race to exit |
| request pipeline, `lifecycle/run.ts`, `lifecycle/hook-engine.ts` | the context, the response, `postRan`, for one request | guards, handler, response stages, error stage, observers, applySet | every hook may halt, throw, replace the context or the response |
| router, `http/router.ts`, `http/route-stages.ts` | route tables; per request as above | runRoute, the 404/405 fallback, OPTIONS | the same stages in other orders, with other error paths |
| plugin bridge and fused chains, `lifecycle/plugin/lifecycle-bridge.ts`, `lifecycle/fused.ts` | none | composition of all onResponse hooks into one; direct chains for compiled servers | two implementations of one order; synchronous and asynchronous hooks mixed |
| websocket handler, `http/ws.ts` | `inFlight`, slots per socket, the connection registry | open, message, close, settle | hooks that hang, settle after their socket is gone, or close sockets while they run |
| caches, `data/lru.ts`, `data/cache/` | entries, in-flight loads, background refreshes | get, set, delete, clear, getOrSet | loads that settle after a clear; stale-while-revalidate |
| dataloader, `data/dataloader.ts` | current batch, caches of values and errors | load, dispatch, prime, clear | clear against a batch in flight |
| rate limits, `data/ratelimit.ts`, `plugins/ratelimit.ts`, `data/store/redis-rate-limit.ts` | one entry for each key | three algorithms, a store with expiry | boundaries of windows; entry life time against algorithm state |
| sessions, `security/session.ts` | a row in a store, an envelope in a cookie | load, save, touch, rotate, destroy | two requests of one client; unawaited writes |
| stores and drivers, `data/store/`, `data/drivers/` | maps, files, memoised drivers | get, set, delete, touch, sweep | capacity, expiry, coalesced writes |
| server-sent events, `http/sse.ts` | a generator, a stream, `stopped` | enqueue, wait for drain, abort, cancel | backpressure against disconnects |
| dev server, `packages/cli/src/commands/dev.ts` | one child process, build flags, timers | build, restart, crash restart, shutdown | a build, a crash timer and a shutdown at once |
| debug tooling, `debug/`, `plugins/debugbar.ts` | recorded traces and rows to be flushed | push, flush, prune | a failed flush |
| compiler, `packages/compiler` | files, a fingerprint cache | a batch pipeline | cache invalidation |
| request primitives, security plugins, configuration, content, native bindings, SDK generation, command line, MCP server | nothing that outlives a call, or generated text | conversions and pure functions | data, not control |

### 1.2 How the parts interact

The durable queue and the scheduler never talk to each other. They share the job
store, and within it they recognise a run by its name and by the owner token of
its lease. The scheduler enqueues a run on each cron tick; a `schedule:run`
worker (a durable queue) or the scheduler's own inline runner claims it,
whoever comes first.

A request comes from `Bun.serve` into the application, which hands it to the
router or to `runLifecycle`; both drive the same hook engine. Plugins join in
through the bridge: an `onRequest` becomes a guard, all the `onResponse` hooks
together become one response hook, and an `onError` becomes an error hook. The
rate limiter and the session plugin are such guards and keep their state in the
stores; handlers call the caches and the dataloader, and answer with an event
stream if they like. The websocket handler is called by the same server, one
event at a time.

A signal enters through the graceful shutdown, which calls `stop` of the
application; that runs the stop hooks, waits for the server to drain and closes
the plugins, each of which may own timers, queues and stores. In development the
whole process is the child of the dev server, which watches the sources, builds
and replaces it.

### 1.3 What makes each modelled part correct

* Job store and queue: at most one task can finish a job at any time; a job is
  never dropped while it is queued or runs, its attempts are counted one by one, a
  finished job never comes back; a worker never exceeds its concurrency; slow
  handlers of live workers are not overtaken; the chain of a recurring job ends
  and forks only where the code lets it; every job finishes.
* Scheduler: runs pile up, and are started again, only as often as a store fault
  or a crash came in between; each is ended by the runner that owns it, and the
  schedule goes on.
* Application: strict boot opens no listener before the plugins are ready; no
  plugin is closed under a running request; exit has code 0 only for a complete
  drain and always follows a signal; a stop waits for ever on hooks and requests
  only.
* Request: no way to the handler leads around a guard; every reply is decorated,
  once; errors replace whatever was made before; mutations of the context's
  `set` are not lost; what goes out is the response the observers were shown, with
  `set` applied to it.
* Websockets: the cap on handlers in flight is exact, both ways; the registry is
  the set of connected sockets.
* Rate limits: as long as the store does not evict the entry, the budget of a
  window bounds what passes, even where the stored state expires before the
  algorithm is done with it.
* Caches: one origin call at a time for a key, no value replaced by an older one,
  and a shared response body that is cloned before it is read.
* Dataloader: every load settles with its batch, and never with a value from
  before its call.
* Sessions: no change made through `update` is lost; a destroyed session of which
  no request has an object left stays destroyed.
* Stores: a key has the value it was last given or none; a crash loses at most
  the window of the coalesced writes.
* In-process queue: a bounded pool that closes; cancelled repeats do not start
  again; stopping ends, and the queue empties around stuck tasks.
* Dev server: one server at a time, none left behind, every change is built.
* Event streams: the generator is released, whoever leaves first, as soon as its
  body reaches a yield or its end.

## 2. The modules

| module | what it is | uses |
|---|---|---|
| `JobStore` | the job map and its mutations as operators | |
| `DurableJobs` | workers, ticks, tasks, crashes, stops, time | `JobStore` |
| `JobLifecycle` | abstract: the life of a job | |
| `Scheduler` | cron, guard, inline runner, beside one worker | `JobStore` |
| `AppLifecycle` | boot, serving, stopping and shutdown | |
| `RequestPipeline` | one request, hook by hook, five ways | |
| `WSHandler` | sockets, dispatches, cap and registry | |
| `RateLimit` | three algorithms, a store that forgets, a counter in Redis | |
| `LRUCache` | `getOrSet` of the LRU cache against every other writer | |
| `HttpCache` | fills, refreshes and bypasses of the response cache | |
| `DataLoader` | batches, caches, dispatch and settling | |
| `Sessions` | the requests of one client over a serialised store | |
| `FileStore` | the memory, file and coalescing drivers, with crashes | |
| `KeyValue` | abstract: what a store promises | |
| `JobQueue` | the in-process queue with timers, retries and `stop` | |
| `WorkPool` | abstract: a bounded pool that closes | |
| `DevServer` | watch, build, restart, crash backoff, shutdown | |
| `ServerSentEvents` | generator, pump, stream and consumer | |
| `Subsequence` | some of the elements of a sequence, in their order | |
| `DataLayer` | `RateLimit`, `LRUCache`, `HttpCache`, `DataLoader`, `Sessions` and `FileStore` side by side | by `INSTANCE` |
| `Loops` | `JobQueue`, `DevServer` and `ServerSentEvents` side by side | by `INSTANCE` |
| `CachesProofs` | theorems about the first four of `DataLayer` | `DataLayer` |
| `StoresProofs` | theorems about the other two | `DataLayer` |
| other `...Proofs` | the theorems about the module named, and their proofs | that module |
| other `MC...` | constants and symmetries for TLC | the module named |

Three refinements tie detail to promise: `DurableJobs` implements `JobLifecycle`
(`StatusOf`, `AttemptsLeft`), `JobQueue` implements `WorkPool` (a slot is held
while working or in backoff), and `FileStore` implements `KeyValue` (the value of
a key is that of its live entry; what is saved is what the file holds).
`DurableJobs` and `Scheduler` compose with `JobStore` by sharing its operators,
as the code does by sharing the object `JobStore`. In `DataLayer` and `Loops`
the components share nothing and one of them moves (`part`), so that the states
of a run are the sum of theirs and not the product.

A definition whose comment starts with "Mutant" is a plausible defect of the
definition after it; putting it in that definition's place must violate the
property that `PROJECT.json` names, which shows that the property can fail.

### 2.1 JobStore and DurableJobs

`jobs` is the map under the store's key. A record keeps `status`, `attempts`,
`owner` (leaseOwner), `created` (createdAt) and two relative times, `runIn` and
`leaseIn`; `spec` stands for the fields that never change after the enqueue. `created`
is a reading of some clock (`Instants`): several jobs may share it, as all the runs of
a recurring job do, and of equal ones the pruning keeps the first enqueued, as the
stable sort of the code does. `payload` tells the chains of recurring jobs apart.
Each operator of `JobStore` is one committed read-modify-write, with the pruning
that `persist` runs before every write; `VerifyOwner` is the check of the owner
token that complete, fail and heartbeat share.

`task` is indexed by owner token. A task is the promise of `runClaimed`, from
the claim to the `finally` that forgets it; its phase is the await at which it
is. `held` is the pair of maps `inFlight` and `owners`; `Running` is the counter
`running`. `tick[w]` is the await at which a worker's tick is, with what it read
before. `mode` is the poll timer and the `stopped` flag together with the
outcome of the last `stop`, or that the process is down. Two variables are history:
`going`, the chains that should have a next run, and `stolen`, those of which a run
was released while its task lived.

| action | code |
|---|---|
| `Enqueue` | `enqueue` |
| `PollFires`, `Renew`, `Release`, `Claim`, `Launch`, `TickFault` | `tick`, one action per await |
| `HandlerReturns`, `HandlerThrows`, `Complete`, `Requeue`, `Fail` | `runClaimed` |
| `BookkeepingFault`, `OnCompleteThrows`, `FailFault` | the ways into its catch block, and out of it |
| `Start`, `Stop`, `StopResolves` | `start`, and `stop` up to and after its wait loop |
| `Crash`, `Restart`, `AdvanceTime` | the process, its supervisor and the clock |

### 2.2 Scheduler

The tick of `onTick`/`handleTick` is `CronFires`, `Check` and `Enqueue`, one per
await, so that two processes can interleave between the guard and the enqueue.
`inline` is `runIfUnclaimed` for each run, `worker` is a `schedule:run` worker
seen from outside: it claims, renews and ends runs through the same store
operators. `armed` says that the cron handle still fires; `stop` clears it and
nothing sets it again but a new process. Each store operation may reject:
`CheckFault` is the `hasInFlight` that catches and answers "no" (the tick goes on to
enqueue), `EnqueueFault` and `ClaimFault` end the tick or the inline runner,
`InlineEndsFault` and `WorkerEndsFault` leave a run behind that has ended and is
still running in the store, until its lease is over.

### 2.3 AppLifecycle

`init`, `plugin` and `boot` follow `init()` and the boot chain of `serve`;
`listener` is `null`, listening or draining; `stop` holds the progress of two
possible calls of `stop`, one by the embedder, who may ask to cut off the requests
in flight (`StopServer`), and one by the signal handler. `Bind` may throw, as
`Bun.serve` does for an address in use. Hooks, plugin promises and requests settle
when they like, or never.

### 2.4 RequestPipeline

What remains of a request is a list of steps, each with its chains of hooks. An
action is one call of a hook with one of its outcomes (go on, mutate `set`,
return another context, answer, throw) or the end of a step. A response is known
by who made it, and a context by the hooks whose mutations it holds, so that
"lost", "stale" and "twice" can be told apart without any content. `mode` is
the way: the application without and with a tracer, a route of the router, its
fallback, and OPTIONS. `Body` and `Delivered` are what `applySet` makes of a response:
the response with the mutations of `set`, or, if they ask for a redirect, the
redirect and none of the others. Observers run before it, as in the code.

### 2.5 WSHandler

`phase` is the life of a dispatch: the message hook runs, returns a promise, and
that promise settles or does not. `running` is the hook on the stack, and
`closing` the close hooks nested in it, because a hook may close sockets, its
own included, and Bun then calls `close` at once. `inFlight` and `slots` are
the counters, `registry` the connections.

### 2.6 RateLimit

The three checks of `data/ratelimit.ts` are functions from an entry and a time to
a decision, a reset time and the next entry, with the fractions of the window
scaled to integers. `CheckLocal` is the guard of `plugins/ratelimit.ts` over the
store of the process: it looks the entry up, checks and stores the next one for
`resetMs - now`. `Incr` and `Pexpire` are the two commands of
`data/store/redis-rate-limit.ts`, between which other replicas, a failing store
(`StoreFails`) and a `Crash` come in. `Evict` is what other keys do to this one: the
store of the process holds `storeMax` entries, and drops the least recently used.
`whole` is the entry of a limiter that
forgets nothing, and `differs` records that it decided otherwise.

### 2.7 LRUCache and HttpCache

`LRUCache` has one key. A flight is a factory call: `Start`, the `Write` of its
value, the `Throw`, and the `Close` that is the `finally` block, which takes
whatever promise the map `inflight` holds then. `GetOrSet` is the call up to its first
await. `Set`, `Delete`, `Clear` and `Evict` are the other writers; `Change` is the
world outside, whose version a factory reads. A value above `maxBytes` is not written.

`HttpCache` has one key as well. `ReadLocal`, or `ReadAsync` and `Resume` for a
store that answers with promises and may fail, lead to a hit, a stale hit with a
refresh, a fill or a wait for one. `ThrowsAtOnce` is the factory that throws before
it returns a promise: its `finally` runs before the fill is put into the map, where
the rejected promise then stays, and every later miss joins it (`Join`). The model follows the microtasks of a settled
fill (`reactions`, run by `React`), because whether a waiter's `clone` comes before the
first reader is decided there.

### 2.8 DataLoader

`batches` is every batch made; the last one grows until it is full or dispatched.
`Load` goes through the error cache, the cache and the batch; `Dispatch` calls the
batch function, which reads the versions of that moment, and `Settle` or `Fail` end
it. `Prime` and `Clear` touch no batch, as in the code.

### 2.9 Sessions

`chain` is the mutation tail of `security/session-store.ts`: every `set`,
`delete` and `update` joins it and `Apply` takes the first, with the read and the write
of an update next to each other; the store may reject it (`ApplyFails`). A request
arrives with the cookie of the client, reads its row (`Load`) or finds none, and is
attached an await later (`Attach`, with the write of a rolling session), so that
others come in between. It does at most one of save, touch, update, rotate and
destroy, after a destroy one more with the object it still has, and responds. The data of a session is the set of requests whose
change it holds, so a lost update is a missing element.

### 2.10 FileStore

`entries` is the map in insertion order, `file` what a restart would read, `timer`
the pending coalesced write. Each call of `Set`, `Delete`, `GetExpired`, `Touch` and
`Sweep` contains its persisting; a write may be refused by the disk, and a crash
inside it leaves the old file because of the rename.

### 2.11 JobQueue

`kind` tells which call made a handle, `timer` its timeout or interval, `queue` and
`phase` the runs. `Drain` is the loop of `drain()`, part of every action that
calls it. `Fail` and `Retry` are `withRetry(withTimeout(task))`, which sleeps inside its
slot. `Stop`, `StopDrained` and `StopGivesUp` are `stop()` and its deadline.

### 2.12 DevServer

`proc` are the operating system's processes, `child` the one the loop knows of,
`waits` the calls of `stopChild()` that await an exit, in their order. `build`
with `pending` is `buildOnce()`; `crashTimers` are the restarts that are armed.
`crossed` and `raced` record the two situations in which a second server is started
or left, see section 5; `begun` that the first build has.

### 2.13 ServerSentEvents

The generator is seen from outside: it runs its body, is suspended at a yield, or
is done. `pump` is the `for await` loop, which pulls, waits for the consumer to
catch up, or is over; `Finish` is every way out of it. `Cancel` and `Abort` may come at any
time. Nothing makes the body of the generator go on: it may wait for ever between two
yields, and `return()` is then queued behind it.

## 3. How the code is abstracted

**Steps.** A step is what the event loop does between two awaits, together with
the store operation it awaits. JavaScript runs that much without interruption.
Mutations of the job store are atomic: within a process its promise chain
serialises them. Across processes the code does not provide this
(`platform/jobs-store.ts:33-37` says so), and it is an assumption here.

**Time.** The models of the jobs have no clock. A record keeps how far away its
`runAt` and its `leaseUntil` are; `AdvanceTime` brings all of them nearer by one.
The code reads `Date.now()` at the beginning of a tick and uses it several awaits
later: `age[w]` is how old that reading is, and it is at most `MaxLag`. Values that
are further in the past than any reading can tell apart are clipped
(`Aged`), so the state space is finite although time is not bounded, and
liveness is checked on an unbounded time line. `Timely = TRUE` restricts
behaviours to those in which a started worker ticks at least every `MaxLag`;
the runs that depend on punctual heartbeats set it, the others do not. The models
of the data layer have a clock up to `MaxTime`, long enough for every life time in
them to begin and end, and for a second one to begin.

**Tokens.** An owner token is a random string. The model draws it from the
tokens that no record and no task refers to, which says that tokens are unique.
Where the identity of the token cannot matter, one is taken with `CHOOSE`; it is
in use until its last reference is gone, and may then be used again.

**Clocks of the enqueuers.** `createdAt` is any of `Instants`: two processes need not
agree, and two jobs may have the same.

**Faults.** A crash keeps the store and loses everything else. A store
operation that fails has not been applied. `MaxCrashes`, `MaxFaults` and
`MaxStops` bound how often it happens in one behaviour.

**Data.** Job payloads, names, results, headers and bodies do not appear. A job's
spec says whether it recurs, has a handler, and how many attempts it has. A
cached value is the version its factory read, a response the request that made it,
and a session the changes it holds.

**History.** Variables that are marked as history in their comments exist for the
properties only; no guard reads them, but for `touched`, which bounds the
other writers of `LRUCache` as well.

## 4. The runs

| run | instance | properties | distinct states |
|---|---|---|---|
| `jobs` | 2 workers of concurrency 1, 2 jobs (one with 2 attempts, one without a handler), leases that expire under the handler, retention of 1, a stop | `LeaseOwnership`, `HeldByOwnTask`, `ConcurrencyBounded`, `LifecycleSpec` | 547,777 |
| `jobs_recurring` | 2 timely workers, recurring jobs with 2 records, two readings of the clock, retention of 1, a crash, a fault | `NeverStolen`, `ChainIntact`, `NewestHistoryKept` | 948,515 |
| `jobs_liveness` | 2 timely workers, 1 job of 2 attempts, a crash, a fault | `JobsFinish` | 32,968 |
| `jobs_stop_race` | 1 worker, 1 job, 1 stop | `StopSettles`, violated | |
| `scheduler` | 1 scheduler, 1 worker, 3 runs that may fail, a crash, a store fault | `NoPileUp`, `RunsOnce`, `ScheduleLives` | 16,364 |
| `scheduler_blocked` | 1 scheduler, 1 worker, tasks that may throw | `ScheduleGoesOn`, violated | |
| `app_lifecycle` | 2 plugins, 2 requests, strict and lax boot | `StrictFailsClosed`, `DrainedBeforeClose`, `ExitZeroIsClean`, `StopsEnd` | 225,156 |
| `request_pipeline` | one application with plugins, user hooks, error hook and observer; five ways | `HandlerGated`, `DecoratedOnce`, `ReplyRight`, `SetKept` | 89,149 |
| `ws_handler` | 3 sockets, 4 dispatches, cap 2 | `LiveWorkBounded`, `RegistryCurrent`, `CountersExact` | 12,063 |
| `data_layer` | 3 callers of each cache, 2 loads, 2 requests of a client, 7 requests to the limiter, 3 drivers | `BurstBounded`, `SingleFlight`, `NeverOlder`, `OneFlight`, `CloneBeforeRead`, `LoadsCarried`, `NoStaleJoin`, `BuriedForGood`, `UpdateKeepsChanges`, `LossBounded`, `KeyValueSpec` | 645,600 |
| `loops` | 2 handles of 2 runs, one of which may hang; 2 changes and 3 crashes under `ignex dev`; one stream | `OneServer`, `CancelFinal`, `PoolSpec`, `QueueLives`, `LoopLives`, `Released` | 125,322 |
| `token_budget` | the data layer | `TokenBudget`, violated | |

What each run shows, and why its bounds are enough:

* **jobs** asks for the owner tokens. With leases of one unit and no punctual
  heartbeats, a job can be run by two workers, and by one worker again after a
  stop and a start, while the first handler is still going. Whatever the late
  ones do, `LeaseOwnership` holds and each job moves only as `JobLifecycle`
  allows. `HeldByOwnTask` is about the `finally` block, which deletes by job id:
  it can forget a newer task of the same job, but never leaves a token of a task
  that is over. `ConcurrencyBounded` holds because the overlap guard of `tick`
  survives the stop. A retention of one record makes the pruning bite with two
  jobs, and `JobLifecycle` allows it for a job that is over or is just being reported
  as over, never for one that waits or runs. Four tokens leave one free while three tasks are alive.
* **jobs_recurring** has two records, which are two chains, or a run and its
  successor; a run that re-enqueues while its record is live again makes a second live
  record of the chain. A crash and a fault come anywhere, in particular between the completion and the
  enqueue. `NeverStolen` is claimed until the first fault: a renewal that is lost may
  cost the lease. Two readings of the clock give ties and differences.
* **jobs_liveness** has a crash and a fault, each in any place, and two workers,
  so that the job is recovered by the other one or by the restarted one.
* **scheduler** has three runs: one that blocks, one that follows it and
  one that would pile up. Tasks end within their lease, or fail. The fault hits any of
  the operations: `NoPileUp` and `RunsOnce` count how often, since the code answers a
  guard it could not ask, and an end it could not write, with one run too many.
* **app_lifecycle** needs two plugins for an order of closing and for one that
  fails while the other hangs; two requests so that one drains and one comes in
  late; one embedder's stop and one signal's, with a second signal. `StopsEnd` has two
  halves: after a signal the process exits, whatever hangs; and a `stop()` that does
  not settle waits for a stop hook or for a request, never for a `close()`.
* **request_pipeline** has one hook in every place and two where a chain's order
  matters (the plugins' composite before the user's response hook), and lets
  every hook do all it can. Requests share nothing, so one is enough.
* **ws_handler** has a cap that one socket can fill alone or share with another,
  a third socket that is refused, and two dispatches beyond the cap.
* **data_layer**. The limiter has a budget of two in a window of two, and seven
  requests, one more than three budgets. What the bucket may let pass beyond twice the
  budget takes a budget of three to see; that the bound holds there too is
  part of the theorem (7.7). Each cache has three callers: one
  that fills, one that joins it and one that comes too late; the clock passes the
  fresh and the stale time of two generations. The loader has two keys and two
  loads, so that one joins or misses the batch of the other. Two requests of a
  client are what it takes to lose an update. The store has two keys and room for one,
  three drivers, a crash and a refused write.
* **loops**. Two slots of which one may be stuck for ever; repeats of two runs, each
  of two attempts. The dev loop sees two changes, the second in any place of the first
  build, and more crashes than it restarts after.

Symmetry is declared over sets no property distinguishes (workers, sockets,
dispatches, callers, keys, values), and not in the runs with liveness.

Deadlock is checked in every run but `app_lifecycle`, `ws_handler`, `data_layer`,
`token_budget` and `loops`: a process that has exited, a handler all of whose
sockets are closed, clients that have asked all they ask, really are at the end. In
`RequestPipeline` the end of the request is the step `Done`.

One configuration widens a listed one and passes: `SchedulerSlow` (two schedulers,
tasks that outlive the lease of the inline runner; `EndedByRunner`; 248,335 states).

## 5. What was found

Three disagreements between the code and what it says of itself are runs that
end in a counterexample:

* **`jobs_stop_race`**: `stop()` "wait[s] for in-flight jobs to settle"
  (`platform/jobs-durable.ts:67`), yet it looks at `running` only. A tick that has
  passed its check of `stopped` goes on to claim, and launches a handler after
  `stop()` has resolved and the caller has closed what the handler uses.
* **`scheduler_blocked`**: the overlap guard asks for a run that is "queued or
  running" (`platform/scheduler.ts:100`), but counts every run that is not
  completed. A run that failed is never retried, so one failure ends the schedule
  until retention removes the record.
* **`token_budget`**: a token bucket "allows bursts up to `maxRequests` and
  refills continuously" (`plugins/ratelimit.ts:92`). The plugin stores the bucket for
  `resetMs - now`, and the reset is computed from the tokens before the request,
  so the entry is gone before the spent tokens are back: a client that paces
  itself starts with a full bucket again and again. How bad it can get is a theorem
  (7.7): three budgets pass in one window, where the two window algorithms let two pass.

More configurations end in a counterexample. They belong to the properties of
the runs above, under one assumption less, and show why it is there:

| configuration | property | what happens |
|---|---|---|
| `JobsChainLost` | `ChainGoesOn` | a crash between the completion of a run and the enqueue of the next one ends a recurring job for good |
| `SchedulerPileUp` | `NoPileUp` | two processes pass the guard before either enqueues |
| `SchedulerRunsTwice` | `RunsOnce` | the inline runner outlives its lease of 30 seconds beside a worker |
| `SchedulerRestart` | `StartTicks` | `start()` after `stop()` never ticks: the cron handles are stopped for good |
| `RequestUndecorated` | `EveryReplyDecorated` | the router answers halted guards and errors without the response stages, although `docs/router.md:78-79` promises plugins on every reply |
| `DataLayerRefuted` | `SingleFlightAfterClear` | the `finally` block of a load that `clear()` has forgotten takes the promise of the next load out of the map, and a third one starts |
| | `OneFetchPerKey` | a full batch that waits for its dispatch no longer deduplicates: the next load of its key asks again |
| | `FillsForgotten` | a factory of the response cache that throws at once leaves its rejected promise in the map: every later miss of the key is rejected with it |
| | `DeadCookieRefused` | a request that has read a session writes it back after another one has destroyed or rotated it; the old cookie works again |
| `TouchRevives` | `KeyValueSpec` | `touch()` of a key whose entry has expired, but has not been swept, brings its value back |
| `DevServerLeft` | `NoServerLeft` | a crash-restart timer that a rebuild does not clear starts a second server; `shutdown()` beside a `restart()` that awaits the old child leaves the new one running |
| `SseDisconnect` | `TornDown` | a generator that waits for its next event is not closed when the client leaves: `return()` is queued behind the pending step. `http/sse.ts:31-33` promises that it is torn down "so generators that own timers, polling loops or long-lived connections can release them" |

Some properties are stated in a module because a reader will look for them, and
are not kept by the code: `RunsEnd` (without a worker, nobody resumes a run whose
process died: `SchedulerTimely.cfg` with `HasWorker = FALSE` shows it), `CloseReachesAll` (a plugin whose `close` throws
synchronously ends the loop over the plugins, `lifecycle/plugin/registry.ts:66`;
the same of `init`, line 49), `StaysStopped` (an `onStart` that settles after
`stop()` opens the listener of a stopped application) and `UnsettledBounded`
(handlers of closed sockets go on, on purpose, beyond the cap that
`http/ws.ts:145` describes). `StrictFailsClosed` leaves out an `init()` that the
embedder called before `serve`, because `init()` then returns at once whatever
became of it.

Smaller observations made while reading:

* Two overlapping calls of `stop()` close every plugin twice.
* The attempts of a job count failures only; a job whose worker dies again and
  again is run again and again.
* The runs of a recurring job share one `createdAt`, and so may other jobs of one
  millisecond: the sort is stable, so of those the retention keeps the oldest.
  `NewestHistoryKept` says just this.
* The `finally` of a task deletes from `inFlight` and `owners` by job id: an older task
  can forget a newer one of the same job, whose lease is then not renewed any more.
* A task of a recurring job whose lease was released while it ran, because a renewal was
  late or its worker was stopping, re-enqueues when its handler is done, although
  `complete` refused its token (`platform/jobs-durable.ts:117-132`); so does the runner
  that took the job over, and the chain forks. `ChainUnique` excepts those chains
  (`stolen`).
* Observers are given the response before `applySet`, which may still change its status
  and headers or put a redirect in its place, while `lifecycle/run.ts:274-275` calls it
  "the finalized response" (`FinalizedSeen` states that and does not hold).
* A `stop()` of the embedder has no deadline of its own for stop hooks and requests:
  one that hangs hangs it. Only a signal's is bounded, by the forced exit.
* The store of the rate limiter drops the entry of a client when `storeMax` others came
  in: the client starts with a fresh budget.
* With any `onResponse` plugin, the composite hook always returns a response,
  which ends the `afterHandle` chain: in the application without a tracer the
  user's own `afterHandle` and `mapResponse` hooks after it do not run. With a
  tracer, and in the router, `mapResponse` does. The other way round, an
  `afterHandle` hook that is registered before the composite and answers keeps the
  plugins from running: `DecoratedOnceHolds` assumes that there is none.
* An error thrown in the response stages or in `applySet` gets an undecorated
  error reply, so that the stages do not run twice (`PostOnce`). When the `set`
  cannot be applied to that reply either, the promise of the application
  rejects.
* A guard that throws on a 404, a 405 or an OPTIONS request rejects too.
* While a `close` hook of a socket runs, the socket is still in the registry
  (`http/ws.ts:418-419`). `RegistryCurrent` is claimed of the idle event loop.
* A process that dies between INCR and PEXPIRE leaves a counter without an end;
  the comment at `data/store/redis-rate-limit.ts:94` speaks of a re-arm that is not
  in the code.
* `composePlugins` (`lifecycle/plugin/composition.ts:17-50`) ignores the `pattern`
  of its members, which `lifecycle/plugin/types.ts:24` describes as a scope.
* `debug/persist.ts:43` promises a "hard per-table row cap"; the pruning by rows
  (281-288) covers traces and logs, the samples beside them are pruned by age only.
## 6. Fairness

Weak fairness is stated for what the platform does by itself, and for nothing
that user code may leave undone unless it is said here.

* `DurableJobs!FairSpec`: `setInterval` keeps firing, awaited store operations
  answer, time passes, a supervisor restarts a dead worker, and handlers return or
  throw. The last one is a real assumption: a handler that hangs keeps its lease
  for ever, as its worker goes on to renew it, and its job never finishes.
* `Scheduler!FairSpec`: cron fires, operations and tasks answer, time passes,
  the worker releases expired leases, a process that came up is started.
* `AppLifecycle!FairSpec`: timers fire and promise reactions run. Hooks,
  plugins and requests have no fairness; a server without requests resolves its
  `stop`. `StopsEnd` says what hangs when they do.
* `JobQueue!FairSpec`: the timers of delays and retries fire, a task that is not
  stuck settles, and the poll and the deadline of `stop` come round. Tasks marked
  as stuck have no fairness: `QueueLives` says what goes on beside them.
* `DevServer!FairSpec`: the first build, the debounce timer, the builds and their
  marker writes, the timer that kills, and the exit of a process that was sent
  SIGKILL. A child may ignore SIGTERM.
* `ServerSentEvents!FairSpec`: the loop pulls, the poll of the drain and its grace
  period come round. The body of the generator and the consumer have no fairness.

`Loops` states the last three for the component that moves. Everything else is
safety, with no fairness.

## 7. The proofs

### 7.1 DurableJobs

`DurableJobsProofs` proves, for any number of jobs, workers, tokens, crashes,
faults and stops, any lease, retention and lag:

* `TypeCorrect`: `Spec => []TypeOK`;
* `LeaseOwnershipHolds`: `Spec => []LeaseOwnership`;
* `LifecycleRefined`: `Spec => LifecycleSpec`, the refinement of `JobLifecycle`;
* `HeldByOwnTaskHolds`: `Spec => []HeldByOwnTask`;
* `ConcurrencyBoundedHolds`: `Spec => []ConcurrencyBounded`.

The assumptions are those on the constants in `JobStore` and `DurableJobs`,
which TLC evaluates in every run.

The inductive invariant is `IInv == TypeOK /\ LeaseOwnership /\ FreshIds`.
`LeaseOwnership` alone is not inductive. It has four parts, and a step that
keeps one leans on others: that a record names the task which may finish it
(`SnapshotCurrent`) survives a claim only because the new token is not named by
another record (`OneJobPerToken`); that the attempts stay within the budget
(`AttemptsBounded`) survives a retry only because the snapshot by which the task
decides to retry agrees with the record. `FreshIds` (nothing at or above
`nextId` exists yet) is what makes an enqueue add a job instead of overwriting
one; the refinement needs it too, since otherwise a forgotten job could return.

The proof is in two halves. `Shape` is an action formula that says what any
step can do to each job (submit, take, release, retry, finish or prune it, or
leave it alone) and to each task (keep it, or create the one that a claim names).
The lemma `EveryStepHasShape` goes through the actions one by one, each by the
lemma on the store operation it performs (`CompleteEffect`, `ClaimEffect`, ...).
`OwnershipStep` and `LifecycleStep` then use nothing but `Shape`: every one of its
cases keeps `IInv`, and is a move of `JobLifecycle` or a stutter.

The last two theorems are about the memory of the workers and need no fact about
the store beyond `TypeOK`. `HeldByOwnTask` is inductive as it stands: the deletion
by job id can only remove the entry of the task that ends, since a token is held
under the job of its own task and nowhere else, and a claim mints only unused
tokens. `ConcurrencyBounded` is not: the capacity is computed one await before it is
used. Its strengthening `Room` says that the tasks of a worker fit under the cap
together with the capacity its tick carries to the claim, and that every one of them
has been launched unless the tick is about to launch it; without the second part
`running`, which counts launched tasks only, would be too small when the next
tick reads it. `Fits` is `Room` for one worker, and all steps but a release, a
claim, a launch and a crash keep it by `FitsStill`: no new tasks, no new room asked for.

The second half of the module is about retention, leases and chains:

* `NewestHistoryKeptHolds`: `Spec => NewestHistoryKept`, with no further assumption;
* `NeverStolenHolds`: `ASSUME Punctual PROVE Spec => []NeverStolen`;
* `ChainIntactHolds`: `Spec => []ChainIntact`, with no further assumption.

Retention is a statement about a step: what `persist` drops is older than all it
keeps. The proof shows of every action that it is one write followed by one
pruning (`Persisted`), and that the write changes the `createdAt` of no record
(`Descends`). Within one pruning the order is that of `createdAt`, and of the ids
where it is the same.

`Punctual` is: a started worker ticks at least every `MaxLag`, and a lease outlives two
such delays (the code renews at every poll, by default four times a second under a
lease of a minute). Workers may crash; the property itself speaks of the time before the
first store fault and the first `stop()`, after which renewals are lost. The invariant
`LInv` says of each task that is not about to requeue that it owns its record (`Owns`),
and that the time left on the lease, the time since the last heartbeat, and `MaxLag`
more if that heartbeat is still to be sent add up to a full lease: since the time
between heartbeats is bounded, the lease is positive whenever a claim looks at it. It is
carried under `Undisturbed`, which no step makes true again.

`ChainIntact` holds through crashes, faults, stops and late ticks, because it names the
two ways in which the code lets a chain end or fork: `going` loses a chain whose run
fails, or whose next run is not enqueued after a completion; `stolen` gains one whose
run was released under a living task. `Line` says of each chain that it has at most one
live record (`Seeds`) or task about to enqueue one (`Heirs`), never both, unless it is
stolen, and at least one while it is going; `Holders` that a task which may still
complete a run owns its record unless it was released. `JobsChainLost` shows the chain
that ends by a crash.

All of these theorems are about properties of the run `jobs_recurring`, which has
`MaxLag = 1` and `Lease = 2`.

### 7.2 WSHandler

`WSHandlerProofs` proves, for any finite sets of sockets and dispatches and any
cap: `TypeCorrect`, `CapHolds` (`LiveWorkBounded`), `CountersCorrect`
(`CountersExact`), `RefusalsJustified` (`RefusedOnlyAtCap`) and `RegistryHolds`
(`RegistryCurrent`).

The cap is a statement about the set of unsettled handlers of connected
sockets, which the code does not store. The invariant ties it to what the code
does store: `CountersExact` says that `inFlight` is the cardinality of that set,
and each entry of `slots` that of its part for one socket. The proof that a
close keeps it splits the set into the part of that socket and the rest. With it
come the shape of the state (`Types`, that the hook on the stack is the one
dispatch in phase `running`, and that dispatches in progress come from sockets
that have been opened) and `inFlight <= Cap`. That the counter never drops below
zero, against which the code guards with `Math.max`, is a consequence: the guard
is never needed. `RegistryExact` says of every moment what `RegistryCurrent`
says of an idle one: the registry is the connected sockets and those whose close
hooks are on the stack.


### 7.3 AppLifecycle

`AppLifecycleProofs` proves `TypeCorrect`, `StrictFailsClosedHolds`, `DrainedBeforeCloseHolds`
and `ExitZeroIsCleanHolds` for any plugins and requests. The
inductive invariant is `Types /\ BootOrder /\ BoundFirst /\ NothingServed /\ SignalClean`:
an `init()` that
has resolved has initialised every plugin, and a strict `serve` goes on only after
that, unless the embedder's own `init()` had not succeeded by then (`unseen`), the case
that the property leaves out because the code opens the listener early in it; listener, signal handlers and exit come with the one bind; only a listening
server has requests, and plugins are told to close without one; and when the `stop` of
the signal waits for `close`, the server has drained.

### 7.4 Scheduler

`SchedulerProofs` works with `Types /\ Owners /\ Starts`: a running record is owned by the
runner that is at work on it, or has ended and could not say so, and how often a run
has been started is bounded by the crashes, the ends that could not be written and by
what its record says (queued, running with a lease that has not
ended, or neither).
`RunsOnceHolds` assumes that tasks end within their lease (`~SlowTasks`), which is what
`SchedulerRunsTwice` lacks. `NoPileUpHolds` assumes one scheduler, which is what
`SchedulerPileUp` lacks; its invariant `FewLive` adds that between the guard and the enqueue of
the tick nobody else can add a run, and counts the guards that could not be asked. `EndedByRunnerHolds` assumes nothing: it is an
action property, and follows step by step from `Owners` and from what the store's
operations leave alone (`EndEffect`, `ClaimEffect`, ...).

### 7.5 RequestPipeline

`RequestPipelineProofs` holds for every list of hooks in every stage of each of the five
ways. It assumes that a hook has one place (`PipelineAssumption`: no hook in two of the
nine stages, and none with the name of a marker).

What is ahead of a request is a list of steps. `Types` says that the list is `Proper`:
its steps are ordered by rank (guards and validation, handler, error, the response
stages, observers, apply), and a hook that is ahead is ahead once and in a step of
its kind. The theorems then each add what the list means:

* `HandlerGatedHolds`: while the handler is ahead, every guard has passed or is ahead
  of it (`Gated`).
* `DecoratedOnceHolds`: a response hook that ran is in no step ahead (`OnceInv`), and the
  plugins ran, or need not run, or a step that begins with them is ahead (`DecInv`). The
  second half assumes `PluginsFirst`: an `afterHandle` hook before the composite that
  answers would skip it.
* `SetKeptHolds`: the contexts hold nothing that was not written; until something
  fails the context of the chain holds all that was written (`Carried`); and what the guards
  wrote stays in both contexts once the handler was called (`Keeping`).
* `ReplyRightHolds`: a request that failed has only steps from the error step on ahead
  (`Marked`), so what was drafted before is superseded, and the observers, who
  come after the response stages, are shown what `applySet` is then applied to: what
  leaves is `Body` of what they saw.

### 7.6 The caches

`CachesProofs` and `StoresProofs` are about `DataLayer`, the specification that the run
`data_layer` checks: a step of `DataLayer` is a step of one component or leaves it alone
(`LruMoves`, `HttpMoves`, ...), so that the invariant of each component is carried over
by temporal logic alone. They assume `DataLayerAssumption`, the conjunction of the
components' assumptions, and nothing else, for any clients, keys, stores, times and bounds.

`LRUCache`: `SingleFlightHolds` and `NeverOlderHolds` (as long as nobody but `getOrSet()`
touches the cache) and `WaitersCarriedHolds` (even then). The invariant `LruIInv` adds to them
that the promise in the map belongs to a flight under way, and that a flight has read a
version no older than any that was written.

`HttpCache`: `OneFlightHolds`, `CloneBeforeReadHolds`, `BypassIsolatedHolds`, `HitsAllowedHolds`.
There are two kinds of state. Between two events (`Idle`) the one fill there may be is in the
map, its maker waits on it, and nobody has read its response (`FillInMap`); or the map
holds the rejected promise of a factory that threw at once, and no fill is made again. While the
microtasks of a settled fill run, that fill has left the map, and `Handing` says what the
list of reactions looks like: one for each client that waits, no clone after a hand-over,
and nothing read before only hand-overs are left. `CloneBeforeRead` follows from `Handing`,
and `OneFlight` needs the first kind as well, since the next fill starts there. `Aside` says
that the response of a bypass is in nobody's hands but its own: not in the store, not in
what a delayed read has seen, not in an answer. `HitsAllowed` is a property of the step in
which a request is answered; it is judged by the clock of that step and not by the clock
of the read.

### 7.7 The rate limiter

* `BurstBoundedHolds`: between two evictions of the entry no stretch of one window sees more than twice the budget pass the
  limiter of one process, three times with the token bucket, for every budget, every window
  and every set of arrivals.
* `AtomicExactHolds`: one life of the Redis counter lets no more than the budget pass.
* `FixedWindowKeptHolds`: forgetting the entry of a fixed window when it ends changes nothing.

For the window algorithms `WindowKept` counts what has passed since the window began, and
in the one before. The sliding window never has a count of the previous window, because
its entry is stored until the end of the current one: this is why its bound is that of the
fixed window.

The token bucket is the difficult one. Twice the budget, which one would expect of a full
bucket and one window of refill, is false: the entry expires before its tokens are back,
and the next request finds a full bucket. The first attempt to prove it failed at just
this step, and TLC agrees: with a budget of three in a window of three, seven requests pass
within one window, two at each of its first two moments, whose entry is forgotten before
the next, and three at the last. `BucketKept` counts in units of 1/`Window`: what has passed since
`t` is paid for by one token, by what has flowed in since `t` counted twice, and by what
the bucket is missing now; and the moment at which the entry is forgotten lies late enough
for the same sum to hold there without the last part. Over one window the sum is the
three budgets of the theorem, and no more than a little arithmetic (`Flown`) is needed
to see it.

`CounterKept` speaks of the generations of the counter. Whoever has passed in a generation,
or is between its INCR and its PEXPIRE, has a claim on it (`Claimed`), and the count of
the last generation is never below the number of its claims. That a generation does not end
while somebody is about to set its life time keeps a late PEXPIRE from ending another
one. A crash between the two commands gives its claim up, and only the end of the counter is lost.

### 7.8 The dataloader

`LoadsCarriedHolds`, `BatchesBoundedHolds` and `NoStaleJoinHolds` rest on
`TypeOK /\ OneGrows /\ Joined /\ Recent`: only the last batch can grow (in particular a key
is never added to one that has been dispatched), a load that waits is a subscriber in
one place of one batch, under its own key, and what a batch has read is no older than the
call of any of its subscribers.

### 7.9 Sessions and stores

`BuriedForGoodHolds`, `UpdateKeepsChangesHolds` and `CookieAfterRowHolds` are about the chain
of mutations of the session store. `SessionIInv` says that an awaited mutation has one caller
that awaits nothing else (`OneAwaited`), that every mutation is about an id that was given
out (`AllProper`), and that the write of an update is at the head of the chain and holds all
that the row does (`WriteFirst`).
`BuriedForGood` follows from a step: an id is gone when it has no row, no request has an
object of it and nothing in the chain would write it; only a request that finds a row, or
has an object, could change that, and a fresh id is one that was never given out.

`LossBoundedHolds`, `CapKeptHolds` and `KeyValueSpecHolds` hold for the memory driver, the
file driver and the coalescing one. `FilesKept` says that the map and the file each have
one entry for a key and no more than the cap; `WriteDue` that while the file is behind, and
no write was refused, a write is due no later than a window after it fell behind: a window
that has begun is never put off. `KeyValueSpecHolds` maps every step of the driver to a
step of the contract `KeyValue` or to none, under `~TouchesDead`; the configuration
`TouchRevives` shows that the condition is needed. Evictions keep the order of the others:
the lemmas about `Only` (`Ranks`, ...) say that it takes each place once, in order.

### 7.10 The loops

`LoopsProofs` is about `Loops`, the specification of the run `loops`, in the same way.

* `PoolSpecHolds`: the job queue implements `WorkPool`. `ShiftedFits` shows that `drain()`
  finds a place to stop, and starts no more runs than there are free slots and as many if
  any are left over; `DrainKeeps` draws from it that the slots stay within
  the concurrency, and `NoIdleSlotHolds` that none is idle while a run waits.
* `QueueExactHolds`: `InOrder` adds that the runs of a job become queued in their order, so
  that a new one goes behind the others.
* `CancelFinalHolds`: a cancelled handle has no timer (`HandlesOk`), so none can fire.
* `OneServerHolds`: as long as the build has not crossed a crash timer, every running server is
  the child that the loop knows, a crash timer is armed only without a child, and whoever awaits
  an exit awaits the child's (`DevIInv`). It excludes the two situations of section 5, as the
  property does.
* `BacklogBoundedHolds`: the loop pulls only when nothing is queued or it is about to
  end (`Backlog`).


## 8. What is only model-checked

* Liveness: `JobsFinish`, `ScheduleLives`, `StopsEnd`, `QueueLives`, `LoopLives`,
  `Released`. Temporal reasoning under fairness is out of the prover's reach.
* The properties that the code does not keep, each by its configuration in section 5.

Temporal reasoning under fairness and induction over data are what the prover cannot do
here. No module with a theorem has a recursive operator: what a loop of the code takes from
a sequence is told by the ranks of its places (`Subsequence`), or by how far it gets
(`Shifted` of `JobQueue`).

## 9. What is not modelled

Within the modelled parts:

* `DurableJobs`: the approximate `pending` gauge, pruning by age, callers
  without an owner token, driver factories, interleaved writes of two processes
  to the store's single key.
* `Scheduler`: cron arithmetic and time zones; a tick that overtakes the tick
  before it in one process.
* `AppLifecycle`: TLS, limits and the other options handed to the server.
* `RequestPipeline`: the mutations that error hooks and observers make of `set`,
  the compiled server's fused chains, route matching.
* `WSHandler`: the upgrade, transport limits, the typed client.
* `RateLimit`: which keys are used when, and so which entry the store evicts (an eviction
  may come at any time); the native limiter, stores that answer with promises and have no
  `incr`, keys and headers.
* `LRUCache`: the accounting of sizes; an eviction is a step that may come at any
  time. `HttpCache`: the conversions between responses and entries, and the headers
  of the browser cache.
* `DataLoader`: cache maps supplied by the caller.
* `Sessions`: sessions kept in the cookie, signatures.
* `FileStore`: a time to live that is not positive (`data/store/types.ts:49`), with which an
  entry is dead at once; the Redis and SQLite drivers, which hand every call to a service, and
  the manager that memoises drivers.
* `JobQueue`: the body of a task that goes on after its timeout; nothing cancels
  it, and the pool has given up its slot.
* `DevServer`: port conflicts, `--no-spawn`, `--open`, and the marker of a failed build.
* `ServerSentEvents`: the text of the chunks.

Components without a module:

* the plugin bridge and the fused chains, and the recorder of the debug tools, are
  stateful and are next in the plan;
* request and response primitives, the security plugins, errors, configuration and
  logging are functions of one request;
* the compiler, the SDK and OpenAPI generators, the command line and the scaffolding
  run once over their input and print a result. They are most of the repository's
  lines, which is why the map covers so small a share of them;
* native acceleration replaces functions by faster ones behind a foreign interface;
* content, mail, notifications and the RPC kit are thin layers over outside services.

## 10. The plan

In the order of how much there is to go wrong:

1. `PluginChains`: the composite hook of the bridge and the fused chains as two
   implementations of one specification, an asynchronous hook among synchronous ones
   (`lifecycle/plugin/lifecycle-bridge.ts:78`, `lifecycle/fused.ts`), and the composite
   in the place of the single hook `Plugins` of `RequestPipeline`.
2. `Recorder`: the queue of the debug store, whose `flush` takes rows off before the
   transaction that may fail (`debug/persist.ts:152`).
3. `RateLimit`: the native limiter, and stores that answer with promises.
4. The fingerprint cache of the compiler, the one part of it that has a memory.

Theorems to prove next: that `TokenBudget` holds if the life
time of the stored bucket is computed from the tokens that are left, which would show what
a fix has to do; and for each condition in section 5 under which a property fails
(`clear()` beside `getOrSet()`, a crash timer beside a rebuild) what does hold without it.

## 11. How to run everything

In this directory, with TLC, the community modules and TLAPS installed:

    tlc -workers 2 -config Jobs.cfg MCDurableJobs
    tlc -workers 2 -config SchedulerTimely.cfg MCScheduler
    tlc -workers 2 -config AppLifecycle.cfg AppLifecycle
    tlc -workers 2 -config RequestPipeline.cfg MCRequestPipeline
    tlc -workers 2 -config WSHandler.cfg MCWSHandler
    tlc -workers 2 -config DataLayer.cfg MCDataLayer
    tlc -workers 2 -config Loops.cfg MCLoops
    tlapm DurableJobsProofs.tla

Configurations that start with `Jobs` belong to `MCDurableJobs`, with `Scheduler` to
`MCScheduler`, with `Request` to `MCRequestPipeline`; `DataLayer...`, `TokenBudget` and
`TouchRevives` to `MCDataLayer`; `Loops`, `DevServerLeft` and `SseDisconnect` to `MCLoops`. `Jobs`,
`DataLayer` and `Loops` take a minute or two, the others less. `DataLayerRefuted` is run with `-continue`,
so that TLC goes on to all four of its violations. Each `...Proofs.tla` is checked with `tlapm`;
`CachesProofs` and `DurableJobsProofs` take about five minutes, `StoresProofs` and
`RequestPipelineProofs` two to four, the others a minute or less.
