------------------------------- MODULE JobQueue -------------------------------
(***************************************************************************)
(* The in-process job queue, packages/core/src/platform/jobs.ts: immediate, *)
(* delayed and repeating jobs, the concurrency limit, cancellation, the     *)
(* withRetry(withTimeout(task)) wrappers, and stop() with its deadline.     *)
(*                                                                          *)
(* One JavaScript thread runs it, so an action is what happens between two  *)
(* returns to the event loop.  A job is the handle a caller holds; a run is *)
(* one execution of its task.                                               *)
(***************************************************************************)
EXTENDS FiniteSets, Naturals, Sequences

CONSTANTS Jobs,         \* handles callers obtain from enqueue, schedule, once or every
          MaxRuns,      \* bound: executions of one repeating job
          Concurrency,  \* JobQueueOptions.concurrency
          Retries,      \* retries of withRetry
          Stuck         \* runs whose task may never settle: no timeout, lost promise

\* What the constants must be.
QueueAssumption ==
    /\ MaxRuns \in Nat \ {0}
    /\ Concurrency \in Nat \ {0}
    /\ Retries \in Nat
    /\ IsFiniteSet(Jobs) /\ Stuck \subseteq Jobs \X (1 .. MaxRuns)

VARIABLES kind,       \* kind[j]: the call that made the handle, or "unused"
          timer,      \* timer[j]: the timer of j in the set timers, or "none"
          cancelled,  \* cancelled[j]: cancel() of the handle was called
          queue,      \* the queued runs, oldest first
          phase,      \* phase[r]: "working" and "backoff" hold a slot
          failed,     \* failed[r]: attempts of run r that have failed
          stop        \* "no", "called" while stop() waits, "resolved"

vars == <<kind, timer, cancelled, queue, phase, failed, stop>>

Runs == Jobs \X (1 .. MaxRuns)
Kinds == {"unused", "enqueue", "once", "repeat", "every"}
Phases == {"new", "queued", "working", "backoff", "ended", "dropped"}

\* Mutant: a run that sleeps between two attempts gives its slot away.
ActiveNotBackoff(ph) == {r \in Runs : ph[r] = "working"}
Active(ph) == {r \in Runs : ph[r] \in {"working", "backoff"}}
Stopped == stop # "no"

TypeOK ==
    /\ kind \in [Jobs -> Kinds]
    /\ timer \in [Jobs -> {"none", "delay", "interval"}]
    /\ cancelled \in [Jobs -> BOOLEAN]
    /\ queue \in Seq(Runs)
    /\ phase \in [Runs -> Phases]
    /\ failed \in [Runs -> 0 .. Retries + 1]
    /\ stop \in {"no", "called", "resolved"}

Init ==
    /\ kind = [j \in Jobs |-> "unused"]
    /\ timer = [j \in Jobs |-> "none"]
    /\ cancelled = [j \in Jobs |-> FALSE]
    /\ queue = <<>>
    /\ phase = [r \in Runs |-> "new"]
    /\ failed = [r \in Runs |-> 0]
    /\ stop = "no"

-------------------------------------------------------------------------------
\* drain(): from the head of the queue, skip the cancelled items and start the
\* others while a slot is free.  Only the item of enqueue() can be cancelled:
\* the handle of a run that a timer queued is thrown away.
Skipped(r) == kind[r[1]] = "enqueue" /\ cancelled[r[1]]

\* How much of q drain() shifts off when free slots are left: all of it if they
\* last, else up to the item that takes the last one.
Shifted(q, free) ==
    LET Starting(n) == {i \in 1 .. n : ~Skipped(q[i])}
    IN  CHOOSE n \in 0 .. Len(q) :
            /\ Cardinality(Starting(n)) <= free
            /\ \/ n = Len(q)
               \/ Cardinality(Starting(n)) = free /\ (n = 0 \/ n \in Starting(n))

Drain(q, ph) ==
    IF Stopped
    THEN queue' = q /\ phase' = ph
    ELSE LET n == Shifted(q, Concurrency - Cardinality(Active(ph)))
             taken == {q[i] : i \in 1 .. n}
         IN  /\ queue' = SubSeq(q, n + 1, Len(q))
             /\ phase' = [r \in Runs |->
                    IF r \notin taken THEN ph[r]
                    ELSE IF Skipped(r) THEN "dropped" ELSE "working"]

\* runUnchecked(): append the next run of j and drain.
Fresh(j) == {n \in 1 .. MaxRuns : phase[<<j, n>>] = "new"}
RunUnchecked(j) ==
    /\ Fresh(j) # {}
    /\ LET r == <<j, CHOOSE n \in Fresh(j) : \A m \in Fresh(j) : n <= m>>
       IN  Drain(Append(queue, r), [phase EXCEPT ![r] = "queued"])

-------------------------------------------------------------------------------
\* enqueue(), schedule(), once() and every() throw once the queue is stopped.
Enqueue(j) ==
    /\ kind[j] = "unused" /\ ~Stopped
    /\ kind' = [kind EXCEPT ![j] = "enqueue"]
    /\ RunUnchecked(j)
    /\ UNCHANGED <<timer, cancelled, failed, stop>>

\* A schedule() with an interval is a "repeat".
Schedule(j, k) ==
    /\ kind[j] = "unused" /\ ~Stopped
    /\ kind' = [kind EXCEPT ![j] = k]
    /\ timer' = [timer EXCEPT ![j] = IF k = "every" THEN "interval" ELSE "delay"]
    /\ UNCHANGED <<cancelled, queue, phase, failed, stop>>

\* The delay of schedule() is over: the interval is set up before the first run.
DelayOver(j) ==
    /\ timer[j] = "delay"
    /\ timer' = [timer EXCEPT ![j] = IF kind[j] = "repeat" THEN "interval" ELSE "none"]
    /\ RunUnchecked(j)
    /\ UNCHANGED <<kind, cancelled, failed, stop>>

Tick(j) ==
    /\ timer[j] = "interval"
    /\ RunUnchecked(j)
    /\ UNCHANGED <<kind, timer, cancelled, failed, stop>>

\* Mutant: only the timer of the delay is cleared.
CancelKeepsInterval(j) ==
    /\ kind[j] # "unused" /\ ~cancelled[j]
    /\ cancelled' = [cancelled EXCEPT ![j] = TRUE]
    /\ timer' = [timer EXCEPT ![j] = IF @ = "interval" THEN @ ELSE "none"]
    /\ UNCHANGED <<kind, queue, phase, failed, stop>>

\* cancel() clears the timers of the handle, or marks the queued item; it takes
\* no run back that a timer has already queued.
Cancel(j) ==
    /\ kind[j] # "unused" /\ ~cancelled[j]
    /\ cancelled' = [cancelled EXCEPT ![j] = TRUE]
    /\ timer' = [timer EXCEPT ![j] = "none"]
    /\ UNCHANGED <<kind, queue, phase, failed, stop>>

-------------------------------------------------------------------------------
\* Mutant: nobody drains the queue.
ReleaseNoDrain(r) == phase' = [phase EXCEPT ![r] = "ended"] /\ UNCHANGED queue
\* The slot of r is given back in the finally block, and drain() runs again.
Release(r) == Drain(queue, [phase EXCEPT ![r] = "ended"])

\* The body settles well.
Succeed(r) ==
    /\ phase[r] = "working"
    /\ Release(r)
    /\ UNCHANGED <<kind, timer, cancelled, failed, stop>>

\* The attempt fails: withRetry sleeps and tries again inside the same slot, or
\* gives up and the queue reports the error.
AttemptFails(r) ==
    /\ failed' = [failed EXCEPT ![r] = @ + 1]
    /\ IF failed[r] < Retries
       THEN phase' = [phase EXCEPT ![r] = "backoff"] /\ UNCHANGED queue
       ELSE Release(r)

\* The body throws, or withTimeout gives the attempt up: its signal is aborted,
\* and a body that does not listen to it runs on outside every slot.
Fail(r) ==
    /\ phase[r] = "working"
    /\ AttemptFails(r)
    /\ UNCHANGED <<kind, timer, cancelled, stop>>

\* The backoff is over; it does not look at stopped.
Retry(r) ==
    /\ phase[r] = "backoff"
    /\ phase' = [phase EXCEPT ![r] = "working"]
    /\ UNCHANGED <<kind, timer, cancelled, queue, failed, stop>>

-------------------------------------------------------------------------------
\* stop(): no timer, no queue; then a poll until nothing is active.
Stop ==
    /\ stop = "no"
    /\ stop' = IF Active(phase) = {} THEN "resolved" ELSE "called"
    /\ timer' = [j \in Jobs |-> "none"]
    /\ queue' = <<>>
    /\ phase' = [r \in Runs |-> IF phase[r] = "queued" THEN "dropped" ELSE phase[r]]
    /\ UNCHANGED <<kind, cancelled, failed>>

StopDrained ==
    /\ stop = "called" /\ Active(phase) = {}
    /\ stop' = "resolved"
    /\ UNCHANGED <<kind, timer, cancelled, queue, phase, failed>>

StopGivesUp ==
    /\ stop = "called" /\ Active(phase) # {}
    /\ stop' = "resolved"
    /\ UNCHANGED <<kind, timer, cancelled, queue, phase, failed>>

Next ==
    \/ \E j \in Jobs :
        \/ Enqueue(j) \/ DelayOver(j) \/ Tick(j) \/ Cancel(j)
        \/ \E k \in {"once", "repeat", "every"} : Schedule(j, k)
    \/ \E r \in Runs : Succeed(r) \/ Fail(r) \/ Retry(r)
    \/ Stop \/ StopDrained \/ StopGivesUp

Spec == Init /\ [][Next]_vars

\* Timers fire and a task that is not stuck settles, in time or by its timeout.
FairSpec ==
    /\ Spec
    /\ \A j \in Jobs : WF_vars(DelayOver(j))
    /\ \A r \in Runs : /\ WF_vars(Retry(r))
                       /\ r \notin Stuck => WF_vars(Succeed(r) \/ Fail(r))
    /\ WF_vars(StopDrained \/ StopGivesUp)

-------------------------------------------------------------------------------
\* No slot is idle while a run waits: every path that frees a slot, queues a run
\* or passes over a cancelled one drains the queue.
NoIdleSlot ==
    ~Stopped /\ queue # <<>> => Cardinality(Active(phase)) = Concurrency

\* The queue and the phases tell the same story: each queued run is in the queue
\* exactly once, runs of one job start in the order they were queued, and after
\* stop() nothing is left that could still start one.
QueueExact ==
    /\ \A r \in Runs : (phase[r] = "queued") <=> (\E i \in 1 .. Len(queue) : queue[i] = r)
    /\ \A a, b \in 1 .. Len(queue) :
        a < b => queue[a] # queue[b] /\ (queue[a][1] = queue[b][1] => queue[a][2] < queue[b][2])
    /\ Stopped => queue = <<>> /\ \A j \in Jobs : timer[j] = "none"

\* cancel() is final for the timers: after it no new run of the job is queued,
\* whichever timer was about to fire.
CancelFinal ==
    [][\A j \in Jobs : cancelled[j] =>
        \A n \in 1 .. MaxRuns : phase[<<j, n>>] = "new" => phase'[<<j, n>>] = "new"]_vars

\* The queue is a bounded pool that closes: refinement of WorkPool.
Pool == INSTANCE WorkPool WITH
    Slots <- Concurrency,
    closed <- Stopped,
    phase <- [r \in Runs |-> CASE phase[r] = "queued" -> "waiting"
                               [] phase[r] \in {"working", "backoff"} -> "running"
                               [] OTHER -> phase[r]]
PoolSpec == Pool!Spec

\* Under fair timers and tasks that settle, stop() resolves even if a task never
\* does (its deadline), and the queue empties again and again: every accepted run
\* is started, cancelled or dropped by stop(), unless stuck tasks can hold every slot.
QueueLives ==
    /\ (stop = "called") ~> (stop = "resolved")
    /\ (queue # <<>> /\ Cardinality(Stuck) < Concurrency) ~> (queue = <<>>)
===============================================================================
