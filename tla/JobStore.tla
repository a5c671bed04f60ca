------------------------------ MODULE JobStore ------------------------------
(***************************************************************************)
(* The durable job store of packages/core/src/platform/jobs-store.ts: one  *)
(* map from job id to job record, kept under a single key of a Store       *)
(* driver.  Every operation here is one committed read-modify-write of     *)
(* that map, a function from the map it read to the map it persists.       *)
(*                                                                         *)
(* Time is relative: a record holds how far away its runAt and leaseUntil  *)
(* are (negative once they are past), so the model needs no clock and no   *)
(* horizon.  An operation that the code calls with a `now' read some time  *)
(* ago gets the age of that reading.                                       *)
(***************************************************************************)
EXTENDS Integers, FiniteSets

CONSTANTS MaxJobs,      \* bound: how many ids newJobId may hand out
          Tokens,       \* what randomToken(12) may return as a leaseOwner
          NoToken,      \* leaseOwner deleted
          NoJob,        \* the id is not a key of the map
          Specs,        \* the kinds of job that clients enqueue
          MaxCompleted, \* retention.maxCompleted
          MaxLag,       \* bound: how old a `now' may be when it is used
          Instants      \* what Date.now() may read for a createdAt

JobIds == 1 .. MaxJobs
Status == {"queued", "running", "completed", "failed"}

(* spec stands for the fields that never change after enqueue: recurring   *)
(* (intervalMs # null), handled (a handler has the job's name) and         *)
(* maxAttempts.  created is createdAt, the reading of a clock: jobs of one  *)
(* millisecond share it, and the clocks of two processes need not agree.    *)
(* payload, which every run of a recurring job copies, tells its chain from *)
(* the others: it is taken to be the id of the first run.                   *)
Job == [spec: Specs, status: Status, attempts: Nat, runIn: Int,
        leaseIn: Int, owner: Tokens \cup {NoToken}, created: Instants, payload: JobIds]

ASSUME MaxJobsAssumption == MaxJobs \in Nat
ASSUME MaxLagAssumption == MaxLag \in Nat
ASSUME MaxCompletedAssumption == MaxCompleted \in Nat
ASSUME InstantsAssumption == Instants \subseteq Nat
ASSUME TokensAssumption == IsFiniteSet(Tokens)
ASSUME NoTokenAssumption == NoToken \notin Tokens
ASSUME NoJobAssumption == NoJob \notin Job
ASSUME SpecsAssumption ==
  Specs \subseteq [recurring: BOOLEAN, handled: BOOLEAN, maxAttempts: Nat \ {0}]

-----------------------------------------------------------------------------
(* Views of a job map. *)

With(jobs, S) == {j \in JobIds : jobs[j] # NoJob /\ jobs[j].status \in S}
Finished(jobs) == With(jobs, {"completed", "failed"})
Live(jobs) == With(jobs, {"queued", "running"})

(* Mutant: the filter forgets the status. *)
PastRunAt(jobs, age) ==
  {j \in JobIds : jobs[j] # NoJob /\ jobs[j].runIn + age <= 0}

Due(jobs, age) == {j \in With(jobs, {"queued"}) : jobs[j].runIn + age <= 0}

(* Mutant: any caller that knows the id passes for the owner. *)
VerifyId(jobs, j, token) == jobs[j] # NoJob

(* verifyOwner: the token that a caller presents is still the lease owner. *)
VerifyOwner(jobs, j, token) == jobs[j] # NoJob /\ jobs[j].owner = token

-----------------------------------------------------------------------------
(* persist: retention runs before every write.  The finished jobs are      *)
(* sorted by descending createdAt; the sort is stable, so jobs of equal    *)
(* createdAt stay in the map's insertion order.                            *)

(* Mutant: ascending createdAt. *)
SortsBeforeAscending(jobs, a, b) ==
  \/ jobs[a].created < jobs[b].created
  \/ jobs[a].created = jobs[b].created /\ a < b

SortsBefore(jobs, a, b) ==
  \/ jobs[a].created > jobs[b].created
  \/ jobs[a].created = jobs[b].created /\ a < b

Pruned(jobs) ==
  {j \in Finished(jobs) :
     Cardinality({k \in Finished(jobs) : SortsBefore(jobs, k, j)}) >= MaxCompleted}

PruneFinished(jobs) ==
  [j \in JobIds |-> IF j \in Pruned(jobs) THEN NoJob ELSE jobs[j]]

Put(jobs, j, job) == PruneFinished([jobs EXCEPT ![j] = job])

-----------------------------------------------------------------------------
(* The mutations. *)

NewJob(spec, delay, created, payload) ==
  [spec |-> spec, status |-> "queued", attempts |-> 0, runIn |-> delay,
   leaseIn |-> 0, owner |-> NoToken, created |-> created, payload |-> payload]

(* The record of a job that is handed back or done: no lease, no owner. *)
Unleased(job, status, attempts, runIn) ==
  [spec |-> job.spec, status |-> status, attempts |-> attempts, runIn |-> runIn,
   leaseIn |-> 0, owner |-> NoToken, created |-> job.created, payload |-> job.payload]

Leased(job, lease, token) ==
  [spec |-> job.spec, status |-> "running", attempts |-> job.attempts,
   runIn |-> job.runIn, leaseIn |-> lease, owner |-> token, created |-> job.created,
   payload |-> job.payload]

(* What claim(limit) may pick: the first `limit' due jobs by runAt. *)
ClaimChoices(jobs, limit, age) ==
  LET due == Due(jobs, age)
  IN {S \in SUBSET due :
        /\ Cardinality(S) <= limit
        /\ Cardinality(S) < limit => S = due
        /\ \A a \in S, b \in due \ S : jobs[a].runIn <= jobs[b].runIn}

(* claim: token is the map from the picked jobs to their minted tokens. *)
ClaimJobs(jobs, token, lease) ==
  PruneFinished([j \in JobIds |->
    IF j \in DOMAIN token THEN Leased(jobs[j], lease, token[j]) ELSE jobs[j]])

CompleteJob(jobs, j, token) ==
  IF VerifyOwner(jobs, j, token)
    THEN Put(jobs, j, Unleased(jobs[j], "completed", jobs[j].attempts, jobs[j].runIn))
    ELSE jobs

(* fail with retryAt: the attempt is spent and the job goes back. *)
RetryJob(jobs, j, token, delay) ==
  IF VerifyOwner(jobs, j, token)
    THEN Put(jobs, j, Unleased(jobs[j], "queued", jobs[j].attempts + 1, delay))
    ELSE jobs

(* fail without retryAt. *)
GiveUpJob(jobs, j, token) ==
  IF VerifyOwner(jobs, j, token)
    THEN Put(jobs, j, Unleased(jobs[j], "failed", jobs[j].attempts + 1, jobs[j].runIn))
    ELSE jobs

HeartbeatJob(jobs, j, token, lease) ==
  IF VerifyOwner(jobs, j, token) /\ jobs[j].status = "running"
    THEN Put(jobs, j, [jobs[j] EXCEPT !.leaseIn = lease])
    ELSE jobs

(* Mutant: no lease ever expires. *)
ExpiredNever(jobs, age) == {}

Expired(jobs, age) ==
  {j \in With(jobs, {"running"}) : jobs[j].leaseIn + age < 0}

ReleaseExpired(jobs, age) ==
  IF Expired(jobs, age) = {} THEN jobs
  ELSE PruneFinished([j \in JobIds |->
         IF j \in Expired(jobs, age)
           THEN Unleased(jobs[j], "queued", jobs[j].attempts, jobs[j].runIn)
           ELSE jobs[j]])

-----------------------------------------------------------------------------
(* Date.now() moves on by one unit.  No operation tells apart a runAt more *)
(* than MaxLag in the past, or a lease expired for more than MaxLag + 1.   *)

AtLeast(floor, n) == IF n < floor THEN floor ELSE n

Aged(job) ==
  [spec |-> job.spec, status |-> job.status, attempts |-> job.attempts,
   runIn |-> AtLeast(-MaxLag, job.runIn - 1),
   leaseIn |-> IF job.status = "running"
                 THEN AtLeast(-(MaxLag + 1), job.leaseIn - 1) ELSE job.leaseIn,
   owner |-> job.owner, created |-> job.created, payload |-> job.payload]

Elapse(jobs) ==
  [j \in JobIds |-> IF jobs[j] = NoJob THEN NoJob ELSE Aged(jobs[j])]
=============================================================================
