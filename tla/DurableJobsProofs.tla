------------------------- MODULE DurableJobsProofs -------------------------
(***************************************************************************)
(* What TLAPS proves of DurableJobs for every number of jobs, workers and  *)
(* tokens, every lease, lag and retention: type correctness, the ownership *)
(* of leases, the refinement of JobLifecycle, what retention keeps, that    *)
(* the chain of a recurring job neither ends nor forks but in the named    *)
(* ways; and that a punctual worker that nobody stops keeps every job it   *)
(* runs.                                                                   *)
(***************************************************************************)
EXTENDS DurableJobs, FiniteSetTheorems, TLAPS

JobMap == [JobIds -> Job \cup {NoJob}]

(* How one entry of the job map may change from o to n. *)
Untouched(o, n) == /\ n # NoJob => o # NoJob
                   /\ n # NoJob => /\ n.spec = o.spec /\ n.status = o.status
                                   /\ n.attempts = o.attempts /\ n.owner = o.owner
                                   /\ n.created = o.created /\ n.payload = o.payload
                   /\ n = NoJob => o = NoJob \/ o.status \in {"completed", "failed"}
Moved(o, n, from, to, spent, owner) ==
  /\ o # NoJob /\ o.status \in from
  /\ n # NoJob /\ n.status = to /\ n.spec = o.spec
  /\ n.created = o.created /\ n.payload = o.payload
  /\ n.attempts = o.attempts + spent /\ n.owner = owner
Ended(o, n, to, spent) == n = NoJob \/ Moved(o, n, Status, to, spent, NoToken)

-----------------------------------------------------------------------------
(* Lemmas about the store's operations. *)

(* Pruning deletes finished jobs and touches no other. *)
LEMMA PruneEffect ==
  ASSUME NEW jm \in JobMap
  PROVE  /\ PruneFinished(jm) \in JobMap
         /\ \A j \in JobIds : \/ PruneFinished(jm)[j] = jm[j]
                              \/ /\ PruneFinished(jm)[j] = NoJob
                                 /\ jm[j] # NoJob
                                 /\ jm[j].status \in {"completed", "failed"}
BY DEF PruneFinished, JobMap, Pruned, Finished, With

(* Writing one record: the others stay or are pruned. *)
LEMMA PutEffect ==
  ASSUME NEW jm \in JobMap, NEW i \in JobIds, NEW r \in Job
  PROVE  /\ Put(jm, i, r) \in JobMap
         /\ \A j \in JobIds \ {i} : Untouched(jm[j], Put(jm, i, r)[j])
         /\ \/ Put(jm, i, r)[i] = r
            \/ Put(jm, i, r)[i] = NoJob /\ r.status \in {"completed", "failed"}
<1> DEFINE new == [jm EXCEPT ![i] = r]
<1>1. new \in JobMap
  BY DEF JobMap
<1>2. new[i] = r /\ \A j \in JobIds \ {i} : new[j] = jm[j]
  BY DEF JobMap
<1>3. Put(jm, i, r) = PruneFinished(new)
  BY DEF Put
<1> HIDE DEF new
<1> QED
  BY <1>1, <1>2, <1>3, PruneEffect DEF Untouched

(* A record that enqueue makes is a queued job with its attempts unspent. *)
LEMMA NewJobType ==
  ASSUME NEW spec \in Specs, NEW delay \in Int, NEW created \in Instants,
         NEW payload \in JobIds
  PROVE  /\ NewJob(spec, delay, created, payload) \in Job
         /\ NewJob(spec, delay, created, payload) # NoJob
BY NoJobAssumption DEF NewJob, Job, Status

LEMMA UnleasedType ==
  ASSUME NEW job \in Job, NEW status \in Status, NEW n \in Nat, NEW runIn \in Int
  PROVE  /\ Unleased(job, status, n, runIn) \in Job
         /\ Unleased(job, status, n, runIn) # NoJob
BY NoJobAssumption DEF Unleased, Job

LEMMA LeasedType ==
  ASSUME NEW job \in Job, NEW lease \in Int, NEW t \in Tokens
  PROVE  Leased(job, lease, t) \in Job /\ Leased(job, lease, t) # NoJob
BY NoJobAssumption DEF Leased, Job, Status

(* What writing an unleased record for the lease owner does to the map. *)
LEMMA UnleaseEffect ==
  ASSUME NEW jm \in JobMap, NEW i \in JobIds, NEW t \in Tokens,
         NEW status \in Status, NEW n \in {0, 1}, NEW runIn \in Int,
         VerifyOwner(jm, i, t)
  PROVE  LET new == Put(jm, i, Unleased(jm[i], status, jm[i].attempts + n, runIn))
         IN /\ new \in JobMap
            /\ \A j \in JobIds \ {i} : Untouched(jm[j], new[j])
            /\ \/ Moved(jm[i], new[i], Status, status, n, NoToken)
               \/ new[i] = NoJob /\ status \in {"completed", "failed"}
<1> DEFINE r == Unleased(jm[i], status, jm[i].attempts + n, runIn)
<1>1. jm[i] \in Job /\ jm[i] # NoJob
  BY DEF VerifyOwner, JobMap
<1>2. jm[i].attempts + n \in Nat /\ jm[i].status \in Status
  BY <1>1 DEF Job
<1>3. r \in Job /\ r # NoJob
  BY <1>1, <1>2, UnleasedType
<1>4. /\ r.status = status /\ r.spec = jm[i].spec
      /\ r.attempts = jm[i].attempts + n /\ r.owner = NoToken
      /\ r.created = jm[i].created /\ r.payload = jm[i].payload
  BY DEF Unleased
<1> HIDE DEF r
<1>5. Moved(jm[i], r, Status, status, n, NoToken)
  BY <1>1, <1>2, <1>3, <1>4 DEF Moved
<1> QED
  BY <1>3, <1>4, <1>5, PutEffect DEF r

(* complete: only by the owner, and the job is completed or pruned. *)
LEMMA CompleteEffect ==
  ASSUME NEW jm \in JobMap, NEW i \in JobIds, NEW t \in Tokens
  PROVE  LET new == CompleteJob(jm, i, t)
         IN /\ new \in JobMap
            /\ \A j \in JobIds :
                 \/ Untouched(jm[j], new[j])
                 \/ /\ j = i /\ VerifyOwner(jm, i, t)
                    /\ Ended(jm[j], new[j], "completed", 0)
<1>1. CASE VerifyOwner(jm, i, t)
  <2> DEFINE r == Unleased(jm[i], "completed", jm[i].attempts, jm[i].runIn)
  <2>1. jm[i].attempts \in Nat /\ jm[i].runIn \in Int
    BY <1>1 DEF VerifyOwner, JobMap, Job
  <2>2. r = Unleased(jm[i], "completed", jm[i].attempts + 0, jm[i].runIn)
    BY <2>1
  <2>3. CompleteJob(jm, i, t) = Put(jm, i, r)
    BY <1>1 DEF CompleteJob
  <2>4. "completed" \in Status /\ 0 \in {0, 1}
    BY DEF Status
  <2> HIDE DEF r
  <2> QED
    BY <1>1, <2>1, <2>2, <2>3, <2>4, UnleaseEffect DEF Ended
<1>2. CASE ~VerifyOwner(jm, i, t)
  BY <1>2 DEF CompleteJob, Untouched, JobMap
<1> QED
  BY <1>1, <1>2

(* fail with retryAt: only by the owner, and the job is queued again. *)
LEMMA RetryEffect ==
  ASSUME NEW jm \in JobMap, NEW i \in JobIds, NEW t \in Tokens, NEW delay \in Int
  PROVE  LET new == RetryJob(jm, i, t, delay)
         IN /\ new \in JobMap
            /\ \A j \in JobIds :
                 \/ Untouched(jm[j], new[j])
                 \/ /\ j = i /\ VerifyOwner(jm, i, t)
                    /\ Moved(jm[j], new[j], Status, "queued", 1, NoToken)
<1>1. CASE VerifyOwner(jm, i, t)
  BY <1>1, UnleaseEffect DEF RetryJob, Status
<1>2. CASE ~VerifyOwner(jm, i, t)
  BY <1>2 DEF RetryJob, Untouched, JobMap
<1> QED
  BY <1>1, <1>2

(* fail without retryAt: only by the owner, and the job is failed. *)
LEMMA GiveUpEffect ==
  ASSUME NEW jm \in JobMap, NEW i \in JobIds, NEW t \in Tokens
  PROVE  LET new == GiveUpJob(jm, i, t)
         IN /\ new \in JobMap
            /\ \A j \in JobIds :
                 \/ Untouched(jm[j], new[j])
                 \/ /\ j = i /\ VerifyOwner(jm, i, t)
                    /\ Ended(jm[j], new[j], "failed", 1)
<1>1. CASE VerifyOwner(jm, i, t)
  <2>1. jm[i].runIn \in Int
    BY <1>1 DEF VerifyOwner, JobMap, Job
  <2> QED
    BY <1>1, <2>1, UnleaseEffect DEF GiveUpJob, Status, Ended
<1>2. CASE ~VerifyOwner(jm, i, t)
  BY <1>2 DEF GiveUpJob, Untouched, JobMap
<1> QED
  BY <1>1, <1>2

(* heartbeat: a longer lease, and nothing else. *)
LEMMA HeartbeatEffect ==
  ASSUME NEW jm \in JobMap, NEW i \in JobIds, NEW t, NEW lease \in Int
  PROVE  LET new == HeartbeatJob(jm, i, t, lease)
         IN /\ new \in JobMap
            /\ \A j \in JobIds : Untouched(jm[j], new[j])
<1>1. CASE VerifyOwner(jm, i, t) /\ jm[i].status = "running"
  <2> DEFINE r == [jm[i] EXCEPT !.leaseIn = lease]
  <2>1. jm[i] \in Job /\ jm[i] # NoJob
    BY <1>1 DEF VerifyOwner, JobMap
  <2>2. r \in Job
    BY <2>1 DEF Job
  <2>3. /\ r.status = "running" /\ r.spec = jm[i].spec
        /\ r.attempts = jm[i].attempts /\ r.owner = jm[i].owner
        /\ r.created = jm[i].created /\ r.payload = jm[i].payload
    BY <1>1, <2>1 DEF Job
  <2>4. HeartbeatJob(jm, i, t, lease) = Put(jm, i, r)
    BY <1>1 DEF HeartbeatJob
  <2> HIDE DEF r
  <2> QED
    BY <1>1, <2>1, <2>2, <2>3, <2>4, PutEffect, NoJobAssumption DEF Untouched
<1>2. CASE ~(VerifyOwner(jm, i, t) /\ jm[i].status = "running")
  BY <1>2 DEF HeartbeatJob, Untouched, JobMap
<1> QED
  BY <1>1, <1>2

(* releaseExpired: running jobs are queued again, attempts unchanged. *)
LEMMA ReleaseEffect ==
  ASSUME NEW jm \in JobMap, NEW a \in Int
  PROVE  LET new == ReleaseExpired(jm, a)
         IN /\ new \in JobMap
            /\ \A j \in JobIds :
                 \/ Untouched(jm[j], new[j])
                 \/ Moved(jm[j], new[j], {"running"}, "queued", 0, NoToken)
<1>1. CASE Expired(jm, a) = {}
  BY <1>1 DEF ReleaseExpired, Untouched, JobMap
<1>2. CASE Expired(jm, a) # {}
  <2> DEFINE r(j) == Unleased(jm[j], "queued", jm[j].attempts, jm[j].runIn)
             mid == [j \in JobIds |-> IF j \in Expired(jm, a) THEN r(j) ELSE jm[j]]
  <2>1. ASSUME NEW j \in Expired(jm, a)
        PROVE  r(j) \in Job /\ Moved(jm[j], r(j), {"running"}, "queued", 0, NoToken)
    <3>1. j \in JobIds /\ jm[j] \in Job /\ jm[j] # NoJob /\ jm[j].status = "running"
      BY <2>1 DEF Expired, With, JobMap
    <3>2. jm[j].attempts \in Nat /\ jm[j].runIn \in Int /\ "queued" \in Status
      BY <3>1 DEF Job, Status
    <3>3. r(j) \in Job /\ r(j) # NoJob
      BY <3>1, <3>2, UnleasedType
    <3> QED
      BY <3>1, <3>2, <3>3 DEF Moved, Unleased
  <2>2. mid \in JobMap
    BY <2>1 DEF JobMap
  <2>3. ReleaseExpired(jm, a) = PruneFinished(mid)
    BY <1>2 DEF ReleaseExpired
  <2>4. ASSUME NEW j \in JobIds
        PROVE  \/ mid[j] = jm[j]
               \/ Moved(jm[j], mid[j], {"running"}, "queued", 0, NoToken)
    BY <2>1
  <2> HIDE DEF mid
  <2> QED
    BY <2>2, <2>3, <2>4, PruneEffect DEF Untouched, Moved
<1> QED
  BY <1>1, <1>2

(* claim: the picked jobs run under their minted tokens. *)
LEMMA ClaimEffect ==
  ASSUME NEW jm \in JobMap, NEW S \in SUBSET With(jm, {"queued"}),
         NEW token \in [S -> Tokens], NEW lease \in Int
  PROVE  LET new == ClaimJobs(jm, token, lease)
         IN /\ new \in JobMap
            /\ \A j \in JobIds \ S : Untouched(jm[j], new[j])
            /\ \A j \in S : Moved(jm[j], new[j], {"queued"}, "running", 0, token[j])
<1> DEFINE mid == [j \in JobIds |->
             IF j \in DOMAIN token THEN Leased(jm[j], lease, token[j]) ELSE jm[j]]
<1>1. ASSUME NEW j \in S
      PROVE  /\ Leased(jm[j], lease, token[j]) \in Job
             /\ Moved(jm[j], Leased(jm[j], lease, token[j]), {"queued"}, "running", 0, token[j])
  <2>1. j \in JobIds /\ jm[j] \in Job /\ jm[j] # NoJob /\ jm[j].status = "queued"
    BY <1>1 DEF With, JobMap
  <2>2. Leased(jm[j], lease, token[j]) \in Job /\ Leased(jm[j], lease, token[j]) # NoJob
    BY <2>1, LeasedType
  <2>3. jm[j].attempts \in Nat
    BY <2>1 DEF Job
  <2> QED
    BY <2>1, <2>2, <2>3 DEF Moved, Leased
<1>2. DOMAIN token = S /\ S \subseteq JobIds
  BY DEF With
<1>3. mid \in JobMap
  BY <1>1, <1>2 DEF JobMap
<1>4. /\ \A j \in JobIds \ S : mid[j] = jm[j]
      /\ \A j \in S : Moved(jm[j], mid[j], {"queued"}, "running", 0, token[j])
  BY <1>1, <1>2
<1>5. ClaimJobs(jm, token, lease) = PruneFinished(mid)
  BY DEF ClaimJobs
<1> HIDE DEF mid
<1> QED
  BY <1>2, <1>3, <1>4, <1>5, PruneEffect DEF Untouched, Moved

(* Time passes: no record changes but for its timers. *)
LEMMA ElapseEffect ==
  ASSUME NEW jm \in JobMap
  PROVE  /\ Elapse(jm) \in JobMap
         /\ \A j \in JobIds : Untouched(jm[j], Elapse(jm)[j])
<1>1. ASSUME NEW j \in JobIds, jm[j] # NoJob
      PROVE  /\ Aged(jm[j]) \in Job /\ Aged(jm[j]) # NoJob
             /\ Untouched(jm[j], Aged(jm[j]))
  <2>1. jm[j] \in Job
    BY <1>1 DEF JobMap
  <2>2. Aged(jm[j]) \in Job
    BY <2>1, MaxLagAssumption DEF Aged, Job, AtLeast
  <2> QED
    BY <1>1, <2>2, NoJobAssumption DEF Untouched, Aged
<1> QED
  BY <1>1 DEF Elapse, JobMap, Untouched
-----------------------------------------------------------------------------
(* Type correctness. *)

LEMMA BeginTickType ==
  ASSUME TypeOK, NEW w \in Workers, BeginTick(w)
  PROVE  /\ tick' \in [Workers -> [phase: TickPhase, todo: SUBSET JobIds, capacity: Nat]]
         /\ age' \in [Workers -> 0 .. MaxLag]
BY MaxLagAssumption DEF TypeOK, BeginTick, TickPhase, Idle, InFlight

LEMMA SettleType ==
  ASSUME TypeOK, NEW t \in Tokens, IsTask(t), Settle(t)
  PROVE  /\ task' \in [Tokens -> Task \cup {NoTask}]
         /\ held' \in [Workers -> [JobIds -> Tokens \cup {NoToken}]]
<1>1. task[t].worker \in Workers /\ task[t].job \in JobIds
  BY DEF TypeOK, IsTask, Task
<1> QED
  BY <1>1 DEF TypeOK, Settle

LEMMA GotoType ==
  ASSUME TypeOK, NEW t \in Tokens, IsTask(t), NEW phase \in TaskPhase, Goto(t, phase)
  PROVE  /\ task' \in [Tokens -> Task \cup {NoTask}]
         /\ held' \in [Workers -> [JobIds -> Tokens \cup {NoToken}]]
<1>1. task[t] \in Task
  BY DEF TypeOK, IsTask
<1>2. [task[t] EXCEPT !.phase = phase] \in Task
  BY <1>1 DEF Task
<1> QED
  BY <1>2 DEF TypeOK, Goto

LEMMA CountType ==
  ASSUME TypeOK, NEW kind \in {"crash", "fault", "stop"}, NEW bound, Count(kind, bound)
  PROVE  mishaps' \in [{"crash", "fault", "stop"} -> Nat]
BY DEF TypeOK, Count

LEMMA EnqueueNextType ==
  ASSUME TypeOK, NEW t \in Tokens, IsTask(t), EnqueueNext(t)
  PROVE  jobs' \in JobMap /\ nextId' \in 1 .. (MaxJobs + 1)
<1>1. task[t].spec \in Specs /\ task[t].created \in Instants /\ task[t].payload \in JobIds
  BY DEF TypeOK, IsTask, Task
<1>2. NewJob(task[t].spec, Interval, task[t].created, task[t].payload) \in Job
  BY <1>1, NewJobType, TimingAssumption
<1>3. jobs' \in JobMap
  BY <1>2, PutEffect DEF EnqueueNext, TypeOK, JobMap
<1>4. nextId' \in 1 .. (MaxJobs + 1)
  BY MaxJobsAssumption DEF EnqueueNext, JobIds
<1> QED
  BY <1>3, <1>4

(* A claim: some queued jobs run under distinct unused tokens, and each of *)
(* these tokens gets a task with the snapshot of its job.                  *)
ClaimTask(w, j) == [worker |-> w, job |-> j, spec |-> jobs[j].spec,
                    attempts |-> jobs[j].attempts, created |-> jobs[j].created,
                    payload |-> jobs[j].payload, phase |-> "claimed"]
Claims(w, S, token) ==
  /\ token \in [S -> FreeTokens]
  /\ \A a, b \in S : token[a] = token[b] => a = b
  /\ jobs' \in JobMap
  /\ \A j \in JobIds \ S : Untouched(jobs[j], jobs'[j])
  /\ \A j \in S : Moved(jobs[j], jobs'[j], {"queued"}, "running", 0, token[j])
  /\ \A t \in Tokens :
       \/ (\A j \in S : token[j] # t) /\ task'[t] = task[t]
       \/ \E j \in S : token[j] = t /\ task'[t] = ClaimTask(w, j)
  /\ task' = [t \in Tokens |-> task'[t]]
  /\ tick' \in [Workers -> [phase: TickPhase, todo: SUBSET JobIds, capacity: Nat]]

LEMMA ClaimDetails ==
  ASSUME TypeOK, NEW w \in Workers, Claim(w)
  PROVE  \E S \in SUBSET With(jobs, {"queued"}) : \E token : Claims(w, S, token)
<1>1. PICK S \in ClaimChoices(jobs, tick[w].capacity, age[w]) :
        /\ Mintings(S) # {}
        /\ LET token == CHOOSE f \in Mintings(S) : TRUE
           IN /\ jobs' = IF S = {} THEN jobs
                         ELSE ClaimJobs(jobs, token, Lease - age[w])
              /\ task' = [t \in Tokens |->
                   IF \E j \in S : token[j] = t
                     THEN LET j == CHOOSE j \in S : token[j] = t
                          IN [worker |-> w, job |-> j, spec |-> jobs[j].spec,
                              attempts |-> jobs[j].attempts,
                              created |-> jobs[j].created, payload |-> jobs[j].payload,
                              phase |-> "claimed"]
                     ELSE task[t]]
        /\ tick' = [tick EXCEPT ![w] =
                      IF S = {} THEN Idle
                      ELSE [phase |-> "launch", todo |-> {}, capacity |-> 0]]
  BY DEF Claim
<1> DEFINE token == CHOOSE f \in Mintings(S) : TRUE
<1>2. token \in Mintings(S)
  BY <1>1
<1>3. S \in SUBSET With(jobs, {"queued"})
  BY DEF ClaimChoices, Due
<1>4. token \in [S -> FreeTokens] /\ \A a, b \in S : token[a] = token[b] => a = b
  BY <1>2 DEF Mintings
<1>5. /\ jobs' = IF S = {} THEN jobs ELSE ClaimJobs(jobs, token, Lease - age[w])
      /\ task' = [t \in Tokens |->
           IF \E j \in S : token[j] = t
             THEN LET j == CHOOSE j \in S : token[j] = t
                  IN [worker |-> w, job |-> j, spec |-> jobs[j].spec,
                      attempts |-> jobs[j].attempts,
                      created |-> jobs[j].created, payload |-> jobs[j].payload,
                              phase |-> "claimed"]
             ELSE task[t]]
  BY <1>1
<1> HIDE DEF token
<1>6. ASSUME NEW t \in Tokens, \E j \in S : token[j] = t
      PROVE  \E j \in S : token[j] = t /\ task'[t] = ClaimTask(w, j)
  <2> DEFINE j == CHOOSE j \in S : token[j] = t
  <2>1. j \in S /\ token[j] = t
    BY <1>6
  <2> QED
    BY <1>5, <1>6, <2>1 DEF ClaimTask
<1>7. ASSUME NEW t \in Tokens, ~\E j \in S : token[j] = t
      PROVE  task'[t] = task[t]
  BY <1>5, <1>7
<1>8. /\ jobs' \in JobMap
      /\ \A j \in JobIds \ S : Untouched(jobs[j], jobs'[j])
      /\ \A j \in S : Moved(jobs[j], jobs'[j], {"queued"}, "running", 0, token[j])
  <2>1. jobs \in JobMap /\ Lease - age[w] \in Int
    BY TimingAssumption, MaxLagAssumption DEF TypeOK, JobMap
  <2>2. token \in [S -> Tokens]
    BY <1>4 DEF FreeTokens
  <2>3. CASE S = {}
    BY <1>5, <2>1, <2>3 DEF Untouched, JobMap
  <2>4. CASE S # {}
    BY <1>3, <1>5, <2>1, <2>2, <2>4, ClaimEffect
  <2> QED
    BY <2>3, <2>4
<1>9. tick' \in [Workers -> [phase: TickPhase, todo: SUBSET JobIds, capacity: Nat]]
  BY <1>1 DEF TypeOK, Idle, TickPhase
<1>10. task' = [t \in Tokens |-> task'[t]]
  BY <1>5
<1>11. Claims(w, S, token)
  BY <1>4, <1>6, <1>7, <1>8, <1>9, <1>10 DEF Claims
<1> QED
  BY <1>3, <1>11

(* The chains that a release takes from live tasks.                        *)
LEMMA LostType ==
  ASSUME TypeOK, NEW a
  PROVE  Lost(Expired(jobs, a)) \subseteq JobIds
<1>1. \A j \in Expired(jobs, a) : jobs[j] \in Job
  BY DEF Expired, With, TypeOK
<1> QED
  BY <1>1 DEF Lost, Job

LEMMA TypeInit == Init => TypeOK
BY MaxJobsAssumption, MaxLagAssumption
   DEF Init, TypeOK, JobIds, Idle, TickPhase, Mode

LEMMA TypeStep == TypeOK /\ [Next]_vars => TypeOK'
<1> SUFFICES ASSUME TypeOK, [Next]_vars PROVE TypeOK'
  OBVIOUS
<1> USE DEF JobMap
<1>1. ASSUME NEW spec \in Specs, NEW delay \in {0, Interval}, NEW now \in Instants,
             Enqueue(spec, delay, now)
      PROVE  TypeOK'
  <2>1. NewJob(spec, delay, now, nextId) \in Job
    BY <1>1, NewJobType, TimingAssumption DEF Enqueue
  <2>2. jobs' \in JobMap
    <3> DEFINE r == NewJob(spec, delay, now, nextId)
    <3>1. jobs \in JobMap /\ nextId \in JobIds /\ jobs' = Put(jobs, nextId, r)
      BY <1>1 DEF Enqueue, TypeOK
    <3> HIDE DEF r
    <3>2. Put(jobs, nextId, r) \in JobMap
      BY <2>1, <3>1, PutEffect DEF r
    <3> QED
      BY <3>1, <3>2
  <2>3. going' \in SUBSET JobIds
    BY <1>1 DEF Enqueue, TypeOK
  <2>4. nextId' \in 1 .. (MaxJobs + 1)
    BY <1>1, MaxJobsAssumption DEF Enqueue, JobIds
  <2> QED
    BY <1>1, <2>2, <2>3, <2>4 DEF Enqueue, TypeOK
<1>2. ASSUME NEW w \in Workers, PollFires(w)
      PROVE  TypeOK'
  BY <1>2, BeginTickType DEF PollFires, TypeOK
<1>3. ASSUME NEW w \in Workers, Renew(w)
      PROVE  TypeOK'
  <2>1. PICK j \in JobIds : jobs' = HeartbeatJob(jobs, j, held[w][j], Lease - age[w])
                            /\ tick' = [tick EXCEPT ![w].todo = @ \ {j}]
    BY <1>3 DEF Renew, ToRenew, InFlight
  <2>2. Lease - age[w] \in Int
    BY TimingAssumption, MaxLagAssumption DEF TypeOK
  <2>3. jobs' \in JobMap
    <3>1. jobs \in JobMap
      BY DEF TypeOK
    <3>2. HeartbeatJob(jobs, j, held[w][j], Lease - age[w]) \in JobMap
      BY <2>2, <3>1, HeartbeatEffect
    <3> QED
      BY <2>1, <3>2
  <2>4. tick' \in [Workers -> [phase: TickPhase, todo: SUBSET JobIds, capacity: Nat]]
    <3>1. /\ tick \in [Workers -> [phase: TickPhase, todo: SUBSET JobIds, capacity: Nat]]
          /\ tick' = [tick EXCEPT ![w].todo = @ \ {j}]
      BY <2>1 DEF TypeOK
    <3> QED
      BY <3>1
  <2>5. UNCHANGED <<nextId, task, held, age, mode, mishaps, going, stolen>>
    BY <1>3 DEF Renew
  <2> QED
    BY <2>3, <2>4, <2>5 DEF TypeOK
<1>4. ASSUME NEW w \in Workers, Release(w)
      PROVE  TypeOK'
  <2>1. IsFiniteSet(Running(w))
    BY TokensAssumption, FS_Subset DEF Running, TasksOf
  <2>2. AtLeast(0, Concurrency - Cardinality(Running(w))) \in Nat
    BY <2>1, FS_CardinalityType, TimingAssumption DEF AtLeast
  <2>3. tick' \in [Workers -> [phase: TickPhase, todo: SUBSET JobIds, capacity: Nat]]
    BY <1>4, <2>2 DEF Release, TypeOK, Idle, TickPhase
  <2>4. jobs' \in JobMap
    BY <1>4, ReleaseEffect, MaxLagAssumption DEF Release, TypeOK
  <2>5. stolen' \in SUBSET JobIds
    BY <1>4, LostType DEF Release, TypeOK
  <2> QED
    BY <1>4, <2>3, <2>4, <2>5 DEF Release, TypeOK
<1>5. ASSUME NEW w \in Workers, Claim(w)
      PROVE  TypeOK'
  <2>0. PICK S \in SUBSET With(jobs, {"queued"}) : \E token : Claims(w, S, token)
    BY <1>5, ClaimDetails
  <2>1. PICK token : Claims(w, S, token)
    BY <2>0
  <2>2. \A j \in S : j \in JobIds /\ jobs[j] \in Job
    BY DEF With, TypeOK
  <2>3. \A t \in Tokens : task'[t] \in Task \cup {NoTask}
    BY <2>1, <2>2 DEF Claims, ClaimTask, TypeOK, Task, TaskPhase, Job
  <2>4. task' \in [Tokens -> Task \cup {NoTask}]
    BY <2>1, <2>3 DEF Claims
  <2> QED
    BY <1>5, <2>1, <2>4 DEF Claims, Claim, TypeOK
<1>6. ASSUME NEW w \in Workers, Launch(w)
      PROVE  TypeOK'
  <2> DEFINE claimed == TasksOf(w) \ Running(w)
  <2>1. ASSUME NEW t \in claimed, NEW phase \in TaskPhase
        PROVE  [task[t] EXCEPT !.phase = phase] \in Task
    <3>1. task[t] \in Task
      BY DEF TasksOf, IsTask, TypeOK
    <3> QED
      BY <3>1 DEF Task
  <2>2. task' \in [Tokens -> Task \cup {NoTask}]
    BY <1>6, <2>1 DEF Launch, TypeOK, TaskPhase
  <2>3. ASSUME NEW j \in JobIds, \E t \in claimed : task[t].job = j
        PROVE  (CHOOSE t \in claimed : task[t].job = j) \in Tokens
    BY <2>3 DEF TasksOf
  <2>4. held' \in [Workers -> [JobIds -> Tokens \cup {NoToken}]]
    BY <1>6, <2>3 DEF Launch, TypeOK
  <2> QED
    BY <1>6, <2>2, <2>4 DEF Launch, TypeOK, Idle, TickPhase
<1>7. ASSUME NEW w \in Workers, TickFault(w)
      PROVE  TypeOK'
  BY <1>7, CountType DEF TickFault, TypeOK, Idle, TickPhase
<1>8. ASSUME NEW w \in Workers, Start(w)
      PROVE  TypeOK'
  <2>1. mode' \in [Workers -> Mode]
    BY <1>8 DEF Start, TypeOK, Mode
  <2>2. /\ tick' \in [Workers -> [phase: TickPhase, todo: SUBSET JobIds, capacity: Nat]]
        /\ age' \in [Workers -> 0 .. MaxLag]
    BY <1>8, BeginTickType DEF Start, TypeOK
  <2> QED
    BY <1>8, <2>1, <2>2 DEF Start, TypeOK
<1>9. ASSUME NEW w \in Workers, Stop(w)
      PROVE  TypeOK'
  BY <1>9, CountType DEF Stop, TypeOK, Mode
<1>10. ASSUME NEW w \in Workers, StopResolves(w)
      PROVE  TypeOK'
  BY <1>10 DEF StopResolves, TypeOK, Mode
<1>11. ASSUME NEW w \in Workers, Crash(w)
      PROVE  TypeOK'
  <2>1. going' \in SUBSET JobIds
    BY <1>11 DEF Crash, TypeOK
  <2> QED
    BY <1>11, <2>1, CountType, MaxLagAssumption DEF Crash, TypeOK, Mode, Idle, TickPhase
<1>12. ASSUME NEW w \in Workers, Restart(w)
      PROVE  TypeOK'
  BY <1>12 DEF Restart, TypeOK, Mode
<1>13. ASSUME NEW t \in Tokens, HandlerReturns(t)
      PROVE  TypeOK'
  BY <1>13, GotoType DEF HandlerReturns, InPhase, TaskPhase, TypeOK
<1>14. ASSUME NEW t \in Tokens, HandlerThrows(t)
      PROVE  TypeOK'
  BY <1>14, GotoType DEF HandlerThrows, InPhase, TaskPhase, TypeOK
<1>15. ASSUME NEW t \in Tokens, Complete(t)
      PROVE  TypeOK'
  <2>1. task[t].job \in JobIds
    BY <1>15 DEF Complete, InPhase, IsTask, TypeOK, Task
  <2>2. jobs' \in JobMap
    BY <1>15, <2>1, CompleteEffect DEF Complete, TypeOK
  <2> QED
    BY <1>15, <2>2, GotoType, SettleType DEF Complete, InPhase, TaskPhase, TypeOK
<1>16. ASSUME NEW t \in Tokens, Requeue(t)
      PROVE  TypeOK'
  BY <1>16, EnqueueNextType, SettleType DEF Requeue, InPhase, TypeOK
<1>17. ASSUME NEW t \in Tokens, Fail(t)
      PROVE  TypeOK'
  <2>1. IsTask(t) /\ task[t].job \in JobIds
    BY <1>17 DEF Fail, InPhase, IsTask, TypeOK, Task
  <2>2. backoffFor(task[t].attempts + 1) \in Int
    BY <2>1 DEF IsTask, TypeOK, Task, backoffFor
  <2>3. jobs \in JobMap
    BY DEF TypeOK
  <2>4. ASSUME Retries(t) PROVE jobs' \in JobMap
    BY <1>17, <2>1, <2>2, <2>3, <2>4, RetryEffect DEF Fail
  <2>5. ASSUME ~Retries(t) PROVE jobs' \in JobMap
    BY <1>17, <2>1, <2>3, <2>5, GiveUpEffect DEF Fail
  <2>6. jobs' \in JobMap
    BY <2>4, <2>5
  <2>7. going' \in SUBSET JobIds
    BY <1>17 DEF Fail, TypeOK
  <2> QED
    BY <1>17, <2>1, <2>6, <2>7, SettleType DEF Fail, TypeOK
<1>18. ASSUME NEW t \in Tokens, BookkeepingFault(t)
      PROVE  TypeOK'
  <2>1. going' \in SUBSET JobIds
    BY <1>18 DEF BookkeepingFault, TypeOK
  <2> QED
    BY <1>18, <2>1, GotoType, CountType DEF BookkeepingFault, InPhase, TaskPhase, TypeOK
<1>19. ASSUME NEW t \in Tokens, OnCompleteThrows(t)
      PROVE  TypeOK'
  <2>1. task[t].job \in JobIds /\ IsTask(t)
    BY <1>19 DEF OnCompleteThrows, InPhase, IsTask, TypeOK, Task
  <2>2. jobs' \in JobMap /\ nextId' \in 1 .. (MaxJobs + 1)
    BY <1>19, <2>1, CompleteEffect, EnqueueNextType DEF OnCompleteThrows, TypeOK
  <2> QED
    BY <1>19, <2>1, <2>2, GotoType, CountType DEF OnCompleteThrows, TaskPhase, TypeOK
<1>20. ASSUME NEW t \in Tokens, FailFault(t)
      PROVE  TypeOK'
  BY <1>20, SettleType, CountType DEF FailFault, InPhase, TypeOK
<1>21. CASE AdvanceTime
  BY <1>21, ElapseEffect, MaxLagAssumption DEF AdvanceTime, TypeOK
<1>22. CASE UNCHANGED vars
  BY <1>22 DEF vars, TypeOK
<1> QED
  BY <1>1, <1>2, <1>3, <1>4, <1>5, <1>6, <1>7, <1>8, <1>9, <1>10, <1>11, <1>12,
     <1>13, <1>14, <1>15, <1>16, <1>17, <1>18, <1>19, <1>20, <1>21, <1>22
  DEF Next, TickStep, TaskStep

THEOREM TypeCorrect == Spec => []TypeOK
BY TypeInit, TypeStep, PTL DEF Spec

-----------------------------------------------------------------------------
(* The inductive invariant, and what a step of the queue can do to each    *)
(* job and to each task.                                                   *)

(* Ids that newJobId has not returned yet are not in the map. *)
FreshIds == \A j \in JobIds : j >= nextId => jobs[j] = NoJob

IInv == TypeOK /\ LeaseOwnership /\ FreshIds

Submitted(j) ==
  /\ j = nextId /\ nextId' = nextId + 1 /\ jobs[j] = NoJob
  /\ jobs'[j] # NoJob /\ jobs'[j].status = "queued" /\ jobs'[j].owner = NoToken
  /\ jobs'[j].attempts = 0
Taken(j) ==
  /\ Moved(jobs[j], jobs'[j], {"queued"}, "running", 0, jobs'[j].owner)
  /\ jobs'[j].owner \in FreeTokens
  /\ LET t == jobs'[j].owner
     IN task'[t] # NoTask =>
          /\ task'[t].job = j
          /\ task'[t].spec = jobs[j].spec /\ task'[t].attempts = jobs[j].attempts
          /\ task'[t].created = jobs[j].created /\ task'[t].payload = jobs[j].payload
          /\ task'[t].phase = "claimed"
Released(j) == Moved(jobs[j], jobs'[j], {"running"}, "queued", 0, NoToken)
Retried(j) == /\ Moved(jobs[j], jobs'[j], {"running"}, "queued", 1, NoToken)
              /\ jobs[j].attempts + 1 < jobs[j].spec.maxAttempts
              /\ Reported(j)
Done(j, to, spent) ==
  /\ jobs[j] # NoJob /\ jobs[j].status = "running" /\ Reported(j)
  /\ \/ jobs'[j] = NoJob
     \/ Moved(jobs[j], jobs'[j], {"running"}, to, spent, NoToken)

JobStep(j) == \/ Untouched(jobs[j], jobs'[j])
              \/ Submitted(j) \/ Taken(j) \/ Released(j) \/ Retried(j)
              \/ Done(j, "completed", 0) \/ Done(j, "failed", 1)

TaskKept(t) == task'[t] # NoTask => /\ IsTask(t) /\ task'[t].job = task[t].job
                                    /\ task'[t].spec = task[t].spec
                                    /\ task'[t].attempts = task[t].attempts
                                    /\ task'[t].created = task[t].created
                                    /\ task'[t].payload = task[t].payload

Shape ==
  /\ nextId' = nextId \/ (nextId \in JobIds /\ Submitted(nextId))
  /\ \A j \in JobIds : JobStep(j)
  /\ \A i, j \in JobIds :
       Taken(i) /\ Taken(j) /\ jobs'[i].owner = jobs'[j].owner => i = j
  /\ \A t \in Tokens : \/ TaskKept(t)
                       \/ \E j \in JobIds : Taken(j) /\ jobs'[j].owner = t

(* Shape in a step that takes no job. *)
LEMMA QuietShape ==
  ASSUME nextId' = nextId \/ (nextId \in JobIds /\ Submitted(nextId)),
         \A j \in JobIds : JobStep(j) /\ ~Taken(j),
         \A t \in Tokens : TaskKept(t)
  PROVE  Shape
BY DEF Shape

(* A job that is already untouched, submitted or handed back is not taken. *)
LEMMA NotTaken ==
  ASSUME TypeOK, LeaseOwnership, TypeOK', NEW j \in JobIds,
         \/ Untouched(jobs[j], jobs'[j]) \/ Submitted(j) \/ Released(j) \/ Retried(j)
         \/ Done(j, "completed", 0) \/ Done(j, "failed", 1)
  PROVE  JobStep(j) /\ ~Taken(j)
BY NoTokenAssumption DEF JobStep, Untouched, Submitted, Taken, Released, Retried, Done, Moved, FreeTokens

LEMMA SettleKeeps ==
  ASSUME TypeOK, NEW t \in Tokens, Settle(t)
  PROVE  \A u \in Tokens : TaskKept(u)
BY DEF Settle, TaskKept, TypeOK, IsTask

LEMMA GotoKeeps ==
  ASSUME TypeOK, NEW t \in Tokens, IsTask(t), NEW phase, Goto(t, phase)
  PROVE  \A u \in Tokens : TaskKept(u)
<1>1. task[t] \in Task
  BY DEF TypeOK, IsTask
<1>2. LET new == [task[t] EXCEPT !.phase = phase]
      IN /\ new.job = task[t].job /\ new.spec = task[t].spec
         /\ new.attempts = task[t].attempts
         /\ new.created = task[t].created /\ new.payload = task[t].payload
  BY <1>1 DEF Task
<1> QED
  BY <1>2 DEF Goto, TaskKept, TypeOK, IsTask

(* The lease owner's job is running, as the owner's snapshot knows it. *)
LEMMA OwnerRuns ==
  ASSUME TypeOK, LeaseOwnership, NEW t \in Tokens, IsTask(t),
         VerifyOwner(jobs, task[t].job, t)
  PROVE  LET j == task[t].job
         IN /\ j \in JobIds /\ jobs[j] # NoJob /\ jobs[j].status = "running"
            /\ jobs[j].spec = task[t].spec /\ jobs[j].attempts = task[t].attempts
            /\ jobs[j].payload = task[t].payload /\ jobs[j].owner = t
<1>1. task[t].job \in JobIds
  BY DEF TypeOK, IsTask, Task
<1> QED
  BY <1>1, NoTokenAssumption
  DEF VerifyOwner, LeaseOwnership, OwnedWhileRunning, SnapshotCurrent

LEMMA CompleteShape ==
  ASSUME TypeOK, LeaseOwnership, NEW t \in Tokens, InPhase(t, "complete"),
         jobs' = CompleteJob(jobs, task[t].job, t)
  PROVE  \A j \in JobIds : Untouched(jobs[j], jobs'[j]) \/ Done(j, "completed", 0)
<1>1. jobs \in JobMap /\ IsTask(t) /\ task[t].job \in JobIds
  BY DEF TypeOK, JobMap, InPhase, IsTask, Task
<1>2. \A j \in JobIds :
        \/ Untouched(jobs[j], jobs'[j])
        \/ /\ j = task[t].job /\ VerifyOwner(jobs, task[t].job, t)
           /\ Ended(jobs[j], jobs'[j], "completed", 0)
  BY <1>1, CompleteEffect
<1>3. VerifyOwner(jobs, task[t].job, t) => Reported(task[t].job)
  BY <1>1, OwnerRuns DEF Reported, With
<1> QED
  BY <1>1, <1>2, <1>3, OwnerRuns DEF Done, Ended, Moved

LEMMA FailShape ==
  ASSUME TypeOK, LeaseOwnership, NEW t \in Tokens, Fail(t)
  PROVE  \A j \in JobIds : \/ Untouched(jobs[j], jobs'[j])
                          \/ Retried(j) \/ Done(j, "failed", 1)
<1>1. jobs \in JobMap /\ IsTask(t) /\ task[t].job \in JobIds /\ task[t].attempts \in Nat
  BY DEF TypeOK, JobMap, Fail, InPhase, IsTask, Task
<1>r. VerifyOwner(jobs, task[t].job, t) => Reported(task[t].job)
  BY <1>1, OwnerRuns DEF Reported, With, Fail
<1>2. CASE Retries(t)
  <2>1. backoffFor(task[t].attempts + 1) \in Int
    BY <1>1 DEF backoffFor
  <2>2. \A j \in JobIds :
          \/ Untouched(jobs[j], jobs'[j])
          \/ /\ j = task[t].job /\ VerifyOwner(jobs, task[t].job, t)
             /\ Moved(jobs[j], jobs'[j], Status, "queued", 1, NoToken)
    BY <1>1, <1>2, <2>1, RetryEffect DEF Fail
  <2> QED
    BY <1>1, <1>2, <1>r, <2>2, OwnerRuns DEF Retried, Moved, Retries
<1>3. CASE ~Retries(t)
  <2>1. \A j \in JobIds :
          \/ Untouched(jobs[j], jobs'[j])
          \/ /\ j = task[t].job /\ VerifyOwner(jobs, task[t].job, t)
             /\ Ended(jobs[j], jobs'[j], "failed", 1)
    BY <1>1, <1>3, GiveUpEffect DEF Fail
  <2> QED
    BY <1>1, <1>r, <2>1, OwnerRuns DEF Done, Ended, Moved
<1> QED
  BY <1>2, <1>3

LEMMA SubmitShape ==
  ASSUME TypeOK, FreshIds, NEW spec \in Specs, NEW delay \in Int, NEW created \in Instants,
         NEW payload \in JobIds, nextId \in JobIds, nextId' = nextId + 1,
         jobs' = Put(jobs, nextId, NewJob(spec, delay, created, payload))
  PROVE  /\ \A j \in JobIds : Untouched(jobs[j], jobs'[j]) \/ Submitted(j)
         /\ Submitted(nextId)
<1> DEFINE r == NewJob(spec, delay, created, payload)
<1>1. r \in Job /\ r # NoJob
  BY NewJobType
<1>2. r.status = "queued" /\ r.owner = NoToken /\ r.attempts = 0
  BY DEF NewJob
<1>3. jobs \in JobMap /\ jobs[nextId] = NoJob
  BY MaxJobsAssumption DEF TypeOK, JobMap, FreshIds, JobIds
<1> HIDE DEF r
<1>4. /\ \A j \in JobIds \ {nextId} : Untouched(jobs[j], jobs'[j])
      /\ jobs'[nextId] = r
  BY <1>1, <1>2, <1>3, PutEffect DEF r
<1> QED
  BY <1>1, <1>2, <1>3, <1>4 DEF Submitted

LEMMA ClaimShape ==
  ASSUME TypeOK, LeaseOwnership, NEW w \in Workers, Claim(w)
  PROVE  Shape
<1>0. PICK S \in SUBSET With(jobs, {"queued"}) : \E token : Claims(w, S, token)
  BY ClaimDetails
<1>1. PICK token : Claims(w, S, token)
  BY <1>0
<1>2. S \subseteq JobIds
  BY DEF With
<1>3. ASSUME NEW j \in S
      PROVE  Taken(j) /\ jobs'[j].owner = token[j]
  <2>1. Moved(jobs[j], jobs'[j], {"queued"}, "running", 0, token[j]) /\ token[j] \in FreeTokens
    BY <1>1 DEF Claims
  <2>2. jobs'[j].owner = token[j] /\ token[j] \in Tokens
    BY <2>1 DEF Moved, FreeTokens
  <2>3. \E i \in S : token[i] = token[j] /\ task'[token[j]] = ClaimTask(w, i)
    BY <1>1, <2>2 DEF Claims
  <2>4. task'[token[j]] = ClaimTask(w, j)
    BY <1>1, <2>3 DEF Claims
  <2> QED
    BY <2>1, <2>2, <2>4 DEF Taken, ClaimTask
<1>4. ASSUME NEW j \in JobIds \ S
      PROVE  JobStep(j) /\ ~Taken(j)
  <2>1. Untouched(jobs[j], jobs'[j])
    BY <1>1 DEF Claims
  <2> QED
    BY <2>1 DEF JobStep, Untouched, Taken, Moved
<1>5. \A i, j \in JobIds :
        Taken(i) /\ Taken(j) /\ jobs'[i].owner = jobs'[j].owner => i = j
  BY <1>1, <1>3, <1>4 DEF Claims
<1>6. ASSUME NEW t \in Tokens
      PROVE  TaskKept(t) \/ \E j \in JobIds : Taken(j) /\ jobs'[j].owner = t
  <2>1. CASE \E j \in S : token[j] = t
    BY <1>2, <1>3, <2>1
  <2>2. CASE \A j \in S : token[j] # t
    BY <1>1, <2>2 DEF Claims, TaskKept, IsTask
  <2> QED
    BY <2>1, <2>2
<1>7. nextId' = nextId
  BY DEF Claim
<1> QED
  BY <1>2, <1>3, <1>4, <1>5, <1>6, <1>7 DEF Shape, JobStep

LEMMA LaunchKeeps ==
  ASSUME TypeOK, NEW w \in Workers, Launch(w)
  PROVE  \A u \in Tokens : TaskKept(u)
<1> DEFINE claimed == TasksOf(w) \ Running(w)
<1>1. ASSUME NEW u \in claimed, NEW phase
      PROVE  LET new == [task[u] EXCEPT !.phase = phase]
             IN /\ u \in Tokens /\ IsTask(u) /\ new.job = task[u].job
                /\ new.spec = task[u].spec /\ new.attempts = task[u].attempts
                /\ new.created = task[u].created /\ new.payload = task[u].payload
  <2>1. u \in Tokens /\ IsTask(u) /\ task[u] \in Task
    BY DEF TasksOf, IsTask, TypeOK
  <2> QED
    BY <2>1 DEF Task
<1>2. ASSUME NEW u \in Tokens
      PROVE  task'[u] = IF u \in claimed
                          THEN [task[u] EXCEPT !.phase = IF task[u].spec.handled
                                                           THEN "handler" ELSE "fail"]
                          ELSE task[u]
  BY DEF Launch
<1> HIDE DEF claimed
<1>3. ASSUME NEW u \in Tokens, u \in claimed
      PROVE  TaskKept(u)
  <2> DEFINE phase == IF task[u].spec.handled THEN "handler" ELSE "fail"
  <2>1. task'[u] = [task[u] EXCEPT !.phase = phase]
    BY <1>2, <1>3
  <2> HIDE DEF phase
  <2> QED
    BY <1>1, <1>3, <2>1 DEF TaskKept
<1>4. ASSUME NEW u \in Tokens, u \notin claimed
      PROVE  TaskKept(u)
  BY <1>2, <1>4 DEF TaskKept, IsTask
<1> QED
  BY <1>3, <1>4

(* Every step of the queue has this shape. *)
LEMMA EveryStepHasShape == IInv /\ TypeOK' /\ [Next]_vars => Shape
<1> SUFFICES ASSUME TypeOK, LeaseOwnership, FreshIds, TypeOK', [Next]_vars
             PROVE  Shape
  BY DEF IInv
<1>a. jobs \in JobMap
  BY DEF TypeOK, JobMap
<1>b. ASSUME UNCHANGED <<jobs, nextId>>, \A t \in Tokens : TaskKept(t)
      PROVE  Shape
  BY <1>b, NotTaken, QuietShape DEF Untouched
<1>c. UNCHANGED task => \A t \in Tokens : TaskKept(t)
  BY DEF TaskKept, IsTask
<1>1. ASSUME NEW spec \in Specs, NEW delay \in {0, Interval}, NEW now \in Instants,
             Enqueue(spec, delay, now)
      PROVE  Shape
  <2>1. /\ \A j \in JobIds : Untouched(jobs[j], jobs'[j]) \/ Submitted(j)
        /\ Submitted(nextId)
    BY <1>1, SubmitShape, TimingAssumption DEF Enqueue
  <2> QED
    BY <1>1, <1>c, <2>1, NotTaken, QuietShape DEF Enqueue
<1>2. ASSUME NEW w \in Workers, PollFires(w)
      PROVE  Shape
  BY <1>2, <1>b, <1>c DEF PollFires
<1>3. ASSUME NEW w \in Workers, Renew(w)
      PROVE  Shape
  <2>1. PICK j \in JobIds : jobs' = HeartbeatJob(jobs, j, held[w][j], Lease - age[w])
    BY <1>3 DEF Renew, ToRenew, InFlight
  <2>2. Lease - age[w] \in Int
    BY TimingAssumption, MaxLagAssumption DEF TypeOK
  <2>3. \A i \in JobIds : Untouched(jobs[i], jobs'[i])
    BY <1>a, <2>1, <2>2, HeartbeatEffect
  <2> QED
    BY <1>3, <1>c, <2>3, NotTaken, QuietShape DEF Renew
<1>4. ASSUME NEW w \in Workers, Release(w)
      PROVE  Shape
  <2>1. age[w] \in Int /\ jobs' = ReleaseExpired(jobs, age[w])
    BY <1>4, MaxLagAssumption DEF Release, TypeOK
  <2>2. \A j \in JobIds : Untouched(jobs[j], jobs'[j]) \/ Released(j)
    BY <1>a, <2>1, ReleaseEffect DEF Released
  <2> QED
    BY <1>4, <1>c, <2>2, NotTaken, QuietShape DEF Release
<1>5. ASSUME NEW w \in Workers, Claim(w)
      PROVE  Shape
  BY <1>5, ClaimShape
<1>6. ASSUME NEW w \in Workers, Launch(w)
      PROVE  Shape
  BY <1>6, <1>b, LaunchKeeps DEF Launch
<1>7. ASSUME NEW w \in Workers,
             TickFault(w) \/ Start(w) \/ Stop(w) \/ StopResolves(w) \/ Restart(w)
      PROVE  Shape
  BY <1>7, <1>b, <1>c DEF TickFault, Start, Stop, StopResolves, Restart
<1>8. ASSUME NEW w \in Workers, Crash(w)
      PROVE  Shape
  BY <1>8, <1>b DEF Crash, TaskKept, IsTask, TypeOK
<1>9. ASSUME NEW t \in Tokens, HandlerReturns(t) \/ HandlerThrows(t) \/ BookkeepingFault(t)
      PROVE  Shape
  BY <1>9, <1>b, GotoKeeps DEF HandlerReturns, HandlerThrows, BookkeepingFault, InPhase
<1>10. ASSUME NEW t \in Tokens, Complete(t)
      PROVE  Shape
  <2>1. \A j \in JobIds : Untouched(jobs[j], jobs'[j]) \/ Done(j, "completed", 0)
    BY <1>10, CompleteShape DEF Complete
  <2>2. \A u \in Tokens : TaskKept(u)
    BY <1>10, SettleKeeps, GotoKeeps DEF Complete, InPhase
  <2> QED
    BY <1>10, <2>1, <2>2, NotTaken, QuietShape DEF Complete
<1>11. ASSUME NEW t \in Tokens, IsTask(t), EnqueueNext(t), \A u \in Tokens : TaskKept(u)
      PROVE  Shape
  <2>1. task[t].spec \in Specs /\ task[t].created \in Instants /\ task[t].payload \in JobIds
    BY <1>11 DEF TypeOK, IsTask, Task
  <2>2. /\ \A j \in JobIds : Untouched(jobs[j], jobs'[j]) \/ Submitted(j)
        /\ Submitted(nextId)
    BY <1>11, <2>1, SubmitShape, TimingAssumption DEF EnqueueNext
  <2> QED
    BY <1>11, <2>2, NotTaken, QuietShape DEF EnqueueNext
<1>12. ASSUME NEW t \in Tokens, Requeue(t)
      PROVE  Shape
  BY <1>11, <1>12, SettleKeeps DEF Requeue, InPhase
<1>13. ASSUME NEW t \in Tokens, Fail(t)
      PROVE  Shape
  <2>1. \A j \in JobIds : \/ Untouched(jobs[j], jobs'[j])
                         \/ Retried(j) \/ Done(j, "failed", 1)
    BY <1>13, FailShape
  <2>2. \A u \in Tokens : TaskKept(u)
    BY <1>13, SettleKeeps DEF Fail
  <2> QED
    BY <1>13, <2>1, <2>2, NotTaken, QuietShape DEF Fail
<1>14. ASSUME NEW t \in Tokens, OnCompleteThrows(t)
      PROVE  Shape
  <2>1. IsTask(t) /\ \A u \in Tokens : TaskKept(u)
    BY <1>14, GotoKeeps DEF OnCompleteThrows, InPhase
  <2>2. CASE EnqueueNext(t)
    BY <1>11, <2>1, <2>2
  <2>3. CASE /\ InPhase(t, "complete") /\ UNCHANGED nextId
             /\ jobs' = CompleteJob(jobs, task[t].job, t)
    <3>1. \A j \in JobIds : Untouched(jobs[j], jobs'[j]) \/ Done(j, "completed", 0)
      BY <2>1, <2>3, CompleteShape
    <3> QED
      BY <2>1, <2>3, <3>1, NotTaken, QuietShape
  <2> QED
    BY <1>14, <2>2, <2>3 DEF OnCompleteThrows
<1>15. ASSUME NEW t \in Tokens, FailFault(t)
      PROVE  Shape
  BY <1>15, <1>b, SettleKeeps DEF FailFault
<1>16. CASE AdvanceTime
  <2>1. \A j \in JobIds : Untouched(jobs[j], jobs'[j])
    BY <1>16, <1>a, ElapseEffect DEF AdvanceTime
  <2> QED
    BY <1>16, <1>c, <2>1, NotTaken, QuietShape DEF AdvanceTime
<1>17. CASE UNCHANGED vars
  BY <1>17, <1>b, <1>c DEF vars
<1> QED
  BY <1>1, <1>2, <1>3, <1>4, <1>5, <1>6, <1>7, <1>8, <1>9, <1>10, <1>12, <1>13,
     <1>14, <1>15, <1>16, <1>17
  DEF Next, TickStep, TaskStep

-----------------------------------------------------------------------------
(* Ownership of leases. *)

LEMMA OwnershipInit == Init => LeaseOwnership /\ FreshIds
BY DEF Init, LeaseOwnership, FreshIds, OwnedWhileRunning, OneJobPerToken,
       SnapshotCurrent, AttemptsBounded

LEMMA OwnershipStep ==
  ASSUME IInv, TypeOK', Shape
  PROVE  LeaseOwnership' /\ FreshIds'
<1> USE NoTokenAssumption
<1>1. \A j \in JobIds : JobStep(j)
  BY DEF Shape
<1>2. FreshIds'
  <2>1. nextId \in Int /\ nextId' \in {nextId, nextId + 1}
    BY DEF IInv, TypeOK, Shape, Submitted
  <2>2. \A j \in JobIds : jobs'[j] # NoJob =>
          jobs[j] # NoJob \/ (j = nextId /\ nextId' = nextId + 1)
    BY <1>1 DEF JobStep, Untouched, Submitted, Taken, Released, Retried, Done, Moved
  <2> QED
    BY <2>1, <2>2, MaxJobsAssumption DEF IInv, FreshIds, JobIds
<1>3. OwnedWhileRunning'
  BY <1>1 DEF IInv, LeaseOwnership, OwnedWhileRunning, FreeTokens,
              JobStep, Untouched, Submitted, Taken, Released, Retried, Done, Moved
<1>4. ASSUME NEW j \in JobIds, jobs'[j] # NoJob, jobs'[j].owner # NoToken
      PROVE  \/ jobs[j] # NoJob /\ jobs[j].owner = jobs'[j].owner
             \/ Taken(j)
  BY <1>1, <1>4 DEF JobStep, Untouched, Submitted, Released, Retried, Done, Moved
<1>5. OneJobPerToken'
  BY <1>4 DEF IInv, LeaseOwnership, OneJobPerToken, Shape, Taken, FreeTokens
<1>6. SnapshotCurrent'
  <2> SUFFICES ASSUME NEW t \in Tokens, NEW j \in JobIds,
                      task'[t] # NoTask, jobs'[j] # NoJob, jobs'[j].owner = t
               PROVE  /\ task'[t].job = j
                      /\ task'[t].spec = jobs'[j].spec
                      /\ task'[t].attempts = jobs'[j].attempts
                      /\ task'[t].created = jobs'[j].created
                      /\ task'[t].payload = jobs'[j].payload
    BY DEF SnapshotCurrent, IsTask
  <2>1. CASE Taken(j)
    <3>1. /\ jobs'[j].spec = jobs[j].spec /\ jobs'[j].attempts = jobs[j].attempts + 0
          /\ jobs'[j].created = jobs[j].created /\ jobs'[j].payload = jobs[j].payload
      BY <2>1 DEF Taken, Moved
    <3>2. jobs[j] # NoJob /\ jobs[j].attempts \in Nat
      BY <2>1 DEF Taken, Moved, IInv, TypeOK, Job
    <3> QED
      BY <2>1, <3>1, <3>2 DEF Taken
  <2>2. CASE ~Taken(j)
    <3>1. jobs[j] # NoJob /\ jobs[j].owner = t
      BY <1>4, <2>2
    <3>2. TaskKept(t)
      BY <3>1 DEF Shape, Taken, FreeTokens
    <3>3. Untouched(jobs[j], jobs'[j])
      BY <1>1, <2>2 DEF JobStep, Submitted, Released, Retried, Done, Moved
    <3> QED
      BY <3>1, <3>2, <3>3 DEF IInv, LeaseOwnership, SnapshotCurrent, TaskKept, Untouched
  <2> QED
    BY <2>1, <2>2
<1>7. AttemptsBounded'
  <2> SUFFICES ASSUME NEW j \in JobIds, jobs'[j] # NoJob
               PROVE  /\ jobs'[j].attempts <= jobs'[j].spec.maxAttempts
                      /\ jobs'[j].status # "failed" =>
                           jobs'[j].attempts < jobs'[j].spec.maxAttempts
    BY DEF AttemptsBounded
  <2>1. jobs'[j].spec.maxAttempts \in Nat \ {0}
    BY SpecsAssumption DEF TypeOK, Job
  <2>2. jobs[j] # NoJob =>
          /\ jobs[j].spec.maxAttempts \in Nat /\ jobs[j].attempts \in Nat
          /\ jobs[j].attempts <= jobs[j].spec.maxAttempts
          /\ jobs[j].status # "failed" => jobs[j].attempts < jobs[j].spec.maxAttempts
    BY SpecsAssumption DEF IInv, TypeOK, Job, LeaseOwnership, AttemptsBounded
  <2> QED
    BY <1>1, <2>1, <2>2 DEF JobStep, Untouched, Submitted, Taken, Released, Retried, Done, Moved
<1> QED
  BY <1>2, <1>3, <1>5, <1>6, <1>7 DEF LeaseOwnership

LEMMA Inductive == Spec => []IInv
<1>1. Init => IInv
  BY TypeInit, OwnershipInit DEF IInv
<1>2. IInv /\ [Next]_vars => IInv'
  <2> SUFFICES ASSUME IInv, [Next]_vars PROVE IInv'
    OBVIOUS
  <2>1. TypeOK'
    BY TypeStep DEF IInv
  <2>2. Shape
    BY <2>1, EveryStepHasShape
  <2> QED
    BY <2>1, <2>2, OwnershipStep DEF IInv
<1> QED
  BY <1>1, <1>2, PTL DEF Spec

(* Whatever the timing, the crashes, the store faults and the restarts, a  *)
(* lease names the one task that may still finish the job, and no job      *)
(* overspends its attempts.                                                *)
THEOREM LeaseOwnershipHolds == Spec => []LeaseOwnership
<1>1. IInv => LeaseOwnership
  BY DEF IInv
<1> QED
  BY <1>1, Inductive, PTL

-----------------------------------------------------------------------------
(* Refinement. *)

LEMMA LifecycleStep ==
  ASSUME IInv, TypeOK', Shape
  PROVE  Lifecycle!Next
<1>1. ASSUME NEW j \in JobIds
      PROVE  Lifecycle!Move(j)
  <2> DEFINE status(r, o, n) == IF r THEN "reported" ELSE IF o # NoJob THEN o.status
                                ELSE IF j < n THEN "forgotten" ELSE "absent"
             left(o) == IF o = NoJob THEN 0 ELSE o.spec.maxAttempts - o.attempts
  <2>r. /\ Reported(j) => jobs[j] # NoJob /\ jobs[j].status = "running"
        /\ Reported(j)' => jobs'[j] # NoJob /\ jobs'[j].status = "running"
    BY DEF Reported, With
  <2>1. /\ StatusOf[j] = status(Reported(j), jobs[j], nextId)
        /\ StatusOf'[j] = status(Reported(j)', jobs'[j], nextId')
        /\ AttemptsLeft[j] = left(jobs[j])
        /\ AttemptsLeft'[j] = left(jobs'[j])
    BY DEF StatusOf, AttemptsLeft
  <2>2. /\ JobStep(j) /\ nextId \in Int /\ j \in Int
        /\ \/ nextId' = nextId
           \/ nextId' = nextId + 1 /\ jobs'[nextId] # NoJob
    BY MaxJobsAssumption DEF Shape, Submitted, IInv, TypeOK, JobIds
  <2>3. jobs[j] # NoJob => /\ jobs[j].attempts \in Nat /\ jobs[j].spec.maxAttempts \in Nat
                           /\ jobs[j].status \in Status
                           /\ jobs[j].attempts <= jobs[j].spec.maxAttempts
                           /\ jobs[j].status # "failed" =>
                                jobs[j].attempts < jobs[j].spec.maxAttempts
    BY SpecsAssumption DEF IInv, TypeOK, Job, LeaseOwnership, AttemptsBounded
  <2>4. jobs'[j] # NoJob => /\ jobs'[j].attempts \in Nat
                            /\ jobs'[j].spec.maxAttempts \in Nat \ {0}
    BY SpecsAssumption DEF TypeOK, Job
  <2>5. jobs[j] # NoJob => j < nextId
    BY <2>2 DEF IInv, FreshIds
  <2> HIDE DEF status, left
  <2>6. CASE Untouched(jobs[j], jobs'[j])
    <3>1. CASE jobs[j] = NoJob
      <4>1. jobs'[j] = NoJob
        BY <2>6, <3>1 DEF Untouched
      <4> QED
        BY <2>r, <2>1, <2>2, <3>1, <4>1 DEF status, left, Lifecycle!Move, Lifecycle!Stays
    <3>2. CASE jobs[j] # NoJob /\ jobs'[j] = NoJob
      BY <2>r, <2>1, <2>2, <2>3, <2>5, <2>6, <3>2
      DEF status, left, Untouched, Lifecycle!Move, Lifecycle!Forget
    <3>3. CASE jobs[j] # NoJob /\ jobs'[j] # NoJob
      <4>1. /\ jobs'[j].spec = jobs[j].spec /\ jobs'[j].status = jobs[j].status
            /\ jobs'[j].attempts = jobs[j].attempts
        BY <2>6, <3>3 DEF Untouched
      <4>2. AttemptsLeft'[j] = AttemptsLeft[j] /\ AttemptsLeft[j] \in Int
        BY <2>1, <2>3, <3>3, <4>1 DEF left
      <4>3. \/ StatusOf'[j] = StatusOf[j]
            \/ StatusOf[j] = "running" /\ StatusOf'[j] = "reported"
            \/ StatusOf[j] = "reported" /\ StatusOf'[j] = "running"
        BY <2>r, <2>1, <3>3, <4>1 DEF status
      <4> QED
        BY <4>2, <4>3
        DEF Lifecycle!Move, Lifecycle!Stays, Lifecycle!Report, Lifecycle!Lose, Lifecycle!Goes,
            Lifecycle!Spends
    <3> QED
      BY <3>1, <3>2, <3>3
  <2>7. CASE Submitted(j)
    BY <2>r, <2>1, <2>2, <2>4, <2>7
    DEF status, left, Submitted, Lifecycle!Move, Lifecycle!Submit, Lifecycle!Goes
  <2>8. CASE Taken(j)
    <3>1. ~Reported(j)'
      BY <2>8 DEF Taken, Reported, InPhase, IsTask
    <3> QED
      BY <2>r, <2>1, <2>3, <2>4, <2>8, <3>1
      DEF status, left, Taken, Moved, Lifecycle!Move, Lifecycle!Take, Lifecycle!Goes, Lifecycle!Spends
  <2>9. CASE Released(j)
    BY <2>r, <2>1, <2>3, <2>4, <2>9
    DEF status, left, Released, Moved, Lifecycle!Move, Lifecycle!Recover, Lifecycle!Goes, Lifecycle!Spends
  <2>10. CASE Retried(j)
    BY <2>r, <2>1, <2>3, <2>4, <2>10
    DEF status, left, Retried, Moved, Lifecycle!Move, Lifecycle!Retry, Lifecycle!Goes, Lifecycle!Spends
  <2>11. CASE Done(j, "completed", 0)
    BY <2>r, <2>1, <2>2, <2>3, <2>4, <2>5, <2>11
    DEF status, left, Done, Moved, Lifecycle!Move, Lifecycle!Complete, Lifecycle!Forget,
        Lifecycle!Goes, Lifecycle!Spends
  <2>12. CASE Done(j, "failed", 1)
    BY <2>r, <2>1, <2>2, <2>3, <2>4, <2>5, <2>12
    DEF status, left, Done, Moved, Lifecycle!Move, Lifecycle!GiveUp, Lifecycle!Forget,
        Lifecycle!Goes, Lifecycle!Spends
  <2> QED
    BY <2>2, <2>6, <2>7, <2>8, <2>9, <2>10, <2>11, <2>12 DEF JobStep
<1>2. StatusOf' \in [JobIds -> Lifecycle!Phases]
  BY DEF StatusOf, TypeOK, Job, Status, Lifecycle!Phases
<1>3. AttemptsLeft' \in [JobIds -> Int]
  <2>1. \A j \in JobIds : jobs'[j] # NoJob =>
          jobs'[j].attempts \in Int /\ jobs'[j].spec.maxAttempts \in Int
    BY SpecsAssumption DEF TypeOK, Job
  <2> QED
    BY <2>1 DEF AttemptsLeft
<1> QED
  BY <1>1, <1>2, <1>3 DEF Lifecycle!Next

(* Every job lives the life of JobLifecycle: claims, lost leases, retries  *)
(* and crashes of any number of workers never bring a finished job back,   *)
(* drop an unfinished one, or let a job spend an attempt it has not got.   *)
THEOREM LifecycleRefined == Spec => LifecycleSpec
<1>1. Init => Lifecycle!Init
  BY DEF Init, Lifecycle!Init, StatusOf, AttemptsLeft, JobIds, Reported, With
<1>2. IInv /\ IInv' /\ [Next]_vars => [Lifecycle!Next]_(Lifecycle!vars)
  BY EveryStepHasShape, LifecycleStep DEF IInv
<1> QED
  BY <1>1, <1>2, Inductive, PTL DEF Spec, LifecycleSpec, Lifecycle!Spec

-----------------------------------------------------------------------------
(* The maps owners and inFlight. *)

(* In the map tasks, token t is a launched task of worker w for job j. *)
Runs(tasks, t, w, j) == /\ t \in Tokens /\ tasks[t] # NoTask
                        /\ tasks[t].worker = w /\ tasks[t].job = j
                        /\ tasks[t].phase # "claimed"

(* HeldByOwnTask, and the same in the next state. *)
HeldRunning(h, tasks) ==
  \A w \in Workers, j \in JobIds : h[w][j] # NoToken => Runs(tasks, h[w][j], w, j)

LEMMA HeldRuns ==
  /\ HeldByOwnTask <=> HeldRunning(held, task)
  /\ HeldByOwnTask' <=> HeldRunning(held', task')
BY DEF HeldByOwnTask, HeldRunning, Running, TasksOf, IsTask, Runs

(* The finally block deletes the entry of the task that ends: a token is   *)
(* under the job of its own task only, so no other entry names it.         *)
LEMMA SettleHeld ==
  ASSUME TypeOK, HeldByOwnTask, NEW t \in Tokens, IsTask(t), Settle(t)
  PROVE  HeldByOwnTask'
<1> SUFFICES ASSUME NEW w \in Workers, NEW j \in JobIds, held'[w][j] # NoToken
             PROVE  Runs(task', held'[w][j], w, j)
  BY HeldRuns DEF HeldRunning
<1>1. task[t].worker \in Workers /\ task[t].job \in JobIds
  BY DEF TypeOK, IsTask, Task
<1>2. held'[w][j] = held[w][j] /\ ~(task[t].worker = w /\ task[t].job = j)
  BY <1>1 DEF Settle, TypeOK
<1>3. Runs(task, held[w][j], w, j)
  BY <1>2, HeldRuns DEF HeldRunning
<1>4. held[w][j] # t
  BY <1>2, <1>3 DEF Runs
<1>5. task'[held[w][j]] = task[held[w][j]]
  BY <1>3, <1>4 DEF Settle, Runs, TypeOK
<1> QED
  BY <1>2, <1>3, <1>5 DEF Runs

LEMMA GotoHeld ==
  ASSUME TypeOK, HeldByOwnTask, NEW t \in Tokens, IsTask(t),
         NEW phase \in TaskPhase \ {"claimed"}, Goto(t, phase)
  PROVE  HeldByOwnTask'
<1> SUFFICES ASSUME NEW w \in Workers, NEW j \in JobIds, held'[w][j] # NoToken
             PROVE  Runs(task', held'[w][j], w, j)
  BY HeldRuns DEF HeldRunning
<1>1. held'[w][j] = held[w][j] /\ Runs(task, held[w][j], w, j)
  BY HeldRuns DEF HeldRunning, Goto
<1>2. task[t] \in Task
  BY DEF TypeOK, IsTask
<1>3. [task[t] EXCEPT !.phase = phase] \in Task
  BY <1>2 DEF Task
<1>4. /\ task'[t] = [task[t] EXCEPT !.phase = phase]
      /\ \A u \in Tokens \ {t} : task'[u] = task[u]
  BY DEF Goto, TypeOK
<1>5. /\ task'[t] # NoTask /\ task'[t].phase = phase
      /\ task'[t].worker = task[t].worker /\ task'[t].job = task[t].job
  BY <1>2, <1>3, <1>4, NoTaskAssumption DEF Task
<1> QED
  BY <1>1, <1>4, <1>5 DEF Runs

(* A claim gives tasks to unused tokens only. *)
LEMMA ClaimHeld ==
  ASSUME TypeOK, HeldByOwnTask, NEW w \in Workers, Claim(w)
  PROVE  HeldByOwnTask'
<1> SUFFICES ASSUME NEW v \in Workers, NEW j \in JobIds, held'[v][j] # NoToken
             PROVE  Runs(task', held'[v][j], v, j)
  BY HeldRuns DEF HeldRunning
<1>1. held'[v][j] = held[v][j] /\ Runs(task, held[v][j], v, j)
  BY HeldRuns DEF HeldRunning, Claim
<1>2. PICK S \in SUBSET With(jobs, {"queued"}) : \E token : Claims(w, S, token)
  BY ClaimDetails
<1>3. \A t \in Tokens : task[t] # NoTask => task'[t] = task[t]
  BY <1>2 DEF Claims, FreeTokens, IsTask
<1> QED
  BY <1>1, <1>3 DEF Runs

(* The launch enters claimed tasks, and disturbs no launched one. *)
LEMMA LaunchHeld ==
  ASSUME TypeOK, TypeOK', HeldByOwnTask, NEW w \in Workers, Launch(w)
  PROVE  HeldByOwnTask'
<1> DEFINE claimed == TasksOf(w) \ Running(w)
           launch(t) == [task[t] EXCEPT !.phase = IF task[t].spec.handled
                                                    THEN "handler" ELSE "fail"]
<1>1. /\ \A t \in claimed : task'[t] = launch(t)
      /\ \A t \in Tokens \ claimed : task'[t] = task[t]
  BY DEF Launch, TasksOf
<1>2. /\ \A v \in Workers \ {w} : held'[v] = held[v]
      /\ held'[w] = [j \in JobIds |->
             IF \E t \in claimed : task[t].job = j
               THEN CHOOSE t \in claimed : task[t].job = j
               ELSE held[w][j]]
  BY DEF Launch, TypeOK
<1>3. ASSUME NEW t \in claimed
      PROVE  Runs(task', t, w, task[t].job)
  <2>1. t \in Tokens /\ task[t] \in Task /\ task[t].worker = w
    BY DEF TasksOf, IsTask, TypeOK
  <2>2. launch(t) \in Task /\ launch(t).phase # "claimed"
        /\ launch(t).worker = w /\ launch(t).job = task[t].job
    BY <2>1 DEF Task, TaskPhase
  <2> QED
    BY <1>1, <2>1, <2>2, NoTaskAssumption DEF Runs
<1>4. ASSUME NEW v \in Workers, NEW j \in JobIds, Runs(task, held[v][j], v, j)
      PROVE  Runs(task', held[v][j], v, j)
  <2>1. held[v][j] \in Tokens \ claimed
    BY <1>4 DEF Runs, TasksOf, Running
  <2> QED
    BY <1>1, <1>4, <2>1 DEF Runs
<1> HIDE DEF claimed
<1> SUFFICES ASSUME NEW v \in Workers, NEW j \in JobIds, held'[v][j] # NoToken
             PROVE  Runs(task', held'[v][j], v, j)
  BY HeldRuns DEF HeldRunning
<1>5. CASE v = w /\ \E t \in claimed : task[t].job = j
  <2>1. held'[v][j] \in claimed /\ task[held'[v][j]].job = j
    BY <1>2, <1>5
  <2> QED
    BY <1>3, <1>5, <2>1
<1>6. CASE ~(v = w /\ \E t \in claimed : task[t].job = j)
  <2>1. held'[v][j] = held[v][j]
    BY <1>2, <1>6
  <2> QED
    BY <1>4, <2>1, HeldRuns DEF HeldRunning
<1> QED
  BY <1>5, <1>6

LEMMA HeldStep ==
  ASSUME TypeOK, TypeOK', HeldByOwnTask, [Next]_vars
  PROVE  HeldByOwnTask'
<1>a. ASSUME UNCHANGED <<task, held>>
      PROVE  HeldByOwnTask'
  BY <1>a DEF HeldByOwnTask, Running, TasksOf, IsTask
<1>1. ASSUME NEW spec \in Specs, NEW delay \in {0, Interval}, NEW now \in Instants,
             Enqueue(spec, delay, now)
      PROVE  HeldByOwnTask'
  BY <1>1, <1>a DEF Enqueue
<1>2. ASSUME NEW w \in Workers,
             \/ PollFires(w) \/ Renew(w) \/ Release(w) \/ TickFault(w)
             \/ Start(w) \/ Stop(w) \/ StopResolves(w) \/ Restart(w)
      PROVE  HeldByOwnTask'
  BY <1>2, <1>a
  DEF PollFires, Renew, Release, TickFault, Start, Stop, StopResolves, Restart
<1>3. ASSUME NEW w \in Workers, Claim(w)
      PROVE  HeldByOwnTask'
  BY <1>3, ClaimHeld
<1>4. ASSUME NEW w \in Workers, Launch(w)
      PROVE  HeldByOwnTask'
  BY <1>4, LaunchHeld
<1>5. ASSUME NEW w \in Workers, Crash(w)
      PROVE  HeldByOwnTask'
  <2> SUFFICES ASSUME NEW v \in Workers, NEW j \in JobIds, held'[v][j] # NoToken
               PROVE  Runs(task', held'[v][j], v, j)
    BY HeldRuns DEF HeldRunning
  <2>1. v # w /\ held'[v][j] = held[v][j]
    BY <1>5 DEF Crash, TypeOK
  <2>2. Runs(task, held[v][j], v, j)
    BY <2>1, HeldRuns DEF HeldRunning
  <2>3. task'[held[v][j]] = task[held[v][j]]
    BY <1>5, <2>1, <2>2 DEF Crash, TasksOf, Runs
  <2> QED
    BY <2>1, <2>2, <2>3 DEF Runs
<1>6. ASSUME NEW t \in Tokens,
             \/ HandlerReturns(t) \/ HandlerThrows(t)
             \/ BookkeepingFault(t) \/ OnCompleteThrows(t)
      PROVE  HeldByOwnTask'
  <2>1. IsTask(t) /\ \E phase \in TaskPhase \ {"claimed"} : Goto(t, phase)
    BY <1>6 DEF HandlerReturns, HandlerThrows, BookkeepingFault, OnCompleteThrows,
                InPhase, TaskPhase
  <2> QED
    BY <2>1, GotoHeld
<1>7. ASSUME NEW t \in Tokens, Complete(t) \/ Requeue(t) \/ Fail(t) \/ FailFault(t)
      PROVE  HeldByOwnTask'
  <2>1. IsTask(t) /\ (Settle(t) \/ Goto(t, "requeue"))
    BY <1>7 DEF Complete, Requeue, Fail, FailFault, InPhase
  <2> QED
    BY <2>1, SettleHeld, GotoHeld DEF TaskPhase
<1>8. CASE AdvanceTime
  BY <1>8, <1>a DEF AdvanceTime
<1>9. CASE UNCHANGED vars
  BY <1>9, <1>a DEF vars
<1> QED
  BY <1>1, <1>2, <1>3, <1>4, <1>5, <1>6, <1>7, <1>8, <1>9 DEF Next, TickStep, TaskStep

(* What a worker believes it is running, it is running: every entry of     *)
(* owners and inFlight is the token of a launched task of that worker and  *)
(* job, although the finally block of runClaimed deletes by job id.        *)
THEOREM HeldByOwnTaskHolds == Spec => []HeldByOwnTask
<1>1. Init => HeldByOwnTask
  BY DEF Init, HeldByOwnTask
<1>2. TypeOK /\ TypeOK' /\ HeldByOwnTask /\ [Next]_vars => HeldByOwnTask'
  BY HeldStep
<1> QED
  BY <1>1, <1>2, TypeCorrect, PTL DEF Spec

-----------------------------------------------------------------------------
(* The concurrency cap. *)

(* TasksOf(w), of the map tasks. *)
Owned(tasks, w) == {t \in Tokens : tasks[t] # NoTask /\ tasks[t].worker = w}

(* The tasks of a worker fit under the cap together with the jobs that its *)
(* tick may still claim, and all of them have been launched unless the     *)
(* tick is about to do that.                                               *)
Fits(tasks, k, w) ==
  /\ Cardinality(Owned(tasks, w)) + (IF k.phase = "claim" THEN k.capacity ELSE 0)
       <= Concurrency
  /\ k.phase # "launch" => \A t \in Owned(tasks, w) : tasks[t].phase # "claimed"
Room == \A w \in Workers : Fits(task, tick[w], w)

(* Worker w gets no task, and none that is claimed but not launched. *)
NoMore(w) ==
  \A t \in Owned(task', w) : /\ t \in Owned(task, w)
                             /\ task'[t].phase = "claimed" => task[t].phase = "claimed"

LEMMA OwnedFinite ==
  ASSUME NEW tasks, NEW w
  PROVE  IsFiniteSet(Owned(tasks, w)) /\ Cardinality(Owned(tasks, w)) \in Nat
<1>1. Owned(tasks, w) \subseteq Tokens
  BY DEF Owned
<1> QED
  BY <1>1, TokensAssumption, FS_Subset, FS_CardinalityType

(* Without new tasks and new claims to make, room remains. *)
LEMMA FitsStill ==
  ASSUME TypeOK, NEW w \in Workers, Fits(task, tick[w], w), NoMore(w), NEW k,
         \/ k = tick[w]
         \/ k.phase \in {"idle", "renew"} /\ tick[w].phase # "launch"
  PROVE  Fits(task', k, w)
<1>1. Owned(task', w) \subseteq Owned(task, w)
  BY DEF NoMore
<1>2. Cardinality(Owned(task', w)) <= Cardinality(Owned(task, w))
  BY <1>1, OwnedFinite, FS_Subset
<1>3. tick[w].capacity \in Nat
  BY DEF TypeOK
<1>4. Cardinality(Owned(task', w)) + (IF k.phase = "claim" THEN k.capacity ELSE 0)
        <= Concurrency
  BY <1>2, <1>3, OwnedFinite, TimingAssumption DEF Fits
<1>5. k.phase # "launch" => \A t \in Owned(task', w) : task'[t].phase # "claimed"
  BY DEF Fits, NoMore
<1> QED
  BY <1>4, <1>5 DEF Fits

LEMMA SettleNoMore ==
  ASSUME TypeOK, NEW t \in Tokens, Settle(t), NEW w \in Workers
  PROVE  NoMore(w)
BY DEF TypeOK, Settle, NoMore, Owned

LEMMA GotoNoMore ==
  ASSUME TypeOK, NEW t \in Tokens, IsTask(t),
         NEW phase \in TaskPhase \ {"claimed"}, Goto(t, phase), NEW w \in Workers
  PROVE  NoMore(w)
<1>1. task[t] \in Task
  BY DEF TypeOK, IsTask
<1>2. /\ task'[t] = [task[t] EXCEPT !.phase = phase]
      /\ \A u \in Tokens \ {t} : task'[u] = task[u]
  BY DEF Goto, TypeOK
<1>3. task'[t].phase = phase /\ task'[t].worker = task[t].worker
  BY <1>1, <1>2 DEF Task
<1> QED
  BY <1>2, <1>3 DEF NoMore, Owned, IsTask

(* releaseExpired is followed by the computation of the capacity. *)
LEMMA ReleaseFits ==
  ASSUME TypeOK, Room, NEW w \in Workers, Release(w)
  PROVE  Fits(task', tick'[w], w)
<1> DEFINE running == Cardinality(Running(w))
<1>1. tick[w].phase = "renew" /\ task' = task
  BY DEF Release
<1>2. Running(w) = Owned(task, w)
  BY <1>1 DEF Room, Fits, Running, TasksOf, IsTask, Owned
<1>3. running \in Nat /\ running <= Concurrency
  BY <1>1, <1>2, OwnedFinite DEF Room, Fits
<1>4. AtLeast(0, Concurrency - running) = Concurrency - running
  BY <1>3, TimingAssumption DEF AtLeast
<1>5. tick'[w] = IF Concurrency - running = 0 THEN Idle
                 ELSE [phase |-> "claim", todo |-> {}, capacity |-> Concurrency - running]
  BY <1>4 DEF Release, TypeOK
<1>6. \A t \in Owned(task', w) : task'[t].phase # "claimed"
  BY <1>1 DEF Room, Fits
<1> HIDE DEF running
<1>7. running + (IF tick'[w].phase = "claim" THEN tick'[w].capacity ELSE 0) <= Concurrency
  BY <1>3, <1>5, TimingAssumption DEF Idle
<1> QED
  BY <1>1, <1>2, <1>6, <1>7 DEF Fits, running

(* A claim takes no more jobs than the capacity asks for. *)
LEMMA ClaimFits ==
  ASSUME TypeOK, Room, NEW w \in Workers, Claim(w)
  PROVE  \A v \in Workers : Fits(task', tick'[v], v)
<1>1. PICK S \in ClaimChoices(jobs, tick[w].capacity, age[w]) :
        /\ Mintings(S) # {}
        /\ LET token == CHOOSE f \in Mintings(S) : TRUE
           IN task' = [t \in Tokens |->
                IF \E j \in S : token[j] = t
                  THEN LET j == CHOOSE j \in S : token[j] = t
                       IN [worker |-> w, job |-> j, spec |-> jobs[j].spec,
                           attempts |-> jobs[j].attempts,
                           created |-> jobs[j].created, payload |-> jobs[j].payload,
                              phase |-> "claimed"]
                  ELSE task[t]]
        /\ tick' = [tick EXCEPT ![w] =
                      IF S = {} THEN Idle
                      ELSE [phase |-> "launch", todo |-> {}, capacity |-> 0]]
  BY DEF Claim
<1> DEFINE token == CHOOSE f \in Mintings(S) : TRUE
           minted == {t \in Tokens : \E j \in S : token[j] = t}
<1>2. token \in [S -> FreeTokens]
  BY <1>1 DEF Mintings
<1>3. /\ \A t \in Tokens \ minted : task'[t] = task[t]
      /\ \A t \in minted : task'[t].worker = w
  BY <1>1
<1>4. tick[w].phase = "claim" /\ tick[w].capacity \in Nat
  BY DEF Claim, TypeOK
<1>5. /\ tick'[w] = IF S = {} THEN Idle
                    ELSE [phase |-> "launch", todo |-> {}, capacity |-> 0]
      /\ \A v \in Workers \ {w} : tick'[v] = tick[v]
  BY <1>1 DEF TypeOK
<1>6. /\ IsFiniteSet(S) /\ Cardinality(S) \in Nat
      /\ Cardinality(S) <= tick[w].capacity
  <2>1. S \subseteq JobIds /\ Cardinality(S) <= tick[w].capacity
    BY DEF ClaimChoices, Due, With
  <2>2. IsFiniteSet(JobIds)
    BY FS_Interval, MaxJobsAssumption DEF JobIds
  <2> QED
    BY <2>1, <2>2, FS_Subset, FS_CardinalityType
<1> HIDE DEF token
<1>7. IsFiniteSet(minted) /\ Cardinality(minted) <= Cardinality(S)
                          /\ Cardinality(minted) \in Nat
  <2>1. token \in Surjection(S, minted)
    BY <1>2 DEF Surjection, FreeTokens
  <2> QED
    BY <1>6, <2>1, FS_Surjection, FS_CardinalityType
<1> HIDE DEF minted
<1>8. CASE S = {}
  <2>1. minted = {}
    BY <1>8 DEF minted
  <2>2. \A v \in Workers : NoMore(v)
    BY <1>3, <2>1 DEF NoMore, Owned
  <2>3. \A v \in Workers : tick'[v] = tick[v] \/ tick'[v].phase = "idle"
    BY <1>5, <1>8 DEF Idle
  <2> QED
    BY <1>4, <1>5, <2>2, <2>3, FitsStill DEF Room
<1>9. CASE S # {}
  <2>1. Owned(task', w) \subseteq Owned(task, w) \cup minted
    BY <1>3 DEF Owned
  <2>2. Cardinality(Owned(task', w)) <= Cardinality(Owned(task, w)) + Cardinality(minted)
    <3>1. /\ IsFiniteSet(Owned(task, w) \cup minted)
          /\ Cardinality(Owned(task, w) \cup minted) =
               Cardinality(Owned(task, w)) + Cardinality(minted)
                 - Cardinality(Owned(task, w) \cap minted)
      BY <1>7, OwnedFinite, FS_Union
    <3>2. Cardinality(Owned(task, w) \cap minted) \in Nat
      BY OwnedFinite, FS_Subset, FS_CardinalityType
    <3>3. Cardinality(Owned(task', w)) <= Cardinality(Owned(task, w) \cup minted)
      BY <2>1, <3>1, FS_Subset
    <3> QED
      BY <1>7, <3>1, <3>2, <3>3, OwnedFinite
  <2>3. Cardinality(Owned(task, w)) + tick[w].capacity <= Concurrency
    BY <1>4 DEF Room, Fits
  <2>4. Fits(task', tick'[w], w)
    BY <1>4, <1>5, <1>6, <1>7, <1>9, <2>2, <2>3, OwnedFinite, TimingAssumption DEF Fits
  <2>5. ASSUME NEW v \in Workers \ {w}
        PROVE  NoMore(v) /\ tick'[v] = tick[v]
    BY <1>3, <1>5 DEF NoMore, Owned
  <2> QED
    BY <2>4, <2>5, FitsStill DEF Room
<1> QED
  BY <1>8, <1>9

(* The launch leaves no task of the worker merely claimed. *)
LEMMA LaunchFits ==
  ASSUME TypeOK, Room, NEW w \in Workers, Launch(w)
  PROVE  \A v \in Workers : Fits(task', tick'[v], v)
<1> DEFINE claimed == TasksOf(w) \ Running(w)
           launch(t) == [task[t] EXCEPT !.phase = IF task[t].spec.handled
                                                    THEN "handler" ELSE "fail"]
<1>1. /\ \A t \in claimed : task'[t] = launch(t)
      /\ \A t \in Tokens \ claimed : task'[t] = task[t]
  BY DEF Launch, TasksOf
<1>2. ASSUME NEW t \in claimed
      PROVE  t \in Owned(task, w) /\ launch(t).phase # "claimed" /\ launch(t).worker = w
  <2>1. t \in Owned(task, w) /\ task[t] \in Task
    BY DEF TasksOf, IsTask, Owned, TypeOK
  <2> QED
    BY <2>1 DEF Task, Owned
<1>3. ASSUME NEW v \in Workers
      PROVE  NoMore(v)
  <2>1. ASSUME NEW t \in Owned(task', v)
        PROVE  /\ t \in Owned(task, v)
               /\ task'[t].phase = "claimed" => task[t].phase = "claimed"
    <3>1. t \in Tokens /\ task'[t] # NoTask /\ task'[t].worker = v
      BY DEF Owned
    <3>2. CASE t \in claimed
      <4>1. task'[t] = launch(t) /\ launch(t).worker = w /\ launch(t).phase # "claimed"
        BY <1>1, <1>2, <3>2
      <4>2. t \in Owned(task, w)
        BY <1>2, <3>2
      <4>3. v = w
        BY <3>1, <4>1
      <4> QED
        BY <4>1, <4>2, <4>3
    <3>3. CASE t \notin claimed
      <4>1. task'[t] = task[t]
        BY <1>1, <3>1, <3>3
      <4> QED
        BY <3>1, <4>1 DEF Owned
    <3> QED
      BY <3>2, <3>3
  <2> QED
    BY <2>1 DEF NoMore
<1>4. /\ tick'[w].phase = "idle" /\ tick[w].phase = "launch"
      /\ \A v \in Workers \ {w} : tick'[v] = tick[v]
  BY DEF Launch, TypeOK, Idle
<1>5. ASSUME NEW t \in Owned(task', w)
      PROVE  task'[t].phase # "claimed"
  <2>1. CASE t \in claimed
    BY <1>1, <1>2, <2>1
  <2>2. CASE t \notin claimed
    BY <1>1, <2>2 DEF Owned, TasksOf, Running, IsTask
  <2> QED
    BY <2>1, <2>2
<1>6. Fits(task', tick[w], w)
  BY <1>3, FitsStill DEF Room
<1>7. Fits(task', tick'[w], w)
  BY <1>4, <1>5, <1>6 DEF Fits
<1> QED
  BY <1>3, <1>4, <1>7, FitsStill DEF Room

LEMMA RoomStep ==
  ASSUME TypeOK, Room, [Next]_vars
  PROVE  Room'
<1> SUFFICES \A v \in Workers : Fits(task', tick'[v], v)
  BY DEF Room, Fits, Owned
<1>a. ASSUME \A v \in Workers : NoMore(v), UNCHANGED tick
      PROVE  \A v \in Workers : Fits(task', tick'[v], v)
  BY <1>a, FitsStill DEF Room
<1>b. ASSUME UNCHANGED task
      PROVE  \A v \in Workers : NoMore(v)
  BY <1>b DEF NoMore
<1>1. ASSUME NEW spec \in Specs, NEW delay \in {0, Interval}, NEW now \in Instants,
             Enqueue(spec, delay, now)
      PROVE  \A v \in Workers : Fits(task', tick'[v], v)
  BY <1>1, <1>a, <1>b DEF Enqueue
<1>2. ASSUME NEW w \in Workers, PollFires(w) \/ Start(w) \/ TickFault(w)
      PROVE  \A v \in Workers : Fits(task', tick'[v], v)
  <2>1. \A v \in Workers : \/ tick'[v] = tick[v]
                           \/ tick'[v].phase \in {"idle", "renew"} /\ tick[v].phase # "launch"
    BY <1>2 DEF PollFires, Start, TickFault, BeginTick, Idle, TypeOK
  <2>2. UNCHANGED task
    BY <1>2 DEF PollFires, Start, TickFault
  <2> QED
    BY <1>b, <2>1, <2>2, FitsStill DEF Room
<1>3. ASSUME NEW w \in Workers, Renew(w)
      PROVE  \A v \in Workers : Fits(task', tick'[v], v)
  <2>1. tick[w].phase = "renew" /\ tick'[w].phase = "renew" /\ UNCHANGED task
    BY <1>3 DEF Renew, TypeOK
  <2>2. \A v \in Workers \ {w} : tick'[v] = tick[v]
    BY <1>3 DEF Renew, TypeOK
  <2> QED
    BY <1>b, <2>1, <2>2, FitsStill DEF Room
<1>4. ASSUME NEW w \in Workers, Release(w)
      PROVE  \A v \in Workers : Fits(task', tick'[v], v)
  <2>1. UNCHANGED task /\ \A v \in Workers \ {w} : tick'[v] = tick[v]
    BY <1>4 DEF Release, TypeOK
  <2> QED
    BY <1>4, <1>b, <2>1, ReleaseFits, FitsStill DEF Room
<1>5. ASSUME NEW w \in Workers, Claim(w)
      PROVE  \A v \in Workers : Fits(task', tick'[v], v)
  BY <1>5, ClaimFits
<1>6. ASSUME NEW w \in Workers, Launch(w)
      PROVE  \A v \in Workers : Fits(task', tick'[v], v)
  BY <1>6, LaunchFits
<1>7. ASSUME NEW w \in Workers, Stop(w) \/ StopResolves(w) \/ Restart(w)
      PROVE  \A v \in Workers : Fits(task', tick'[v], v)
  BY <1>7, <1>a, <1>b DEF Stop, StopResolves, Restart
<1>8. ASSUME NEW w \in Workers, Crash(w)
      PROVE  \A v \in Workers : Fits(task', tick'[v], v)
  <2>1. \A v \in Workers : NoMore(v)
    BY <1>8 DEF Crash, NoMore, Owned
  <2>2. Owned(task', w) = {}
    BY <1>8 DEF Crash, Owned, TasksOf, IsTask
  <2>3. /\ tick'[w].phase = "idle"
        /\ \A v \in Workers \ {w} : tick'[v] = tick[v]
    BY <1>8 DEF Crash, TypeOK, Idle
  <2>4. Fits(task', tick'[w], w)
    BY <2>2, <2>3, FS_EmptySet, TimingAssumption DEF Fits
  <2> QED
    BY <2>1, <2>3, <2>4, FitsStill DEF Room
<1>9. ASSUME NEW t \in Tokens,
             \/ HandlerReturns(t) \/ HandlerThrows(t)
             \/ BookkeepingFault(t) \/ OnCompleteThrows(t)
      PROVE  \A v \in Workers : Fits(task', tick'[v], v)
  <2>1. IsTask(t) /\ \E phase \in TaskPhase \ {"claimed"} : Goto(t, phase)
    BY <1>9 DEF HandlerReturns, HandlerThrows, BookkeepingFault, OnCompleteThrows,
                InPhase, TaskPhase
  <2>2. UNCHANGED tick
    BY <1>9 DEF HandlerReturns, HandlerThrows, BookkeepingFault, OnCompleteThrows
  <2> QED
    BY <1>a, <2>1, <2>2, GotoNoMore
<1>10. ASSUME NEW t \in Tokens, Complete(t) \/ Requeue(t) \/ Fail(t) \/ FailFault(t)
       PROVE  \A v \in Workers : Fits(task', tick'[v], v)
  <2>1. IsTask(t) /\ (Settle(t) \/ Goto(t, "requeue")) /\ UNCHANGED tick
    BY <1>10 DEF Complete, Requeue, Fail, FailFault, InPhase
  <2> QED
    BY <1>a, <2>1, SettleNoMore, GotoNoMore DEF TaskPhase
<1>11. CASE AdvanceTime \/ UNCHANGED vars
  BY <1>11, <1>a, <1>b DEF AdvanceTime, vars
<1> QED
  BY <1>1, <1>2, <1>3, <1>4, <1>5, <1>6, <1>7, <1>8, <1>9, <1>10, <1>11
  DEF Next, TickStep, TaskStep

(* A worker never has more tasks alive than options.concurrency, wherever  *)
(* its ticks are delayed and however often it is stopped and started: the  *)
(* overlap guard of tick lets only one tick at a time count and claim.     *)
THEOREM ConcurrencyBoundedHolds == Spec => []ConcurrencyBounded
<1>1. Init => Room
  <2>1. Init => \A w \in Workers : Owned(task, w) = {} /\ tick[w] = Idle
    BY DEF Init, Owned
  <2> QED
    BY <2>1, FS_EmptySet, TimingAssumption DEF Room, Fits, Idle
<1>2. TypeOK /\ Room /\ [Next]_vars => Room'
  BY RoomStep
<1>3. TypeOK /\ Room => ConcurrencyBounded
  <2> SUFFICES ASSUME TypeOK, Room, NEW w \in Workers
               PROVE  Cardinality(TasksOf(w)) <= Concurrency
    BY DEF ConcurrencyBounded
  <2>1. TasksOf(w) = Owned(task, w)
    BY DEF TasksOf, IsTask, Owned
  <2>2. Cardinality(Owned(task, w)) + (IF tick[w].phase = "claim"
                                         THEN tick[w].capacity ELSE 0) <= Concurrency
    BY DEF Room, Fits
  <2>3. tick[w].capacity \in Nat
    BY DEF TypeOK
  <2> QED
    BY <2>1, <2>2, <2>3, OwnedFinite, TimingAssumption
<1> QED
  BY <1>1, <1>2, <1>3, TypeCorrect, PTL DEF Spec


-----------------------------------------------------------------------------
(* Retention. *)

(* Every record is still there, with its createdAt.                        *)
Descends(jm, mid) ==
  \A j \in JobIds :
    jm[j] # NoJob => mid[j] # NoJob /\ mid[j].created = jm[j].created

(* A step writes the map once and prunes it once. *)
Persisted(jm, new) ==
  \/ \E mid \in JobMap : Descends(jm, mid) /\ new = PruneFinished(mid)
  \/ new \in JobMap /\ Descends(jm, new)

(* A step that writes nothing.                                              *)
LEMMA SamePersisted ==
  ASSUME NEW jm \in JobMap
  PROVE  Persisted(jm, jm)
BY DEF Persisted, Descends

(* Writing one record that keeps its createdAt, or a new one.               *)
LEMMA PutPersisted ==
  ASSUME NEW jm \in JobMap, NEW i \in JobIds, NEW r \in Job,
         jm[i] # NoJob => r.created = jm[i].created
  PROVE  Persisted(jm, Put(jm, i, r))
<1> DEFINE mid == [jm EXCEPT ![i] = r]
<1>1. mid \in JobMap /\ mid[i] = r /\ \A j \in JobIds \ {i} : mid[j] = jm[j]
  BY DEF JobMap
<1>2. Put(jm, i, r) = PruneFinished(mid)
  BY DEF Put
<1> HIDE DEF mid
<1>3. Descends(jm, mid)
  BY <1>1, NoJobAssumption DEF Descends
<1> QED
  BY <1>1, <1>2, <1>3 DEF Persisted

(* Handing a job back, or ending it, leaves createdAt alone.                *)
LEMMA UnleasePersisted ==
  ASSUME NEW jm \in JobMap, NEW i \in JobIds, jm[i] # NoJob,
         NEW status \in Status, NEW n \in Nat, NEW runIn \in Int
  PROVE  Persisted(jm, Put(jm, i, Unleased(jm[i], status, n, runIn)))
<1> DEFINE r == Unleased(jm[i], status, n, runIn)
<1>1. jm[i] \in Job
  BY DEF JobMap
<1>2. r \in Job /\ r.created = jm[i].created
  BY <1>1, UnleasedType DEF Unleased
<1> HIDE DEF r
<1>3. Persisted(jm, Put(jm, i, r))
  BY <1>2, PutPersisted
<1> QED
  BY <1>3 DEF r

(* Nor does what the owner of a lease may do.                               *)
LEMMA OwnerPersisted ==
  ASSUME NEW jm \in JobMap, NEW i \in JobIds, NEW t \in Tokens, NEW delay \in Int
  PROVE  /\ Persisted(jm, CompleteJob(jm, i, t))
         /\ Persisted(jm, RetryJob(jm, i, t, delay))
         /\ Persisted(jm, GiveUpJob(jm, i, t))
<1>1. CASE VerifyOwner(jm, i, t)
  <2>1. jm[i] # NoJob /\ jm[i].attempts \in Nat /\ jm[i].runIn \in Int
    BY <1>1 DEF VerifyOwner, JobMap, Job
  <2>2. jm[i].attempts + 1 \in Nat /\ {"completed", "queued", "failed"} \subseteq Status
    BY <2>1 DEF Status
  <2> QED
    BY <1>1, <2>1, <2>2, UnleasePersisted DEF CompleteJob, RetryJob, GiveUpJob
<1>2. CASE ~VerifyOwner(jm, i, t)
  BY <1>2, SamePersisted DEF CompleteJob, RetryJob, GiveUpJob
<1> QED
  BY <1>1, <1>2

(* Nor does a heartbeat.                                                    *)
LEMMA HeartbeatPersisted ==
  ASSUME NEW jm \in JobMap, NEW i \in JobIds, NEW t, NEW lease \in Int
  PROVE  Persisted(jm, HeartbeatJob(jm, i, t, lease))
<1>1. CASE VerifyOwner(jm, i, t) /\ jm[i].status = "running"
  <2> DEFINE r == [jm[i] EXCEPT !.leaseIn = lease]
  <2>1. jm[i] \in Job /\ jm[i] # NoJob
    BY <1>1 DEF VerifyOwner, JobMap
  <2>2. r \in Job /\ r.created = jm[i].created
    BY <2>1 DEF Job
  <2>3. HeartbeatJob(jm, i, t, lease) = Put(jm, i, r)
    BY <1>1 DEF HeartbeatJob
  <2> HIDE DEF r
  <2> QED
    BY <2>1, <2>2, <2>3, PutPersisted
<1>2. CASE ~(VerifyOwner(jm, i, t) /\ jm[i].status = "running")
  BY <1>2, SamePersisted DEF HeartbeatJob
<1> QED
  BY <1>1, <1>2

(* Nor does releasing expired leases.                                       *)
LEMMA ReleasePersisted ==
  ASSUME NEW jm \in JobMap, NEW a \in Int
  PROVE  Persisted(jm, ReleaseExpired(jm, a))
<1>1. CASE Expired(jm, a) = {}
  BY <1>1, SamePersisted DEF ReleaseExpired
<1>2. CASE Expired(jm, a) # {}
  <2> DEFINE r(j) == Unleased(jm[j], "queued", jm[j].attempts, jm[j].runIn)
             mid == [j \in JobIds |-> IF j \in Expired(jm, a) THEN r(j) ELSE jm[j]]
  <2>1. ASSUME NEW j \in Expired(jm, a)
        PROVE  /\ jm[j] # NoJob /\ r(j) \in Job /\ r(j) # NoJob
               /\ r(j).created = jm[j].created
    <3>1. j \in JobIds /\ jm[j] \in Job /\ jm[j] # NoJob
      BY <2>1 DEF Expired, With, JobMap
    <3>2. jm[j].attempts \in Nat /\ jm[j].runIn \in Int /\ "queued" \in Status
      BY <3>1 DEF Job, Status
    <3> QED
      BY <3>1, <3>2, UnleasedType DEF Unleased
  <2>2. mid \in JobMap
    BY <2>1 DEF JobMap
  <2>3. ReleaseExpired(jm, a) = PruneFinished(mid)
    BY <1>2 DEF ReleaseExpired
  <2>4. Descends(jm, mid)
    BY <2>1 DEF Descends
  <2> HIDE DEF mid
  <2> QED
    BY <2>2, <2>3, <2>4 DEF Persisted
<1> QED
  BY <1>1, <1>2

(* Nor does a claim.                                                        *)
LEMMA ClaimPersisted ==
  ASSUME NEW jm \in JobMap, NEW S \in SUBSET With(jm, {"queued"}),
         NEW token \in [S -> Tokens], NEW lease \in Int
  PROVE  Persisted(jm, ClaimJobs(jm, token, lease))
<1> DEFINE mid == [j \in JobIds |->
             IF j \in DOMAIN token THEN Leased(jm[j], lease, token[j]) ELSE jm[j]]
<1>1. ASSUME NEW j \in S
      PROVE  /\ jm[j] # NoJob
             /\ Leased(jm[j], lease, token[j]) \in Job
             /\ Leased(jm[j], lease, token[j]) # NoJob
             /\ Leased(jm[j], lease, token[j]).created = jm[j].created
  <2>1. j \in JobIds /\ jm[j] \in Job /\ jm[j] # NoJob
    BY <1>1 DEF With, JobMap
  <2> QED
    BY <2>1, LeasedType DEF Leased
<1>2. DOMAIN token = S
  OBVIOUS
<1>3. mid \in JobMap
  BY <1>1, <1>2 DEF JobMap
<1>4. Descends(jm, mid)
  BY <1>1, <1>2 DEF Descends
<1>5. ClaimJobs(jm, token, lease) = PruneFinished(mid)
  BY DEF ClaimJobs
<1> HIDE DEF mid
<1> QED
  BY <1>3, <1>4, <1>5 DEF Persisted

(* Nor does time.                                                           *)
LEMMA ElapsePersisted ==
  ASSUME NEW jm \in JobMap
  PROVE  Persisted(jm, Elapse(jm))
<1>1. Elapse(jm) \in JobMap
  BY ElapseEffect
<1>2. ASSUME NEW j \in JobIds, jm[j] # NoJob
      PROVE  Elapse(jm)[j] # NoJob /\ Elapse(jm)[j].created = jm[j].created
  <2>1. jm[j] \in Job
    BY <1>2 DEF JobMap
  <2>2. Aged(jm[j]) \in Job
    BY <2>1, MaxLagAssumption DEF Aged, Job, AtLeast
  <2>3. Elapse(jm)[j] = Aged(jm[j])
    BY <1>2 DEF Elapse
  <2> QED
    BY <2>2, <2>3, NoJobAssumption DEF Aged
<1> QED
  BY <1>1, <1>2 DEF Persisted, Descends

(* Pruning keeps the newest: whatever sorts before a record also sorts     *)
(* before those that it sorts before.                                      *)
LEMMA NewestStay ==
  ASSUME NEW mid \in JobMap, NEW i \in JobIds, NEW j \in JobIds,
         mid[j] # NoJob, PruneFinished(mid)[j] = NoJob,
         i \in Finished(PruneFinished(mid))
  PROVE  \/ mid[i].created > mid[j].created
         \/ mid[i].created = mid[j].created /\ i < j
<1> DEFINE before(x) == {k \in Finished(mid) : SortsBefore(mid, k, x)}
<1>1. j \in Pruned(mid) /\ i \notin Pruned(mid) /\ i \in Finished(mid) /\ i # j
  BY DEF PruneFinished, Finished, With
<1>2. ~(Cardinality(before(i)) >= MaxCompleted) /\ Cardinality(before(j)) >= MaxCompleted
        /\ j \in Finished(mid)
  BY <1>1 DEF Pruned
<1>3. \A k \in JobIds : k \in Int /\ (mid[k] # NoJob => mid[k].created \in Int)
  <2>1. ASSUME NEW k \in JobIds
        PROVE  k \in Int
    BY <2>1 DEF JobIds
  <2>2. ASSUME NEW k \in JobIds, mid[k] # NoJob
        PROVE  mid[k].created \in Int
    <3>1. mid[k] \in Job
      BY <2>2 DEF JobMap
    <3>2. mid[k].created \in Instants
      BY <3>1 DEF Job
    <3>3. \A x \in Instants : x \in Int
      BY InstantsAssumption
    <3> QED
      BY <3>2, <3>3, Zenon
  <2> QED
    BY <2>1, <2>2
<1>4. ASSUME ~SortsBefore(mid, i, j)
      PROVE  FALSE
  <2>1. SortsBefore(mid, j, i)
    BY <1>1, <1>2, <1>3, <1>4 DEF SortsBefore, Finished, With
  <2>2. before(j) \subseteq before(i)
    <3>1. ASSUME NEW k \in before(j)
          PROVE  k \in before(i)
      <4>1. k \in Finished(mid) /\ SortsBefore(mid, k, j)
        OBVIOUS
      <4>2. SortsBefore(mid, k, i)
        BY <1>1, <1>2, <1>3, <2>1, <4>1 DEF SortsBefore, Finished, With
      <4> QED
        BY <4>1, <4>2
    <3> QED
      BY <3>1
  <2>3. IsFiniteSet(before(i))
    <3>1. IsFiniteSet(JobIds)
      BY FS_Interval, MaxJobsAssumption DEF JobIds
    <3>2. before(i) \subseteq JobIds
      BY DEF Finished, With
    <3> QED
      BY <3>1, <3>2, FS_Subset
  <2>4. /\ Cardinality(before(j)) <= Cardinality(before(i))
        /\ Cardinality(before(i)) \in Nat /\ Cardinality(before(j)) \in Nat
    BY <2>2, <2>3, FS_Subset, FS_CardinalityType
  <2> HIDE DEF before
  <2> QED
    BY <1>2, <2>4, MaxCompletedAssumption
<1> QED
  BY <1>4 DEF SortsBefore

(* The next run of a recurring job is a new record.                         *)
LEMMA EnqueueNextPersisted ==
  ASSUME TypeOK, FreshIds, NEW t \in Tokens, IsTask(t), EnqueueNext(t)
  PROVE  Persisted(jobs, jobs')
<1>1. task[t].spec \in Specs /\ task[t].created \in Instants /\ task[t].payload \in JobIds
  BY DEF TypeOK, IsTask, Task
<1> DEFINE r == NewJob(task[t].spec, Interval, task[t].created, task[t].payload)
<1>2. r \in Job
  BY <1>1, NewJobType, TimingAssumption
<1>3. nextId \in JobIds /\ jobs' = Put(jobs, nextId, r) /\ jobs[nextId] = NoJob
  BY DEF EnqueueNext, FreshIds, JobIds
<1> HIDE DEF r
<1> QED
  BY <1>2, <1>3, PutPersisted DEF TypeOK, JobMap

(* Every step keeps the createdAt of the records and prunes them once.     *)
LEMMA HistoryStep ==
  ASSUME TypeOK, FreshIds, [Next]_vars
  PROVE  Persisted(jobs, jobs')
<1>a. jobs \in JobMap
  BY DEF TypeOK, JobMap
<1>b. ASSUME UNCHANGED jobs
      PROVE  Persisted(jobs, jobs')
  BY <1>a, <1>b, SamePersisted
<1>c. \A w \in Workers : age[w] \in Int /\ Lease - age[w] \in Int
  BY TimingAssumption, MaxLagAssumption DEF TypeOK
<1>d. \A t \in Tokens : IsTask(t) => task[t].job \in JobIds /\ task[t].attempts \in Nat
  BY DEF TypeOK, IsTask, Task
<1>1. ASSUME NEW spec \in Specs, NEW delay \in {0, Interval}, NEW now \in Instants,
             Enqueue(spec, delay, now)
      PROVE  Persisted(jobs, jobs')
  <2> DEFINE r == NewJob(spec, delay, now, nextId)
  <2>1. nextId \in JobIds /\ jobs' = Put(jobs, nextId, r)
    BY <1>1 DEF Enqueue
  <2>2. r \in Job
    BY <2>1, NewJobType, TimingAssumption
  <2>3. jobs[nextId] = NoJob
    BY <2>1 DEF FreshIds, JobIds
  <2> HIDE DEF r
  <2> QED
    BY <1>a, <2>1, <2>2, <2>3, PutPersisted
<1>2. ASSUME NEW w \in Workers, Renew(w)
      PROVE  Persisted(jobs, jobs')
  <2>1. PICK j \in ToRenew(w) : jobs' = HeartbeatJob(jobs, j, held[w][j], Lease - age[w])
    BY <1>2 DEF Renew
  <2>2. j \in JobIds
    BY <2>1 DEF ToRenew, InFlight
  <2> QED
    BY <1>a, <1>c, <2>1, <2>2, HeartbeatPersisted
<1>3. ASSUME NEW w \in Workers, Release(w)
      PROVE  Persisted(jobs, jobs')
  BY <1>3, <1>a, <1>c, ReleasePersisted DEF Release
<1>4. ASSUME NEW w \in Workers, Claim(w)
      PROVE  Persisted(jobs, jobs')
  <2>1. PICK S \in ClaimChoices(jobs, tick[w].capacity, age[w]) :
          /\ Mintings(S) # {}
          /\ jobs' = IF S = {} THEN jobs
                     ELSE ClaimJobs(jobs, CHOOSE f \in Mintings(S) : TRUE, Lease - age[w])
    BY <1>4 DEF Claim
  <2> DEFINE token == CHOOSE f \in Mintings(S) : TRUE
  <2>2. token \in Mintings(S)
    BY <2>1
  <2>3. S \in SUBSET With(jobs, {"queued"})
    BY DEF ClaimChoices, Due
  <2>4. token \in [S -> Tokens]
    BY <2>2 DEF Mintings, FreeTokens
  <2>5. jobs' = IF S = {} THEN jobs ELSE ClaimJobs(jobs, token, Lease - age[w])
    BY <2>1
  <2> HIDE DEF token
  <2>6. CASE S = {}
    BY <1>b, <2>5, <2>6
  <2>7. CASE S # {}
    BY <1>a, <1>c, <2>3, <2>4, <2>5, <2>7, ClaimPersisted
  <2> QED
    BY <2>6, <2>7
<1>5. ASSUME NEW w \in Workers,
             \/ PollFires(w) \/ Launch(w) \/ TickFault(w) \/ Start(w) \/ Stop(w)
             \/ StopResolves(w) \/ Crash(w) \/ Restart(w)
      PROVE  Persisted(jobs, jobs')
  BY <1>5, <1>b DEF PollFires, Launch, TickFault, Start, Stop, StopResolves, Crash, Restart
<1>6. ASSUME NEW t \in Tokens,
             HandlerReturns(t) \/ HandlerThrows(t) \/ BookkeepingFault(t) \/ FailFault(t)
      PROVE  Persisted(jobs, jobs')
  BY <1>6, <1>b DEF HandlerReturns, HandlerThrows, BookkeepingFault, FailFault
<1>7. ASSUME NEW t \in Tokens, Complete(t)
      PROVE  Persisted(jobs, jobs')
  BY <1>7, <1>a, <1>d, OwnerPersisted DEF Complete, InPhase
<1>8. ASSUME NEW t \in Tokens, Requeue(t)
      PROVE  Persisted(jobs, jobs')
  BY <1>8, EnqueueNextPersisted DEF Requeue, InPhase
<1>9. ASSUME NEW t \in Tokens, Fail(t)
      PROVE  Persisted(jobs, jobs')
  <2>1. task[t].job \in JobIds /\ backoffFor(task[t].attempts + 1) \in Int
    BY <1>9, <1>d DEF Fail, InPhase, backoffFor
  <2> QED
    BY <1>9, <1>a, <2>1, OwnerPersisted DEF Fail
<1>10. ASSUME NEW t \in Tokens, OnCompleteThrows(t)
       PROVE  Persisted(jobs, jobs')
  BY <1>10, <1>a, <1>d, OwnerPersisted, EnqueueNextPersisted DEF OnCompleteThrows, InPhase
<1>11. CASE AdvanceTime
  BY <1>11, <1>a, ElapsePersisted DEF AdvanceTime
<1>12. CASE UNCHANGED vars
  BY <1>12, <1>b DEF vars
<1> QED
  BY <1>1, <1>2, <1>3, <1>4, <1>5, <1>6, <1>7, <1>8, <1>9, <1>10, <1>11, <1>12
  DEF Next, TickStep, TaskStep

(* Whatever the retention, the clocks of the enqueuers and the order in    *)
(* which jobs finish, the job that a write drops is no newer than any      *)
(* finished job that stays; of equal createdAt the first enqueued stay     *)
(* (jobs-store.ts, pruneFinished).                                         *)
THEOREM NewestHistoryKeptHolds == Spec => NewestHistoryKept
<1>1. TypeOK /\ FreshIds /\ [Next]_vars =>
        [\A i, j \in JobIds :
           jobs[j] # NoJob /\ jobs'[j] = NoJob /\ i \in Finished(jobs)' =>
             \/ jobs'[i].created > jobs[j].created
             \/ jobs'[i].created = jobs[j].created /\ i < j]_jobs
  <2> SUFFICES ASSUME TypeOK, FreshIds, [Next]_vars,
                      NEW i \in JobIds, NEW j \in JobIds,
                      jobs[j] # NoJob, jobs'[j] = NoJob, i \in Finished(jobs')
               PROVE  \/ jobs'[i].created > jobs[j].created
                      \/ jobs'[i].created = jobs[j].created /\ i < j
    BY DEF Finished, With
  <2>1. Persisted(jobs, jobs')
    BY HistoryStep
  <2>2. PICK mid \in JobMap : Descends(jobs, mid) /\ jobs' = PruneFinished(mid)
    BY <2>1 DEF Persisted, Descends
  <2>3. mid[j] # NoJob /\ mid[j].created = jobs[j].created
    BY <2>2 DEF Descends
  <2>4. mid[i] = jobs'[i]
    BY <2>2 DEF PruneFinished, Finished, With
  <2> QED
    BY <2>2, <2>3, <2>4, NewestStay
<1> QED
  BY <1>1, Inductive, PTL DEF Spec, IInv, NewestHistoryKept

-----------------------------------------------------------------------------
(* Leases that are renewed in time.                                        *)

(* A worker ticks in time, and a lease outlives two ticks.                 *)
Punctual == Timely /\ 2 * MaxLag <= Lease

(* The store has not failed and nobody has called stop() so far.           *)
Undisturbed == mishaps["fault"] = 0 /\ mishaps["stop"] = 0

(* The heartbeat of job j is among those that this tick has still to send. *)
Late(w, j) == tick[w].phase = "renew" /\ j \in tick[w].todo
Slack(w, j) == IF Late(w, j) THEN MaxLag ELSE 0

(* The record is the task's own, with a lease as long as at the last       *)
(* renewal, and the worker knows of it or is about to.                     *)
Owns(t, w, j) ==
  /\ VerifyOwner(jobs, j, t)
  /\ jobs[j].leaseIn + age[w] + Slack(w, j) >= Lease
  /\ IF task[t].phase = "claimed" THEN tick[w].phase = "launch" ELSE held[w][j] = t

(* A task that requeues is done with its job; any other owns it.           *)
Sound(t) ==
  LET w == task[t].worker
      j == task[t].job
  IN /\ mode[w] = "started"
     /\ j < nextId
     /\ IF task[t].phase = "requeue"
          THEN jobs[j] = NoJob \/ jobs[j].status = "completed"
          ELSE Owns(t, w, j)

AllSound == \A t \in Tokens : IsTask(t) => Sound(t)

(* Without stop() a worker is started once in its life, and ticks only     *)
(* when it is.                                                             *)
NeverStopped ==
  \A w \in Workers : /\ mode[w] \in {"new", "started", "down"}
                     /\ tick[w].phase # "idle" => mode[w] = "started"

LInv == IInv /\ HeldByOwnTask /\ NeverStopped /\ AllSound

(* What one write does to a record that it is not about.                   *)
Steady(o, n) == n = o \/ (o # NoJob /\ o.status \in {"completed", "failed"} /\ n = NoJob)

(* Writing one record leaves the others as they are, or prunes them.        *)
LEMMA PutSteady ==
  ASSUME NEW jm \in JobMap, NEW i \in JobIds, NEW r \in Job
  PROVE  /\ \A j \in JobIds \ {i} : Steady(jm[j], Put(jm, i, r)[j])
         /\ \/ Put(jm, i, r)[i] = r
            \/ Put(jm, i, r)[i] = NoJob /\ r.status \in {"completed", "failed"}
<1> DEFINE mid == [jm EXCEPT ![i] = r]
<1>1. mid \in JobMap /\ mid[i] = r /\ \A j \in JobIds \ {i} : mid[j] = jm[j]
  BY DEF JobMap
<1>2. Put(jm, i, r) = PruneFinished(mid)
  BY DEF Put
<1> HIDE DEF mid
<1> QED
  BY <1>1, <1>2, PruneEffect DEF Steady

(* The same when the record is handed back or ended.                        *)
LEMMA UnleaseSteady ==
  ASSUME NEW jm \in JobMap, NEW i \in JobIds, jm[i] # NoJob,
         NEW status \in Status, NEW n \in Nat, NEW runIn \in Int
  PROVE  LET new == Put(jm, i, Unleased(jm[i], status, n, runIn))
         IN /\ \A j \in JobIds \ {i} : Steady(jm[j], new[j])
            /\ \/ new[i] = Unleased(jm[i], status, n, runIn)
               \/ new[i] = NoJob /\ status \in {"completed", "failed"}
<1> DEFINE r == Unleased(jm[i], status, n, runIn)
<1>1. jm[i] \in Job
  BY DEF JobMap
<1>2. r \in Job /\ r.status = status
  BY <1>1, UnleasedType DEF Unleased
<1> HIDE DEF r
<1>3. /\ \A j \in JobIds \ {i} : Steady(jm[j], Put(jm, i, r)[j])
      /\ \/ Put(jm, i, r)[i] = r
         \/ Put(jm, i, r)[i] = NoJob /\ status \in {"completed", "failed"}
  BY <1>2, PutSteady
<1> QED
  BY <1>3 DEF r

(* complete and fail touch one record.                                     *)
LEMMA OwnerSteady ==
  ASSUME NEW jm \in JobMap, NEW i \in JobIds, NEW t \in Tokens, NEW delay \in Int
  PROVE  /\ \A j \in JobIds \ {i} : /\ Steady(jm[j], CompleteJob(jm, i, t)[j])
                                    /\ Steady(jm[j], RetryJob(jm, i, t, delay)[j])
                                    /\ Steady(jm[j], GiveUpJob(jm, i, t)[j])
         /\ VerifyOwner(jm, i, t) =>
              LET n == CompleteJob(jm, i, t)[i] IN n = NoJob \/ n.status = "completed"
<1>1. CASE VerifyOwner(jm, i, t)
  <2>1. jm[i] # NoJob /\ jm[i].attempts \in Nat /\ jm[i].runIn \in Int
    BY <1>1 DEF VerifyOwner, JobMap, Job
  <2>2. jm[i].attempts + 1 \in Nat /\ {"completed", "queued", "failed"} \subseteq Status
    BY <2>1 DEF Status
  <2>3. \A j \in JobIds \ {i} : Steady(jm[j], RetryJob(jm, i, t, delay)[j])
    BY <1>1, <2>1, <2>2, UnleaseSteady DEF RetryJob
  <2>4. \A j \in JobIds \ {i} : Steady(jm[j], GiveUpJob(jm, i, t)[j])
    BY <1>1, <2>1, <2>2, UnleaseSteady DEF GiveUpJob
  <2>5. /\ \A j \in JobIds \ {i} : Steady(jm[j], CompleteJob(jm, i, t)[j])
        /\ \/ CompleteJob(jm, i, t)[i] =
                Unleased(jm[i], "completed", jm[i].attempts, jm[i].runIn)
           \/ CompleteJob(jm, i, t)[i] = NoJob
    BY <1>1, <2>1, <2>2, UnleaseSteady DEF CompleteJob
  <2> QED
    BY <2>3, <2>4, <2>5 DEF Unleased
<1>2. CASE ~VerifyOwner(jm, i, t)
  BY <1>2 DEF CompleteJob, RetryJob, GiveUpJob, Steady
<1> QED
  BY <1>1, <1>2

(* heartbeat touches one record, and its lease only.                       *)
LEMMA HeartbeatSteady ==
  ASSUME NEW jm \in JobMap, NEW i \in JobIds, NEW t, NEW lease \in Int
  PROVE  LET new == HeartbeatJob(jm, i, t, lease)
         IN /\ \A j \in JobIds \ {i} : Steady(jm[j], new[j])
            /\ IF VerifyOwner(jm, i, t) /\ jm[i].status = "running"
                 THEN /\ new[i] # NoJob /\ new[i].owner = t /\ new[i].leaseIn = lease
                 ELSE new[i] = jm[i]
<1>1. CASE VerifyOwner(jm, i, t) /\ jm[i].status = "running"
  <2> DEFINE r == [jm[i] EXCEPT !.leaseIn = lease]
  <2>1. jm[i] \in Job /\ jm[i] # NoJob /\ jm[i].owner = t
    BY <1>1 DEF VerifyOwner, JobMap
  <2>2. /\ r \in Job /\ r.status = "running" /\ r.owner = t /\ r.leaseIn = lease
    BY <1>1, <2>1 DEF Job
  <2>3. HeartbeatJob(jm, i, t, lease) = Put(jm, i, r)
    BY <1>1 DEF HeartbeatJob
  <2> HIDE DEF r
  <2> QED
    BY <1>1, <2>1, <2>2, <2>3, PutSteady, NoJobAssumption
<1>2. CASE ~(VerifyOwner(jm, i, t) /\ jm[i].status = "running")
  BY <1>2 DEF HeartbeatJob, Steady
<1> QED
  BY <1>1, <1>2

(* releaseExpired touches the expired records.                             *)
LEMMA ReleaseSteady ==
  ASSUME NEW jm \in JobMap, NEW a \in Int, NEW j \in JobIds \ Expired(jm, a)
  PROVE  Steady(jm[j], ReleaseExpired(jm, a)[j])
<1> DEFINE mid == [i \in JobIds |->
             IF i \in Expired(jm, a)
               THEN Unleased(jm[i], "queued", jm[i].attempts, jm[i].runIn) ELSE jm[i]]
<1>1. mid[j] = jm[j]
  OBVIOUS
<1>2. CASE Expired(jm, a) = {}
  BY <1>2 DEF ReleaseExpired, Steady
<1>3. CASE Expired(jm, a) # {}
  <2>1. ReleaseExpired(jm, a) = PruneFinished(mid)
    BY <1>3 DEF ReleaseExpired
  <2> HIDE DEF mid
  <2> QED
    BY <1>1, <2>1 DEF PruneFinished, Pruned, Finished, With, Steady
<1> QED
  BY <1>2, <1>3

(* claim touches the records it takes.                                     *)
LEMMA ClaimSteady ==
  ASSUME NEW jm \in JobMap, NEW S \in SUBSET With(jm, {"queued"}),
         NEW token \in [S -> Tokens], NEW lease \in Int, NEW j \in JobIds
  PROVE  LET new == ClaimJobs(jm, token, lease)
         IN IF j \in S THEN /\ new[j] # NoJob /\ new[j].owner = token[j]
                            /\ new[j].leaseIn = lease
                       ELSE Steady(jm[j], new[j])
<1> DEFINE mid == [i \in JobIds |->
             IF i \in DOMAIN token THEN Leased(jm[i], lease, token[i]) ELSE jm[i]]
<1>1. DOMAIN token = S
  OBVIOUS
<1>2. ClaimJobs(jm, token, lease) = PruneFinished(mid)
  BY DEF ClaimJobs
<1>3. CASE j \in S
  <2>1. jm[j] \in Job
    BY <1>3 DEF With, JobMap
  <2>2. /\ mid[j] # NoJob /\ mid[j].status = "running" /\ mid[j].owner = token[j]
        /\ mid[j].leaseIn = lease
    BY <1>1, <1>3, <2>1, LeasedType DEF Leased
  <2> HIDE DEF mid
  <2> QED
    BY <1>2, <1>3, <2>2 DEF PruneFinished, Pruned, Finished, With
<1>4. CASE j \notin S
  <2>1. mid[j] = jm[j]
    BY <1>1, <1>4
  <2> HIDE DEF mid
  <2> QED
    BY <1>2, <1>4, <2>1 DEF PruneFinished, Pruned, Finished, With, Steady
<1> QED
  BY <1>3, <1>4

(* The job of a task that owns its record is no other task's job.          *)
LEMMA OwnJob ==
  ASSUME LInv, NEW t \in Tokens, NEW u \in Tokens, IsTask(t), IsTask(u),
         task[t].phase # "requeue", task[t].job = task[u].job
  PROVE  t = u
<1>1. task[t].job \in JobIds
  BY DEF LInv, IInv, TypeOK, IsTask, Task
<1>2. VerifyOwner(jobs, task[t].job, t)
  BY DEF LInv, AllSound, Sound, Owns
<1>3. jobs[task[t].job].status = "running"
  BY <1>1, <1>2, NoTokenAssumption
  DEF LInv, IInv, LeaseOwnership, OwnedWhileRunning, VerifyOwner
<1>4. task[u].phase # "requeue"
  BY <1>2, <1>3 DEF LInv, AllSound, Sound, VerifyOwner
<1>5. VerifyOwner(jobs, task[u].job, u)
  BY <1>4 DEF LInv, AllSound, Sound, Owns
<1> QED
  BY <1>2, <1>5 DEF VerifyOwner

(* A step that does not touch a task, its worker or its job.               *)
LEMMA SoundStill ==
  ASSUME LInv, NEW t \in Tokens, IsTask(t), task'[t] = task[t],
         nextId' \in Int, nextId <= nextId',
         Steady(jobs[task[t].job], jobs'[task[t].job]),
         tick'[task[t].worker] = tick[task[t].worker],
         age'[task[t].worker] = age[task[t].worker],
         mode'[task[t].worker] = mode[task[t].worker],
         held'[task[t].worker][task[t].job] = held[task[t].worker][task[t].job]
  PROVE  Sound(t)'
<1> DEFINE w == task[t].worker
           j == task[t].job
<1>1. w \in Workers /\ j \in JobIds /\ j \in Int /\ nextId \in Int
  BY DEF LInv, IInv, TypeOK, IsTask, Task, JobIds
<1>2. Sound(t)
  BY DEF LInv, AllSound
<1>3. task[t].phase # "requeue" => jobs[j].status = "running" /\ jobs[j] # NoJob
  BY <1>1, <1>2, NoTokenAssumption
  DEF Sound, Owns, LInv, IInv, LeaseOwnership, OwnedWhileRunning, VerifyOwner
<1>4. task[t].phase # "requeue" => jobs'[j] = jobs[j]
  BY <1>3 DEF Steady
<1> QED
  BY <1>1, <1>2, <1>4 DEF Sound, Owns, VerifyOwner, Slack, Late, Steady

(* The first heartbeat list of a tick holds every job that is running.     *)
LEMMA PollSound ==
  ASSUME LInv, NEW w \in Workers, PollFires(w), NEW t \in Tokens, IsTask(t)
  PROVE  Sound(t)'
<1>1. /\ task[t].worker \in Workers /\ task[t].job \in JobIds
      /\ Sound(t) /\ nextId \in Int
  BY DEF LInv, IInv, TypeOK, IsTask, Task, AllSound
<1>2. CASE task[t].worker # w
  BY <1>1, <1>2, SoundStill DEF PollFires, BeginTick, LInv, IInv, TypeOK, Steady
<1>3. CASE task[t].worker = w
  <2> DEFINE j == task[t].job
  <2>1. /\ tick'[w].phase = "renew" /\ tick'[w].todo = InFlight(w) /\ age'[w] = 0
        /\ UNCHANGED <<jobs, nextId, task, held, mode>> /\ tick[w].phase = "idle"
    BY DEF PollFires, BeginTick, LInv, IInv, TypeOK
  <2>2. CASE task[t].phase = "requeue"
    BY <1>1, <1>3, <2>1, <2>2 DEF Sound
  <2>3. CASE task[t].phase # "requeue"
    <3>1. Owns(t, w, j)
      BY <1>1, <1>3, <2>3 DEF Sound
    <3>2. held[w][j] = t /\ ~Late(w, j) /\ task[t].phase # "claimed"
      BY <2>1, <3>1 DEF Owns, Late
    <3>3. j \in InFlight(w)
      BY <1>1, <3>2, NoTokenAssumption DEF InFlight
    <3>4. age[w] \in 0 .. MaxLag /\ jobs[j] \in Job
      BY <1>1, <3>1 DEF Owns, VerifyOwner, LInv, IInv, TypeOK
    <3>5. jobs[j].leaseIn + age[w] >= Lease
      BY <3>1, <3>2, <3>4, MaxLagAssumption DEF Owns, Slack, Job
    <3>6. jobs[j].leaseIn + 0 + MaxLag >= Lease
      BY <3>4, <3>5, MaxLagAssumption, TimingAssumption DEF Job
    <3>7. Owns(t, w, j)'
      BY <2>1, <3>1, <3>2, <3>3, <3>6 DEF Owns, VerifyOwner, Slack, Late
    <3> QED
      BY <1>1, <1>3, <2>1, <2>3, <3>7 DEF Sound
  <2> QED
    BY <2>2, <2>3
<1> QED
  BY <1>2, <1>3

(* A heartbeat renews the job of the task that the worker holds for it.    *)
LEMMA RenewSound ==
  ASSUME LInv, NEW w \in Workers, Renew(w), NEW t \in Tokens, IsTask(t)
  PROVE  Sound(t)'
<1>1. PICK i \in ToRenew(w) : /\ jobs' = HeartbeatJob(jobs, i, held[w][i], Lease - age[w])
                              /\ tick' = [tick EXCEPT ![w].todo = @ \ {i}]
  BY DEF Renew
<1> DEFINE u == held[w][i]
           v == task[t].worker
           j == task[t].job
<1>2. /\ i \in JobIds /\ u # NoToken /\ tick[w].phase = "renew"
      /\ UNCHANGED <<nextId, task, held, age, mode>>
  BY <1>1 DEF Renew, ToRenew, InFlight
<1>3. u \in Tokens /\ IsTask(u) /\ task[u].worker = w /\ task[u].job = i
  BY <1>2, HeldRuns DEF LInv, HeldRunning, Runs, IsTask
<1>4. v \in Workers /\ j \in JobIds /\ nextId \in Int /\ Sound(t) /\ jobs \in JobMap
  BY DEF LInv, IInv, TypeOK, IsTask, Task, AllSound, JobMap
<1>5. Lease - age[w] \in Int
  BY MaxLagAssumption, TimingAssumption DEF LInv, IInv, TypeOK
<1>6. /\ \A x \in JobIds \ {i} : Steady(jobs[x], jobs'[x])
      /\ IF VerifyOwner(jobs, i, u) /\ jobs[i].status = "running"
           THEN jobs'[i] # NoJob /\ jobs'[i].owner = u /\ jobs'[i].leaseIn = Lease - age[w]
           ELSE jobs'[i] = jobs[i]
  BY <1>1, <1>2, <1>4, <1>5, HeartbeatSteady
<1>7. /\ tick'[w].phase = "renew" /\ tick'[w].todo = tick[w].todo \ {i}
      /\ \A x \in Workers \ {w} : tick'[x] = tick[x]
  BY <1>1, <1>2 DEF LInv, IInv, TypeOK
<1> HIDE DEF u
<1>8. CASE task[t].phase = "requeue"
  <2>1. jobs'[j] = NoJob \/ jobs'[j].status = "completed"
    <3>1. CASE j = i
      BY <1>4, <1>6, <1>8, <3>1 DEF Sound, VerifyOwner
    <3>2. CASE j # i
      BY <1>4, <1>6, <1>8, <3>2 DEF Sound, Steady
    <3> QED
      BY <3>1, <3>2
  <2> QED
    BY <1>2, <1>4, <1>8, <2>1 DEF Sound
<1>9. CASE task[t].phase # "requeue"
  <2>1. Owns(t, v, j) /\ mode[v] = "started" /\ j < nextId
    BY <1>4, <1>9 DEF Sound
  <2>2. jobs[j] # NoJob /\ jobs[j].status = "running" /\ jobs[j].owner = t
    BY <1>4, <2>1, NoTokenAssumption
    DEF Owns, LInv, IInv, LeaseOwnership, OwnedWhileRunning, VerifyOwner
  <2>3. v = w => task[t].phase # "claimed"
    BY <1>2, <2>1 DEF Owns
  <2>4. CASE j = i
    <3>1. t = u
      BY <1>3, <1>9, <2>4, OwnJob
    <3>2. v = w /\ jobs'[j] # NoJob /\ jobs'[j].owner = t /\ jobs'[j].leaseIn = Lease - age[w]
      BY <1>3, <1>6, <2>2, <2>4, <3>1 DEF VerifyOwner
    <3>3. ~Late(w, j)'
      BY <1>2, <1>7, <2>4 DEF Late
    <3>4. age[w] \in Int
      BY MaxLagAssumption DEF LInv, IInv, TypeOK
    <3>5. jobs'[j].leaseIn + age'[v] + Slack(v, j)' >= Lease
      BY <1>2, <3>2, <3>3, <3>4, TimingAssumption DEF Slack
    <3> QED
      BY <1>2, <1>9, <2>1, <2>3, <3>2, <3>5 DEF Sound, Owns, VerifyOwner
  <2>5. CASE j # i
    <3>1. jobs'[j] = jobs[j]
      BY <1>4, <1>6, <2>2, <2>5 DEF Steady
    <3>2. Slack(v, j)' = Slack(v, j)
      <4>1. CASE v = w
        BY <1>2, <1>7, <2>5, <4>1 DEF Slack, Late
      <4>2. CASE v # w
        BY <1>2, <1>4, <1>7, <4>2 DEF Slack, Late
      <4> QED
        BY <4>1, <4>2
    <3>3. task[t].phase = "claimed" => tick'[v].phase = "launch"
      BY <1>4, <1>7, <2>1, <2>3 DEF Owns
    <3> QED
      BY <1>2, <1>9, <2>1, <3>1, <3>2, <3>3 DEF Sound, Owns, VerifyOwner
  <2> QED
    BY <2>4, <2>5
<1> QED
  BY <1>8, <1>9

(* A lease that a live worker renews is never expired when another worker  *)
(* looks, however old its reading of the clock.                            *)
LEMMA NotExpired ==
  ASSUME Punctual, LInv, NEW w \in Workers, NEW t \in Tokens, IsTask(t),
         task[t].phase # "requeue"
  PROVE  task[t].job \notin Expired(jobs, age[w])
<1> DEFINE v == task[t].worker
           j == task[t].job
<1>1. v \in Workers /\ j \in JobIds /\ Owns(t, v, j)
  BY DEF LInv, IInv, TypeOK, IsTask, Task, AllSound, Sound
<1>2. jobs[j] \in Job /\ jobs[j].leaseIn \in Int
  BY <1>1 DEF Owns, VerifyOwner, LInv, IInv, TypeOK, Job
<1>3. age[v] \in 0 .. MaxLag /\ age[w] \in 0 .. MaxLag
  BY <1>1 DEF LInv, IInv, TypeOK
<1>4. Slack(v, j) \in Int /\ Slack(v, j) <= MaxLag
  BY MaxLagAssumption DEF Slack
<1>5. jobs[j].leaseIn + age[v] + Slack(v, j) >= Lease
  BY <1>1 DEF Owns
<1>6. jobs[j].leaseIn + age[w] >= 0
  BY <1>2, <1>3, <1>4, <1>5, MaxLagAssumption, TimingAssumption DEF Punctual
<1> QED
  BY <1>2, <1>3, <1>6 DEF Expired

(* A release expires no lease of a live worker's task.                      *)
LEMMA ReleaseSound ==
  ASSUME Punctual, LInv, NEW w \in Workers, Release(w), NEW t \in Tokens, IsTask(t)
  PROVE  Sound(t)'
<1> DEFINE v == task[t].worker
           j == task[t].job
<1>1. v \in Workers /\ j \in JobIds /\ nextId \in Int /\ Sound(t) /\ jobs \in JobMap
  BY DEF LInv, IInv, TypeOK, IsTask, Task, AllSound, JobMap
<1>2. /\ jobs' = ReleaseExpired(jobs, age[w]) /\ UNCHANGED <<nextId, task, held, age, mode>>
      /\ tick[w].phase = "renew" /\ ToRenew(w) = {}
  BY DEF Release
<1>3. tick'[w].phase \in {"idle", "claim"} /\ \A x \in Workers \ {w} : tick'[x] = tick[x]
  BY DEF Release, Idle, LInv, IInv, TypeOK
<1>4. Steady(jobs[j], jobs'[j])
  <2>1. j \notin Expired(jobs, age[w])
    <3>1. CASE task[t].phase = "requeue"
      BY <1>1, <3>1 DEF Sound, Expired, With
    <3>2. CASE task[t].phase # "requeue"
      BY <3>2, NotExpired
    <3> QED
      BY <3>1, <3>2
  <2>2. age[w] \in Int
    BY MaxLagAssumption DEF LInv, IInv, TypeOK
  <2> QED
    BY <1>1, <1>2, <2>1, <2>2, ReleaseSteady
<1>5. CASE v # w
  BY <1>1, <1>2, <1>3, <1>4, <1>5, SoundStill
<1>6. CASE v = w /\ task[t].phase = "requeue"
  BY <1>1, <1>2, <1>4, <1>6 DEF Sound, Steady
<1>7. CASE v = w /\ task[t].phase # "requeue"
  <2>1. Owns(t, w, j) /\ mode[w] = "started" /\ j < nextId
    BY <1>1, <1>7 DEF Sound
  <2>2. jobs[j] # NoJob /\ jobs[j].status = "running"
    BY <1>1, <2>1, NoTokenAssumption
    DEF Owns, LInv, IInv, LeaseOwnership, OwnedWhileRunning, VerifyOwner
  <2>3. task[t].phase # "claimed" /\ held[w][j] = t
    BY <1>2, <2>1 DEF Owns
  <2>4. ~Late(w, j)
    BY <1>1, <1>2, <2>3, NoTokenAssumption DEF Late, ToRenew, InFlight
  <2>5. ~Late(w, j)' /\ jobs'[j] = jobs[j]
    BY <1>3, <1>4, <2>2 DEF Late, Steady
  <2> QED
    BY <1>2, <1>7, <2>1, <2>3, <2>4, <2>5 DEF Sound, Owns, VerifyOwner, Slack
<1> QED
  BY <1>5, <1>6, <1>7

(* The tasks, records and leases that a claim makes.                       *)
Leases(w, S, token) ==
  /\ token \in [S -> FreeTokens]
  /\ \A j \in JobIds :
       IF j \in S THEN /\ jobs'[j] # NoJob /\ jobs'[j].owner = token[j]
                       /\ jobs'[j].leaseIn = Lease - age[w]
                  ELSE Steady(jobs[j], jobs'[j])
  /\ \A t \in Tokens : \/ task'[t] = task[t]
                       \/ \E j \in S : token[j] = t /\ task'[t] = ClaimTask(w, j)
  /\ tick'[w].phase = IF S = {} THEN "idle" ELSE "launch"

(* A claim in the terms of Leases.                                          *)
LEMMA ClaimLeases ==
  ASSUME TypeOK, NEW w \in Workers, Claim(w)
  PROVE  \E S \in SUBSET With(jobs, {"queued"}) : \E token : Leases(w, S, token)
<1>1. PICK S \in ClaimChoices(jobs, tick[w].capacity, age[w]) :
        /\ Mintings(S) # {}
        /\ LET token == CHOOSE f \in Mintings(S) : TRUE
           IN /\ jobs' = IF S = {} THEN jobs
                         ELSE ClaimJobs(jobs, token, Lease - age[w])
              /\ task' = [t \in Tokens |->
                   IF \E j \in S : token[j] = t
                     THEN LET j == CHOOSE j \in S : token[j] = t
                          IN [worker |-> w, job |-> j, spec |-> jobs[j].spec,
                              attempts |-> jobs[j].attempts,
                              created |-> jobs[j].created, payload |-> jobs[j].payload,
                              phase |-> "claimed"]
                     ELSE task[t]]
        /\ tick' = [tick EXCEPT ![w] =
                      IF S = {} THEN Idle
                      ELSE [phase |-> "launch", todo |-> {}, capacity |-> 0]]
  BY DEF Claim
<1> DEFINE token == CHOOSE f \in Mintings(S) : TRUE
<1>2. token \in Mintings(S)
  BY <1>1
<1>3. S \in SUBSET With(jobs, {"queued"})
  BY DEF ClaimChoices, Due
<1>4. token \in [S -> FreeTokens] /\ token \in [S -> Tokens]
  BY <1>2 DEF Mintings, FreeTokens
<1>5. /\ jobs' = IF S = {} THEN jobs ELSE ClaimJobs(jobs, token, Lease - age[w])
      /\ task' = [t \in Tokens |->
           IF \E j \in S : token[j] = t
             THEN LET j == CHOOSE j \in S : token[j] = t
                  IN [worker |-> w, job |-> j, spec |-> jobs[j].spec,
                      attempts |-> jobs[j].attempts,
                      created |-> jobs[j].created, payload |-> jobs[j].payload,
                              phase |-> "claimed"]
             ELSE task[t]]
  BY <1>1
<1> HIDE DEF token
<1>6. ASSUME NEW t \in Tokens, \E j \in S : token[j] = t
      PROVE  \E j \in S : token[j] = t /\ task'[t] = ClaimTask(w, j)
  <2> DEFINE j == CHOOSE j \in S : token[j] = t
  <2>1. j \in S /\ token[j] = t
    BY <1>6
  <2> QED
    BY <1>5, <1>6, <2>1 DEF ClaimTask
<1>7. \A t \in Tokens : (~\E j \in S : token[j] = t) => task'[t] = task[t]
  BY <1>5
<1>8. ASSUME NEW j \in JobIds
      PROVE  IF j \in S THEN /\ jobs'[j] # NoJob /\ jobs'[j].owner = token[j]
                             /\ jobs'[j].leaseIn = Lease - age[w]
                        ELSE Steady(jobs[j], jobs'[j])
  <2>1. jobs \in JobMap /\ Lease - age[w] \in Int
    BY TimingAssumption, MaxLagAssumption DEF TypeOK, JobMap
  <2>2. CASE S = {}
    BY <1>5, <2>2 DEF Steady
  <2>3. CASE S # {}
    <3>1. jobs' = ClaimJobs(jobs, token, Lease - age[w])
      BY <1>5, <2>3
    <3> QED
      BY <1>3, <1>4, <2>1, <3>1, ClaimSteady
  <2> QED
    BY <2>2, <2>3
<1>9. tick'[w].phase = IF S = {} THEN "idle" ELSE "launch"
  BY <1>1 DEF TypeOK, Idle
<1> QED
  BY <1>3, <1>4, <1>6, <1>7, <1>8, <1>9 DEF Leases

(* A claimed task owns its record with a whole lease, until the launch.     *)
LEMMA ClaimSound ==
  ASSUME LInv, NEW w \in Workers, Claim(w), NEW t \in Tokens, IsTask(t)'
  PROVE  Sound(t)'
<1>1. PICK S \in SUBSET With(jobs, {"queued"}) : \E token : Leases(w, S, token)
  BY ClaimLeases DEF LInv, IInv
<1>2. PICK token : Leases(w, S, token)
  BY <1>1
<1>3. /\ tick[w].phase = "claim" /\ UNCHANGED <<nextId, held, age, mode>>
      /\ \A x \in Workers \ {w} : tick'[x] = tick[x]
  BY DEF Claim, LInv, IInv, TypeOK
<1>4. mode[w] = "started"
  BY <1>3 DEF LInv, NeverStopped
<1>5. nextId \in Int /\ age[w] \in Int
  BY MaxLagAssumption DEF LInv, IInv, TypeOK
<1>6. ASSUME NEW j \in S, token[j] = t, task'[t] = ClaimTask(w, j)
      PROVE  Sound(t)'
  <2>1. j \in JobIds /\ jobs[j] # NoJob
    BY DEF With
  <2>2. j < nextId
    BY <1>5, <2>1 DEF LInv, IInv, FreshIds, JobIds
  <2>3. /\ task'[t].worker = w /\ task'[t].job = j /\ task'[t].phase = "claimed"
    BY <1>6 DEF ClaimTask
  <2>4. /\ jobs'[j] # NoJob /\ jobs'[j].owner = t /\ jobs'[j].leaseIn = Lease - age[w]
        /\ tick'[w].phase = "launch"
    BY <1>2, <1>6, <2>1 DEF Leases
  <2>5. jobs'[j].leaseIn + age'[w] + Slack(w, j)' >= Lease
    BY <1>3, <1>5, <2>4, TimingAssumption DEF Slack, Late
  <2> QED
    BY <1>3, <1>4, <2>2, <2>3, <2>4, <2>5 DEF Sound, Owns, VerifyOwner
<1>7. CASE task'[t] = task[t]
  <2> DEFINE v == task[t].worker
             j == task[t].job
  <2>1. IsTask(t)
    BY <1>7 DEF IsTask
  <2>2. v \in Workers /\ j \in JobIds /\ Sound(t)
    BY <2>1 DEF LInv, IInv, TypeOK, IsTask, Task, AllSound
  <2>3. j \notin S
    BY <2>2, NoTokenAssumption
    DEF Sound, Owns, VerifyOwner, With, LInv, IInv, LeaseOwnership, OwnedWhileRunning
  <2>4. Steady(jobs[j], jobs'[j])
    BY <1>2, <2>2, <2>3 DEF Leases
  <2>5. CASE v # w
    BY <1>3, <1>5, <1>7, <2>1, <2>2, <2>4, <2>5, SoundStill
  <2>6. CASE v = w /\ task[t].phase = "requeue"
    BY <1>3, <1>7, <2>2, <2>4, <2>6 DEF Sound, Steady
  <2>7. CASE v = w /\ task[t].phase # "requeue"
    <3>1. Owns(t, w, j) /\ j < nextId
      BY <2>2, <2>7 DEF Sound
    <3>2. jobs[j] # NoJob /\ jobs[j].status = "running"
      BY <2>2, <3>1, NoTokenAssumption
      DEF Owns, LInv, IInv, LeaseOwnership, OwnedWhileRunning, VerifyOwner
    <3>3. jobs'[j] = jobs[j] /\ task[t].phase # "claimed"
      BY <1>3, <2>4, <3>1, <3>2 DEF Owns, Steady
    <3>4. Slack(w, j) = 0 /\ tick'[w].phase \in {"idle", "launch"}
      BY <1>2, <1>3 DEF Slack, Late, Leases
    <3>5. Sound(t)' <=> Owns(t, w, j)'
      BY <1>3, <1>4, <1>7, <2>7, <3>1 DEF Sound
    <3> QED
      BY <1>3, <1>7, <2>7, <3>1, <3>3, <3>4, <3>5 DEF Owns, VerifyOwner, Slack, Late
  <2> QED
    BY <2>5, <2>6, <2>7
<1> QED
  BY <1>2, <1>6, <1>7 DEF Leases

(* The launch enters each claimed task under its own job.                  *)
LEMMA LaunchSound ==
  ASSUME LInv, NEW w \in Workers, Launch(w), NEW t \in Tokens, IsTask(t)'
  PROVE  Sound(t)'
<1> DEFINE claimed == TasksOf(w) \ Running(w)
           v == task[t].worker
           j == task[t].job
<1>1. /\ task'[t] = IF t \in claimed
                      THEN [task[t] EXCEPT !.phase = IF task[t].spec.handled
                                                       THEN "handler" ELSE "fail"]
                      ELSE task[t]
      /\ UNCHANGED <<jobs, nextId, age, mode>> /\ tick[w].phase = "launch"
  BY DEF Launch
<1>2. /\ tick'[w].phase = "idle" /\ \A x \in Workers \ {w} : tick'[x] = tick[x]
      /\ \A x \in Workers \ {w} : held'[x] = held[x]
      /\ \A i \in JobIds : held'[w][i] = IF \E u \in claimed : task[u].job = i
                                           THEN CHOOSE u \in claimed : task[u].job = i
                                           ELSE held[w][i]
  BY DEF Launch, Idle, LInv, IInv, TypeOK
<1>3. IsTask(t)
  BY <1>1 DEF IsTask, TasksOf
<1>4. /\ task[t] \in Task /\ v \in Workers /\ j \in JobIds /\ nextId \in Int /\ Sound(t)
  BY <1>3 DEF LInv, IInv, TypeOK, IsTask, Task, AllSound
<1>5. task'[t].worker = v /\ task'[t].job = j
  BY <1>1, <1>4 DEF Task
<1>6. CASE v # w
  <2>1. t \notin claimed
    BY <1>6 DEF TasksOf
  <2> QED
    BY <1>1, <1>2, <1>3, <1>4, <1>6, <2>1, SoundStill DEF Steady
<1>7. CASE v = w
  <2>1. t \in claimed <=> task[t].phase = "claimed"
    BY <1>3, <1>7 DEF TasksOf, Running
  <2>2. CASE task[t].phase = "requeue"
    BY <1>1, <1>4, <1>7, <2>1, <2>2 DEF Sound
  <2>3. CASE task[t].phase # "requeue"
    <3>1. Owns(t, w, j) /\ j < nextId /\ mode[w] = "started"
      BY <1>4, <1>7, <2>3 DEF Sound
    <3>2. \A u \in claimed : task[u].job = j => u = t
      BY <1>3, <2>3, OwnJob DEF TasksOf
    <3>3. held'[w][j] = t
      <4>1. CASE t \in claimed
        BY <1>2, <1>4, <3>2, <4>1
      <4>2. CASE t \notin claimed
        <5>1. held[w][j] = t
          BY <2>1, <3>1, <4>2 DEF Owns
        <5>2. ~\E u \in claimed : task[u].job = j
          BY <3>2, <4>2
        <5> QED
          BY <1>2, <1>4, <5>1, <5>2
      <4> QED
        BY <4>1, <4>2
    <3>4. task'[t].phase \notin {"requeue", "claimed"}
      BY <1>1, <1>4, <2>1, <2>3 DEF Task
    <3>5. Slack(w, j) = 0 /\ (tick'[w].phase = "renew") = FALSE
      BY <1>1, <1>2 DEF Slack, Late
    <3>6. jobs'[j].leaseIn + age'[w] + (IF tick'[w].phase = "renew" /\ j \in tick'[w].todo
                                          THEN MaxLag ELSE 0) >= Lease
      BY <1>1, <3>1, <3>5 DEF Owns
    <3>7. VerifyOwner(jobs', j, t)
      BY <1>1, <3>1 DEF Owns
    <3> QED
      BY <1>1, <1>5, <1>7, <3>1, <3>3, <3>4, <3>6, <3>7 DEF Sound, Owns, Slack, Late
  <2> QED
    BY <2>2, <2>3
<1> QED
  BY <1>6, <1>7

(* A task that goes on or ends leaves the others alone: it writes its own  *)
(* record or a new one, and forgets its own entry.                         *)
LEMMA OthersSound ==
  ASSUME LInv, NEW u \in Tokens, IsTask(u), NEW t \in Tokens \ {u}, IsTask(t),
         Settle(u) \/ \E phase \in TaskPhase : Goto(u, phase),
         UNCHANGED <<tick, age, mode>>, nextId' \in Int, nextId <= nextId',
         \A j \in JobIds : \/ Steady(jobs[j], jobs'[j])
                           \/ j = nextId
                           \/ j = task[u].job /\ task[u].phase # "requeue"
  PROVE  Sound(t)'
<1> DEFINE w == task[t].worker
           j == task[t].job
<1>1. /\ w \in Workers /\ j \in JobIds /\ j \in Int /\ nextId \in Int /\ Sound(t)
      /\ task[u].worker \in Workers /\ task[u].job \in JobIds
  BY DEF LInv, IInv, TypeOK, IsTask, Task, AllSound, JobIds
<1>2. task'[t] = task[t]
  BY DEF Settle, Goto, LInv, IInv, TypeOK
<1>3. task[u].phase # "requeue" => j # task[u].job
  BY OwnJob
<1>4. Steady(jobs[j], jobs'[j])
  BY <1>1, <1>3 DEF Sound
<1>5. CASE task[t].phase = "requeue"
  BY <1>1, <1>2, <1>4, <1>5 DEF Sound, Steady
<1>6. CASE task[t].phase # "requeue"
  <2>1. j # task[u].job
    BY <1>6, OwnJob
  <2>2. CASE Settle(u)
    <3>1. held \in [Workers -> [JobIds -> Tokens \cup {NoToken}]]
      BY DEF LInv, IInv, TypeOK
    <3>2. held' = [held EXCEPT ![task[u].worker][task[u].job] = NoToken]
      BY <2>2 DEF Settle
    <3>3. held'[w][j] = held[w][j]
      BY <1>1, <2>1, <3>1, <3>2
    <3> QED
      BY <1>1, <1>2, <1>4, <3>3, SoundStill
  <2>3. CASE \E phase \in TaskPhase : Goto(u, phase)
    BY <1>1, <1>2, <1>4, <2>3, SoundStill DEF Goto
  <2> QED
    BY <2>2, <2>3
<1> QED
  BY <1>5, <1>6

(* A handler that returns or throws keeps its lease.                        *)
LEMMA HandlerSound ==
  ASSUME LInv, NEW u \in Tokens, HandlerReturns(u) \/ HandlerThrows(u),
         NEW t \in Tokens, IsTask(t)'
  PROVE  Sound(t)'
<1>1. /\ IsTask(u) /\ task[u].phase = "handler"
      /\ UNCHANGED <<jobs, nextId, tick, age, mode>>
  BY DEF HandlerReturns, HandlerThrows, InPhase
<1>2. PICK phase \in {"complete", "fail"} : Goto(u, phase)
  BY DEF HandlerReturns, HandlerThrows
<1>3. nextId \in Int /\ task[u] \in Task
  BY <1>1 DEF LInv, IInv, TypeOK, IsTask
<1>4. CASE t # u
  <2>1. IsTask(t)
    BY <1>2, <1>4 DEF Goto, LInv, IInv, TypeOK, IsTask
  <2> QED
    BY <1>1, <1>2, <1>3, <1>4, <2>1, OthersSound DEF TaskPhase, Steady
<1>5. CASE t = u
  <2>1. /\ task'[t].worker = task[t].worker /\ task'[t].job = task[t].job
        /\ task'[t].phase = phase /\ UNCHANGED held
    BY <1>2, <1>3, <1>5 DEF Goto, LInv, IInv, TypeOK, Task
  <2>2. Sound(t)
    BY <1>1, <1>5 DEF LInv, AllSound
  <2> QED
    BY <1>1, <1>5, <2>1, <2>2 DEF Sound, Owns, VerifyOwner, Slack, Late
<1> QED
  BY <1>4, <1>5

(* A task that completes its job is done with it.                           *)
LEMMA CompleteSound ==
  ASSUME LInv, NEW u \in Tokens, Complete(u), NEW t \in Tokens, IsTask(t)'
  PROVE  Sound(t)'
<1> DEFINE i == task[u].job
<1>1. /\ IsTask(u) /\ task[u].phase = "complete" /\ UNCHANGED <<nextId, tick, age, mode>>
      /\ jobs' = CompleteJob(jobs, i, u)
      /\ IF task[u].spec.recurring THEN Goto(u, "requeue") ELSE Settle(u)
  BY DEF Complete, InPhase
<1>2. /\ nextId \in Int /\ task[u] \in Task /\ jobs \in JobMap /\ i \in JobIds /\ Sound(u)
  BY <1>1 DEF LInv, IInv, TypeOK, IsTask, Task, AllSound, JobMap
<1>3. /\ \A j \in JobIds \ {i} : Steady(jobs[j], jobs'[j])
      /\ VerifyOwner(jobs, i, u) => jobs'[i] = NoJob \/ jobs'[i].status = "completed"
  BY <1>1, <1>2, OwnerSteady
<1>4. CASE t # u
  <2>1. IsTask(t)
    BY <1>1, <1>4 DEF Goto, Settle, LInv, IInv, TypeOK, IsTask
  <2> QED
    BY <1>1, <1>2, <1>3, <1>4, <2>1, OthersSound DEF TaskPhase
<1>5. CASE t = u
  <2>1. Goto(u, "requeue")
    BY <1>1, <1>2, <1>5 DEF Settle, LInv, IInv, TypeOK, IsTask
  <2>2. /\ task'[t].worker = task[t].worker /\ task'[t].job = i
        /\ task'[t].phase = "requeue"
    BY <1>2, <1>5, <2>1 DEF Goto, LInv, IInv, TypeOK, Task
  <2>3. VerifyOwner(jobs, i, u) /\ mode[task[u].worker] = "started" /\ i < nextId
    BY <1>1, <1>2 DEF Sound, Owns
  <2> QED
    BY <1>1, <1>3, <1>5, <2>2, <2>3 DEF Sound
<1> QED
  BY <1>4, <1>5

(* A task that ends takes nothing from another one.                         *)
LEMMA EndSound ==
  ASSUME LInv, NEW u \in Tokens, Requeue(u) \/ Fail(u), NEW t \in Tokens, IsTask(t)'
  PROVE  Sound(t)'
<1> DEFINE i == task[u].job
<1>1. IsTask(u) /\ Settle(u) /\ UNCHANGED <<tick, age, mode>>
  BY DEF Requeue, Fail, InPhase
<1>2. /\ nextId \in Int /\ task[u] \in Task /\ jobs \in JobMap /\ i \in JobIds
      /\ task[u].attempts \in Nat /\ task[u].spec \in Specs
      /\ task[u].created \in Instants /\ task[u].payload \in JobIds
  BY <1>1 DEF LInv, IInv, TypeOK, IsTask, Task, JobMap
<1>3. t # u /\ IsTask(t)
  BY <1>1 DEF Settle, LInv, IInv, TypeOK, IsTask
<1>4. CASE Requeue(u)
  <2>1. /\ nextId \in JobIds /\ nextId' = nextId + 1
        /\ jobs' = Put(jobs, nextId,
                       NewJob(task[u].spec, Interval, task[u].created, task[u].payload))
    BY <1>4 DEF Requeue, EnqueueNext
  <2>2. NewJob(task[u].spec, Interval, task[u].created, task[u].payload) \in Job
    BY <1>2, NewJobType, TimingAssumption
  <2>3. \A j \in JobIds \ {nextId} : Steady(jobs[j], jobs'[j])
    BY <1>2, <2>1, <2>2, PutSteady
  <2> QED
    BY <1>1, <1>2, <1>3, <2>1, <2>3, OthersSound
<1>5. CASE Fail(u)
  <2>1. /\ task[u].phase = "fail" /\ UNCHANGED nextId
        /\ jobs' = IF Retries(u) THEN RetryJob(jobs, i, u, backoffFor(task[u].attempts + 1))
                                 ELSE GiveUpJob(jobs, i, u)
    BY <1>5 DEF Fail, InPhase
  <2>2. backoffFor(task[u].attempts + 1) \in Int
    BY <1>2 DEF backoffFor
  <2>3. \A j \in JobIds \ {i} : Steady(jobs[j], jobs'[j])
    BY <1>2, <2>1, <2>2, OwnerSteady
  <2> QED
    BY <1>1, <1>2, <1>3, <2>1, <2>3, OthersSound
<1> QED
  BY <1>4, <1>5

(* A started worker may let MaxLag pass between two ticks, and every lease *)
(* it holds gets shorter by what its age grows.                            *)
LEMMA TimeSound ==
  ASSUME Punctual, LInv, AdvanceTime, NEW t \in Tokens, IsTask(t)
  PROVE  Sound(t)'
<1> DEFINE w == task[t].worker
           j == task[t].job
<1>1. w \in Workers /\ j \in JobIds /\ Sound(t) /\ age[w] \in 0 .. MaxLag
  BY DEF LInv, IInv, TypeOK, IsTask, Task, AllSound
<1>2. UNCHANGED <<nextId, task, held, tick, mode>> /\ jobs' = Elapse(jobs)
  BY DEF AdvanceTime
<1>3. age'[w] = age[w] + 1
  <2>1. MustTick(w)
    BY <1>1 DEF Sound, MustTick, Punctual
  <2> QED
    BY <1>1, <2>1 DEF AdvanceTime
<1>4. CASE task[t].phase = "requeue"
  BY <1>1, <1>2, <1>4 DEF Sound, Elapse, Aged
<1>5. CASE task[t].phase # "requeue"
  <2>1. Owns(t, w, j)
    BY <1>1, <1>5 DEF Sound
  <2>2. jobs[j] # NoJob /\ jobs[j].status = "running" /\ jobs[j] \in Job
    BY <1>1, <2>1, NoTokenAssumption
    DEF Owns, LInv, IInv, LeaseOwnership, OwnedWhileRunning, VerifyOwner, TypeOK
  <2>3. Aged(jobs[j]) \in Job
    BY <2>2, MaxLagAssumption DEF Aged, Job, AtLeast
  <2>4. /\ jobs'[j] # NoJob /\ jobs'[j].owner = jobs[j].owner
        /\ jobs'[j].leaseIn = AtLeast(-(MaxLag + 1), jobs[j].leaseIn - 1)
    BY <1>1, <1>2, <2>2, <2>3, NoJobAssumption DEF Elapse, Aged
  <2>5. jobs[j].leaseIn \in Int /\ jobs'[j].leaseIn \in Int
        /\ jobs'[j].leaseIn >= jobs[j].leaseIn - 1
    BY <2>2, <2>4, MaxLagAssumption DEF Job, AtLeast
  <2>6. Slack(w, j) \in Int
    BY MaxLagAssumption DEF Slack
  <2>7. Slack(w, j)' = Slack(w, j)
    BY <1>2 DEF Slack, Late
  <2>8. jobs'[j].leaseIn + age'[w] + Slack(w, j)' >= Lease
    BY <1>1, <1>3, <2>1, <2>5, <2>6, <2>7, TimingAssumption DEF Owns
  <2> QED
    BY <1>1, <1>2, <1>5, <2>1, <2>4, <2>8 DEF Sound, Owns, VerifyOwner
<1> QED
  BY <1>4, <1>5

(* Every step keeps every task sound.                                       *)
LEMMA AllSoundStep ==
  ASSUME Punctual, LInv, Undisturbed', [Next]_vars
  PROVE  AllSound'
<1> SUFFICES ASSUME NEW t \in Tokens, IsTask(t)'
             PROVE  Sound(t)'
  BY DEF AllSound
<1>a. nextId \in Int /\ jobs \in JobMap
  BY DEF LInv, IInv, TypeOK, JobMap
<1>b. IsTask(t) => /\ task[t].worker \in Workers /\ task[t].job \in JobIds
                   /\ mode[task[t].worker] = "started" /\ Sound(t)
  BY DEF LInv, IInv, TypeOK, IsTask, Task, AllSound, Sound
<1>c. ~Count("fault", MaxFaults) /\ ~Count("stop", MaxStops)
  BY DEF Undisturbed, Count, LInv, IInv, TypeOK
<1>1. ASSUME NEW spec \in Specs, NEW delay \in {0, Interval}, NEW now \in Instants,
             Enqueue(spec, delay, now)
      PROVE  Sound(t)'
  <2> DEFINE r == NewJob(spec, delay, now, nextId)
  <2>1. /\ nextId \in JobIds /\ jobs' = Put(jobs, nextId, r) /\ nextId' = nextId + 1
        /\ UNCHANGED <<task, held, tick, age, mode>>
    BY <1>1 DEF Enqueue
  <2>2. r \in Job
    BY <2>1, NewJobType, TimingAssumption
  <2> HIDE DEF r
  <2>3. IsTask(t)
    BY <2>1 DEF IsTask
  <2>4. task[t].job # nextId
    BY <1>a, <1>b, <2>3 DEF Sound, JobIds
  <2>5. Steady(jobs[task[t].job], jobs'[task[t].job])
    BY <1>a, <1>b, <2>1, <2>2, <2>3, <2>4, PutSteady
  <2> QED
    BY <1>a, <1>b, <2>1, <2>3, <2>5, SoundStill
<1>2. ASSUME NEW w \in Workers, PollFires(w)
      PROVE  Sound(t)'
  BY <1>2, PollSound DEF PollFires, IsTask
<1>3. ASSUME NEW w \in Workers, Renew(w)
      PROVE  Sound(t)'
  BY <1>3, RenewSound DEF Renew, IsTask
<1>4. ASSUME NEW w \in Workers, Release(w)
      PROVE  Sound(t)'
  BY <1>4, ReleaseSound DEF Release, IsTask
<1>5. ASSUME NEW w \in Workers, Claim(w) \/ Launch(w)
      PROVE  Sound(t)'
  BY <1>5, ClaimSound, LaunchSound
<1>6. ASSUME NEW w \in Workers, Start(w) \/ StopResolves(w) \/ Restart(w)
      PROVE  Sound(t)'
  <2>1. /\ UNCHANGED <<jobs, nextId, task, held>>
        /\ mode[w] # "started"
        /\ \A x \in Workers \ {w} : /\ tick'[x] = tick[x] /\ age'[x] = age[x]
                                    /\ mode'[x] = mode[x]
    BY <1>6 DEF Start, StopResolves, Restart, BeginTick, LInv, IInv, TypeOK
  <2>2. IsTask(t)
    BY <2>1 DEF IsTask
  <2> QED
    BY <1>a, <1>b, <2>1, <2>2, SoundStill DEF Steady
<1>7. ASSUME NEW w \in Workers, Crash(w)
      PROVE  Sound(t)'
  <2>1. /\ UNCHANGED <<jobs, nextId>>
        /\ \A x \in Workers \ {w} : /\ tick'[x] = tick[x] /\ age'[x] = age[x]
                                    /\ mode'[x] = mode[x] /\ held'[x] = held[x]
    BY <1>7 DEF Crash, LInv, IInv, TypeOK
  <2>2. IsTask(t) /\ task'[t] = task[t] /\ task[t].worker # w
    BY <1>7 DEF Crash, TasksOf, IsTask
  <2> QED
    BY <1>a, <1>b, <2>1, <2>2, SoundStill DEF Steady
<1>8. ASSUME NEW w \in Workers, TickFault(w) \/ Stop(w)
      PROVE  Sound(t)'
  BY <1>8, <1>c DEF TickFault, Stop
<1>9. ASSUME NEW u \in Tokens, BookkeepingFault(u) \/ OnCompleteThrows(u) \/ FailFault(u)
      PROVE  Sound(t)'
  BY <1>9, <1>c DEF BookkeepingFault, OnCompleteThrows, FailFault
<1>10. ASSUME NEW u \in Tokens, TaskStep(u) \/ HandlerThrows(u)
       PROVE  Sound(t)'
  BY <1>10, HandlerSound, CompleteSound, EndSound DEF TaskStep
<1>11. CASE AdvanceTime
  BY <1>11, TimeSound DEF AdvanceTime, IsTask
<1>12. CASE UNCHANGED vars
  <2>1. IsTask(t) /\ UNCHANGED <<jobs, nextId, task, held, tick, age, mode>>
    BY <1>12 DEF vars, IsTask
  <2> QED
    BY <1>a, <1>b, <2>1, SoundStill DEF Steady
<1> QED
  BY <1>1, <1>2, <1>3, <1>4, <1>5, <1>6, <1>7, <1>8, <1>9, <1>10, <1>11, <1>12
  DEF Next, TickStep

(* Every step keeps NeverStopped.                                           *)
LEMMA NeverStoppedStep ==
  ASSUME TypeOK, NeverStopped, Undisturbed', [Next]_vars
  PROVE  NeverStopped'
<1>a. ~Count("fault", MaxFaults) /\ ~Count("stop", MaxStops)
  BY DEF Undisturbed, Count, TypeOK
<1>b. ASSUME UNCHANGED <<tick, mode>>
      PROVE  NeverStopped'
  BY <1>b DEF NeverStopped
<1>1. ASSUME NEW w \in Workers, TickStep(w) \/ Start(w) \/ Crash(w) \/ Restart(w) \/ StopResolves(w)
      PROVE  NeverStopped'
  <2>1. \A x \in Workers \ {w} : tick'[x] = tick[x] /\ mode'[x] = mode[x]
    BY <1>1 DEF TickStep, PollFires, Renew, Release, Claim, Launch, Start, Crash, Restart,
                StopResolves, BeginTick, TypeOK
  <2>2. /\ mode'[w] \in {"new", "started", "down"}
        /\ tick'[w].phase # "idle" => mode'[w] = "started"
    <3>1. CASE Renew(w) \/ Release(w) \/ Claim(w) \/ Launch(w)
      BY <3>1 DEF Renew, Release, Claim, Launch, NeverStopped
    <3>2. CASE PollFires(w)
      BY <3>2 DEF PollFires
    <3>3. CASE Start(w)
      BY <3>3 DEF Start, TypeOK
    <3>4. CASE Crash(w)
      BY <3>4 DEF Crash, TypeOK, Idle
    <3>5. CASE Restart(w)
      BY <3>5 DEF Restart, TypeOK, NeverStopped
    <3>6. CASE StopResolves(w)
      BY <3>6 DEF StopResolves, NeverStopped
    <3> QED
      BY <1>1, <3>1, <3>2, <3>3, <3>4, <3>5, <3>6 DEF TickStep
  <2> QED
    BY <2>1, <2>2 DEF NeverStopped
<1>2. ASSUME NEW spec \in Specs, NEW delay \in {0, Interval}, NEW now \in Instants,
             Enqueue(spec, delay, now)
      PROVE  NeverStopped'
  BY <1>2, <1>b DEF Enqueue
<1>3. ASSUME NEW w \in Workers, TickFault(w) \/ Stop(w)
      PROVE  NeverStopped'
  BY <1>3, <1>a DEF TickFault, Stop
<1>4. ASSUME NEW t \in Tokens, \/ TaskStep(t) \/ HandlerThrows(t) \/ BookkeepingFault(t)
                               \/ OnCompleteThrows(t) \/ FailFault(t)
      PROVE  NeverStopped'
  BY <1>4, <1>b DEF TaskStep, HandlerReturns, Complete, Requeue, Fail, HandlerThrows,
                    BookkeepingFault, OnCompleteThrows, FailFault
<1>5. CASE AdvanceTime \/ UNCHANGED vars
  BY <1>5, <1>b DEF AdvanceTime, vars
<1> QED
  BY <1>1, <1>2, <1>3, <1>4, <1>5 DEF Next

(* What has disturbed a run has disturbed it for good.                     *)
LEMMA UndisturbedBefore ==
  ASSUME TypeOK, TypeOK', Undisturbed', [Next]_vars
  PROVE  Undisturbed
<1>1. \/ UNCHANGED mishaps
      \/ \E kind \in {"crash", "fault", "stop"}, bound \in {MaxCrashes, MaxFaults, MaxStops} :
           Count(kind, bound)
  BY DEF Next, vars, TickStep, TaskStep, Enqueue, PollFires, Renew, Release, Claim, Launch,
         TickFault, Start, Stop, StopResolves, Crash, Restart, HandlerReturns, Complete,
         Requeue, Fail, HandlerThrows, BookkeepingFault, OnCompleteThrows, FailFault,
         AdvanceTime
<1>2. CASE UNCHANGED mishaps
  BY <1>2 DEF Undisturbed
<1>3. ASSUME NEW kind \in {"crash", "fault", "stop"}, NEW bound, Count(kind, bound)
      PROVE  Undisturbed
  BY <1>3 DEF Count, Undisturbed, TypeOK
<1> QED
  BY <1>1, <1>2, <1>3

(* As long as nobody calls stop() and no store operation fails, a lease    *)
(* that outlives two ticks is never taken from a live worker: a handler    *)
(* that runs owns its job, whatever it does and however long it takes.     *)
THEOREM NeverStolenHolds == ASSUME Punctual PROVE Spec => []NeverStolen
<1>1. Init => NeverStopped /\ AllSound
  BY DEF Init, NeverStopped, AllSound, IsTask, Idle
<1>2. IInv /\ IInv' /\ HeldByOwnTask /\ (Undisturbed => NeverStopped /\ AllSound) /\ [Next]_vars
        => (Undisturbed => NeverStopped /\ AllSound)'
  BY AllSoundStep, NeverStoppedStep, UndisturbedBefore DEF LInv, IInv
<1>3. (Undisturbed => NeverStopped /\ AllSound) => NeverStolen
  BY DEF Undisturbed, AllSound, Sound, Owns, NeverStolen, InPhase
<1> QED
  BY <1>1, <1>2, <1>3, Inductive, HeldByOwnTaskHolds, PTL DEF Spec

-----------------------------------------------------------------------------
(* The chain of a recurring job.                                           *)

(* A chain is carried by its live records and by the tasks that are about  *)
(* to enqueue its next run.                                                *)
Seeds(p) == {j \in Live(jobs) : jobs[j].spec.recurring /\ jobs[j].payload = p}
Heirs(p) == {t \in Tokens : InPhase(t, "requeue") /\ task[t].payload = p}

(* One carrier at most, unless stolen; one at least, while going.          *)
Line(p) ==
  /\ p \notin stolen => /\ \A i, j \in Seeds(p) : i = j
                        /\ \A t, u \in Heirs(p) : t = u
                        /\ Seeds(p) = {} \/ Heirs(p) = {}
  /\ p \in going => Seeds(p) # {} \/ Heirs(p) # {}

(* The task may still complete a run of a chain.                           *)
Working(t) == /\ IsTask(t) /\ task[t].spec.recurring
              /\ task[t].phase \in {"claimed", "handler", "complete"}

(* It owns the record of that run as long as no release took it.           *)
Holders == \A t \in Tokens : Working(t) /\ task[t].payload \notin stolen =>
             VerifyOwner(jobs, task[t].job, t)

Payloads ==
  /\ \A j \in JobIds : jobs[j] # NoJob => jobs[j].payload < nextId
  /\ \A t \in Tokens : IsTask(t) => /\ task[t].payload < nextId
                                    /\ task[t].phase = "requeue" => task[t].spec.recurring

Chain == Payloads /\ Holders /\ \A p \in JobIds : Line(p)

(* A record that was live keeps its spec and payload as long as it is      *)
(* live, and what is live was live or has just been enqueued.              *)
LEMMA LiveStep ==
  ASSUME Shape, NEW j \in JobIds
  PROVE  /\ j \in Live(jobs)' => j \in Live(jobs) \/ Submitted(j)
         /\ j \in Live(jobs) /\ j \in Live(jobs)' =>
              jobs'[j].spec = jobs[j].spec /\ jobs'[j].payload = jobs[j].payload
<1>1. JobStep(j)
  BY DEF Shape
<1>2. CASE Submitted(j)
  BY <1>2 DEF Submitted, Live, With
<1>3. CASE ~Submitted(j)
  BY <1>1, <1>3 DEF JobStep, Untouched, Taken, Released, Retried, Done, Moved, Live, With
<1> QED
  BY <1>2, <1>3

(* A task that goes on has the spec and payload that it had.               *)
LEMMA TaskOn ==
  ASSUME TypeOK', Shape, NEW t \in Tokens, IsTask(t)'
  PROVE  \/ /\ IsTask(t) /\ task'[t].job = task[t].job
            /\ task'[t].spec = task[t].spec /\ task'[t].payload = task[t].payload
         \/ /\ ~IsTask(t) /\ task'[t].phase = "claimed"
            /\ \E j \in JobIds : /\ Taken(j) /\ jobs'[j].owner = t
                                 /\ task'[t].job = j /\ task'[t].payload = jobs[j].payload
BY DEF Shape, TaskKept, Taken, FreeTokens, IsTask

(* The line of a chain that the step adds nothing to.                      *)
LEMMA LineStill ==
  ASSUME TypeOK', Shape, NEW p \in JobIds, Line(p),
         p \in going' => p \in going, p \in stolen => p \in stolen',
         \A j \in JobIds : Submitted(j) => jobs'[j].payload # p,
         \A t \in Tokens : InPhase(t, "requeue")' /\ task'[t].payload = p => InPhase(t, "requeue"),
         p \in going' => \A j \in Seeds(p) : j \in Live(jobs)',
         p \in going' => \A t \in Heirs(p) : InPhase(t, "requeue")'
  PROVE  Line(p)'
<1>1. Seeds(p)' \subseteq Seeds(p)
  BY LiveStep DEF Seeds, Live, With
<1>2. Heirs(p)' \subseteq Heirs(p)
  BY TaskOn DEF Heirs, InPhase
<1>3. p \in going' => Seeds(p) \subseteq Seeds(p)'
  BY LiveStep DEF Seeds, Live, With
<1>4. p \in going' => Heirs(p) \subseteq Heirs(p)'
  BY TaskOn DEF Heirs, InPhase
<1> QED
  BY <1>1, <1>2, <1>3, <1>4 DEF Line

LEMMA PayloadsStill ==
  ASSUME TypeOK, TypeOK', Shape, Payloads,
         \A j \in JobIds : Submitted(j) => jobs'[j].payload < nextId',
         \A t \in Tokens : InPhase(t, "requeue")' => task'[t].spec.recurring
  PROVE  Payloads'
<1>1. nextId \in Int /\ nextId' \in Int /\ nextId <= nextId'
  BY DEF TypeOK, Shape, Submitted
<1>2. \A j \in JobIds : jobs[j] # NoJob => jobs[j].payload \in Int /\ jobs[j].payload < nextId'
  <2>1. ASSUME NEW j \in JobIds, jobs[j] # NoJob
        PROVE  jobs[j].payload \in Int
    <3>1. jobs[j] \in Job
      BY <2>1 DEF TypeOK
    <3> QED
      BY <3>1 DEF Job, JobIds
  <2> QED
    BY <1>1, <2>1 DEF Payloads
<1>3. ASSUME NEW j \in JobIds, jobs'[j] # NoJob
      PROVE  jobs'[j].payload < nextId'
  <2>1. JobStep(j)
    BY DEF Shape
  <2>2. CASE Submitted(j)
    BY <2>2
  <2>3. CASE ~Submitted(j)
    <3>1. jobs[j] # NoJob /\ jobs'[j].payload = jobs[j].payload
      BY <1>3, <2>1, <2>3 DEF JobStep, Untouched, Taken, Released, Retried, Done, Moved
    <3> QED
      BY <1>2, <3>1
  <2> QED
    BY <2>2, <2>3
<1>4. ASSUME NEW t \in Tokens, IsTask(t)'
      PROVE  task'[t].payload < nextId'
  <2>1. CASE IsTask(t) /\ task'[t].payload = task[t].payload
    <3>1. task[t] \in Task
      BY <2>1 DEF TypeOK, IsTask
    <3>2. task[t].payload \in Int
      BY <3>1 DEF Task, JobIds
    <3> QED
      BY <1>1, <2>1, <3>2 DEF Payloads
  <2>2. CASE \E j \in JobIds : Taken(j) /\ task'[t].payload = jobs[j].payload
    BY <1>2, <2>2 DEF Taken, Moved
  <2> QED
    BY <1>4, <2>1, <2>2, TaskOn
<1> QED
  BY <1>3, <1>4 DEF Payloads, InPhase

(* A worker on a run keeps its record, or loses it to a release.           *)
LEMMA HoldersStill ==
  ASSUME TypeOK, LeaseOwnership, TypeOK', Shape, Holders, stolen \subseteq stolen',
         \A t \in Tokens : Working(t)' /\ IsTask(t) => Working(t),
         \A t \in Tokens, j \in JobIds :
           Working(t)' /\ jobs[j] # NoJob /\ jobs[j].owner = t =>
             \/ Untouched(jobs[j], jobs'[j])
             \/ IsTask(t) /\ jobs[j].spec.recurring => jobs[j].payload \in stolen'
  PROVE  Holders'
<1> SUFFICES ASSUME NEW t \in Tokens, Working(t)', task'[t].payload \notin stolen'
             PROVE  VerifyOwner(jobs, task[t].job, t)'
  BY DEF Holders
<1>1. IsTask(t)' /\ task'[t].spec.recurring
  BY DEF Working
<1>2. CASE \E j \in JobIds : Taken(j) /\ jobs'[j].owner = t /\ task'[t].job = j
  BY <1>2 DEF Taken, Moved, VerifyOwner
<1>3. CASE /\ IsTask(t) /\ task'[t].job = task[t].job
           /\ task'[t].spec = task[t].spec /\ task'[t].payload = task[t].payload
  <2> DEFINE j == task[t].job
  <2>1. Working(t) /\ task[t].payload \notin stolen
    BY <1>3
  <2>2. VerifyOwner(jobs, j, t)
    BY <2>1 DEF Holders
  <2>3. /\ j \in JobIds /\ jobs[j] # NoJob /\ jobs[j].status = "running"
        /\ jobs[j].spec = task[t].spec /\ jobs[j].payload = task[t].payload
        /\ jobs[j].owner = t
    BY <1>3, <2>2, OwnerRuns
  <2>4. Untouched(jobs[j], jobs'[j])
    BY <1>1, <1>3, <2>3
  <2> QED
    BY <1>3, <2>3, <2>4 DEF Untouched, VerifyOwner
<1> QED
  BY <1>1, <1>2, <1>3, TaskOn

(* A step that enqueues nothing and completes no recurring run.            *)
LEMMA QuietChain ==
  ASSUME IInv, TypeOK', Shape, Chain, nextId' = nextId,
         going' \subseteq going, stolen \subseteq stolen',
         \A t \in Tokens :
           /\ Working(t)' /\ IsTask(t) => Working(t)
           /\ InPhase(t, "requeue")' => InPhase(t, "requeue")
           /\ InPhase(t, "requeue") => InPhase(t, "requeue")' \/ task[t].payload \notin going',
         \A t \in Tokens, j \in JobIds :
           Working(t)' /\ jobs[j] # NoJob /\ jobs[j].owner = t =>
             \/ Untouched(jobs[j], jobs'[j])
             \/ IsTask(t) /\ jobs[j].spec.recurring => jobs[j].payload \in stolen',
         \A j \in Live(jobs) : \/ j \in Live(jobs)'
                               \/ jobs[j].spec.recurring => jobs[j].payload \notin going'
  PROVE  Chain'
<1>1. \A j \in JobIds : ~Submitted(j)
  BY DEF Submitted, IInv, TypeOK
<1>2. Holders'
  BY HoldersStill DEF IInv, Chain
<1>3. \A t \in Tokens : InPhase(t, "requeue")' => task'[t].spec.recurring
  BY TaskOn DEF InPhase, Chain, Payloads
<1>4. Payloads'
  BY <1>1, <1>3, PayloadsStill DEF IInv, Chain
<1>5. ASSUME NEW p \in JobIds
      PROVE  Line(p)'
  <2>1. p \in going' => \A j \in Seeds(p) : j \in Live(jobs)'
    BY DEF Seeds
  <2>2. p \in going' => \A t \in Heirs(p) : InPhase(t, "requeue")'
    BY DEF Heirs
  <2> QED
    BY <1>1, <2>1, <2>2, LineStill DEF Chain
<1> QED
  BY <1>2, <1>4, <1>5 DEF Chain

(* The record that a step enqueues.                                        *)
LEMMA SubmitPut ==
  ASSUME IInv, NEW spec \in Specs, NEW delay \in Int, NEW created \in Instants,
         NEW payload \in JobIds, nextId \in JobIds, nextId' = nextId + 1,
         jobs' = Put(jobs, nextId, NewJob(spec, delay, created, payload))
  PROVE  /\ nextId \in Live(jobs)'
         /\ jobs'[nextId].spec = spec /\ jobs'[nextId].payload = payload
         /\ \A j \in JobIds \ {nextId} : Untouched(jobs[j], jobs'[j]) /\ ~Submitted(j)
         /\ jobs[nextId] = NoJob
<1> DEFINE r == NewJob(spec, delay, created, payload)
<1>1. r \in Job /\ r # NoJob
  BY NewJobType
<1>2. r.status = "queued" /\ r.spec = spec /\ r.payload = payload
  BY DEF NewJob
<1>3. jobs \in JobMap /\ jobs[nextId] = NoJob
  BY MaxJobsAssumption DEF IInv, TypeOK, JobMap, FreshIds, JobIds
<1> HIDE DEF r
<1>4. /\ \A j \in JobIds \ {nextId} : Untouched(jobs[j], jobs'[j])
      /\ jobs'[nextId] = r
  BY <1>1, <1>2, <1>3, PutEffect DEF r
<1> QED
  BY <1>1, <1>2, <1>3, <1>4 DEF Submitted, Live, With

(* What an enqueue leaves as it was.                                       *)
LEMMA SubmitStill ==
  ASSUME IInv, TypeOK', Shape, Chain, stolen' = stolen, nextId' = nextId + 1,
         \A j \in JobIds \ {nextId} : Untouched(jobs[j], jobs'[j]) /\ ~Submitted(j),
         jobs[nextId] = NoJob, jobs'[nextId].payload < nextId',
         \A t \in Tokens : /\ Working(t)' /\ IsTask(t) => Working(t)
                           /\ InPhase(t, "requeue")' => InPhase(t, "requeue")
  PROVE  Payloads' /\ Holders' /\ \A j \in Live(jobs) : j \in Live(jobs)'
<1>1. Holders'
  BY HoldersStill DEF IInv, Chain
<1>2. \A t \in Tokens : InPhase(t, "requeue")' => task'[t].spec.recurring
  BY TaskOn DEF InPhase, Chain, Payloads
<1>3. Payloads'
  BY <1>2, PayloadsStill DEF IInv, Chain
<1>4. \A j \in Live(jobs) : j \in Live(jobs)'
  BY DEF Live, With, Untouched
<1> QED
  BY <1>1, <1>3, <1>4

(* An enqueued job begins a chain of its own.                              *)
LEMMA EnqueueChain ==
  ASSUME IInv, TypeOK', Shape, Chain,
         NEW spec \in Specs, NEW delay \in {0, Interval}, NEW now \in Instants,
         Enqueue(spec, delay, now)
  PROVE  Chain'
<1>1. /\ nextId \in JobIds /\ nextId' = nextId + 1 /\ UNCHANGED <<task, stolen>>
      /\ going' = IF spec.recurring THEN going \cup {nextId} ELSE going
      /\ jobs' = Put(jobs, nextId, NewJob(spec, delay, now, nextId))
  BY DEF Enqueue
<1>2. /\ nextId \in Live(jobs)' /\ jobs'[nextId].spec = spec /\ jobs'[nextId].payload = nextId
      /\ \A j \in JobIds \ {nextId} : Untouched(jobs[j], jobs'[j]) /\ ~Submitted(j)
      /\ jobs[nextId] = NoJob
  BY <1>1, SubmitPut, TimingAssumption
<1>3. \A t \in Tokens : (Working(t)' <=> Working(t)) /\ (InPhase(t, "requeue")' <=> InPhase(t, "requeue"))
  BY <1>1 DEF Working, InPhase, IsTask
<1>4. jobs'[nextId].payload < nextId'
  BY <1>1, <1>2 DEF JobIds
<1>5. Payloads' /\ Holders' /\ \A j \in Live(jobs) : j \in Live(jobs)'
  BY <1>1, <1>2, <1>3, <1>4, SubmitStill
<1>6. ASSUME NEW p \in JobIds, p # nextId
      PROVE  Line(p)'
  <2>1. \A j \in JobIds : Submitted(j) => jobs'[j].payload # p
    BY <1>2, <1>6
  <2>2. /\ \A j \in Seeds(p) : j \in Live(jobs)'
        /\ \A t \in Heirs(p) : InPhase(t, "requeue")'
    BY <1>3, <1>5 DEF Seeds, Heirs
  <2> QED
    BY <1>1, <1>3, <1>6, <2>1, <2>2, LineStill DEF Chain
<1>7. ASSUME NEW p \in JobIds, p = nextId
      PROVE  Line(p)'
  <2>1. p \in Int
    BY DEF JobIds
  <2>a. /\ \A j \in JobIds : jobs[j] # NoJob => jobs[j].payload < p
        /\ \A t \in Tokens : IsTask(t) => task[t].payload < p
    <3>1. Payloads
      BY DEF Chain
    <3> QED
      BY <1>7, <3>1 DEF Payloads
  <2>b. ~(p < p)
    BY <2>1
  <2>c. \A j \in Live(jobs) : jobs[j].payload # p
    <3>1. \A j \in Live(jobs) : j \in JobIds /\ jobs[j] # NoJob
      BY DEF Live, With
    <3> QED
      BY <2>a, <2>b, <3>1
  <2>2. Seeds(p) = {} /\ Heirs(p) = {}
    <3>1. \A t \in Tokens : IsTask(t) => task[t].payload # p
      BY <2>a, <2>b
    <3> QED
      BY <2>c, <3>1 DEF Seeds, Heirs, InPhase
  <2>3. Seeds(p)' \subseteq {p}
    <3>1. ASSUME NEW j \in JobIds, j \in Live(jobs)', jobs'[j].payload = p, j # p
          PROVE  FALSE
      <4>1. j \in Live(jobs) /\ jobs'[j].payload = jobs[j].payload
        BY <1>2, <1>7, <3>1, LiveStep
      <4> QED
        BY <2>c, <3>1, <4>1
    <3> QED
      BY <3>1 DEF Seeds, Live, With
  <2>4. Heirs(p)' = {}
    BY <1>1, <1>3, <2>2 DEF Heirs
  <2>5. spec.recurring => p \in Seeds(p)'
    BY <1>2, <1>7 DEF Seeds
  <2>6. p \in going' => spec.recurring
    BY <1>1, <2>2 DEF Chain, Line
  <2> QED
    BY <2>3, <2>4, <2>5, <2>6 DEF Line
<1> QED
  BY <1>5, <1>6, <1>7 DEF Chain

(* The next run takes the place of the task that enqueues it.              *)
LEMMA EnqueueNextChain ==
  ASSUME IInv, TypeOK', Shape, Chain, NEW t \in Tokens, InPhase(t, "requeue"),
         EnqueueNext(t), UNCHANGED <<going, stolen>>,
         ~InPhase(t, "requeue")', ~Working(t)',
         \A u \in Tokens \ {t} : task'[u] = task[u]
  PROVE  Chain'
<1> DEFINE r == task[t].payload
<1>1. /\ task[t].spec \in Specs /\ task[t].created \in Instants /\ r \in JobIds
      /\ task[t].spec.recurring /\ r < nextId
  BY DEF IInv, TypeOK, InPhase, IsTask, Task, Chain, Payloads
<1>2. /\ nextId \in JobIds /\ nextId' = nextId + 1
      /\ jobs' = Put(jobs, nextId, NewJob(task[t].spec, Interval, task[t].created, r))
  BY DEF EnqueueNext
<1>3. /\ nextId \in Live(jobs)' /\ jobs'[nextId].spec = task[t].spec
      /\ jobs'[nextId].payload = r
      /\ \A j \in JobIds \ {nextId} : Untouched(jobs[j], jobs'[j]) /\ ~Submitted(j)
      /\ jobs[nextId] = NoJob
  BY <1>1, <1>2, SubmitPut, TimingAssumption
<1>4. \A u \in Tokens \ {t} : /\ Working(u)' <=> Working(u)
                              /\ InPhase(u, "requeue")' <=> InPhase(u, "requeue")
  BY DEF Working, InPhase, IsTask
<1>5. jobs'[nextId].payload < nextId'
  BY <1>1, <1>2, <1>3 DEF JobIds
<1>6. Payloads' /\ Holders' /\ \A j \in Live(jobs) : j \in Live(jobs)'
  BY <1>2, <1>3, <1>4, <1>5, SubmitStill
<1>7. ASSUME NEW p \in JobIds, p # r
      PROVE  Line(p)'
  <2>1. \A j \in JobIds : Submitted(j) => jobs'[j].payload # p
    BY <1>3, <1>7
  <2>2. /\ \A j \in Seeds(p) : j \in Live(jobs)'
        /\ \A u \in Heirs(p) : InPhase(u, "requeue")'
    BY <1>4, <1>6, <1>7 DEF Seeds, Heirs
  <2>3. \A u \in Tokens : InPhase(u, "requeue")' /\ task'[u].payload = p => InPhase(u, "requeue")
    BY <1>4
  <2> QED
    BY <1>7, <2>1, <2>2, <2>3, LineStill DEF Chain
<1>8. ASSUME NEW p \in JobIds, p = r
      PROVE  Line(p)'
  <2>1. t \in Heirs(p)
    BY <1>8 DEF Heirs
  <2>2. p \notin stolen => Seeds(p) = {} /\ Heirs(p) = {t}
    BY <2>1 DEF Chain, Line
  <2>3. Seeds(p)' \subseteq Seeds(p) \cup {nextId}
    <3>1. ASSUME NEW j \in JobIds \ {nextId}, j \in Seeds(p)'
          PROVE  j \in Seeds(p)
      BY <1>3, <3>1, LiveStep DEF Seeds
    <3> QED
      BY <3>1 DEF Seeds, Live, With
  <2>4. Heirs(p)' \subseteq Heirs(p) \ {t}
    BY <1>4 DEF Heirs
  <2>5. nextId \in Seeds(p)'
    BY <1>1, <1>3, <1>8 DEF Seeds
  <2> QED
    BY <2>2, <2>3, <2>4, <2>5 DEF Line
<1> QED
  BY <1>6, <1>7, <1>8 DEF Chain

(* Completing a run turns its live record into the task that is about to   *)
(* enqueue the next one.                                                   *)
LEMMA CompleteChain ==
  ASSUME IInv, TypeOK', Shape, Chain, NEW t \in Tokens, Complete(t), task[t].spec.recurring
  PROVE  Chain'
<1> DEFINE r == task[t].payload
           i == task[t].job
<1>1. /\ InPhase(t, "complete") /\ Goto(t, "requeue") /\ jobs' = CompleteJob(jobs, i, t)
      /\ UNCHANGED <<nextId, going, stolen>>
  BY DEF Complete
<1>2. /\ IsTask(t) /\ task[t] \in Task /\ task[t].phase = "complete" /\ r \in JobIds
      /\ i \in JobIds /\ jobs \in JobMap
  BY <1>1 DEF IInv, TypeOK, InPhase, IsTask, Task, JobMap
<1>3. /\ InPhase(t, "requeue")' /\ ~InPhase(t, "requeue") /\ ~Working(t)'
      /\ task'[t].spec = task[t].spec /\ task'[t].payload = r
      /\ \A u \in Tokens \ {t} : task'[u] = task[u]
  <2> DEFINE new == [task[t] EXCEPT !.phase = "requeue"]
  <2>1. new \in Task /\ new.phase = "requeue" /\ new.spec = task[t].spec /\ new.payload = r
    BY <1>2 DEF Task, TaskPhase
  <2>2. task' = [task EXCEPT ![t] = new]
    BY <1>1 DEF Goto
  <2> HIDE DEF new
  <2>3. task'[t] = new /\ \A u \in Tokens \ {t} : task'[u] = task[u]
    BY <2>2 DEF IInv, TypeOK
  <2> QED
    BY <1>2, <2>1, <2>3, NoTaskAssumption DEF InPhase, IsTask, Working
<1>4. \A j \in JobIds : \/ Untouched(jobs[j], jobs'[j])
                        \/ /\ j = i /\ VerifyOwner(jobs, i, t)
                           /\ Ended(jobs[j], jobs'[j], "completed", 0)
  BY <1>1, <1>2, CompleteEffect
<1>5. VerifyOwner(jobs, i, t) =>
        /\ jobs[i] # NoJob /\ jobs[i].status = "running" /\ jobs[i].owner = t
        /\ jobs[i].spec = task[t].spec /\ jobs[i].payload = r
  BY <1>2, OwnerRuns DEF IInv
<1>6. \A u \in Tokens \ {t} : /\ Working(u)' <=> Working(u)
                              /\ InPhase(u, "requeue")' <=> InPhase(u, "requeue")
  BY <1>3 DEF Working, InPhase, IsTask
<1>7. \A j \in JobIds : ~Submitted(j)
  BY <1>1 DEF Submitted, IInv, TypeOK
<1>8. Holders'
  <2>1. \A u \in Tokens, j \in JobIds :
          Working(u)' /\ jobs[j] # NoJob /\ jobs[j].owner = u => Untouched(jobs[j], jobs'[j])
    BY <1>3, <1>4, <1>5
  <2>2. \A u \in Tokens : Working(u)' /\ IsTask(u) => Working(u)
    BY <1>3, <1>6
  <2> QED
    BY <1>1, <2>1, <2>2, HoldersStill DEF IInv, Chain
<1>9. Payloads'
  <2>1. \A u \in Tokens : InPhase(u, "requeue")' => task'[u].spec.recurring
    BY <1>3, <1>6 DEF Chain, Payloads, InPhase
  <2> QED
    BY <1>7, <2>1, PayloadsStill DEF IInv, Chain
<1>10. ASSUME NEW p \in JobIds, p # r
       PROVE  Line(p)'
  <2>1. \A j \in Seeds(p) : j \in Live(jobs)'
    <3>1. ASSUME NEW j \in Seeds(p)
          PROVE  Untouched(jobs[j], jobs'[j])
      BY <1>4, <1>5, <1>10 DEF Seeds, Live, With
    <3> QED
      BY <3>1 DEF Seeds, Live, With, Untouched
  <2>2. \A u \in Heirs(p) : InPhase(u, "requeue")'
    BY <1>3, <1>6 DEF Heirs
  <2>3. \A u \in Tokens : InPhase(u, "requeue")' /\ task'[u].payload = p => InPhase(u, "requeue")
    BY <1>3, <1>6, <1>10
  <2> QED
    BY <1>1, <1>7, <2>1, <2>2, <2>3, LineStill DEF Chain
<1>11. ASSUME NEW p \in JobIds, p = r
       PROVE  Line(p)'
  <2>1. t \in Heirs(p)'
    BY <1>3, <1>11 DEF Heirs
  <2>2. ASSUME p \notin stolen
        PROVE  Seeds(p)' = {} /\ Heirs(p)' = {t}
    <3>1. Working(t)
      BY <1>2 DEF Working
    <3>2. VerifyOwner(jobs, i, t)
      BY <1>11, <2>2, <3>1 DEF Chain, Holders
    <3>3. i \in Seeds(p)
      BY <1>2, <1>5, <1>11, <3>2 DEF Seeds, Live, With
    <3>4. Seeds(p) = {i} /\ Heirs(p) = {}
      BY <2>2, <3>3 DEF Chain, Line
    <3>5. i \notin Live(jobs)'
      <4>2. jobs' = Put(jobs, i, Unleased(jobs[i], "completed", jobs[i].attempts, jobs[i].runIn))
        BY <1>1, <3>2 DEF CompleteJob
      <4>3. jobs[i].attempts \in Nat /\ jobs[i].runIn \in Int
        BY <1>2, <1>5, <3>2 DEF JobMap, Job
      <4>4. \/ Moved(jobs[i], jobs'[i], Status, "completed", 0, NoToken)
            \/ jobs'[i] = NoJob
        <5>1. "completed" \in Status /\ 0 \in {0, 1} /\ jobs[i].attempts + 0 = jobs[i].attempts
          BY <4>3 DEF Status
        <5> QED
          BY <1>2, <3>2, <4>2, <4>3, <5>1, UnleaseEffect
      <4> QED
        BY <4>4 DEF Live, With, Moved
    <3>6. Seeds(p)' \subseteq Seeds(p)
      BY <1>7, LiveStep DEF Seeds, Live, With
    <3>7. Heirs(p)' \subseteq Heirs(p) \cup {t}
      BY <1>3, <1>6 DEF Heirs
    <3> QED
      BY <2>1, <3>4, <3>5, <3>6, <3>7 DEF Seeds
  <2> QED
    BY <1>1, <2>1, <2>2 DEF Line
<1> QED
  BY <1>8, <1>9, <1>10, <1>11 DEF Chain

(* Every step keeps the chains.                                            *)
LEMMA ChainStep ==
  ASSUME IInv, TypeOK', Shape, Chain, [Next]_vars
  PROVE  Chain'
<1>a. jobs \in JobMap /\ TypeOK /\ LeaseOwnership
      /\ \A w \in Workers : age[w] \in Int /\ Lease - age[w] \in Int
  BY TimingAssumption, MaxLagAssumption DEF IInv, TypeOK, JobMap
(* Records change only in what chains do not depend on.                    *)
<1>b. ASSUME nextId' = nextId, going' \subseteq going, stolen \subseteq stolen',
             \A j \in JobIds : Untouched(jobs[j], jobs'[j]),
             \A t \in Tokens :
               /\ Working(t)' /\ IsTask(t) => Working(t)
               /\ InPhase(t, "requeue")' => InPhase(t, "requeue")
               /\ InPhase(t, "requeue") => InPhase(t, "requeue")' \/ task[t].payload \notin going'
      PROVE  Chain'
  <2>1. \A j \in Live(jobs) : j \in Live(jobs)'
    BY <1>b DEF Live, With, Untouched
  <2> QED
    BY <1>b, <2>1, QuietChain
<1>c. ASSUME UNCHANGED task
      PROVE  \A t \in Tokens : /\ Working(t)' <=> Working(t)
                               /\ InPhase(t, "requeue")' <=> InPhase(t, "requeue")
  BY <1>c DEF Working, InPhase, IsTask
<1>d. ASSUME NEW t \in Tokens, IsTask(t), NEW phase \in TaskPhase, Goto(t, phase)
      PROVE  /\ task'[t].phase = phase /\ task'[t].spec = task[t].spec /\ IsTask(t)'
             /\ \A u \in Tokens \ {t} : task'[u] = task[u]
  <2> DEFINE new == [task[t] EXCEPT !.phase = phase]
  <2>1. task[t] \in Task
    BY <1>a, <1>d DEF TypeOK, IsTask
  <2>2. new \in Task /\ new.phase = phase /\ new.spec = task[t].spec
    BY <1>d, <2>1 DEF Task
  <2>3. task' = [task EXCEPT ![t] = new]
    BY <1>d DEF Goto
  <2> HIDE DEF new
  <2>4. task'[t] = new /\ \A u \in Tokens \ {t} : task'[u] = task[u]
    BY <1>a, <2>3 DEF TypeOK
  <2> QED
    BY <2>2, <2>4, NoTaskAssumption DEF IsTask
<1>e. ASSUME NEW t \in Tokens, IsTask(t), Settle(t)
      PROVE  ~IsTask(t)' /\ \A u \in Tokens \ {t} : task'[u] = task[u]
  BY <1>a, <1>e DEF Settle, TypeOK, IsTask
<1>1. ASSUME NEW spec \in Specs, NEW delay \in {0, Interval}, NEW now \in Instants,
             Enqueue(spec, delay, now)
      PROVE  Chain'
  BY <1>1, EnqueueChain
<1>2. ASSUME NEW w \in Workers, Renew(w)
      PROVE  Chain'
  <2>1. PICK j \in ToRenew(w) : jobs' = HeartbeatJob(jobs, j, held[w][j], Lease - age[w])
    BY <1>2 DEF Renew
  <2>2. j \in JobIds /\ UNCHANGED <<task, nextId, going, stolen>>
    BY <1>2, <2>1 DEF Renew, ToRenew, InFlight
  <2>3. \A x \in JobIds : Untouched(jobs[x], jobs'[x])
    BY <1>a, <2>1, <2>2, HeartbeatEffect
  <2> QED
    BY <1>b, <1>c, <2>2, <2>3
<1>3. ASSUME NEW w \in Workers, Release(w)
      PROVE  Chain'
  <2>1. /\ jobs' = ReleaseExpired(jobs, age[w]) /\ UNCHANGED <<task, nextId, going>>
        /\ stolen' = stolen \cup Lost(Expired(jobs, age[w]))
    BY <1>3 DEF Release
  <2>2. \A j \in JobIds : \/ Untouched(jobs[j], jobs'[j])
                          \/ Moved(jobs[j], jobs'[j], {"running"}, "queued", 0, NoToken)
    BY <1>a, <2>1, ReleaseEffect
  <2>3. \A j \in JobIds \ Expired(jobs, age[w]) : Untouched(jobs[j], jobs'[j])
    <3>1. ASSUME NEW j \in JobIds \ Expired(jobs, age[w])
          PROVE  Steady(jobs[j], jobs'[j])
      BY <1>a, <2>1, <3>1, ReleaseSteady
    <3> QED
      BY <3>1, NoJobAssumption DEF Steady, Untouched
  <2>4. ASSUME NEW t \in Tokens, NEW j \in JobIds,
               IsTask(t), jobs[j].owner = t, jobs[j].spec.recurring,
               j \in Expired(jobs, age[w])
        PROVE  jobs[j].payload \in stolen'
    BY <2>1, <2>4 DEF Lost
  <2>5. \A t \in Tokens, j \in JobIds :
          Working(t)' /\ jobs[j] # NoJob /\ jobs[j].owner = t =>
            \/ Untouched(jobs[j], jobs'[j])
            \/ IsTask(t) /\ jobs[j].spec.recurring => jobs[j].payload \in stolen'
    BY <2>3, <2>4
  <2>6. \A j \in Live(jobs) : j \in Live(jobs)'
    BY <2>2 DEF Live, With, Untouched, Moved
  <2> QED
    BY <1>c, <2>1, <2>5, <2>6, QuietChain
<1>4. ASSUME NEW w \in Workers, Claim(w)
      PROVE  Chain'
  <2>1. PICK S \in SUBSET With(jobs, {"queued"}) : \E token : Claims(w, S, token)
    BY <1>4, <1>a, ClaimDetails
  <2>2. PICK token : Claims(w, S, token)
    BY <2>1
  <2>3. UNCHANGED <<nextId, going, stolen>>
    BY <1>4 DEF Claim
  <2>4. ASSUME NEW t \in Tokens
        PROVE  /\ Working(t)' /\ IsTask(t) => Working(t)
               /\ InPhase(t, "requeue")' => InPhase(t, "requeue")
               /\ InPhase(t, "requeue") => InPhase(t, "requeue")'
    <3>1. CASE task'[t] = task[t]
      BY <3>1 DEF Working, InPhase, IsTask
    <3>2. CASE \E j \in S : token[j] = t /\ task'[t] = ClaimTask(w, j)
      <4>1. ~IsTask(t)
        BY <2>2, <3>2 DEF Claims, FreeTokens
      <4> QED
        BY <3>2, <4>1 DEF ClaimTask, InPhase
    <3> QED
      BY <2>2, <3>1, <3>2 DEF Claims
  <2>5. \A j \in JobIds : jobs[j] # NoJob /\ jobs[j].owner \in Tokens => Untouched(jobs[j], jobs'[j])
    <3>1. ASSUME NEW j \in JobIds, jobs[j] # NoJob, jobs[j].owner \in Tokens
          PROVE  j \notin S
      BY <1>a, <3>1, NoTokenAssumption DEF With, LeaseOwnership, OwnedWhileRunning
    <3> QED
      BY <2>2, <3>1 DEF Claims
  <2>6. \A j \in Live(jobs) : j \in Live(jobs)'
    BY <2>2 DEF Claims, Live, With, Untouched, Moved
  <2> QED
    BY <2>3, <2>4, <2>5, <2>6, QuietChain
<1>5. ASSUME NEW w \in Workers, Launch(w)
      PROVE  Chain'
  <2>1. /\ UNCHANGED <<jobs, nextId, going, stolen>>
        /\ \A t \in Tokens :
             \/ task'[t] = task[t]
             \/ /\ t \in TasksOf(w) \ Running(w)
                /\ task'[t] = [task[t] EXCEPT !.phase =
                                 IF task[t].spec.handled THEN "handler" ELSE "fail"]
    BY <1>5 DEF Launch
  <2>2. ASSUME NEW t \in Tokens
        PROVE  /\ Working(t)' /\ IsTask(t) => Working(t)
               /\ InPhase(t, "requeue")' <=> InPhase(t, "requeue")
    <3>1. CASE task'[t] = task[t]
      BY <3>1 DEF Working, InPhase, IsTask
    <3>2. CASE task'[t] # task[t]
      <4>1. IsTask(t) /\ task[t].phase = "claimed" /\ task[t] \in Task
        BY <1>a, <2>1, <3>2 DEF TasksOf, Running, IsTask, TypeOK
      <4>2. task'[t].phase # "requeue" /\ task'[t].spec = task[t].spec
        BY <2>1, <3>2, <4>1 DEF Task
      <4> QED
        BY <4>1, <4>2 DEF Working, InPhase
    <3> QED
      BY <3>1, <3>2
  <2> QED
    BY <1>b, <2>1, <2>2 DEF Untouched
<1>6. ASSUME NEW w \in Workers,
             PollFires(w) \/ TickFault(w) \/ Start(w) \/ Stop(w) \/ StopResolves(w) \/ Restart(w)
      PROVE  Chain'
  <2>1. UNCHANGED <<jobs, nextId, task, going, stolen>>
    BY <1>6 DEF PollFires, TickFault, Start, Stop, StopResolves, Restart
  <2> QED
    BY <1>b, <1>c, <2>1 DEF Untouched
<1>7. ASSUME NEW w \in Workers, Crash(w)
      PROVE  Chain'
  <2>1. /\ UNCHANGED <<jobs, nextId, stolen>>
        /\ \A t \in Tokens : task'[t] = IF t \in TasksOf(w) THEN NoTask ELSE task[t]
        /\ going' = going \ {task[t].payload : t \in {u \in TasksOf(w) : InPhase(u, "requeue")}}
    BY <1>7 DEF Crash
  <2>2. ASSUME NEW t \in Tokens
        PROVE  /\ Working(t)' /\ IsTask(t) => Working(t)
               /\ InPhase(t, "requeue")' => InPhase(t, "requeue")
               /\ InPhase(t, "requeue") => InPhase(t, "requeue")' \/ task[t].payload \notin going'
    <3>1. CASE t \in TasksOf(w)
      <4>1. ~IsTask(t)'
        BY <2>1, <3>1 DEF IsTask
      <4> QED
        BY <2>1, <3>1, <4>1 DEF Working, InPhase
    <3>2. CASE t \notin TasksOf(w)
      BY <2>1, <3>2 DEF Working, InPhase, IsTask
    <3> QED
      BY <3>1, <3>2
  <2> QED
    BY <1>b, <2>1, <2>2 DEF Untouched
<1>8. ASSUME NEW t \in Tokens, HandlerReturns(t) \/ HandlerThrows(t) \/ BookkeepingFault(t)
      PROVE  Chain'
  <2>1. /\ UNCHANGED <<jobs, nextId, stolen>> /\ going' \subseteq going /\ IsTask(t)
        /\ InPhase(t, "requeue") => task[t].payload \notin going'
        /\ \/ task[t].phase = "handler" /\ Goto(t, "complete")
           \/ Goto(t, "fail")
    BY <1>8 DEF HandlerReturns, HandlerThrows, BookkeepingFault, InPhase
  <2>2. ASSUME NEW u \in Tokens
        PROVE  /\ Working(u)' /\ IsTask(u) => Working(u)
               /\ InPhase(u, "requeue")' => InPhase(u, "requeue")
               /\ InPhase(u, "requeue") => InPhase(u, "requeue")' \/ task[u].payload \notin going'
    <3>1. CASE u = t
      BY <1>d, <2>1, <3>1 DEF Working, InPhase, TaskPhase
    <3>2. CASE u # t
      <4>1. task'[u] = task[u]
        BY <1>d, <2>1, <3>2 DEF TaskPhase
      <4> QED
        BY <4>1 DEF Working, InPhase, IsTask
    <3> QED
      BY <3>1, <3>2
  <2> QED
    BY <1>b, <2>1, <2>2 DEF Untouched
(* A task ends a run that is not recurring, or hands it back, or fails it. *)
<1>9. ASSUME NEW t \in Tokens, IsTask(t), ~InPhase(t, "requeue"),
             Settle(t) \/ Goto(t, "fail"),
             UNCHANGED <<nextId, stolen>>, going' \subseteq going,
             \A j \in JobIds :
               \/ Untouched(jobs[j], jobs'[j])
               \/ /\ jobs[j] # NoJob /\ jobs[j].owner = t
                  /\ \/ jobs'[j] # NoJob /\ jobs'[j].status = "queued"
                     \/ jobs[j].spec.recurring => jobs[j].payload \notin going'
      PROVE  Chain'
  <2>1. ~Working(t)' /\ ~InPhase(t, "requeue")' /\ \A u \in Tokens \ {t} : task'[u] = task[u]
    BY <1>9, <1>d, <1>e DEF Working, InPhase, TaskPhase
  <2>2. \A u \in Tokens \ {t} : /\ Working(u)' <=> Working(u)
                                /\ InPhase(u, "requeue")' <=> InPhase(u, "requeue")
    BY <2>1 DEF Working, InPhase, IsTask
  <2>3. \A u \in Tokens, j \in JobIds :
          Working(u)' /\ jobs[j] # NoJob /\ jobs[j].owner = u => Untouched(jobs[j], jobs'[j])
    BY <1>9, <2>1
  <2>4. \A j \in Live(jobs) : \/ j \in Live(jobs)'
                              \/ jobs[j].spec.recurring => jobs[j].payload \notin going'
    BY <1>9 DEF Live, With, Untouched
  <2>5. \A u \in Tokens :
          /\ Working(u)' /\ IsTask(u) => Working(u)
          /\ InPhase(u, "requeue")' => InPhase(u, "requeue")
          /\ InPhase(u, "requeue") => InPhase(u, "requeue")' \/ task[u].payload \notin going'
    BY <1>9, <2>1, <2>2
  <2> QED
    BY <1>9, <2>3, <2>4, <2>5, QuietChain
(* What completing the run of a job that is not recurring does.            *)
<1>f. ASSUME NEW t \in Tokens, InPhase(t, "complete"), ~task[t].spec.recurring,
             jobs' = CompleteJob(jobs, task[t].job, t)
      PROVE  \A j \in JobIds :
               \/ Untouched(jobs[j], jobs'[j])
               \/ jobs[j] # NoJob /\ jobs[j].owner = t /\ ~jobs[j].spec.recurring
  <2>1. IsTask(t) /\ task[t].job \in JobIds
    BY <1>a, <1>f DEF InPhase, IsTask, TypeOK, Task
  <2> QED
    BY <1>a, <1>f, <2>1, CompleteEffect, OwnerRuns
<1>10. ASSUME NEW t \in Tokens, Complete(t)
       PROVE  Chain'
  <2>1. CASE task[t].spec.recurring
    BY <1>10, <2>1, CompleteChain
  <2>2. CASE ~task[t].spec.recurring
    BY <1>10, <1>9, <1>f, <2>2 DEF Complete, InPhase
  <2> QED
    BY <2>1, <2>2
<1>11. ASSUME NEW t \in Tokens, Requeue(t)
       PROVE  Chain'
  <2>1. /\ InPhase(t, "requeue") /\ IsTask(t) /\ EnqueueNext(t) /\ Settle(t)
        /\ UNCHANGED <<going, stolen>>
    BY <1>11 DEF Requeue, InPhase
  <2>2. ~InPhase(t, "requeue")' /\ ~Working(t)' /\ \A u \in Tokens \ {t} : task'[u] = task[u]
    BY <1>e, <2>1 DEF InPhase, Working
  <2> QED
    BY <2>1, <2>2, EnqueueNextChain
<1>12. ASSUME NEW t \in Tokens, Fail(t)
       PROVE  Chain'
  <2>1. /\ InPhase(t, "fail") /\ IsTask(t) /\ ~InPhase(t, "requeue") /\ Settle(t)
        /\ UNCHANGED <<nextId, stolen>> /\ going' \subseteq going
        /\ task[t].job \in JobIds
    BY <1>12, <1>a DEF Fail, InPhase, IsTask, TypeOK, Task
  <2>2. CASE Retries(t)
    <3>1. backoffFor(task[t].attempts + 1) \in Int
      BY <1>a, <2>1 DEF backoffFor, IsTask, TypeOK, Task
    <3>2. jobs' = RetryJob(jobs, task[t].job, t, backoffFor(task[t].attempts + 1))
      BY <1>12, <2>2 DEF Fail
    <3>3. \A j \in JobIds :
            \/ Untouched(jobs[j], jobs'[j])
            \/ jobs[j] # NoJob /\ jobs[j].owner = t /\ jobs'[j] # NoJob /\ jobs'[j].status = "queued"
      BY <1>a, <2>1, <3>1, <3>2, RetryEffect DEF Moved, VerifyOwner
    <3> QED
      BY <1>9, <2>1, <3>3
  <2>3. CASE ~Retries(t)
    <3>1. /\ jobs' = GiveUpJob(jobs, task[t].job, t)
          /\ VerifyOwner(jobs, task[t].job, t) => going' = going \ {task[t].payload}
      BY <1>12, <2>3 DEF Fail
    <3>2. \A j \in JobIds :
            \/ Untouched(jobs[j], jobs'[j])
            \/ jobs[j] # NoJob /\ jobs[j].owner = t /\ jobs[j].payload \notin going'
      BY <1>a, <2>1, <3>1, GiveUpEffect, OwnerRuns
    <3> QED
      BY <1>9, <2>1, <3>2
  <2> QED
    BY <2>2, <2>3
<1>13. ASSUME NEW t \in Tokens, OnCompleteThrows(t)
       PROVE  Chain'
  <2>1. IsTask(t) /\ Goto(t, "fail") /\ UNCHANGED <<going, stolen>>
    BY <1>13 DEF OnCompleteThrows, InPhase
  <2>2. CASE InPhase(t, "requeue") /\ EnqueueNext(t)
    <3>1. ~InPhase(t, "requeue")' /\ ~Working(t)' /\ \A u \in Tokens \ {t} : task'[u] = task[u]
      BY <1>d, <2>1 DEF InPhase, Working, TaskPhase
    <3> QED
      BY <2>1, <2>2, <3>1, EnqueueNextChain
  <2>3. CASE /\ InPhase(t, "complete") /\ ~task[t].spec.recurring /\ UNCHANGED nextId
             /\ jobs' = CompleteJob(jobs, task[t].job, t)
    BY <1>9, <1>f, <2>1, <2>3 DEF InPhase
  <2> QED
    BY <1>13, <2>2, <2>3 DEF OnCompleteThrows
<1>14. ASSUME NEW t \in Tokens, FailFault(t)
       PROVE  Chain'
  BY <1>9, <1>14 DEF FailFault, InPhase, Untouched
<1>15. CASE AdvanceTime
  <2>1. UNCHANGED <<nextId, task, going, stolen>> /\ \A j \in JobIds : Untouched(jobs[j], jobs'[j])
    BY <1>15, <1>a, ElapseEffect DEF AdvanceTime
  <2> QED
    BY <1>b, <1>c, <2>1
<1>16. CASE UNCHANGED vars
  <2>1. UNCHANGED <<jobs, nextId, task, going, stolen>>
    BY <1>16 DEF vars
  <2> QED
    BY <1>b, <1>c, <2>1 DEF Untouched
<1> QED
  BY <1>1, <1>2, <1>3, <1>4, <1>5, <1>6, <1>7, <1>8, <1>10, <1>11, <1>12, <1>13, <1>14,
     <1>15, <1>16
  DEF Next, TickStep, TaskStep

(* Whatever crashes, store faults, stops and late ticks do: a recurring     *)
(* job has a live run, or a task that is about to enqueue one, until a run  *)
(* fails for good or a crash or a fault comes between the completion and   *)
(* the enqueue; and never two, unless a release took a run from a live     *)
(* task.                                                                   *)
THEOREM ChainIntactHolds == Spec => []ChainIntact
<1>1. Init => Chain
  BY DEF Init, Chain, Payloads, Holders, Line, Seeds, Heirs, Working, IsTask, InPhase, Live, With
<1>2. IInv /\ IInv' /\ Chain /\ [Next]_vars => Chain'
  BY ChainStep, EveryStepHasShape DEF IInv
<1>3. IInv /\ Chain => ChainIntact
  <2> SUFFICES ASSUME IInv, Chain
               PROVE  ChainIntact
    OBVIOUS
  <2>1. going \subseteq JobIds
    BY DEF IInv, TypeOK
  <2>2. ChainAlive
    BY <2>1 DEF ChainAlive, Chain, Line, Seeds, Heirs
  <2>3. \A j \in Live(jobs) : jobs[j].payload \in JobIds
    BY DEF IInv, TypeOK, Live, With, Job
  <2>4. ChainUnique
    BY <2>3 DEF ChainUnique, Chain, Line, Seeds
  <2> QED
    BY <2>2, <2>4 DEF ChainIntact
<1> QED
  BY <1>1, <1>2, <1>3, Inductive, PTL DEF Spec

=============================================================================
