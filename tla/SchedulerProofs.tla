--------------------------- MODULE SchedulerProofs ---------------------------
(***************************************************************************)
(* For any number of runs, tokens, crashes and rejected store operations:  *)
(* one scheduler has one run pending and one more for each failed check of *)
(* its guard at the most, and while tasks end within their lease a run is  *)
(* started once, and once more for each crash of a scheduler process and   *)
(* each end of a run that could not be written down, at the most.  Nobody  *)
(* but the holder of its lease ever ends a run.                            *)
(***************************************************************************)
EXTENDS Scheduler, FiniteSetTheorems, TLAPS

JobMap == [JobIds -> Job \cup {NoJob}]
Over == {"completed", "failed"}

(* A record that pruning leaves alone, or takes because its run is over.   *)
Kept(o, n) == n = o \/ (n = NoJob /\ o # NoJob /\ o.status \in Over)

(* A record whose run has just ended.                                      *)
Ended(n) == n = NoJob \/ (n # NoJob /\ n.status \in Over /\ n.owner = NoToken)

Types ==
  /\ jobs \in JobMap
  /\ nextId \in Nat
  /\ tick \in [Schedulers -> {"idle", "check", "enqueue"}]
  /\ inline \in [JobIds -> Runner]
  /\ worker \in [JobIds -> Runner]
  /\ starts \in [JobIds -> Nat]
  /\ crashes \in Nat
  /\ faults \in [FaultKinds -> Nat]

(* A record has an owner while it runs, a runner has one from its claim on. *)
Owners ==
  \A j \in JobIds :
    /\ j >= nextId => jobs[j] = NoJob
    /\ jobs[j] # NoJob => (jobs[j].status = "running" <=> jobs[j].owner # NoToken)
    /\ inline[j].phase \in {"task", "complete", "fail"} <=> inline[j].owner # NoToken
    /\ worker[j].phase = "task" <=> worker[j].owner # NoToken

(* A run that has a start to spare: it is queued, or its runner is gone.   *)
(* As long as the runner is there the lease holds, so nobody takes it, if  *)
(* tasks end within their lease.                                           *)
Spare == crashes + faults["end"]

Starts == ~SlowTasks =>
  \A j \in JobIds :
    /\ starts[j] <= Spare + 1
    /\ j >= nextId => starts[j] = 0
    /\ jobs[j] # NoJob /\ jobs[j].status = "queued" => starts[j] <= Spare
    /\ jobs[j] # NoJob /\ jobs[j].status = "running" =>
         \/ starts[j] <= Spare
         \/ /\ jobs[j].owner \in {inline[j].owner, worker[j].owner}
            /\ jobs[j].leaseIn >= 0

IInv == Types /\ Owners /\ Starts

(* A step that enqueues nothing: no run becomes live.                      *)
NoRunAdded == Live(jobs') \subseteq Live(jobs)

(* The guard of a tick has seen no run, or could not look, and nobody else *)
(* makes one.                                                              *)
Blind == faults["check"]

FewLive ==
  /\ Cardinality(Live(jobs)) <= 1 + Blind
  /\ \A s \in Schedulers : tick[s] = "enqueue" => Cardinality(Live(jobs)) <= Blind

-----------------------------------------------------------------------------
(* Lemmas about the store's operations, in the terms used here.            *)
LEMMA PruneEffect ==
  ASSUME NEW jm \in JobMap
  PROVE  /\ PruneFinished(jm) \in JobMap
         /\ \A j \in JobIds : Kept(jm[j], PruneFinished(jm)[j])
BY DEF PruneFinished, JobMap, Pruned, Finished, With, Kept, Over

LEMMA PutEffect ==
  ASSUME NEW jm \in JobMap, NEW i \in JobIds, NEW r \in Job
  PROVE  /\ Put(jm, i, r) \in JobMap
         /\ \A j \in JobIds \ {i} : Kept(jm[j], Put(jm, i, r)[j])
         /\ Kept(r, Put(jm, i, r)[i])
<1> DEFINE new == [jm EXCEPT ![i] = r]
<1>1. new \in JobMap /\ new[i] = r /\ \A j \in JobIds \ {i} : new[j] = jm[j]
  BY DEF JobMap
<1>2. Put(jm, i, r) = PruneFinished(new)
  BY DEF Put
<1> HIDE DEF new
<1> QED
  BY <1>1, <1>2, PruneEffect

(* complete and fail: the run ends, or the caller was not its owner.       *)
LEMMA EndEffect ==
  ASSUME NEW jm \in JobMap, NEW i \in JobIds, NEW t \in Tokens,
         NEW new \in {CompleteJob(jm, i, t), GiveUpJob(jm, i, t)}
  PROVE  /\ new \in JobMap
         /\ \A j \in JobIds \ {i} : Kept(jm[j], new[j])
         /\ jm[i] # NoJob /\ jm[i].owner = t => Ended(new[i])
         /\ ~(jm[i] # NoJob /\ jm[i].owner = t) => new[i] = jm[i]
<1>1. CASE VerifyOwner(jm, i, t)
  <2>1. PICK status \in Over, n \in Nat :
          new = Put(jm, i, Unleased(jm[i], status, n, jm[i].runIn))
    BY <1>1 DEF CompleteJob, GiveUpJob, Over, VerifyOwner, JobMap, Job
  <2> DEFINE r == Unleased(jm[i], status, n, jm[i].runIn)
  <2>2. r \in Job /\ r.status \in Over /\ r.owner = NoToken
    BY <1>1 DEF Unleased, VerifyOwner, JobMap, Job, Status, Over
  <2> HIDE DEF r
  <2>3. /\ new \in JobMap
        /\ \A j \in JobIds \ {i} : Kept(jm[j], new[j])
        /\ Kept(r, new[i])
    BY <2>1, <2>2, PutEffect DEF r
  <2>4. Ended(new[i])
    BY <2>2, <2>3, NoJobAssumption DEF Kept, Ended
  <2> QED
    BY <1>1, <2>3, <2>4 DEF VerifyOwner
<1>2. CASE ~VerifyOwner(jm, i, t)
  BY <1>2 DEF CompleteJob, GiveUpJob, Kept, VerifyOwner
<1> QED
  BY <1>1, <1>2

(* The tokens that a claim of one run by id mints, and the task it starts.  *)
OneToken(i, t) == [k \in {i} |-> t]
TakenBy(f, j, t) == [f EXCEPT ![j].phase = "task", ![j].owner = t]

LEMMA TakenByType ==
  ASSUME NEW f \in [JobIds -> Runner], NEW j \in JobIds, NEW t \in Tokens
  PROVE  /\ TakenBy(f, j, t) \in [JobIds -> Runner]
         /\ \A i \in JobIds \ {j} : TakenBy(f, j, t)[i] = f[i]
         /\ TakenBy(f, j, t)[j].phase = "task" /\ TakenBy(f, j, t)[j].owner = t
<1>1. f[j] \in Runner
  OBVIOUS
<1> DEFINE r == [f[j] EXCEPT !.phase = "task", !.owner = t]
<1>2. r \in Runner /\ r.phase = "task" /\ r.owner = t
  BY <1>1 DEF Runner
<1>3. TakenBy(f, j, t) = [f EXCEPT ![j] = r]
  BY <1>1 DEF TakenBy, Runner
<1> HIDE DEF r
<1> QED
  BY <1>2, <1>3

(* claim of one run by id.                                                 *)
LEMMA ClaimEffect ==
  ASSUME NEW jm \in JobMap, NEW i \in JobIds, jm[i] # NoJob, NEW t \in Tokens, NEW lease \in Nat,
         NEW new, new = ClaimJobs(jm, OneToken(i, t), lease)
  PROVE  /\ new \in JobMap
         /\ \A j \in JobIds \ {i} : Kept(jm[j], new[j])
         /\ new[i] # NoJob /\ new[i].status = "running" /\ new[i].owner = t
         /\ new[i].leaseIn = lease
<1> DEFINE token == OneToken(i, t)
           raw == [j \in JobIds |-> IF j \in DOMAIN token THEN Leased(jm[j], lease, token[j])
                                    ELSE jm[j]]
           r == Leased(jm[i], lease, t)
<1>1. r \in Job /\ r.status = "running" /\ r.owner = t /\ r.leaseIn = lease
  BY DEF Leased, JobMap, Job, Status
<1> HIDE DEF r
<1>2. raw[i] = r /\ \A j \in JobIds \ {i} : raw[j] = jm[j]
  BY DEF r, OneToken
<1>3. raw \in JobMap
  BY <1>1, <1>2 DEF JobMap
<1>4. ClaimJobs(jm, token, lease) = PruneFinished(raw)
  BY DEF ClaimJobs
<1> HIDE DEF raw, token
<1>5. Kept(r, PruneFinished(raw)[i])
  BY <1>2, <1>3, PruneEffect
<1>6. PruneFinished(raw)[i] = r
  BY <1>1, <1>5 DEF Kept, Over
<1> QED
  BY <1>1, <1>2, <1>3, <1>4, <1>6, PruneEffect, NoJobAssumption DEF token

(* The other operations take no run away.                                  *)
LEMMA ReleaseEffect ==
  ASSUME NEW jm \in JobMap
  PROVE  /\ ReleaseExpired(jm, 0) \in JobMap
         /\ \A j \in JobIds :
              LET n == ReleaseExpired(jm, 0)[j] IN
              \/ Kept(jm[j], n)
              \/ /\ jm[j] # NoJob /\ jm[j].status = "running" /\ jm[j].leaseIn < 0
                 /\ n # NoJob /\ n.status = "queued" /\ n.owner = NoToken
<1> DEFINE raw == [j \in JobIds |->
                     IF j \in Expired(jm, 0)
                       THEN Unleased(jm[j], "queued", jm[j].attempts, jm[j].runIn)
                       ELSE jm[j]]
<1>1. \A j \in Expired(jm, 0) :
        /\ j \in JobIds /\ jm[j] # NoJob /\ jm[j].status = "running" /\ jm[j].leaseIn < 0
        /\ raw[j] \in Job /\ raw[j].status = "queued" /\ raw[j].owner = NoToken
  BY DEF Expired, With, Unleased, JobMap, Job, Status
<1>2. \A j \in JobIds \ Expired(jm, 0) : raw[j] = jm[j]
  OBVIOUS
<1>3. raw \in JobMap
  BY <1>1, <1>2 DEF JobMap
<1>4. ReleaseExpired(jm, 0) \in {jm, PruneFinished(raw)}
  BY DEF ReleaseExpired
<1> HIDE DEF raw
<1>5. \A j \in JobIds : Kept(raw[j], PruneFinished(raw)[j])
  BY <1>3, PruneEffect
<1>6. \A j \in Expired(jm, 0) : PruneFinished(raw)[j] = raw[j]
  BY <1>1, <1>5 DEF Kept, Over
<1> QED
  BY <1>1, <1>2, <1>3, <1>4, <1>5, <1>6, PruneEffect, NoJobAssumption DEF Kept

LEMMA ElapseEffect ==
  ASSUME NEW jm \in JobMap
  PROVE  /\ Elapse(jm) \in JobMap
         /\ \A j \in JobIds :
              LET n == Elapse(jm)[j] IN
              /\ n = NoJob <=> jm[j] = NoJob
              /\ n # NoJob => /\ n.status = jm[j].status /\ n.owner = jm[j].owner
                              /\ n.status = "running" /\ jm[j].leaseIn > 0 => n.leaseIn >= 0
<1>1. \A j \in JobIds : jm[j] # NoJob =>
        /\ Aged(jm[j]) \in Job
        /\ Aged(jm[j]).status = jm[j].status /\ Aged(jm[j]).owner = jm[j].owner
        /\ jm[j].status = "running" /\ jm[j].leaseIn > 0 => Aged(jm[j]).leaseIn >= 0
  BY MaxLagAssumption DEF Aged, AtLeast, JobMap, Job
<1> QED
  BY <1>1, NoJobAssumption DEF Elapse, JobMap

-----------------------------------------------------------------------------
LEMMA InitIInv == ASSUME Init PROVE IInv /\ FewLive
<1> USE DEF Init, NoRunner, FaultKinds
<1>1. Types
  BY DEF Types, JobMap, Runner
<1>2. Owners /\ Starts
  BY DEF Owners, Starts, Spare
<1>3. FewLive
  <2>1. Live(jobs) = {} /\ Blind = 0
    BY DEF Live, With, Blind
  <2> QED
    BY <2>1, FS_EmptySet DEF FewLive, Blind
<1> QED
  BY <1>1, <1>2, <1>3 DEF IInv

(* Steps that leave the store, the runners and the starts alone.           *)
LEMMA ClockworkKeeps ==
  ASSUME IInv, NEW s \in Schedulers, Start(s) \/ Stop(s) \/ CronFires(s) \/ Check(s)
  PROVE  IInv'
<1> USE DEF Start, Stop, CronFires, Check
<1>1. tick' \in [Schedulers -> {"idle", "check", "enqueue"}]
  BY DEF IInv, Types
<1> QED
  BY <1>1 DEF IInv, Types, Owners, Starts, Spare

(* A run that is enqueued has not been started.                            *)
LEMMA EnqueueKeeps ==
  ASSUME IInv, NEW s \in Schedulers, NEW now \in Instants, Enqueue(s, now)
  PROVE  IInv'
<1> USE DEF Enqueue
<1> DEFINE r == NewJob(Run, 0, now, nextId)
<1>1. r \in Job /\ r.status = "queued" /\ r.owner = NoToken
  BY RunAssumption DEF NewJob, Job, Status
<1> HIDE DEF r
<1>2. /\ jobs' \in JobMap
      /\ \A j \in JobIds \ {nextId} : Kept(jobs[j], jobs'[j])
      /\ Kept(r, jobs'[nextId])
  BY <1>1, PutEffect DEF IInv, Types, r
<1>3. jobs'[nextId] = r
  BY <1>1, <1>2 DEF Kept, Over
<1>4. /\ inline' \in [JobIds -> Runner]
      /\ \A j \in JobIds \ {nextId} : inline'[j] = inline[j]
      /\ inline'[nextId].phase = "wait" /\ inline'[nextId].owner = NoToken
  BY DEF IInv, Types, Runner, NoRunner
<1>5. Types'
  BY <1>2, <1>4 DEF IInv, Types
<1>6. Owners'
  <2>1. \A j \in JobIds : j >= nextId' => j >= nextId /\ j # nextId
    BY DEF IInv, Types, JobIds
  <2> QED
    BY <1>1, <1>2, <1>3, <1>4, <2>1 DEF IInv, Owners, Kept
<1>7. Starts'
  <2>1. (~SlowTasks => starts[nextId] = 0) /\ starts' = starts /\ Spare \in Nat /\ Spare' = Spare
    BY DEF IInv, Types, Starts, Spare, FaultKinds
  <2>2. \A j \in JobIds : j >= nextId' => j >= nextId
    BY DEF IInv, Types, JobIds
  <2> QED
    BY <1>1, <1>2, <1>3, <1>4, <2>1, <2>2 DEF IInv, Starts, Kept
<1> QED
  BY <1>5, <1>6, <1>7 DEF IInv

(* A claim starts a run that had a start to spare.                         *)
LEMMA ClaimKeeps ==
  ASSUME IInv, NEW j \in JobIds, ClaimOne(j) \/ WorkerClaims(j)
  PROVE  IInv' /\ NoRunAdded
<1>1. CASE UNCHANGED <<jobs, starts>>
  <2>1. ClaimOne(j) \/ WorkerClaims(j) => UNCHANGED <<nextId, tick, crashes, faults>>
    BY DEF ClaimOne, WorkerClaims
  <2>2. CASE ClaimOne(j) /\ j \notin Due(jobs, 0)
    <3>1. inline' \in [JobIds -> Runner] /\ worker' = worker
      BY <2>2 DEF ClaimOne, IInv, Types, Runner, NoRunner
    <3>2. \A i \in JobIds : inline'[i] = IF i = j THEN NoRunner ELSE inline[i]
      BY <2>2 DEF ClaimOne, IInv, Types
    <3>3. inline[j].owner = NoToken
      BY <2>2 DEF ClaimOne, IInv, Owners
    <3> QED
      BY <1>1, <2>1, <3>1, <3>2, <3>3 DEF IInv, Types, Owners, Starts, Spare, NoRunner, NoRunAdded
  <2>3. starts[j] + 1 # starts[j]
    BY DEF IInv, Types
  <2>4. ~WorkerClaims(j) /\ (ClaimOne(j) => j \notin Due(jobs, 0))
    BY <1>1, <2>3 DEF WorkerClaims, ClaimOne, IInv, Types
  <2> QED
    BY <2>2, <2>4
<1>2. CASE /\ j \in Due(jobs, 0)
           /\ UNCHANGED <<nextId, tick, crashes, faults>>
           /\ starts' = [starts EXCEPT ![j] = @ + 1]
           /\ \E t \in Tokens, lease \in Nat :
                /\ jobs' = ClaimJobs(jobs, OneToken(j, t), lease)
                /\ \/ /\ inline' = TakenBy(inline, j, t)
                      /\ worker' = worker
                   \/ /\ worker' = TakenBy(worker, j, t)
                      /\ inline' = inline
  <2>1. PICK t \in Tokens, lease \in Nat :
          /\ jobs' = ClaimJobs(jobs, OneToken(j, t), lease)
          /\ \/ /\ inline' = TakenBy(inline, j, t)
                /\ worker' = worker
             \/ /\ worker' = TakenBy(worker, j, t)
                /\ inline' = inline
    BY <1>2
  <2>2. jobs[j] # NoJob /\ jobs[j].status = "queued"
    BY <1>2 DEF Due, With
  <2>3. /\ jobs' \in JobMap
        /\ \A i \in JobIds \ {j} : Kept(jobs[i], jobs'[i])
        /\ jobs'[j] # NoJob /\ jobs'[j].status = "running" /\ jobs'[j].owner = t
        /\ jobs'[j].leaseIn = lease
    <3>1. jobs \in JobMap
      BY DEF IInv, Types
    <3>2. PICK new : new = ClaimJobs(jobs, OneToken(j, t), lease)
      OBVIOUS
    <3>3. jobs' = new
      BY <2>1, <3>2
    <3> QED
      BY <2>2, <3>1, <3>2, <3>3, ClaimEffect
  <2>4. /\ inline' \in [JobIds -> Runner] /\ worker' \in [JobIds -> Runner]
        /\ \A i \in JobIds \ {j} : inline'[i] = inline[i] /\ worker'[i] = worker[i]
        /\ inline'[j] = inline[j] \/ (inline'[j].phase = "task" /\ inline'[j].owner = t)
        /\ worker'[j] = worker[j] \/ (worker'[j].phase = "task" /\ worker'[j].owner = t)
        /\ t \in {inline'[j].owner, worker'[j].owner}
    <3>1. CASE /\ inline' = TakenBy(inline, j, t)
               /\ worker' = worker
      BY <3>1, TakenByType DEF IInv, Types
    <3>2. CASE /\ worker' = TakenBy(worker, j, t)
               /\ inline' = inline
      BY <3>2, TakenByType DEF IInv, Types
    <3> QED
      BY <2>1, <3>1, <3>2
  <2>5. Types'
    <3>1. starts' \in [JobIds -> Nat]
      BY <1>2 DEF IInv, Types
    <3>2. UNCHANGED <<nextId, tick, crashes, faults>>
      BY <1>2
    <3> QED
      BY <2>3, <2>4, <3>1, <3>2 DEF IInv, Types
  <2>6. Owners'
    <3>1. nextId' = nextId
      BY <1>2
    <3> QED
      BY <2>2, <2>3, <2>4, <3>1, NoTokenAssumption DEF IInv, Owners, Kept
  <2>7. Starts'
    <3>1. /\ starts'[j] = starts[j] + 1
          /\ \A i \in JobIds \ {j} : starts'[i] = starts[i]
      BY <1>2 DEF IInv, Types
    <3>2. ~SlowTasks => starts[j] <= Spare /\ ~(j >= nextId)
      BY <2>2 DEF IInv, Starts, Owners
    <3>3. Spare \in Nat /\ Spare' = Spare /\ nextId' = nextId
      BY <1>2 DEF IInv, Types, Spare, FaultKinds
    <3>4. starts \in [JobIds -> Nat]
      BY DEF IInv, Types
    <3> QED
      BY <2>3, <2>4, <3>1, <3>2, <3>3, <3>4 DEF IInv, Starts, Kept
  <2>8. NoRunAdded
    BY <2>2, <2>3 DEF NoRunAdded, Live, With, Kept
  <2> QED
    BY <2>5, <2>6, <2>7, <2>8 DEF IInv
<1> QED
  BY <1>1, <1>2, SchedulerAssumption DEF ClaimOne, WorkerClaims, FreeTokens, OneToken, TakenBy

(* What a task does to its own run; other runs may only be pruned.         *)
LEMMA TaskKeeps ==
  ASSUME IInv, NEW j \in JobIds, InlineReturns(j) \/ InlineThrows(j)
  PROVE  IInv'
<1> USE DEF InlineReturns, InlineThrows
<1>1. PICK phase \in {"complete", "fail"} : inline' = [inline EXCEPT ![j].phase = phase]
  OBVIOUS
<1>2. /\ inline' \in [JobIds -> Runner]
      /\ \A i \in JobIds : inline'[i].owner = inline[i].owner
      /\ \A i \in JobIds \ {j} : inline'[i] = inline[i]
      /\ inline'[j].phase \in {"complete", "fail"} /\ inline[j].phase = "task"
  <2> DEFINE after == [inline[j] EXCEPT !.phase = phase]
  <2>1. inline \in [JobIds -> Runner] /\ inline[j] \in Runner
    BY DEF IInv, Types
  <2>2. after \in Runner /\ after.owner = inline[j].owner /\ after.phase = phase
    BY <2>1 DEF Runner
  <2>3. inline' = [inline EXCEPT ![j] = after]
    BY <1>1
  <2>4. inline[j].phase = "task"
    OBVIOUS
  <2> HIDE DEF after, InlineReturns, InlineThrows
  <2> QED
    BY <2>1, <2>2, <2>3, <2>4
<1>3. Types'
  BY <1>2 DEF IInv, Types
<1>4. Owners'
  BY <1>2 DEF IInv, Owners
<1>5. Starts'
  BY <1>2 DEF IInv, Starts, Spare
<1> QED
  BY <1>3, <1>4, <1>5 DEF IInv

(* When a runner ends, its run is over unless somebody else holds it.      *)
LEMMA EndKeeps ==
  ASSUME IInv, NEW j \in JobIds,
         InlineEnds(j) \/ WorkerEnds(j) \/ InlineEndsFault(j) \/ WorkerEndsFault(j)
  PROVE  IInv' /\ NoRunAdded
<1>1. PICK t \in Tokens :
        /\ \/ jobs' \in {CompleteJob(jobs, j, t), GiveUpJob(jobs, j, t)}
           \/ jobs' = jobs /\ Spare' = Spare + 1
        /\ \/ /\ inline[j].owner = t /\ worker' = worker
              /\ inline' = [inline EXCEPT ![j] = NoRunner]
           \/ /\ worker[j].owner = t /\ inline' = inline
              /\ worker' = [worker EXCEPT ![j] = NoRunner]
  <2>0. InlineEndsFault(j) \/ WorkerEndsFault(j) => Spare' = Spare + 1
    BY DEF InlineEndsFault, WorkerEndsFault, Rejects, FaultKinds, IInv, Types, Spare
  <2>1. CASE InlineEnds(j) \/ InlineEndsFault(j)
    <3>1. inline[j].owner \in Tokens
      BY <2>1 DEF InlineEnds, InlineEndsFault, IInv, Types, Owners, Runner
    <3> QED
      BY <2>0, <2>1, <3>1 DEF InlineEnds, InlineEndsFault
  <2>2. CASE WorkerEnds(j) \/ WorkerEndsFault(j)
    <3>1. worker[j].owner \in Tokens
      BY <2>2 DEF WorkerEnds, WorkerEndsFault, IInv, Types, Owners, Runner
    <3> QED
      BY <2>0, <2>2, <3>1 DEF WorkerEnds, WorkerEndsFault
  <2> QED
    BY <2>1, <2>2
<1>2. /\ UNCHANGED <<nextId, tick, starts, crashes>>
      /\ faults' \in [FaultKinds -> Nat]
      /\ Spare' \in {Spare, Spare + 1} /\ Blind' = Blind
  BY DEF InlineEnds, WorkerEnds, InlineEndsFault, WorkerEndsFault, Rejects, FaultKinds,
         IInv, Types, Spare, Blind
<1>3. /\ jobs' \in JobMap
      /\ \A i \in JobIds \ {j} : Kept(jobs[i], jobs'[i])
      /\ jobs[j] # NoJob /\ jobs[j].owner = t =>
           Ended(jobs'[j]) \/ (jobs'[j] = jobs[j] /\ Spare' = Spare + 1)
      /\ ~(jobs[j] # NoJob /\ jobs[j].owner = t) => jobs'[j] = jobs[j]
  <2>1. CASE jobs' \in {CompleteJob(jobs, j, t), GiveUpJob(jobs, j, t)}
    BY <2>1, EndEffect DEF IInv, Types
  <2>2. CASE jobs' = jobs /\ Spare' = Spare + 1
    BY <2>2 DEF IInv, Types, Kept
  <2> QED
    BY <1>1, <2>1, <2>2
<1>4. /\ inline' \in [JobIds -> Runner] /\ worker' \in [JobIds -> Runner]
      /\ \A i \in JobIds \ {j} : inline'[i] = inline[i] /\ worker'[i] = worker[i]
      /\ \/ inline[j].owner = t /\ inline'[j] = NoRunner /\ worker'[j] = worker[j]
         \/ worker[j].owner = t /\ worker'[j] = NoRunner /\ inline'[j] = inline[j]
  <2>1. NoRunner \in Runner
    BY DEF NoRunner, Runner
  <2> QED
    BY <1>1, <2>1 DEF IInv, Types
<1>5. NoRunner.phase = "none" /\ NoRunner.owner = NoToken
  BY DEF NoRunner
<1>6. Types'
  BY <1>2, <1>3, <1>4 DEF IInv, Types
<1>7. Owners'
  BY <1>2, <1>3, <1>4, <1>5 DEF IInv, Owners, Kept, Ended, Over
<1>8. Starts'
  <2>1. Spare \in Nat /\ \A i \in JobIds : starts[i] \in Nat /\ starts'[i] = starts[i]
    BY <1>2 DEF IInv, Types, Spare, FaultKinds
  <2> QED
    BY <1>2, <1>3, <1>4, <1>5, <2>1 DEF IInv, Starts, Kept, Ended, Over
<1>9. NoRunAdded
  BY <1>2, <1>3 DEF NoRunAdded, Live, With, Kept, Ended, Over
<1> QED
  BY <1>6, <1>7, <1>8, <1>9 DEF IInv

(* A store operation that rejects before the run has an owner leaves no     *)
(* trace but a tick that goes on, or a runner that is gone.                 *)
LEMMA RejectKeeps ==
  ASSUME IInv, \/ \E s \in Schedulers : CheckFault(s) \/ EnqueueFault(s)
               \/ \E j \in JobIds : ClaimFault(j)
  PROVE  IInv' /\ jobs' = jobs /\ Blind <= Blind'
<1>1. /\ UNCHANGED <<jobs, nextId, worker, starts, crashes>>
      /\ faults' \in [FaultKinds -> Nat] /\ Spare' = Spare /\ Blind <= Blind'
  BY DEF CheckFault, EnqueueFault, ClaimFault, Rejects, FaultKinds, IInv, Types, Spare, Blind
<1>2. tick' \in [Schedulers -> {"idle", "check", "enqueue"}]
  BY DEF CheckFault, EnqueueFault, ClaimFault, IInv, Types
<1>3. NoRunner \in Runner /\ NoRunner.owner = NoToken /\ NoRunner.phase = "none"
  BY DEF NoRunner, Runner
<1>4. /\ inline' \in [JobIds -> Runner]
      /\ \A i \in JobIds :
           \/ inline'[i] = inline[i]
           \/ inline'[i] = NoRunner /\ inline[i].owner = NoToken
  BY <1>3 DEF CheckFault, EnqueueFault, ClaimFault, IInv, Types, Owners
<1>5. Types'
  BY <1>1, <1>2, <1>4 DEF IInv, Types
<1>6. Owners'
  BY <1>1, <1>3, <1>4 DEF IInv, Owners
<1>7. Starts'
  BY <1>1, <1>3, <1>4 DEF IInv, Starts
<1> QED
  BY <1>1, <1>5, <1>6, <1>7 DEF IInv

(* Only a lease that has run out is released, so the run has a start left. *)
LEMMA ReleaseKeeps ==
  ASSUME IInv, WorkerReleases
  PROVE  IInv' /\ NoRunAdded
<1> USE DEF WorkerReleases
<1>1. /\ jobs' \in JobMap
      /\ \A j \in JobIds :
           \/ Kept(jobs[j], jobs'[j])
           \/ /\ jobs[j] # NoJob /\ jobs[j].status = "running" /\ jobs[j].leaseIn < 0
              /\ jobs'[j] # NoJob /\ jobs'[j].status = "queued" /\ jobs'[j].owner = NoToken
  BY ReleaseEffect DEF IInv, Types
<1>2. Types'
  BY <1>1 DEF IInv, Types
<1>3. Owners'
  BY <1>1 DEF IInv, Owners, Kept
<1>4. \A j \in JobIds : jobs[j] # NoJob => jobs[j].leaseIn \in Int
  BY DEF IInv, Types, JobMap, Job
<1>5. Starts'
  BY <1>1, <1>4 DEF IInv, Starts, Spare, Kept
<1>6. NoRunAdded
  BY <1>1 DEF NoRunAdded, Live, With, Kept
<1> QED
  BY <1>2, <1>3, <1>5, <1>6 DEF IInv

(* A crash takes runners away and gives every run a start.                 *)
LEMMA CrashKeeps ==
  ASSUME IInv, NEW s \in Schedulers, Crash(s)
  PROVE  IInv'
<1> USE DEF Crash
<1>1. /\ inline' \in [JobIds -> Runner]
      /\ \A j \in JobIds : inline'[j] \in {inline[j], NoRunner}
  BY DEF IInv, Types, Runner, NoRunner
<1>2. NoRunner.phase = "none" /\ NoRunner.owner = NoToken
  BY DEF NoRunner
<1>3. Types'
  BY <1>1 DEF IInv, Types
<1>4. Owners'
  BY <1>1, <1>2 DEF IInv, Owners
<1>5. Starts'
  <2>1. Spare \in Nat /\ Spare' = Spare + 1 /\ starts \in [JobIds -> Nat]
    BY DEF IInv, Types, Spare, FaultKinds
  <2> QED
    BY <2>1 DEF IInv, Starts
<1> QED
  BY <1>3, <1>4, <1>5 DEF IInv

(* Time lets a lease run out only where no runner depends on it.           *)
LEMMA TimeKeeps ==
  ASSUME IInv, AdvanceTime
  PROVE  IInv' /\ NoRunAdded
<1> USE DEF AdvanceTime
<1>1. /\ Elapse(jobs) \in JobMap
      /\ \A j \in JobIds :
           LET n == Elapse(jobs)[j] IN
           /\ n = NoJob <=> jobs[j] = NoJob
           /\ n # NoJob => /\ n.status = jobs[j].status /\ n.owner = jobs[j].owner
                           /\ n.status = "running" /\ jobs[j].leaseIn > 0 => n.leaseIn >= 0
  BY ElapseEffect DEF IInv, Types
<1>2. /\ jobs' \in JobMap
      /\ \A j \in JobIds :
           /\ jobs'[j] = NoJob <=> jobs[j] = NoJob
           /\ jobs'[j] # NoJob =>
                /\ jobs'[j].status = jobs[j].status /\ jobs'[j].owner = jobs[j].owner
                /\ jobs'[j].status = "running" /\ jobs[j].leaseIn > 0 => jobs'[j].leaseIn >= 0
                /\ Renewed(j) => jobs'[j] = jobs[j]
  <2>1. \A j \in JobIds : jobs'[j] = IF Renewed(j) THEN jobs[j] ELSE Elapse(jobs)[j]
    OBVIOUS
  <2>2. jobs' \in JobMap
    BY <1>1 DEF JobMap, IInv, Types
  <2>3. \A j \in JobIds : jobs[j] # NoJob => jobs[j].leaseIn \in Int
    BY DEF IInv, Types, JobMap, Job
  <2> QED
    BY <1>1, <2>1, <2>2, <2>3
<1>3. Types'
  BY <1>2 DEF IInv, Types
<1>4. Owners'
  BY <1>2 DEF IInv, Owners
<1>5. Starts'
  <2> SUFFICES ASSUME ~SlowTasks, NEW j \in JobIds,
                      jobs'[j] # NoJob, jobs'[j].status = "running", ~(starts[j] <= Spare)
               PROVE  /\ jobs'[j].owner \in {inline[j].owner, worker[j].owner}
                      /\ jobs'[j].leaseIn >= 0
    BY <1>2 DEF IInv, Starts, Spare
  <2>1. /\ jobs[j] # NoJob /\ jobs[j].status = "running" /\ jobs'[j].owner = jobs[j].owner
        /\ jobs[j].owner \in {inline[j].owner, worker[j].owner} /\ jobs[j].leaseIn >= 0
        /\ jobs[j].owner # NoToken
    BY <1>2 DEF IInv, Starts, Spare, Owners
  <2>2. CASE jobs[j].owner = inline[j].owner
    <3>1. inline[j].phase # "none"
      BY <2>1, <2>2 DEF IInv, Owners
    <3>2. jobs[j].leaseIn > 0
      BY <2>1, <2>2, <3>1 DEF VerifyOwner
    <3> QED
      BY <1>2, <2>1, <3>2
  <2>3. CASE jobs[j].owner = worker[j].owner
    <3>1. Renewed(j)
      BY <2>1, <2>3 DEF IInv, Owners, Renewed
    <3> QED
      BY <1>2, <2>1, <3>1
  <2> QED
    BY <2>1, <2>2, <2>3
<1>6. NoRunAdded
  BY <1>2 DEF NoRunAdded, Live, With
<1> QED
  BY <1>3, <1>4, <1>5, <1>6 DEF IInv

LEMMA NextIInv == ASSUME IInv, [Next]_vars PROVE IInv'
<1>1. CASE Next
  BY <1>1, ClockworkKeeps, EnqueueKeeps, ClaimKeeps, TaskKeeps, EndKeeps, RejectKeeps,
     ReleaseKeeps, CrashKeeps, TimeKeeps
  DEF Next, SchedulerStep, RunnerStep, StoreRejects
<1>2. CASE UNCHANGED vars
  BY <1>2 DEF vars, IInv, Types, Owners, Starts, Spare
<1> QED
  BY <1>1, <1>2

LEMMA Invariance == Spec => []IInv
BY InitIInv, NextIInv, PTL DEF Spec

-----------------------------------------------------------------------------
(* With one scheduler the guard's answer still holds when its tick goes on. *)
OneScheduler == \A s, r \in Schedulers : s = r

LEMMA JobIdsFinite == IsFiniteSet(JobIds)
BY MaxJobsAssumption, FS_Interval DEF JobIds

(* A step that adds no live run and starts no enqueue keeps the bound.     *)
LEMMA LiveShrinks ==
  ASSUME NEW S, NEW T, S \subseteq JobIds, T \subseteq S
  PROVE  /\ Cardinality(T) <= Cardinality(S)
         /\ Cardinality(S) \in Nat /\ Cardinality(T) \in Nat
<1>1. IsFiniteSet(S)
  BY JobIdsFinite, FS_Subset
<1> QED
  BY <1>1, FS_Subset, FS_CardinalityType

LEMMA LiveSet == Live(jobs) \subseteq JobIds /\ Live(jobs') \subseteq JobIds
BY DEF Live, With

LEMMA QuietKeepsFew ==
  ASSUME IInv, FewLive, NoRunAdded, Blind' \in Nat, Blind <= Blind',
         \A r \in Schedulers : tick'[r] = "enqueue" => tick[r] = "enqueue"
  PROVE  FewLive'
<1>1. /\ Cardinality(Live(jobs')) <= Cardinality(Live(jobs))
      /\ Cardinality(Live(jobs)) \in Nat /\ Cardinality(Live(jobs')) \in Nat
  BY LiveShrinks, LiveSet DEF NoRunAdded
<1>2. Blind \in Nat
  BY DEF IInv, Types, Blind, FaultKinds
<1> HIDE DEF Blind
<1> QED
  BY <1>1, <1>2 DEF FewLive

LEMMA TickKeepsFew ==
  ASSUME IInv, FewLive, NEW s \in Schedulers,
         \/ Start(s) \/ Stop(s) \/ CronFires(s) \/ Check(s) \/ Crash(s)
         \/ CheckFault(s) \/ EnqueueFault(s)
  PROVE  FewLive'
<1>1. jobs' = jobs
  BY DEF Start, Stop, CronFires, Check, Crash, CheckFault, EnqueueFault
<1>2. Cardinality(Live(jobs)) \in Nat /\ Blind \in Nat
  BY LiveSet, LiveShrinks DEF IInv, Types, Blind, FaultKinds
<1>3. CASE CheckFault(s)
  <2>1. Blind' = Blind + 1
    BY <1>3 DEF CheckFault, Rejects, IInv, Types, Blind, FaultKinds
  <2> QED
    BY <1>1, <1>2, <2>1 DEF FewLive
<1>4. CASE ~CheckFault(s)
  <2>1. Blind' = Blind
    BY <1>4 DEF Start, Stop, CronFires, Check, Crash, EnqueueFault, Rejects, IInv, Types, Blind,
                FaultKinds
  <2>2. \A r \in Schedulers : tick'[r] = "enqueue" => tick[r] = "enqueue" \/ ~HasInFlight
    BY <1>4 DEF Start, Stop, CronFires, Check, Crash, EnqueueFault, IInv, Types
  <2>3. ~HasInFlight => Cardinality(Live(jobs)) = 0
    <3>1. ~HasInFlight => Live(jobs) = {}
      BY DEF HasInFlight, Live, With, Status
    <3> QED
      BY <3>1, FS_EmptySet
  <2> QED
    BY <1>1, <1>2, <2>1, <2>2, <2>3 DEF FewLive
<1> QED
  BY <1>3, <1>4

LEMMA EnqueueKeepsFew ==
  ASSUME OneScheduler, IInv, FewLive, NEW s \in Schedulers, NEW now \in Instants,
         Enqueue(s, now)
  PROVE  FewLive'
<1> USE DEF Enqueue
<1>1. Cardinality(Live(jobs)) <= Blind /\ Blind' = Blind /\ Blind \in Nat
  BY DEF FewLive, Blind, IInv, Types, FaultKinds
<1>2. NewJob(Run, 0, now, nextId) \in Job
  BY RunAssumption DEF NewJob, Job, Status
<1>3. \A j \in JobIds \ {nextId} : Kept(jobs[j], jobs'[j])
  BY <1>2, PutEffect DEF IInv, Types
<1>4. Live(jobs') \subseteq Live(jobs) \cup {nextId}
  BY <1>3 DEF Live, With, Kept
<1>5. Cardinality(Live(jobs')) <= 1 + Blind
  <2>1. IsFiniteSet(Live(jobs)) /\ Cardinality(Live(jobs)) \in Nat
    <3>1. IsFiniteSet(Live(jobs))
      BY JobIdsFinite, LiveSet, FS_Subset
    <3> QED
      BY <3>1, FS_CardinalityType
  <2>2. /\ IsFiniteSet(Live(jobs) \cup {nextId})
        /\ Cardinality(Live(jobs) \cup {nextId}) <= Cardinality(Live(jobs)) + 1
    <3>1. /\ IsFiniteSet(Live(jobs) \cup {nextId})
          /\ Cardinality(Live(jobs) \cup {nextId}) =
               IF nextId \in Live(jobs) THEN Cardinality(Live(jobs))
               ELSE Cardinality(Live(jobs)) + 1
      BY <2>1, FS_AddElement
    <3> QED
      BY <2>1, <3>1
  <2>3. Cardinality(Live(jobs')) <= Cardinality(Live(jobs) \cup {nextId})
    BY <1>4, <2>2, FS_Subset
  <2>4. /\ Cardinality(Live(jobs')) \in Nat /\ Cardinality(Live(jobs)) \in Nat
        /\ Cardinality(Live(jobs) \cup {nextId}) \in Nat
    BY LiveSet, LiveShrinks, <2>2, FS_CardinalityType
  <2> QED
    BY <1>1, <2>2, <2>3, <2>4
<1>6. \A r \in Schedulers : tick'[r] = "idle"
  BY DEF OneScheduler, IInv, Types
<1> QED
  BY <1>1, <1>5, <1>6 DEF FewLive

LEMMA NextFewLive == ASSUME OneScheduler, IInv, FewLive, [Next]_vars PROVE FewLive'
<1>0. IInv'
  BY NextIInv
<1>1. ASSUME NoRunAdded, tick' = tick, Blind <= Blind' PROVE FewLive'
  <2>1. Blind' \in Nat
    BY <1>0 DEF IInv, Types, Blind, FaultKinds
  <2> QED
    BY <1>1, <2>1, QuietKeepsFew
<1>2. ASSUME NEW s \in Schedulers,
             \/ SchedulerStep(s) \/ Start(s) \/ Stop(s) \/ Crash(s)
             \/ CheckFault(s) \/ EnqueueFault(s)
      PROVE  FewLive'
  BY <1>2, TickKeepsFew, EnqueueKeepsFew DEF SchedulerStep
<1>b. Blind \in Nat
  BY DEF IInv, Types, Blind, FaultKinds
<1>3. ASSUME NEW j \in JobIds,
             RunnerStep(j) \/ ClaimFault(j) \/ InlineEndsFault(j) \/ WorkerEndsFault(j)
      PROVE  FewLive'
  <2>1. tick' = tick /\ Blind' = Blind
    BY <1>3 DEF RunnerStep, ClaimOne, InlineReturns, InlineThrows, InlineEnds, WorkerClaims,
               WorkerEnds, ClaimFault, InlineEndsFault, WorkerEndsFault, Rejects, Blind, IInv,
               Types, FaultKinds
  <2>2. CASE InlineReturns(j) \/ InlineThrows(j) \/ ClaimFault(j)
    BY <1>1, <1>b, <2>1, <2>2 DEF InlineReturns, InlineThrows, ClaimFault, NoRunAdded
  <2> QED
    BY <1>1, <1>3, <1>b, <2>1, <2>2, ClaimKeeps, EndKeeps DEF RunnerStep
<1>4. CASE WorkerReleases \/ AdvanceTime
  <2>1. tick' = tick /\ Blind' = Blind
    BY <1>4 DEF WorkerReleases, AdvanceTime, Blind
  <2> QED
    BY <1>1, <1>4, <1>b, <2>1, ReleaseKeeps, TimeKeeps
<1>5. CASE UNCHANGED vars
  BY <1>1, <1>5, <1>b DEF vars, NoRunAdded, Blind
<1> QED
  BY <1>2, <1>3, <1>4, <1>5 DEF Next, StoreRejects

-----------------------------------------------------------------------------
(* The overlap guard of handleTick: with one scheduler process at most one *)
(* run is queued or running, and one more for each time that the store     *)
(* could not be asked, however slow or broken the tasks are, and whatever  *)
(* crashes.                                                                *)
THEOREM NoPileUpHolds == ASSUME OneScheduler PROVE Spec => []NoPileUp
<1>1. IInv /\ FewLive => NoPileUp
  BY DEF FewLive, Blind, NoPileUp
<1>2. Init => IInv /\ FewLive
  BY InitIInv
<1>3. IInv /\ FewLive /\ [Next]_vars => (IInv /\ FewLive)'
  BY NextIInv, NextFewLive
<1> QED
  BY <1>1, <1>2, <1>3, PTL DEF Spec

(* The claim by id (runIfUnclaimed): with tasks that end within their lease *)
(* a run is started once, and once more for each crash and for each end of *)
(* a run that was not written down, at the most, whichever of the worker   *)
(* and the inline runners of any number of schedulers gets there first.    *)
THEOREM RunsOnceHolds == ASSUME ~SlowTasks PROVE Spec => []RunsOnce
<1>1. IInv => RunsOnce
  BY DEF IInv, Types, Starts, Spare, RunsOnce, FaultKinds
<1> QED
  BY <1>1, Invariance, PTL

-----------------------------------------------------------------------------
(* The lease tells who may end a run.                                      *)
EndsIt(j) ==
  \/ inline[j].owner = jobs[j].owner /\ inline'[j] = NoRunner
  \/ worker[j].owner = jobs[j].owner /\ worker'[j] = NoRunner

LEMMA LiveIs ==
  ASSUME NEW jm \in JobMap, NEW j \in JobIds
  PROVE  j \in Live(jm) <=> jm[j] # NoJob /\ jm[j].status \notin Over
BY NoJobAssumption DEF Live, With, Over, JobMap, Job, Status

(* complete() and fail() of a runner that is not the owner change nothing. *)
LEMMA OwnersEnd ==
  ASSUME IInv, NEW i \in JobIds, InlineEnds(i) \/ WorkerEnds(i) \/ WorkerEndsFault(i),
         NEW j \in JobIds, j \in Live(jobs), j \notin Live(jobs')
  PROVE  EndsIt(j)
<1>0. jobs \in JobMap /\ inline \in [JobIds -> Runner] /\ worker \in [JobIds -> Runner]
  BY DEF IInv, Types
<1>1. CASE InlineEnds(i)
  <2>1. inline[i].owner \in Tokens
    BY <1>0, <1>1 DEF InlineEnds, IInv, Owners, Runner
  <2>2. jobs' \in {CompleteJob(jobs, i, inline[i].owner), GiveUpJob(jobs, i, inline[i].owner)}
    BY <1>1 DEF InlineEnds
  <2>3. /\ jobs' \in JobMap
        /\ \A k \in JobIds \ {i} : Kept(jobs[k], jobs'[k])
        /\ ~(jobs[i] # NoJob /\ jobs[i].owner = inline[i].owner) => jobs'[i] = jobs[i]
    BY <1>0, <2>1, <2>2, EndEffect
  <2>4. j = i /\ jobs[i].owner = inline[i].owner
    BY <1>0, <2>3, LiveIs DEF Kept
  <2>5. inline'[i] = NoRunner
    BY <1>0, <1>1 DEF InlineEnds
  <2> QED
    BY <2>4, <2>5 DEF EndsIt
<1>2. CASE WorkerEnds(i) \/ WorkerEndsFault(i)
  <2>1. worker[i].owner \in Tokens
    BY <1>0, <1>2 DEF WorkerEnds, WorkerEndsFault, IInv, Owners, Runner
  <2>2. jobs' \in {CompleteJob(jobs, i, worker[i].owner), GiveUpJob(jobs, i, worker[i].owner)}
    BY <1>2 DEF WorkerEnds, WorkerEndsFault
  <2>3. /\ jobs' \in JobMap
        /\ \A k \in JobIds \ {i} : Kept(jobs[k], jobs'[k])
        /\ ~(jobs[i] # NoJob /\ jobs[i].owner = worker[i].owner) => jobs'[i] = jobs[i]
    BY <1>0, <2>1, <2>2, EndEffect
  <2>4. j = i /\ jobs[i].owner = worker[i].owner
    BY <1>0, <2>3, LiveIs DEF Kept
  <2>5. worker'[i] = NoRunner
    BY <1>0, <1>2 DEF WorkerEnds, WorkerEndsFault
  <2> QED
    BY <2>4, <2>5 DEF EndsIt
<1> QED
  BY <1>1, <1>2

(* A claim gives a run a runner, and takes none away.                      *)
LEMMA ClaimKeepsLive ==
  ASSUME IInv, NEW i \in JobIds, ClaimOne(i) \/ WorkerClaims(i)
  PROVE  Live(jobs) \subseteq Live(jobs')
<1>0. jobs \in JobMap /\ jobs' \in JobMap
  BY ClaimKeeps DEF IInv, Types
<1>1. CASE jobs' = jobs
  BY <1>1
<1>2. CASE \E t \in Tokens, lease \in Nat :
             /\ i \in Due(jobs, 0) /\ jobs' = ClaimJobs(jobs, OneToken(i, t), lease)
  <2>1. PICK t \in Tokens, lease \in Nat : jobs' = ClaimJobs(jobs, OneToken(i, t), lease)
    BY <1>2
  <2>2. jobs[i] # NoJob
    BY <1>2 DEF Due, With
  <2>3. PICK new : new = ClaimJobs(jobs, OneToken(i, t), lease)
    OBVIOUS
  <2>4. /\ \A k \in JobIds \ {i} : Kept(jobs[k], new[k])
        /\ new[i] # NoJob /\ new[i].status = "running"
    BY <1>0, <2>2, <2>3, ClaimEffect
  <2>5. \A k \in JobIds : k \in Live(jobs) => k \in Live(jobs')
    BY <1>0, <2>1, <2>3, <2>4, LiveIs DEF Kept, Over
  <2> QED
    BY <2>5 DEF Live, With
<1>3. InlineLease \in Nat /\ WorkerLease \in Nat
  BY SchedulerAssumption
<1> QED
  BY <1>1, <1>2, <1>3 DEF ClaimOne, WorkerClaims, FreeTokens, OneToken

(* Nothing else that happens to the store ends a run.                      *)
LEMMA OthersKeepLive ==
  ASSUME IInv, IInv',
         \/ WorkerReleases \/ AdvanceTime
         \/ \E s \in Schedulers, now \in Instants : Enqueue(s, now)
  PROVE  Live(jobs) \subseteq Live(jobs')
<1>0. jobs \in JobMap /\ jobs' \in JobMap
  BY DEF IInv, Types
<1> SUFFICES ASSUME NEW j \in JobIds, j \in Live(jobs)
             PROVE  j \in Live(jobs')
  BY DEF Live, With
<1>1. jobs[j] # NoJob /\ jobs[j].status \notin Over
  BY <1>0, LiveIs
<1>2. CASE WorkerReleases
  BY <1>0, <1>1, <1>2, ReleaseEffect, LiveIs DEF WorkerReleases, Kept, Over
<1>3. CASE AdvanceTime
  <2>1. jobs'[j] \in {jobs[j], Elapse(jobs)[j]}
    BY <1>3 DEF AdvanceTime
  <2> QED
    BY <1>0, <1>1, <2>1, ElapseEffect, LiveIs
<1>4. ASSUME NEW s \in Schedulers, NEW now \in Instants, Enqueue(s, now)
      PROVE  j \in Live(jobs')
  <2>1. nextId \in JobIds
    BY <1>4 DEF Enqueue
  <2>2. nextId \in Nat
    BY DEF IInv, Types
  <2>3. nextId \in JobIds /\ nextId \in Nat /\ nextId >= nextId
    BY <2>1, <2>2
  <2>4. j # nextId
    BY <1>1, <2>3 DEF IInv, Owners
  <2>5. NewJob(Run, 0, now, nextId) \in Job
    BY <2>3, RunAssumption DEF NewJob, Job, Status
  <2>6. Kept(jobs[j], jobs'[j])
    BY <1>0, <1>4, <2>3, <2>4, <2>5, PutEffect DEF Enqueue
  <2> QED
    BY <1>0, <1>1, <2>6, LiveIs DEF Kept
<1> QED
  BY <1>2, <1>3, <1>4

LEMMA RunEndsStep ==
  ASSUME IInv, [Next]_vars, NEW j \in JobIds, j \in Live(jobs), j \notin Live(jobs')
  PROVE  EndsIt(j)
<1>0. IInv'
  BY NextIInv
<1>1. ASSUME NEW i \in JobIds, InlineEnds(i) \/ WorkerEnds(i) \/ WorkerEndsFault(i)
      PROVE  EndsIt(j)
  BY <1>1, OwnersEnd
<1>2. ASSUME NEW i \in JobIds, ClaimOne(i) \/ WorkerClaims(i)
      PROVE  FALSE
  BY <1>2, ClaimKeepsLive
<1>3. ASSUME NEW i \in JobIds,
             InlineReturns(i) \/ InlineThrows(i) \/ ClaimFault(i) \/ InlineEndsFault(i)
      PROVE  FALSE
  BY <1>3 DEF InlineReturns, InlineThrows, ClaimFault, InlineEndsFault
<1>4. ASSUME NEW s \in Schedulers,
             \/ CronFires(s) \/ Check(s) \/ Start(s) \/ Stop(s) \/ Crash(s)
             \/ CheckFault(s) \/ EnqueueFault(s)
      PROVE  FALSE
  BY <1>4 DEF CronFires, Check, Start, Stop, Crash, CheckFault, EnqueueFault
<1>5. ASSUME NEW s \in Schedulers, NEW now \in Instants, Enqueue(s, now)
      PROVE  FALSE
  BY <1>0, <1>5, OthersKeepLive
<1>6. CASE WorkerReleases \/ AdvanceTime
  BY <1>0, <1>6, OthersKeepLive
<1>7. CASE UNCHANGED vars
  BY <1>7 DEF vars
<1> QED
  BY <1>1, <1>2, <1>3, <1>4, <1>5, <1>6, <1>7 DEF Next, SchedulerStep, RunnerStep, StoreRejects

(* Only the runner that holds the lease at that moment ends a run, however *)
(* slow the tasks are, for any number of schedulers, runs and crashes.     *)
THEOREM EndedByRunnerHolds == Spec => EndedByRunner
<1>1. IInv /\ [Next]_vars =>
        [\A j \in JobIds :
           j \in Live(jobs) /\ j \notin Live(jobs)' =>
             \/ inline[j].owner = jobs[j].owner /\ inline'[j] = NoRunner
             \/ worker[j].owner = jobs[j].owner /\ worker'[j] = NoRunner]_vars
  BY RunEndsStep DEF EndsIt
<1> QED
  BY <1>1, Invariance, PTL DEF Spec, EndedByRunner
=============================================================================
