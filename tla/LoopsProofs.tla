------------------------------ MODULE LoopsProofs ------------------------------
(***************************************************************************)
(* What the in-process job queue, the dev server and the event stream       *)
(* promise, for any number of jobs, runs, slots, retries, file changes and  *)
(* crashes.                                                                 *)
(***************************************************************************)
EXTENDS Loops, FiniteSetTheorems, SequenceTheorems, WellFoundedInduction, TLAPS

-------------------------------------------------------------------------------
\* An instance has its own names for the operators of FiniteSets.
LEMMA QueueFinite ==
    /\ \A S : JobQueue!IsFiniteSet(S) = IsFiniteSet(S)
    /\ \A S : JobQueue!Cardinality(S) = Cardinality(S)
<1>1. \A S : JobQueue!IsFiniteSet(S) = IsFiniteSet(S)
  BY DEF JobQueue!IsFiniteSet, IsFiniteSet
<1>2. \A S : JobQueue!Cardinality(S) = Cardinality(S)
  BY DEF JobQueue!Cardinality, Cardinality
<1> QED
  BY <1>1, <1>2

\* Every run in the queue waits, and it is in there once.
InQueue(q, ph) ==
    /\ q \in Seq(JobQueue!Runs) /\ ph \in [JobQueue!Runs -> JobQueue!Phases]
    /\ \A i \in 1 .. Len(q) : ph[q[i]] = "queued"
    /\ \A a, b \in 1 .. Len(q) : a # b => q[a] # q[b]

\* A handle has a timer only as its call made it, and none once it is cancelled.
HandlesOk ==
    /\ kind \in [Jobs -> JobQueue!Kinds] /\ timer \in [Jobs -> {"none", "delay", "interval"}]
    /\ cancelled \in [Jobs -> BOOLEAN]
    /\ \A j \in Jobs : /\ timer[j] # "none" => kind[j] \in {"once", "repeat", "every"}
                       /\ cancelled[j] => timer[j] = "none" /\ kind[j] # "unused"

\* The slots are enough, none is idle while a run waits, and stop() leaves nothing
\* that could start a run.
SlotsOk(ph) == Cardinality(JobQueue!Active(ph)) <= Concurrency
NoIdle(q, ph) == ~JobQueue!Stopped /\ q # <<>> => Cardinality(JobQueue!Active(ph)) = Concurrency
Closed == JobQueue!Stopped => queue = <<>> /\ \A j \in Jobs : timer[j] = "none"

JIInv == HandlesOk /\ InQueue(queue, phase) /\ SlotsOk(phase) /\ NoIdle(queue, phase) /\ Closed

\* Which way a run may go in one step: a queued one starts or is skipped.
Drained(from, to) ==
    \A r \in JobQueue!Runs : to[r] # from[r] => /\ ~JobQueue!Stopped /\ from[r] = "queued"
                                                /\ \/ to[r] = "working"
                                                   \/ to[r] = "dropped" /\ JobQueue!Skipped(r)

-------------------------------------------------------------------------------
\* A set of natural numbers has a least one.
LEMMA Least ==
    ASSUME NEW T, T \subseteq Nat, T # {}
    PROVE  \E x \in T : \A y \in T : x <= y
<1>1. PICK x \in T : \A y \in T : <<y, x>> \notin OpToRel(<, Nat)
  BY NatLessThanWellFounded, WFMin, Zenon
<1>2. \A y \in T : ~(y < x)
  BY <1>1 DEF OpToRel
<1>3. \A y \in T : x <= y
  <2> TAKE y \in T
  <2>1. x \in Nat /\ y \in Nat /\ ~(y < x)
    BY <1>2
  <2> QED
    BY <2>1
<1> QED
  BY <1>3

\* The runs are finitely many, and so is every part of them.
LEMMA ActiveFinite ==
    ASSUME JobQueue!QueueAssumption, NEW ph
    PROVE  IsFiniteSet(JobQueue!Active(ph)) /\ Cardinality(JobQueue!Active(ph)) \in Nat
<1>1. IsFiniteSet(Jobs) /\ MaxRuns \in Nat
  BY QueueFinite DEF JobQueue!QueueAssumption
<1>2. IsFiniteSet(1 .. MaxRuns)
  BY <1>1, FS_Interval
<1>3. IsFiniteSet(JobQueue!Runs)
  BY <1>1, <1>2, FS_Product DEF JobQueue!Runs
<1>4. JobQueue!Active(ph) \subseteq JobQueue!Runs
  BY DEF JobQueue!Active
<1>5. IsFiniteSet(JobQueue!Active(ph))
  BY <1>3, <1>4, FS_Subset, Zenon
<1> QED
  BY <1>5, FS_CardinalityType

\* drain() finds where to stop, and it starts no more runs than slots are free.
LEMMA ShiftedFits ==
    ASSUME NEW q \in Seq(JobQueue!Runs), NEW free \in Nat
    PROVE  /\ JobQueue!Shifted(q, free) \in 0 .. Len(q)
           /\ Cardinality({i \in 1 .. JobQueue!Shifted(q, free) : ~JobQueue!Skipped(q[i])}) <= free
           /\ JobQueue!Shifted(q, free) # Len(q) =>
                 Cardinality({i \in 1 .. JobQueue!Shifted(q, free) : ~JobQueue!Skipped(q[i])})
                     = free
<1> DEFINE Starting(n) == {i \in 1 .. n : ~JobQueue!Skipped(q[i])}
           Card(n) == Cardinality(Starting(n))
           Stops(n) == /\ Card(n) <= free
                       /\ n = Len(q) \/ (Card(n) = free /\ (n = 0 \/ n \in Starting(n)))
<1>0. Len(q) \in Nat
  OBVIOUS
<1>1. JobQueue!Shifted(q, free) = CHOOSE n \in 0 .. Len(q) : Stops(n)
  BY QueueFinite DEF JobQueue!Shifted
<1>2. \A n \in Nat : IsFiniteSet(Starting(n)) /\ Card(n) \in Nat
  <2> TAKE n \in Nat
  <2>1. IsFiniteSet(1 .. n) /\ Starting(n) \subseteq 1 .. n
    BY FS_Interval
  <2>2. IsFiniteSet(Starting(n))
    BY <2>1, FS_Subset, Zenon
  <2> QED
    BY <2>2, FS_CardinalityType
<1>3. Card(0) = 0
  <2>1. Starting(0) = {}
    OBVIOUS
  <2> QED
    BY <2>1, FS_EmptySet
<1>4. \A n \in Nat \ {0} :
         /\ n \in Starting(n) => Card(n) = Card(n - 1) + 1
         /\ n \notin Starting(n) => Card(n) = Card(n - 1)
  <2> TAKE n \in Nat \ {0}
  <2>1. n - 1 \in Nat /\ IsFiniteSet(Starting(n - 1)) /\ n \notin Starting(n - 1)
    BY <1>2
  <2>2. CASE n \in Starting(n)
    <3>1. Starting(n) = Starting(n - 1) \cup {n}
      BY <2>2
    <3> HIDE DEF Starting
    <3>2. Cardinality(Starting(n - 1) \cup {n}) = Cardinality(Starting(n - 1)) + 1
      BY <2>1, FS_AddElement
    <3> QED
      BY <2>2, <3>1, <3>2
  <2>3. CASE n \notin Starting(n)
    <3>1. Starting(n) = Starting(n - 1)
      BY <2>3
    <3> HIDE DEF Starting
    <3> QED
      BY <2>3, <3>1
  <2> QED
    BY <2>2, <2>3
<1> HIDE DEF Starting
<1>5. \E n \in 0 .. Len(q) : Stops(n)
  <2>1. CASE Card(Len(q)) <= free
    BY <1>0, <2>1
  <2>2. CASE ~(Card(Len(q)) <= free)
    <3> DEFINE T == {n \in 0 .. Len(q) : free <= Card(n)}
    <3>1. T \subseteq Nat /\ Len(q) \in T
      BY <1>0, <1>2, <2>2
    <3>2. PICK n \in T : \A m \in T : n <= m
      BY <3>1, Least
    <3>3. n \in 0 .. Len(q) /\ free <= Card(n) /\ Card(n) \in Nat
      BY <1>0, <1>2
    <3>4. CASE n = 0
      BY <1>3, <3>3, <3>4
    <3>5. CASE n # 0
      <4>1. n - 1 \in 0 .. Len(q) /\ n \in Nat \ {0} /\ ~(n <= n - 1)
        BY <1>0, <3>3, <3>5
      <4>2. ~(free <= Card(n - 1)) /\ Card(n - 1) \in Nat
        <5>1. n - 1 \notin T
          BY <3>2, <4>1
        <5>2. n - 1 \in Nat
          BY <4>1
        <5> HIDE DEF Card
        <5>3. Card(n - 1) \in Nat
          BY <1>2, <5>2
        <5> QED
          BY <4>1, <5>1, <5>3
      <4>3. n \in Starting(n) /\ Card(n) = Card(n - 1) + 1
        BY <1>4, <3>3, <4>1, <4>2
      <4>4. Card(n) = free
        BY <3>3, <4>2, <4>3
      <4> QED
        BY <3>3, <4>3, <4>4
    <3> QED
      BY <3>4, <3>5
  <2> QED
    BY <2>1, <2>2
<1> HIDE DEF Stops
<1>6. JobQueue!Shifted(q, free) \in 0 .. Len(q) /\ Stops(JobQueue!Shifted(q, free))
  BY <1>1, <1>5
<1> QED
  BY <1>6 DEF Stops, Starting

\* drain() starts or skips what it takes from the queue, within the free slots.
LEMMA DrainKeeps ==
    ASSUME JobQueue!QueueAssumption, NEW q, NEW ph, InQueue(q, ph), SlotsOk(ph), JobQueue!Drain(q,
           ph)
    PROVE  /\ InQueue(queue', phase') /\ SlotsOk(phase') /\ Drained(ph, phase')
           /\ JobQueue!Stopped => queue' = q
           /\ NoIdle(queue', phase')
<1>1. CASE JobQueue!Stopped
  BY <1>1 DEF JobQueue!Drain, InQueue, SlotsOk, Drained, NoIdle
<1>2. CASE ~JobQueue!Stopped
  <2> DEFINE free == Concurrency - Cardinality(JobQueue!Active(ph))
             n == JobQueue!Shifted(q, free)
             taken == {q[i] : i \in 1 .. n}
  <2>0. free \in Nat
    BY ActiveFinite DEF SlotsOk, JobQueue!QueueAssumption
  <2>1. /\ queue' = SubSeq(q, n + 1, Len(q))
        /\ phase' = [r \in JobQueue!Runs |->
              IF r \notin taken THEN ph[r]
              ELSE IF JobQueue!Skipped(r) THEN "dropped" ELSE "working"]
    BY <1>2, QueueFinite DEF JobQueue!Drain
  <2>2. q \in Seq(JobQueue!Runs) /\ ph \in [JobQueue!Runs -> JobQueue!Phases] /\ Len(q) \in Nat
    BY DEF InQueue
  <2>3. /\ n \in 0 .. Len(q)
        /\ Cardinality({i \in 1 .. n : ~JobQueue!Skipped(q[i])}) <= free
        /\ n # Len(q) => Cardinality({i \in 1 .. n : ~JobQueue!Skipped(q[i])}) = free
    BY <2>0, <2>2, ShiftedFits
  <2> DEFINE Starting == {i \in 1 .. n : ~JobQueue!Skipped(q[i])}
             started == {q[i] : i \in Starting}
  <2> HIDE DEF n
  <2>4. \A r \in taken : r \in JobQueue!Runs /\ ph[r] = "queued"
    BY <2>2, <2>3 DEF InQueue
  <2>5. Drained(ph, phase') /\ phase' \in [JobQueue!Runs -> JobQueue!Phases]
    BY <1>2, <2>1, <2>2, <2>4 DEF Drained, JobQueue!Phases
  <2>6. /\ queue' \in Seq(JobQueue!Runs) /\ Len(queue') = Len(q) - n
        /\ \A i \in 1 .. Len(queue') : queue'[i] = q[n + i] /\ n + i \in 1 .. Len(q)
    <3>1. n + 1 \in Int /\ Len(q) \in Int /\ \A i \in n + 1 .. Len(q) : q[i] \in JobQueue!Runs
      BY <2>2, <2>3
    <3>2. /\ SubSeq(q, n + 1, Len(q)) \in Seq(JobQueue!Runs)
          /\ Len(SubSeq(q, n + 1, Len(q))) = IF n + 1 <= Len(q) THEN Len(q) - (n + 1) + 1 ELSE 0
          /\ \A i \in 1 .. Len(q) - (n + 1) + 1 : SubSeq(q, n + 1, Len(q))[i] = q[(n + 1) + i - 1]
      BY <3>1, SubSeqProperties
    <3>3. Len(queue') = Len(q) - n /\ Len(q) - (n + 1) + 1 = Len(q) - n
      BY <2>1, <2>2, <2>3, <3>2
    <3>4. \A i \in 1 .. Len(q) - n : (n + 1) + i - 1 = n + i /\ n + i \in 1 .. Len(q)
      BY <2>2, <2>3
    <3> QED
      BY <2>1, <3>2, <3>3, <3>4
  <2>7. \A i \in 1 .. Len(queue') : queue'[i] \notin taken
    <3> SUFFICES ASSUME NEW i \in 1 .. Len(queue'), NEW k \in 1 .. n
                 PROVE  queue'[i] # q[k]
      OBVIOUS
    <3>1. k \in 1 .. Len(q) /\ n + i # k
      BY <2>2, <2>3
    <3> QED
      BY <2>6, <3>1 DEF InQueue
  <2>8. InQueue(queue', phase')
    <3>1. \A i \in 1 .. Len(queue') : phase'[queue'[i]] = "queued"
      BY <2>1, <2>2, <2>6, <2>7 DEF InQueue
    <3>2. \A a, b \in 1 .. Len(queue') : a # b => queue'[a] # queue'[b]
      <4> SUFFICES ASSUME NEW a \in 1 .. Len(queue'), NEW b \in 1 .. Len(queue'), a # b
                   PROVE  queue'[a] # queue'[b]
        OBVIOUS
      <4>1. n + a # n + b
        BY <2>3
      <4> QED
        BY <2>6, <4>1 DEF InQueue
    <3> QED
      BY <2>5, <2>6, <3>1, <3>2 DEF InQueue
  <2>9. JobQueue!Active(phase') = JobQueue!Active(ph) \cup started
    BY <2>1, <2>4 DEF JobQueue!Active
  <2>10. /\ IsFiniteSet(started) /\ Cardinality(started) <= free /\ Cardinality(started) \in Nat
         /\ n # Len(q) => Cardinality(started) = free
    <3>1. IsFiniteSet(1 .. n) /\ Starting \subseteq 1 .. n
      BY <2>3, FS_Interval
    <3>2. IsFiniteSet(Starting)
      BY <3>1, FS_Subset, Zenon
    <3>3. [i \in Starting |-> q[i]] \in Surjection(Starting, started)
      BY DEF Surjection
    <3>a. [i \in Starting |-> q[i]] \in Injection(Starting, started)
      <4>1. \A i, j \in Starting : q[i] = q[j] => i = j
        BY <2>2, <2>3 DEF InQueue
      <4> QED
        BY <4>1 DEF Injection, IsInjective
    <3>4. /\ Cardinality(Starting) \in Nat /\ Cardinality(Starting) <= free
          /\ n # Len(q) => Cardinality(Starting) = free
      BY <2>3, <3>2, FS_CardinalityType
    <3> HIDE DEF Starting, started
    <3>5. IsFiniteSet(started) /\ Cardinality(started) <= Cardinality(Starting)
      BY <3>2, <3>3, FS_Surjection
    <3>b. Cardinality(started) = Cardinality(Starting)
      BY <3>2, <3>3, <3>a, FS_Surjection
    <3>6. Cardinality(started) \in Nat
      BY <3>5, FS_CardinalityType
    <3> QED
      BY <2>0, <3>4, <3>5, <3>6, <3>b
  <2>11. SlotsOk(phase') /\ (n # Len(q) => Cardinality(JobQueue!Active(phase')) = Concurrency)
    <3> DEFINE both == JobQueue!Active(ph) \cap started
    <3>1. IsFiniteSet(both) /\ Cardinality(both) \in Nat
      BY <2>10, FS_Subset, FS_CardinalityType
    <3>2. Cardinality(JobQueue!Active(ph) \cup started)
            = Cardinality(JobQueue!Active(ph)) + Cardinality(started) - Cardinality(both)
      BY <2>10, ActiveFinite, FS_Union
    <3>3. Cardinality(JobQueue!Active(ph)) \in Nat /\ Concurrency \in Nat
      BY ActiveFinite DEF JobQueue!QueueAssumption
    <3>4. Cardinality(both) = 0
      <4>1. both = {}
        BY <2>4 DEF JobQueue!Active
      <4> QED
        BY <4>1, FS_EmptySet
    <3> HIDE DEF started, both
    <3> QED
      BY <2>9, <2>10, <3>1, <3>2, <3>3, <3>4 DEF SlotsOk
  <2>12. NoIdle(queue', phase')
    <3>1. n = Len(q) => queue' = <<>>
      BY <2>2, <2>6
    <3> QED
      BY <2>11, <3>1 DEF NoIdle
  <2> QED
    BY <1>2, <2>5, <2>8, <2>11, <2>12
<1> QED
  BY <1>1, <1>2

-------------------------------------------------------------------------------
\* What a step does to the runs, unless it is stop().
Moves ==
    /\ \A r \in JobQueue!Runs : phase'[r] # phase[r] =>
          \/ phase[r] = "new" /\ phase'[r] \in {"queued", "working"} /\ ~cancelled[r[1]]
          \/ phase[r] = "queued" /\ phase'[r] \in {"working", "dropped"}
          \/ phase[r] = "working" /\ phase'[r] \in {"backoff", "ended"}
          \/ phase[r] = "backoff" /\ phase'[r] = "working"
    /\ JobQueue!Stopped => \A r \in JobQueue!Runs : phase'[r] # phase[r]
         => phase[r] \in {"working", "backoff"}
    /\ JobQueue!Stopped' = JobQueue!Stopped

LEMMA InitJIInv == ASSUME JobQueue!QueueAssumption, JobQueue!Init PROVE JIInv
<1>1. JobQueue!Active(phase) = {}
  BY DEF JobQueue!Init, JobQueue!Active
<1>2. SlotsOk(phase)
  BY <1>1, FS_EmptySet DEF SlotsOk, JobQueue!QueueAssumption
<1>3. HandlesOk /\ InQueue(queue, phase) /\ NoIdle(queue, phase) /\ Closed
  BY DEF JobQueue!Init, HandlesOk, InQueue, NoIdle, Closed, JobQueue!Stopped, JobQueue!Kinds,
         JobQueue!Phases
<1> QED
  BY <1>2, <1>3 DEF JIInv

\* A run that is queued is the next of its job, and then the queue is drained.
LEMMA RunKeeps ==
    ASSUME JobQueue!QueueAssumption, JIInv, NEW j \in Jobs, JobQueue!RunUnchecked(j),
           ~JobQueue!Stopped,
           kind[j] = "enqueue" => ~cancelled[j]
    PROVE  /\ InQueue(queue', phase') /\ SlotsOk(phase') /\ NoIdle(queue', phase')
           /\ \A r \in JobQueue!Runs : phase'[r] # phase[r] =>
                 \/ phase[r] = "new" /\ phase'[r] \in {"queued", "working"} /\ r[1] = j
                 \/ phase[r] = "queued" /\ phase'[r] \in {"working", "dropped"}
<1> DEFINE first == CHOOSE n \in JobQueue!Fresh(j) : \A m \in JobQueue!Fresh(j) : n <= m
           r == <<j, first>>
           q == Append(queue, r)
           ph == [phase EXCEPT ![r] = "queued"]
<1>1. JobQueue!Drain(q, ph)
  BY DEF JobQueue!RunUnchecked
<1>2. r \in JobQueue!Runs /\ phase[r] = "new"
  <2>1. JobQueue!Fresh(j) \subseteq Nat /\ JobQueue!Fresh(j) # {}
    BY DEF JobQueue!RunUnchecked, JobQueue!Fresh
  <2>2. \E n \in JobQueue!Fresh(j) : \A m \in JobQueue!Fresh(j) : n <= m
    BY <2>1, Least
  <2>3. first \in JobQueue!Fresh(j)
    BY <2>2
  <2> HIDE DEF first
  <2> QED
    BY <2>3 DEF JobQueue!Fresh, JobQueue!Runs
<1>3. r[1] = j
  OBVIOUS
<1> HIDE DEF r
<1>4. queue \in Seq(JobQueue!Runs) /\ phase \in [JobQueue!Runs -> JobQueue!Phases]
  BY DEF JIInv, InQueue
<1>5. ph \in [JobQueue!Runs -> JobQueue!Phases] /\ ph[r] = "queued"
      /\ \A x \in JobQueue!Runs \ {r} : ph[x] = phase[x]
  BY <1>2, <1>4 DEF JobQueue!Phases
<1>6. /\ q \in Seq(JobQueue!Runs) /\ Len(q) = Len(queue) + 1 /\ q[Len(queue) + 1] = r
      /\ \A i \in 1 .. Len(queue) : q[i] = queue[i] /\ q[i] # r
  BY <1>2, <1>4, AppendProperties DEF JIInv, InQueue
<1> HIDE DEF q, ph
<1>7. \A i \in 1 .. Len(q) : i \in 1 .. Len(queue) \/ i = Len(queue) + 1
  BY <1>4, <1>6
<1>8. InQueue(q, ph)
  <2>1. \A i \in 1 .. Len(q) : ph[q[i]] = "queued"
    BY <1>4, <1>5, <1>6, <1>7 DEF JIInv, InQueue
  <2>2. \A a, b \in 1 .. Len(q) : a # b => q[a] # q[b]
    BY <1>6, <1>7 DEF JIInv, InQueue
  <2> QED
    BY <1>5, <1>6, <2>1, <2>2 DEF InQueue
<1>9. JobQueue!Active(ph) = JobQueue!Active(phase)
  BY <1>2, <1>5 DEF JobQueue!Active
<1>10. /\ InQueue(queue', phase') /\ SlotsOk(phase') /\ Drained(ph, phase')
       /\ NoIdle(queue', phase')
  BY <1>1, <1>8, <1>9, DrainKeeps DEF JIInv, SlotsOk
<1>11. ~JobQueue!Skipped(r)
  BY <1>3 DEF JobQueue!Skipped
<1> QED
  BY <1>2, <1>3, <1>5, <1>10, <1>11 DEF Drained

\* The slot of a run that has ended is free for the next.
LEMMA ReleaseKeeps ==
    ASSUME JobQueue!QueueAssumption, JIInv, NEW r \in JobQueue!Runs, phase[r] = "working",
           JobQueue!Release(r),
           UNCHANGED <<kind, timer, cancelled, stop>>
    PROVE  JIInv' /\ Moves
<1> DEFINE ph == [phase EXCEPT ![r] = "ended"]
<1>1. queue \in Seq(JobQueue!Runs) /\ phase \in [JobQueue!Runs -> JobQueue!Phases]
  BY DEF JIInv, InQueue
<1>2. ph \in [JobQueue!Runs -> JobQueue!Phases] /\ ph[r] = "ended"
      /\ \A x \in JobQueue!Runs \ {r} : ph[x] = phase[x]
  BY <1>1 DEF JobQueue!Phases
<1>3. JobQueue!Drain(queue, ph)
  BY DEF JobQueue!Release
<1> HIDE DEF ph
<1>4. InQueue(queue, ph)
  BY <1>2 DEF JIInv, InQueue
<1>5. SlotsOk(ph)
  <2>1. JobQueue!Active(ph) \subseteq JobQueue!Active(phase)
    BY <1>2 DEF JobQueue!Active
  <2>2. IsFiniteSet(JobQueue!Active(phase)) /\ Cardinality(JobQueue!Active(phase)) \in Nat
        /\ Cardinality(JobQueue!Active(ph)) \in Nat /\ Concurrency \in Nat
    BY ActiveFinite DEF JobQueue!QueueAssumption
  <2>3. Cardinality(JobQueue!Active(ph)) <= Cardinality(JobQueue!Active(phase))
    BY <2>1, <2>2, FS_Subset
  <2> QED
    BY <2>2, <2>3 DEF JIInv, SlotsOk
<1>6. /\ InQueue(queue', phase') /\ SlotsOk(phase') /\ Drained(ph, phase')
      /\ JobQueue!Stopped => queue' = queue
      /\ NoIdle(queue', phase')
  BY <1>3, <1>4, <1>5, DrainKeeps
<1>7. JIInv'
  BY <1>6 DEF JIInv, HandlesOk, NoIdle, Closed, JobQueue!Stopped
<1>8. Moves
  BY <1>2, <1>6 DEF Moves, Drained, JobQueue!Stopped
<1> QED
  BY <1>7, <1>8

LEMMA RunsKeep ==
    ASSUME JobQueue!QueueAssumption, JIInv, NEW r \in JobQueue!Runs,
           JobQueue!Succeed(r) \/ JobQueue!Fail(r) \/ JobQueue!Retry(r)
    PROVE  JIInv' /\ Moves
<1>1. CASE JobQueue!Succeed(r) \/ (JobQueue!Fail(r) /\ ~(failed[r] < Retries))
  BY <1>1, ReleaseKeeps DEF JobQueue!Succeed, JobQueue!Fail, JobQueue!AttemptFails
<1>2. CASE JobQueue!Retry(r) \/ (JobQueue!Fail(r) /\ failed[r] < Retries)
  <2>1. /\ UNCHANGED <<kind, timer, cancelled, queue, stop>>
        /\ \E to \in {"working", "backoff"} : /\ phase' = [phase EXCEPT ![r] = to]
                                              /\ phase[r] \in {"working", "backoff"} \ {to}
    BY <1>2 DEF JobQueue!Retry, JobQueue!Fail, JobQueue!AttemptFails
  <2>2. /\ phase' \in [JobQueue!Runs -> JobQueue!Phases] /\ \A x \in JobQueue!Runs \ {r} :
             phase'[x] = phase[x]
        /\ \/ phase[r] = "working" /\ phase'[r] = "backoff"
           \/ phase[r] = "backoff" /\ phase'[r] = "working"
    BY <2>1 DEF JIInv, InQueue, JobQueue!Phases
  <2>3. JobQueue!Active(phase') = JobQueue!Active(phase)
    BY <2>2 DEF JobQueue!Active
  <2>4. InQueue(queue', phase')
    BY <2>1, <2>2 DEF JIInv, InQueue
  <2>5. JIInv'
    BY <2>1, <2>3, <2>4 DEF JIInv, HandlesOk, SlotsOk, NoIdle, Closed, JobQueue!Stopped
  <2>6. Moves
    BY <2>1, <2>2 DEF Moves, JobQueue!Stopped
  <2> QED
    BY <2>5, <2>6
<1> QED
  BY <1>1, <1>2

LEMMA HandlesKeep ==
    ASSUME JobQueue!QueueAssumption, JIInv, NEW j \in Jobs,
           \/ JobQueue!Enqueue(j) \/ JobQueue!DelayOver(j) \/ JobQueue!Tick(j) \/ JobQueue!Cancel(j)
           \/ \E k \in {"once", "repeat", "every"} : JobQueue!Schedule(j, k)
    PROVE  JIInv' /\ Moves
<1>1. CASE JobQueue!Enqueue(j) \/ JobQueue!DelayOver(j) \/ JobQueue!Tick(j)
  <2>1. ~cancelled[j] /\ JobQueue!RunUnchecked(j) /\ ~JobQueue!Stopped
        /\ UNCHANGED <<cancelled, stop>>
    BY <1>1 DEF JobQueue!Enqueue, JobQueue!DelayOver, JobQueue!Tick, JIInv, HandlesOk, Closed
  <2>2. /\ InQueue(queue', phase') /\ SlotsOk(phase') /\ NoIdle(queue', phase')
        /\ \A r \in JobQueue!Runs : phase'[r] # phase[r] =>
              \/ phase[r] = "new" /\ phase'[r] \in {"queued", "working"} /\ r[1] = j
              \/ phase[r] = "queued" /\ phase'[r] \in {"working", "dropped"}
    BY <2>1, RunKeeps
  <2>3. HandlesOk'
    BY <1>1, <2>1
    DEF JobQueue!Enqueue, JobQueue!DelayOver, JobQueue!Tick, JIInv, HandlesOk, JobQueue!Kinds
  <2>4. ~JobQueue!Stopped'
    BY <2>1 DEF JobQueue!Stopped
  <2>5. JIInv'
    BY <2>1, <2>2, <2>3, <2>4 DEF JIInv, NoIdle, Closed
  <2>6. JobQueue!Stopped' = JobQueue!Stopped
    BY <2>1 DEF JobQueue!Stopped
  <2>7. Moves
    BY <2>1, <2>2, <2>6 DEF Moves
  <2> QED
    BY <2>5, <2>7
<1>2. CASE JobQueue!Cancel(j) \/ \E k \in {"once", "repeat", "every"} : JobQueue!Schedule(j, k)
  <2>1. UNCHANGED <<queue, phase, stop>>
    BY <1>2 DEF JobQueue!Cancel, JobQueue!Schedule
  <2>2. HandlesOk'
    BY <1>2 DEF JobQueue!Cancel, JobQueue!Schedule, JIInv, HandlesOk, JobQueue!Kinds
  <2>3. Closed'
    BY <1>2 DEF JobQueue!Cancel, JobQueue!Schedule, JIInv, HandlesOk, Closed, JobQueue!Stopped
  <2> QED
    BY <2>1, <2>2, <2>3 DEF JIInv, NoIdle, Moves, JobQueue!Stopped
<1> QED
  BY <1>1, <1>2

LEMMA StopKeeps ==
    ASSUME JobQueue!QueueAssumption, JIInv, JobQueue!Stop
    PROVE  /\ JIInv' /\ JobQueue!Stopped' /\ cancelled' = cancelled
           /\ phase' = [r \in JobQueue!Runs |-> IF phase[r] = "queued" THEN "dropped" ELSE phase[r]]
<1>1. phase' = [r \in JobQueue!Runs |-> IF phase[r] = "queued" THEN "dropped" ELSE phase[r]]
  BY DEF JobQueue!Stop
<1>2. queue' = <<>> /\ JobQueue!Stopped' /\ timer' = [j \in Jobs |-> "none"]
      /\ UNCHANGED <<kind, cancelled>>
  BY DEF JobQueue!Stop, JobQueue!Stopped
<1>3. JobQueue!Active(phase') = JobQueue!Active(phase)
  BY <1>1 DEF JobQueue!Active
<1>4. InQueue(queue', phase')
  BY <1>1, <1>2 DEF JIInv, InQueue, JobQueue!Phases
<1> QED
  BY <1>1, <1>2, <1>3, <1>4 DEF JIInv, HandlesOk, SlotsOk, NoIdle, Closed

LEMMA StoppingKeeps ==
    ASSUME JIInv, JobQueue!StopDrained \/ JobQueue!StopGivesUp \/ UNCHANGED JobQueue!vars
    PROVE  JIInv' /\ Moves
<1>1. /\ UNCHANGED <<kind, timer, cancelled, queue, phase>> /\ JobQueue!Stopped' = JobQueue!Stopped
      /\ JobQueue!Active(phase') = JobQueue!Active(phase)
  BY DEF JobQueue!StopDrained, JobQueue!StopGivesUp, JobQueue!vars, JobQueue!Stopped,
         JobQueue!Active
<1>2. HandlesOk' /\ InQueue(queue', phase') /\ SlotsOk(phase') /\ NoIdle(queue, phase)' /\ Closed'
  BY <1>1 DEF JIInv, HandlesOk, InQueue, SlotsOk, NoIdle, Closed
<1>3. Moves
  BY <1>1 DEF Moves
<1> QED
  BY <1>2, <1>3 DEF JIInv

LEMMA QueueStep ==
    ASSUME JobQueue!QueueAssumption, JIInv, [JobQueue!Next]_(JobQueue!vars)
    PROVE  JIInv' /\ (Moves \/ JobQueue!Stop)
<1>1. ASSUME NEW j \in Jobs,
             \/ JobQueue!Enqueue(j) \/ JobQueue!DelayOver(j)
             \/ JobQueue!Tick(j) \/ JobQueue!Cancel(j)
             \/ \E k \in {"once", "repeat", "every"} : JobQueue!Schedule(j, k)
      PROVE  JIInv' /\ Moves
  BY <1>1, HandlesKeep
<1>2. ASSUME NEW r \in JobQueue!Runs, JobQueue!Succeed(r) \/ JobQueue!Fail(r) \/ JobQueue!Retry(r)
      PROVE  JIInv' /\ Moves
  BY <1>2, RunsKeep
<1>3. CASE JobQueue!Stop
  BY <1>3, StopKeeps
<1>4. CASE JobQueue!StopDrained \/ JobQueue!StopGivesUp \/ UNCHANGED JobQueue!vars
  BY <1>4, StoppingKeeps
<1> QED
  BY <1>1, <1>2, <1>3, <1>4 DEF JobQueue!Next

LEMMA QueueInvariance == ASSUME JobQueue!QueueAssumption PROVE JobQueue!Spec => []JIInv
<1>1. JobQueue!Init => JIInv
  BY InitJIInv
<1>2. JIInv /\ [JobQueue!Next]_(JobQueue!vars) => JIInv'
  BY QueueStep
<1> QED
  BY <1>1, <1>2, PTL DEF JobQueue!Spec

\* No timer that was about to fire queues a run of a cancelled job.
LEMMA CancelStep ==
    ASSUME JobQueue!QueueAssumption, JIInv, [JobQueue!Next]_(JobQueue!vars), NEW j \in Jobs,
           cancelled[j],
           NEW n \in 1 .. MaxRuns, phase[<<j, n>>] = "new"
    PROVE  phase'[<<j, n>>] = "new"
<1>1. <<j, n>> \in JobQueue!Runs /\ <<j, n>>[1] = j
  BY DEF JobQueue!Runs
<1>2. CASE Moves
  BY <1>1, <1>2 DEF Moves
<1>3. CASE JobQueue!Stop
  BY <1>1, <1>3, StopKeeps
<1> QED
  BY <1>2, <1>3, QueueStep

-------------------------------------------------------------------------------
\* A queued run is in the queue, the runs of a job are in it in their order, and they
\* are started in no other: a new run comes after those that are not.
InOrder(q, ph) ==
    /\ \A r \in JobQueue!Runs : ph[r] = "queued" => \E i \in 1 .. Len(q) : q[i] = r
    /\ \A a, b \in 1 .. Len(q) :
          a < b /\ q[a][1] = q[b][1] => q[a][2] < q[b][2]
    /\ \A j \in Jobs : \A m, n \in 1 .. MaxRuns :
          m < n /\ ph[<<j, n>>] # "new" => ph[<<j, m>>] # "new"

\* drain() takes the runs it starts or skips from the head, and makes none new.
LEMMA DrainCuts ==
    ASSUME JobQueue!QueueAssumption, NEW q, NEW ph, InQueue(q, ph), SlotsOk(ph), JobQueue!Drain(q,
           ph)
    PROVE  \E n \in 0 .. Len(q) :
              /\ Len(queue') = Len(q) - n
              /\ \A i \in 1 .. Len(queue') : queue'[i] = q[n + i] /\ n + i \in 1 .. Len(q)
              /\ \A r \in JobQueue!Runs : /\ phase'[r] = "queued" => /\ ph[r] = "queued"
                                                                     /\ \A k \in 1 .. n : q[k] # r
                                          /\ phase'[r] = "new" <=> ph[r] = "new"
<1>0. q \in Seq(JobQueue!Runs) /\ ph \in [JobQueue!Runs -> JobQueue!Phases] /\ Len(q) \in Nat
  BY DEF InQueue
<1>1. CASE JobQueue!Stopped
  <2>1. queue' = q /\ phase' = ph
    BY <1>1 DEF JobQueue!Drain
  <2>2. \A i \in 1 .. Len(q) : 0 + i = i
    BY <1>0
  <2>3. 0 \in 0 .. Len(q) /\ Len(q) - 0 = Len(q) /\ 1 .. 0 = {}
    BY <1>0
  <2> QED
    BY <2>1, <2>2, <2>3
<1>2. CASE ~JobQueue!Stopped
  <2> DEFINE free == Concurrency - Cardinality(JobQueue!Active(ph))
             n == JobQueue!Shifted(q, free)
             taken == {q[i] : i \in 1 .. n}
  <2>1. /\ queue' = SubSeq(q, n + 1, Len(q))
        /\ phase' = [r \in JobQueue!Runs |->
              IF r \notin taken THEN ph[r]
              ELSE IF JobQueue!Skipped(r) THEN "dropped" ELSE "working"]
    BY <1>2, QueueFinite DEF JobQueue!Drain
  <2>2. free \in Nat
    BY ActiveFinite DEF SlotsOk, JobQueue!QueueAssumption
  <2>3. n \in 0 .. Len(q)
    BY <1>0, <2>2, ShiftedFits
  <2> HIDE DEF n
  <2>4. \A r \in taken : ph[r] = "queued"
    BY <1>0, <2>3 DEF InQueue
  <2>5. \A r \in JobQueue!Runs : /\ phase'[r] = "queued" => ph[r] = "queued" /\ r \notin taken
                                 /\ phase'[r] = "new" <=> ph[r] = "new"
    BY <2>1, <2>4
  <2>6. \A i \in n + 1 .. Len(q) : q[i] \in JobQueue!Runs
    BY <1>0, <2>3
  <2>7. n + 1 \in Int /\ Len(q) \in Int
    BY <1>0, <2>3
  <2>8. /\ Len(queue') = IF n + 1 <= Len(q) THEN Len(q) - (n + 1) + 1 ELSE 0
        /\ \A i \in 1 .. Len(q) - (n + 1) + 1 : queue'[i] = q[(n + 1) + i - 1]
    BY <2>1, <2>6, <2>7, SubSeqProperties
  <2>9. Len(queue') = Len(q) - n /\ Len(q) - (n + 1) + 1 = Len(q) - n
    BY <1>0, <2>3, <2>8
  <2>10. \A i \in 1 .. Len(q) - n : (n + 1) + i - 1 = n + i /\ n + i \in 1 .. Len(q)
    BY <1>0, <2>3
  <2>11. \A i \in 1 .. Len(queue') : queue'[i] = q[n + i] /\ n + i \in 1 .. Len(q)
    BY <2>8, <2>9, <2>10
  <2> QED
    BY <2>3, <2>5, <2>9, <2>11
<1> QED
  BY <1>1, <1>2

LEMMA DrainInOrder ==
    ASSUME JobQueue!QueueAssumption, NEW q, NEW ph, InQueue(q, ph), SlotsOk(ph), InOrder(q, ph),
           JobQueue!Drain(q, ph)
    PROVE  InOrder(queue', phase')
<1>1. PICK n \in 0 .. Len(q) :
         /\ Len(queue') = Len(q) - n
         /\ \A i \in 1 .. Len(queue') : queue'[i] = q[n + i] /\ n + i \in 1 .. Len(q)
         /\ \A r \in JobQueue!Runs : /\ phase'[r] = "queued" => /\ ph[r] = "queued"
                                                                /\ \A k \in 1 .. n : q[k] # r
                                     /\ phase'[r] = "new" <=> ph[r] = "new"
  BY DrainCuts
<1>2. Len(q) \in Nat
  BY DEF InQueue
<1>3. ASSUME NEW r \in JobQueue!Runs, phase'[r] = "queued"
      PROVE  \E i \in 1 .. Len(queue') : queue'[i] = r
  <2>1. PICK k \in 1 .. Len(q) : q[k] = r
    BY <1>1, <1>3 DEF InOrder
  <2>2. k \notin 1 .. n
    BY <1>1, <1>3, <2>1
  <2>3. k - n \in 1 .. Len(queue') /\ n + (k - n) = k
    BY <1>1, <1>2, <2>2
  <2> QED
    BY <1>1, <2>1, <2>3
<1>4. ASSUME NEW a \in 1 .. Len(queue'), NEW b \in 1 .. Len(queue'), a < b,
             queue'[a][1] = queue'[b][1]
      PROVE  queue'[a][2] < queue'[b][2]
  <2>1. n + a < n + b
    BY <1>1, <1>2, <1>4
  <2> QED
    BY <1>1, <1>4, <2>1 DEF InOrder
<1>5. ASSUME NEW j \in Jobs, NEW m \in 1 .. MaxRuns, NEW k \in 1 .. MaxRuns, m < k,
             phase'[<<j, k>>] # "new"
      PROVE  phase'[<<j, m>>] # "new"
  <2>1. <<j, k>> \in JobQueue!Runs /\ <<j, m>> \in JobQueue!Runs
    BY DEF JobQueue!Runs
  <2> QED
    BY <1>1, <1>5, <2>1 DEF InOrder
<1> QED
  BY <1>3, <1>4, <1>5 DEF InOrder

\* The run that is queued is the first of its job that is new: it goes behind the
\* others of that job.
LEMMA RunInOrder ==
    ASSUME JobQueue!QueueAssumption, JIInv, InOrder(queue, phase), NEW j \in Jobs,
           JobQueue!RunUnchecked(j)
    PROVE  InOrder(queue', phase')
<1> DEFINE first == CHOOSE n \in JobQueue!Fresh(j) : \A m \in JobQueue!Fresh(j) : n <= m
           r == <<j, first>>
           q == Append(queue, r)
           ph == [phase EXCEPT ![r] = "queued"]
<1>1. JobQueue!Drain(q, ph)
  BY DEF JobQueue!RunUnchecked
<1>2. first \in JobQueue!Fresh(j) /\ \A m \in JobQueue!Fresh(j) : first <= m
  <2>1. JobQueue!Fresh(j) \subseteq Nat /\ JobQueue!Fresh(j) # {}
    BY DEF JobQueue!RunUnchecked, JobQueue!Fresh
  <2>2. \E n \in JobQueue!Fresh(j) : \A m \in JobQueue!Fresh(j) : n <= m
    BY <2>1, Least
  <2> QED
    BY <2>2
<1> HIDE DEF first
<1>3. first \in 1 .. MaxRuns /\ r \in JobQueue!Runs /\ phase[r] = "new" /\ r[1] = j /\ r[2] = first
  BY <1>2 DEF JobQueue!Fresh, JobQueue!Runs
<1>4. queue \in Seq(JobQueue!Runs) /\ phase \in [JobQueue!Runs -> JobQueue!Phases]
  BY DEF JIInv, InQueue
<1>5. ph \in [JobQueue!Runs -> JobQueue!Phases] /\ ph[r] = "queued"
      /\ \A x \in JobQueue!Runs \ {r} : ph[x] = phase[x]
  BY <1>3, <1>4 DEF JobQueue!Phases
<1>6. /\ q \in Seq(JobQueue!Runs) /\ Len(q) = Len(queue) + 1 /\ q[Len(queue) + 1] = r
      /\ \A i \in 1 .. Len(queue) : q[i] = queue[i] /\ q[i] # r
  BY <1>3, <1>4, AppendProperties DEF JIInv, InQueue
<1>7. \A k \in 1 .. MaxRuns : phase[<<j, k>>] # "new" => k < first
  <2> SUFFICES ASSUME NEW k \in 1 .. MaxRuns, phase[<<j, k>>] # "new"
               PROVE  k < first
    OBVIOUS
  <2>1. ~(first < k)
    BY <1>3 DEF InOrder
  <2>2. k # first
    BY <1>3
  <2> QED
    BY <1>3, <2>1, <2>2
<1>8. \A k \in 1 .. MaxRuns : k < first => phase[<<j, k>>] # "new"
  <2> SUFFICES ASSUME NEW k \in 1 .. MaxRuns, k < first, phase[<<j, k>>] = "new"
               PROVE  FALSE
    OBVIOUS
  <2>1. k \in JobQueue!Fresh(j)
    BY DEF JobQueue!Fresh
  <2> QED
    BY <1>2, <1>3, <2>1
<1> HIDE DEF q, ph, r
<1>9. Len(queue) \in Nat /\ \A i \in 1 .. Len(q) : i \in 1 .. Len(queue) \/ i = Len(queue) + 1
  BY <1>4, <1>6
<1>10. InQueue(q, ph)
  <2>1. \A i \in 1 .. Len(q) : ph[q[i]] = "queued"
    BY <1>4, <1>5, <1>6, <1>9 DEF JIInv, InQueue
  <2>2. \A a, b \in 1 .. Len(q) : a # b => q[a] # q[b]
    BY <1>6, <1>9 DEF JIInv, InQueue
  <2> QED
    BY <1>5, <1>6, <2>1, <2>2 DEF InQueue
<1>11. SlotsOk(ph)
  <2>1. JobQueue!Active(ph) = JobQueue!Active(phase)
    BY <1>3, <1>5 DEF JobQueue!Active
  <2> QED
    BY <2>1 DEF JIInv, SlotsOk
<1>12. ASSUME NEW x \in JobQueue!Runs, ph[x] = "queued"
       PROVE  \E i \in 1 .. Len(q) : q[i] = x
  <2>1. CASE x = r
    BY <1>6, <1>9, <2>1
  <2>2. CASE x # r
    <3>1. PICK i \in 1 .. Len(queue) : queue[i] = x
      BY <1>5, <1>12, <2>2 DEF InOrder
    <3> QED
      BY <1>6, <1>9, <3>1
  <2> QED
    BY <2>1, <2>2
<1>13. ASSUME NEW a \in 1 .. Len(q), NEW b \in 1 .. Len(q), a < b, q[a][1] = q[b][1]
       PROVE  q[a][2] < q[b][2]
  <2>1. a \in 1 .. Len(queue)
    BY <1>6, <1>9, <1>13
  <2>2. CASE b \in 1 .. Len(queue)
    BY <1>6, <1>13, <2>1, <2>2 DEF InOrder
  <2>3. CASE b = Len(queue) + 1
    <3>1. queue[a] \in JobQueue!Runs /\ phase[queue[a]] # "new"
      BY <1>4, <2>1 DEF JIInv, InQueue
    <3>2. queue[a][2] \in 1 .. MaxRuns /\ queue[a] = <<queue[a][1], queue[a][2]>>
      BY <3>1 DEF JobQueue!Runs
    <3>3. q[a] = queue[a] /\ q[b] = r /\ queue[a][1] = j
      BY <1>3, <1>6, <1>13, <2>1, <2>3
    <3>4. phase[<<j, queue[a][2]>>] # "new"
      BY <3>1, <3>2, <3>3
    <3>5. queue[a][2] < first
      BY <1>7, <3>2, <3>4
    <3> QED
      BY <1>3, <3>3, <3>5
  <2> QED
    BY <1>9, <2>2, <2>3
<1>14. ASSUME NEW k \in Jobs, NEW m \in 1 .. MaxRuns, NEW n \in 1 .. MaxRuns, m < n,
              ph[<<k, n>>] # "new"
       PROVE  ph[<<k, m>>] # "new"
  <2>1. <<k, m>> \in JobQueue!Runs /\ <<k, n>> \in JobQueue!Runs
    BY DEF JobQueue!Runs
  <2>2. CASE phase[<<k, n>>] # "new"
    <3>1. phase[<<k, m>>] # "new"
      BY <1>14, <2>2 DEF InOrder
    <3> QED
      BY <1>5, <2>1, <3>1
  <2>3. CASE phase[<<k, n>>] = "new"
    <3>1. <<k, n>> = r
      BY <1>5, <1>14, <2>1, <2>3
    <3>2. k = j /\ n = first
      BY <3>1 DEF r
    <3>3. phase[<<k, m>>] # "new"
      BY <1>8, <1>14, <3>2
    <3> QED
      BY <1>5, <2>1, <3>3
  <2> QED
    BY <2>2, <2>3
<1>15. InOrder(q, ph)
  BY <1>12, <1>13, <1>14 DEF InOrder
<1> QED
  BY <1>1, <1>10, <1>11, <1>15, DrainInOrder

LEMMA ReleaseInOrder ==
    ASSUME JobQueue!QueueAssumption, JIInv, InOrder(queue, phase), NEW r \in JobQueue!Runs,
           phase[r] = "working", JobQueue!Release(r)
    PROVE  InOrder(queue', phase')
<1> DEFINE ph == [phase EXCEPT ![r] = "ended"]
<1>1. queue \in Seq(JobQueue!Runs) /\ phase \in [JobQueue!Runs -> JobQueue!Phases]
  BY DEF JIInv, InQueue
<1>2. ph \in [JobQueue!Runs -> JobQueue!Phases] /\ ph[r] = "ended"
      /\ \A x \in JobQueue!Runs \ {r} : ph[x] = phase[x]
  BY <1>1 DEF JobQueue!Phases
<1>3. JobQueue!Drain(queue, ph)
  BY DEF JobQueue!Release
<1> HIDE DEF ph
<1>4. InQueue(queue, ph)
  BY <1>2 DEF JIInv, InQueue
<1>5. SlotsOk(ph)
  <2>1. JobQueue!Active(ph) \subseteq JobQueue!Active(phase)
    BY <1>2 DEF JobQueue!Active
  <2>2. IsFiniteSet(JobQueue!Active(phase)) /\ Cardinality(JobQueue!Active(phase)) \in Nat
        /\ Cardinality(JobQueue!Active(ph)) \in Nat /\ Concurrency \in Nat
    BY ActiveFinite DEF JobQueue!QueueAssumption
  <2>3. Cardinality(JobQueue!Active(ph)) <= Cardinality(JobQueue!Active(phase))
    BY <2>1, <2>2, FS_Subset
  <2> QED
    BY <2>2, <2>3 DEF JIInv, SlotsOk
<1>6. \A x \in JobQueue!Runs : /\ ph[x] = "queued" => phase[x] = "queued"
                               /\ ph[x] = "new" <=> phase[x] = "new"
  BY <1>2
<1>7. \A j \in Jobs : \A n \in 1 .. MaxRuns : <<j, n>> \in JobQueue!Runs
  BY DEF JobQueue!Runs
<1>8. InOrder(queue, ph)
  BY <1>6, <1>7 DEF InOrder
<1> QED
  BY <1>3, <1>4, <1>5, <1>8, DrainInOrder

\* Where the queue stays and no run becomes queued or new, nothing changes.
LEMMA OrderStays ==
    ASSUME InOrder(queue, phase), queue' = queue,
           \A x \in JobQueue!Runs : /\ phase'[x] = "queued" => phase[x] = "queued"
                                    /\ phase'[x] = "new" <=> phase[x] = "new"
    PROVE  InOrder(queue', phase')
<1>1. \A j \in Jobs : \A n \in 1 .. MaxRuns : <<j, n>> \in JobQueue!Runs
  BY DEF JobQueue!Runs
<1> QED
  BY <1>1 DEF InOrder

LEMMA OrderStep ==
    ASSUME JobQueue!QueueAssumption, JIInv, InOrder(queue, phase), [JobQueue!Next]_(JobQueue!vars)
    PROVE  InOrder(queue', phase')
<1>0. phase \in [JobQueue!Runs -> JobQueue!Phases]
  BY DEF JIInv, InQueue
<1>1. ASSUME NEW j \in Jobs, JobQueue!Enqueue(j) \/ JobQueue!DelayOver(j) \/ JobQueue!Tick(j)
      PROVE  InOrder(queue', phase')
  BY <1>1, RunInOrder DEF JobQueue!Enqueue, JobQueue!DelayOver, JobQueue!Tick
<1>2. ASSUME NEW j \in Jobs,
             JobQueue!Cancel(j) \/ \E k \in {"once", "repeat", "every"} : JobQueue!Schedule(j, k)
      PROVE  InOrder(queue', phase')
  BY <1>2 DEF JobQueue!Cancel, JobQueue!Schedule
<1>3. ASSUME NEW r \in JobQueue!Runs, JobQueue!Succeed(r) \/ (JobQueue!Fail(r)
      /\ ~(failed[r] < Retries))
      PROVE  InOrder(queue', phase')
  BY <1>3, ReleaseInOrder DEF JobQueue!Succeed, JobQueue!Fail, JobQueue!AttemptFails
<1>4. ASSUME NEW r \in JobQueue!Runs, JobQueue!Retry(r) \/ (JobQueue!Fail(r) /\ failed[r] < Retries)
      PROVE  InOrder(queue', phase')
  <2>1. /\ queue' = queue
        /\ \E to \in {"working", "backoff"} : /\ phase' = [phase EXCEPT ![r] = to]
                                              /\ phase[r] \in {"working", "backoff"}
    BY <1>4 DEF JobQueue!Retry, JobQueue!Fail, JobQueue!AttemptFails
  <2>2. \A x \in JobQueue!Runs : /\ phase'[x] = "queued" => phase[x] = "queued"
                                 /\ phase'[x] = "new" <=> phase[x] = "new"
    BY <1>0, <2>1
  <2> QED
    BY <2>1, <2>2, OrderStays
<1>5. CASE JobQueue!Stop
  <2>1. /\ queue' = <<>>
        /\ phase' = [r \in JobQueue!Runs |-> IF phase[r] = "queued" THEN "dropped" ELSE phase[r]]
    BY <1>5 DEF JobQueue!Stop
  <2>2. \A x \in JobQueue!Runs : /\ phase'[x] # "queued"
                                 /\ phase'[x] = "new" <=> phase[x] = "new"
    BY <2>1
  <2>3. \A j \in Jobs : \A n \in 1 .. MaxRuns : <<j, n>> \in JobQueue!Runs
    BY DEF JobQueue!Runs
  <2>4. 1 .. Len(queue') = {}
    BY <2>1
  <2> QED
    BY <2>2, <2>3, <2>4 DEF InOrder
<1>6. CASE JobQueue!StopDrained \/ JobQueue!StopGivesUp \/ UNCHANGED JobQueue!vars
  BY <1>6 DEF JobQueue!StopDrained, JobQueue!StopGivesUp, JobQueue!vars
<1> QED
  BY <1>1, <1>2, <1>3, <1>4, <1>5, <1>6 DEF JobQueue!Next

LEMMA OrderInvariance == ASSUME JobQueue!QueueAssumption PROVE JobQueue!Spec => []InOrder(queue,
                                phase)
<1>1. JobQueue!Init => InOrder(queue, phase)
  <2> SUFFICES ASSUME JobQueue!Init PROVE InOrder(queue, phase)
    OBVIOUS
  <2>1. \A r \in JobQueue!Runs : phase[r] = "new"
    BY DEF JobQueue!Init
  <2>2. \A j \in Jobs : \A n \in 1 .. MaxRuns : <<j, n>> \in JobQueue!Runs
    BY DEF JobQueue!Runs
  <2>3. 1 .. Len(queue) = {}
    BY DEF JobQueue!Init
  <2> QED
    BY <2>1, <2>2, <2>3 DEF InOrder
<1>2. JIInv /\ InOrder(queue, phase) /\ [JobQueue!Next]_(JobQueue!vars) => InOrder(queue, phase)'
  BY OrderStep
<1> QED
  BY <1>1, <1>2, QueueInvariance, PTL DEF JobQueue!Spec

\* Together they say what QueueExact does.
LEMMA ExactFollows ==
    ASSUME JIInv, InOrder(queue, phase)
    PROVE  JobQueue!QueueExact
<1>1. \A r \in JobQueue!Runs : (phase[r] = "queued") <=> (\E i \in 1 .. Len(queue) : queue[i] = r)
  BY DEF JIInv, InQueue, InOrder
<1>2. \A a, b \in 1 .. Len(queue) :
        a < b => /\ queue[a] # queue[b]
                 /\ queue[a][1] = queue[b][1] => queue[a][2] < queue[b][2]
  BY DEF JIInv, InQueue, InOrder
<1>3. JobQueue!Stopped => queue = <<>> /\ \A j \in Jobs : timer[j] = "none"
  BY DEF JIInv, Closed
<1> QED
  BY <1>1, <1>2, <1>3 DEF JobQueue!QueueExact

-------------------------------------------------------------------------------
\* How the pool sees the phase of a run.
Seen(ph) == [r \in JobQueue!Runs |-> CASE ph[r] = "queued" -> "waiting"
                              [] ph[r] \in {"working", "backoff"} -> "running"
                              [] OTHER -> ph[r]]

LEMMA SeenIs ==
    ASSUME NEW ph \in [JobQueue!Runs -> JobQueue!Phases]
    PROVE  /\ Seen(ph) \in [JobQueue!Runs -> JobQueue!Pool!Phases]
           /\ \A r \in JobQueue!Runs :
                 /\ ph[r] = "queued" => Seen(ph)[r] = "waiting"
                 /\ ph[r] \in {"working", "backoff"} => Seen(ph)[r] = "running"
                 /\ ph[r] \in {"new", "ended", "dropped"} => Seen(ph)[r] = ph[r]
           /\ JobQueue!Pool!Held(Seen(ph)) = JobQueue!Active(ph)
<1>1. \A r \in JobQueue!Runs :
         /\ ph[r] \in JobQueue!Phases
         /\ ph[r] = "queued" => Seen(ph)[r] = "waiting"
         /\ ph[r] \in {"working", "backoff"} => Seen(ph)[r] = "running"
         /\ ph[r] \in {"new", "ended", "dropped"} => Seen(ph)[r] = ph[r]
  BY DEF Seen, JobQueue!Phases
<1>2. Seen(ph) \in [JobQueue!Runs -> JobQueue!Pool!Phases]
  <2>1. \A r \in JobQueue!Runs : Seen(ph)[r] \in JobQueue!Pool!Phases
    BY <1>1 DEF JobQueue!Phases, JobQueue!Pool!Phases
  <2> QED
    BY <2>1 DEF Seen
<1>3. JobQueue!Pool!Held(Seen(ph)) = JobQueue!Active(ph)
  BY <1>1 DEF JobQueue!Pool!Held, JobQueue!Active, JobQueue!Phases
<1> QED
  BY <1>1, <1>2, <1>3

\* An instance has its own name for the operator of FiniteSets.
LEMMA PoolCardinality == \A S : JobQueue!Pool!Cardinality(S) = Cardinality(S)
BY DEF JobQueue!Pool!Cardinality, Cardinality

LEMMA PoolStep ==
    ASSUME JobQueue!QueueAssumption, JIInv, [JobQueue!Next]_(JobQueue!vars)
    PROVE  [JobQueue!Pool!Next]_(JobQueue!Pool!vars)
<1>1. JIInv' /\ (Moves \/ JobQueue!Stop)
  BY QueueStep
<1>2. phase \in [JobQueue!Runs -> JobQueue!Phases] /\ phase' \in [JobQueue!Runs -> JobQueue!Phases]
  BY <1>1 DEF JIInv, InQueue
<1> DEFINE a == Seen(phase)
           b == Seen(phase')
<1>3. /\ a \in [JobQueue!Runs -> JobQueue!Pool!Phases]
           /\ b \in [JobQueue!Runs -> JobQueue!Pool!Phases]
      /\ \A r \in JobQueue!Runs :
            /\ phase[r] = "queued" => a[r] = "waiting"
            /\ phase[r] \in {"working", "backoff"} => a[r] = "running"
            /\ phase[r] \in {"new", "ended", "dropped"} => a[r] = phase[r]
            /\ phase'[r] = "queued" => b[r] = "waiting"
            /\ phase'[r] \in {"working", "backoff"} => b[r] = "running"
            /\ phase'[r] \in {"new", "ended", "dropped"} => b[r] = phase'[r]
            /\ phase[r] = phase'[r] => a[r] = b[r]
      /\ JobQueue!Pool!Held(b) = JobQueue!Active(phase')
  <2>1. \A r \in JobQueue!Runs : phase[r] = phase'[r] => a[r] = b[r]
    BY DEF Seen
  <2> HIDE DEF a, b
  <2> QED
    BY <1>2, <2>1, SeenIs DEF a, b
<1>4. CASE Moves
  <2> HIDE DEF a, b
  <2>1. \A r \in JobQueue!Runs : b[r] # a[r] => JobQueue!Pool!Further(a[r], b[r])
    BY <1>2, <1>3, <1>4 DEF Moves, JobQueue!Phases, JobQueue!Pool!Further
  <2>2. JobQueue!Pool!Cardinality(JobQueue!Pool!Held(b)) <= Concurrency
    BY <1>1, <1>3, PoolCardinality DEF JIInv, SlotsOk
  <2>3. JobQueue!Stopped => \A r \in JobQueue!Runs : b[r] \notin {"waiting", "running"} \/ b[r]
          = a[r]
    BY <1>2, <1>3, <1>4 DEF Moves, JobQueue!Phases
  <2>4. JobQueue!Stopped' = JobQueue!Stopped
    BY <1>4 DEF Moves
  <2> QED
    BY <1>3, <2>1, <2>2, <2>3, <2>4 DEF JobQueue!Pool!Next, JobQueue!Pool!Advance, a, b, Seen
<1>5. CASE JobQueue!Stop
  <2> HIDE DEF a, b
  <2>1. /\ phase' = [r \in JobQueue!Runs |-> IF phase[r] = "queued" THEN "dropped" ELSE phase[r]]
        /\ JobQueue!Stopped'
    BY <1>5, StopKeeps
  <2>2. \A r \in JobQueue!Runs : b[r] = IF a[r] = "waiting" THEN "dropped" ELSE a[r]
    BY <1>2, <1>3, <2>1 DEF JobQueue!Phases
  <2>3. b = [r \in JobQueue!Runs |-> IF a[r] = "waiting" THEN "dropped" ELSE a[r]]
    BY <1>3, <2>2
  <2>4. JobQueue!Stopped' = TRUE
    BY <2>1 DEF JobQueue!Stopped
  <2> QED
    BY <2>3, <2>4 DEF JobQueue!Pool!Next, JobQueue!Pool!Close, a, b, Seen
<1> QED
  BY <1>1, <1>4, <1>5

LEMMA PoolInit == ASSUME JobQueue!Init PROVE JobQueue!Pool!Init
<1>1. JobQueue!Stopped = FALSE
  BY DEF JobQueue!Init, JobQueue!Stopped
<1>2. phase = [r \in JobQueue!Runs |-> "new"]
  BY DEF JobQueue!Init
<1> QED
  BY <1>1, <1>2 DEF JobQueue!Pool!Init

LEMMA PoolRefined == ASSUME JobQueue!QueueAssumption PROVE JobQueue!Spec => JobQueue!Pool!Spec
<1>1. JIInv /\ [JobQueue!Next]_(JobQueue!vars) => [JobQueue!Pool!Next]_(JobQueue!Pool!vars)
  BY PoolStep
<1> QED
  BY <1>1, PoolInit, QueueInvariance, PTL DEF JobQueue!Spec, JobQueue!Pool!Spec
LEMMA QueueMoves == Spec => JobQueue!Spec
<1>1. Init => JobQueue!Init
  BY DEF Init
<1>2. [Next]_vars => [JobQueue!Next]_(JobQueue!vars)
  BY DEF Next, vars, jobs, JobQueue!vars
<1> QED
  BY <1>1, <1>2, PTL DEF Spec, JobQueue!Spec

LEMMA QueueHolds == Spec => []JIInv
BY QueueMoves, QueueInvariance, LoopsAssumption, PTL

\* cancel() is final: whichever timer of the job was about to fire, no new run of
\* it is queued, for any number of jobs and runs.
THEOREM CancelFinalHolds == Spec => CancelFinal
<1>1. ASSUME JIInv, [JobQueue!Next]_(JobQueue!vars)
      PROVE  [\A j \in Jobs : cancelled[j] =>
                 \A n \in 1 .. MaxRuns :
                     phase[<<j, n>>] = "new" => phase'[<<j, n>>] = "new"]_(JobQueue!vars)
  BY <1>1, CancelStep, LoopsAssumption
<1> QED
  BY <1>1, QueueMoves, QueueHolds, PTL
  DEF CancelFinal, JobQueue!CancelFinal, JobQueue!Spec

\* drain() leaves no slot idle while a run waits: every path that frees a slot,
\* queues a run or passes over a cancelled one calls it.
THEOREM NoIdleSlotHolds == Spec => []NoIdleSlot
<1>1. JIInv => NoIdleSlot
  BY QueueFinite DEF JIInv, NoIdle, NoIdleSlot, JobQueue!NoIdleSlot
<1> QED
  BY <1>1, QueueHolds, PTL

\* The queue is a bounded pool that closes: with its timers, its retries, its
\* cancellations and its order it implements WorkPool, for any concurrency.
THEOREM PoolSpecHolds == Spec => PoolSpec
BY QueueMoves, PoolRefined, LoopsAssumption, PTL DEF PoolSpec, JobQueue!PoolSpec

\* The queue and the phases tell one story: each queued run is in the queue exactly
\* once, the runs of a job start in the order in which they were queued, and stop()
\* leaves nothing that could start one.
THEOREM QueueExactHolds == Spec => []QueueExact
<1>1. JIInv /\ InOrder(queue, phase) => QueueExact
  BY ExactFollows DEF QueueExact
<1> QED
  BY <1>1, QueueMoves, QueueHolds, OrderInvariance, LoopsAssumption, PTL

-------------------------------------------------------------------------------
LEMMA DevFinite == \A S : DevServer!Cardinality(S) = Cardinality(S)
BY DEF DevServer!Cardinality, Cardinality

\* As long as no build has started the server beside a crash timer: the child is
\* the only process there is, everyone who awaits an exit awaits that of the
\* child, a crash timer is armed only while there is no child, and shutdown() comes
\* behind restart() only if it raced with it.
DevTypes ==
    /\ proc \in [DevServer!Procs -> {"unborn", "running", "term", "kill", "dead"}]
    /\ child \in DevServer!Procs \cup {0} /\ crashTimers \in {0, 1}
    /\ waits \in Seq([who : {"restart", "shutdown"}, proc : DevServer!Procs])
OneChild ==
    /\ DevServer!Running \subseteq {child}
    /\ exited /\ ~raced => DevServer!Running = {}
    /\ exited \/ raced => stopping
    /\ crashTimers > 0 => child = 0
AwaitsChild ==
    \A i \in 1 .. Len(waits) :
        /\ waits[i].proc = child
        /\ waits[i].who = "restart" => build = "restarting"
        /\ waits[i].who = "shutdown" => stopping
        /\ waits[1].who = "restart" /\ waits[i].who = "shutdown" => raced

DevIInv == ~crossed => DevTypes /\ OneChild /\ AwaitsChild

-------------------------------------------------------------------------------
\* While the child runs nobody else does, and without a child nobody waits.
LEMMA NobodyElse ==
    ASSUME DevServer!DevAssumption, DevTypes, OneChild, AwaitsChild
    PROVE  /\ \A p \in DevServer!Running : p = child /\ child # 0 /\ crashTimers = 0
           /\ child = 0 => DevServer!Running = {} /\ Len(waits) = 0
           /\ 0 \notin DevServer!Procs
<1>1. 0 \notin DevServer!Procs
  BY DEF DevServer!Procs
<1>2. child = 0 => DevServer!Running = {}
  BY <1>1 DEF OneChild, DevServer!Running
<1>3. child = 0 => Len(waits) = 0
  <2>1. \A i \in 1 .. Len(waits) : waits[i].proc \in DevServer!Procs
    <3>1. \A i \in 1 .. Len(waits) : waits[i] \in [who : {"restart", "shutdown"}, proc :
            DevServer!Procs]
      BY ElementOfSeq DEF DevTypes
    <3> QED
      BY <3>1
  <2>2. child = 0 => 1 .. Len(waits) = {}
    BY <1>1, <2>1 DEF AwaitsChild
  <2>3. Len(waits) \in Nat
    BY DEF DevTypes
  <2> QED
    BY <2>2, <2>3
<1>4. \A p \in DevServer!Running : p = child /\ child # 0 /\ crashTimers = 0
  BY <1>1 DEF OneChild, DevTypes, DevServer!Running
<1> QED
  BY <1>1, <1>2, <1>3, <1>4

\* startChild() when nobody runs and no timer is armed.
LEMMA StartKeeps ==
    ASSUME DevServer!DevAssumption, NEW procs \in [DevServer!Procs -> {"unborn", "running", "term",
           "kill", "dead"}],
           {p \in DevServer!Procs : procs[p] \in {"running", "term", "kill"}} = {},
           NEW before, NEW quiet, DevServer!StartChild(procs, before, 0, quiet)
    PROVE  /\ proc' \in [DevServer!Procs -> {"unborn", "running", "term", "kill", "dead"}]
           /\ child' \in DevServer!Procs \cup {0} /\ crashTimers' \in {0, 1}
           /\ DevServer!Running' \subseteq {child'}
           /\ crashTimers' > 0 => child' = 0
<1>1. PICK p \in DevServer!Procs :
         \/ proc' = [procs EXCEPT ![p] = "running"] /\ child' = p /\ crashTimers' = 0
         \/ /\ proc' = [procs EXCEPT ![p] = "dead"] /\ child' = 0
            /\ crashTimers' = 0 \/ DevServer!Crashed(before, 0)
  BY DEF DevServer!StartChild
<1>2. DevServer!Crashed(before, 0) => crashTimers' \in {0, 1}
  BY DEF DevServer!Crashed
<1>3. crashTimers' \in {0, 1} /\ (crashTimers' > 0 => child' = 0)
  BY <1>1, <1>2
<1>4. \A q \in DevServer!Procs : procs[q] \notin {"running", "term", "kill"}
  OBVIOUS
<1>5. DevServer!Running' \subseteq {child'}
  BY <1>1, <1>4 DEF DevServer!Running
<1> QED
  BY <1>1, <1>3, <1>5

\* stopChild() leaves the child running, and its caller comes last.
LEMMA AwaitKeeps ==
    ASSUME DevServer!DevAssumption, DevTypes, NEW who \in {"restart", "shutdown"}, child # 0,
           DevServer!Await(who)
    PROVE  /\ proc' \in [DevServer!Procs -> {"unborn", "running", "term", "kill", "dead"}]
           /\ DevServer!Running' = DevServer!Running
           /\ waits' \in Seq([who : {"restart", "shutdown"}, proc : DevServer!Procs])
           /\ Len(waits') = Len(waits) + 1
           /\ \A i \in 1 .. Len(waits) : waits'[i] = waits[i]
           /\ waits'[Len(waits) + 1] = [who |-> who, proc |-> child]
           /\ \A i \in 1 .. Len(waits') : i \in 1 .. Len(waits) \/ i = Len(waits) + 1
           /\ Len(waits) \in Nat
<1>1. child \in DevServer!Procs /\ [who |-> who, proc |-> child] \in [who :
        {"restart", "shutdown"}, proc : DevServer!Procs]
  BY DEF DevTypes
<1>2. proc' = [proc EXCEPT ![child] = IF @ = "running" THEN "term" ELSE @]
  BY DEF DevServer!Await
<1>3. proc' \in [DevServer!Procs -> {"unborn", "running", "term", "kill", "dead"}]
      /\ DevServer!Running' = DevServer!Running
  BY <1>1, <1>2 DEF DevTypes, DevServer!Running
<1>4. waits' = Append(waits, [who |-> who, proc |-> child])
  BY DEF DevServer!Await
<1>5. Len(waits) \in Nat
  BY DEF DevTypes
<1>6. /\ waits' \in Seq([who : {"restart", "shutdown"}, proc : DevServer!Procs])
      /\ Len(waits') = Len(waits) + 1
      /\ \A i \in 1 .. Len(waits) : waits'[i] = waits[i]
      /\ waits'[Len(waits) + 1] = [who |-> who, proc |-> child]
  BY <1>1, <1>4, AppendProperties DEF DevTypes
<1> QED
  BY <1>3, <1>5, <1>6

LEMMA InitDevIInv == ASSUME DevServer!DevAssumption, DevServer!Init PROVE DevIInv
BY DEF DevServer!Init, DevIInv, DevTypes, OneChild, AwaitsChild, DevServer!Running

LEMMA BuildSucceedsKeeps ==
    ASSUME DevServer!DevAssumption, DevTypes, OneChild, AwaitsChild, DevServer!BuildSucceeds,
           ~crossed'
    PROVE  (DevTypes /\ OneChild /\ AwaitsChild)'
<1>1. UNCHANGED <<stopping, exited, raced>> /\ ~exited /\ build = "building"
  BY DEF DevServer!BuildSucceeds
<1>2. CASE child = 0
  <2>1. DevServer!StartChild(proc, 0, crashTimers, stopping) /\ UNCHANGED waits
        /\ ~(crashTimers > 0)
    BY <1>2 DEF DevServer!BuildSucceeds
  <2>2. crashTimers = 0 /\ DevServer!Running = {} /\ Len(waits) = 0
    BY <1>2, <2>1, NobodyElse DEF DevTypes
  <2>3. /\ proc' \in [DevServer!Procs -> {"unborn", "running", "term", "kill", "dead"}]
        /\ child' \in DevServer!Procs \cup {0} /\ crashTimers' \in {0, 1}
        /\ DevServer!Running' \subseteq {child'} /\ (crashTimers' > 0 => child' = 0)
    BY <2>1, <2>2, StartKeeps DEF DevTypes, DevServer!Running
  <2> QED
    BY <1>1, <2>1, <2>2, <2>3 DEF DevTypes, OneChild, AwaitsChild
<1>3. CASE child # 0
  <2>1. DevServer!Await("restart") /\ build' = "restarting" /\ UNCHANGED <<child, crashTimers>>
    BY <1>3 DEF DevServer!BuildSucceeds
  <2>2. /\ proc' \in [DevServer!Procs -> {"unborn", "running", "term", "kill", "dead"}]
        /\ DevServer!Running' = DevServer!Running
        /\ waits' \in Seq([who : {"restart", "shutdown"}, proc : DevServer!Procs])
        /\ Len(waits') = Len(waits) + 1
        /\ \A i \in 1 .. Len(waits) : waits'[i] = waits[i]
        /\ waits'[Len(waits) + 1] = [who |-> "restart", proc |-> child]
        /\ \A i \in 1 .. Len(waits') : i \in 1 .. Len(waits) \/ i = Len(waits) + 1
        /\ Len(waits) \in Nat
    BY <1>3, <2>1, AwaitKeeps
  <2>3. DevTypes' /\ OneChild'
    BY <1>1, <2>1, <2>2 DEF DevTypes, OneChild
  <2>4. AwaitsChild'
    <3> SUFFICES ASSUME NEW i \in 1 .. Len(waits')
                 PROVE  /\ waits'[i].proc = child
                        /\ waits'[i].who = "shutdown" => stopping
                        /\ waits'[1].who = "restart" /\ waits'[i].who = "shutdown" => raced
      BY <1>1, <2>1 DEF AwaitsChild
    <3>1. CASE i = Len(waits) + 1
      BY <2>2, <3>1
    <3>2. CASE i \in 1 .. Len(waits)
      <4>1. 1 \in 1 .. Len(waits)
        BY <2>2, <3>2
      <4> QED
        BY <2>2, <3>2, <4>1 DEF AwaitsChild
    <3> QED
      BY <2>2, <3>1, <3>2
  <2> QED
    BY <2>3, <2>4
<1> QED
  BY <1>2, <1>3

LEMMA ExitsAwaitedKeeps ==
    ASSUME DevServer!DevAssumption, DevTypes, OneChild, AwaitsChild, ~crossed',
           NEW p \in DevServer!Running,
           DevServer!ExitsAwaited(p)
    PROVE  (DevTypes /\ OneChild /\ AwaitsChild)'
<1>1. p = child /\ child # 0 /\ crashTimers = 0 /\ p \in DevServer!Procs
  BY NobodyElse DEF DevServer!Running
<1>2. DevServer!Woken(p) = 1 .. Len(waits) /\ DOMAIN waits = 1 .. Len(waits)
  BY <1>1 DEF DevServer!Woken, AwaitsChild, DevTypes
<1>3. waits' \in Seq([who : {"restart", "shutdown"}, proc : DevServer!Procs]) /\ Len(waits') = 0
  <2>1. waits' = DevServer!Only(waits, {})
    BY <1>2 DEF DevServer!ExitsAwaited, DevServer!Without
  <2>2. DevServer!Cardinality({}) = 0
    BY FS_EmptySet, DevFinite
  <2>3. waits' = [n \in 1 .. 0 |-> waits[CHOOSE i \in {} : DevServer!Rank({}, i) = n]]
    BY <2>1, <2>2 DEF DevServer!Only
  <2>4. \A n \in 1 .. 0 : FALSE
    OBVIOUS
  <2> QED
    BY <2>3, <2>4
<1>4. UNCHANGED <<stopping, raced>> /\ ~exited /\ DevServer!Woken(p) # {}
      /\ exited' = (\E i \in DevServer!Woken(p) : waits[i].who = "shutdown")
  BY DEF DevServer!ExitsAwaited
<1>5. exited' => stopping
  BY <1>2, <1>4 DEF AwaitsChild
<1>6. \A q \in DevServer!Procs : proc[q] \in {"running", "term", "kill"} => q = p
  BY <1>1 DEF OneChild, DevServer!Running
<1>7. CASE waits[DevServer!First(p)].who = "restart"
  <2> DEFINE procs == [proc EXCEPT ![p] = "dead"]
  <2>1. DevServer!StartChild(procs, 0, 0, stopping)
    BY <1>1, <1>7 DEF DevServer!ExitsAwaited
  <2>2. /\ procs \in [DevServer!Procs -> {"unborn", "running", "term", "kill", "dead"}]
        /\ {q \in DevServer!Procs : procs[q] \in {"running", "term", "kill"}} = {}
    BY <1>1, <1>6 DEF DevTypes
  <2> HIDE DEF procs
  <2>3. /\ proc' \in [DevServer!Procs -> {"unborn", "running", "term", "kill", "dead"}]
        /\ child' \in DevServer!Procs \cup {0} /\ crashTimers' \in {0, 1}
        /\ DevServer!Running' \subseteq {child'} /\ (crashTimers' > 0 => child' = 0)
    BY <2>1, <2>2, StartKeeps
  <2>4. DevServer!First(p) = 1
    <3> DEFINE least == CHOOSE i \in 1 .. Len(waits) : \A j \in 1 .. Len(waits) : i <= j
    <3>1. DevServer!First(p) = least
      BY <1>2 DEF DevServer!First
    <3>2. Len(waits) \in Nat /\ 1 .. Len(waits) # {}
      BY <1>2, <1>4 DEF DevTypes
    <3>3. 1 \in 1 .. Len(waits) /\ \A j \in 1 .. Len(waits) : 1 <= j
      BY <3>2
    <3>4. least \in 1 .. Len(waits) /\ \A j \in 1 .. Len(waits) : least <= j
      BY <3>3
    <3> HIDE DEF least
    <3> QED
      BY <3>1, <3>3, <3>4
  <2>5. exited' => raced
    BY <1>2, <1>4, <1>7, <2>4 DEF AwaitsChild
  <2> QED
    BY <1>3, <1>4, <1>5, <2>3, <2>5 DEF DevTypes, OneChild, AwaitsChild
<1>8. CASE waits[DevServer!First(p)].who # "restart"
  <2>1. proc' = [proc EXCEPT ![p] = "dead"] /\ child' = 0 /\ crashTimers' = crashTimers
    BY <1>8 DEF DevServer!ExitsAwaited
  <2>2. DevServer!Running' = {}
        /\ proc' \in [DevServer!Procs -> {"unborn", "running", "term", "kill", "dead"}]
    BY <1>1, <1>6, <2>1 DEF DevServer!Running, DevTypes
  <2> QED
    BY <1>3, <1>4, <1>5, <2>1, <2>2 DEF DevTypes, OneChild, AwaitsChild
<1> QED
  BY <1>7, <1>8

LEMMA ExitsUnawaitedKeeps ==
    ASSUME DevServer!DevAssumption, DevTypes, OneChild, AwaitsChild, ~crossed',
           NEW p \in DevServer!Running,
           DevServer!ExitsUnawaited(p)
    PROVE  (DevTypes /\ OneChild /\ AwaitsChild)'
<1>1. p = child /\ child # 0 /\ crashTimers = 0 /\ p \in DevServer!Procs
  BY NobodyElse DEF DevServer!Running
<1>2. 1 .. Len(waits) = {}
  BY <1>1 DEF DevServer!ExitsUnawaited, DevServer!Woken, AwaitsChild
<1>3. /\ UNCHANGED <<waits, build, stopping, exited, raced>> /\ ~exited
      /\ proc' = [proc EXCEPT ![p] = "dead"] /\ child' = 0
  BY <1>1 DEF DevServer!ExitsUnawaited, DevServer!loop
<1>4. crashTimers' \in {0, 1}
  BY <1>1 DEF DevServer!ExitsUnawaited, DevServer!Crashed
<1>5. \A q \in DevServer!Procs : proc[q] \in {"running", "term", "kill"} => q = p
  BY <1>1 DEF OneChild, DevServer!Running
<1>6. DevServer!Running' = {}
      /\ proc' \in [DevServer!Procs -> {"unborn", "running", "term", "kill", "dead"}]
  BY <1>1, <1>3, <1>5 DEF DevServer!Running, DevTypes
<1> QED
  BY <1>2, <1>3, <1>4, <1>6 DEF DevTypes, OneChild, AwaitsChild

LEMMA CrashTimerKeeps ==
    ASSUME DevServer!DevAssumption, DevTypes, OneChild, AwaitsChild, ~crossed',
           DevServer!CrashTimerFires
    PROVE  (DevTypes /\ OneChild /\ AwaitsChild)'
<1>1. crashTimers = 1 /\ child = 0
  BY DEF DevServer!CrashTimerFires, DevTypes, OneChild
<1>2. DevServer!Running = {} /\ Len(waits) = 0
      /\ UNCHANGED <<waits, build, stopping, exited, raced>>
  BY <1>1, NobodyElse DEF DevServer!CrashTimerFires, DevServer!loop
<1>3. CASE stopping
  <2>1. UNCHANGED <<proc, child>> /\ crashTimers' = 0
    BY <1>1, <1>3 DEF DevServer!CrashTimerFires
  <2> QED
    BY <1>2, <2>1 DEF DevTypes, OneChild, AwaitsChild, DevServer!Running
<1>4. CASE ~stopping
  <2>1. DevServer!StartChild(proc, attempts, 0, stoppingChild) /\ ~exited
    BY <1>1, <1>4 DEF DevServer!CrashTimerFires
  <2>2. /\ proc' \in [DevServer!Procs -> {"unborn", "running", "term", "kill", "dead"}]
        /\ child' \in DevServer!Procs \cup {0} /\ crashTimers' \in {0, 1}
        /\ DevServer!Running' \subseteq {child'} /\ (crashTimers' > 0 => child' = 0)
    BY <1>2, <2>1, StartKeeps DEF DevTypes, DevServer!Running
  <2> QED
    BY <1>2, <2>1, <2>2 DEF DevTypes, OneChild, AwaitsChild
<1> QED
  BY <1>3, <1>4

LEMMA ShutdownKeeps ==
    ASSUME DevServer!DevAssumption, DevTypes, OneChild, AwaitsChild, ~crossed', DevServer!Shutdown
    PROVE  (DevTypes /\ OneChild /\ AwaitsChild)'
<1>1. /\ stopping' /\ ~exited /\ UNCHANGED <<build, child>>
      /\ crashTimers' \in {0, 1} /\ (crashTimers' > 0 => child = 0)
      /\ raced' = (build = "restarting")
  BY DEF DevServer!Shutdown, OneChild, DevTypes
<1>2. CASE child = 0
  <2>1. DevServer!Running = {} /\ Len(waits) = 0 /\ UNCHANGED <<proc, waits>>
    BY <1>2, NobodyElse DEF DevServer!Shutdown
  <2> QED
    BY <1>1, <2>1 DEF DevTypes, OneChild, AwaitsChild, DevServer!Running
<1>3. CASE child # 0
  <2>1. DevServer!Await("shutdown") /\ exited' = exited
    BY <1>3 DEF DevServer!Shutdown
  <2>2. /\ proc' \in [DevServer!Procs -> {"unborn", "running", "term", "kill", "dead"}]
        /\ DevServer!Running' = DevServer!Running
        /\ waits' \in Seq([who : {"restart", "shutdown"}, proc : DevServer!Procs])
        /\ Len(waits') = Len(waits) + 1
        /\ \A i \in 1 .. Len(waits) : waits'[i] = waits[i]
        /\ waits'[Len(waits) + 1] = [who |-> "shutdown", proc |-> child]
        /\ \A i \in 1 .. Len(waits') : i \in 1 .. Len(waits) \/ i = Len(waits) + 1
        /\ Len(waits) \in Nat
    BY <1>3, <2>1, AwaitKeeps
  <2>3. DevTypes' /\ OneChild'
    BY <1>1, <2>1, <2>2 DEF DevTypes, OneChild
  <2>4. AwaitsChild'
    <3>1. waits'[1].who = "restart" => build = "restarting"
      <4>1. CASE Len(waits) = 0
        BY <2>2, <4>1
      <4>2. CASE Len(waits) # 0
        <5>1. 1 \in 1 .. Len(waits)
          BY <2>2, <4>2
        <5> QED
          BY <2>2, <5>1 DEF AwaitsChild
      <4> QED
        BY <4>1, <4>2
    <3>2. \A i \in 1 .. Len(waits') : /\ waits'[i].proc = child
                                      /\ waits'[i].who = "restart" => build = "restarting"
      BY <2>2 DEF AwaitsChild
    <3> QED
      BY <1>1, <3>1, <3>2 DEF AwaitsChild
  <2> QED
    BY <2>3, <2>4
<1> QED
  BY <1>2, <1>3

\* The other steps leave the processes and their timers alone.
LEMMA DevOthersKeep ==
    ASSUME DevServer!DevAssumption, DevTypes, OneChild, AwaitsChild, ~crossed',
           \/ DevServer!FirstBuild \/ DevServer!Change \/ DevServer!DebounceFires
           \/ DevServer!BuildLeavesServer \/ DevServer!BuildEnds
           \/ DevServer!Healthy \/ UNCHANGED DevServer!vars
           \/ \E p \in DevServer!Procs : DevServer!ForceKill(p)
    PROVE  (DevTypes /\ OneChild /\ AwaitsChild)'
<1>1. /\ UNCHANGED <<child, waits, crashTimers, stopping, exited, raced>>
      /\ build = "restarting" => build' = "restarting"
  BY DEF DevServer!FirstBuild, DevServer!Change, DevServer!DebounceFires,
         DevServer!BuildLeavesServer, DevServer!BuildEnds, DevServer!Healthy, DevServer!ForceKill,
         DevServer!vars,
         DevServer!BuildOnce, DevServer!server, DevServer!loop
<1>2. DevServer!Running' = DevServer!Running
      /\ proc' \in [DevServer!Procs -> {"unborn", "running", "term", "kill", "dead"}]
  <2>1. CASE UNCHANGED proc
    BY <2>1 DEF DevTypes, DevServer!Running
  <2>2. CASE \E p \in DevServer!Procs : DevServer!ForceKill(p)
    <3>1. PICK p \in DevServer!Procs : proc[p] = "term" /\ proc' = [proc EXCEPT ![p] = "kill"]
      BY <2>2 DEF DevServer!ForceKill
    <3> QED
      BY <3>1 DEF DevTypes, DevServer!Running
  <2> QED
    BY <2>1, <2>2
    DEF DevServer!FirstBuild, DevServer!Change, DevServer!DebounceFires,
        DevServer!BuildLeavesServer, DevServer!BuildEnds, DevServer!Healthy, DevServer!vars,
        DevServer!server
<1> QED
  BY <1>1, <1>2 DEF DevTypes, OneChild, AwaitsChild

\* What has been crossed stays crossed.
LEMMA CrossedStays == ASSUME DevServer!Next, crossed PROVE crossed'
BY DEF DevServer!Next, DevServer!FirstBuild, DevServer!Change, DevServer!DebounceFires,
       DevServer!BuildSucceeds, DevServer!BuildLeavesServer, DevServer!BuildEnds, DevServer!Exit,
       DevServer!ExitsAwaited, DevServer!ExitsUnawaited, DevServer!ForceKill,
       DevServer!CrashTimerFires, DevServer!Healthy, DevServer!Shutdown

LEMMA DevStep == ASSUME DevServer!DevAssumption, DevIInv,
                        [DevServer!Next]_(DevServer!vars) PROVE DevIInv'
<1>1. CASE UNCHANGED DevServer!vars
  <2>1. crossed' = crossed
    BY <1>1 DEF DevServer!vars
  <2> QED
    BY <1>1, <2>1, DevOthersKeep DEF DevIInv
<1>2. CASE DevServer!Next
  <2> SUFFICES ASSUME ~crossed'
               PROVE  (DevTypes /\ OneChild /\ AwaitsChild)'
    BY DEF DevIInv
  <2>1. ~crossed /\ DevTypes /\ OneChild /\ AwaitsChild
    BY <1>2, CrossedStays DEF DevIInv
  <2>2. CASE \/ DevServer!FirstBuild \/ DevServer!Change \/ DevServer!DebounceFires
             \/ DevServer!BuildLeavesServer \/ DevServer!BuildEnds \/ DevServer!Healthy
    BY <2>1, <2>2, DevOthersKeep
  <2>3. CASE DevServer!BuildSucceeds
    BY <2>1, <2>3, BuildSucceedsKeeps
  <2>4. ASSUME NEW p \in DevServer!Procs, DevServer!Exit(p) \/ DevServer!ForceKill(p)
        PROVE  (DevTypes /\ OneChild /\ AwaitsChild)'
    BY <2>1, <2>4, ExitsAwaitedKeeps, ExitsUnawaitedKeeps, DevOthersKeep DEF DevServer!Exit
  <2>5. CASE DevServer!CrashTimerFires
    BY <2>1, <2>5, CrashTimerKeeps
  <2>6. CASE DevServer!Shutdown
    BY <2>1, <2>6, ShutdownKeeps
  <2> QED
    BY <1>2, <2>2, <2>3, <2>4, <2>5, <2>6 DEF DevServer!Next
<1> QED
  BY <1>1, <1>2

LEMMA DevInvariance == ASSUME DevServer!DevAssumption PROVE DevServer!Spec => []DevIInv
<1>1. DevServer!Init => DevIInv
  BY InitDevIInv
<1>2. DevIInv /\ [DevServer!Next]_(DevServer!vars) => DevIInv'
  BY DevStep
<1> QED
  BY <1>1, <1>2, PTL DEF DevServer!Spec
LEMMA DevMoves == Spec => DevServer!Spec
<1>1. Init => DevServer!Init
  BY DEF Init
<1>2. [Next]_vars => [DevServer!Next]_(DevServer!vars)
  BY DEF Next, vars, dev, DevServer!vars, DevServer!loop, DevServer!server, DevServer!bounds
<1> QED
  BY <1>1, <1>2, PTL DEF Spec, DevServer!Spec

\* The dev loop never runs two servers, and leaves none behind when it exits, for
\* any number of changes, crashes and restarts, unless a build started the server
\* beside a crash timer or a signal came while restart() awaited an exit.
THEOREM OneServerHolds == Spec => []OneServer
<1>1. DevIInv => OneServer
  BY DEF DevIInv, OneChild, OneServer, DevServer!OneServer
<1> QED
  BY <1>1, DevMoves, DevInvariance, LoopsAssumption, PTL

-------------------------------------------------------------------------------
\* A chunk is asked for only while none waits for a consumer that is still there, and
\* the loop of a client that has gone adds none.
Backlog ==
    /\ queued \in {0, 1} /\ stopped \in BOOLEAN /\ aborted \in BOOLEAN
    /\ generator = "running" => pump \in {"pulling", "over"}
    /\ pump = "pulling" /\ ~stopped /\ ~aborted => queued = 0
    /\ stream = "cancelled" => stopped /\ queued = 0

LEMMA BacklogStep == ASSUME Backlog, [ServerSentEvents!Next]_(ServerSentEvents!vars) PROVE Backlog'
<1>1. CASE ServerSentEvents!Pull
  BY <1>1 DEF ServerSentEvents!Pull, Backlog, ServerSentEvents!Finish
<1>2. CASE ServerSentEvents!Yields
  <2>1. generator = "running" /\ pump \in {"pulling", "over"} /\ aborted' = aborted
    BY <1>2 DEF ServerSentEvents!Yields, Backlog
  <2>2. CASE pump = "over"
    BY <1>2, <2>1, <2>2 DEF ServerSentEvents!Yields, Backlog
  <2>3. CASE pump # "over" /\ (stopped \/ aborted)
    BY <1>2, <2>1, <2>3 DEF ServerSentEvents!Yields, Backlog, ServerSentEvents!Finish
  <2>4. CASE pump # "over" /\ ~stopped /\ ~aborted
    <3>1. /\ queued = 0 /\ queued' \in {queued, queued + 1} /\ generator' = "suspended"
          /\ pump' = IF queued' = 0 THEN "pulling" ELSE "draining"
          /\ UNCHANGED <<stream, stopped>>
      BY <1>2, <2>1, <2>4 DEF ServerSentEvents!Yields, Backlog
    <3>2. queued' \in {0, 1}
      BY <3>1
    <3>3. pump' \in {"pulling", "draining"} /\ (pump' = "pulling" => queued' = 0)
      BY <3>1
    <3>4. stream' # "cancelled"
      BY <2>4, <3>1 DEF Backlog
    <3> QED
      BY <2>1, <3>1, <3>2, <3>3, <3>4 DEF Backlog
  <2> QED
    BY <2>2, <2>3, <2>4
<1>3. CASE ServerSentEvents!Ends
  BY <1>3 DEF ServerSentEvents!Ends, Backlog, ServerSentEvents!Finish
<1>4. CASE ServerSentEvents!Drained
  BY <1>4 DEF ServerSentEvents!Drained, Backlog
<1>5. CASE ServerSentEvents!GraceOver
  BY <1>5 DEF ServerSentEvents!GraceOver, Backlog, ServerSentEvents!Finish
<1>6. CASE ServerSentEvents!Reads
  BY <1>6 DEF ServerSentEvents!Reads, Backlog
<1>7. CASE ServerSentEvents!Cancel
  BY <1>7 DEF ServerSentEvents!Cancel, Backlog, ServerSentEvents!StopFrom, ServerSentEvents!Return
<1>8. CASE ServerSentEvents!Abort
  BY <1>8 DEF ServerSentEvents!Abort, Backlog, ServerSentEvents!StopFrom, ServerSentEvents!Return
<1>9. CASE UNCHANGED ServerSentEvents!vars
  BY <1>9 DEF ServerSentEvents!vars, Backlog
<1> QED
  BY <1>1, <1>2, <1>3, <1>4, <1>5, <1>6, <1>7, <1>8, <1>9 DEF ServerSentEvents!Next

LEMMA BacklogInvariance == ServerSentEvents!Spec => []Backlog
<1>1. ServerSentEvents!Init => Backlog
  BY DEF ServerSentEvents!Init, Backlog
<1> QED
  BY <1>1, BacklogStep, PTL DEF ServerSentEvents!Spec
LEMMA StreamMoves == Spec => ServerSentEvents!Spec
<1>1. Init => ServerSentEvents!Init
  BY DEF Init
<1>2. [Next]_vars => [ServerSentEvents!Next]_(ServerSentEvents!vars)
  BY DEF Next, vars, sse, ServerSentEvents!vars
<1> QED
  BY <1>1, <1>2, PTL DEF Spec, ServerSentEvents!Spec

\* However slowly the client reads, at most one chunk waits for it in the stream, and
\* none for a client that has gone.
THEOREM BacklogBoundedHolds == Spec => []BacklogBounded
<1>1. Backlog => BacklogBounded
  BY DEF Backlog, BacklogBounded, ServerSentEvents!BacklogBounded
<1> QED
  BY <1>1, StreamMoves, BacklogInvariance, PTL

===============================================================================
