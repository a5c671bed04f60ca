---------------------------- MODULE JobLifecycle ----------------------------
(***************************************************************************)
(* What the durable queue promises about one job, whatever workers, leases *)
(* and crashes do: a job is queued, runs, its worker reports how the run    *)
(* ended, and it is completed or failed for good; it goes back to the queue *)
(* when its lease expires or when it fails with attempts left.  No job is   *)
(* forgotten while it is queued or runs: it has finished, or its report     *)
(* finishes it and retention drops the record in the same write.            *)
(* Several jobs may move in one step (a claim, a release, a pruning).       *)
(***************************************************************************)
EXTENDS Integers

CONSTANT Ids

VARIABLES status,  \* where each job is in its life
          left     \* how many attempts it may still spend

vars == <<status, left>>

Phases == {"absent", "queued", "running", "reported", "completed", "failed", "forgotten"}

Init == /\ status = [j \in Ids |-> "absent"]
        /\ left = [j \in Ids |-> 0]

Goes(j, from, to) == status[j] = from /\ status'[j] = to
Spends(j, n) == left'[j] = left[j] - n

Submit(j)   == Goes(j, "absent", "queued") /\ left'[j] > 0
Take(j)     == Goes(j, "queued", "running") /\ Spends(j, 0)
Report(j)   == Goes(j, "running", "reported") /\ Spends(j, 0)
\* The worker dies with its report, or the store takes none.
Lose(j)     == Goes(j, "reported", "running") /\ Spends(j, 0)
Recover(j)  == /\ status[j] \in {"running", "reported"}
               /\ status'[j] = "queued"
               /\ Spends(j, 0)
Retry(j)    == Goes(j, "reported", "queued") /\ Spends(j, 1) /\ left'[j] > 0
Complete(j) == Goes(j, "reported", "completed") /\ Spends(j, 0)
GiveUp(j)   == Goes(j, "reported", "failed") /\ Spends(j, 1) /\ left'[j] >= 0
Forget(j)   == /\ status[j] \in {"reported", "completed", "failed"}
               /\ status'[j] = "forgotten"
               /\ left'[j] = 0
Stays(j)    == status'[j] = status[j] /\ left'[j] = left[j]

Move(j) == \/ Submit(j) \/ Take(j) \/ Report(j) \/ Lose(j) \/ Recover(j) \/ Retry(j)
           \/ Complete(j) \/ GiveUp(j) \/ Forget(j) \/ Stays(j)

Next == /\ status' \in [Ids -> Phases]
        /\ left' \in [Ids -> Int]
        /\ \A j \in Ids : Move(j)

Spec == Init /\ [][Next]_vars
=============================================================================
