------------------------------- MODULE WorkPool -------------------------------
(***************************************************************************)
(* What the in-process queue of packages/core/src/platform/jobs.ts          *)
(* promises, without its timers, its retries and the order of its queue: a  *)
(* run waits, starts at most once, holds one of Slots slots until it ends,  *)
(* may be dropped only while it waits, and never starts once the pool is    *)
(* closed.                                                                  *)
(***************************************************************************)
EXTENDS FiniteSets, Naturals

CONSTANTS Runs,   \* one element per execution the queue can be asked for
          Slots   \* concurrency

VARIABLES phase,  \* phase[r]: where run r is
          closed  \* stop() has been called

vars == <<phase, closed>>

Phases == {"new", "waiting", "running", "ended", "dropped"}
Held(ph) == {r \in Runs : ph[r] = "running"}

Init == /\ phase = [r \in Runs |-> "new"]
        /\ closed = FALSE

\* One step of the queue may take any number of runs one phase further: a run
\* ends and the ones it made room for start.
Further(from, to) ==
    \/ from = "new"     /\ to \in {"waiting", "running"}
    \/ from = "waiting" /\ to \in {"running", "dropped"}
    \/ from = "running" /\ to = "ended"

Advance == /\ \A r \in Runs : phase'[r] # phase[r] => Further(phase[r], phase'[r])
           /\ phase' \in [Runs -> Phases]
           /\ Cardinality(Held(phase')) <= Slots
           /\ closed => \A r \in Runs : phase'[r] \notin {"waiting", "running"} \/ phase'[r] = phase[r]
           /\ UNCHANGED closed

\* Closing drops what waits and starts nothing.
Close == /\ closed' = TRUE
         /\ phase' = [r \in Runs |-> IF phase[r] = "waiting" THEN "dropped" ELSE phase[r]]

Next == Advance \/ Close

Spec == Init /\ [][Next]_vars
===============================================================================
