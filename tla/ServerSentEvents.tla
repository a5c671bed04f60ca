---------------------------- MODULE ServerSentEvents ----------------------------
(***************************************************************************)
(* sse() of packages/core/src/http/sse.ts: the loop that pulls chunks from  *)
(* an async generator into a response stream, waits while the consumer is   *)
(* behind, and closes the generator when the client disconnects, the signal *)
(* aborts or the backlog persists.                                          *)
(*                                                                          *)
(* External: the generator, which runs its body between two yields, ends or *)
(* throws when it likes, or waits for ever; the stream, with room for one chunk; the        *)
(* consumer.                                                                *)
(***************************************************************************)
EXTENDS Naturals

VARIABLES generator,  \* "fresh", "running" its body, "suspended" at a yield, "done"
          returning,  \* return() was called while the body ran
          pump,       \* the for-await loop: "pulling", "draining" or "over"
          stream,     \* "open", "cancelled" by the consumer or "closed" by the loop
          queued,     \* the chunks in the stream that the consumer has not read
          stopped,
          aborted,    \* signal.aborted
          listening   \* the loop listens to the signal

vars == <<generator, returning, pump, stream, queued, stopped, aborted, listening>>

-------------------------------------------------------------------------------
\* generator.return(): at a yield, or before its first step, the generator closes;
\* while its body runs the call waits for the next yield.
Return(from) ==
    IF from = "running"
    THEN generator' = from /\ returning' = TRUE
    ELSE generator' = "done" /\ UNCHANGED returning

\* stop() closes the generator once.
StopFrom(from) ==
    IF stopped THEN generator' = from /\ UNCHANGED <<returning, stopped>>
               ELSE Return(from) /\ stopped' = TRUE

\* Mutant: the loop leaves the generator where it is.
FinishLeaves(from) ==
    /\ generator' = from
    /\ stopped' = TRUE
    /\ listening' = FALSE
    /\ pump' = "over"
    /\ stream' = IF stream = "open" THEN "closed" ELSE stream
    /\ UNCHANGED returning
\* Whichever way the loop ends: its own return() on break, then finally.
Finish(from) ==
    /\ generator' = IF from = "running" THEN from ELSE "done"
    /\ returning' = (returning \/ from = "running")
    /\ stopped' = TRUE
    /\ listening' = FALSE
    /\ pump' = "over"
    /\ stream' = IF stream = "open" THEN "closed" ELSE stream

\* start(): with a signal that has aborted already, stop() comes first.
Init ==
    /\ aborted \in BOOLEAN
    /\ stopped = aborted
    /\ generator = IF aborted THEN "done" ELSE "fresh"
    /\ returning = FALSE
    /\ listening = ~aborted
    /\ pump = "pulling"
    /\ stream = "open" /\ queued = 0

\* The loop asks for the next chunk.
Pull ==
    /\ pump = "pulling" /\ generator \in {"fresh", "suspended", "done"}
    /\ IF generator = "done"
       THEN Finish("done") /\ UNCHANGED <<queued, aborted>>
       ELSE /\ generator' = "running"
            /\ UNCHANGED <<returning, pump, stream, queued, stopped, aborted, listening>>

\* The generator yields a chunk: it is dropped if the loop must end, else it goes
\* to a consumer that waits for it or into the queue.
Yields ==
    /\ generator = "running"
    /\ UNCHANGED aborted
    /\ IF pump = "over"
       THEN /\ generator' = "done"  \* the return() that has waited
            /\ UNCHANGED <<returning, pump, stream, queued, stopped, listening>>
       ELSE IF stopped \/ aborted THEN Finish("suspended") /\ UNCHANGED queued
       ELSE /\ generator' = "suspended"
            /\ queued' \in {queued, queued + 1}
            /\ pump' = IF queued' = 0 THEN "pulling" ELSE "draining"
            /\ UNCHANGED <<returning, stream, stopped, listening>>

\* Its body ends or throws; the loop sees it with its next step.
Ends ==
    /\ generator = "running"
    /\ IF pump = "over" THEN /\ generator' = "done"
                             /\ UNCHANGED <<returning, pump, stream, stopped, listening>>
                        ELSE Finish("done")
    /\ UNCHANGED <<queued, aborted>>

\* waitDrained() looks again: the consumer has caught up, or somebody has stopped.
Drained ==
    /\ pump = "draining" /\ (stopped \/ aborted \/ queued = 0)
    /\ pump' = "pulling"
    /\ UNCHANGED <<generator, returning, stream, queued, stopped, aborted, listening>>

\* The grace is over and the backlog persists.
GraceOver ==
    /\ pump = "draining" /\ ~stopped /\ ~aborted /\ queued > 0
    /\ Finish(generator)
    /\ UNCHANGED <<queued, aborted>>

-------------------------------------------------------------------------------
Reads ==
    /\ queued > 0
    /\ queued' = queued - 1
    /\ UNCHANGED <<generator, returning, pump, stream, stopped, aborted, listening>>

\* cancel(): the client has disconnected.
Cancel ==
    /\ stream = "open"
    /\ stream' = "cancelled"
    /\ queued' = 0
    /\ StopFrom(generator)
    /\ UNCHANGED <<pump, aborted, listening>>

Abort ==
    /\ ~aborted
    /\ aborted' = TRUE
    /\ IF listening THEN StopFrom(generator) ELSE UNCHANGED <<generator, returning, stopped>>
    /\ UNCHANGED <<pump, stream, queued, listening>>

Next == Pull \/ Yields \/ Ends \/ Drained \/ GraceOver \/ Reads \/ Cancel \/ Abort

Spec == Init /\ [][Next]_vars

\* The event loop turns.  Nothing says that the body of the generator ever goes on: one
\* that waits for an event which never comes neither yields nor ends.
FairSpec ==
    /\ Spec
    /\ WF_vars(Pull) /\ WF_vars(Drained \/ GraceOver)

-------------------------------------------------------------------------------
\* The generator is closed, the loop is over and so is the stream.
Torn == generator = "done" /\ pump = "over" /\ stream # "open"

\* When the client disconnects, the signal aborts or the consumer stalls, everything is
\* torn down, unless the body of the generator never again reaches a yield or its end;
\* the body is not entered again; and with a client or without one, no generator stays
\* suspended at a yield for good.
Released ==
    /\ (stopped \/ aborted) ~> (Torn \/ [](generator = "running"))
    /\ [][stopped /\ generator # "running" => generator' # "running"]_vars
    /\ (generator = "suspended") ~> (generator # "suspended")

\* "The generator is torn down when the client disconnects (stream `cancel`) or when the
\* caller-supplied `signal` aborts, so generators that own timers, polling loops or
\* long-lived connections can release them" (sse.ts:31): not one whose body waits, for
\* return() is queued behind the step that runs.
TornDown == (stopped \/ aborted) ~> Torn

\* A consumer that reads slowly never has more than the one chunk waiting, and
\* nothing is added for a client that has gone.
BacklogBounded == queued <= 1 /\ (stream = "cancelled" => queued = 0)
===============================================================================
