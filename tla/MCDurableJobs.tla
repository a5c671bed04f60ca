--------------------------- MODULE MCDurableJobs ---------------------------
(* Small instances of DurableJobs for TLC. *)
EXTENDS DurableJobs, TLC

Symmetry == Permutations(Workers)

OneShot == [recurring |-> FALSE, handled |-> TRUE, maxAttempts |-> 1]
Retried == [OneShot EXCEPT !.maxAttempts = 2]
Unhandled == [OneShot EXCEPT !.handled = FALSE]
Recurring == [OneShot EXCEPT !.recurring = TRUE]

RetriedOnly == {Retried}
RecurringOnly == {Recurring}
AllKinds == {OneShot, Unhandled, Recurring}
TwoKinds == {Retried, Unhandled}
=============================================================================
