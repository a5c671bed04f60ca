------------------------------- MODULE MCLoops -------------------------------
(* A small instance of the three loops for TLC. *)
EXTENDS Loops

CONSTANTS j1, j2

TwoJobs == {j1, j2}
\* One run of a repeating job may hang; a slot is left for the others.
OneStuck == {<<j2, 1>>}
==============================================================================
