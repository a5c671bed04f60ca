----------------------------- MODULE MCWSHandler -----------------------------
(* Small instances of WSHandler: which of the sockets or dispatches is     *)
(* which makes no difference to any property.                              *)
EXTENDS WSHandler, TLC

Symmetric == Permutations(Sockets) \cup Permutations(Messages)
=============================================================================
