---------------------------- MODULE MCDataLayer ----------------------------
(* Small instances of the components of the data layer for TLC. *)
EXTENDS DataLayer, TLC

Symmetry == Permutations(Clients) \cup Permutations(Pair) \cup Permutations(Items) \cup Permutations(Values)

Open(algorithm, where) == [algorithm |-> algorithm, store |-> where, onStoreError |-> "open"]
OneProcess == {Open(a, "local") : a \in {"fixed-window", "sliding-window", "token-bucket"}}
Atomic == {[Open("fixed-window", "atomic") EXCEPT !.onStoreError = e] : e \in {"open", "closed"}}
BothStores == OneProcess \cup Atomic
=============================================================================
