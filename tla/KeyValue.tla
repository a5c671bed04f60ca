------------------------------- MODULE KeyValue -------------------------------
(***************************************************************************)
(* What a Store of packages/core/src/data/store/types.ts promises: a key    *)
(* has the value it was last given until that value is gone, by deletion,   *)
(* in time, or to make room; only a call of set() gives it one; and a store *)
(* that is opened again has what it had when it was last saved.             *)
(***************************************************************************)
CONSTANTS Keys, Values, Gone

VARIABLES value,  \* value[k]: what get(k) would answer
          saved,  \* saved[k]: what it would answer after a crash
          open,
          call    \* the call of set() just made, or Gone

vars == <<value, saved, open, call>>

Fades(from, to) == \A k \in Keys : to[k] \in {from[k], Gone}

\* Any step may save, and what is saved fades too.
Saves ==
    /\ saved' \in [Keys -> Values \cup {Gone}]
    /\ saved' = value' \/ Fades(saved, saved')

Init == /\ value = [k \in Keys |-> Gone]
        /\ saved = value
        /\ open = TRUE
        /\ call = Gone

\* set(k, v) makes room by dropping any others.
Set(k, v) ==
    /\ open
    /\ call' = <<k, v>>
    /\ value' \in [Keys -> Values \cup {Gone}]
    /\ value'[k] = v
    /\ \A j \in Keys \ {k} : value'[j] \in {value[j], Gone}
    /\ Saves
    /\ UNCHANGED open

Lose ==
    /\ call' = Gone
    /\ value' \in [Keys -> Values \cup {Gone}]
    /\ Fades(value, value')
    /\ Saves
    /\ UNCHANGED open

Crash ==
    /\ open
    /\ open' = FALSE
    /\ call' = Gone
    /\ value' = [k \in Keys |-> Gone]
    /\ UNCHANGED saved

Reopen ==
    /\ ~open
    /\ open' = TRUE
    /\ call' = Gone
    /\ value' \in [Keys -> Values \cup {Gone}]
    /\ Fades(saved, value')
    /\ UNCHANGED saved

Next == (\E k \in Keys, v \in Values : Set(k, v)) \/ Lose \/ Crash \/ Reopen

Spec == Init /\ [][Next]_vars
===============================================================================
