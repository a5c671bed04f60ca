----------------------------- MODULE Subsequence -----------------------------
(* Some of the elements of a sequence, in their order. *)
EXTENDS FiniteSets, Naturals, Sequences

\* How many elements K has up to i.
Rank(K, i) == Cardinality({j \in K : j <= i})

\* The elements of s at the places in K.
Only(s, K) == [n \in 1 .. Cardinality(K) |-> s[CHOOSE i \in K : Rank(K, i) = n]]

\* The others.
Without(s, K) == Only(s, DOMAIN s \ K)
===============================================================================
