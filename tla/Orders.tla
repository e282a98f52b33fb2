------------------------------- MODULE Orders -------------------------------
(***************************************************************************)
(* Python's sorted() over the places of a sequence, or over a set of       *)
(* numbers: key has the key of each, and equal keys keep their order.      *)
(***************************************************************************)
EXTENDS Integers, FiniteSets

Before(key, i, j) == key[i] < key[j] \/ (key[i] = key[j] /\ i < j)

\* Each element is at the place that the number of those before it gives.
SortedBy(key, S) ==
  [k \in 1..Cardinality(S) |->
     CHOOSE x \in S : Cardinality({y \in S : Before(key, y, x)}) = k - 1]

\* The numbers themselves, the least one first.
Ascending(S) == SortedBy([n \in S |-> n], S)

\* The elements of s at the places, in their order.
At(s, places) == [k \in DOMAIN places |-> s[places[k]]]
=============================================================================
