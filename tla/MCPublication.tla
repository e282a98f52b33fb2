--------------------------- MODULE MCPublication ---------------------------
(***************************************************************************)
(* Publication for TLC: executions, lessons and releases may change places.*)
(***************************************************************************)
EXTENDS Publication, TLC

Symmetry == Permutations(Executions) \cup Permutations(Lessons) \cup Permutations(Releases)
=============================================================================
