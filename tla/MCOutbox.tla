------------------------------ MODULE MCOutbox ------------------------------
(***************************************************************************)
(* Small instances of Outbox for TLC.                                      *)
(***************************************************************************)
EXTENDS Outbox, TLC

Symmetry == Permutations(Courses) \cup Permutations(Fingerprints)
              \cup Permutations(Spiders) \cup Permutations(Reconcilers)
=============================================================================
