----------------------------- MODULE MCPipeline -----------------------------
(***************************************************************************)
(* Pipeline for TLC: the workers may change places.                        *)
(***************************************************************************)
EXTENDS Pipeline, TLC

Symmetry == Permutations(Workers)

Both == {{"TRANSFER", "INGEST"}}
Either == {{"INGEST"}, {"FETCH"}}
=============================================================================
