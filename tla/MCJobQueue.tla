----------------------------- MODULE MCJobQueue -----------------------------
(***************************************************************************)
(* Small instances of JobQueue for TLC.                                    *)
(***************************************************************************)
EXTENDS JobQueue, TLC

CONSTANTS j1, j2

\* Two of the six job types, in the order of SUPPORTED_JOB_TYPES.
MCJobTypes == <<"TRANSFER", "EXTRACTION">>
OneJobType == <<"TRANSFER">>

\* One job of each type, or all of the same type.
MCTypeOf == [j \in Jobs |-> IF j = j1 THEN "TRANSFER" ELSE "EXTRACTION"]
SameType == [j \in Jobs |-> "TRANSFER"]

\* Workers, sweeps and tokens are interchangeable.
Symmetry == Permutations(Workers) \cup Permutations(Tokens)
=============================================================================
