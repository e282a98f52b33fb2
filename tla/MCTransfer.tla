----------------------------- MODULE MCTransfer -----------------------------
(***************************************************************************)
(* Transfer for TLC: a source of three blocks, then of two.                *)
(***************************************************************************)
EXTENDS Transfer

ThreeThenTwo == <<3, 2>>
=============================================================================
