---------------------------- MODULE MCRuntimeOps ----------------------------
(***************************************************************************)
(* Model checking of RuntimeOps: handlers are interchangeable.             *)
(***************************************************************************)
EXTENDS RuntimeOps, TLC

OpSymmetry == Permutations(Ops)
=============================================================================
