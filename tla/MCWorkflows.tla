---------------------------- MODULE MCWorkflows ----------------------------
(* Workflows for TLC: names and handlers are interchangeable.              *)
EXTENDS Workflows, TLC

Interchangeable == Permutations(Names) \cup Permutations(Editors)
=============================================================================
