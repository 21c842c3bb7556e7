--------------------------- MODULE MCProjectConfig ---------------------------
(* Two names, those that `ovek db init' sets.  Nothing tells one request   *)
(* from another, and the run that uses the symmetry checks invariants.     *)
EXTENDS ProjectConfig, TLC

Clients == Permutations(Client)
=============================================================================
