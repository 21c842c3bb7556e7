-------------------------- MODULE MCProjectDatabase --------------------------
EXTENDS ProjectDatabase, TLC

\* Inits are interchangeable: no definition tells one from another.
Symmetry == Permutations(Inits)
=============================================================================
