--------------------------- MODULE MCDeployments ---------------------------
(* Small instances of Deployments for TLC.                                 *)
EXTENDS DeploymentRefinement, TLC

\* Projects are interchangeable: sound for the runs without liveness.
ProjectSymmetry == Permutations(Projects)
=============================================================================
