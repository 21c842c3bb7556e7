------------------------ MODULE DeploymentRefinement ------------------------
(***************************************************************************)
(* Deployments implements DeploymentPromise.  What a project serves is     *)
(* read off the deployments table, its succeeded row, so that the pointer  *)
(* in projects is not trusted.                                             *)
(***************************************************************************)
EXTENDS Deployments

SucceededOf(p) == {j \in JobsOf(p) : deployment[j] = "succeeded"}

Promise == INSTANCE DeploymentPromise WITH
  owner   <- jobProject,
  state   <- jobStatus,
  serving <- [p \in Projects |->
                IF SucceededOf(p) = {} THEN None ELSE CHOOSE j \in SucceededOf(p) : TRUE],
  up      <- Serving

\* Every step of the pipeline is a step of the promise or invisible to it: the
\* deployment a project serves changes exactly when a running job succeeds, or
\* at a restart, and processing starts with no interrupted job left
\* (markJobSucceeded, reconcileProject, recoverInterruptedJobs).
ImplementsPromise == Promise!PromiseSpec
=============================================================================
