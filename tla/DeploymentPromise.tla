------------------------- MODULE DeploymentPromise -------------------------
(***************************************************************************)
(* What Brain promises to the users of `ovek run` and `ovek deploy`: an     *)
(* accepted job is the only active one of its project, it ends once, and a *)
(* project serves one deployment, which only the success of a job or a     *)
(* restart of Brain replaces.  Containers, the channel, the worker and the *)
(* routes do not appear here.                                              *)
(***************************************************************************)
EXTENDS Naturals

CONSTANTS Projects, Jobs, None

VARIABLES
  owner,    \* the project of each job
  state,    \* the job's status, as `ovek status` reports it
  serving,  \* the deployment each project serves
  up        \* whether jobs are being processed

promiseVars == <<owner, state, serving, up>>

Pending(j) == state[j] \in {"queued", "running"}

\* A request is accepted only when its project has nothing pending.
Accept(p, j) ==
  /\ up
  /\ state[j] = "none"
  /\ \A i \in Jobs : owner[i] = p => ~ Pending(i)
  /\ owner' = [owner EXCEPT ![j] = p]
  /\ state' = [state EXCEPT ![j] = "queued"]
  /\ UNCHANGED <<serving, up>>

Begin(j) ==
  /\ up
  /\ state[j] = "queued"
  /\ state' = [state EXCEPT ![j] = "running"]
  /\ UNCHANGED <<owner, serving, up>>

\* Success and the switch to the new deployment are one event.
Succeed(j) ==
  /\ up
  /\ state[j] = "running"
  /\ state' = [state EXCEPT ![j] = "succeeded"]
  /\ serving' = [serving EXCEPT ![owner[j]] = j]
  /\ UNCHANGED <<owner, up>>

\* Failure, seen by the worker or found at a restart, switches nothing.
Fail(j) ==
  /\ state[j] = "running"
  /\ state' = [state EXCEPT ![j] = "failed"]
  /\ UNCHANGED <<owner, serving, up>>

\* A restart may find that another app of the project is the one that runs.
Adopt(p, j) ==
  /\ ~ up
  /\ owner[j] = p
  /\ state[j] \in {"running", "succeeded", "failed"}
  /\ serving' = [serving EXCEPT ![p] = j]
  /\ UNCHANGED <<owner, state, up>>

\* Processing begins only when no interrupted job is left.
GoUp ==
  /\ ~ up
  /\ \A j \in Jobs : state[j] # "running"
  /\ up' = TRUE
  /\ UNCHANGED <<owner, state, serving>>

GoDown ==
  /\ up
  /\ up' = FALSE
  /\ UNCHANGED <<owner, state, serving>>

PromiseInit ==
  /\ owner = [j \in Jobs |-> None]
  /\ state = [j \in Jobs |-> "none"]
  /\ serving = [p \in Projects |-> None]
  /\ up = FALSE

PromiseNext ==
  \/ \E p \in Projects, j \in Jobs : Accept(p, j) \/ Adopt(p, j)
  \/ \E j \in Jobs : Begin(j) \/ Succeed(j) \/ Fail(j)
  \/ GoUp \/ GoDown

PromiseSpec == PromiseInit /\ [][PromiseNext]_promiseVars
=============================================================================
