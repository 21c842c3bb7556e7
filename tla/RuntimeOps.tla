----------------------------- MODULE RuntimeOps -----------------------------
(***************************************************************************)
(* The HTTP handlers that act on a project's runtime - stop, start,        *)
(* restart (project_runtime.go), remove the app and clean up the project   *)
(* (cleanup.go) - running beside the deployment pipeline of Deployments.   *)
(*                                                                         *)
(* Every handler reads the current deployment, or the list of app          *)
(* containers, once and then makes one Docker, file or database call after *)
(* another with no lock: op[o] holds the calls it has left and what it     *)
(* read.  Cleanup's workflow, PocketBase, image and log teardown touch     *)
(* nothing modelled here; their failures are those of the next call.       *)
(***************************************************************************)
EXTENDS Deployments

CONSTANTS
  Ops,          \* bound: handlers running at a time
  OpKinds,      \* the operations users call
  CallsMayFail  \* whether a call of a handler may fail for an outside reason

VARIABLES
  op,       \* what each handler does
  muddled   \* history: projects whose handlers overlapped, failed or crashed, or
            \* whose deploy failed when the old app was gone

opVars == <<vars, op, muddled>>

\* The calls of each handler, in order.
Calls == [
  stop    |-> <<"stopApp", "unroute", "setStatus">>,
  start   |-> <<"startApp", "wait", "resolve", "write", "setStatus">>,
  restart |-> <<"stopApp", "unroute", "startApp", "wait", "resolve", "write", "setStatus">>,
  remove  |-> <<"removeApps", "unroute", "clear">>,
  cleanup |-> <<"removeApps", "clear", "unroute">> ]

ASSUME KindsAssumption == OpKinds \subseteq DOMAIN Calls /\ CallsMayFail \in BOOLEAN

Call == {"stopApp", "startApp", "wait", "unroute", "resolve", "write",
         "setStatus", "removeApps", "clear"}

\* No handler runs.
NoOp == [kind |-> None, left |-> <<>>, project |-> None, dep |-> None,
         apps |-> {}, target |-> None]

OpTypeOK ==
  op \in [Ops -> [kind : OpKinds \cup {None}, left : Seq(Call),
                  project : Projects \cup {None}, dep : JobOrNone,
                  apps : SUBSET Jobs, target : JobOrNone]]

At(o, call) == op[o].left # <<>> /\ Head(op[o].left) = call
Rest(o) == IF Len(op[o].left) = 1 THEN NoOp ELSE [op[o] EXCEPT !.left = Tail(@)]
Advance(o) == op' = [op EXCEPT ![o] = Rest(o)]
End(o) == op' = [op EXCEPT ![o] = NoOp]

\* currentDeployment: no project or no current deployment is a 404.
BeginRuntime(o, p, k) ==
  /\ brain = "up"
  /\ op[o] = NoOp
  /\ k \in OpKinds \cap {"stop", "start", "restart"}
  /\ p \in known /\ current[p] # None
  /\ op' = [op EXCEPT ![o] = [NoOp EXCEPT !.kind = k, !.left = Calls[k],
                                          !.project = p, !.dep = current[p]]]
  /\ UNCHANGED vars

\* projectExists and ListProjectApps.
BeginRemoval(o, p, k) ==
  /\ brain = "up"
  /\ op[o] = NoOp
  /\ k \in OpKinds \cap {"remove", "cleanup"}
  /\ p \in known
  /\ op' = [op EXCEPT ![o] = [NoOp EXCEPT !.kind = k, !.left = Calls[k], !.project = p,
                                          !.apps = {j \in JobsOf(p) : app[j] # "absent"}]]
  /\ UNCHANGED vars

OnlyApp == UNCHANGED <<tables, route, readied, memory, worker, boot, faults>>

\* StopProjectApp and StartProjectApp: a missing container is a 404.
StopProjectApp(o) ==
  /\ At(o, "stopApp")
  /\ app[op[o].dep] # "absent"
  /\ app' = [app EXCEPT ![op[o].dep] = "stopped"]
  /\ Advance(o)
  /\ OnlyApp

StartProjectApp(o) ==
  /\ At(o, "startApp")
  /\ app[op[o].dep] # "absent"
  /\ app' = [app EXCEPT ![op[o].dep] = "running"]
  /\ Advance(o)
  /\ OnlyApp

WaitForApp(o) ==
  /\ At(o, "wait")
  /\ app[op[o].dep] = "running"
  /\ readied' = readied \cup {op[o].dep}
  /\ Advance(o)
  /\ UNCHANGED <<tables, app, route, memory, worker, boot, faults>>

\* RemoveProjectApp for each listed app, with its retries.
RemoveApp(o, j) ==
  /\ At(o, "removeApps")
  /\ j \in op[o].apps
  /\ app' = [app EXCEPT ![j] = "absent"]
  /\ op' = [op EXCEPT ![o].apps = @ \ {j}]
  /\ OnlyApp

AppsRemoved(o) ==
  /\ At(o, "removeApps")
  /\ op[o].apps = {}
  /\ Advance(o)
  /\ UNCHANGED vars

\* ingress.RemoveProject.
Unroute(o) ==
  /\ At(o, "unroute")
  /\ route' = [route EXCEPT ![op[o].project] = None]
  /\ Advance(o)
  /\ UNCHANGED <<tables, app, readied, memory, worker, boot, faults>>

\* SyncProject reads the current deployment afresh; without an address for its
\* app it removes the file and the handler ends with the error.
Resolve(o) ==
  /\ At(o, "resolve")
  /\ \E t \in RouteTargets(op[o].project) :
       op' = IF t = None /\ current[op[o].project] # None
             THEN [op EXCEPT ![o].left = <<"unroute">>]
             ELSE [op EXCEPT ![o] = [Rest(o) EXCEPT !.target = t]]
  /\ UNCHANGED vars

Write(o) ==
  /\ At(o, "write")
  /\ route' = [route EXCEPT ![op[o].project] = op[o].target]
  /\ Advance(o)
  /\ UNCHANGED <<tables, app, readied, memory, worker, boot, faults>>

\* Mutant: a restarted project is not marked running again.
SetStopped(o) ==
  /\ At(o, "setStatus")
  /\ status' = [status EXCEPT ![op[o].project] =
                  IF op[o].kind # "start" THEN "stopped" ELSE "running"]
  /\ Advance(o)
  /\ UNCHANGED <<jobProject, jobStatus, deployment, known, current, world, memory,
                 worker, boot, faults>>

\* setProjectStatus: the status is written, not derived.
SetStatus(o) ==
  /\ At(o, "setStatus")
  /\ status' = [status EXCEPT ![op[o].project] =
                  IF op[o].kind = "stop" THEN "stopped" ELSE "running"]
  /\ Advance(o)
  /\ UNCHANGED <<jobProject, jobStatus, deployment, known, current, world, memory,
                 worker, boot, faults>>

\* clearProjectRuntimeState.
ClearState(o) ==
  /\ At(o, "clear")
  /\ LET p == op[o].project
     IN /\ deployment' = Superseded(p, None)
        /\ current' = [current EXCEPT ![p] = None]
        /\ UNCHANGED <<jobProject, jobStatus, known>>
        /\ SyncStatus(p)
  /\ Advance(o)
  /\ UNCHANGED <<world, memory, worker, boot, faults>>

\* The container is gone (errProjectRuntimeNotFound), or never becomes ready.
NotFound(o) ==
  /\ \/ (At(o, "stopApp") \/ At(o, "startApp")) /\ app[op[o].dep] = "absent"
     \/ At(o, "wait") /\ app[op[o].dep] # "running"
  /\ End(o)
  /\ UNCHANGED vars

\* What the call that o makes to the runtime may do to app j and still fail.
AfterFailedCall(o, j) ==
  IF j \in op[o].apps THEN AfterFailedRemoval(app[j])
  ELSE IF app[j] = "absent" \/ j # op[o].dep THEN {app[j]}
  ELSE IF At(o, "stopApp") THEN {app[j], "stopped"}
  ELSE IF At(o, "startApp") THEN {app[j], "running"}
  ELSE {app[j]}

\* A call fails and the handler returns the error.
Abort(o) ==
  /\ CallsMayFail
  /\ op[o].left # <<>>
  /\ End(o)
  /\ \E j \in Jobs, a \in AppStates :
       a \in AfterFailedCall(o, j) /\ app' = [app EXCEPT ![j] = a]
  /\ OnlyApp

OpStep(o) ==
  \/ \E p \in Projects, k \in OpKinds : BeginRuntime(o, p, k) \/ BeginRemoval(o, p, k)
  \/ StopProjectApp(o) \/ StartProjectApp(o) \/ WaitForApp(o)
  \/ \E j \in Jobs : RemoveApp(o, j)
  \/ AppsRemoved(o) \/ Unroute(o) \/ Resolve(o) \/ Write(o)
  \/ SetStatus(o) \/ ClearState(o) \/ NotFound(o)

\* The worker processes, or a user waits for, a job of p.
JobUnderWay(p) ==
  \/ worker.pc # "idle" /\ jobProject[worker.job] = p
  \/ \E j \in JobsOf(p) : jobStatus[j] \in Active

\* A start that found no address for its app: it removes the route and fails.
GaveUp(o) == op[o].kind \in {"start", "restart"} /\ op[o].left = <<"unroute">>

\* A job of p is about to fail, and the app it should replace is gone: the answer
\* of the removal was lost, or the promotion was refused.
Bereft(p) ==
  /\ worker.pc = "fail" /\ jobProject[worker.job] = p
  /\ worker.old # None /\ app[worker.old] = "absent"

\* A handler of p gives up, or runs beside another one or beside a job of p, or a
\* deploy has lost the app it should replace.
Contested ==
  {p \in Projects :
     \/ Bereft(p)
     \/ \E o \in Ops :
          /\ op[o].project = p
          /\ GaveUp(o) \/ JobUnderWay(p) \/ \E q \in Ops \ {o} : op[q].project = p}

OpInit == Init /\ op = [o \in Ops |-> NoOp] /\ muddled = {}

\* A crash ends the handlers with the process.
OpNext ==
  \/ /\ \/ \E o \in Ops : OpStep(o)
        \/ (Handlers \/ Worker \/ Startup) /\ UNCHANGED op
     /\ muddled' = muddled \cup Contested'
  \/ \E o \in Ops : Abort(o) /\ muddled' = muddled \cup {op[o].project}
  \/ Crash /\ op' = [o \in Ops |-> NoOp] /\ muddled' = Projects

OpSpec == OpInit /\ [][OpNext]_opVars
-----------------------------------------------------------------------------
(* Properties.                                                             *)

\* Whatever the handlers left behind - a status set beside a deployment, a route
\* written from an old read, half a stop - the start-up sequence has repaired the
\* status and the route of every project before it recovers jobs
\* (reconcileAllProjectStatuses, SyncAll).
StartupRepairs ==
  brain = "recover" /\ refused = 0 => \A p \in Projects :
    /\ status[p] = DerivedStatus(p, jobProject, jobStatus, current[p], status[p])
    /\ route[p] \in {None, current[p]}

\* Nothing runs for p: no handler, no job, and Brain is up.
Quiet(p) ==
  /\ brain = "up"
  /\ \A o \in Ops : op[o].project # p
  /\ ~JobUnderWay(p)

\* docs/vps-trial.md:143, of `ovek stop`: "the app runtime is stopped and project
\* status reports `stopped`"; docs/capsule-runs.md:61, of a run: it "waits for
\* readiness, promotes the runtime, and routes the project hostname".  When
\* nothing runs for a project any more, a stopped project has no running app,
\* the current deployment has an app, and the route is its own - unless a write
\* was refused, Brain crashed (the start-up adopts whatever app runs), a handler
\* failed half way, a deploy failed with the old app gone, or handlers overlapped
\* one another or a job, since none of them takes a lock.
SettledUnlessMuddled ==
  refused = 0 => \A p \in Projects : Quiet(p) /\ p \notin muddled =>
    /\ status[p] = "stopped" /\ current[p] # None => app[current[p]] # "running"
    /\ current[p] # None => app[current[p]] # "absent"
    /\ route[p] \in {None, current[p]}

\* The current deployment read in Process, before the old app is removed, is still
\* the succeeded row when markJobSucceeded supersedes it: whatever removals, starts
\* and promotions there were before, the promotion finds its rows, unless a handler
\* overlapped the job - a removal may clear them (clearProjectRuntimeState).
PromotionFindsRows ==
  worker.pc = "promote" /\ jobProject[worker.job] \notin muddled => Promotable

\* Beside handlers of every kind the tables keep what Deployments promises: one
\* deployment succeeded per project, it is the current one, and no job is
\* stranded (the handlers write deployments and projects, not jobs).
TablesKept == OpTypeOK /\ SoleSucceededDeployment /\ StrandedOnlyByFaults
=============================================================================
