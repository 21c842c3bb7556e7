---------------------------- MODULE Deployments ----------------------------
(***************************************************************************)
(* The deployment pipeline of Brain: deploy and run requests create jobs,  *)
(* one worker goroutine builds and starts an app container per job,        *)
(* removes the app it replaces and promotes the new one, and the start-up  *)
(* sequence of main.go repairs what a crash left behind.                   *)
(*                                                                         *)
(* A job and the deployment and app container it makes share one           *)
(* identifier in the code (worker.go, insertSucceededDeployment; app.go,   *)
(* appContainerName).  Here it is a number, and numeric order is the order *)
(* of created_at.  The code reads that time before its transaction begins, *)
(* so rows may be inserted in another order.  SQLite has a single          *)
(* connection (db.go), so a transaction is one step.                       *)
(*                                                                         *)
(* An operator commented "Mutant" is a plausible bug of the operator that  *)
(* follows it.  No action uses it; the README names the property it would  *)
(* violate in its place.                                                   *)
(***************************************************************************)
EXTENDS Naturals, Sequences, FiniteSets

CONSTANTS
  Projects,     \* project names
  MaxJobs,      \* bound: jobs created in a behaviour
  QueueCap,     \* capacity of jobManager.queue (64 in the code)
  MaxCrashes,   \* bound: crashes of the Brain process
  MaxRefused,   \* bound: job updates and route writes that are refused
  None          \* no project, no deployment

Jobs == 1 .. MaxJobs

ASSUME BoundsAssumption ==
  /\ MaxJobs \in Nat
  /\ QueueCap \in Nat \ {0}
  /\ MaxCrashes \in Nat
  /\ MaxRefused \in Nat
ASSUME NoneAssumption == None \notin Projects /\ None \notin Jobs

VARIABLES
  jobProject, jobStatus,  \* table jobs
  deployment,             \* table deployments: status of the row of each job
  known,                  \* table projects: the names that have a row
  status, current,        \* table projects: status, current_deployment_id
  app,                    \* the app container of each job
  route,                  \* per project: the deployment Traefik's file routes to
  readied,                \* history: jobs whose app passed the readiness probe
  queue,                  \* the channel jobManager.queue
  waiting,                \* jobs whose HTTP handler is about to send on it
  backlog,                \* queued jobs that Start has still to send
  worker,                 \* the worker goroutine
  brain, todo,            \* start-up phase, and the projects it has to visit
  crashes, refused        \* counters of the bounded faults

tables == <<jobProject, jobStatus, deployment, known, status, current>>
world  == <<app, route, readied>>
memory == <<queue, waiting, backlog>>
boot   == <<brain, todo>>
faults == <<crashes, refused>>
vars   == <<tables, world, memory, worker, boot, faults>>

Active       == {"queued", "running"}
JobStatuses  == {"none", "succeeded", "failed"} \cup Active
Statuses     == {"idle", "deploying", "running", "stopped", "failed"}
AppStates    == {"absent", "stopped", "running"}
Phases       == {"down", "reconcile", "status", "ingress", "recover", "enqueue", "up"}
JobOrNone    == Jobs \cup {None}
WorkerPC     == {"idle", "build", "startApp", "wait", "load", "removeOld",
                 "promote", "fail", "resolve", "write"}
Processing   == WorkerPC \ {"idle", "resolve", "write"}
IdleWorker   == [pc |-> "idle", job |-> None, old |-> None, target |-> None]
Serving      == brain \in {"enqueue", "up"}   \* the worker goroutine runs

TypeOK ==
  /\ jobProject \in [Jobs -> Projects \cup {None}]
  /\ jobStatus \in [Jobs -> JobStatuses]
  /\ deployment \in [Jobs -> {"none", "succeeded", "superseded"}]
  /\ known \subseteq Projects
  /\ status \in [Projects -> Statuses]
  /\ current \in [Projects -> JobOrNone]
  /\ app \in [Jobs -> AppStates]
  /\ route \in [Projects -> JobOrNone]
  /\ readied \subseteq Jobs
  /\ queue \in Seq(Jobs) /\ Len(queue) <= QueueCap
  /\ waiting \subseteq Jobs
  /\ backlog \subseteq Jobs
  /\ worker \in [pc : WorkerPC, job : JobOrNone, old : JobOrNone, target : JobOrNone]
  /\ \A j \in Jobs : jobStatus[j] # "none" => jobProject[j] \in Projects
  /\ worker.pc # "idle" => worker.job \in Jobs /\ jobStatus[worker.job] # "none"
  /\ worker.pc = "removeOld" => worker.old \in Jobs
  /\ brain \in Phases
  /\ todo \subseteq Projects
  /\ crashes \in 0 .. MaxCrashes
  /\ refused \in 0 .. MaxRefused

JobsOf(p) == {j \in Jobs : jobProject[j] = p}

-----------------------------------------------------------------------------
(* Project status.                                                         *)

\* deriveProjectStatus, over the tables as the transaction leaves them;
\* before is the stored status it reads.
DerivedStatus(p, project, state, cur, before) ==
  LET mine == {j \in Jobs : project[j] = p}
  IN IF \E j \in mine : state[j] \in Active THEN "deploying"
     ELSE IF cur # None THEN IF before = "stopped" THEN "stopped" ELSE "running"
     ELSE IF \E j \in mine : state[j] = "failed" /\ \A i \in mine : i <= j
          THEN "failed"
          ELSE "idle"

\* Mutant: derived before the update instead of after it.
SyncStatusBefore(p) ==
  status' = [status EXCEPT ![p] = DerivedStatus(p, jobProject, jobStatus, current[p], @)]

\* syncProjectStatus(p), the last statement of every transaction on p's rows.
SyncStatus(p) ==
  status' = [status EXCEPT
              ![p] = DerivedStatus(p, jobProject', jobStatus', current'[p], @)]

-----------------------------------------------------------------------------
(* HTTP handlers: POST .../deployments and POST .../runs.                  *)

\* Mutant: a queued job is overlooked.
HasRunningJob(p) == \E j \in JobsOf(p) : jobStatus[j] = "running"

\* findActiveDeploymentJob.
HasActiveJob(p) == \E j \in JobsOf(p) : jobStatus[j] \in Active

\* createQueuedJobWithSource with rejectActive, as both handlers call it.  A
\* refused request (409) rolls everything back.
CreateJob(p, j) ==
  /\ brain = "up"
  /\ jobStatus[j] = "none"
  /\ ~ HasActiveJob(p)
  /\ known' = known \cup {p}
  /\ jobProject' = [jobProject EXCEPT ![j] = p]
  /\ jobStatus' = [jobStatus EXCEPT ![j] = "queued"]
  /\ current' = current
  /\ SyncStatus(p)
  /\ waiting' = waiting \cup {j}
  /\ UNCHANGED <<deployment, world, queue, backlog, worker, boot, faults>>

\* Mutant: a channel without a capacity.
EnqueueUnbounded(j) ==
  /\ brain = "up"
  /\ j \in waiting
  /\ queue' = Append(queue, j)
  /\ waiting' = waiting \ {j}
  /\ UNCHANGED <<tables, world, backlog, worker, boot, faults>>

\* Enqueue after the commit: the handler blocks while the channel is full.
Enqueue(j) ==
  /\ brain = "up"
  /\ j \in waiting
  /\ Len(queue) < QueueCap
  /\ queue' = Append(queue, j)
  /\ waiting' = waiting \ {j}
  /\ UNCHANGED <<tables, world, backlog, worker, boot, faults>>

-----------------------------------------------------------------------------
(* The worker goroutine: jobManager.run and processJob.                    *)

WorkerAt(pc) == Serving /\ worker.pc = pc
Goto(pc) == worker' = [worker EXCEPT !.pc = pc]

\* claimQueuedJob: a conditional update; a job that is not queued is dropped.
Claim ==
  /\ WorkerAt("idle")
  /\ queue # <<>>
  /\ queue' = Tail(queue)
  /\ LET j == Head(queue)
         claimed == jobStatus[j] = "queued"
     IN /\ jobStatus' = IF claimed THEN [jobStatus EXCEPT ![j] = "running"] ELSE jobStatus
        /\ worker' = IF claimed THEN [IdleWorker EXCEPT !.pc = "build", !.job = j] ELSE worker
  /\ UNCHANGED <<jobProject, deployment, known, status, current, world, waiting,
                 backlog, boot, faults>>

\* The claim's update fails: processJob logs and returns, the row stays queued.
ClaimFault ==
  /\ WorkerAt("idle")
  /\ queue # <<>>
  /\ queue' = Tail(queue)
  /\ refused < MaxRefused /\ refused' = refused + 1
  /\ UNCHANGED <<tables, world, waiting, backlog, worker, boot, crashes>>

\* Load the job, fetch or build the image, resolve the captured config revision
\* and ensure the PocketBase sidecar: any of them may fail.
Build ==
  /\ WorkerAt("build")
  /\ Goto("startApp") \/ Goto("fail")
  /\ UNCHANGED <<tables, world, memory, boot, faults>>

\* EnsureProjectApp: pull, create, attach and start; a failure may leave the
\* container created but not started, or started with the answer lost.
StartApp ==
  /\ WorkerAt("startApp")
  /\ \/ /\ app' = [app EXCEPT ![worker.job] = "running"]
        /\ Goto("wait")
     \/ /\ \E a \in {app[worker.job], "stopped", "running"} : app' = [app EXCEPT ![worker.job] = a]
        /\ Goto("fail")
  /\ UNCHANGED <<tables, route, readied, memory, boot, faults>>

\* Mutant: a timeout of the probe is only logged.
WaitReadyLogs ==
  /\ WorkerAt("wait")
  /\ \/ app[worker.job] = "running" /\ readied' = readied \cup {worker.job}
     \/ UNCHANGED readied
  /\ Goto("load")
  /\ UNCHANGED <<tables, app, route, memory, boot, faults>>

\* WaitForProjectAppReady: on a timeout the new container is left as it is.
WaitReady ==
  /\ WorkerAt("wait")
  /\ \/ /\ app[worker.job] = "running"
        /\ readied' = readied \cup {worker.job}
        /\ Goto("load")
     \/ /\ Goto("fail")
        /\ UNCHANGED readied
  /\ UNCHANGED <<tables, app, route, memory, boot, faults>>

\* Mutant: the newest row of deployments is taken for the current one.
LoadLatest ==
  /\ WorkerAt("load")
  /\ \/ LET rows == {j \in JobsOf(jobProject[worker.job]) : deployment[j] # "none"}
        IN worker' = IF rows = {} THEN [worker EXCEPT !.pc = "promote"]
                     ELSE [worker EXCEPT !.pc = "removeOld",
                                         !.old = CHOOSE j \in rows : \A i \in rows : i <= j]
     \/ Goto("fail")
  /\ UNCHANGED <<tables, world, memory, boot, faults>>

\* getProjectCurrentDeployment: the snapshot the rest of the promotion uses.  The
\* phase update before it, or the read, may fail.
LoadCurrent ==
  /\ WorkerAt("load")
  /\ \/ LET cur == current[jobProject[worker.job]]
        IN worker' = IF cur \in {None, worker.job}
                     THEN [worker EXCEPT !.pc = "promote"]
                     ELSE [worker EXCEPT !.pc = "removeOld", !.old = cur]
     \/ Goto("fail")
  /\ UNCHANGED <<tables, world, memory, boot, faults>>

\* What a removal that returns an error leaves: removeManagedContainer stops, then
\* removes, and the error may come after either took effect.
AfterFailedRemoval(a) == IF a = "absent" THEN {"absent"} ELSE {a, "stopped", "absent"}

\* RemoveProjectApp of the superseded app; when it fails the new app is removed
\* in its turn (removeCurrentJobApp), which may fail too.
RemoveOld ==
  /\ WorkerAt("removeOld")
  /\ \/ /\ app' = [app EXCEPT ![worker.old] = "absent"]
        /\ Goto("promote")
     \/ /\ \E a \in AfterFailedRemoval(app[worker.old]),
             b \in {"absent"} \cup AfterFailedRemoval(app[worker.job]) :
             app' = [app EXCEPT ![worker.old] = a, ![worker.job] = b]
        /\ Goto("fail")
  /\ UNCHANGED <<tables, route, readied, memory, boot, faults>>

\* markSupersededDeployment and the job update each require one matching row.
Promotable ==
  /\ jobStatus[worker.job] = "running"
  /\ worker.old # None => deployment[worker.old] = "succeeded"

\* markJobSucceeded: job, superseded deployment, new deployment, current
\* pointer and status in one transaction.
Promote ==
  /\ WorkerAt("promote")
  /\ Promotable
  /\ LET j == worker.job
         p == jobProject[j]
     IN /\ jobStatus' = [jobStatus EXCEPT ![j] = "succeeded"]
        /\ deployment' = [i \in Jobs |-> IF i = j THEN "succeeded"
                                         ELSE IF i = worker.old THEN "superseded"
                                         ELSE deployment[i]]
        /\ current' = [current EXCEPT ![p] = j]
        /\ UNCHANGED <<jobProject, known>>
        /\ SyncStatus(p)
  /\ Goto("resolve")
  /\ UNCHANGED <<world, memory, boot, faults>>

\* The transaction rolls back: a row is missing or the database refuses.
PromoteRollback ==
  /\ WorkerAt("promote")
  /\ \/ ~ Promotable /\ UNCHANGED refused
     \/ refused < MaxRefused /\ refused' = refused + 1
  /\ Goto("fail")
  /\ UNCHANGED <<tables, world, memory, boot, crashes>>

\* markJobFailed: requires the row to be running.
FailJob ==
  /\ WorkerAt("fail")
  /\ LET j == worker.job
     IN /\ jobStatus[j] = "running"
        /\ jobStatus' = [jobStatus EXCEPT ![j] = "failed"]
        /\ UNCHANGED <<jobProject, deployment, known, current>>
        /\ SyncStatus(jobProject[j])
  /\ worker' = IdleWorker
  /\ UNCHANGED <<world, memory, boot, faults>>

\* markJobFailed fails: it is logged and the row stays running.
FailJobFault ==
  /\ WorkerAt("fail")
  /\ refused < MaxRefused /\ refused' = refused + 1
  /\ worker' = IdleWorker
  /\ UNCHANGED <<tables, world, memory, boot, crashes>>

\* The deployment a call of SyncProject(p) may decide to route to, None when it
\* removes the file: no current deployment, or no address found for its app.
RouteTargets(p) ==
  LET cur == current[p]
  IN {None} \cup (IF cur # None /\ app[cur] = "running" THEN {cur} ELSE {})

\* SyncProject after a promotion: read and resolve, then write or remove the
\* file; its error is only logged.
ResolveRoute ==
  /\ WorkerAt("resolve")
  /\ \E t \in RouteTargets(jobProject[worker.job]) :
       worker' = [worker EXCEPT !.pc = "write", !.target = t]
  /\ UNCHANGED <<tables, world, memory, boot, faults>>

WriteRoute ==
  /\ WorkerAt("write")
  /\ route' = [route EXCEPT ![jobProject[worker.job]] = worker.target]
  /\ worker' = IdleWorker
  /\ UNCHANGED <<tables, app, readied, memory, boot, faults>>

WriteRouteFault ==
  /\ WorkerAt("write")
  /\ refused < MaxRefused /\ refused' = refused + 1
  /\ worker' = IdleWorker
  /\ UNCHANGED <<tables, world, memory, boot, crashes>>

Worker ==
  \/ Claim \/ Build \/ StartApp \/ WaitReady \/ LoadCurrent \/ RemoveOld
  \/ Promote \/ PromoteRollback \/ FailJob \/ ResolveRoute \/ WriteRoute
  \/ ClaimFault \/ FailJobFault \/ WriteRouteFault

-----------------------------------------------------------------------------
(* Crash of the process, and the start-up sequence of main.go.  Until the  *)
(* server listens, nothing else runs but, from Start on, the worker.       *)

Crash ==
  /\ brain # "down"
  /\ crashes < MaxCrashes /\ crashes' = crashes + 1
  /\ brain' = "down" /\ todo' = {}
  /\ queue' = <<>> /\ waiting' = {} /\ backlog' = {}
  /\ worker' = IdleWorker
  /\ UNCHANGED <<tables, world, refused>>

Boot ==
  /\ brain = "down"
  /\ brain' = "reconcile" /\ todo' = known
  /\ UNCHANGED <<tables, world, memory, worker, faults>>

\* Mutant: a stopped app counts as running.
KeepersStopped(p) ==
  LET apps == {j \in JobsOf(p) : app[j] # "absent"}
  IN IF current[p] \in apps THEN {current[p]} ELSE {j \in apps : apps = {j}}

\* The running app a start-up keeps: the current deployment's, else the only one.
Keepers(p) ==
  LET running == {j \in JobsOf(p) : app[j] = "running"}
  IN IF current[p] \in running THEN {current[p]}
     ELSE {j \in running : running = {j}}

\* Mutant: the other rows are left as they are.
NotSuperseded(p, k) == [j \in Jobs |-> IF j = k THEN "succeeded" ELSE deployment[j]]

\* setDeploymentStatus and supersedeOtherProjectDeployments: k becomes the only
\* succeeded row of p.
Superseded(p, k) ==
  [j \in Jobs |-> IF j = k THEN "succeeded"
                  ELSE IF j \in JobsOf(p) /\ deployment[j] = "succeeded" THEN "superseded"
                  ELSE deployment[j]]

\* normalizeProjectCurrentDeployment or promoteProjectAppRuntime, then
\* removeOtherProjectApps, which stops at its first failure.
Adopt(p, k) ==
  /\ deployment' = Superseded(p, k)
  /\ current' = [current EXCEPT ![p] = k]
  /\ UNCHANGED <<jobProject, jobStatus, known>>
  /\ SyncStatus(p)
  /\ \E gone, halted \in SUBSET (JobsOf(p) \ {k}) :
       /\ Cardinality(halted) <= 1
       /\ app' = [j \in Jobs |-> IF j \in gone THEN "absent"
                                 ELSE IF j \in halted /\ app[j] = "running" THEN "stopped"
                                 ELSE app[j]]

\* reconcileProject: adopt, or skip (nothing to keep, more than one candidate,
\* or an error, which is logged).
ReconcileProject(p) ==
  /\ brain = "reconcile"
  /\ p \in todo
  /\ \/ \E k \in Keepers(p) : Adopt(p, k)
     \/ UNCHANGED <<tables, app>>
  /\ todo' = todo \ {p}
  /\ UNCHANGED <<route, readied, memory, worker, brain, faults>>

\* reconcileAllProjectStatuses.
ReconcileStatus(p) ==
  /\ brain = "status"
  /\ p \in todo
  /\ UNCHANGED <<jobProject, jobStatus, deployment, known, current>>
  /\ SyncStatus(p)
  /\ todo' = todo \ {p}
  /\ UNCHANGED <<world, memory, worker, brain, faults>>

\* ingress.SyncAll.
SyncIngress(p) ==
  /\ brain = "ingress"
  /\ p \in todo
  /\ \/ /\ \E t \in RouteTargets(p) : route' = [route EXCEPT ![p] = t]
        /\ UNCHANGED refused
     \/ /\ refused < MaxRefused /\ refused' = refused + 1
        /\ UNCHANGED route
  /\ todo' = todo \ {p}
  /\ UNCHANGED <<tables, app, readied, memory, worker, brain, crashes>>

\* Mutant: a step of main.go is left out.
NoStatusPhase == [reconcile |-> "ingress", ingress |-> "recover"]

\* The order of the steps in main.go.
NextPhase == [reconcile |-> "status", status |-> "ingress", ingress |-> "recover"]

FinishPhase ==
  /\ brain \in DOMAIN NextPhase
  /\ todo = {}
  /\ brain' = NextPhase[brain]
  /\ todo' = IF brain' = "recover" THEN {} ELSE known
  /\ UNCHANGED <<tables, world, memory, worker, faults>>

\* Mutant: jobs are recovered while the worker already runs.
RecoverJobLate(j) ==
  /\ brain \in {"recover", "enqueue"}
  /\ jobStatus[j] = "running"
  /\ jobStatus' = [jobStatus EXCEPT ![j] = "failed"]
  /\ UNCHANGED <<jobProject, deployment, known, current>>
  /\ SyncStatus(jobProject[j])
  /\ UNCHANGED <<world, memory, worker, boot, faults>>

\* recoverInterruptedJobs: every running job is marked failed.
RecoverJob(j) ==
  /\ brain = "recover"
  /\ jobStatus[j] = "running"
  /\ jobStatus' = [jobStatus EXCEPT ![j] = "failed"]
  /\ UNCHANGED <<jobProject, deployment, known, current>>
  /\ SyncStatus(jobProject[j])
  /\ UNCHANGED <<world, memory, worker, boot, faults>>

\* Mutant: the active jobs are listed before the recovery.
StartWorkerUnrecovered ==
  /\ brain = "recover"
  /\ backlog' = {j \in Jobs : jobStatus[j] \in Active}
  /\ brain' = "enqueue"
  /\ UNCHANGED <<tables, world, queue, waiting, worker, todo, faults>>

\* Mutant: the queued jobs of the last run are forgotten.
StartWorkerForgets ==
  /\ brain = "recover"
  /\ \A j \in Jobs : jobStatus[j] # "running"
  /\ brain' = "enqueue"
  /\ UNCHANGED <<tables, world, memory, worker, todo, faults>>

\* listQueuedJobIDs, then the worker goroutine is started.
StartWorker ==
  /\ brain = "recover"
  /\ \A j \in Jobs : jobStatus[j] # "running"
  /\ backlog' = {j \in Jobs : jobStatus[j] = "queued"}
  /\ brain' = "enqueue"
  /\ UNCHANGED <<tables, world, queue, waiting, worker, todo, faults>>

\* Start sends the listed jobs, oldest first, blocking on a full channel.
EnqueueBacklog(j) ==
  /\ brain = "enqueue"
  /\ j \in backlog /\ \A i \in backlog : j <= i
  /\ Len(queue) < QueueCap
  /\ queue' = Append(queue, j)
  /\ backlog' = backlog \ {j}
  /\ UNCHANGED <<tables, world, waiting, worker, boot, faults>>

Listen ==
  /\ brain = "enqueue"
  /\ backlog = {}
  /\ brain' = "up"
  /\ UNCHANGED <<tables, world, memory, worker, todo, faults>>

Startup ==
  \/ Boot \/ FinishPhase \/ StartWorker \/ Listen
  \/ \E p \in Projects : ReconcileProject(p) \/ ReconcileStatus(p) \/ SyncIngress(p)
  \/ \E j \in Jobs : RecoverJob(j) \/ EnqueueBacklog(j)

-----------------------------------------------------------------------------

\* A new database: no rows, nothing running.
Init ==
  /\ jobProject = [j \in Jobs |-> None]
  /\ jobStatus = [j \in Jobs |-> "none"]
  /\ deployment = [j \in Jobs |-> "none"]
  /\ known = {}
  /\ status = [p \in Projects |-> "idle"]
  /\ current = [p \in Projects |-> None]
  /\ app = [j \in Jobs |-> "absent"]
  /\ route = [p \in Projects |-> None]
  /\ readied = {}
  /\ queue = <<>> /\ waiting = {} /\ backlog = {}
  /\ worker = IdleWorker
  /\ brain = "down" /\ todo = {}
  /\ crashes = 0 /\ refused = 0

Handlers ==
  \/ \E p \in Projects, j \in Jobs : CreateJob(p, j)
  \/ \E j \in Jobs : Enqueue(j)

Next == Handlers \/ Worker \/ Startup \/ Crash

\* What the Go scheduler gives while the process lives: a handler that committed,
\* the worker and the start-up sequence go on, if the external commands of a build,
\* which have no deadline (build.go:180-205), return.  Users may send nothing, and
\* nobody need start Brain after a crash.
Fairness ==
  /\ \A j \in Jobs : WF_vars(Enqueue(j))
  /\ WF_vars(Worker)
  /\ WF_vars(brain # "down" /\ Startup)

Spec == Init /\ [][Next]_vars
FairSpec == Spec /\ Fairness
-----------------------------------------------------------------------------
(* Properties.                                                             *)

\* The active-job check and the insert are one transaction, so two requests for
\* a project never both get a job, however handlers, worker and start-up
\* interleave (createQueuedJobWithSource, findActiveDeploymentJob).
OneActiveJob ==
  \A i, j \in Jobs :
    (i # j /\ {jobStatus[i], jobStatus[j]} \subseteq Active) => jobProject[i] # jobProject[j]

\* The pointer in projects and the status column of deployments are written by
\* promotion, start-up repair and runtime removal; they always tell the same
\* story: the current deployment is the one and only succeeded row.
SoleSucceededDeployment ==
  \A p \in Projects :
    /\ current[p] # None => current[p] \in JobsOf(p)
    /\ \A j \in JobsOf(p) : deployment[j] = "succeeded" <=> current[p] = j

Queued == {queue[i] : i \in DOMAIN queue}

\* A job id is in one place only - the channel, a blocked handler or Start's
\* list - once, and only while its row is queued: no job is processed twice,
\* not even one created around a crash (Start, Enqueue).
QueueSound ==
  /\ \A i, k \in DOMAIN queue : queue[i] = queue[k] => i = k
  /\ Queued \cap (waiting \cup backlog) = {} /\ waiting \cap backlog = {}
  /\ \A j \in Queued \cup waiting \cup backlog : jobStatus[j] = "queued"

\* Jobs that are active in the database but that nobody is going to move on.
Stranded ==
  {j \in Jobs : \/ jobStatus[j] = "queued" /\ j \notin Queued \cup waiting \cup backlog
                \/ jobStatus[j] = "running" /\ ~ (worker.pc \in Processing /\ worker.job = j)}

\* While the worker runs, an active job nobody holds - it blocks every later
\* deploy of its project with a 409 - needs a refused update of its own
\* (processJob returns after a failed claim or a failed markJobFailed).
StrandedOnlyByFaults == Serving => Cardinality(Stranded) <= refused

\* Every step of Process works on a job that is still running and has no
\* deployment row yet, so the updates that require one row find it.
WorkerOwnsJob ==
  worker.pc \in Processing =>
    jobStatus[worker.job] = "running" /\ deployment[worker.job] = "none"

\* Only a job that was claimed has a container or a deployment row.
ClaimedFirst ==
  \A j \in Jobs :
    app[j] # "absent" \/ deployment[j] # "none" => jobStatus[j] \notin {"none", "queued"}

\* What the worker carries from one call of Process to the next stays true of
\* the tables and containers: what it read as current still is, and the app it
\* saw ready still runs.
CarriedOver ==
  /\ worker.pc \in {"build", "startApp", "wait", "load"} => worker.old = None
  /\ worker.pc \in {"removeOld", "promote"} => worker.old = current[jobProject[worker.job]]
  /\ worker.pc \in {"load", "removeOld", "promote"} => app[worker.job] = "running"

\* Memory is empty until the start-up step that fills it.
EmptyAtBoot ==
  /\ ~ Serving => worker = IdleWorker /\ queue = <<>>
  /\ brain # "up" => waiting = {}
  /\ brain # "enqueue" => backlog = {}

\* What WorkerOwnsJob, QueueSound and SoleSucceededDeployment need beside them to be
\* inductive.
Bookkeeping == ClaimedFirst /\ CarriedOver /\ EmptyAtBoot

\* The stored project status is the one deriveProjectStatus yields, at every
\* moment: no transaction forgets to refresh it.
StatusIsDerived ==
  \A p \in Projects :
    status[p] = DerivedStatus(p, jobProject, jobStatus, current[p], status[p])

\* Outside a promotion, a project's hostname is routed to its current deployment
\* or nowhere: never to a replaced app, also after a crash between the
\* promotion and the write of the route (SyncProject, SyncAll).
RouteNotStale ==
  \A p \in Projects :
    \/ refused > 0
    \/ brain \notin {"recover", "enqueue", "up"}
    \/ worker.pc \in {"resolve", "write"} /\ jobProject[worker.job] = p
    \/ route[p] \in {None, current[p]}

\* What a project shows is never stale: its stored status is the derived one
\* and its hostname is routed to the current deployment or nowhere.
StatusAndRouteFollow == StatusIsDerived /\ RouteNotStale

\* The container of the current deployment goes only in the removal that a job asks
\* for whose own app runs and has passed its probe, or when start-up adopts another,
\* running one.  So a deploy that fails before leaves it in place; one that fails
\* there, because the answer of the removal was lost, may leave neither
\* (Process, removeOtherProjectApps).
OldAppGoesForReadyOne ==
  \A p \in Projects :
    current[p] # None /\ app[current[p]] # "absent" /\ app'[current[p]] = "absent" =>
      \/ /\ worker.pc = "removeOld" /\ worker.old = current[p]
         /\ app[worker.job] = "running" /\ worker.job \in readied
      \/ current'[p] # current[p] /\ app'[current'[p]] = "running"

\* docs/capsule-runs.md:61: a run "waits for readiness, promotes the runtime".
\* Without a crash, what is current passed the readiness probe of its run; the
\* start-up after a crash also adopts an app that never did (reconcileProject).
PromotedWasReady ==
  crashes = 0 => \A p \in Projects : current[p] # None => current[p] \in readied

\* A deploy is safe for the app it replaces: that stays until its own has passed
\* the readiness probe, and only then becomes current.
DeployIsSafe == [][OldAppGoesForReadyOne /\ PromotedWasReady']_vars

\* Without runtime handlers, a deployment becomes current, by promotion or by
\* start-up adoption, only while its app is running.  (Beside a removal it may have
\* none: RuntimeOps.)
SwitchToRunningApp ==
  [][\A p \in Projects :
       current'[p] # current[p] => current'[p] \in Jobs /\ app'[current'[p]] = "running"]_vars

\* Whoever runs Brain starts it again whenever it is down.
StartedAgain == []<>(brain # "down")

\* An accepted job ends, across crashes and with a full channel; a refused
\* update is the only excuse.
EveryJobFinishes ==
  StartedAgain => \A j \in Jobs : jobStatus[j] = "queued" ~> (jobStatus[j] \in {"succeeded", "failed"} \/ refused > 0)

\* A job found running at a start, a stranded one included, is failed and so
\* unblocks its project (recoverInterruptedJobs).
RestartEndsRunning ==
  StartedAgain => \A j \in Jobs : (brain = "down" /\ jobStatus[j] = "running") ~> jobStatus[j] = "failed"

\* Every job comes to its end: an accepted one, and one a crash cut short.
JobsEnd == EveryJobFinishes /\ RestartEndsRunning
=============================================================================
