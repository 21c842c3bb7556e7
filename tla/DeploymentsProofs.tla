------------------------- MODULE DeploymentsProofs -------------------------
(***************************************************************************)
(* Safety of the deployment pipeline, for every set of projects, channel   *)
(* capacity and number of jobs, crashes and refused writes; then what      *)
(* users of deploy and run rely on: the status and route a project shows,  *)
(* the app it keeps while a deploy fails, and that each step of the        *)
(* pipeline is one of DeploymentPromise.                                   *)
(***************************************************************************)
EXTENDS DeploymentRefinement, QueueLemmas

\* deriveProjectStatus yields a status of the table.
LEMMA DerivedStatusType ==
  ASSUME NEW p, NEW project, NEW state, NEW cur, NEW before
  PROVE  DerivedStatus(p, project, state, cur, before) \in Statuses
BY DEF DerivedStatus, Statuses

\* syncProjectStatus keeps the type of the status column.
LEMMA SyncStatusType ==
  ASSUME TypeOK, NEW p \in Projects, SyncStatus(p)
  PROVE  status' \in [Projects -> Statuses]
BY DerivedStatusType DEF TypeOK, SyncStatus

\* A job that has a project has one of Projects.
LEMMA JobsOfType ==
  ASSUME TypeOK, NEW p \in Projects
  PROVE  JobsOf(p) \subseteq Jobs
BY DEF JobsOf

-----------------------------------------------------------------------------
(* Type correctness.                                                       *)

\* The HTTP handlers (CreateJob, Enqueue) keep every variable in its type.
LEMMA HandlersTypeOK == TypeOK /\ Handlers => TypeOK'
<1> SUFFICES ASSUME TypeOK, Handlers PROVE TypeOK'
  OBVIOUS
<1> USE DEF TypeOK, tables, world, memory, boot, faults
<1>1. ASSUME NEW p \in Projects, NEW j \in Jobs, CreateJob(p, j) PROVE TypeOK'
  <2>1. status' \in [Projects -> Statuses]
    BY <1>1, SyncStatusType DEF CreateJob
  <2>2. jobStatus' \in [Jobs -> JobStatuses]
    BY <1>1 DEF CreateJob, JobStatuses, Active
  <2>3. \A i \in Jobs : jobStatus'[i] # "none" => jobProject'[i] \in Projects
    BY <1>1 DEF CreateJob
  <2> QED
    BY <1>1, <2>1, <2>2, <2>3 DEF CreateJob
<1>2. ASSUME NEW j \in Jobs, Enqueue(j) PROVE TypeOK'
  <2>1. queue' \in Seq(Jobs) /\ Len(queue') <= QueueCap
    BY <1>2, BoundsAssumption DEF Enqueue
  <2> QED
    BY <1>2, <2>1 DEF Enqueue
<1> QED
  BY <1>1, <1>2 DEF Handlers

\* Each step of processJob keeps every variable in its type; the worker record
\* holds a claimed job from build on, and a deployment to remove in removeOld.
LEMMA WorkerTypeOK == TypeOK /\ Worker => TypeOK'
<1> SUFFICES ASSUME TypeOK, Worker PROVE TypeOK'
  OBVIOUS
<1> USE DEF TypeOK, tables, world, memory, boot, faults, WorkerAt, Goto, WorkerPC, JobOrNone
<1>1. CASE Claim
  <2>1. queue' \in Seq(Jobs) /\ Len(queue') <= QueueCap /\ Head(queue) \in Jobs
    BY <1>1, HeadTailProperties, BoundsAssumption DEF Claim
  <2>2. jobStatus' \in [Jobs -> JobStatuses]
    BY <1>1, <2>1 DEF Claim, JobStatuses, Active
  <2> QED
    BY <1>1, <2>1, <2>2 DEF Claim, IdleWorker
<1>2. CASE ClaimFault
  <2>1. queue' \in Seq(Jobs) /\ Len(queue') <= QueueCap
    BY <1>2, HeadTailProperties, BoundsAssumption DEF ClaimFault
  <2> QED
    BY <1>2, <2>1, BoundsAssumption DEF ClaimFault
<1>3. CASE Build
  BY <1>3 DEF Build
<1>4. CASE StartApp
  <2>1. app' \in [Jobs -> AppStates]
    BY <1>4 DEF StartApp, AppStates
  <2> QED
    BY <1>4, <2>1 DEF StartApp
<1>5. CASE WaitReady
  BY <1>5 DEF WaitReady
<1>6. CASE LoadCurrent
  <2>1. CASE Goto("fail")
    BY <1>6, <2>1 DEF LoadCurrent, Goto, WorkerAt
  <2>2. CASE ~ Goto("fail")
    <3> DEFINE cur == current[jobProject[worker.job]]
    <3>1. worker.job \in Jobs /\ jobProject[worker.job] \in Projects /\ cur \in JobOrNone
      BY <1>6 DEF LoadCurrent, WorkerAt, JobOrNone
    <3>2. \/ cur \in {None, worker.job} /\ worker' = [worker EXCEPT !.pc = "promote"]
          \/ cur \in Jobs /\ worker' = [worker EXCEPT !.pc = "removeOld", !.old = cur]
      BY <1>6, <2>2, <3>1 DEF LoadCurrent, JobOrNone
    <3>3. UNCHANGED <<tables, world, memory, boot, faults>>
      BY <1>6 DEF LoadCurrent
    <3>4. worker' \in [pc : WorkerPC, job : JobOrNone, old : JobOrNone, target : JobOrNone]
      BY <3>2 DEF JobOrNone
    <3>5. /\ worker.pc = "load" /\ worker'.pc \in {"promote", "removeOld"}
          /\ worker'.job = worker.job /\ (worker'.pc = "removeOld" => worker'.old \in Jobs)
      BY <1>6, <3>2 DEF LoadCurrent, WorkerAt
    <3>6. jobProject[worker.job] \in Projects /\ jobStatus[worker.job] # "none"
      BY <3>5
    <3> QED
      BY <3>1, <3>3, <3>4, <3>5, <3>6
  <2> QED
    BY <2>1, <2>2
<1>7. CASE RemoveOld
  BY <1>7 DEF RemoveOld, AppStates, AfterFailedRemoval
<1>8. CASE Promote
  <2>1. status' \in [Projects -> Statuses]
    BY <1>8, SyncStatusType DEF Promote
  <2>2. jobStatus' \in [Jobs -> JobStatuses]
    BY <1>8 DEF Promote, JobStatuses
  <2> QED
    BY <1>8, <2>1, <2>2 DEF Promote
<1>9. CASE PromoteRollback
  <2>1. refused' \in 0 .. MaxRefused
    BY <1>9, BoundsAssumption DEF PromoteRollback
  <2>2. worker' = [worker EXCEPT !.pc = "fail"]
    BY <1>9 DEF PromoteRollback
  <2> QED
    BY <1>9, <2>1, <2>2 DEF PromoteRollback
<1>10. CASE FailJob
  <2>1. status' \in [Projects -> Statuses]
    BY <1>10, SyncStatusType DEF FailJob
  <2>2. jobStatus' \in [Jobs -> JobStatuses]
    BY <1>10 DEF FailJob, JobStatuses
  <2> QED
    BY <1>10, <2>1, <2>2 DEF FailJob, IdleWorker
<1>11. CASE FailJobFault
  BY <1>11, BoundsAssumption DEF FailJobFault, IdleWorker
<1>12. CASE ResolveRoute
  <2>1. PICK t \in RouteTargets(jobProject[worker.job]) :
          worker' = [worker EXCEPT !.pc = "write", !.target = t]
    BY <1>12 DEF ResolveRoute
  <2>2. t \in JobOrNone
    BY <1>12, <2>1 DEF ResolveRoute, RouteTargets
  <2> QED
    BY <1>12, <2>1, <2>2 DEF ResolveRoute
<1>13. CASE WriteRoute
  BY <1>13 DEF WriteRoute, IdleWorker
<1>14. CASE WriteRouteFault
  BY <1>14, BoundsAssumption DEF WriteRouteFault, IdleWorker
<1> QED
  BY <1>1, <1>2, <1>3, <1>4, <1>5, <1>6, <1>7, <1>8, <1>9, <1>10, <1>11, <1>12,
     <1>13, <1>14 DEF Worker

\* Adopt writes the tables and containers of p and leaves them well typed.
LEMMA AdoptType ==
  ASSUME TypeOK, NEW p \in Projects, NEW k \in Keepers(p), Adopt(p, k)
  PROVE  /\ k \in JobsOf(p) /\ app[k] = "running"
         /\ status' \in [Projects -> Statuses]
         /\ deployment' \in [Jobs -> {"none", "succeeded", "superseded"}]
         /\ current' \in [Projects -> JobOrNone]
         /\ app' \in [Jobs -> AppStates] /\ app'[k] = "running"
<1>1. k \in JobsOf(p) /\ app[k] = "running"
  BY DEF Keepers
<1>2. k \in Jobs
  BY <1>1 DEF JobsOf
<1>3. status' \in [Projects -> Statuses]
  BY SyncStatusType DEF Adopt
<1>4. deployment' \in [Jobs -> {"none", "succeeded", "superseded"}]
  BY DEF Adopt, Superseded, TypeOK
<1>5. current' \in [Projects -> JobOrNone]
  BY <1>2 DEF Adopt, TypeOK, JobOrNone
<1>6. app' \in [Jobs -> AppStates] /\ app'[k] = "running"
  BY <1>1, <1>2 DEF Adopt, TypeOK, AppStates
<1> QED
  BY <1>1, <1>3, <1>4, <1>5, <1>6

\* Each step of main.go's start-up sequence keeps every variable in its type.
LEMMA StartupTypeOK == TypeOK /\ Startup => TypeOK'
<1> SUFFICES ASSUME TypeOK, Startup PROVE TypeOK'
  OBVIOUS
<1> USE DEF TypeOK, tables, world, memory, boot, faults, Phases
<1>1. CASE Boot
  BY <1>1 DEF Boot
<1>2. CASE FinishPhase
  BY <1>2 DEF FinishPhase, NextPhase
<1>3. CASE StartWorker
  BY <1>3 DEF StartWorker
<1>4. CASE Listen
  BY <1>4 DEF Listen
<1>5. ASSUME NEW p \in Projects, ReconcileProject(p) PROVE TypeOK'
  <2>1. ASSUME NEW k \in Keepers(p), Adopt(p, k) PROVE TypeOK'
    BY <1>5, <2>1, AdoptType DEF ReconcileProject, Adopt
  <2>2. CASE UNCHANGED <<tables, app>>
    BY <1>5, <2>2 DEF ReconcileProject
  <2> QED
    BY <1>5, <2>1, <2>2 DEF ReconcileProject
<1>6. ASSUME NEW p \in Projects, ReconcileStatus(p) PROVE TypeOK'
  <2>1. status' \in [Projects -> Statuses]
    BY <1>6, SyncStatusType DEF ReconcileStatus
  <2> QED
    BY <1>6, <2>1 DEF ReconcileStatus
<1>7. ASSUME NEW p \in Projects, SyncIngress(p) PROVE TypeOK'
  BY <1>7, BoundsAssumption DEF SyncIngress, RouteTargets, JobOrNone
<1>8. ASSUME NEW j \in Jobs, RecoverJob(j) PROVE TypeOK'
  <2>1. jobProject[j] \in Projects
    BY <1>8 DEF RecoverJob
  <2> QED
    BY <1>8, <2>1, SyncStatusType DEF RecoverJob, JobStatuses
<1>9. ASSUME NEW j \in Jobs, EnqueueBacklog(j) PROVE TypeOK'
  <2>1. queue' \in Seq(Jobs) /\ Len(queue') <= QueueCap
    BY <1>9, BoundsAssumption DEF EnqueueBacklog
  <2> QED
    BY <1>9, <2>1 DEF EnqueueBacklog
<1> QED
  BY <1>1, <1>2, <1>3, <1>4, <1>5, <1>6, <1>7, <1>8, <1>9 DEF Startup

\* TypeOK is inductive.
LEMMA NextTypeOK == TypeOK /\ [Next]_vars => TypeOK'
<1> SUFFICES ASSUME TypeOK, [Next]_vars PROVE TypeOK'
  OBVIOUS
<1>1. CASE Handlers
  BY <1>1, HandlersTypeOK
<1>2. CASE Worker
  BY <1>2, WorkerTypeOK
<1>3. CASE Startup
  BY <1>3, StartupTypeOK
<1>4. CASE Crash
  BY <1>4, BoundsAssumption
  DEF TypeOK, Crash, tables, world, Phases, WorkerPC, JobOrNone, IdleWorker
<1>5. CASE UNCHANGED vars
  BY <1>5 DEF TypeOK, vars, tables, world, memory, boot, faults
<1> QED
  BY <1>1, <1>2, <1>3, <1>4, <1>5 DEF Next

\* A new database and an idle process are well typed.
LEMMA InitTypeOK == Init => TypeOK
BY BoundsAssumption
DEF Init, TypeOK, JobStatuses, Statuses, AppStates, Phases, JobOrNone, WorkerPC, IdleWorker

\* Every variable keeps its type: table rows, channel, worker and counters.
THEOREM TypeCorrect == Spec => []TypeOK
BY InitTypeOK, NextTypeOK, PTL DEF Spec

-----------------------------------------------------------------------------
(* The inductive invariant.  QueueSound needs WorkerOwnsJob (the job that   *)
(* fails or succeeds is not in the channel), which needs ClaimedFirst (the  *)
(* job that is claimed has no deployment row), which needs EmptyAtBoot      *)
(* (start-up adoption never meets a busy worker); SoleSucceededDeployment   *)
(* needs OldStays (the row superseded can only be the current one).         *)
(* TableInv survives runtime handlers beside the worker, CarriedOver does   *)
(* not: a removal may take the current deployment and its app away.         *)

\* What the worker read as current is the current deployment of its project for as
\* long as there is one.
OldStays ==
  /\ worker.pc \in {"build", "startApp", "wait", "load"} => worker.old = None
  /\ worker.pc \in {"removeOld", "promote"} =>
       current[jobProject[worker.job]] \in {None, worker.old}
  /\ worker.pc \in {"removeOld", "promote", "fail"} /\ worker.old # None =>
       worker.old \in JobsOf(jobProject[worker.job]) /\ jobStatus[worker.old] # "none"

TableInv ==
  /\ TypeOK
  /\ OneActiveJob
  /\ QueueSound
  /\ WorkerOwnsJob
  /\ SoleSucceededDeployment
  /\ ClaimedFirst
  /\ EmptyAtBoot
  /\ OldStays

PipelineInv == TableInv /\ CarriedOver

\* A step preserves TableInv, and CarriedOver if it held as well.
Kept == TableInv' /\ (CarriedOver => CarriedOver')

\* A new database and an idle process satisfy the inductive invariant.
LEMMA InitPipelineInv == Init => PipelineInv
<1> SUFFICES ASSUME Init PROVE PipelineInv
  OBVIOUS
<1>1. TypeOK
  BY InitTypeOK
<1>2. /\ OneActiveJob /\ WorkerOwnsJob /\ ClaimedFirst /\ EmptyAtBoot
      /\ CarriedOver /\ OldStays
  BY NoneAssumption DEF Init, OneActiveJob, WorkerOwnsJob, ClaimedFirst, CarriedOver, OldStays,
     EmptyAtBoot, Active, IdleWorker, Processing, WorkerPC, Serving
<1>3. QueueSound
  BY DEF Init, QueueSound, Queued
<1>4. SoleSucceededDeployment
  BY NoneAssumption DEF Init, SoleSucceededDeployment, JobsOf
<1> QED
  BY <1>1, <1>2, <1>3, <1>4 DEF PipelineInv, TableInv

\* Steps that write no table and no part of memory.
LEMMA TablesAndMemoryKept ==
  ASSUME TableInv, UNCHANGED <<tables, memory>>
  PROVE  OneActiveJob' /\ QueueSound' /\ SoleSucceededDeployment'
BY DEF TableInv, tables, memory, OneActiveJob, QueueSound, Queued,
   SoleSucceededDeployment, JobsOf, Active

-----------------------------------------------------------------------------
(* Each action preserves the inductive invariant.                          *)

\* createQueuedJobWithSource: the new row is the only active one of its project,
\* and its handler is the only holder of its id.
LEMMA CreateJobInv ==
  ASSUME TableInv, NEW p \in Projects, NEW j \in Jobs, CreateJob(p, j)
  PROVE  Kept
<1> USE DEF TableInv, Kept
<1>1. TypeOK'
  BY HandlersTypeOK DEF Handlers
<1>2. /\ jobStatus[j] = "none" /\ brain = "up"
      /\ \A i \in Jobs : jobProject[i] = p => jobStatus[i] \notin Active
      /\ jobProject' = [jobProject EXCEPT ![j] = p]
      /\ jobStatus' = [jobStatus EXCEPT ![j] = "queued"]
      /\ waiting' = waiting \cup {j}
      /\ UNCHANGED <<deployment, current, app, queue, backlog, worker, brain>>
  BY DEF CreateJob, HasActiveJob, JobsOf, world, boot
<1>3. app[j] = "absent" /\ deployment[j] = "none"
  BY <1>2 DEF ClaimedFirst
<1>4. OneActiveJob'
  BY <1>2 DEF OneActiveJob, TypeOK
<1>5. QueueSound'
  <2>1. j \notin Queued \cup waiting \cup backlog
    BY <1>2 DEF QueueSound
  <2>2. Queued' = Queued
    BY <1>2 DEF Queued
  <2>3. \A i \in Queued \cup waiting \cup backlog : jobStatus'[i] = "queued"
    BY <1>2, <2>1 DEF QueueSound, TypeOK
  <2> QED
    BY <1>2, <2>1, <2>2, <2>3 DEF QueueSound, TypeOK
<1>6. WorkerOwnsJob'
  BY <1>2 DEF WorkerOwnsJob, TypeOK, Processing
<1>7. SoleSucceededDeployment'
  BY <1>2, <1>3, NoneAssumption DEF SoleSucceededDeployment, JobsOf, TypeOK, JobOrNone
<1>8. ClaimedFirst'
  BY <1>2, <1>3 DEF ClaimedFirst, TypeOK
<1>9. worker.pc \in Processing => worker.job \in Jobs \ {j}
  BY <1>2 DEF WorkerOwnsJob, TypeOK, Processing, WorkerPC
<1>10. OldStays'
  BY <1>2, <1>9 DEF OldStays, JobsOf, TypeOK, Processing, WorkerPC
<1>11. (CarriedOver => CarriedOver') /\ EmptyAtBoot'
  BY <1>2, <1>9 DEF CarriedOver, EmptyAtBoot, TypeOK, Serving, Processing, WorkerPC
<1> QED
  BY <1>1, <1>4, <1>5, <1>6, <1>7, <1>8, <1>10, <1>11

\* A handler or Start sends an id it held: it moves, it is not copied.
LEMMA SendInv ==
  ASSUME TableInv, NEW j \in Jobs, Enqueue(j) \/ EnqueueBacklog(j)
  PROVE  Kept
<1> USE DEF TableInv, Kept
<1>1. TypeOK'
  BY HandlersTypeOK, StartupTypeOK DEF Handlers, Startup
<1>2. /\ j \in waiting \cup backlog
      /\ queue' = Append(queue, j)
      /\ waiting' \subseteq waiting /\ backlog' \subseteq backlog
      /\ j \notin waiting' \cup backlog'
      /\ brain \in {"enqueue", "up"}
      /\ UNCHANGED <<tables, app, worker, brain>>
  BY DEF Enqueue, EnqueueBacklog, world, boot, QueueSound
<1>3. QueueSound'
  <2>1. queue \in Seq(Jobs) /\ j \notin Queued
    BY <1>2 DEF QueueSound, TypeOK
  <2>2. Queued' = Queued \cup {j}
    BY <1>2, <2>1, Sent DEF Queued, QueueSound
  <2>3. \A i, k \in DOMAIN queue' : queue'[i] = queue'[k] => i = k
    BY <1>2, <2>1, Sent DEF Queued, QueueSound
  <2> QED
    BY <1>2, <2>2, <2>3 DEF QueueSound, tables
<1>4. OneActiveJob' /\ SoleSucceededDeployment'
  BY <1>2 DEF tables, OneActiveJob, SoleSucceededDeployment, JobsOf
<1>5. WorkerOwnsJob' /\ ClaimedFirst' /\ (CarriedOver => CarriedOver') /\ EmptyAtBoot'
  BY <1>2 DEF tables, WorkerOwnsJob, ClaimedFirst, CarriedOver, EmptyAtBoot, Serving
<1>6. OldStays'
  BY <1>2 DEF tables, OldStays, JobsOf
<1> QED
  BY <1>1, <1>3, <1>4, <1>5, <1>6

\* The worker receives an id: it has left the channel, and its row is still queued
\* unless the claim makes it running.
LEMMA ReceiveInv ==
  ASSUME TableInv, Claim \/ ClaimFault
  PROVE  Kept
<1> USE DEF TableInv, Kept
<1> DEFINE j == Head(queue)
<1>1. TypeOK'
  BY WorkerTypeOK DEF Worker
<1>2. /\ worker.pc = "idle" /\ Serving
      /\ queue # <<>> /\ queue' = Tail(queue) /\ queue \in Seq(Jobs)
      /\ UNCHANGED <<jobProject, deployment, current, app, waiting, backlog, brain>>
  BY DEF Claim, ClaimFault, WorkerAt, tables, world, boot, TypeOK
<1>3. j \in Queued /\ Queued' = Queued \ {j}
      /\ \A i, k \in DOMAIN queue' : queue'[i] = queue'[k] => i = k
  <2>1. \A i, k \in DOMAIN queue : queue[i] = queue[k] => i = k
    BY DEF QueueSound
  <2>2. /\ Head(queue) \in {queue[i] : i \in DOMAIN queue}
        /\ {Tail(queue)[i] : i \in DOMAIN Tail(queue)}
              = {queue[i] : i \in DOMAIN queue} \ {Head(queue)}
        /\ \A i, k \in DOMAIN Tail(queue) : Tail(queue)[i] = Tail(queue)[k] => i = k
    BY <1>2, <2>1, Received
  <2> QED
    BY <1>2, <2>2 DEF Queued
<1>4. j \in Jobs /\ jobStatus[j] = "queued" /\ j \notin waiting \cup backlog
  BY <1>2, <1>3, HeadTailProperties DEF QueueSound
<1>5. /\ jobStatus' \in {jobStatus, [jobStatus EXCEPT ![j] = "running"]}
      /\ \/ jobStatus' = jobStatus /\ worker' = worker
         \/ /\ jobStatus' = [jobStatus EXCEPT ![j] = "running"]
            /\ worker' = [IdleWorker EXCEPT !.pc = "build", !.job = j]
  BY DEF Claim, ClaimFault, tables
<1>6. \A i \in Jobs \ {j} : jobStatus'[i] = jobStatus[i]
  BY <1>4, <1>5 DEF TypeOK
<1>7. jobStatus'[j] \in Active
  BY <1>4, <1>5 DEF TypeOK, Active
<1>8. QueueSound'
  <2>1. Queued' \subseteq Queued /\ j \notin Queued'
    BY <1>3
  <2>2. Queued \cup waiting \cup backlog \subseteq Jobs
    BY ElementOfSeq, LenProperties DEF Queued, TypeOK
  <2>3. \A i \in Queued' \cup waiting \cup backlog : jobStatus'[i] = "queued"
    BY <1>4, <1>6, <2>1, <2>2 DEF QueueSound
  <2> QED
    BY <1>2, <1>3, <2>1, <2>3 DEF QueueSound
<1>9. OneActiveJob'
  BY <1>2, <1>4, <1>6, <1>7 DEF OneActiveJob, Active
<1>10. deployment[j] = "none"
  BY <1>4 DEF ClaimedFirst
<1>11. WorkerOwnsJob'
  <2>1. CASE worker' = worker
    BY <1>2, <2>1 DEF WorkerOwnsJob, Processing
  <2>2. CASE /\ jobStatus' = [jobStatus EXCEPT ![j] = "running"]
             /\ worker' = [IdleWorker EXCEPT !.pc = "build", !.job = j]
    <3>1. worker'.job = j
      BY <2>2 DEF IdleWorker
    <3>2. jobStatus'[j] = "running"
      BY <1>4, <2>2 DEF TypeOK
    <3> QED
      BY <1>2, <1>10, <3>1, <3>2 DEF WorkerOwnsJob
  <2> QED
    BY <1>5, <2>1, <2>2
<1>12. SoleSucceededDeployment'
  BY <1>2 DEF SoleSucceededDeployment, JobsOf
<1>13. ClaimedFirst'
  BY <1>2, <1>4, <1>5 DEF ClaimedFirst, TypeOK
<1>14. (CarriedOver => CarriedOver') /\ OldStays' /\ EmptyAtBoot'
  BY <1>2, <1>5 DEF CarriedOver, OldStays, EmptyAtBoot, IdleWorker, Serving
<1> QED
  BY <1>1, <1>8, <1>9, <1>11, <1>12, <1>13, <1>14

\* The steps of Process that leave tables and channel alone.
LEMMA ProcessInv ==
  ASSUME TableInv,
         Build \/ StartApp \/ WaitReady \/ LoadCurrent \/ RemoveOld \/ PromoteRollback
  PROVE  Kept
<1> USE DEF TableInv, Kept
<1>1. TypeOK'
  BY WorkerTypeOK DEF Worker
<1>2. UNCHANGED <<tables, memory, brain>> /\ Serving /\ worker'.job = worker.job
      /\ worker.pc \in Processing
  <2>1. UNCHANGED <<tables, memory, brain>> /\ Serving
    BY DEF Build, StartApp, WaitReady, LoadCurrent, RemoveOld, PromoteRollback, WorkerAt, boot
  <2>2. worker.pc \in Processing
    BY DEF Build, StartApp, WaitReady, LoadCurrent, RemoveOld, PromoteRollback, WorkerAt,
       Processing, WorkerPC
  <2>3. worker'.job = worker.job
    BY DEF Build, StartApp, WaitReady, LoadCurrent, RemoveOld, PromoteRollback, Goto, TypeOK
  <2> QED
    BY <2>1, <2>2, <2>3
<1>3. OneActiveJob' /\ QueueSound' /\ SoleSucceededDeployment'
  BY <1>2, TablesAndMemoryKept
<1>4. WorkerOwnsJob' /\ EmptyAtBoot'
  BY <1>2 DEF WorkerOwnsJob, EmptyAtBoot, tables, memory, Serving
<1>5. worker.job \in Jobs /\ jobStatus[worker.job] = "running" /\ deployment[worker.job] = "none"
      /\ jobProject[worker.job] \in Projects
  BY <1>2 DEF WorkerOwnsJob, TypeOK, Processing
<1>6. CASE Build \/ StartApp \/ WaitReady \/ LoadCurrent \/ PromoteRollback
  <2>1. \A i \in Jobs : i # worker.job => app'[i] = app[i]
    BY <1>5, <1>6 DEF TypeOK, Build, StartApp, WaitReady, LoadCurrent, PromoteRollback, world
  <2>2. ClaimedFirst'
    BY <1>2, <1>5, <2>1 DEF ClaimedFirst, tables
  <2>3. (CarriedOver => CarriedOver') /\ OldStays'
    <3>1. CASE Build
      BY <1>2, <3>1 DEF Build, CarriedOver, OldStays, JobsOf, TypeOK, WorkerAt, Goto,
         tables
    <3>2. CASE StartApp
      BY <1>2, <3>2 DEF StartApp, CarriedOver, OldStays, JobsOf, TypeOK, WorkerAt, Goto,
         tables
    <3>3. CASE WaitReady
      BY <1>2, <3>3 DEF WaitReady, CarriedOver, OldStays, JobsOf, TypeOK, WorkerAt, Goto,
         tables
    <3>4. CASE LoadCurrent
      <4>1. /\ current[jobProject[worker.job]] # worker.job
            /\ current[jobProject[worker.job]] # None =>
                 /\ current[jobProject[worker.job]] \in JobsOf(jobProject[worker.job])
                 /\ jobStatus[current[jobProject[worker.job]]] # "none"
        BY <1>5 DEF SoleSucceededDeployment, JobsOf, ClaimedFirst
      <4>2. CASE Goto("fail")
        BY <1>2, <3>4, <4>2 DEF LoadCurrent, CarriedOver, OldStays, TypeOK, WorkerAt, Goto,
           world
      <4>3. CASE ~ Goto("fail")
        BY <1>2, <3>4, <4>1, <4>3, ZenonT(30) DEF LoadCurrent, CarriedOver, OldStays, JobsOf, TypeOK,
           WorkerAt, tables, world
      <4> QED
        BY <4>2, <4>3
    <3>5. CASE PromoteRollback
      BY <1>2, <3>5 DEF PromoteRollback, CarriedOver, OldStays, JobsOf, TypeOK, WorkerAt, Goto,
         tables
    <3> QED
      BY <1>6, <3>1, <3>2, <3>3, <3>4, <3>5
  <2> QED
    BY <1>1, <1>3, <1>4, <2>2, <2>3
<1>7. CASE RemoveOld
  <2>1. worker.pc = "removeOld" /\ worker.old \in Jobs /\ worker'.old = worker.old
    BY <1>7 DEF RemoveOld, WorkerAt, TypeOK, Goto
  <2>2. \A i \in Jobs : app'[i] # "absent" => app[i] # "absent" \/ i = worker.job
    BY <1>5, <1>7, <2>1 DEF RemoveOld, TypeOK, AfterFailedRemoval
  <2>3. ClaimedFirst'
    BY <1>2, <1>5, <2>2 DEF ClaimedFirst, tables
  <2>4. OldStays'
    BY <1>2, <1>7, <2>1 DEF RemoveOld, OldStays, JobsOf, TypeOK, Goto, tables
  <2>5. ASSUME CarriedOver PROVE CarriedOver'
    <3>1. worker.old = current[jobProject[worker.job]]
      BY <2>1, <2>5 DEF CarriedOver
    <3>2. deployment[worker.old] = "succeeded" /\ worker.old # worker.job
      BY <1>5, <2>1, <3>1, NoneAssumption DEF SoleSucceededDeployment, JobsOf
    <3> QED
      BY <1>2, <1>5, <1>7, <2>1, <2>5, <3>1, <3>2
      DEF RemoveOld, CarriedOver, TypeOK, Goto, tables
  <2> QED
    BY <1>1, <1>3, <1>4, <2>3, <2>4, <2>5
<1> QED
  BY <1>6, <1>7

\* The steps after the transaction: a logged failure, and the route.
LEMMA AfterwardsInv ==
  ASSUME TableInv, FailJobFault \/ ResolveRoute \/ WriteRoute \/ WriteRouteFault
  PROVE  Kept
<1> USE DEF TableInv, Kept
<1>1. TypeOK'
  BY WorkerTypeOK DEF Worker
<1>2. UNCHANGED <<tables, memory, brain, app>> /\ Serving /\ worker'.pc \in {"idle", "write"}
  <2>1. UNCHANGED <<tables, memory, brain, app>> /\ Serving
    BY DEF FailJobFault, ResolveRoute, WriteRoute, WriteRouteFault, WorkerAt, boot, world
  <2>2. worker'.pc \in {"idle", "write"}
    <3>1. CASE ResolveRoute
      BY <3>1 DEF ResolveRoute, TypeOK
    <3>2. CASE FailJobFault \/ WriteRoute \/ WriteRouteFault
      BY <3>2 DEF FailJobFault, WriteRoute, WriteRouteFault, IdleWorker
    <3> QED
      BY <3>1, <3>2
  <2> QED
    BY <2>1, <2>2
<1>3. OneActiveJob' /\ QueueSound' /\ SoleSucceededDeployment'
  BY <1>2, TablesAndMemoryKept
<1>4. WorkerOwnsJob' /\ (CarriedOver => CarriedOver') /\ OldStays'
  BY <1>2 DEF WorkerOwnsJob, CarriedOver, OldStays, Processing
<1>5. EmptyAtBoot' /\ ClaimedFirst'
  BY <1>2 DEF EmptyAtBoot, ClaimedFirst, tables, memory, Serving
<1> QED
  BY <1>1, <1>3, <1>4, <1>5

\* The transaction of markJobSucceeded.
LEMMA PromoteInv ==
  ASSUME TableInv, Promote
  PROVE  Kept
<1> USE DEF TableInv, Kept
<1> DEFINE j == worker.job
           p == jobProject[j]
<1>1. TypeOK'
  BY WorkerTypeOK DEF Worker
<1>2. /\ worker.pc = "promote" /\ worker'.pc = "resolve" /\ Serving
      /\ jobStatus' = [jobStatus EXCEPT ![j] = "succeeded"]
      /\ deployment' = [i \in Jobs |-> IF i = j THEN "succeeded"
                                       ELSE IF i = worker.old THEN "superseded"
                                       ELSE deployment[i]]
      /\ current' = [current EXCEPT ![p] = j]
      /\ UNCHANGED <<jobProject, app, queue, waiting, backlog, brain>>
  BY DEF Promote, WorkerAt, Goto, TypeOK, world, memory, boot
<1>3. /\ j \in Jobs /\ jobStatus[j] = "running" /\ deployment[j] = "none"
      /\ p \in Projects /\ worker.old = current[p]
  <2>1. /\ j \in Jobs /\ jobStatus[j] = "running" /\ deployment[j] = "none"
        /\ p \in Projects /\ current[p] \in {None, worker.old}
        /\ worker.old # None => worker.old \in JobsOf(p)
    BY <1>2 DEF WorkerOwnsJob, OldStays, TypeOK, Processing, WorkerPC
  <2>2. worker.old # None => current[p] = worker.old
    BY <2>1 DEF Promote, Promotable, SoleSucceededDeployment
  <2> QED
    BY <2>1, <2>2
<1>4. OneActiveJob'
  BY <1>2 DEF OneActiveJob, Active, TypeOK
<1>5. QueueSound'
  <2>1. j \notin Queued \cup waiting \cup backlog
    BY <1>3 DEF QueueSound
  <2>2. Queued' = Queued
    BY <1>2 DEF Queued
  <2> QED
    BY <1>2, <2>1, <2>2 DEF QueueSound, TypeOK
<1>6. WorkerOwnsJob' /\ (CarriedOver => CarriedOver') /\ OldStays' /\ EmptyAtBoot'
  BY <1>2 DEF WorkerOwnsJob, CarriedOver, OldStays, EmptyAtBoot, Processing, Serving
<1>7. ClaimedFirst'
  <2>1. worker.old \in Jobs => deployment[worker.old] = "succeeded"
    BY <1>3, NoneAssumption DEF SoleSucceededDeployment, JobsOf
  <2> QED
    BY <1>2, <1>3, <2>1 DEF ClaimedFirst, TypeOK
<1>8. SoleSucceededDeployment'
  <2> SUFFICES ASSUME NEW q \in Projects
               PROVE  /\ current'[q] # None => current'[q] \in Jobs /\ jobProject[current'[q]] = q
                      /\ \A i \in Jobs : jobProject[i] = q =>
                           (deployment'[i] = "succeeded" <=> current'[q] = i)
    BY <1>2 DEF SoleSucceededDeployment, JobsOf
  <2>1. CASE q = p
    BY <1>2, <1>3, <2>1 DEF SoleSucceededDeployment, JobsOf, TypeOK
  <2>2. CASE q # p
    BY <1>2, <1>3, <2>2, NoneAssumption DEF SoleSucceededDeployment, JobsOf, TypeOK
  <2> QED
    BY <2>1, <2>2
<1> QED
  BY <1>1, <1>4, <1>5, <1>6, <1>7, <1>8

\* A running job is marked failed, by the worker or at start-up.
LEMMA FailInv ==
  ASSUME TableInv, NEW j \in Jobs,
         (FailJob /\ j = worker.job) \/ RecoverJob(j)
  PROVE  Kept
<1> USE DEF TableInv, Kept
<1>1. TypeOK'
  BY WorkerTypeOK, StartupTypeOK DEF Worker, Startup
<1>2. /\ jobStatus[j] = "running"
      /\ jobStatus' = [jobStatus EXCEPT ![j] = "failed"]
      /\ UNCHANGED <<jobProject, deployment, current, app, queue, waiting, backlog, brain>>
      /\ worker' = IdleWorker \/ (worker' = worker /\ ~ Serving)
  <2>1. CASE FailJob /\ j = worker.job
    BY <2>1 DEF FailJob, world, memory, boot
  <2>2. CASE RecoverJob(j)
    BY <2>2 DEF RecoverJob, world, memory, boot, Serving
  <2> QED
    BY <2>1, <2>2
<1>3. worker'.pc = "idle" /\ (~ Serving => worker' = IdleWorker)
  BY <1>2 DEF EmptyAtBoot, IdleWorker
<1>4. OneActiveJob'
  BY <1>2 DEF OneActiveJob, Active, TypeOK
<1>5. QueueSound'
  <2>1. j \notin Queued \cup waiting \cup backlog
    BY <1>2 DEF QueueSound
  <2>2. Queued' = Queued
    BY <1>2 DEF Queued
  <2> QED
    BY <1>2, <2>1, <2>2 DEF QueueSound, TypeOK
<1>6. WorkerOwnsJob' /\ (CarriedOver => CarriedOver') /\ OldStays'
  BY <1>3 DEF WorkerOwnsJob, CarriedOver, OldStays, Processing
<1>7. EmptyAtBoot'
  BY <1>2, <1>3 DEF EmptyAtBoot, Serving
<1>8. ClaimedFirst'
  BY <1>2 DEF ClaimedFirst, TypeOK
<1>9. SoleSucceededDeployment'
  BY <1>2 DEF SoleSucceededDeployment, JobsOf
<1> QED
  BY <1>1, <1>4, <1>5, <1>6, <1>7, <1>8, <1>9

\* A crash empties the memory and leaves tables and containers as they are.
LEMMA CrashInv ==
  ASSUME TableInv, Crash
  PROVE  Kept
<1> USE DEF TableInv, Kept
<1>1. TypeOK'
  BY NextTypeOK DEF Next
<1>2. /\ brain' = "down" /\ worker' = IdleWorker
      /\ queue' = <<>> /\ waiting' = {} /\ backlog' = {}
      /\ UNCHANGED <<tables, app>>
  BY DEF Crash, world
<1>3. QueueSound'
  BY <1>2 DEF QueueSound, Queued
<1>4. OneActiveJob' /\ SoleSucceededDeployment' /\ ClaimedFirst'
  BY <1>2 DEF tables, OneActiveJob, SoleSucceededDeployment, JobsOf, ClaimedFirst
<1>5. WorkerOwnsJob' /\ (CarriedOver => CarriedOver') /\ OldStays' /\ EmptyAtBoot'
  BY <1>2 DEF WorkerOwnsJob, CarriedOver, OldStays, EmptyAtBoot, IdleWorker, Processing, Serving
<1> QED
  BY <1>1, <1>3, <1>4, <1>5

\* Steps of the start-up sequence that write neither tables nor channel.
LEMMA PhaseInv ==
  ASSUME TableInv,
         \/ Boot \/ FinishPhase \/ StartWorker \/ Listen
         \/ \E p \in Projects : ReconcileStatus(p) \/ SyncIngress(p)
  PROVE  Kept
<1> USE DEF TableInv, Kept
<1>1. TypeOK'
  BY StartupTypeOK DEF Startup
<1>2. UNCHANGED <<jobProject, jobStatus, deployment, current, app, queue, waiting, worker>>
  BY DEF Boot, FinishPhase, StartWorker, Listen, ReconcileStatus, SyncIngress, tables,
     world, memory
<1>3. /\ ~ Serving' => ~ Serving
      /\ brain' # "up" => brain # "up"
  BY DEF Boot, FinishPhase, StartWorker, Listen, ReconcileStatus, SyncIngress, Serving,
     NextPhase
<1>4. /\ OneActiveJob' /\ SoleSucceededDeployment' /\ ClaimedFirst' /\ WorkerOwnsJob'
      /\ (CarriedOver => CarriedOver') /\ OldStays'
  BY <1>2 DEF OneActiveJob, SoleSucceededDeployment, JobsOf, ClaimedFirst, WorkerOwnsJob,
     CarriedOver, OldStays
<1>5. CASE StartWorker
  <2>1. brain = "recover" /\ brain' = "enqueue"
        /\ backlog' = {j \in Jobs : jobStatus[j] = "queued"}
    BY <1>5 DEF StartWorker
  <2>2. queue = <<>> /\ waiting = {} /\ worker = IdleWorker
    BY <2>1 DEF EmptyAtBoot, Serving
  <2>3. Queued' = {}
    BY <1>2, <2>2 DEF Queued
  <2>4. QueueSound'
    BY <1>2, <2>1, <2>2, <2>3 DEF QueueSound
  <2>5. EmptyAtBoot'
    BY <1>2, <2>1, <2>2 DEF EmptyAtBoot, Serving
  <2> QED
    BY <1>1, <1>4, <2>4, <2>5
<1>6. CASE ~ StartWorker
  <2>1. backlog' = backlog /\ (brain' # "enqueue" => backlog = {})
    BY <1>6 DEF Boot, FinishPhase, Listen, ReconcileStatus, SyncIngress, memory,
       NextPhase, EmptyAtBoot
  <2>2. QueueSound'
    BY <1>2, <2>1 DEF QueueSound, Queued
  <2>3. EmptyAtBoot'
    BY <1>2, <1>3, <2>1 DEF EmptyAtBoot
  <2> QED
    BY <1>1, <1>4, <2>2, <2>3
<1> QED
  BY <1>5, <1>6

\* Adoption meets an idle worker, and the app it keeps belongs to a claimed job.
LEMMA ReconcileInv ==
  ASSUME TableInv, NEW p \in Projects, ReconcileProject(p)
  PROVE  Kept
<1> USE DEF TableInv, Kept
<1>1. TypeOK'
  BY StartupTypeOK DEF Startup
<1>2. brain = "reconcile" /\ UNCHANGED <<queue, waiting, backlog, worker, brain>>
  BY DEF ReconcileProject, memory
<1>3. worker = IdleWorker
  BY <1>2 DEF EmptyAtBoot, Serving
<1>4. WorkerOwnsJob' /\ (CarriedOver => CarriedOver') /\ OldStays' /\ EmptyAtBoot'
  BY <1>2, <1>3 DEF WorkerOwnsJob, CarriedOver, OldStays, EmptyAtBoot, IdleWorker, Processing, Serving
<1>5. CASE UNCHANGED <<tables, app>>
  BY <1>1, <1>2, <1>4, <1>5 DEF tables, OneActiveJob, QueueSound, Queued,
     SoleSucceededDeployment, JobsOf, ClaimedFirst
<1>6. ASSUME NEW k \in Keepers(p), Adopt(p, k) PROVE Kept
  <2>1. /\ deployment' = [j \in Jobs |-> IF j = k THEN "succeeded"
                                         ELSE IF j \in JobsOf(p) /\ deployment[j] = "succeeded"
                                              THEN "superseded"
                                         ELSE deployment[j]]
        /\ current' = [current EXCEPT ![p] = k]
        /\ UNCHANGED <<jobProject, jobStatus>>
    BY <1>6 DEF Adopt, Superseded
  <2>2. k \in Jobs /\ jobProject[k] = p /\ app[k] = "running"
    BY <1>6, AdoptType DEF JobsOf
  <2>3. OneActiveJob' /\ QueueSound'
    BY <1>2, <2>1 DEF OneActiveJob, QueueSound, Queued, Active
  <2>4. \A j \in Jobs : app'[j] # "absent" => app[j] # "absent"
    BY <1>6 DEF Adopt, TypeOK
  <2>5. ClaimedFirst'
    BY <2>1, <2>2, <2>4 DEF ClaimedFirst
  <2>6. SoleSucceededDeployment'
    <3> SUFFICES ASSUME NEW q \in Projects
                 PROVE  /\ current'[q] # None => current'[q] \in Jobs /\ jobProject[current'[q]] = q
                        /\ \A i \in Jobs : jobProject[i] = q =>
                             (deployment'[i] = "succeeded" <=> current'[q] = i)
      BY <2>1 DEF SoleSucceededDeployment, JobsOf
    <3>1. CASE q = p
      BY <2>1, <2>2, <3>1 DEF SoleSucceededDeployment, JobsOf, TypeOK
    <3>2. CASE q # p
      BY <2>1, <2>2, <3>2 DEF SoleSucceededDeployment, JobsOf, TypeOK
    <3> QED
      BY <3>1, <3>2
  <2> QED
    BY <1>1, <1>4, <2>3, <2>5, <2>6
<1> QED
  BY <1>5, <1>6 DEF ReconcileProject

\* One case per disjunct of Next.
LEMMA NextTableInv == TableInv /\ [Next]_vars => Kept
<1> SUFFICES ASSUME TableInv, [Next]_vars PROVE Kept
  OBVIOUS
<1>1. CASE Handlers
  BY <1>1, CreateJobInv, SendInv DEF Handlers
<1>2. CASE Worker
  <2>1. ASSUME FailJob PROVE Kept
    <3>1. worker.job \in Jobs
      BY <2>1 DEF FailJob, WorkerAt, TableInv, TypeOK
    <3> QED
      BY <2>1, <3>1, FailInv
  <2> QED
    BY <1>2, <2>1, ReceiveInv, ProcessInv, AfterwardsInv, PromoteInv DEF Worker
<1>3. CASE Startup
  BY <1>3, PhaseInv, ReconcileInv, FailInv, SendInv DEF Startup
<1>4. CASE Crash
  BY <1>4, CrashInv
<1>5. CASE UNCHANGED vars
  <2>1. TypeOK'
    BY <1>5, NextTypeOK DEF TableInv
  <2> QED
    BY <1>5, <2>1 DEF vars, tables, world, memory, boot, TableInv, OneActiveJob,
       QueueSound, Queued, WorkerOwnsJob, SoleSucceededDeployment, JobsOf, ClaimedFirst,
       CarriedOver, OldStays, EmptyAtBoot, Serving, Kept
<1> QED
  BY <1>1, <1>2, <1>3, <1>4, <1>5 DEF Next

\* PipelineInv is inductive.
LEMMA NextPipelineInv == PipelineInv /\ [Next]_vars => PipelineInv'
BY NextTableInv DEF PipelineInv, Kept

\* The inductive invariant holds in every reachable state.
THEOREM PipelineInvariant == Spec => []PipelineInv
BY InitPipelineInv, NextPipelineInv, PTL DEF Spec

-----------------------------------------------------------------------------
(* The properties, for every instance.                                     *)

\* Two jobs of a project are never active at once: the check and the insert of
\* createQueuedJobWithSource are one transaction.
THEOREM OneActiveJobAlways == Spec => []OneActiveJob
BY PipelineInvariant, PTL DEF PipelineInv, TableInv

\* A job id is in the channel, with a blocked handler or in Start's list, once,
\* and only while its row is queued: no job is processed twice.
THEOREM QueueAlwaysSound == Spec => []QueueSound
BY PipelineInvariant, PTL DEF PipelineInv, TableInv

\* Process works on a running job without a deployment row, at every step.
THEOREM WorkerAlwaysOwnsJob == Spec => []WorkerOwnsJob
BY PipelineInvariant, PTL DEF PipelineInv, TableInv

\* projects.current_deployment_id and the succeeded row of deployments agree.
THEOREM SoleSucceededAlways == Spec => []SoleSucceededDeployment
BY PipelineInvariant, PTL DEF PipelineInv, TableInv

\* What the three above need beside them.
THEOREM BookkeepingAlways == Spec => []Bookkeeping
BY PipelineInvariant, PTL DEF PipelineInv, TableInv, Bookkeeping

\* A step that switches a project to another deployment switches it to one whose
\* app runs, in the promotion as in the adoption at start-up.
THEOREM SwitchAlwaysToRunningApp == Spec => SwitchToRunningApp
<1> DEFINE Switch == \A p \in Projects :
      current'[p] # current[p] => current'[p] \in Jobs /\ app'[current'[p]] = "running"
<1>1. ASSUME PipelineInv, [Next]_vars PROVE [Switch]_vars
  <2>1. CASE current' = current
    BY <2>1
  <2>2. CASE Promote
    <3>1. app[worker.job] = "running" /\ worker.job \in Jobs /\ app' = app
      BY <1>1, <2>2 DEF Promote, WorkerAt, world, PipelineInv, TableInv, CarriedOver, TypeOK
    <3> QED
      BY <1>1, <2>2, <3>1 DEF Promote, PipelineInv, TableInv, TypeOK
  <2>3. ASSUME NEW p \in Projects, ReconcileProject(p), current' # current PROVE Switch
    <3>1. PICK k \in Keepers(p) : Adopt(p, k)
      BY <2>3 DEF ReconcileProject, tables
    <3>2. k \in Jobs /\ app'[k] = "running" /\ current' = [current EXCEPT ![p] = k]
      BY <1>1, <3>1, AdoptType DEF Adopt, JobsOf, PipelineInv, TableInv
    <3> QED
      BY <1>1, <3>2 DEF PipelineInv, TableInv, TypeOK
  <2>4. ASSUME Next, ~ Promote, \A p \in Projects : ~ ReconcileProject(p)
        PROVE  current' = current
    <3>1. ASSUME Handlers \/ Crash PROVE current' = current
      BY <3>1 DEF Handlers, CreateJob, Enqueue, Crash, tables
    <3>2. ASSUME Worker PROVE current' = current
      BY <2>4, <3>2 DEF Worker, Claim, ClaimFault, Build, StartApp, WaitReady, LoadCurrent,
         RemoveOld, PromoteRollback, FailJob, FailJobFault, ResolveRoute, WriteRoute,
         WriteRouteFault, tables
    <3>3. ASSUME Startup PROVE current' = current
      BY <2>4, <3>3 DEF Startup, Boot, FinishPhase, StartWorker, Listen, ReconcileStatus,
         SyncIngress, RecoverJob, EnqueueBacklog, tables
    <3> QED
      BY <2>4, <3>1, <3>2, <3>3 DEF Next
  <2> QED
    BY <1>1, <2>1, <2>2, <2>3, <2>4 DEF vars, tables
<1> QED
  BY <1>1, PipelineInvariant, PTL DEF Spec, SwitchToRunningApp
-----------------------------------------------------------------------------
(* Jobs nobody moves on.                                                   *)

\* Stranded is a set of jobs.
LEMMA StrandedFinite == BoundsAssumption => IsFiniteSet(Stranded) /\ IsFiniteSet(Jobs)
<1> SUFFICES ASSUME BoundsAssumption PROVE IsFiniteSet(Stranded) /\ IsFiniteSet(Jobs)
  OBVIOUS
<1>1. IsFiniteSet(Jobs)
  BY FS_Interval DEF Jobs, BoundsAssumption
<1>2. Stranded \subseteq Jobs
  BY DEF Stranded
<1> QED
  BY <1>1, <1>2, FS_Subset

\* While the worker runs, a step strands no job, or one and counts its refused update.
LEMMA StrandedStep ==
  ASSUME TableInv, [Next]_vars, Serving, Serving'
  PROVE  \/ Stranded' \subseteq Stranded /\ refused <= refused'
         \/ \E x : Stranded' \subseteq Stranded \cup {x} /\ refused < refused'
<1> USE DEF TableInv
<1>1. refused \in Nat
  BY BoundsAssumption DEF TypeOK
<1>2. ASSUME UNCHANGED <<jobStatus, memory>>,
             worker.pc \in Processing => worker'.pc \in Processing /\ worker'.job = worker.job
      PROVE  Stranded' \subseteq Stranded
  BY <1>2 DEF Stranded, Queued, memory
<1>3. ASSUME NEW p \in Projects, NEW j \in Jobs, CreateJob(p, j)
      PROVE  Stranded' \subseteq Stranded /\ refused' = refused
  <2>1. /\ jobStatus[j] = "none" /\ jobStatus' = [jobStatus EXCEPT ![j] = "queued"]
        /\ waiting' = waiting \cup {j}
        /\ UNCHANGED <<queue, backlog, worker, refused>>
    BY <1>3 DEF CreateJob, faults
  <2> QED
    BY <2>1 DEF Stranded, Queued, TypeOK
<1>4. ASSUME NEW j \in Jobs, Enqueue(j) \/ EnqueueBacklog(j)
      PROVE  Stranded' \subseteq Stranded /\ refused' = refused
  <2>1. /\ queue' = Append(queue, j) /\ j \notin Queued /\ j \in waiting \cup backlog
        /\ waiting \subseteq waiting' \cup {j} /\ backlog \subseteq backlog' \cup {j}
        /\ UNCHANGED <<jobStatus, worker, refused>>
    BY <1>4 DEF Enqueue, EnqueueBacklog, tables, faults, QueueSound
  <2>2. queue \in Seq(Jobs)
    BY DEF TypeOK
  <2>3. Queued' = Queued \cup {j}
    BY <2>1, <2>2, Sent DEF Queued, QueueSound
  <2> QED
    BY <2>1, <2>3 DEF Stranded
<1>5. ASSUME Claim \/ ClaimFault
      PROVE  /\ Head(queue) \in Jobs /\ jobStatus[Head(queue)] = "queued"
             /\ Queued' = Queued \ {Head(queue)} /\ UNCHANGED <<waiting, backlog>>
             /\ worker.pc = "idle"
  <2>1. queue # <<>> /\ queue' = Tail(queue) /\ queue \in Seq(Jobs)
        /\ UNCHANGED <<waiting, backlog>> /\ worker.pc = "idle"
    BY <1>5 DEF Claim, ClaimFault, WorkerAt, TypeOK
  <2>2. /\ \A i, k \in DOMAIN queue : queue[i] = queue[k] => i = k
        /\ \A j \in Queued : jobStatus[j] = "queued"
    BY DEF QueueSound
  <2>3. Head(queue) \in Queued /\ Queued' = Queued \ {Head(queue)}
    <3>1. /\ Head(queue) \in {queue[i] : i \in DOMAIN queue}
          /\ {Tail(queue)[i] : i \in DOMAIN Tail(queue)}
                = {queue[i] : i \in DOMAIN queue} \ {Head(queue)}
      BY <2>1, <2>2, Received
    <3> QED
      BY <2>1, <3>1 DEF Queued
  <2>4. Head(queue) \in Jobs
    BY <2>1, HeadTailProperties
  <2> QED
    BY <2>1, <2>2, <2>3, <2>4
<1>6. CASE Claim
  <2> DEFINE j == Head(queue)
  <2>1. /\ jobStatus' = [jobStatus EXCEPT ![j] = "running"]
        /\ worker' = [IdleWorker EXCEPT !.pc = "build", !.job = j]
        /\ refused' = refused
    BY <1>5, <1>6 DEF Claim, faults
  <2>2. worker'.pc \in Processing /\ worker'.job = j
    BY <2>1 DEF IdleWorker, Processing, WorkerPC
  <2>3. j \notin Stranded'
    BY <1>5, <2>1, <2>2 DEF Stranded, TypeOK
  <2>4. ASSUME NEW i \in Stranded', i # j PROVE i \in Stranded
    <3>1. i \in Jobs /\ jobStatus'[i] = jobStatus[i]
      BY <2>1, <2>4 DEF Stranded, TypeOK
    <3>2. worker.pc \notin Processing
      BY <1>5, <1>6 DEF Processing
    <3>3. i \in Queued' \cup waiting' \cup backlog' <=> i \in Queued \cup waiting \cup backlog
      BY <1>5, <1>6, <2>4
    <3> QED
      BY <2>2, <2>4, <3>1, <3>2, <3>3 DEF Stranded
  <2> QED
    BY <1>1, <2>1, <2>3, <2>4
<1>7. CASE ClaimFault
  <2>1. UNCHANGED <<jobStatus, worker>> /\ refused' = refused + 1
    BY <1>7 DEF ClaimFault, tables
  <2>2. Stranded' \subseteq Stranded \cup {Head(queue)}
    BY <1>5, <1>7, <2>1 DEF Stranded
  <2> QED
    BY <1>1, <2>1, <2>2
<1>8. CASE Build \/ StartApp \/ WaitReady \/ LoadCurrent \/ RemoveOld \/ PromoteRollback
  <2>1. UNCHANGED <<jobStatus, memory>> /\ worker'.job = worker.job
    BY <1>8 DEF Build, StartApp, WaitReady, LoadCurrent, RemoveOld, PromoteRollback, Goto, TypeOK,
       tables
  <2>2. worker'.pc \in {"startApp", "wait", "load", "removeOld", "promote", "fail"}
    <3>1. CASE LoadCurrent
      BY <3>1 DEF LoadCurrent, Goto, TypeOK
    <3>2. CASE Build \/ StartApp \/ WaitReady \/ RemoveOld \/ PromoteRollback
      BY <3>2 DEF Build, StartApp, WaitReady, RemoveOld, PromoteRollback, Goto, TypeOK
    <3> QED
      BY <1>8, <3>1, <3>2
  <2>3. refused <= refused'
    BY <1>1, <1>8 DEF Build, StartApp, WaitReady, LoadCurrent, RemoveOld, PromoteRollback, faults
  <2> QED
    BY <1>2, <2>1, <2>2, <2>3 DEF Processing, WorkerPC
<1>9. CASE Promote \/ FailJob
  <2>1. /\ jobStatus' \in {[jobStatus EXCEPT ![worker.job] = "succeeded"],
                           [jobStatus EXCEPT ![worker.job] = "failed"]}
        /\ worker.job \in Jobs /\ UNCHANGED <<memory, refused>>
    BY <1>9 DEF Promote, FailJob, WorkerAt, faults, TypeOK
  <2> QED
    BY <1>1, <2>1 DEF Stranded, Queued, memory, TypeOK
<1>10. CASE FailJobFault
  <2>1. UNCHANGED <<jobStatus, memory>> /\ refused' = refused + 1
    BY <1>10 DEF FailJobFault, tables
  <2>2. Stranded' \subseteq Stranded \cup {worker.job}
    BY <2>1 DEF Stranded, Queued, memory
  <2> QED
    BY <1>1, <2>1, <2>2
<1>11. CASE ResolveRoute \/ WriteRoute \/ WriteRouteFault
  <2>1. UNCHANGED <<jobStatus, memory>> /\ worker.pc \notin Processing
    BY <1>11 DEF ResolveRoute, WriteRoute, WriteRouteFault, WorkerAt, Processing, tables
  <2>2. refused' \in {refused, refused + 1}
    BY <1>11 DEF ResolveRoute, WriteRoute, WriteRouteFault, faults
  <2> QED
    BY <1>1, <1>2, <2>1, <2>2
<1>12. ASSUME Startup, \A j \in Jobs : ~ EnqueueBacklog(j)
       PROVE  Stranded' \subseteq Stranded /\ refused' = refused
  <2>1. Listen
    BY <1>12 DEF Startup, Boot, FinishPhase, NextPhase, StartWorker, ReconcileProject,
       ReconcileStatus, SyncIngress, RecoverJob, Serving
  <2> QED
    BY <1>2, <2>1 DEF Listen, tables, faults
<1>13. CASE UNCHANGED vars
  BY <1>1, <1>2, <1>13 DEF vars, tables, faults
<1>14. ~ Crash
  BY DEF Crash, Serving
<1> QED
  BY <1>1, <1>3, <1>4, <1>6, <1>7, <1>8, <1>9, <1>10, <1>11, <1>12, <1>13, <1>14
     DEF Next, Handlers, Worker, Startup

\* When the worker is started nothing is running and every queued job is in Start's list.
LEMMA StrandedByStart ==
  ASSUME TableInv, [Next]_vars, ~ Serving, Serving'
  PROVE  Stranded' = {}
<1>1. StartWorker
  <2>1. ~ (Handlers \/ Worker \/ Crash \/ UNCHANGED vars)
    BY DEF Handlers, CreateJob, Enqueue, Worker, Claim, ClaimFault, Build, StartApp, WaitReady,
       LoadCurrent, RemoveOld, Promote, PromoteRollback, FailJob, FailJobFault, ResolveRoute,
       WriteRoute, WriteRouteFault, WorkerAt, Crash, vars, boot, Serving
  <2>2. Startup
    BY <2>1 DEF Next
  <2> QED
    BY <2>2 DEF Startup, Boot, FinishPhase, NextPhase, Listen, ReconcileProject,
       ReconcileStatus, SyncIngress, RecoverJob, EnqueueBacklog, Serving, boot
<1> QED
  BY <1>1 DEF StartWorker, Stranded, tables

\* The count of stranded jobs is inductive beside the invariant of the tables.
LEMMA NextStranded ==
  ASSUME TableInv, TypeOK', StrandedOnlyByFaults, [Next]_vars
  PROVE  StrandedOnlyByFaults'
<1> SUFFICES ASSUME Serving' PROVE Cardinality(Stranded') <= refused'
  BY DEF StrandedOnlyByFaults
<1>1. refused \in Nat /\ refused' \in Nat
  BY BoundsAssumption DEF TableInv, TypeOK
<1>2. CASE ~ Serving
  BY <1>1, <1>2, StrandedByStart, FS_EmptySet
<1>3. CASE Serving
  <2>1. IsFiniteSet(Stranded) /\ Cardinality(Stranded) <= refused
    BY <1>3, BoundsAssumption, StrandedFinite DEF StrandedOnlyByFaults
  <2>2. \/ Stranded' \subseteq Stranded /\ refused <= refused'
        \/ \E x : Stranded' \subseteq Stranded \cup {x} /\ refused < refused'
    BY <1>3, StrandedStep
  <2> HIDE DEF Stranded
  <2> QED
    BY <1>1, <2>1, <2>2, FaultsCounted
<1> QED
  BY <1>2, <1>3

\* While the worker runs, every active job nobody holds is paid for by a refused update.
THEOREM StrandedAlwaysByFaults == Spec => []StrandedOnlyByFaults
<1>1. Init => StrandedOnlyByFaults
  BY DEF Init, StrandedOnlyByFaults, Serving
<1>2. PipelineInv /\ PipelineInv' /\ StrandedOnlyByFaults /\ [Next]_vars => StrandedOnlyByFaults'
  BY NextStranded DEF PipelineInv, TableInv
<1> QED
  BY <1>1, <1>2, PipelineInvariant, PTL DEF Spec
-----------------------------------------------------------------------------
(* The stored status.                                                      *)

\* Deriving from the derived status changes nothing.
LEMMA DerivedTwice ==
  ASSUME NEW p, NEW project, NEW state, NEW cur, NEW before
  PROVE  DerivedStatus(p, project, state, cur, DerivedStatus(p, project, state, cur, before))
           = DerivedStatus(p, project, state, cur, before)
BY DEF DerivedStatus

\* The derived status depends on which jobs of the project are active or failed.
LEMMA DerivedSame ==
  ASSUME NEW p, NEW project, NEW state, NEW other, NEW next, NEW cur, NEW before,
         \A j \in Jobs : other[j] = p <=> project[j] = p,
         \A j \in Jobs : project[j] = p =>
           /\ next[j] \in Active <=> state[j] \in Active
           /\ next[j] = "failed" <=> state[j] = "failed"
  PROVE  DerivedStatus(p, other, next, cur, before) = DerivedStatus(p, project, state, cur, before)
<1>1. {j \in Jobs : other[j] = p} = {j \in Jobs : project[j] = p}
  OBVIOUS
<1>2. (\E j \in {j \in Jobs : project[j] = p} : next[j] \in Active)
        <=> \E j \in {j \in Jobs : project[j] = p} : state[j] \in Active
  OBVIOUS
<1>3. (\E j \in {j \in Jobs : project[j] = p} :
         next[j] = "failed" /\ \A i \in {i \in Jobs : project[i] = p} : i <= j)
        <=> \E j \in {j \in Jobs : project[j] = p} :
              state[j] = "failed" /\ \A i \in {i \in Jobs : project[i] = p} : i <= j
  OBVIOUS
<1> QED
  BY <1>1, <1>2, <1>3 DEF DerivedStatus

\* A transaction that refreshes its project and leaves the others alone keeps every
\* stored status derived.
LEMMA SyncDerived ==
  ASSUME TypeOK, StatusIsDerived, NEW p \in Projects, SyncStatus(p),
         \A q \in Projects \ {p} : current'[q] = current[q],
         \A q \in Projects \ {p}, j \in Jobs :
           /\ jobProject'[j] = q <=> jobProject[j] = q
           /\ jobProject[j] = q => jobStatus'[j] = jobStatus[j]
  PROVE  StatusIsDerived'
<1>1. /\ status'[p] = DerivedStatus(p, jobProject', jobStatus', current'[p], status[p])
      /\ \A q \in Projects \ {p} : status'[q] = status[q]
  BY DEF SyncStatus, TypeOK
<1>2. status'[p] = DerivedStatus(p, jobProject', jobStatus', current'[p], status'[p])
  BY <1>1, DerivedTwice
<1>3. ASSUME NEW q \in Projects \ {p}
      PROVE  status'[q] = DerivedStatus(q, jobProject', jobStatus', current'[q], status'[q])
  <2>1. status[q] = DerivedStatus(q, jobProject, jobStatus, current[q], status[q])
    BY DEF StatusIsDerived
  <2>2. DerivedStatus(q, jobProject', jobStatus', current[q], status[q])
          = DerivedStatus(q, jobProject, jobStatus, current[q], status[q])
    BY DerivedSame
  <2> QED
    BY <1>1, <2>1, <2>2
<1> QED
  BY <1>2, <1>3 DEF StatusIsDerived

\* A step that writes no status and keeps which jobs are active or failed.
LEMMA DerivedKept ==
  ASSUME StatusIsDerived, UNCHANGED <<jobProject, status, current>>,
         \A j \in Jobs : /\ jobStatus'[j] \in Active <=> jobStatus[j] \in Active
                         /\ jobStatus'[j] = "failed" <=> jobStatus[j] = "failed"
  PROVE  StatusIsDerived'
<1> SUFFICES ASSUME NEW p \in Projects
             PROVE  status[p] = DerivedStatus(p, jobProject, jobStatus', current[p], status[p])
  BY DEF StatusIsDerived
<1>1. DerivedStatus(p, jobProject, jobStatus', current[p], status[p])
        = DerivedStatus(p, jobProject, jobStatus, current[p], status[p])
  BY DerivedSame
<1> QED
  BY <1>1 DEF StatusIsDerived

\* A job without a row has no project, every job's project has a row.
RowsBelong ==
  \A j \in Jobs : IF jobStatus[j] = "none" THEN jobProject[j] = None
                                            ELSE jobProject[j] \in known

StatusInv == RowsBelong /\ StatusIsDerived

\* Every step keeps the stored statuses derived.
LEMMA NextStatusInv ==
  ASSUME PipelineInv, StatusInv, [Next]_vars
  PROVE  StatusInv'
<1>1. TypeOK /\ RowsBelong /\ StatusIsDerived /\ None \notin Projects
  BY NoneAssumption DEF PipelineInv, TableInv, StatusInv
<1>2. ASSUME UNCHANGED tables PROVE StatusInv'
  BY <1>1, <1>2, DerivedKept DEF tables, StatusInv, RowsBelong
<1>3. ASSUME NEW j \in Jobs, jobStatus[j] # "none",
             NEW s \in JobStatuses \ {"none"}, jobStatus' = [jobStatus EXCEPT ![j] = s],
             UNCHANGED <<jobProject, known>>,
             \A q \in Projects \ {jobProject[j]} : current'[q] = current[q],
             SyncStatus(jobProject[j])
      PROVE  StatusInv'
  <2>1. jobProject[j] \in Projects
    BY <1>1, <1>3 DEF TypeOK
  <2>2. RowsBelong'
    BY <1>1, <1>3 DEF RowsBelong, TypeOK
  <2>3. StatusIsDerived'
    BY <1>1, <1>3, <2>1, SyncDerived DEF TypeOK
  <2> QED
    BY <2>2, <2>3 DEF StatusInv
<1>4. ASSUME NEW p \in Projects, NEW j \in Jobs, CreateJob(p, j) PROVE StatusInv'
  <2>1. jobProject[j] = None /\ jobStatus[j] = "none"
    BY <1>1, <1>4 DEF CreateJob, RowsBelong
  <2>2. RowsBelong'
    BY <1>1, <1>4 DEF CreateJob, RowsBelong, TypeOK
  <2>3. StatusIsDerived'
    BY <1>1, <1>4, <2>1, SyncDerived DEF CreateJob, TypeOK
  <2> QED
    BY <2>2, <2>3 DEF StatusInv
<1>5. CASE Claim
  <2>1. Head(queue) \in Jobs
    BY <1>1, <1>5, HeadTailProperties DEF Claim, TypeOK
  <2>2. /\ UNCHANGED <<jobProject, known, status, current>>
        /\ \A j \in Jobs : jobStatus'[j] = jobStatus[j]
                             \/ (jobStatus[j] = "queued" /\ jobStatus'[j] = "running")
    BY <1>1, <1>5, <2>1 DEF Claim, TypeOK
  <2>3. RowsBelong'
    BY <1>1, <2>2 DEF RowsBelong
  <2>4. StatusIsDerived'
    BY <1>1, <2>2, DerivedKept DEF Active
  <2> QED
    BY <2>3, <2>4 DEF StatusInv
<1>6. CASE Promote
  <2>1. worker.job \in Jobs /\ jobStatus[worker.job] # "none"
    BY <1>1, <1>6 DEF Promote, WorkerAt, TypeOK
  <2>2. \A q \in Projects \ {jobProject[worker.job]} : current'[q] = current[q]
    BY <1>1, <1>6 DEF Promote, TypeOK
  <2> QED
    BY <1>3, <1>6, <2>1, <2>2 DEF Promote, JobStatuses
<1>7. CASE FailJob
  <2>1. worker.job \in Jobs /\ jobStatus[worker.job] # "none"
    BY <1>1, <1>7 DEF FailJob, WorkerAt, TypeOK
  <2> QED
    BY <1>3, <1>7, <2>1 DEF FailJob, JobStatuses
<1>8. ASSUME NEW j \in Jobs, RecoverJob(j) PROVE StatusInv'
  BY <1>3, <1>8 DEF RecoverJob, JobStatuses
<1>9. ASSUME NEW p \in Projects, UNCHANGED <<jobProject, jobStatus, known>>, SyncStatus(p),
             \A q \in Projects \ {p} : current'[q] = current[q]
      PROVE  StatusInv'
  BY <1>1, <1>9, SyncDerived DEF StatusInv, RowsBelong
<1>10. ASSUME NEW p \in Projects, ReconcileProject(p) PROVE StatusInv'
  <2>1. ASSUME NEW k \in Keepers(p), Adopt(p, k) PROVE StatusInv'
    BY <1>1, <1>9, <2>1 DEF Adopt, TypeOK
  <2> QED
    BY <1>2, <1>10, <2>1 DEF ReconcileProject, tables
<1>11. ASSUME NEW p \in Projects, ReconcileStatus(p) PROVE StatusInv'
  BY <1>9, <1>11 DEF ReconcileStatus
<1>12. CASE \/ \E j \in Jobs : Enqueue(j) \/ EnqueueBacklog(j)
            \/ Worker /\ ~ (Claim \/ Promote \/ FailJob)
            \/ Boot \/ FinishPhase \/ StartWorker \/ Listen \/ Crash
            \/ \E p \in Projects : SyncIngress(p)
            \/ UNCHANGED vars
  BY <1>2, <1>12 DEF Enqueue, EnqueueBacklog, Worker, Build, StartApp, WaitReady, LoadCurrent,
     RemoveOld, PromoteRollback, ResolveRoute, WriteRoute, ClaimFault, FailJobFault,
     WriteRouteFault, Boot, FinishPhase, StartWorker, Listen, Crash, SyncIngress, vars
<1> QED
  BY <1>4, <1>5, <1>6, <1>7, <1>8, <1>10, <1>11, <1>12 DEF Next, Handlers, Startup

-----------------------------------------------------------------------------
(* The routes.                                                             *)

\* A project without a row has neither route nor deployment; SyncAll has repaired the
\* routes it has visited; what the worker is about to write is current.
RoutesKnown == \A p \in Projects \ known : route[p] = None /\ current[p] = None
IngressDone ==
  refused = 0 /\ brain = "ingress" =>
    \A p \in Projects : p \in todo \/ route[p] \in {None, current[p]}
TargetIsCurrent ==
  worker.pc = "write" => worker.target \in {None, current[jobProject[worker.job]]}

RouteInv == RoutesKnown /\ IngressDone /\ TargetIsCurrent /\ RouteNotStale

AfterPromotion == worker.pc \in {"resolve", "write"}

\* Steps that write neither routes nor pointers and are not part of a promotion's end.
LEMMA RouteKept ==
  ASSUME RouteInv, known \subseteq known', UNCHANGED <<route, current, brain>>,
         brain = "ingress" => todo' = todo,
         refused \in Nat, refused' \in Nat, refused <= refused',
         \/ worker' = worker /\ (AfterPromotion =>
                                   jobProject'[worker.job] = jobProject[worker.job])
         \/ ~ AfterPromotion /\ ~ AfterPromotion'
  PROVE  RouteInv'
<1>1. RoutesKnown' /\ IngressDone'
  BY DEF RouteInv, RoutesKnown, IngressDone
<1>2. TargetIsCurrent'
  BY DEF RouteInv, TargetIsCurrent, AfterPromotion
<1>3. RouteNotStale'
  <2> SUFFICES ASSUME NEW p \in Projects, ~ (refused' > 0),
                      brain \in {"recover", "enqueue", "up"},
                      ~ (AfterPromotion' /\ jobProject'[worker'.job] = p)
               PROVE  route[p] \in {None, current[p]}
    BY DEF RouteNotStale, AfterPromotion
  <2> QED
    BY DEF RouteInv, RouteNotStale, AfterPromotion
<1> QED
  BY <1>1, <1>2, <1>3 DEF RouteInv

\* Every step keeps the routes of known projects current, as far as start-up has got.
LEMMA NextRouteInv ==
  ASSUME PipelineInv, PipelineInv', RowsBelong, RouteInv, [Next]_vars
  PROVE  RouteInv'
<1>1. /\ TypeOK /\ TypeOK' /\ None \notin Projects
      /\ refused \in Nat /\ refused' \in Nat
  BY NoneAssumption, BoundsAssumption DEF PipelineInv, TableInv, TypeOK
<1>2. AfterPromotion =>
        worker.job \in Jobs /\ jobStatus[worker.job] # "none"
        /\ jobProject[worker.job] \in Projects
  BY <1>1 DEF TypeOK, AfterPromotion
<1>3. ASSUME NEW p \in Projects, NEW j \in Jobs, CreateJob(p, j) PROVE RouteInv'
  <2>1. AfterPromotion => jobProject'[worker.job] = jobProject[worker.job]
    BY <1>1, <1>2, <1>3 DEF CreateJob, TypeOK
  <2> QED
    BY <1>1, <1>3, <2>1, RouteKept DEF CreateJob, world, boot, faults
<1>4. CASE \E j \in Jobs : Enqueue(j) \/ EnqueueBacklog(j)
  BY <1>1, <1>4, RouteKept DEF Enqueue, EnqueueBacklog, tables, world, boot, faults
<1>5. CASE Claim \/ ClaimFault
  <2>1. /\ known' = known /\ UNCHANGED <<route, current, brain, todo, jobProject>>
        /\ ~ AfterPromotion /\ (worker' = worker \/ worker'.pc = "build")
        /\ refused <= refused'
    <3>1. CASE Claim
      <4>1. \/ worker' = worker
            \/ worker' = [IdleWorker EXCEPT !.pc = "build", !.job = Head(queue)]
        BY <3>1 DEF Claim
      <4>2. [IdleWorker EXCEPT !.pc = "build", !.job = Head(queue)].pc = "build"
        BY DEF IdleWorker
      <4>3. worker' = worker \/ worker'.pc = "build"
        BY <4>1, <4>2
      <4> QED
        BY <1>1, <3>1, <4>3 DEF Claim, tables, world, boot, faults, WorkerAt, AfterPromotion
    <3>2. CASE ClaimFault
      BY <1>1, <3>2 DEF ClaimFault, tables, world, boot, faults, WorkerAt, AfterPromotion
    <3> QED
      BY <1>5, <3>1, <3>2
  <2> QED
    BY <1>1, <2>1, RouteKept DEF AfterPromotion
<1>6. CASE \/ Build \/ StartApp \/ WaitReady \/ RemoveOld \/ PromoteRollback \/ FailJob
           \/ FailJobFault
  <2>1. /\ known' = known /\ UNCHANGED <<route, current, brain, todo>>
        /\ ~ AfterPromotion
        /\ worker'.pc \in {"startApp", "wait", "load", "promote", "fail", "idle"}
        /\ refused <= refused'
    BY <1>1, <1>6 DEF Build, StartApp, WaitReady, RemoveOld, PromoteRollback, FailJob,
       FailJobFault, tables, world, boot, faults, WorkerAt, Goto, IdleWorker, AfterPromotion,
       TypeOK
  <2> QED
    BY <1>1, <2>1, RouteKept DEF AfterPromotion
<1>7. CASE LoadCurrent
  <2>1. /\ known' = known /\ UNCHANGED <<route, current, brain, todo, refused>>
        /\ worker.pc = "load"
    BY <1>7 DEF LoadCurrent, tables, world, boot, faults, WorkerAt
  <2>2. \E old \in {worker.old, current[jobProject[worker.job]]} :
          \E pc \in {"promote", "removeOld", "fail"} :
            worker' = [worker EXCEPT !.pc = pc, !.old = old]
    <3>1. worker = [pc |-> worker.pc, job |-> worker.job, old |-> worker.old,
                    target |-> worker.target]
      BY <1>1 DEF TypeOK
    <3> QED
      BY <1>7, <3>1 DEF LoadCurrent, Goto
  <2>3. worker'.pc \in {"promote", "removeOld", "fail"}
    BY <1>1, <2>2 DEF TypeOK
  <2> QED
    BY <1>1, <2>1, <2>3, RouteKept DEF AfterPromotion
<1>8. CASE Promote
  <2> DEFINE p == jobProject[worker.job]
  <2>1. /\ p \in known /\ p \in Projects
        /\ current' = [current EXCEPT ![p] = worker.job]
        /\ brain \in {"enqueue", "up"}
        /\ worker'.pc = "resolve" /\ worker'.job = worker.job
        /\ UNCHANGED <<jobProject, known, route, brain, todo, refused>>
    BY <1>1, <1>8 DEF Promote, WorkerAt, Goto, Serving, world, boot, faults, TypeOK, RowsBelong
  <2>2. RoutesKnown' /\ IngressDone' /\ TargetIsCurrent'
    BY <1>1, <2>1 DEF RouteInv, RoutesKnown, IngressDone, TargetIsCurrent, TypeOK
  <2>3. \A q \in Projects \ {p} : current'[q] = current[q]
    BY <1>1, <2>1 DEF TypeOK
  <2>4. worker.pc = "promote"
    BY <1>8 DEF Promote, WorkerAt
  <2>5. RouteNotStale'
    BY <2>1, <2>3, <2>4 DEF RouteInv, RouteNotStale
  <2> QED
    BY <2>2, <2>5 DEF RouteInv
<1>9. CASE ResolveRoute
  <2>1. PICK t \in RouteTargets(jobProject[worker.job]) :
          worker' = [worker EXCEPT !.pc = "write", !.target = t]
    BY <1>9 DEF ResolveRoute
  <2>2. /\ UNCHANGED <<jobProject, known, current, route, brain, todo, refused>>
        /\ worker.pc = "resolve" /\ worker'.pc = "write" /\ worker'.job = worker.job
        /\ worker'.target = t /\ t \in {None, current[jobProject[worker.job]]}
    BY <1>1, <1>9, <2>1 DEF ResolveRoute, WorkerAt, tables, world, boot, faults, TypeOK,
       RouteTargets
  <2> QED
    BY <2>2 DEF RouteInv, RoutesKnown, IngressDone, TargetIsCurrent, RouteNotStale
<1>10. CASE WriteRoute
  <2> DEFINE p == jobProject[worker.job]
  <2>1. /\ p \in known /\ p \in Projects
        /\ route' = [route EXCEPT ![p] = worker.target]
        /\ worker.target \in {None, current[p]}
        /\ worker.pc = "write" /\ brain \in {"enqueue", "up"} /\ worker'.pc = "idle"
        /\ UNCHANGED <<jobProject, known, current, brain, todo, refused>>
    BY <1>1, <1>10 DEF WriteRoute, WorkerAt, Serving, tables, boot, faults, TypeOK, RowsBelong,
       IdleWorker, RouteInv, TargetIsCurrent
  <2>2. route'[p] = worker.target /\ \A q \in Projects \ {p} : route'[q] = route[q]
    BY <1>1, <2>1 DEF TypeOK
  <2>3. RoutesKnown' /\ IngressDone' /\ TargetIsCurrent'
    BY <2>1, <2>2 DEF RouteInv, RoutesKnown, IngressDone, TargetIsCurrent
  <2>4. RouteNotStale'
    BY <2>1, <2>2 DEF RouteInv, RouteNotStale
  <2> QED
    BY <2>3, <2>4 DEF RouteInv
<1>11. CASE WriteRouteFault
  <2>1. /\ UNCHANGED <<known, current, route, brain, todo>>
        /\ refused' > 0 /\ worker'.pc = "idle"
    BY <1>1, <1>11 DEF WriteRouteFault, tables, world, boot, faults, IdleWorker
  <2> QED
    BY <2>1 DEF RouteInv, RoutesKnown, IngressDone, TargetIsCurrent, RouteNotStale
<1>12. CASE Crash
  BY <1>12 DEF Crash, tables, world, IdleWorker, RouteInv, RoutesKnown, IngressDone,
     TargetIsCurrent, RouteNotStale
<1>13. CASE Boot \/ FinishPhase
  <2>1. /\ UNCHANGED <<jobProject, known, current, route, worker, refused>>
        /\ brain \in {"down", "reconcile", "status", "ingress"}
        /\ brain' \in {"reconcile", "status", "ingress", "recover"}
        /\ brain' = "recover" => brain = "ingress" /\ todo = {}
        /\ brain' # "recover" => todo' = known
    BY <1>13 DEF Boot, FinishPhase, NextPhase, tables, world, faults
  <2>2. RoutesKnown' /\ IngressDone' /\ TargetIsCurrent'
    BY <2>1 DEF RouteInv, RoutesKnown, IngressDone, TargetIsCurrent
  <2>3. RouteNotStale'
    BY <1>1, <2>1 DEF RouteInv, IngressDone, RouteNotStale
  <2> QED
    BY <2>2, <2>3 DEF RouteInv
<1>14. CASE StartWorker \/ Listen
  <2>1. /\ UNCHANGED <<jobProject, known, current, route, worker, refused>>
        /\ brain \in {"recover", "enqueue"} /\ brain' \in {"enqueue", "up"}
    BY <1>14 DEF StartWorker, Listen, tables, world, faults
  <2> QED
    BY <2>1 DEF RouteInv, RoutesKnown, IngressDone, TargetIsCurrent, RouteNotStale
<1>15. ASSUME NEW p \in Projects, ReconcileProject(p) PROVE RouteInv'
  <2>1. /\ brain = "reconcile" /\ UNCHANGED <<known, route, brain, worker, refused>>
        /\ worker.pc = "idle"
    BY <1>15 DEF ReconcileProject, Adopt, tables, faults, PipelineInv, TableInv, EmptyAtBoot, Serving,
       IdleWorker
  <2>2. ASSUME NEW k \in Keepers(p), Adopt(p, k) PROVE RoutesKnown'
    <3>1. k \in JobsOf(p) /\ app[k] = "running"
      BY <2>2 DEF Keepers
    <3>2. p \in known
      BY <3>1 DEF PipelineInv, TableInv, ClaimedFirst, RowsBelong, JobsOf
    <3>3. current' = [current EXCEPT ![p] = k]
      BY <2>2 DEF Adopt
    <3> QED
      BY <1>1, <2>1, <3>2, <3>3 DEF RouteInv, RoutesKnown, TypeOK
  <2>3. RoutesKnown'
    BY <1>15, <2>1, <2>2 DEF ReconcileProject, tables, RouteInv, RoutesKnown
  <2> QED
    BY <2>1, <2>3 DEF RouteInv, IngressDone, TargetIsCurrent, RouteNotStale
<1>16. ASSUME NEW p \in Projects, ReconcileStatus(p) PROVE RouteInv'
  BY <1>1, <1>16, RouteKept DEF ReconcileStatus, world, faults
<1>17. ASSUME NEW p \in Projects, SyncIngress(p) PROVE RouteInv'
  <2>1. /\ UNCHANGED <<known, current, brain, worker>> /\ brain = "ingress"
        /\ worker.pc = "idle" /\ todo' = todo \ {p}
        /\ \A q \in Projects \ {p} : route'[q] = route[q]
        /\ refused <= refused'
        /\ refused' = 0 => route'[p] \in {None, current[p]}
        /\ p \notin known => route'[p] = None
    BY <1>1, <1>17 DEF SyncIngress, tables, PipelineInv, TableInv, EmptyAtBoot, Serving, IdleWorker,
       RouteTargets, TypeOK, RouteInv, RoutesKnown
  <2>2. RoutesKnown' /\ IngressDone' /\ TargetIsCurrent'
    BY <1>1, <2>1 DEF RouteInv, RoutesKnown, IngressDone, TargetIsCurrent
  <2> QED
    BY <2>1, <2>2 DEF RouteInv, RouteNotStale
<1>18. ASSUME NEW j \in Jobs, RecoverJob(j) PROVE RouteInv'
  BY <1>1, <1>18, RouteKept DEF RecoverJob, world, boot, faults
<1>19. CASE UNCHANGED vars
  BY <1>1, <1>19, RouteKept DEF vars, tables, world, boot, faults
<1> QED
  BY <1>3, <1>4, <1>5, <1>6, <1>7, <1>8, <1>9, <1>10, <1>11, <1>12, <1>13, <1>14, <1>15,
     <1>16, <1>17, <1>18, <1>19 DEF Next, Handlers, Worker, Startup

\* Every transaction refreshes the status it shows, and outside a promotion no hostname is
\* routed to a replaced app unless a route write was refused.
THEOREM StatusAndRouteAlwaysFollow == Spec => []StatusAndRouteFollow
<1>1. Init => StatusInv /\ RouteInv
  <2> SUFFICES ASSUME Init PROVE StatusInv /\ RouteInv
    OBVIOUS
  <2>1. StatusInv
    BY NoneAssumption DEF Init, StatusInv, RowsBelong, StatusIsDerived, DerivedStatus, Active
  <2>2. RouteInv
    BY DEF Init, RouteInv, RoutesKnown, IngressDone, TargetIsCurrent, RouteNotStale, IdleWorker
  <2> QED
    BY <2>1, <2>2
<1>2. PipelineInv /\ PipelineInv' /\ StatusInv /\ RouteInv /\ [Next]_vars
        => StatusInv' /\ RouteInv'
  BY NextStatusInv, NextRouteInv DEF StatusInv
<1>3. StatusInv /\ RouteInv => StatusAndRouteFollow
  BY DEF StatusInv, RouteInv, StatusAndRouteFollow
<1> QED
  BY <1>1, <1>2, <1>3, PipelineInvariant, PTL DEF Spec

-----------------------------------------------------------------------------
(* A deploy is safe for the app it replaces.                               *)

\* Until the first crash, start-up meets an empty database; what is about to be
\* promoted has answered its probe.
FirstStart == crashes = 0 /\ ~ Serving => known = {}
ReadyCarried == worker.pc \in {"load", "removeOld", "promote"} => worker.job \in readied

SafeInv == FirstStart /\ ReadyCarried /\ PromotedWasReady

\* Steps that leave the pointers alone and carry no app that did not pass its probe.
LEMMA SafeKept ==
  ASSUME SafeInv, FirstStart', readied \subseteq readied', current' = current,
         crashes' = crashes,
         worker'.pc \in {"load", "removeOld", "promote"} => worker'.job \in readied'
  PROVE  SafeInv'
BY DEF SafeInv, ReadyCarried, PromotedWasReady

\* A first start runs over an empty database, whatever the step.
LEMMA FirstStartKept ==
  ASSUME TypeOK, FirstStart, [Next]_vars
  PROVE  FirstStart'
<1>1. CASE crashes' = crashes /\ known' = known /\ (Serving => Serving')
  BY <1>1 DEF FirstStart
<1>2. CASE Crash
  BY <1>2, BoundsAssumption DEF Crash, FirstStart, TypeOK
<1>3. ASSUME NEW p \in Projects, NEW j \in Jobs, CreateJob(p, j) PROVE FirstStart'
  BY <1>3 DEF CreateJob, boot, FirstStart, Serving
<1>4. CASE Worker \/ UNCHANGED vars
  BY <1>1, <1>4 DEF Worker, Claim, ClaimFault, Build, StartApp, WaitReady, LoadCurrent,
     RemoveOld, Promote, PromoteRollback, FailJob, FailJobFault, ResolveRoute, WriteRoute,
     WriteRouteFault, tables, boot, faults, vars, Serving
<1>5. CASE \/ Boot \/ FinishPhase \/ StartWorker \/ Listen
           \/ \E p \in Projects : ReconcileStatus(p) \/ SyncIngress(p)
           \/ \E j \in Jobs : RecoverJob(j) \/ EnqueueBacklog(j) \/ Enqueue(j)
  BY <1>1, <1>5 DEF Boot, FinishPhase, NextPhase, StartWorker, Listen, ReconcileStatus,
     SyncIngress, RecoverJob, EnqueueBacklog, Enqueue, tables, boot, faults, Serving
<1>6. ASSUME NEW p \in Projects, ReconcileProject(p) PROVE FirstStart'
  BY <1>1, <1>6 DEF ReconcileProject, Adopt, tables, faults, Serving
<1> QED
  BY <1>2, <1>3, <1>4, <1>5, <1>6 DEF Next, Handlers, Startup

\* Every step keeps SafeInv: only a promotion makes an app current before a crash.
LEMMA NextSafeInv ==
  ASSUME PipelineInv, RowsBelong, SafeInv, [Next]_vars
  PROVE  SafeInv'
<1>1. TypeOK /\ FirstStart'
  BY FirstStartKept DEF PipelineInv, TableInv, SafeInv
<1>2. CASE Crash
  <2>1. crashes' # 0 /\ worker'.pc = "idle"
    BY <1>1, <1>2, BoundsAssumption DEF Crash, IdleWorker, TypeOK
  <2> QED
    BY <1>1, <2>1 DEF SafeInv, ReadyCarried, PromotedWasReady
<1>3. ASSUME worker' = worker, UNCHANGED <<current, readied, crashes>> PROVE SafeInv'
  BY <1>1, <1>3, SafeKept DEF SafeInv, ReadyCarried
<1>4. ASSUME NEW p \in Projects, NEW j \in Jobs, CreateJob(p, j) PROVE SafeInv'
  BY <1>3, <1>4 DEF CreateJob, world, faults
<1>5. CASE \/ Boot \/ FinishPhase \/ StartWorker \/ Listen
           \/ \E p \in Projects : ReconcileStatus(p) \/ SyncIngress(p)
           \/ \E j \in Jobs : RecoverJob(j) \/ EnqueueBacklog(j) \/ Enqueue(j)
           \/ UNCHANGED vars
  BY <1>3, <1>5 DEF Boot, FinishPhase, StartWorker, Listen, ReconcileStatus, SyncIngress,
     RecoverJob, EnqueueBacklog, Enqueue, tables, world, faults, vars
<1>6. ASSUME NEW p \in Projects, ReconcileProject(p) PROVE SafeInv'
  <2>1. CASE UNCHANGED <<tables, app>>
    BY <1>3, <1>6, <2>1 DEF ReconcileProject, tables, faults
  <2>2. ASSUME NEW k \in Keepers(p), Adopt(p, k) PROVE SafeInv'
    <3>1. k \in JobsOf(p) /\ app[k] = "running"
      BY DEF Keepers
    <3>2. p \in known
      BY <3>1 DEF PipelineInv, TableInv, ClaimedFirst, RowsBelong, JobsOf
    <3>3. crashes # 0
      BY <1>6, <3>2 DEF ReconcileProject, SafeInv, FirstStart, Serving
    <3>4. crashes' # 0 /\ worker' = worker /\ readied' = readied
      BY <1>6, <3>3 DEF ReconcileProject, faults
    <3> QED
      BY <1>1, <3>4 DEF SafeInv, ReadyCarried, PromotedWasReady
  <2> QED
    BY <1>6, <2>1, <2>2 DEF ReconcileProject
<1>7. CASE Claim
  <2>1. UNCHANGED <<current, readied, crashes>>
    BY <1>7 DEF Claim, world, faults
  <2>2. \/ worker' = worker
        \/ worker' = [IdleWorker EXCEPT !.pc = "build", !.job = Head(queue)]
    BY <1>7 DEF Claim
  <2>3. [IdleWorker EXCEPT !.pc = "build", !.job = Head(queue)].pc = "build"
    BY DEF IdleWorker
  <2>4. worker' = worker \/ worker'.pc = "build"
    BY <2>2, <2>3
  <2> QED
    BY <1>1, <1>3, <2>1, <2>4, SafeKept
<1>8. CASE ClaimFault
  BY <1>3, <1>8 DEF ClaimFault, tables, world
<1>9. CASE Build \/ StartApp
  <2>1. UNCHANGED <<current, readied, crashes>>
    BY <1>9 DEF Build, StartApp, tables, world, faults
  <2>2. worker'.pc \in {"startApp", "wait", "fail"}
    BY <1>1, <1>9 DEF Build, StartApp, Goto, TypeOK
  <2> QED
    BY <1>1, <2>1, <2>2, SafeKept
<1>10. CASE FailJob \/ FailJobFault \/ WriteRoute \/ WriteRouteFault
  <2>1. UNCHANGED <<current, readied, crashes>>
    BY <1>10 DEF FailJob, FailJobFault, WriteRoute, WriteRouteFault, tables, world, faults
  <2>2. worker'.pc = "idle"
    BY <1>10 DEF FailJob, FailJobFault, WriteRoute, WriteRouteFault, IdleWorker
  <2> QED
    BY <1>1, <2>1, <2>2, SafeKept
<1>11. CASE ResolveRoute
  <2>1. UNCHANGED <<current, readied, crashes>>
    BY <1>11 DEF ResolveRoute, tables, world, faults
  <2>2. worker'.pc = "write"
    <3>1. PICK t \in RouteTargets(jobProject[worker.job]) :
            worker' = [worker EXCEPT !.pc = "write", !.target = t]
      BY <1>11 DEF ResolveRoute
    <3> QED
      BY <1>1, <3>1 DEF TypeOK
  <2> QED
    BY <1>1, <2>1, <2>2, SafeKept
<1>12. CASE WaitReady
  <2>1. current' = current /\ crashes' = crashes /\ readied \subseteq readied'
    BY <1>12 DEF WaitReady, tables, faults
  <2>2. worker'.pc \in {"load", "removeOld", "promote"} => worker'.job \in readied'
    BY <1>1, <1>12 DEF WaitReady, Goto, TypeOK
  <2> QED
    BY <1>1, <2>1, <2>2, SafeKept
<1>13. CASE LoadCurrent \/ RemoveOld \/ PromoteRollback
  <2>1. /\ UNCHANGED <<current, readied, crashes>>
        /\ worker.pc \in {"load", "removeOld", "promote"}
    BY <1>13 DEF LoadCurrent, RemoveOld, PromoteRollback, WorkerAt, tables, world, faults
  <2>2. worker'.job = worker.job
    BY <1>1, <1>13 DEF LoadCurrent, RemoveOld, PromoteRollback, Goto, TypeOK
  <2> QED
    BY <1>1, <2>1, <2>2, SafeKept DEF SafeInv, ReadyCarried
<1>14. CASE Promote
  <2> DEFINE p == jobProject[worker.job]
  <2>1. worker.job \in readied
    BY <1>14 DEF Promote, WorkerAt, SafeInv, ReadyCarried
  <2>2. current' = [current EXCEPT ![p] = worker.job] /\ UNCHANGED <<readied, crashes>>
    BY <1>14 DEF Promote, world, faults
  <2>3. worker'.pc = "resolve"
    BY <1>1, <1>14 DEF Promote, Goto, TypeOK
  <2>4. PromotedWasReady'
    BY <1>1, <2>1, <2>2 DEF SafeInv, PromotedWasReady, TypeOK
  <2> QED
    BY <1>1, <2>3, <2>4 DEF SafeInv, ReadyCarried
<1> QED
  BY <1>2, <1>4, <1>5, <1>6, <1>7, <1>8, <1>9, <1>10, <1>11, <1>12, <1>13, <1>14
     DEF Next, Handlers, Worker, Startup

\* The container of p's current deployment goes in this step.
OldGoes(p) == current[p] # None /\ app[current[p]] # "absent" /\ app'[current[p]] = "absent"

\* The two occasions on which it may: for a job whose own app is ready, or for another
\* running app that becomes the current one.
Replaced(p) ==
  \/ /\ worker.pc = "removeOld" /\ worker.old = current[p]
     /\ app[worker.job] = "running" /\ worker.job \in readied
  \/ current'[p] # current[p] /\ app'[current'[p]] = "running"

\* Every step takes the container of a current deployment on these occasions only.
LEMMA OldGoesStep ==
  ASSUME PipelineInv, ReadyCarried, [Next]_vars, NEW p \in Projects, OldGoes(p)
  PROVE  Replaced(p)
<1>1. TypeOK /\ current[p] \in Jobs /\ current[p] \in JobsOf(p) /\ deployment[current[p]] = "succeeded"
  BY DEF PipelineInv, TableInv, TypeOK, JobOrNone, OldGoes, SoleSucceededDeployment
<1>2. CASE UNCHANGED app
  BY <1>2 DEF OldGoes
<1>3. CASE StartApp
  <2>1. PICK a \in {app[worker.job], "stopped", "running"} :
          app' = [app EXCEPT ![worker.job] = a]
    BY <1>3 DEF StartApp
  <2> QED
    BY <1>1, <2>1 DEF TypeOK, OldGoes
<1>4. CASE RemoveOld
  <2>1. /\ worker.pc = "removeOld" /\ worker.old \in Jobs /\ worker.job \in Jobs
        /\ worker.job \in readied /\ app[worker.job] = "running"
        /\ deployment[worker.job] = "none"
    BY <1>1, <1>4 DEF RemoveOld, WorkerAt, TypeOK, ReadyCarried, PipelineInv, TableInv,
       CarriedOver, WorkerOwnsJob, Processing, WorkerPC
  <2>2. \A i \in Jobs : app'[i] # app[i] => i \in {worker.old, worker.job}
    BY <1>1, <1>4 DEF RemoveOld, TypeOK
  <2>3. current[p] = worker.old
    BY <1>1, <2>1, <2>2 DEF OldGoes
  <2> QED
    BY <2>1, <2>3 DEF Replaced
<1>5. ASSUME NEW q \in Projects, ReconcileProject(q), ~ UNCHANGED app PROVE Replaced(p)
  <2>1. PICK k \in Keepers(q) : Adopt(q, k)
    BY <1>5 DEF ReconcileProject
  <2>2. k \in Jobs /\ app'[k] = "running" /\ current' = [current EXCEPT ![q] = k]
    BY <1>1, <2>1, AdoptType DEF Adopt, JobsOf
  <2>3. \A i \in Jobs \ JobsOf(q) : app'[i] = app[i]
    <3>1. PICK gone, halted \in SUBSET (JobsOf(q) \ {k}) :
            app' = [j \in Jobs |-> IF j \in gone THEN "absent"
                                   ELSE IF j \in halted /\ app[j] = "running" THEN "stopped"
                                   ELSE app[j]]
      BY <2>1 DEF Adopt
    <3> QED
      BY <3>1
  <2>4. p = q
    BY <1>1, <2>3 DEF OldGoes, JobsOf
  <2>5. current'[p] = k /\ current[p] # k
    BY <1>1, <2>2, <2>4 DEF OldGoes, TypeOK
  <2> QED
    BY <2>2, <2>5 DEF Replaced
<1>6. ASSUME Next, ~ StartApp, ~ RemoveOld, \A q \in Projects : ~ ReconcileProject(q)
      PROVE  app' = app
  <2>1. ASSUME Handlers \/ Crash PROVE app' = app
    BY <2>1 DEF Handlers, CreateJob, Enqueue, Crash, world
  <2>2. ASSUME Worker PROVE app' = app
    BY <1>6, <2>2 DEF Worker, Claim, ClaimFault, Build, WaitReady, LoadCurrent, Promote,
       PromoteRollback, FailJob, FailJobFault, ResolveRoute, WriteRoute, WriteRouteFault, world
  <2>3. ASSUME Startup PROVE app' = app
    BY <1>6, <2>3 DEF Startup, Boot, FinishPhase, StartWorker, Listen, ReconcileStatus,
       SyncIngress, RecoverJob, EnqueueBacklog, world
  <2> QED
    BY <1>6, <2>1, <2>2, <2>3 DEF Next
<1> QED
  BY <1>2, <1>3, <1>4, <1>5, <1>6 DEF vars, world

\* The current app goes only for one that is ready or, at start-up, running - also when
\* the answer of its removal is lost - and before the first crash only an app that
\* passed its readiness probe is current.
THEOREM DeployAlwaysSafe == Spec => DeployIsSafe
<1>1. Init => RowsBelong /\ StatusIsDerived /\ SafeInv
  BY NoneAssumption DEF Init, RowsBelong, StatusIsDerived, DerivedStatus, Active, SafeInv,
     FirstStart, ReadyCarried, PromotedWasReady, IdleWorker
<1>2. PipelineInv /\ StatusInv /\ [Next]_vars => StatusInv'
  BY NextStatusInv
<1>3. PipelineInv /\ RowsBelong /\ SafeInv /\ [Next]_vars => SafeInv'
  BY NextSafeInv
<1>4. StatusInv <=> RowsBelong /\ StatusIsDerived
  BY DEF StatusInv
<1>5. PipelineInv /\ RowsBelong /\ StatusIsDerived /\ SafeInv /\ [Next]_vars
        => [OldAppGoesForReadyOne /\ PromotedWasReady']_vars
  <2> SUFFICES ASSUME PipelineInv, RowsBelong, SafeInv, [Next]_vars
               PROVE  OldAppGoesForReadyOne /\ PromotedWasReady'
    OBVIOUS
  <2>1. PromotedWasReady'
    BY <1>3 DEF SafeInv
  <2>2. \A p \in Projects : OldGoes(p) => Replaced(p)
    BY OldGoesStep DEF SafeInv
  <2>3. OldAppGoesForReadyOne
    BY <2>2 DEF OldAppGoesForReadyOne, OldGoes, Replaced
  <2> QED
    BY <2>1, <2>3
<1> QED
  BY <1>1, <1>2, <1>3, <1>4, <1>5, PipelineInvariant, PTL DEF Spec, DeployIsSafe

-----------------------------------------------------------------------------
(* Deployments implements DeploymentPromise.  By SoleSucceededDeployment    *)
(* the row that the mapping chooses is the one the pointer in projects      *)
(* names, so each step is compared over the pointer.                        *)

\* What a project serves according to the mapping.
Served == [p \in Projects |->
             IF SucceededOf(p) = {} THEN None ELSE CHOOSE j \in SucceededOf(p) : TRUE]

\* The deployments table and the pointer in projects name the same deployment.
LEMMA ServedIsCurrent == PipelineInv => Served = current
<1> SUFFICES ASSUME PipelineInv PROVE Served = current
  OBVIOUS
<1>1. ASSUME NEW p \in Projects PROVE Served[p] = current[p]
  <2>1. SucceededOf(p) = IF current[p] = None THEN {} ELSE {current[p]}
    BY NoneAssumption DEF PipelineInv, TableInv, SoleSucceededDeployment, SucceededOf, JobsOf
  <2> QED
    BY <2>1 DEF Served
<1>2. current \in [Projects -> JobOrNone]
  BY DEF PipelineInv, TableInv, TypeOK
<1> QED
  BY <1>1, <1>2 DEF Served

\* The steps of the promise, over the pointer.
AcceptStep(p, j) ==
  /\ Serving
  /\ jobStatus[j] = "none"
  /\ \A i \in Jobs : jobProject[i] = p => jobStatus[i] \notin Active
  /\ jobProject' = [jobProject EXCEPT ![j] = p]
  /\ jobStatus' = [jobStatus EXCEPT ![j] = "queued"]
  /\ current' = current /\ Serving' = Serving
BeginStep(j) ==
  /\ Serving
  /\ jobStatus[j] = "queued"
  /\ jobStatus' = [jobStatus EXCEPT ![j] = "running"]
  /\ jobProject' = jobProject /\ current' = current /\ Serving' = Serving
SucceedStep(j) ==
  /\ Serving
  /\ jobStatus[j] = "running"
  /\ jobStatus' = [jobStatus EXCEPT ![j] = "succeeded"]
  /\ current' = [current EXCEPT ![jobProject[j]] = j]
  /\ jobProject' = jobProject /\ Serving' = Serving
FailStep(j) ==
  /\ jobStatus[j] = "running"
  /\ jobStatus' = [jobStatus EXCEPT ![j] = "failed"]
  /\ jobProject' = jobProject /\ current' = current /\ Serving' = Serving
AdoptStep(p, j) ==
  /\ ~ Serving
  /\ jobProject[j] = p
  /\ jobStatus[j] \in {"running", "succeeded", "failed"}
  /\ current' = [current EXCEPT ![p] = j]
  /\ jobProject' = jobProject /\ jobStatus' = jobStatus /\ Serving' = Serving
UpStep ==
  /\ ~ Serving /\ Serving'
  /\ \A j \in Jobs : jobStatus[j] # "running"
  /\ jobProject' = jobProject /\ jobStatus' = jobStatus /\ current' = current
DownStep ==
  /\ Serving /\ ~ Serving'
  /\ jobProject' = jobProject /\ jobStatus' = jobStatus /\ current' = current
Unseen ==
  jobProject' = jobProject /\ jobStatus' = jobStatus /\ current' = current
  /\ Serving' = Serving
PromiseStep ==
  \/ \E p \in Projects, j \in Jobs : AcceptStep(p, j) \/ AdoptStep(p, j)
  \/ \E j \in Jobs : BeginStep(j) \/ SucceedStep(j) \/ FailStep(j)
  \/ UpStep \/ DownStep \/ Unseen

\* Handlers: an accepted request, or a send that users do not see.
LEMMA HandlersPromise == PipelineInv /\ Handlers => PromiseStep
<1> SUFFICES ASSUME PipelineInv, Handlers PROVE PromiseStep
  OBVIOUS
<1>1. ASSUME NEW p \in Projects, NEW j \in Jobs, CreateJob(p, j) PROVE AcceptStep(p, j)
  BY <1>1 DEF CreateJob, AcceptStep, HasActiveJob, JobsOf, Serving, boot
<1>2. ASSUME NEW j \in Jobs, Enqueue(j) PROVE Unseen
  BY <1>2 DEF Enqueue, Unseen, tables, boot, Serving
<1> QED
  BY <1>1, <1>2 DEF Handlers, PromiseStep

\* The worker: claim, success and failure are visible, the rest is not.
LEMMA WorkerPromise == PipelineInv /\ Worker => PromiseStep
<1> SUFFICES ASSUME PipelineInv, Worker PROVE PromiseStep
  OBVIOUS
<1>1. CASE Claim
  <2>1. Head(queue) \in Jobs
    BY <1>1, HeadTailProperties DEF Claim, PipelineInv, TableInv, TypeOK
  <2>2. BeginStep(Head(queue)) \/ Unseen
    BY <1>1 DEF Claim, WorkerAt, BeginStep, Unseen, boot, Serving
  <2> QED
    BY <2>1, <2>2 DEF PromiseStep
<1>2. CASE Promote
  <2>1. worker.job \in Jobs
    BY <1>2 DEF Promote, WorkerAt, PipelineInv, TableInv, TypeOK
  <2>2. SucceedStep(worker.job)
    BY <1>2 DEF Promote, Promotable, WorkerAt, SucceedStep, boot, Serving
  <2> QED
    BY <2>1, <2>2 DEF PromiseStep
<1>3. CASE FailJob
  <2>1. worker.job \in Jobs
    BY <1>3 DEF FailJob, WorkerAt, PipelineInv, TableInv, TypeOK
  <2>2. FailStep(worker.job)
    BY <1>3 DEF FailJob, FailStep, boot, Serving
  <2> QED
    BY <2>1, <2>2 DEF PromiseStep
<1>4. CASE ~ (Claim \/ Promote \/ FailJob)
  <2>1. Unseen
    BY <1>4 DEF Worker, Build, StartApp, WaitReady, LoadCurrent, RemoveOld, PromoteRollback,
       ResolveRoute, WriteRoute, ClaimFault, FailJobFault, WriteRouteFault, Unseen, tables,
       boot, Serving
  <2> QED
    BY <2>1 DEF PromiseStep
<1> QED
  BY <1>1, <1>2, <1>3, <1>4

\* The start adopts, fails interrupted jobs and then begins to serve; a crash ends that.
LEMMA StartupPromise == PipelineInv /\ (Startup \/ Crash) => PromiseStep
<1> SUFFICES ASSUME PipelineInv, Startup \/ Crash PROVE PromiseStep
  OBVIOUS
<1>1. ASSUME NEW p \in Projects, ReconcileProject(p) PROVE PromiseStep
  <2>1. ~ Serving /\ Serving' = Serving
    BY <1>1 DEF ReconcileProject, Serving
  <2>2. ASSUME NEW k \in Keepers(p), Adopt(p, k) PROVE PromiseStep
    <3>1. k \in JobsOf(p) /\ app[k] = "running"
      BY <2>2 DEF Keepers
    <3>2. jobStatus[k] \in {"running", "succeeded", "failed"}
      BY <3>1 DEF PipelineInv, TableInv, ClaimedFirst, TypeOK, JobStatuses, Active, JobsOf
    <3>3. AdoptStep(p, k)
      BY <2>1, <2>2, <3>1, <3>2 DEF Adopt, AdoptStep, JobsOf
    <3> QED
      BY <3>1, <3>3 DEF PromiseStep, JobsOf
  <2>3. CASE UNCHANGED <<tables, app>>
    BY <2>1, <2>3 DEF tables, PromiseStep, Unseen
  <2> QED
    BY <1>1, <2>2, <2>3 DEF ReconcileProject
<1>2. ASSUME NEW j \in Jobs, RecoverJob(j) PROVE PromiseStep
  <2>1. FailStep(j)
    BY <1>2 DEF RecoverJob, FailStep, boot, Serving
  <2> QED
    BY <2>1 DEF PromiseStep
<1>3. CASE StartWorker
  BY <1>3 DEF StartWorker, PromiseStep, UpStep, tables, Serving
<1>4. CASE Crash
  <2>1. DownStep \/ Unseen
    BY <1>4 DEF Crash, DownStep, Unseen, tables, Serving
  <2> QED
    BY <2>1 DEF PromiseStep
<1>5. CASE \/ Boot \/ FinishPhase \/ Listen
           \/ \E p \in Projects : ReconcileStatus(p) \/ SyncIngress(p)
           \/ \E j \in Jobs : EnqueueBacklog(j)
  <2>1. Unseen
    BY <1>5 DEF Boot, FinishPhase, Listen, ReconcileStatus, SyncIngress, EnqueueBacklog,
       Unseen, tables, boot, Serving, NextPhase
  <2> QED
    BY <2>1 DEF PromiseStep
<1> QED
  BY <1>1, <1>2, <1>3, <1>4, <1>5 DEF Startup

\* With the table in place of the pointer these are the steps of the promise itself.
LEMMA StepImplements ==
  ASSUME PipelineInv, PipelineInv', PromiseStep
  PROVE  [Promise!PromiseNext]_Promise!promiseVars
<1>1. Served = current /\ Served' = current'
  <2>1. (Served = current)'
    BY ServedIsCurrent, PTL
  <2> QED
    BY <2>1, ServedIsCurrent
<1> USE DEF Promise!PromiseNext, Promise!promiseVars, Served
<1>2. ASSUME NEW p \in Projects, NEW j \in Jobs, AcceptStep(p, j)
      PROVE  Promise!Accept(p, j)
  BY <1>1, <1>2 DEF AcceptStep, Promise!Accept, Promise!Pending, Active
<1>3. ASSUME NEW p \in Projects, NEW j \in Jobs, AdoptStep(p, j)
      PROVE  Promise!Adopt(p, j)
  BY <1>1, <1>3 DEF AdoptStep, Promise!Adopt
<1>4. ASSUME NEW j \in Jobs, BeginStep(j) PROVE Promise!Begin(j)
  BY <1>1, <1>4 DEF BeginStep, Promise!Begin
<1>5. ASSUME NEW j \in Jobs, SucceedStep(j) PROVE Promise!Succeed(j)
  BY <1>1, <1>5 DEF SucceedStep, Promise!Succeed
<1>6. ASSUME NEW j \in Jobs, FailStep(j) PROVE Promise!Fail(j)
  BY <1>1, <1>6 DEF FailStep, Promise!Fail
<1>7. ASSUME UpStep PROVE Promise!GoUp
  BY <1>1, <1>7 DEF UpStep, Promise!GoUp
<1>8. ASSUME DownStep PROVE Promise!GoDown
  <2>1. Serving /\ Serving' = FALSE
    BY <1>8 DEF DownStep, Serving
  <2>2. jobProject' = jobProject /\ jobStatus' = jobStatus /\ Served' = Served
    BY <1>1, <1>8 DEF DownStep
  <2> QED
    BY <2>1, <2>2 DEF Promise!GoDown
<1>9. ASSUME Unseen PROVE UNCHANGED Promise!promiseVars
  BY <1>1, <1>9 DEF Unseen
<1> QED
  BY <1>2, <1>3, <1>4, <1>5, <1>6, <1>7, <1>8, <1>9 DEF PromiseStep

\* Whatever the pipeline, its crashes and its start-up do, users see nothing but
\* steps of the promise.
THEOREM PipelineImplementsPromise == Spec => ImplementsPromise
<1>1. Init => Promise!PromiseInit
  <2> SUFFICES ASSUME Init PROVE Promise!PromiseInit
    OBVIOUS
  <2>1. Served = current
    BY InitPipelineInv, ServedIsCurrent
  <2> QED
    BY <2>1 DEF Init, Promise!PromiseInit, Served, Serving
<1>2. ASSUME PipelineInv, PipelineInv', [Next]_vars
      PROVE  [Promise!PromiseNext]_Promise!promiseVars
  <2>1. CASE Next
    BY <1>2, <2>1, HandlersPromise, WorkerPromise, StartupPromise, StepImplements DEF Next
  <2>2. CASE UNCHANGED vars
    <3>1. Unseen
      BY <2>2 DEF vars, tables, boot, Unseen, Serving
    <3> QED
      BY <1>2, <3>1, StepImplements DEF PromiseStep
  <2> QED
    BY <1>2, <2>1, <2>2
<1> QED
  BY <1>1, <1>2, PipelineInvariant, PTL DEF Spec, ImplementsPromise, Promise!PromiseSpec
=============================================================================
