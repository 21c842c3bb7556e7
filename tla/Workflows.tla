----------------------------- MODULE Workflows -----------------------------
(***************************************************************************)
(* The workflows of one project: definitions (workflows.go), runs created  *)
(* over HTTP or by cron ticks, one worker goroutine that gives each run a  *)
(* one-shot container (workflow_manager.go, workflow_processor.go), cron   *)
(* entries kept in memory (workflow_scheduler.go), the clean-up of the     *)
(* project (cleanup.go), crashes of Brain and its start.                   *)
(*                                                                         *)
(* Runs are numbered as their rows are written.  A definition is reduced   *)
(* to its cap and to whether it is timed: enabled, with a schedule.  The   *)
(* status "preparing" is read by the code and written by none of it.       *)
(* Operators commented "Mutant" are plausible bugs of the operator that    *)
(* follows; no action uses them.                                           *)
(***************************************************************************)
EXTENDS Naturals, Sequences, FiniteSets

CONSTANTS
  Names,        \* workflow names
  Keys,         \* idempotency keys
  Caps,         \* queue caps a definition may be given, after defaulting
  Editors,      \* bound: PUT and DELETE handlers running at a time
  MaxRuns,      \* bound: rows of workflow_runs ever written
  QueueCap,     \* capacity of workflowManager.queue (64 in the code)
  MaxCrashes,   \* bound: crashes of the Brain process
  MaxRefused,   \* bound: updates of runs, and calls to create, stop, wait for or
                \* remove a container, that are refused or lose their answer
  Cleans,       \* whether users clean the project up
  None          \* no definition, no key, no run

Runs == 1 .. MaxRuns

ASSUME WorkflowBounds ==
  /\ Caps \subseteq Nat \ {0}
  /\ MaxRuns \in Nat
  /\ QueueCap \in Nat \ {0}
  /\ MaxCrashes \in Nat
  /\ MaxRefused \in Nat
  /\ Cleans \in BOOLEAN
ASSUME WorkflowNone == None \notin Names /\ None \notin Keys /\ None \notin Runs
                       /\ None \notin [cap : Caps, timed : BOOLEAN]
                       /\ None \notin [name : Names, timed : BOOLEAN]

VARIABLES
  defs,                 \* table workflows
  name, key, status,    \* table workflow_runs
  container,            \* the container of each run
  queue,                \* the channel workflowManager.queue
  waiting,              \* runs whose handler or cron job is about to send
  backlog,              \* queued runs that Start has still to send
  worker,               \* the worker goroutine
  cron, fired,          \* cron entries; cron jobs started and not yet run
  edits,                \* per PUT or DELETE handler: its pending Replace or Remove
  raced,                \* history: workflows whose last edit overlapped another one
  cleaner,              \* the Cleanup handler
  brain,                \* start-up phase
  crashes, refused      \* counters of the bounded faults

rows      == <<name, key, status>>
sends     == <<queue, waiting, backlog>>
timers    == <<cron, fired, edits, raced>>
counts    == <<crashes, refused>>
wfVars    == <<defs, rows, container, sends, worker, timers, cleaner, brain, counts>>

Active      == {"queued", "running"}
Ended       == {"succeeded", "failed", "timed_out", "skipped"}
Outcomes    == {"succeeded", "failed", "timed_out"}
Containers  == {"absent", "created", "running", "exited"}
Processing  == {"prepare", "create", "start", "wait", "stop", "drain", "remove", "finish"}
Phases      == {"down", "recover", "enqueue", "up"}
Definitions == [cap : Caps, timed : BOOLEAN]
Replacement == [name : Names, timed : BOOLEAN]
IdleWorker  == [pc |-> "idle", run |-> None, outcome |-> "failed"]
IdleCleaner == [pc |-> "idle", listed |-> {}]
Serving     == brain \in {"enqueue", "up"}   \* the worker goroutine runs

WorkflowTypeOK ==
  /\ defs \in [Names -> Definitions \cup {None}]
  /\ name \in [Runs -> Names \cup {None}]
  /\ key \in [Runs -> Keys \cup {None}]
  /\ status \in [Runs -> Active \cup Ended \cup {"none", "deleted"}]
  /\ container \in [Runs -> Containers]
  /\ queue \in Seq(Runs) /\ Len(queue) <= QueueCap
  /\ waiting \subseteq Runs /\ backlog \subseteq Runs
  /\ worker \in [pc : Processing \cup {"idle"}, run : Runs \cup {None}, outcome : Outcomes]
  /\ worker.pc # "idle" => worker.run \in Runs
  /\ cron \subseteq Names /\ fired \subseteq Names
  /\ edits \in [Editors -> Replacement \cup {None}]
  /\ raced \subseteq Names
  /\ cleaner \in [pc : {"idle", "remove", "network", "clear"}, listed : SUBSET Runs]
  /\ brain \in Phases
  /\ crashes \in 0 .. MaxCrashes
  /\ refused \in 0 .. MaxRefused

Rows == {r \in Runs : status[r] \notin {"none", "deleted"}}
ActiveRuns(n) == {r \in Runs : name[r] = n /\ status[r] \in Active}
Refuse == refused < MaxRefused /\ refused' = refused + 1
-----------------------------------------------------------------------------
(* Definitions and their cron entries.                                     *)

\* Another handler's change of n has still to reach the scheduler.
Pending(n) == \E e \in Editors : edits[e] # None /\ edits[e].name = n

\* A change of n commits: beside a pending one, or alone.
Race(n) == raced' = IF Pending(n) THEN raced \cup {n} ELSE raced \ {n}

\* handleUpsertWorkflowDefinition up to the commit of upsertWorkflowDefinition.
Upsert(e, n, d) ==
  /\ brain = "up"
  /\ edits[e] = None
  /\ defs' = [defs EXCEPT ![n] = d]
  /\ edits' = [edits EXCEPT ![e] = [name |-> n, timed |-> d.timed]]
  /\ Race(n)
  /\ UNCHANGED <<rows, container, sends, worker, cron, fired, cleaner, brain, counts>>

\* deleteWorkflowDefinition: the foreign key of workflow_runs refuses it while a
\* row refers to the definition.
Deletable(n) == defs[n] # None /\ \A r \in Rows : name[r] # n

DeleteDefinition(e, n) ==
  /\ brain = "up"
  /\ edits[e] = None
  /\ Deletable(n)
  /\ defs' = [defs EXCEPT ![n] = None]
  /\ edits' = [edits EXCEPT ![e] = [name |-> n, timed |-> FALSE]]
  /\ Race(n)
  /\ UNCHANGED <<rows, container, sends, worker, cron, fired, cleaner, brain, counts>>

\* Mutant: a new schedule keeps the entry only if there was none.
ReplaceToggles(e) ==
  /\ edits[e] # None
  /\ cron' = (cron \ {edits[e].name})
             \cup (IF edits[e].timed /\ edits[e].name \notin cron THEN {edits[e].name} ELSE {})
  /\ edits' = [edits EXCEPT ![e] = None]
  /\ UNCHANGED <<defs, rows, container, sends, worker, fired, raced, cleaner, brain, counts>>

\* workflowScheduler.Replace or Remove, under the scheduler's mutex but after the
\* transaction.
ReplaceEntry(e) ==
  /\ edits[e] # None
  /\ cron' = (cron \ {edits[e].name})
             \cup (IF edits[e].timed THEN {edits[e].name} ELSE {})
  /\ edits' = [edits EXCEPT ![e] = None]
  /\ UNCHANGED <<defs, rows, container, sends, worker, fired, raced, cleaner, brain, counts>>

-----------------------------------------------------------------------------
(* Runs are created.                                                       *)

NextRun(r) == status[r] = "none" /\ \A i \in Runs : i < r => status[i] # "none"

\* The unique index of workflow_runs on project, workflow and key.
Unique(n, k) == k = None \/ \A i \in Rows : name[i] = n => key[i] # k

\* insertWorkflowRunTx.  A violated index rolls the transaction back.
Insert(r, n, k, s) ==
  /\ NextRun(r)
  /\ Unique(n, k)
  /\ name' = [name EXCEPT ![r] = n]
  /\ key' = [key EXCEPT ![r] = k]
  /\ status' = [status EXCEPT ![r] = s]

\* getWorkflowRunByIdempotencyKeyTx: such a run is returned, nothing is written.
KeyKnown(n, k) == \E r \in Rows : name[r] = n /\ key[r] = k

\* Mutant: an off-by-one in the comparison with the cap.
RoomPlusOne(n) == Cardinality(ActiveRuns(n)) <= defs[n].cap

\* countActiveWorkflowRuns against the queue cap.
Room(n) == Cardinality(ActiveRuns(n)) < defs[n].cap

\* createQueuedWorkflowRunWithOptions.  Nothing looks at the enabled flag.
CreateRun(r, n, k) ==
  /\ brain = "up"
  /\ defs[n] # None
  /\ k # None => ~ KeyKnown(n, k)
  /\ Room(n)
  /\ Insert(r, n, k, "queued")
  /\ waiting' = waiting \cup {r}
  /\ UNCHANGED <<defs, container, queue, backlog, worker, timers, cleaner, brain, counts>>

\* cron starts the job of an entry in a goroutine of its own.
Fire(n) ==
  /\ brain = "up"
  /\ n \in cron
  /\ fired' = fired \cup {n}
  /\ UNCHANGED <<defs, rows, container, sends, worker, cron, edits, raced, cleaner, brain, counts>>

\* createScheduledWorkflowRun: a skipped row beside work under way, an error
\* without a definition.
Tick(n) ==
  /\ n \in fired
  /\ fired' = fired \ {n}
  /\ \/ /\ defs[n] = None
        /\ UNCHANGED <<rows, waiting>>
     \/ /\ defs[n] # None
        /\ ActiveRuns(n) # {}
        /\ \E r \in Runs : Insert(r, n, None, "skipped")
        /\ UNCHANGED waiting
     \/ /\ defs[n] # None
        /\ ActiveRuns(n) = {}
        /\ \E r \in Runs : Insert(r, n, None, "queued") /\ waiting' = waiting \cup {r}
  /\ UNCHANGED <<defs, container, queue, backlog, worker, cron, edits, raced, cleaner, brain,
                 counts>>

\* Mutant: a queue without a bound.
EnqueueUnbounded(r) ==
  /\ r \in waiting
  /\ queue' = Append(queue, r)
  /\ waiting' = waiting \ {r}
  /\ UNCHANGED <<defs, rows, container, backlog, worker, timers, cleaner, brain, counts>>

\* workflowManager.Enqueue blocks while the channel is full.
Enqueue(r) ==
  /\ r \in waiting
  /\ Len(queue) < QueueCap
  /\ queue' = Append(queue, r)
  /\ waiting' = waiting \ {r}
  /\ UNCHANGED <<defs, rows, container, backlog, worker, timers, cleaner, brain, counts>>

-----------------------------------------------------------------------------
(* The worker goroutine: one run at a time, from the channel to its end.   *)

WorkerAt(pc) == Serving /\ worker.pc = pc
Goto(pc) == worker' = [worker EXCEPT !.pc = pc]
GotoWith(pc, outcome) == worker' = [worker EXCEPT !.pc = pc, !.outcome = outcome]
SetContainer(c) == container' = [container EXCEPT ![worker.run] = c]
WorkerFrame == UNCHANGED <<defs, name, key, sends, timers, cleaner, brain, crashes>>

\* claimQueuedWorkflowRun: an id whose row is not queued is dropped.
Claim ==
  /\ WorkerAt("idle")
  /\ queue # <<>>
  /\ queue' = Tail(queue)
  /\ IF status[Head(queue)] = "queued"
       THEN /\ status' = [status EXCEPT ![Head(queue)] = "running"]
            /\ worker' = [IdleWorker EXCEPT !.pc = "prepare", !.run = Head(queue)]
       ELSE UNCHANGED <<status, worker>>
  /\ UNCHANGED <<defs, name, key, container, waiting, backlog, timers, cleaner, brain, counts>>

\* The update is refused: processRun logs it and forgets the run.
ClaimFault ==
  /\ WorkerAt("idle")
  /\ queue # <<>>
  /\ queue' = Tail(queue)
  /\ Refuse
  /\ UNCHANGED <<defs, rows, container, waiting, backlog, worker, timers, cleaner, brain, crashes>>

\* Process up to the payload file: network, PocketBase, configuration.
Prepare ==
  /\ WorkerAt("prepare")
  /\ Goto("create") \/ GotoWith("finish", "failed")
  /\ WorkerFrame /\ UNCHANGED <<status, container, refused>>

\* CreateWorkflowContainer ensures the network, then creates.  Whatever a failed call
\* has made is not removed: the removal is deferred after it.
CreateContainer ==
  /\ WorkerAt("create")
  /\ \/ SetContainer("created") /\ Goto("start") /\ UNCHANGED refused
     \/ GotoWith("finish", "failed") /\ UNCHANGED <<container, refused>>
     \/ SetContainer("created") /\ GotoWith("finish", "failed") /\ Refuse
  /\ WorkerFrame /\ UNCHANGED status

\* Mutant: a failed start returns before the removal is deferred.
StartContainerLeaves ==
  /\ WorkerAt("start")
  /\ \/ container[worker.run] = "created" /\ SetContainer("running") /\ Goto("wait")
     \/ GotoWith("finish", "failed") /\ UNCHANGED container
  /\ WorkerFrame /\ UNCHANGED <<status, refused>>

\* StartWorkflowContainer, then StreamWorkflowContainerLogs, which may fail beside
\* a container that runs.
StartContainer ==
  /\ WorkerAt("start")
  /\ \/ container[worker.run] = "created" /\ SetContainer("running") /\ Goto("wait")
     \/ container[worker.run] = "created" /\ SetContainer("running") /\ GotoWith("remove", "failed")
     \/ GotoWith("remove", "failed") /\ UNCHANGED container
  /\ WorkerFrame /\ UNCHANGED <<status, refused>>

\* WaitWorkflowContainer: the container ended, and may be removed by now, the
\* deadline passed, or the call itself failed while the container runs on.
Wait ==
  /\ WorkerAt("wait")
  /\ \/ /\ container[worker.run] \in {"exited", "absent"}
        /\ GotoWith("drain", "succeeded") \/ GotoWith("drain", "failed")
        /\ UNCHANGED refused
     \/ GotoWith("stop", "timed_out") /\ UNCHANGED refused
     \/ GotoWith("drain", "failed") /\ Refuse
  /\ WorkerFrame /\ UNCHANGED <<status, container>>

\* StopWorkflowContainer after the deadline; its error is ignored.
Stop ==
  /\ WorkerAt("stop")
  /\ Goto("drain")
  /\ \/ /\ container[worker.run] = "running"
        /\ SetContainer("exited") /\ UNCHANGED refused
     \/ container[worker.run] # "running" /\ UNCHANGED <<container, refused>>
     \/ Refuse /\ UNCHANGED container
  /\ WorkerFrame /\ UNCHANGED status

\* The copy of the log ends when the container does.
Drain ==
  /\ WorkerAt("drain")
  /\ container[worker.run] # "running"
  /\ Goto("remove")
  /\ WorkerFrame /\ UNCHANGED <<status, container, refused>>

\* The deferred RemoveWorkflowContainer, forced; its error is ignored.
Remove ==
  /\ WorkerAt("remove")
  /\ Goto("finish")
  /\ \/ SetContainer("absent") /\ UNCHANGED refused
     \/ Refuse /\ UNCHANGED container
  /\ WorkerFrame /\ UNCHANGED status

\* markWorkflowRunSucceeded or markWorkflowRunTerminal; without a row left the
\* error is logged.
Finish ==
  /\ WorkerAt("finish")
  /\ worker' = IdleWorker
  /\ IF status[worker.run] = "running"
       THEN status' = [status EXCEPT ![worker.run] = worker.outcome]
       ELSE UNCHANGED status
  /\ WorkerFrame /\ UNCHANGED <<container, refused>>

FinishFault ==
  /\ WorkerAt("finish")
  /\ worker' = IdleWorker
  /\ Refuse
  /\ WorkerFrame /\ UNCHANGED <<status, container>>

Worker == \/ Claim \/ ClaimFault \/ Prepare \/ CreateContainer \/ StartContainer
          \/ Wait \/ Stop \/ Drain \/ Remove \/ Finish \/ FinishFault

\* The workload ends.
Exit(r) ==
  /\ container[r] = "running"
  /\ container' = [container EXCEPT ![r] = "exited"]
  /\ UNCHANGED <<defs, rows, sends, worker, timers, cleaner, brain, counts>>

\* The log stream breaks although the container runs.
LogBreaks ==
  /\ WorkerAt("drain")
  /\ container[worker.run] = "running"
  /\ Goto("remove")
  /\ WorkerFrame /\ UNCHANGED <<status, container, refused>>
-----------------------------------------------------------------------------
(* Cleanup of the project.                                                 *)

CleanerAt(pc) == Cleans /\ brain = "up" /\ cleaner.pc = pc
CleanerFrame == UNCHANGED <<key, name, sends, worker, timers, brain, counts>>

\* RemoveProjectWorkflowContainers lists the containers ...
CleanList ==
  /\ CleanerAt("idle")
  /\ cleaner' = [pc |-> "remove", listed |-> {r \in Runs : container[r] # "absent"}]
  /\ CleanerFrame /\ UNCHANGED <<defs, status, container>>

\* ... and removes them, one after the other.
CleanRemove(r) ==
  /\ CleanerAt("remove")
  /\ r \in cleaner.listed
  /\ container' = [container EXCEPT ![r] = "absent"]
  /\ cleaner' = [cleaner EXCEPT !.listed = @ \ {r}]
  /\ CleanerFrame /\ UNCHANGED <<defs, status>>

\* RemoveProjectNetwork succeeds, or fails (CleanAbort).
CleanNetwork ==
  /\ CleanerAt("remove")
  /\ cleaner.listed = {}
  /\ cleaner' = [cleaner EXCEPT !.pc = "clear"]
  /\ CleanerFrame /\ UNCHANGED <<defs, status, container>>

\* clearProjectWorkflowState.  The cron entries stay.
CleanClear ==
  /\ CleanerAt("clear")
  /\ defs' = [n \in Names |-> None]
  /\ status' = [r \in Runs |-> IF status[r] = "none" THEN "none" ELSE "deleted"]
  /\ cleaner' = IdleCleaner
  /\ CleanerFrame /\ UNCHANGED container

\* A call of Cleanup fails, the attempts of retryRuntimeTeardown used up.
CleanAbort ==
  /\ Cleans /\ cleaner.pc # "idle"
  /\ cleaner' = IdleCleaner
  /\ CleanerFrame /\ UNCHANGED <<defs, status, container>>

Cleanup == \/ CleanList \/ (\E r \in Runs : CleanRemove(r)) \/ CleanNetwork
           \/ CleanClear \/ CleanAbort
-----------------------------------------------------------------------------
(* Crashes of Brain and its start.                                         *)

StartFrame == UNCHANGED <<defs, name, key, container, timers, cleaner, counts>>

\* main, before workflowManager.Start.
Boot ==
  /\ brain = "down"
  /\ brain' = "recover"
  /\ StartFrame /\ UNCHANGED <<status, sends, worker>>

\* Mutant: interrupted runs are queued again.
RecoverRequeues(r) ==
  /\ brain = "recover"
  /\ status[r] = "running"
  /\ status' = [status EXCEPT ![r] = "queued"]
  /\ StartFrame /\ UNCHANGED <<sends, worker, brain>>

\* recoverInterruptedWorkflowRuns, row by row.
RecoverRun(r) ==
  /\ brain = "recover"
  /\ status[r] = "running"
  /\ status' = [status EXCEPT ![r] = "failed"]
  /\ StartFrame /\ UNCHANGED <<sends, worker, brain>>

\* Mutant: interrupted runs are listed with the queued ones.
StartManagerUnrecovered ==
  /\ brain = "recover"
  /\ backlog' = {r \in Runs : status[r] \in Active}
  /\ brain' = "enqueue"
  /\ StartFrame /\ UNCHANGED <<status, queue, waiting, worker>>

\* Mutant: queued runs are not listed.
StartManagerForgets ==
  /\ brain = "recover"
  /\ \A r \in Runs : status[r] # "running"
  /\ brain' = "enqueue"
  /\ StartFrame /\ UNCHANGED <<status, sends, worker>>

\* listQueuedWorkflowRunIDs, then the goroutine starts.
StartManager ==
  /\ brain = "recover"
  /\ \A r \in Runs : status[r] # "running"
  /\ backlog' = {r \in Runs : status[r] = "queued"}
  /\ brain' = "enqueue"
  /\ StartFrame /\ UNCHANGED <<status, queue, waiting, worker>>

\* The sends of workflowManager.Start, in the text order of created_at: with its
\* trailing zeros dropped, that is not always the order of creation.
EnqueueBacklog ==
  /\ brain = "enqueue"
  /\ Len(queue) < QueueCap
  /\ \E r \in backlog : queue' = Append(queue, r) /\ backlog' = backlog \ {r}
  /\ StartFrame /\ UNCHANGED <<status, waiting, worker, brain>>

\* workflowScheduler.Start, then the server listens.
StartScheduler ==
  /\ brain = "enqueue"
  /\ backlog = {}
  /\ cron' = {n \in Names : defs[n] # None /\ defs[n].timed}
  /\ brain' = "up"
  /\ UNCHANGED <<defs, rows, container, sends, worker, fired, edits, raced, cleaner, counts>>

Startup == \/ Boot \/ (\E r \in Runs : RecoverRun(r)) \/ StartManager
           \/ EnqueueBacklog \/ StartScheduler

\* Tables and containers stay.
Crash ==
  /\ brain # "down"
  /\ crashes < MaxCrashes
  /\ crashes' = crashes + 1
  /\ brain' = "down"
  /\ queue' = <<>> /\ waiting' = {} /\ backlog' = {}
  /\ worker' = IdleWorker
  /\ cron' = {} /\ fired' = {} /\ edits' = [e \in Editors |-> None] /\ raced' = {}
  /\ cleaner' = IdleCleaner
  /\ UNCHANGED <<defs, rows, container, refused>>
-----------------------------------------------------------------------------
Init ==
  /\ defs = [n \in Names |-> None]
  /\ name = [r \in Runs |-> None]
  /\ key = [r \in Runs |-> None]
  /\ status = [r \in Runs |-> "none"]
  /\ container = [r \in Runs |-> "absent"]
  /\ queue = <<>> /\ waiting = {} /\ backlog = {}
  /\ worker = IdleWorker
  /\ cron = {} /\ fired = {} /\ edits = [e \in Editors |-> None] /\ raced = {}
  /\ cleaner = IdleCleaner
  /\ brain = "down"
  /\ crashes = 0 /\ refused = 0

Request ==
  \/ \E e \in Editors, n \in Names :
       (\E d \in Definitions : Upsert(e, n, d)) \/ DeleteDefinition(e, n)
  \/ \E r \in Runs, n \in Names, k \in Keys \cup {None} : CreateRun(r, n, k)
  \/ \E n \in Names : Fire(n)

Next ==
  \/ Request
  \/ \E e \in Editors : ReplaceEntry(e)
  \/ \E n \in Names : Tick(n)
  \/ \E r \in Runs : Enqueue(r) \/ Exit(r)
  \/ Worker \/ LogBreaks
  \/ Cleanup
  \/ Startup \/ Crash

Spec == Init /\ [][Next]_wfVars

\* What the Go scheduler gives the goroutines of a live process: senders, the worker
\* and, once Brain is started, its start-up go on.
Fairness ==
  /\ \A r \in Runs : WF_wfVars(Enqueue(r))
  /\ WF_wfVars(Worker)
  /\ WF_wfVars(brain # "down" /\ Startup)

FairSpec == Spec /\ Fairness
-----------------------------------------------------------------------------
(* Properties that hold.                                                   *)

\* A run is only added under its definition's cap, whoever adds it: a request, a cron
\* tick or a start, beside edits of the cap.
WithinCap ==
  [][\A n \in Names : ActiveRuns(n)' \ ActiveRuns(n) # {} =>
       defs[n] # None /\ Cardinality(ActiveRuns(n)') <= defs[n].cap]_wfVars

\* An id is held by one of channel, blocked sender and start-up list, once, and its
\* row is still queued unless the project was cleaned up: no run is processed twice.
RunQueueSound ==
  /\ \A i, j \in DOMAIN queue : queue[i] = queue[j] => i = j
  /\ \A i \in DOMAIN queue : queue[i] \notin waiting \cup backlog
  /\ waiting \cap backlog = {}
  /\ \A r \in Runs : r \in waiting \cup backlog \/ (\E i \in DOMAIN queue : queue[i] = r)
                       => status[r] \in {"queued", "deleted"}

\* No other code moves the run of the worker: its row is running or gone until
\* Finish.
WorkerOwnsRun == worker.pc # "idle" => status[worker.run] \in {"running", "deleted"}

\* Active rows that nobody will move on.
Stranded == {r \in Rows :
  \/ status[r] = "queued" /\ r \notin waiting \cup backlog
                          /\ \A i \in DOMAIN queue : queue[i] # r
  \/ status[r] = "running" /\ worker.run # r}

\* Once Brain serves, each active row that is stuck, and takes a place under the cap,
\* has cost a refused update.
RunsStrandedOnlyByFaults == Serving => Cardinality(Stranded) <= refused

\* Each container beside the worker's own is the leftover of a crash, of a refused
\* removal or of a creation whose answer was lost: no path through Process forgets one.
LeftoversOnlyByFaults ==
  Cardinality({r \in Runs : container[r] # "absent" /\ worker.run # r}) <= crashes + refused

\* A run is in one hand at a time: the channel's, a sender's, the start-up's or
\* the worker's, and its row says which kind.
RunHeldOnce == RunQueueSound /\ WorkerOwnsRun

\* Nothing is lost but by a fault: no row that stays active, no container that
\* stays behind.
LostOnlyByFaults == RunsStrandedOnlyByFaults /\ LeftoversOnlyByFaults

\* A run that has begun never becomes queued again, also not across restarts, and
\* only the worker that claimed it creates its container: it runs at most once.
RunsAtMostOnce ==
  [][\A r \in Runs :
       /\ status[r] \notin {"none", "queued"} => status'[r] # "queued"
       /\ container[r] = "absent" /\ container'[r] # "absent" => worker.run = r]_wfVars

\* docs/async-workflows-design.md:85: timers "are only wake-up mechanisms", the tables
\* are the truth.  The scheduler is told after the transaction, so two overlapping edits
\* of one workflow may reach it in the other order.  That is the only way to lose a
\* timer or to keep one of an untimed workflow, whatever edits of other workflows,
\* clean-ups and restarts go on beside, and the next edit that is alone, or a restart,
\* repairs it.
TimersFollow ==
  brain = "up" => \A n \in Names \ raced :
    defs[n] # None /\ ~ Pending(n) => (n \in cron <=> defs[n].timed)

StartedAgain == []<>(brain # "down")

\* If Brain is started again whenever it is down, a queued run ends, or is cleaned up,
\* unless an update or a call was refused.  The workload need not end: the deadline
\* ends it.
EveryRunEnds ==
  StartedAgain =>
    \A r \in Runs : status[r] = "queued"
                      ~> (status[r] \in Ended \cup {"deleted"} \/ refused > 0)
=============================================================================
