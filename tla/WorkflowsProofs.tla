--------------------------- MODULE WorkflowsProofs ---------------------------
(***************************************************************************)
(* Safety of the workflows of a project, for every set of names, keys and  *)
(* caps, every channel capacity and any number of runs, editors, crashes   *)
(* and refused calls.                                                      *)
(***************************************************************************)
EXTENDS Workflows, QueueLemmas, FiniteSetTheorems

\* The runs in the channel.
Queued == {queue[i] : i \in DOMAIN queue}

-----------------------------------------------------------------------------
(* Type correctness.                                                       *)

\* A row is written with the values of its columns' types.
LEMMA InsertType ==
  ASSUME WorkflowTypeOK, NEW r \in Runs, NEW n \in Names, NEW k \in Keys \cup {None},
         NEW s \in {"queued", "skipped"}, Insert(r, n, k, s)
  PROVE  /\ name' \in [Runs -> Names \cup {None}]
         /\ key' \in [Runs -> Keys \cup {None}]
         /\ status' \in [Runs -> Active \cup Ended \cup {"none", "deleted"}]
BY DEF WorkflowTypeOK, Insert, Active, Ended

\* Requests keep every variable in its type.
LEMMA RequestTypeOK == WorkflowTypeOK /\ Request => WorkflowTypeOK'
<1> SUFFICES ASSUME WorkflowTypeOK, Request PROVE WorkflowTypeOK'
  OBVIOUS
<1>1. ASSUME NEW e \in Editors, NEW n \in Names, NEW d \in Definitions, Upsert(e, n, d)
      PROVE  WorkflowTypeOK'
  <2>1. defs' \in [Names -> Definitions \cup {None}]
    BY <1>1 DEF WorkflowTypeOK, Upsert
  <2>2. [name |-> n, timed |-> d.timed] \in Replacement
    BY DEF Definitions, Replacement
  <2>3. edits' \in [Editors -> Replacement \cup {None}]
    BY <1>1, <2>2 DEF WorkflowTypeOK, Upsert
  <2> QED
    BY <1>1, <2>1, <2>3 DEF WorkflowTypeOK, Upsert, Race, rows, sends, counts
<1>2. ASSUME NEW e \in Editors, NEW n \in Names, DeleteDefinition(e, n)
      PROVE  WorkflowTypeOK'
  <2>1. edits' \in [Editors -> Replacement \cup {None}]
    BY <1>2 DEF WorkflowTypeOK, DeleteDefinition, Replacement
  <2> QED
    BY <1>2, <2>1 DEF WorkflowTypeOK, DeleteDefinition, Race, rows, sends, counts
<1>3. ASSUME NEW r \in Runs, NEW n \in Names, NEW k \in Keys \cup {None}, CreateRun(r, n, k)
      PROVE  WorkflowTypeOK'
  BY <1>3, InsertType DEF WorkflowTypeOK, CreateRun, timers, counts
<1>4. ASSUME NEW n \in Names, Fire(n) PROVE WorkflowTypeOK'
  BY <1>4 DEF WorkflowTypeOK, Fire, rows, sends, counts
<1> QED
  BY <1>1, <1>2, <1>3, <1>4 DEF Request

\* So do the entries' changes, the cron jobs and the senders.
LEMMA TimersTypeOK ==
  ASSUME WorkflowTypeOK,
         \/ \E e \in Editors : ReplaceEntry(e)
         \/ \E n \in Names : Tick(n)
         \/ \E r \in Runs : Enqueue(r) \/ Exit(r)
  PROVE  WorkflowTypeOK'
<1>1. ASSUME NEW e \in Editors, ReplaceEntry(e) PROVE WorkflowTypeOK'
  <2>1. edits[e] \in Replacement /\ edits[e].name \in Names
    BY <1>1 DEF ReplaceEntry, WorkflowTypeOK, Replacement
  <2>2. cron' \subseteq Names /\ edits' \in [Editors -> Replacement \cup {None}]
    BY <1>1, <2>1 DEF ReplaceEntry, WorkflowTypeOK
  <2> QED
    BY <1>1, <2>2 DEF WorkflowTypeOK, ReplaceEntry, rows, sends, counts
<1>2. ASSUME NEW n \in Names, Tick(n) PROVE WorkflowTypeOK'
  <2>1. CASE UNCHANGED <<rows, waiting>>
    BY <1>2, <2>1 DEF WorkflowTypeOK, Tick, rows, counts
  <2>2. ASSUME NEW r \in Runs, NEW s \in {"queued", "skipped"}, Insert(r, n, None, s),
               waiting' = waiting \/ waiting' = waiting \cup {r}
        PROVE  WorkflowTypeOK'
    BY <1>2, <2>2, InsertType DEF WorkflowTypeOK, Tick, counts
  <2> QED
    BY <1>2, <2>1, <2>2 DEF Tick
<1>3. ASSUME NEW r \in Runs, Enqueue(r) PROVE WorkflowTypeOK'
  <2>1. queue' \in Seq(Runs) /\ Len(queue') <= QueueCap
    BY <1>3, WorkflowBounds DEF Enqueue, WorkflowTypeOK
  <2> QED
    BY <1>3, <2>1 DEF WorkflowTypeOK, Enqueue, rows, timers, counts
<1>4. ASSUME NEW r \in Runs, Exit(r) PROVE WorkflowTypeOK'
  BY <1>4 DEF WorkflowTypeOK, Exit, rows, sends, timers, counts, Containers
<1> QED
  BY <1>1, <1>2, <1>3, <1>4

\* A step between two calls of Process keeps the worker's run, and what it writes is
\* of its type.
WorkerCall ==
  /\ worker.pc \in Processing
  /\ \E pc \in Processing, o \in Outcomes :
       worker' = [pc |-> pc, run |-> worker.run, outcome |-> o]
  /\ \/ container' = container
     \/ \E c \in Containers : container' = [container EXCEPT ![worker.run] = c]
  /\ refused' = refused \/ Refuse
  /\ UNCHANGED <<defs, rows, sends, timers, cleaner, brain, crashes>>

\* The calls of Process and what they leave alone.
LEMMA ProcessIsWorkerCall ==
  ASSUME WorkflowTypeOK,
         \/ Prepare \/ CreateContainer \/ StartContainer \/ Wait \/ Stop \/ Drain
         \/ Remove \/ LogBreaks
  PROVE  WorkerCall
<1> USE DEF WorkerAt, WorkerFrame, rows, Containers
<1>1. worker = [pc |-> worker.pc, run |-> worker.run, outcome |-> worker.outcome]
      /\ worker.outcome \in Outcomes
  BY DEF WorkflowTypeOK
<1>2. ASSUME NEW pc \in Processing, Goto(pc)
      PROVE  \E q \in Processing, o \in Outcomes :
               worker' = [pc |-> q, run |-> worker.run, outcome |-> o]
  BY <1>1, <1>2 DEF Goto
<1>3. ASSUME NEW pc \in Processing, NEW o \in Outcomes, GotoWith(pc, o)
      PROVE  \E q \in Processing, x \in Outcomes :
               worker' = [pc |-> q, run |-> worker.run, outcome |-> x]
  BY <1>1, <1>3 DEF GotoWith
<1>4. CASE Prepare
  BY <1>2, <1>3, <1>4 DEF Prepare, WorkerCall, Processing, Outcomes
<1>5. CASE CreateContainer
  BY <1>2, <1>3, <1>5 DEF CreateContainer, WorkerCall, Processing, Outcomes, SetContainer
<1>6. CASE StartContainer
  BY <1>2, <1>3, <1>6 DEF StartContainer, WorkerCall, Processing, Outcomes, SetContainer
<1>7. CASE Wait
  BY <1>2, <1>3, <1>7 DEF Wait, WorkerCall, Processing, Outcomes
<1>8. CASE Stop
  BY <1>2, <1>8 DEF Stop, WorkerCall, Processing, SetContainer
<1>9. CASE Drain \/ LogBreaks
  BY <1>2, <1>9 DEF Drain, LogBreaks, WorkerCall, Processing
<1>10. CASE Remove
  BY <1>2, <1>10 DEF Remove, WorkerCall, Processing, SetContainer
<1> QED
  BY <1>4, <1>5, <1>6, <1>7, <1>8, <1>9, <1>10

\* Every step of the worker keeps every variable in its type.
LEMMA WorkerTypeOK == WorkflowTypeOK /\ (Worker \/ LogBreaks) => WorkflowTypeOK'
<1> SUFFICES ASSUME WorkflowTypeOK, Worker \/ LogBreaks PROVE WorkflowTypeOK'
  OBVIOUS
<1>1. ASSUME WorkerCall PROVE WorkflowTypeOK'
  <2>1. refused' \in 0 .. MaxRefused
    BY <1>1, WorkflowBounds DEF WorkerCall, Refuse, WorkflowTypeOK
  <2>2. container' \in [Runs -> Containers]
    BY <1>1 DEF WorkerCall, WorkflowTypeOK
  <2>3. /\ worker' \in [pc : Processing \cup {"idle"}, run : Runs \cup {None}, outcome : Outcomes]
        /\ worker'.run \in Runs
    <3>1. worker.run \in Runs
      BY <1>1 DEF WorkerCall, WorkflowTypeOK, Processing
    <3> QED
      BY <1>1, <3>1 DEF WorkerCall, WorkflowTypeOK
  <2> QED
    BY <1>1, <2>1, <2>2, <2>3 DEF WorkerCall, WorkflowTypeOK, rows, sends, timers
<1>2. CASE Claim
  <2>1. queue' \in Seq(Runs) /\ Len(queue') <= QueueCap /\ Head(queue) \in Runs
    BY <1>2, HeadTailProperties, WorkflowBounds DEF Claim, WorkflowTypeOK
  <2>2. status' \in [Runs -> Active \cup Ended \cup {"none", "deleted"}]
    BY <1>2, <2>1, SMTT(20) DEF Claim, WorkflowTypeOK, Active
  <2>3. /\ worker' \in [pc : Processing \cup {"idle"}, run : Runs \cup {None}, outcome : Outcomes]
        /\ worker'.pc # "idle" => worker'.run \in Runs
    BY <1>2, <2>1, ZenonT(30) DEF Claim, WorkflowTypeOK, IdleWorker, Processing, Outcomes
  <2> QED
    BY <1>2, <2>1, <2>2, <2>3 DEF Claim, WorkflowTypeOK, timers, counts
<1>3. CASE ClaimFault
  <2>1. queue' \in Seq(Runs) /\ Len(queue') <= QueueCap /\ refused' \in 0 .. MaxRefused
    BY <1>3, HeadTailProperties, WorkflowBounds DEF ClaimFault, Refuse, WorkflowTypeOK
  <2> QED
    BY <1>3, <2>1 DEF ClaimFault, WorkflowTypeOK, rows, timers
<1>4. CASE Finish \/ FinishFault
  <2>1. status' \in [Runs -> Active \cup Ended \cup {"none", "deleted"}]
    BY <1>4 DEF Finish, FinishFault, WorkflowTypeOK, Outcomes, Ended
  <2>2. refused' \in 0 .. MaxRefused
    BY <1>4, WorkflowBounds DEF Finish, FinishFault, Refuse, WorkflowTypeOK
  <2>3. worker' = IdleWorker
    BY <1>4 DEF Finish, FinishFault
  <2> QED
    BY <1>4, <2>1, <2>2, <2>3 DEF Finish, FinishFault, WorkerFrame, WorkflowTypeOK,
       IdleWorker, Outcomes, sends, timers
<1> QED
  BY <1>1, <1>2, <1>3, <1>4, ProcessIsWorkerCall DEF Worker

\* So do the steps of Cleanup, and the start and the crash of Brain.
LEMMA CleanupTypeOK == WorkflowTypeOK /\ Cleanup => WorkflowTypeOK'
<1> SUFFICES ASSUME WorkflowTypeOK, Cleanup PROVE WorkflowTypeOK'
  OBVIOUS
<1> USE DEF WorkflowTypeOK, CleanerFrame, sends, timers, counts
<1>1. CASE CleanList
  BY <1>1 DEF CleanList
<1>2. ASSUME NEW r \in Runs, CleanRemove(r) PROVE WorkflowTypeOK'
  BY <1>2 DEF CleanRemove, Containers
<1>3. CASE CleanNetwork
  BY <1>3 DEF CleanNetwork
<1>4. CASE CleanClear
  <2>1. /\ defs' \in [Names -> Definitions \cup {None}]
        /\ status' \in [Runs -> Active \cup Ended \cup {"none", "deleted"}]
    BY <1>4 DEF CleanClear
  <2> QED
    BY <1>4, <2>1 DEF CleanClear, IdleCleaner
<1>5. CASE CleanAbort
  BY <1>5 DEF CleanAbort, IdleCleaner
<1> QED
  BY <1>1, <1>2, <1>3, <1>4, <1>5 DEF Cleanup

\* The start-up steps and a crash keep every variable in its type.
LEMMA StartupTypeOK == WorkflowTypeOK /\ (Startup \/ Crash) => WorkflowTypeOK'
<1> SUFFICES ASSUME WorkflowTypeOK, Startup \/ Crash PROVE WorkflowTypeOK'
  OBVIOUS
<1> USE DEF WorkflowTypeOK, StartFrame, timers, Phases
<1>1. CASE Boot
  BY <1>1 DEF Boot, sends, counts
<1>2. ASSUME NEW r \in Runs, RecoverRun(r) PROVE WorkflowTypeOK'
  BY <1>2 DEF RecoverRun, sends, counts, Ended
<1>3. CASE StartManager
  BY <1>3 DEF StartManager, counts
<1>4. CASE EnqueueBacklog
  <2>1. queue' \in Seq(Runs) /\ Len(queue') <= QueueCap /\ backlog' \subseteq Runs
    BY <1>4, WorkflowBounds DEF EnqueueBacklog
  <2> QED
    BY <1>4, <2>1 DEF EnqueueBacklog, counts
<1>5. CASE StartScheduler
  BY <1>5 DEF StartScheduler, rows, sends, counts
<1>6. CASE Crash
  <2>1. crashes' \in 0 .. MaxCrashes /\ queue' \in Seq(Runs) /\ Len(queue') <= QueueCap
    BY <1>6, WorkflowBounds DEF Crash
  <2> QED
    BY <1>6, <2>1 DEF Crash, rows, IdleWorker, IdleCleaner, Outcomes
<1> QED
  BY <1>1, <1>2, <1>3, <1>4, <1>5, <1>6 DEF Startup

-----------------------------------------------------------------------------
(* The inductive invariant.                                                *)

\* Until the manager starts, no goroutine exists and the channel is empty.
NothingBeforeStart ==
  brain \in {"down", "recover"} =>
    queue = <<>> /\ waiting = {} /\ backlog = {} /\ worker = IdleWorker /\ fired = {}

WorkflowInv == WorkflowTypeOK /\ RunQueueSound /\ WorkerOwnsRun /\ NothingBeforeStart

\* No run, no key, nothing held: the empty state satisfies the invariant.
LEMMA InitWorkflowInv == Init => WorkflowInv
<1> SUFFICES ASSUME Init PROVE WorkflowInv
  OBVIOUS
<1>1. WorkflowTypeOK
  BY WorkflowBounds DEF Init, WorkflowTypeOK, IdleWorker, IdleCleaner, Phases, Containers,
     Outcomes
<1>2. NothingBeforeStart
  BY DEF Init, NothingBeforeStart
<1>3. RunQueueSound /\ WorkerOwnsRun
  BY DEF Init, RunQueueSound, WorkerOwnsRun, IdleWorker
<1> QED
  BY <1>1, <1>2, <1>3 DEF WorkflowInv

\* RunQueueSound in terms of the runs in the channel.
LEMMA QueueSoundIs ==
  RunQueueSound <=>
    /\ \A i, j \in DOMAIN queue : queue[i] = queue[j] => i = j
    /\ Queued \cap (waiting \cup backlog) = {}
    /\ waiting \cap backlog = {}
    /\ \A r \in Runs : r \in Queued \cup waiting \cup backlog
                         => status[r] \in {"queued", "deleted"}
BY DEF RunQueueSound, Queued

\* Steps that touch no row and nothing that holds a run's id.
LEMMA IdsKept ==
  ASSUME WorkflowInv, UNCHANGED <<rows, sends, brain>>, worker' = worker,
         brain \notin {"down", "recover"} \/ fired' = fired
  PROVE  RunQueueSound' /\ WorkerOwnsRun' /\ NothingBeforeStart'
BY DEF WorkflowInv, rows, sends, RunQueueSound, WorkerOwnsRun,
   NothingBeforeStart

\* insertWorkflowRunTx: the id of the new row is nowhere yet, and no other row is touched.
LEMMA InsertInv ==
  ASSUME WorkflowInv, brain \notin {"down", "recover"},
         NEW r \in Runs, NEW n \in Names, NEW k \in Keys \cup {None},
         NEW s \in {"queued", "skipped"}, Insert(r, n, k, s),
         waiting' = waiting \/ (waiting' = waiting \cup {r} /\ s = "queued"),
         UNCHANGED <<queue, backlog, worker, brain>>
  PROVE  RunQueueSound' /\ WorkerOwnsRun' /\ NothingBeforeStart'
<1> USE DEF WorkflowInv
<1>1. /\ status[r] = "none" /\ status'[r] = s
      /\ \A i \in Runs \ {r} : status'[i] = status[i]
  BY DEF Insert, NextRun, WorkflowTypeOK
<1>3. RunQueueSound'
  <2>1. r \notin Queued \cup waiting \cup backlog
    BY <1>1, QueueSoundIs
  <2>2. Queued' = Queued
    BY DEF Queued
  <2> QED
    BY <1>1, <2>1, <2>2, QueueSoundIs DEF RunQueueSound, Queued
<1>4. WorkerOwnsRun'
  BY <1>1 DEF WorkerOwnsRun, WorkflowTypeOK
<1>5. NothingBeforeStart'
  BY DEF NothingBeforeStart
<1> QED
  BY <1>3, <1>4, <1>5

\* Requests and cron jobs preserve the invariant.
LEMMA RequestInv ==
  ASSUME WorkflowInv, Request \/ \E n \in Names : Tick(n)
  PROVE  WorkflowInv'
<1>1. WorkflowTypeOK'
  BY RequestTypeOK, TimersTypeOK DEF WorkflowInv
<1>2. RunQueueSound' /\ WorkerOwnsRun' /\ NothingBeforeStart'
  <2>1. ASSUME NEW e \in Editors, NEW n \in Names,
               (\E d \in Definitions : Upsert(e, n, d)) \/ DeleteDefinition(e, n)
        PROVE  RunQueueSound' /\ WorkerOwnsRun' /\ NothingBeforeStart'
    BY <2>1, IdsKept DEF Upsert, DeleteDefinition
  <2>2. ASSUME NEW r \in Runs, NEW n \in Names, NEW k \in Keys \cup {None}, CreateRun(r, n, k)
        PROVE  RunQueueSound' /\ WorkerOwnsRun' /\ NothingBeforeStart'
    BY <2>2, InsertInv DEF CreateRun
  <2>3. ASSUME NEW n \in Names, Fire(n)
        PROVE  RunQueueSound' /\ WorkerOwnsRun' /\ NothingBeforeStart'
    BY <2>3, IdsKept DEF Fire
  <2>4. ASSUME NEW n \in Names, Tick(n)
        PROVE  RunQueueSound' /\ WorkerOwnsRun' /\ NothingBeforeStart'
    <3>1. UNCHANGED <<queue, backlog, worker, brain>> /\ brain \notin {"down", "recover"}
      BY <2>4 DEF WorkflowInv, NothingBeforeStart, Tick
    <3>2. CASE UNCHANGED <<rows, waiting>>
      BY <3>1, <3>2, IdsKept DEF sends
    <3>3. ASSUME NEW r \in Runs, NEW s \in {"queued", "skipped"}, Insert(r, n, None, s),
                 waiting' = waiting \/ (waiting' = waiting \cup {r} /\ s = "queued")
          PROVE  RunQueueSound' /\ WorkerOwnsRun' /\ NothingBeforeStart'
      BY <3>1, <3>3, InsertInv
    <3> QED
      BY <2>4, <3>2, <3>3 DEF Tick
  <2> QED
    BY <2>1, <2>2, <2>3, <2>4 DEF Request
<1> QED
  BY <1>1, <1>2 DEF WorkflowInv

\* A sender hands over an id it held: it moves, it is not copied.
LEMMA SendInv ==
  ASSUME WorkflowInv, EnqueueBacklog \/ \E r \in Runs : Enqueue(r)
  PROVE  WorkflowInv'
<1> USE DEF WorkflowInv
<1>1. WorkflowTypeOK'
  BY TimersTypeOK, StartupTypeOK DEF Startup
<1>2. PICK r \in Runs :
        /\ r \in waiting \cup backlog
        /\ queue' = Append(queue, r)
        /\ waiting' \subseteq waiting /\ backlog' \subseteq backlog
        /\ r \notin waiting' \cup backlog'
        /\ UNCHANGED <<rows, worker, brain, fired>>
  <2>1. waiting \cap backlog = {} /\ backlog \subseteq Runs
    BY DEF RunQueueSound, WorkflowTypeOK
  <2>2. ASSUME NEW r \in backlog, queue' = Append(queue, r), backlog' = backlog \ {r},
               EnqueueBacklog
        PROVE  /\ r \notin waiting' \cup backlog' /\ waiting' = waiting
               /\ UNCHANGED <<rows, worker, brain, fired>>
    BY <2>1, <2>2 DEF EnqueueBacklog, StartFrame, rows, timers
  <2> QED
    BY <2>1, <2>2 DEF EnqueueBacklog, Enqueue, timers
<1>3. RunQueueSound'
  <2>1. queue \in Seq(Runs) /\ r \notin Queued
    BY <1>2, QueueSoundIs DEF WorkflowTypeOK
  <2>2. Queued' = Queued \cup {r}
    BY <1>2, <2>1, Sent DEF Queued, RunQueueSound
  <2>3. \A i, k \in DOMAIN queue' : queue'[i] = queue'[k] => i = k
    BY <1>2, <2>1, Sent DEF Queued, RunQueueSound
  <2>4. /\ Queued' \cap (waiting' \cup backlog') = {}
        /\ waiting' \cap backlog' = {}
        /\ \A i \in Runs : i \in Queued' \cup waiting' \cup backlog'
                             => status'[i] \in {"queued", "deleted"}
    BY <1>2, <2>2, QueueSoundIs DEF rows
  <2> QED
    BY <2>3, <2>4 DEF RunQueueSound, Queued
<1>4. WorkerOwnsRun' /\ NothingBeforeStart'
  BY <1>2 DEF rows, WorkerOwnsRun, NothingBeforeStart
<1> QED
  BY <1>1, <1>3, <1>4

\* The worker receives an id: it has left the channel, and its row is not queued any
\* more unless the update was refused.
LEMMA ReceiveInv ==
  ASSUME WorkflowInv, Claim \/ ClaimFault
  PROVE  WorkflowInv'
<1> USE DEF WorkflowInv
<1> DEFINE r == Head(queue)
<1>1. WorkflowTypeOK'
  BY WorkerTypeOK DEF Worker
<1>2. /\ queue # <<>> /\ queue' = Tail(queue) /\ queue \in Seq(Runs)
      /\ brain \in {"enqueue", "up"} /\ worker.pc = "idle"
      /\ UNCHANGED <<name, key, waiting, backlog, brain>>
  BY DEF Claim, ClaimFault, WorkerAt, Serving, WorkflowTypeOK, rows
<1>3. r \in Queued /\ Queued' = Queued \ {r}
      /\ \A i, k \in DOMAIN queue' : queue'[i] = queue'[k] => i = k
  <2>1. \A i, k \in DOMAIN queue : queue[i] = queue[k] => i = k
    BY DEF RunQueueSound
  <2>2. /\ Head(queue) \in {queue[i] : i \in DOMAIN queue}
        /\ {Tail(queue)[i] : i \in DOMAIN Tail(queue)}
              = {queue[i] : i \in DOMAIN queue} \ {Head(queue)}
        /\ \A i, k \in DOMAIN Tail(queue) : Tail(queue)[i] = Tail(queue)[k] => i = k
    BY <1>2, <2>1, Received
  <2> QED
    BY <1>2, <2>2 DEF Queued
<1>4. r \in Runs
  BY <1>2, HeadTailProperties
<1>5. \/ status' = status /\ worker' = worker
      \/ /\ status[r] = "queued" /\ status' = [status EXCEPT ![r] = "running"]
         /\ worker'.run = r
  BY DEF Claim, ClaimFault, rows, IdleWorker
<1>6. /\ \A i \in Runs \ {r} : status'[i] = status[i]
      /\ status'[r] = status[r] \/ (status[r] = "queued" /\ status'[r] = "running")
  BY <1>4, <1>5 DEF WorkflowTypeOK
<1>7. RunQueueSound'
  <2>1. /\ Queued' \cap (waiting' \cup backlog') = {} /\ waiting' \cap backlog' = {}
        /\ r \notin Queued' \cup waiting' \cup backlog'
    BY <1>2, <1>3, QueueSoundIs
  <2>2. \A i \in Runs : i \in Queued' \cup waiting' \cup backlog'
                          => status'[i] \in {"queued", "deleted"}
    BY <1>2, <1>3, <1>6, <2>1, QueueSoundIs
  <2> QED
    BY <1>3, <2>1, <2>2 DEF RunQueueSound, Queued
<1>9. WorkerOwnsRun'
  <2>1. CASE worker' = worker
    BY <1>2, <2>1 DEF WorkerOwnsRun
  <2>2. CASE worker' # worker
    BY <1>4, <1>5, <2>2 DEF WorkerOwnsRun, WorkflowTypeOK
  <2> QED
    BY <2>1, <2>2
<1>10. NothingBeforeStart'
  BY <1>2 DEF NothingBeforeStart
<1> QED
  BY <1>1, <1>7, <1>9, <1>10

\* A call of Process touches no row and no id.
LEMMA ProcessInv ==
  ASSUME WorkflowInv, WorkerCall, WorkflowTypeOK'
  PROVE  WorkflowInv'
<1>1. /\ worker'.run = worker.run /\ worker.pc # "idle"
      /\ UNCHANGED <<name, key, status, queue, waiting, backlog, brain>>
  BY DEF WorkerCall, rows, sends, Processing
<1>2. brain \notin {"down", "recover"}
  BY <1>1 DEF WorkflowInv, NothingBeforeStart, IdleWorker
<1>3. RunQueueSound' /\ WorkerOwnsRun' /\ NothingBeforeStart'
  BY <1>1, <1>2 DEF WorkflowInv, RunQueueSound, WorkerOwnsRun,
     NothingBeforeStart
<1> QED
  BY <1>3 DEF WorkflowInv

\* The end of a run: its id is in nobody's hand any more.
LEMMA FinishInv ==
  ASSUME WorkflowInv, Finish \/ FinishFault
  PROVE  WorkflowInv'
<1> USE DEF WorkflowInv
<1>1. WorkflowTypeOK'
  BY WorkerTypeOK DEF Worker
<1>2. /\ worker' = IdleWorker /\ worker.run \in Runs
      /\ worker.outcome \in Outcomes
      /\ brain \in {"enqueue", "up"}
      /\ UNCHANGED <<name, key, queue, waiting, backlog, brain>>
  BY DEF Finish, FinishFault, WorkerAt, Serving, WorkerFrame, sends, WorkflowTypeOK
<1>3. \A i \in Runs : status'[i] = status[i]
                        \/ (status[i] = "running" /\ status'[i] \in Outcomes)
  BY <1>2 DEF Finish, FinishFault, WorkflowTypeOK
<1>5. RunQueueSound'
  BY <1>2, <1>3 DEF RunQueueSound
<1>6. WorkerOwnsRun' /\ NothingBeforeStart'
  BY <1>2 DEF WorkerOwnsRun, NothingBeforeStart, IdleWorker
<1> QED
  BY <1>1, <1>5, <1>6

\* Cleanup deletes all rows or none.
LEMMA CleanupInv ==
  ASSUME WorkflowInv, Cleanup
  PROVE  WorkflowInv'
<1> USE DEF WorkflowInv
<1>1. WorkflowTypeOK'
  BY CleanupTypeOK
<1>2. CASE CleanClear
  <2>1. /\ UNCHANGED <<name, key, queue, waiting, backlog, worker, brain, fired>>
        /\ \A r \in Runs : status'[r] = IF status[r] = "none" THEN "none" ELSE "deleted"
    BY <1>2 DEF CleanClear, CleanerFrame, sends, timers
  <2>2. NothingBeforeStart'
    BY <2>1 DEF NothingBeforeStart
  <2>3. RunQueueSound'
    BY <2>1 DEF RunQueueSound
  <2>4. WorkerOwnsRun'
    BY <2>1 DEF WorkerOwnsRun, WorkflowTypeOK
  <2> QED
    BY <1>1, <2>2, <2>3, <2>4
<1>3. CASE ~ CleanClear
  <2>1. UNCHANGED <<rows, sends, brain, fired>> /\ worker' = worker
    BY <1>3 DEF Cleanup, CleanList, CleanRemove, CleanNetwork, CleanAbort, CleanerFrame, rows,
       timers
  <2> QED
    BY <1>1, <2>1, IdsKept
<1> QED
  BY <1>2, <1>3

\* The start: nobody holds an id when interrupted runs are failed, and the queued ones
\* are listed once.
LEMMA StartupInv ==
  ASSUME WorkflowInv, Startup \/ Crash
  PROVE  WorkflowInv'
<1> USE DEF WorkflowInv
<1>1. WorkflowTypeOK'
  BY StartupTypeOK
<1>2. CASE Boot \/ StartScheduler
  <2>1. UNCHANGED <<rows, sends, worker, fired>>
        /\ (brain' \in {"down", "recover"} => brain \in {"down", "recover"})
    BY <1>2 DEF Boot, StartScheduler, StartFrame, rows, timers
  <2> QED
    BY <1>1, <2>1 DEF rows, sends, RunQueueSound, WorkerOwnsRun,
       NothingBeforeStart
<1>3. ASSUME NEW r \in Runs, RecoverRun(r) PROVE WorkflowInv'
  <2>1. /\ queue = <<>> /\ waiting = {} /\ backlog = {} /\ worker = IdleWorker
        /\ UNCHANGED <<name, key, sends, worker, brain, fired>>
        /\ \A i \in Runs : status'[i] = status[i]
                             \/ (status[i] = "running" /\ status'[i] = "failed")
    BY <1>3 DEF RecoverRun, StartFrame, NothingBeforeStart, WorkflowTypeOK, timers
  <2> QED
    BY <1>1, <2>1 DEF sends, RunQueueSound, WorkerOwnsRun, NothingBeforeStart,
       IdleWorker
<1>4. CASE StartManager
  <2>1. /\ queue = <<>> /\ waiting = {} /\ worker = IdleWorker
        /\ backlog' = {r \in Runs : status[r] = "queued"} /\ brain' = "enqueue"
        /\ UNCHANGED <<name, key, status, queue, waiting, worker>>
    BY <1>4 DEF StartManager, StartFrame, NothingBeforeStart
  <2> QED
    BY <1>1, <2>1 DEF RunQueueSound, WorkerOwnsRun, NothingBeforeStart,
       IdleWorker
<1>5. CASE EnqueueBacklog
  BY <1>5, SendInv
<1>6. CASE Crash
  <2>1. /\ queue' = <<>> /\ waiting' = {} /\ backlog' = {} /\ worker' = IdleWorker
        /\ fired' = {}
        /\ UNCHANGED <<name, key, status>>
    BY <1>6 DEF Crash, rows
  <2> QED
    BY <1>1, <2>1 DEF RunQueueSound, WorkerOwnsRun, NothingBeforeStart,
       IdleWorker
<1> QED
  BY <1>2, <1>3, <1>4, <1>5, <1>6 DEF Startup

\* Every step keeps the invariant.
LEMMA NextWorkflowInv == WorkflowInv /\ [Next]_wfVars => WorkflowInv'
<1> SUFFICES ASSUME WorkflowInv, [Next]_wfVars PROVE WorkflowInv'
  OBVIOUS
<1>1. CASE Request \/ \E n \in Names : Tick(n)
  BY <1>1, RequestInv
<1>2. CASE \E e \in Editors : ReplaceEntry(e)
  <2>1. UNCHANGED <<rows, sends, brain, fired>> /\ worker' = worker
    BY <1>2 DEF ReplaceEntry
  <2> QED
    BY <1>2, <2>1, IdsKept, TimersTypeOK DEF WorkflowInv
<1>3. CASE \E r \in Runs : Exit(r)
  <2>1. UNCHANGED <<rows, sends, brain, fired>> /\ worker' = worker
    BY <1>3 DEF Exit, timers
  <2> QED
    BY <1>3, <2>1, IdsKept, TimersTypeOK DEF WorkflowInv
<1>4. CASE \E r \in Runs : Enqueue(r)
  BY <1>4, SendInv
<1>5. CASE Worker \/ LogBreaks
  <2>1. CASE Claim \/ ClaimFault
    BY <2>1, ReceiveInv
  <2>2. CASE Finish \/ FinishFault
    BY <2>2, FinishInv
  <2>3. CASE ~ (Claim \/ ClaimFault \/ Finish \/ FinishFault)
    BY <1>5, <2>3, ProcessIsWorkerCall, ProcessInv, WorkerTypeOK DEF Worker, WorkflowInv
  <2> QED
    BY <2>1, <2>2, <2>3
<1>6. CASE Cleanup
  BY <1>6, CleanupInv
<1>7. CASE Startup \/ Crash
  BY <1>7, StartupInv
<1>8. CASE UNCHANGED wfVars
  BY <1>8 DEF wfVars, rows, sends, timers, counts, WorkflowInv, WorkflowTypeOK,
     RunQueueSound, WorkerOwnsRun, NothingBeforeStart
<1> QED
  BY <1>1, <1>2, <1>3, <1>4, <1>5, <1>6, <1>7, <1>8 DEF Next

-----------------------------------------------------------------------------
(* Theorems.                                                               *)

\* The inductive invariant of the workflows of a project.
THEOREM WorkflowInvariant == Spec => []WorkflowInv
BY InitWorkflowInv, NextWorkflowInv, PTL DEF Spec

\* Every variable stays in its range, the channel within its capacity.
THEOREM WorkflowTypes == Spec => []WorkflowTypeOK
BY WorkflowInvariant, PTL DEF WorkflowInv

\* No id is in two hands, and the row of the worker's run is moved by the worker only.
THEOREM RunsHeldOnce == Spec => []RunHeldOnce
<1>1. WorkflowInv => RunHeldOnce
  BY DEF WorkflowInv, RunHeldOnce
<1> QED
  BY <1>1, WorkflowInvariant, PTL

\* A run executes at most once: a row never becomes queued again, also not across
\* restarts, and only the run the worker has claimed gets a container.
THEOREM RunsOnce == Spec => RunsAtMostOnce
<1> DEFINE Once == \A r \in Runs :
       /\ status[r] \notin {"none", "queued"} => status'[r] # "queued"
       /\ container[r] = "absent" /\ container'[r] # "absent" => worker.run = r
<1>1. ASSUME WorkflowInv, [Next]_wfVars PROVE Once
  <2>1. /\ WorkflowTypeOK
        /\ status \in [Runs -> Active \cup Ended \cup {"none", "deleted"}]
        /\ container \in [Runs -> Containers] /\ queue \in Seq(Runs)
        /\ worker.outcome \in Outcomes
    BY <1>1 DEF WorkflowInv, WorkflowTypeOK
  <2>2. ASSUME \A r \in Runs : status'[r] = "queued" => status[r] \in {"none", "queued"},
               \A r \in Runs : container'[r] = container[r] \/ container[r] # "absent"
                                 \/ worker.run = r
        PROVE  Once
    BY <2>2
  <2>3. ASSUME NEW r \in Runs, NEW n, NEW k, NEW s, Insert(r, n, k, s), container' = container
        PROVE  Once
    BY <2>1, <2>3 DEF Insert, NextRun
  <2>4. CASE Request
    BY <2>2, <2>3, <2>4 DEF Request, Upsert, DeleteDefinition, CreateRun, Fire, rows
  <2>5. CASE \E n \in Names : Tick(n)
    BY <2>2, <2>3, <2>5 DEF Tick, rows
  <2>6. CASE \/ \E e \in Editors : ReplaceEntry(e)
             \/ \E r \in Runs : Enqueue(r) \/ Exit(r)
    BY <2>1, <2>2, <2>6 DEF ReplaceEntry, Enqueue, Exit, rows
  <2>7. CASE Claim \/ ClaimFault
    <3>1. \A r \in Runs : status'[r] = status[r] \/ status'[r] = "running"
      <4>1. queue # <<>> => Head(queue) \in Runs
        BY <2>1, HeadTailProperties
      <4> QED
        BY <2>1, <2>7, <4>1 DEF Claim, ClaimFault, rows
    <3> QED
      BY <2>2, <2>7, <3>1 DEF Claim, ClaimFault
  <2>8. CASE Finish \/ FinishFault
    <3>1. \A r \in Runs : status'[r] = status[r] \/ status'[r] \in Outcomes
      BY <2>1, <2>8 DEF Finish, FinishFault
    <3> QED
      BY <2>2, <2>8, <3>1 DEF Finish, FinishFault, Outcomes
  <2>9. CASE (Worker /\ ~ (Claim \/ ClaimFault \/ Finish \/ FinishFault)) \/ LogBreaks
    <3>1. WorkerCall
      BY <2>1, <2>9, ProcessIsWorkerCall DEF Worker
    <3>2. \A r \in Runs : container'[r] = container[r] \/ worker.run = r
      BY <2>1, <3>1 DEF WorkerCall
    <3> QED
      BY <2>2, <3>1, <3>2 DEF WorkerCall, rows
  <2>10. CASE Cleanup
    <3>1. \A r \in Runs : container'[r] = container[r] \/ container'[r] = "absent"
      BY <2>1, <2>10 DEF Cleanup, CleanList, CleanRemove, CleanNetwork, CleanClear, CleanAbort
    <3>2. \A r \in Runs : status'[r] = status[r] \/ status'[r] \in {"none", "deleted"}
      BY <2>1, <2>10 DEF Cleanup, CleanList, CleanRemove, CleanNetwork, CleanClear, CleanAbort
    <3> QED
      BY <3>1, <3>2
  <2>11. CASE Startup \/ Crash
    <3>1. container' = container
          /\ \A r \in Runs : status'[r] = status[r] \/ status'[r] = "failed"
      BY <2>1, <2>11 DEF Startup, Boot, RecoverRun, StartManager, EnqueueBacklog,
         StartScheduler, Crash, StartFrame, rows
    <3> QED
      BY <2>2, <3>1
  <2>12. CASE UNCHANGED wfVars
    BY <2>2, <2>12 DEF wfVars, rows
  <2> QED
    BY <1>1, <2>4, <2>5, <2>6, <2>7, <2>8, <2>9, <2>10, <2>11, <2>12 DEF Next
<1>2. ASSUME WorkflowInv, [Next]_wfVars PROVE [Once]_wfVars
  BY <1>1, <1>2
<1> QED
  BY <1>2, WorkflowInvariant, PTL DEF Spec, RunsAtMostOnce

-----------------------------------------------------------------------------
(* The cap.                                                                *)

\* A new row is the only run it makes active, and it does so for its own workflow only.
LEMMA InsertActive ==
  ASSUME WorkflowTypeOK, NEW r \in Runs, NEW n \in Names, NEW k, NEW s, Insert(r, n, k, s)
  PROVE  \A m \in Names : /\ ActiveRuns(m)' \subseteq ActiveRuns(m) \cup {r}
                          /\ m # n \/ s \notin Active => ActiveRuns(m)' \subseteq ActiveRuns(m)
BY DEF WorkflowTypeOK, Insert, ActiveRuns

\* With room, one more run is still under the cap.
LEMMA OneMoreFits ==
  ASSUME WorkflowTypeOK, NEW n \in Names, defs[n] # None,
         Cardinality(ActiveRuns(n)) < defs[n].cap,
         NEW r \in Runs, NEW A, A \subseteq ActiveRuns(n) \cup {r}
  PROVE  Cardinality(A) <= defs[n].cap
<1>1. IsFiniteSet(Runs)
  BY WorkflowBounds, FS_Interval DEF Runs
<1>2. IsFiniteSet(ActiveRuns(n)) /\ Cardinality(ActiveRuns(n)) \in Nat
  BY <1>1, FS_Subset, FS_CardinalityType DEF ActiveRuns
<1> DEFINE B == ActiveRuns(n) \cup {r}
<1>3. IsFiniteSet(B) /\ Cardinality(B) \in Nat
      /\ Cardinality(B) <= Cardinality(ActiveRuns(n)) + 1
  <2>1. IsFiniteSet(B) /\ Cardinality(B) = IF r \in ActiveRuns(n) THEN Cardinality(ActiveRuns(n))
                                           ELSE Cardinality(ActiveRuns(n)) + 1
    BY <1>2, FS_AddElement
  <2> HIDE DEF B
  <2> QED
    BY <1>2, <2>1
<1>4. Cardinality(A) <= Cardinality(B) /\ Cardinality(A) \in Nat
  <2>1. A \in SUBSET B
    OBVIOUS
  <2>2. IsFiniteSet(A) /\ Cardinality(A) <= Cardinality(B)
    BY <1>3, <2>1, FS_Subset
  <2> QED
    BY <2>2, FS_CardinalityType
<1>5. defs[n].cap \in Nat
  BY WorkflowBounds DEF WorkflowTypeOK, Definitions
<1> HIDE DEF B
<1> QED
  BY <1>2, <1>3, <1>4, <1>5

\* countActiveWorkflowRuns and the insert are one transaction: nothing adds a run beyond
\* the cap its definition has at that time.
THEOREM CapHolds == Spec => WithinCap
<1> DEFINE Fits(n) == ActiveRuns(n)' \ ActiveRuns(n) # {} =>
                        defs[n] # None /\ Cardinality(ActiveRuns(n)') <= defs[n].cap
<1>1. ASSUME WorkflowInv, [Next]_wfVars, NEW n \in Names PROVE Fits(n)
  <2>1. WorkflowTypeOK
    BY <1>1 DEF WorkflowInv
  <2>2. ASSUME name' = name,
               \A r \in Runs : status'[r] \in Active => status[r] \in Active
        PROVE  Fits(n)
    BY <2>2 DEF ActiveRuns
  <2>3. ASSUME NEW r \in Runs, NEW m \in Names, NEW k, NEW s, Insert(r, m, k, s),
               s \in Active => defs[m] # None /\ Cardinality(ActiveRuns(m)) < defs[m].cap
        PROVE  Fits(n)
    <3>1. CASE m # n \/ s \notin Active
      BY <2>1, <2>3, <3>1, InsertActive
    <3>2. CASE m = n /\ s \in Active
      BY <2>1, <2>3, <3>2, InsertActive, OneMoreFits
    <3> QED
      BY <3>1, <3>2
  <2>4. CASE Request
    <3>1. ASSUME NEW r \in Runs, NEW m \in Names, NEW k \in Keys \cup {None},
                 CreateRun(r, m, k)
          PROVE  Fits(n)
      BY <2>3, <3>1 DEF CreateRun, Room
    <3>2. CASE UNCHANGED rows
      BY <2>2, <3>2 DEF rows
    <3> QED
      BY <2>4, <3>1, <3>2 DEF Request, Upsert, DeleteDefinition, Fire
  <2>5. CASE \E m \in Names : Tick(m)
    <3>1. CASE UNCHANGED rows
      BY <2>2, <3>1 DEF rows
    <3>2. ASSUME NEW m \in Names, NEW r \in Runs, Insert(r, m, None, "skipped")
          PROVE  Fits(n)
      BY <2>3, <3>2 DEF Active
    <3>3. ASSUME NEW m \in Names, NEW r \in Runs, Insert(r, m, None, "queued"),
                 defs[m] # None, ActiveRuns(m) = {}
          PROVE  Fits(n)
      <4>1. Cardinality(ActiveRuns(m)) < defs[m].cap
        <5>1. defs[m] \in Definitions
          BY <2>1, <3>3 DEF WorkflowTypeOK
        <5>2. defs[m].cap \in Nat \ {0}
          BY <5>1, WorkflowBounds DEF Definitions
        <5>3. Cardinality(ActiveRuns(m)) = 0
          BY <3>3, FS_EmptySet
        <5> QED
          BY <5>2, <5>3
      <4> QED
        BY <2>3, <3>3, <4>1
    <3> QED
      BY <2>5, <3>1, <3>2, <3>3 DEF Tick
  <2>6. CASE (\E e \in Editors : ReplaceEntry(e)) \/ (\E r \in Runs : Enqueue(r) \/ Exit(r))
    BY <2>2, <2>6 DEF ReplaceEntry, Enqueue, Exit, rows
  <2>7. CASE Claim \/ ClaimFault
    BY <2>1, <2>2, <2>7, HeadTailProperties
       DEF Claim, ClaimFault, rows, Active, WorkflowTypeOK
  <2>8. CASE Finish \/ FinishFault
    BY <2>1, <2>2, <2>8 DEF Finish, FinishFault, WorkerFrame, Active, Outcomes, WorkflowTypeOK
  <2>9. CASE (Worker /\ ~ (Claim \/ ClaimFault \/ Finish \/ FinishFault)) \/ LogBreaks
    BY <2>1, <2>2, <2>9, ProcessIsWorkerCall DEF Worker, WorkerCall, rows
  <2>10. CASE Cleanup
    BY <2>2, <2>10 DEF Cleanup, CleanList, CleanRemove, CleanNetwork, CleanClear, CleanAbort,
       CleanerFrame, Active
  <2>11. CASE Startup \/ Crash
    BY <2>1, <2>2, <2>11 DEF Startup, Boot, RecoverRun, StartManager, EnqueueBacklog,
       StartScheduler, Crash, StartFrame, rows, Active, WorkflowTypeOK
  <2>12. CASE UNCHANGED wfVars
    BY <2>2, <2>12 DEF wfVars, rows
  <2> QED
    BY <1>1, <2>4, <2>5, <2>6, <2>7, <2>8, <2>9, <2>10, <2>11, <2>12 DEF Next
<1>2. ASSUME WorkflowInv, [Next]_wfVars PROVE [\A n \in Names : Fits(n)]_wfVars
  BY <1>1, <1>2
<1> QED
  BY <1>2, WorkflowInvariant, PTL DEF Spec, WithinCap

-----------------------------------------------------------------------------
(* Cron entries and definitions, beside any number of editors.             *)

\* Handlers exist only while Brain is up.
EditsServe == brain # "up" => \A e \in Editors : edits[e] = None

\* e has still to tell the scheduler of a change of n.
EditOf(e, n) == edits[e] # None /\ edits[e].name = n

\* Without a race, a definition has one pending edit, the last one, or its entry agrees.
FollowsFor(n) ==
  /\ \A e, f \in Editors : EditOf(e, n) /\ EditOf(f, n) => e = f
  /\ defs[n] # None => \A e \in Editors : EditOf(e, n) => edits[e].timed = defs[n].timed
  /\ brain = "up" /\ defs[n] # None /\ ~ Pending(n) => (n \in cron <=> defs[n].timed)

TimersInv == EditsServe /\ \A n \in Names \ raced : FollowsFor(n)

\* Steps that leave definitions, entries and edits alone.
LEMMA TimersKept ==
  ASSUME TimersInv, UNCHANGED <<defs, cron, edits, raced>>, brain' = brain \/ brain' # "up",
         brain = "up" => brain' = "up"
  PROVE  TimersInv'
BY DEF TimersInv, EditsServe, FollowsFor, EditOf, Pending

\* An edit commits: alone it is the only pending one of its definition.
LEMMA EditKeepsTimers ==
  ASSUME WorkflowTypeOK, TimersInv, NEW e \in Editors, NEW n \in Names,
         NEW d \in Definitions \cup {None}, NEW b \in BOOLEAN,
         d # None => d.timed = b,
         brain = "up", brain' = "up", edits[e] = None, Race(n), cron' = cron,
         defs' = [defs EXCEPT ![n] = d], edits' = [edits EXCEPT ![e] = [name |-> n, timed |-> b]]
  PROVE  TimersInv'
<1>1. /\ defs'[n] = d /\ \A m \in Names \ {n} : defs'[m] = defs[m]
      /\ edits'[e] = [name |-> n, timed |-> b]
      /\ \A f \in Editors \ {e} : edits'[f] = edits[f]
  BY DEF WorkflowTypeOK
<1>2. edits'[e] # None /\ edits'[e].name = n /\ edits'[e].timed = b
  BY <1>1, WorkflowNone
<1>3. EditOf(e, n)' /\ \A m \in Names \ {n} : ~ EditOf(e, m)' /\ ~ EditOf(e, m)
  BY <1>2 DEF EditOf
<1>4. \A f \in Editors \ {e}, m \in Names : EditOf(f, m)' <=> EditOf(f, m)
  BY <1>1 DEF EditOf
<1>5. ASSUME NEW m \in Names \ raced', m # n PROVE FollowsFor(m)'
  <2>1. FollowsFor(m)
    BY <1>5 DEF Race, TimersInv
  <2>2. \A f \in Editors : EditOf(f, m)' <=> EditOf(f, m)
    BY <1>3, <1>4, <1>5
  <2>3. \A f \in Editors : EditOf(f, m) => edits'[f] = edits[f]
    BY <1>1, <1>3, <1>5
  <2>4. Pending(m)' <=> Pending(m)
    BY <2>2 DEF Pending, EditOf
  <2> QED
    BY <1>1, <1>5, <2>1, <2>2, <2>3, <2>4 DEF FollowsFor
<1>6. ASSUME n \notin raced' PROVE FollowsFor(n)'
  <2>1. \A f \in Editors : ~ EditOf(f, n)
    BY <1>6 DEF Race, Pending, EditOf
  <2>2. \A f \in Editors : EditOf(f, n)' <=> f = e
    BY <1>3, <1>4, <2>1
  <2>3. Pending(n)'
    BY <1>2 DEF Pending
  <2> QED
    BY <1>1, <1>2, <2>2, <2>3 DEF FollowsFor
<1>7. EditsServe'
  BY DEF EditsServe
<1> QED
  BY <1>5, <1>6, <1>7 DEF TimersInv

\* The scheduler is told of an edit: without a race, of the last one.
LEMMA ReplaceKeepsTimers ==
  ASSUME WorkflowTypeOK, TimersInv, NEW e \in Editors, ReplaceEntry(e)
  PROVE  TimersInv'
<1>1. PICK n \in Names, b \in BOOLEAN : edits[e] = [name |-> n, timed |-> b]
  BY DEF ReplaceEntry, WorkflowTypeOK, Replacement
<1>2. /\ UNCHANGED <<defs, brain, raced>> /\ edits[e] # None
      /\ edits'[e] = None /\ \A f \in Editors \ {e} : edits'[f] = edits[f]
      /\ cron' = (cron \ {n}) \cup (IF b THEN {n} ELSE {})
  BY <1>1 DEF ReplaceEntry, WorkflowTypeOK
<1>3. brain = "up"
  BY <1>2 DEF TimersInv, EditsServe
<1>4. EditOf(e, n) /\ \A m \in Names \ {n} : ~ EditOf(e, m)
  BY <1>1, <1>2 DEF EditOf
<1>5. \A m \in Names : /\ ~ EditOf(e, m)'
                       /\ \A f \in Editors \ {e} : EditOf(f, m)' <=> EditOf(f, m)
  BY <1>2 DEF EditOf
<1>6. ASSUME NEW m \in Names \ raced, m # n PROVE FollowsFor(m)'
  <2>1. FollowsFor(m)
    BY <1>6 DEF TimersInv
  <2>2. \A f \in Editors : EditOf(f, m)' <=> EditOf(f, m)
    BY <1>4, <1>5, <1>6
  <2>3. \A f \in Editors : EditOf(f, m) => edits'[f] = edits[f]
    BY <1>2, <1>4, <1>6
  <2>4. Pending(m)' <=> Pending(m)
    BY <2>2 DEF Pending, EditOf
  <2>5. m \in cron' <=> m \in cron
    BY <1>2, <1>6
  <2> QED
    BY <1>2, <2>1, <2>2, <2>3, <2>4, <2>5 DEF FollowsFor
<1>7. ASSUME n \notin raced PROVE FollowsFor(n)'
  <2>1. FollowsFor(n)
    BY <1>7 DEF TimersInv
  <2>2. \A f \in Editors : ~ EditOf(f, n)'
    BY <1>4, <1>5, <2>1 DEF FollowsFor
  <2>3. defs[n] # None => defs[n].timed = b
    BY <1>1, <1>4, <2>1 DEF FollowsFor
  <2>4. n \in cron' <=> b = TRUE
    BY <1>2
  <2> QED
    BY <1>2, <2>2, <2>3, <2>4 DEF FollowsFor
<1> QED
  BY <1>2, <1>3, <1>6, <1>7 DEF TimersInv, EditsServe

\* Every step keeps entries and definitions together where no two edits overlapped.
LEMMA NextTimersInv ==
  ASSUME WorkflowInv, TimersInv, [Next]_wfVars
  PROVE  TimersInv'
<1>1. WorkflowTypeOK
  BY DEF WorkflowInv
<1>2. ASSUME NEW e \in Editors, NEW n \in Names, NEW d \in Definitions, Upsert(e, n, d)
      PROVE  TimersInv'
  <2>1. d.timed \in BOOLEAN
    BY DEF Definitions
  <2> QED
    BY <1>1, <1>2, <2>1, EditKeepsTimers DEF Upsert
<1>3. ASSUME NEW e \in Editors, NEW n \in Names, DeleteDefinition(e, n) PROVE TimersInv'
  BY <1>1, <1>3, EditKeepsTimers DEF DeleteDefinition
<1>4. ASSUME NEW e \in Editors, ReplaceEntry(e) PROVE TimersInv'
  BY <1>1, <1>4, ReplaceKeepsTimers
<1>5. CASE CleanClear
  <2>1. UNCHANGED <<edits, raced, brain>> /\ \A n \in Names : defs'[n] = None
    BY <1>5 DEF CleanClear, CleanerFrame, timers
  <2> QED
    BY <2>1 DEF TimersInv, EditsServe, FollowsFor, EditOf
<1>6. CASE StartScheduler
  <2>1. /\ UNCHANGED <<defs, edits, raced>> /\ brain = "enqueue" /\ brain' = "up"
        /\ cron' = {n \in Names : defs[n] # None /\ defs[n].timed}
    BY <1>6 DEF StartScheduler
  <2> QED
    BY <2>1 DEF TimersInv, EditsServe, FollowsFor, EditOf
<1>7. CASE Crash
  <2>1. brain' = "down" /\ \A e \in Editors : edits'[e] = None
    BY <1>7 DEF Crash
  <2> QED
    BY <2>1 DEF TimersInv, EditsServe, FollowsFor, EditOf
<1>8. CASE Startup /\ ~ StartScheduler
  BY <1>8, TimersKept DEF Startup, Boot, RecoverRun, StartManager, EnqueueBacklog,
     StartFrame, timers
<1>9. CASE Cleanup /\ ~ CleanClear
  BY <1>9, TimersKept DEF Cleanup, CleanList, CleanRemove, CleanNetwork, CleanAbort,
     CleanerFrame, timers
<1>10. CASE \/ \E r \in Runs, n \in Names, k \in Keys \cup {None} : CreateRun(r, n, k)
            \/ \E n \in Names : Fire(n) \/ Tick(n)
            \/ \E r \in Runs : Enqueue(r) \/ Exit(r)
  BY <1>10, TimersKept DEF CreateRun, Fire, Tick, Enqueue, Exit, timers
<1>11. CASE Worker \/ LogBreaks
  <2>1. UNCHANGED <<defs, timers, brain>>
    BY <1>1, <1>11, ProcessIsWorkerCall
       DEF Worker, WorkerCall, Claim, ClaimFault, Finish, FinishFault, WorkerFrame
  <2> QED
    BY <2>1, TimersKept DEF timers
<1>12. CASE UNCHANGED wfVars
  BY <1>12, TimersKept DEF wfVars, timers
<1> QED
  BY <1>2, <1>3, <1>4, <1>5, <1>6, <1>7, <1>8, <1>9, <1>10, <1>11, <1>12 DEF Next, Request

\* Where the last edit of a workflow overlapped no other one, a cron entry exists exactly
\* if it is timed, over restarts and beside clean-ups and the edits of other workflows.
THEOREM TimersAlwaysFollow == Spec => []TimersFollow
<1>1. Init => TimersInv
  BY DEF Init, TimersInv, EditsServe, FollowsFor, EditOf
<1>2. WorkflowInv /\ TimersInv /\ [Next]_wfVars => TimersInv'
  BY NextTimersInv
<1>3. TimersInv => TimersFollow
  BY DEF TimersInv, FollowsFor, TimersFollow
<1> QED
  BY <1>1, <1>2, <1>3, WorkflowInvariant, PTL DEF Spec

-----------------------------------------------------------------------------
(* Nothing is lost but by a fault.                                         *)

\* An idle worker has no run.  No container precedes the claim of its run, and until
\* the worker creates it there is none.
IdleHasNone == worker.pc = "idle" => worker = IdleWorker
ContainerAfterClaim ==
  \A r \in Runs : status[r] \in {"none", "queued"} => container[r] = "absent"
Fresh == worker.pc \in {"prepare", "create"} => container[worker.run] = "absent"

\* Containers the worker will not remove any more: all but that of the run it is
\* processing, up to the removal.
Owns(r) == worker.run = r /\ worker.pc \in Processing \ {"finish"}
Leftovers == {r \in Runs : container[r] # "absent" /\ ~ Owns(r)}
LeftoversPaid == Cardinality(Leftovers) <= crashes + refused

LossInv == /\ IdleHasNone /\ ContainerAfterClaim /\ Fresh
           /\ LeftoversPaid /\ RunsStrandedOnlyByFaults

\* The number of the faults never shrinks.
FaultsGrow == crashes <= crashes' /\ refused <= refused'

\* The sets that are counted are finite.
LEMMA LossesFinite == IsFiniteSet(Stranded) /\ IsFiniteSet(Leftovers)
<1>1. IsFiniteSet(Runs)
  BY WorkflowBounds, FS_Interval DEF Runs
<1>2. Stranded \subseteq Runs /\ Leftovers \subseteq Runs
  BY DEF Stranded, Rows, Leftovers
<1> QED
  BY <1>1, <1>2, FS_Subset

\* A step counts a leftover only against a new fault.
LossStep ==
  /\ \/ Leftovers' \subseteq Leftovers
     \/ \E x : /\ Leftovers' \subseteq Leftovers \cup {x}
               /\ crashes + refused < crashes' + refused'
  /\ FaultsGrow

\* A run is handled and its container stays the worker's, or it never had one.
LeftoverFrame == IdleHasNone' /\ ContainerAfterClaim' /\ Fresh' /\ LossStep

\* Steps that leave the worker and the faults alone, and add no container nor make a
\* row with one queued.
LEMMA LeftoversKept ==
  ASSUME WorkflowTypeOK, IdleHasNone, ContainerAfterClaim, Fresh,
         worker' = worker, UNCHANGED <<crashes, refused>>,
         \A r \in Runs : container[r] = "absent" => container'[r] = "absent",
         \A r \in Runs : status'[r] \in {"none", "queued"} => status[r] \in {"none", "queued"}
  PROVE  LeftoverFrame
<1>1. crashes <= crashes' /\ refused <= refused'
  BY WorkflowBounds DEF WorkflowTypeOK
<1>2. worker.pc # "idle" => worker.run \in Runs
  BY DEF WorkflowTypeOK
<1>3. IdleHasNone' /\ ContainerAfterClaim'
  BY DEF IdleHasNone, ContainerAfterClaim
<1>4. Fresh'
  BY <1>2 DEF Fresh
<1>5. Leftovers' \subseteq Leftovers
  BY DEF Leftovers, Owns
<1> QED
  BY <1>1, <1>3, <1>4, <1>5 DEF LeftoverFrame, LossStep, FaultsGrow

\* A call of Process goes on to the next one: the container it made is removed before the
\* run is finished, or the removal was refused.
LEMMA ProcessLeaves ==
  ASSUME WorkflowInv, Fresh, ContainerAfterClaim,
         \/ Prepare \/ CreateContainer \/ StartContainer \/ Wait \/ Stop \/ Drain
         \/ Remove \/ LogBreaks
  PROVE  LeftoverFrame
<1> DEFINE w == worker.run
<1>1. /\ WorkerCall /\ WorkflowTypeOK
      /\ w \in Runs /\ status[w] \in {"running", "deleted"}
      /\ container \in [Runs -> Containers]
      /\ crashes \in Nat /\ refused \in Nat
  BY ProcessIsWorkerCall, WorkflowBounds
     DEF WorkflowInv, WorkflowTypeOK, WorkerOwnsRun, WorkerCall, Processing
<1>2. /\ worker'.run = w /\ worker'.pc \in Processing /\ worker.pc \in Processing
      /\ \A r \in Runs : r # w => container'[r] = container[r]
      /\ status' = status /\ crashes' = crashes /\ refused' \in {refused, refused + 1}
  BY <1>1 DEF WorkerCall, rows, Refuse
<1>3. FaultsGrow
  BY <1>1, <1>2 DEF FaultsGrow
<1>4. IdleHasNone' /\ ContainerAfterClaim'
  BY <1>1, <1>2 DEF IdleHasNone, ContainerAfterClaim, Processing
<1>5. CASE Prepare
  <2>1. /\ worker.pc = "prepare" /\ container' = container
        /\ worker'.pc \in {"create", "finish"}
    BY <1>1, <1>5 DEF Prepare, WorkerAt, Goto, GotoWith, WorkflowTypeOK
  <2>2. container[w] = "absent"
    BY <2>1 DEF Fresh
  <2>3. Fresh' /\ Leftovers' \subseteq Leftovers
    BY <1>2, <2>1, <2>2 DEF Fresh, Leftovers, Owns
  <2> QED
    BY <1>3, <1>4, <2>3 DEF LeftoverFrame, LossStep
<1>6. CASE CreateContainer
  <2>1. /\ worker.pc = "create"
        /\ \/ worker'.pc = "start"
           \/ worker'.pc = "finish" /\ container' = container
           \/ worker'.pc = "finish" /\ refused' = refused + 1
    BY <1>1, <1>6 DEF CreateContainer, WorkerAt, Goto, GotoWith, Refuse, WorkflowTypeOK
  <2>2. container[w] = "absent"
    BY <2>1 DEF Fresh
  <2>3. Fresh' /\ Leftovers' \subseteq Leftovers \cup {w}
    BY <1>2, <2>1, <2>2 DEF Fresh, Leftovers, Owns, Processing
  <2>4. refused' # refused + 1 => Leftovers' \subseteq Leftovers
    BY <1>2, <2>1, <2>2 DEF Leftovers, Owns, Processing
  <2>5. refused' = refused + 1 => crashes + refused < crashes' + refused'
    BY <1>1, <1>2
  <2> QED
    BY <1>3, <1>4, <2>3, <2>4, <2>5 DEF LeftoverFrame, LossStep
<1>7. CASE StartContainer \/ Wait \/ Stop \/ Drain \/ LogBreaks
  <2>1. worker'.pc \in {"wait", "remove", "drain", "stop"}
    <3>1. CASE StartContainer \/ Stop \/ Drain \/ LogBreaks
      BY <1>1, <3>1 DEF StartContainer, Stop, Drain, LogBreaks, Goto, GotoWith, WorkflowTypeOK
    <3>2. CASE Wait
      BY <1>1, <3>2 DEF Wait, GotoWith, WorkflowTypeOK
    <3> QED
      BY <1>7, <3>1, <3>2
  <2>2. Fresh' /\ Leftovers' \subseteq Leftovers
    BY <1>2, <2>1 DEF Fresh, Leftovers, Owns, Processing
  <2> QED
    BY <1>3, <1>4, <2>2 DEF LeftoverFrame, LossStep
<1>8. CASE Remove
  <2>1. /\ worker'.pc = "finish"
        /\ \/ container' = [container EXCEPT ![w] = "absent"]
           \/ refused' = refused + 1
    BY <1>1, <1>8 DEF Remove, Goto, SetContainer, Refuse, WorkflowTypeOK
  <2>2. Fresh' /\ Leftovers' \subseteq Leftovers \cup {w}
    BY <1>2, <2>1 DEF Fresh, Leftovers, Owns, Processing
  <2>3. container' = [container EXCEPT ![w] = "absent"] => Leftovers' \subseteq Leftovers
    BY <1>1, <2>2 DEF Leftovers
  <2>4. refused' = refused + 1 => crashes + refused < crashes' + refused'
    BY <1>1, <1>2
  <2> QED
    BY <1>3, <1>4, <2>1, <2>2, <2>3, <2>4 DEF LeftoverFrame, LossStep
<1> QED
  BY <1>5, <1>6, <1>7, <1>8

\* A claim takes over a run without a container; the end of a run leaves what the removal
\* left; a crash leaves the container of the run under way.
LEMMA ClaimLeaves ==
  ASSUME WorkflowInv, IdleHasNone, ContainerAfterClaim, Fresh, Claim
  PROVE  LeftoverFrame
<1> DEFINE h == Head(queue)
<1>1. /\ WorkflowTypeOK /\ worker.pc = "idle" /\ worker = IdleWorker
      /\ queue # <<>> /\ h \in Runs
      /\ UNCHANGED <<container, crashes, refused>>
  BY HeadTailProperties DEF WorkflowInv, WorkflowTypeOK, Claim, WorkerAt, IdleHasNone, counts
<1>2. CASE status[h] = "queued"
  <2>1. /\ status' = [status EXCEPT ![h] = "running"]
        /\ worker'.pc = "prepare" /\ worker'.run = h
    BY <1>2 DEF Claim, IdleWorker
  <2>2. container[h] = "absent"
    BY <1>1, <1>2 DEF ContainerAfterClaim
  <2>3. IdleHasNone' /\ Fresh'
    BY <1>1, <2>1, <2>2 DEF IdleHasNone, Fresh
  <2>4. ContainerAfterClaim'
    BY <1>1, <2>1 DEF ContainerAfterClaim, WorkflowTypeOK
  <2>5. Leftovers' \subseteq Leftovers
    BY <1>1 DEF Leftovers, Owns, IdleWorker, Processing
  <2>6. FaultsGrow
    BY <1>1, WorkflowBounds DEF FaultsGrow, WorkflowTypeOK
  <2> QED
    BY <2>3, <2>4, <2>5, <2>6 DEF LeftoverFrame, LossStep
<1>3. CASE status[h] # "queued"
  <2>1. status' = status /\ worker' = worker
    BY <1>3 DEF Claim
  <2> QED
    BY <1>1, <2>1, LeftoversKept
<1> QED
  BY <1>2, <1>3

\* The worker becomes idle, or is gone with the process.
LEMMA EndLeaves ==
  ASSUME WorkflowInv, IdleHasNone, ContainerAfterClaim, Fresh,
         Finish \/ FinishFault \/ ClaimFault \/ Crash
  PROVE  LeftoverFrame
<1>1. /\ WorkflowTypeOK /\ crashes \in Nat /\ refused \in Nat
      /\ worker' = IdleWorker /\ container' = container
      /\ crashes' \in {crashes, crashes + 1} /\ refused' \in {refused, refused + 1}
  BY WorkflowBounds DEF WorkflowInv, WorkflowTypeOK, Finish, FinishFault, ClaimFault, Crash,
     WorkerAt, WorkerFrame, IdleHasNone, Refuse
<1>2. \A r \in Runs : status'[r] = status[r] \/ status'[r] \in Outcomes
  BY <1>1 DEF Finish, FinishFault, ClaimFault, Crash, rows, WorkerFrame, WorkflowTypeOK
<1>3. IdleHasNone' /\ Fresh' /\ ContainerAfterClaim'
  BY <1>1, <1>2 DEF IdleHasNone, Fresh, ContainerAfterClaim, IdleWorker, Outcomes
<1>4. FaultsGrow
  BY <1>1 DEF FaultsGrow
<1>5. CASE Crash
  <2>1. Leftovers' \subseteq Leftovers \cup {worker.run}
    BY <1>1 DEF Leftovers, Owns
  <2>2. crashes + refused < crashes' + refused'
    BY <1>1, <1>5 DEF Crash
  <2> QED
    BY <1>3, <1>4, <2>1, <2>2 DEF LeftoverFrame, LossStep
<1>6. CASE Finish \/ FinishFault \/ ClaimFault
  <2>1. worker.pc \in {"finish", "idle"}
    BY <1>6 DEF Finish, FinishFault, ClaimFault, WorkerAt
  <2>2. Leftovers' \subseteq Leftovers
    BY <1>1, <2>1 DEF Leftovers, Owns, Processing
  <2> QED
    BY <1>3, <1>4, <2>2 DEF LeftoverFrame, LossStep
<1> QED
  BY <1>5, <1>6

\* Every step keeps the containers accounted for.
LEMMA NextLeaves ==
  ASSUME WorkflowInv, IdleHasNone, ContainerAfterClaim, Fresh, [Next]_wfVars
  PROVE  LeftoverFrame
<1>1. WorkflowTypeOK
  BY DEF WorkflowInv
<1>2. CASE Request \/ \E n \in Names : Tick(n)
  <2>1. UNCHANGED <<container, worker, crashes, refused>>
    BY <1>2 DEF Request, Upsert, DeleteDefinition, CreateRun, Fire, Tick, counts
  <2>2. \/ status' = status
        \/ \E r \in Runs : \E n, k, s : Insert(r, n, k, s)
    BY <1>2 DEF Request, Upsert, DeleteDefinition, CreateRun, Fire, Tick, rows
  <2>3. \A r \in Runs : status'[r] \in {"none", "queued"} => status[r] \in {"none", "queued"}
    BY <1>1, <2>2 DEF Insert, NextRun, WorkflowTypeOK
  <2> QED
    BY <1>1, <2>1, <2>3, LeftoversKept
<1>3. CASE \/ \E e \in Editors : ReplaceEntry(e)
           \/ \E r \in Runs : Enqueue(r) \/ Exit(r)
  <2>1. /\ UNCHANGED <<status, worker, crashes, refused>>
        /\ \A r \in Runs : container[r] = "absent" => container'[r] = "absent"
    BY <1>1, <1>3 DEF ReplaceEntry, Enqueue, Exit, rows, counts, WorkflowTypeOK
  <2> QED
    BY <1>1, <2>1, LeftoversKept
<1>4. CASE Claim
  BY <1>4, ClaimLeaves
<1>5. CASE Finish \/ FinishFault \/ ClaimFault \/ Crash
  BY <1>5, EndLeaves
<1>6. CASE \/ Prepare \/ CreateContainer \/ StartContainer \/ Wait \/ Stop \/ Drain
           \/ Remove \/ LogBreaks
  BY <1>6, ProcessLeaves
<1>7. CASE Cleanup
  <2>1. UNCHANGED <<worker, crashes, refused>>
    BY <1>7 DEF Cleanup, CleanList, CleanRemove, CleanNetwork, CleanClear, CleanAbort,
       CleanerFrame, counts
  <2>2. \A r \in Runs : container[r] = "absent" => container'[r] = "absent"
    BY <1>1, <1>7 DEF Cleanup, CleanList, CleanRemove, CleanNetwork, CleanClear, CleanAbort,
       WorkflowTypeOK
  <2>3. \A r \in Runs : status'[r] \in {"none", "queued"} => status[r] \in {"none", "queued"}
    BY <1>1, <1>7 DEF Cleanup, CleanList, CleanRemove, CleanNetwork, CleanClear, CleanAbort,
       WorkflowTypeOK
  <2> QED
    BY <1>1, <2>1, <2>2, <2>3, LeftoversKept
<1>8. CASE Startup
  <2>1. UNCHANGED <<container, worker, crashes, refused>>
    BY <1>8 DEF Startup, Boot, RecoverRun, StartManager, EnqueueBacklog, StartScheduler,
       StartFrame, counts, sends
  <2>2. \A r \in Runs : status'[r] \in {"none", "queued"} => status[r] \in {"none", "queued"}
    BY <1>1, <1>8 DEF Startup, Boot, RecoverRun, StartManager, EnqueueBacklog, StartScheduler,
       rows, WorkflowTypeOK
  <2> QED
    BY <1>1, <2>1, <2>2, LeftoversKept
<1>9. CASE UNCHANGED wfVars
  BY <1>1, <1>9, LeftoversKept DEF wfVars, rows, counts
<1> QED
  BY <1>2, <1>3, <1>4, <1>5, <1>6, <1>7, <1>8, <1>9 DEF Next, Worker

\* Steps that keep the rows' states, and the hands that hold a run.
LEMMA StrandedKept ==
  ASSUME status' = status, UNCHANGED <<queue, waiting, backlog>>, worker'.run = worker.run
  PROVE  Stranded' = Stranded
BY DEF Stranded, Rows

\* A row is stranded only by a refused update while the worker goroutine runs.
LEMMA StrandedStep ==
  ASSUME WorkflowInv, IdleHasNone, Serving, Serving', FaultsGrow, [Next]_wfVars
  PROVE  \/ Stranded' \subseteq Stranded
         \/ \E x : Stranded' \subseteq Stranded \cup {x} /\ refused < refused'
<1>1. /\ WorkflowTypeOK /\ RunQueueSound /\ refused \in Nat
      /\ worker.pc = "idle" => worker.run = None
  BY WorkflowBounds DEF WorkflowInv, WorkflowTypeOK, IdleHasNone, IdleWorker
<1>2. /\ Stranded = {r \in Runs : \/ status[r] = "queued" /\ r \notin Queued \cup waiting \cup backlog
                                  \/ status[r] = "running" /\ worker.run # r}
      /\ Stranded' = {r \in Runs : \/ status'[r] = "queued"
                                        /\ r \notin Queued' \cup waiting' \cup backlog'
                                   \/ status'[r] = "running" /\ worker'.run # r}
  BY DEF Stranded, Rows, Queued
<1>3. ASSUME NEW r \in Runs, NEW n, NEW k, NEW s \in {"queued", "skipped"}, Insert(r, n, k, s),
             (waiting' = waiting /\ s # "queued") \/ waiting' = waiting \cup {r},
             UNCHANGED <<queue, backlog, worker>>
      PROVE  Stranded' \subseteq Stranded
  <2>1. status' = [status EXCEPT ![r] = s]
    BY <1>3 DEF Insert
  <2>2. Queued' = Queued
    BY <1>3 DEF Queued
  <2> QED
    BY <1>1, <1>2, <1>3, <2>1, <2>2 DEF WorkflowTypeOK
<1>4. CASE Request
  <2>1. ASSUME NEW r \in Runs, NEW n \in Names, NEW k \in Keys \cup {None}, CreateRun(r, n, k)
        PROVE  Stranded' \subseteq Stranded
    BY <1>3, <2>1 DEF CreateRun
  <2>2. CASE UNCHANGED <<rows, sends, worker>>
    BY <2>2, StrandedKept DEF rows, sends
  <2> QED
    BY <1>4, <2>1, <2>2 DEF Request, Upsert, DeleteDefinition, Fire
<1>5. CASE \E n \in Names : Tick(n)
  <2>1. UNCHANGED <<queue, backlog, worker>>
    BY <1>5 DEF Tick
  <2>2. CASE UNCHANGED <<rows, waiting>>
    BY <2>1, <2>2, StrandedKept DEF rows
  <2>3. ASSUME NEW r \in Runs, NEW n, NEW s \in {"queued", "skipped"}, Insert(r, n, None, s),
               (waiting' = waiting /\ s # "queued") \/ waiting' = waiting \cup {r}
        PROVE  Stranded' \subseteq Stranded
    BY <1>3, <2>1, <2>3
  <2> QED
    BY <1>5, <2>2, <2>3 DEF Tick
<1>6. CASE EnqueueBacklog \/ \E r \in Runs : Enqueue(r)
  <2>1. PICK r \in waiting \cup backlog :
          /\ queue' = Append(queue, r)
          /\ waiting \subseteq waiting' \cup {r} /\ backlog \subseteq backlog' \cup {r}
          /\ UNCHANGED <<status, worker>>
    <3>1. CASE EnqueueBacklog
      BY <3>1 DEF EnqueueBacklog
    <3>2. CASE \E r \in Runs : Enqueue(r)
      BY <3>2 DEF Enqueue, rows
    <3> QED
      BY <1>6, <3>1, <3>2
  <2>2. r \in Runs /\ r \notin Queued /\ queue \in Seq(Runs)
    BY <1>1, QueueSoundIs DEF WorkflowTypeOK
  <2>3. Queued' = Queued \cup {r}
    BY <1>1, <2>1, <2>2, Sent DEF Queued, RunQueueSound
  <2> QED
    BY <1>2, <2>1, <2>3
<1>7. CASE Claim \/ ClaimFault
  <2> DEFINE h == Head(queue)
  <2>1. /\ queue # <<>> /\ queue' = Tail(queue) /\ queue \in Seq(Runs) /\ h \in Runs
        /\ UNCHANGED <<waiting, backlog>> /\ worker.run = None
    BY <1>1, <1>7, HeadTailProperties DEF Claim, ClaimFault, WorkerAt, WorkflowTypeOK
  <2>2. h \in Queued /\ Queued' = Queued \ {h}
    BY <1>1, <2>1, Received DEF Queued, RunQueueSound
  <2>3. CASE ClaimFault
    <3>1. UNCHANGED <<status, worker>> /\ refused < refused'
      BY <1>1, <2>3 DEF ClaimFault, rows, Refuse
    <3> QED
      BY <1>2, <2>1, <2>2, <3>1
  <2>4. CASE Claim /\ status[h] = "queued"
    <3>1. status' = [status EXCEPT ![h] = "running"] /\ worker'.run = h
      BY <2>4 DEF Claim, IdleWorker
    <3>2. \A r \in Stranded' : r # h /\ status'[r] = status[r]
      BY <1>1, <1>2, <2>1, <3>1 DEF WorkflowTypeOK
    <3>3. None \notin Runs
      BY WorkflowNone
    <3> QED
      BY <1>2, <2>1, <2>2, <3>2, <3>3
  <2>5. CASE Claim /\ status[h] # "queued"
    <3>1. status[h] = "deleted" /\ UNCHANGED <<status, worker>>
      BY <1>1, <2>1, <2>2, <2>5, QueueSoundIs DEF Claim
    <3> QED
      BY <1>2, <2>1, <2>2, <3>1
  <2> QED
    BY <1>7, <2>3, <2>4, <2>5
<1>8. CASE Finish \/ FinishFault
  <2>1. UNCHANGED <<queue, waiting, backlog>> /\ worker.run \in Runs /\ worker.outcome \in Outcomes
    BY <1>1, <1>8 DEF Finish, FinishFault, WorkerAt, WorkerFrame, sends, WorkflowTypeOK
  <2>2. Queued' = Queued
    BY <2>1 DEF Queued
  <2>3. CASE Finish
    <3>1. status'[worker.run] # "running"
          /\ \A r \in Runs \ {worker.run} : status'[r] = status[r]
      BY <1>1, <2>1, <2>3 DEF Finish, Outcomes, WorkflowTypeOK
    <3>2. status'[worker.run] # "queued"
      <4>1. status[worker.run] \in {"running", "deleted"}
        BY <2>3 DEF WorkflowInv, WorkerOwnsRun, Finish, WorkerAt
      <4> QED
        BY <1>1, <2>1, <2>3, <4>1 DEF Finish, Outcomes, WorkflowTypeOK
    <3> QED
      BY <1>2, <2>1, <2>2, <3>1, <3>2
  <2>4. CASE FinishFault
    <3>1. status' = status /\ refused < refused'
      BY <1>1, <2>4 DEF FinishFault, Refuse
    <3>2. Stranded' \subseteq Stranded \cup {worker.run}
      BY <1>2, <2>1, <2>2, <3>1
    <3> QED
      BY <3>1, <3>2
  <2> QED
    BY <1>8, <2>3, <2>4
<1>9. CASE \/ Prepare \/ CreateContainer \/ StartContainer \/ Wait \/ Stop \/ Drain
           \/ Remove \/ LogBreaks
  <2>1. WorkerCall
    BY <1>1, <1>9, ProcessIsWorkerCall
  <2> QED
    BY <2>1, StrandedKept DEF WorkerCall, rows, sends
<1>10. CASE CleanClear
  <2>1. \A r \in Runs : status'[r] \in {"none", "deleted"}
    BY <1>10 DEF CleanClear
  <2> QED
    BY <1>2, <2>1
<1>11. CASE \/ Cleanup /\ ~ CleanClear
            \/ \E e \in Editors : ReplaceEntry(e)
            \/ \E r \in Runs : Exit(r)
            \/ StartScheduler
            \/ UNCHANGED wfVars
  <2>1. UNCHANGED <<status, sends, worker>>
    BY <1>11 DEF Cleanup, CleanList, CleanRemove, CleanNetwork, CleanAbort, CleanerFrame,
       ReplaceEntry, Exit, StartScheduler, wfVars, rows
  <2> QED
    BY <2>1, StrandedKept DEF sends
<1>12. ~ (Boot \/ StartManager \/ Crash \/ \E r \in Runs : RecoverRun(r))
  BY DEF Boot, StartManager, Crash, RecoverRun, Serving
<1> QED
  BY <1>4, <1>5, <1>6, <1>7, <1>8, <1>9, <1>10, <1>11, <1>12 DEF Next, Worker, Startup

\* When the worker goroutine is started nothing runs, and all queued rows are listed.
LEMMA StrandedByStart ==
  ASSUME WorkflowInv, [Next]_wfVars, ~ Serving, Serving'
  PROVE  Stranded' = {}
<1>1. brain \in {"down", "recover"} /\ brain' # brain
  BY DEF WorkflowInv, WorkflowTypeOK, Serving, Phases
<1>2. worker = IdleWorker
  BY <1>1 DEF WorkflowInv, NothingBeforeStart
<1>3. StartManager
  <2>1. ~ (Worker \/ LogBreaks)
    BY DEF Worker, Claim, ClaimFault, Prepare, CreateContainer, StartContainer, Wait, Stop,
       Drain, Remove, Finish, FinishFault, LogBreaks, WorkerAt
  <2>2. ~ (Request \/ \E n \in Names : Tick(n))
    BY <1>1 DEF Request, Upsert, DeleteDefinition, CreateRun, Fire, Tick
  <2>3. ~ (\/ \E e \in Editors : ReplaceEntry(e)
           \/ \E r \in Runs : Enqueue(r) \/ Exit(r)
           \/ Cleanup \/ UNCHANGED wfVars)
    BY <1>1 DEF ReplaceEntry, Enqueue, Exit, Cleanup, CleanList, CleanRemove, CleanNetwork,
       CleanClear, CleanAbort, CleanerFrame, wfVars
  <2>4. ~ (Crash \/ Boot \/ EnqueueBacklog \/ StartScheduler \/ \E r \in Runs : RecoverRun(r))
    BY DEF Crash, Boot, EnqueueBacklog, StartScheduler, RecoverRun, Serving
  <2> QED
    BY <2>1, <2>2, <2>3, <2>4 DEF Next, Startup
<1> QED
  BY <1>3 DEF StartManager, Stranded, Rows

\* What is lost stays paid for.
LEMMA NextLoss == WorkflowInv /\ WorkflowInv' /\ LossInv /\ [Next]_wfVars => LossInv'
<1> SUFFICES ASSUME WorkflowInv, WorkflowInv', LossInv, [Next]_wfVars PROVE LossInv'
  OBVIOUS
<1>1. LeftoverFrame
  BY NextLeaves DEF LossInv
<1>2. /\ crashes \in Nat /\ refused \in Nat /\ crashes' \in Nat /\ refused' \in Nat
      /\ crashes + refused \in Nat /\ crashes' + refused' \in Nat
      /\ crashes + refused <= crashes' + refused' /\ refused <= refused'
  <2>1. /\ crashes \in Nat /\ refused \in Nat
        /\ crashes' \in Nat /\ refused' \in Nat
    BY WorkflowBounds DEF WorkflowInv, WorkflowTypeOK
  <2>2. crashes <= crashes' /\ refused <= refused'
    BY <1>1 DEF LeftoverFrame, LossStep, FaultsGrow
  <2>3. \A a, b, c, d \in Nat :
          a <= c /\ b <= d => a + b \in Nat /\ c + d \in Nat /\ a + b <= c + d
    OBVIOUS
  <2> QED
    BY <2>1, <2>2, <2>3
<1>3. LeftoversPaid'
  <2>1. IsFiniteSet(Leftovers) /\ Cardinality(Leftovers) <= crashes + refused
    BY LossesFinite DEF LossInv, LeftoversPaid
  <2>2. \/ Leftovers' \subseteq Leftovers
        \/ \E x : /\ Leftovers' \subseteq Leftovers \cup {x}
                  /\ crashes + refused < crashes' + refused'
    BY <1>1 DEF LeftoverFrame, LossStep
  <2> HIDE DEF Leftovers
  <2>3. Cardinality(Leftovers') <= crashes' + refused'
    BY <1>2, <2>1, <2>2, FaultsCounted
  <2> QED
    BY <2>3 DEF LeftoversPaid
<1>4. RunsStrandedOnlyByFaults'
  <2> SUFFICES ASSUME Serving' PROVE Cardinality(Stranded') <= refused'
    BY DEF RunsStrandedOnlyByFaults
  <2>1. CASE ~ Serving
    <3>1. Stranded' = {}
      BY <2>1, StrandedByStart
    <3>2. Cardinality(Stranded') = 0
      BY <3>1, FS_EmptySet
    <3> QED
      BY <1>2, <3>2
  <2>2. CASE Serving
    <3>1. IsFiniteSet(Stranded) /\ Cardinality(Stranded) <= refused
      BY <2>2, LossesFinite DEF LossInv, RunsStrandedOnlyByFaults
    <3>2. \/ Stranded' \subseteq Stranded
          \/ \E x : Stranded' \subseteq Stranded \cup {x} /\ refused < refused'
      BY <1>1, <2>2, StrandedStep DEF LossInv, LeftoverFrame, LossStep
    <3> HIDE DEF Stranded
    <3> QED
      BY <1>2, <3>1, <3>2, FaultsCounted
  <2> QED
    BY <2>1, <2>2
<1> QED
  BY <1>1, <1>3, <1>4 DEF LossInv, LeftoverFrame

\* Every row that stays active and every container that stays behind is paid for by a
\* refused update, a refused call or a crash: no path through the worker, the start-up or
\* the clean-up loses one.
THEOREM LossesAlwaysByFaults == Spec => []LostOnlyByFaults
<1>1. Init => LossInv
  <2> SUFFICES ASSUME Init PROVE LossInv
    OBVIOUS
  <2>1. Leftovers = {}
    BY DEF Init, Leftovers
  <2>2. ~ Serving
    BY DEF Init, Serving
  <2>3. Cardinality(Leftovers) = 0 /\ crashes = 0 /\ refused = 0
    BY <2>1, FS_EmptySet DEF Init
  <2> QED
    BY <2>2, <2>3 DEF Init, LossInv, IdleHasNone, ContainerAfterClaim, Fresh, LeftoversPaid,
       RunsStrandedOnlyByFaults, IdleWorker
<1>2. WorkflowInv /\ LossInv => LostOnlyByFaults
  <2> SUFFICES ASSUME WorkflowInv, LossInv PROVE LeftoversOnlyByFaults
    BY DEF LossInv, LostOnlyByFaults
  <2> DEFINE L == {r \in Runs : container[r] # "absent" /\ worker.run # r}
  <2>1. L \subseteq Leftovers
    BY DEF Leftovers, Owns
  <2>2. crashes + refused \in Nat
    BY WorkflowBounds DEF WorkflowInv, WorkflowTypeOK
  <2>3. IsFiniteSet(Leftovers) /\ Cardinality(Leftovers) <= crashes + refused
    BY LossesFinite DEF LossInv, LeftoversPaid
  <2> HIDE DEF Leftovers, L
  <2>4. Cardinality(L) <= crashes + refused
    BY <2>1, <2>2, <2>3, FaultsCounted
  <2> QED
    BY <2>4 DEF LeftoversOnlyByFaults, L
<1> QED
  BY <1>1, <1>2, NextLoss, WorkflowInvariant, PTL DEF Spec
=============================================================================
