-------------------------- MODULE RuntimeOpsProofs --------------------------
(***************************************************************************)
(* Runtime handlers beside the deployment pipeline, for every set of       *)
(* projects, handlers and operations, and every number of jobs, crashes    *)
(* and refused writes.                                                     *)
(***************************************************************************)
EXTENDS RuntimeOps, DeploymentsProofs

-----------------------------------------------------------------------------
(* The calls a handler has left.                                           *)

\* The kinds that act on the current deployment's app; the others remove apps.
Runtime == {"stop", "start", "restart"}

\* Starting the app, and every point up to the end of it.
FromStart == {
  <<"startApp", "wait", "resolve", "write", "setStatus">>,
  <<"wait", "resolve", "write", "setStatus">>,
  <<"resolve", "write", "setStatus">>,
  <<"write", "setStatus">>,
  <<"setStatus">>,
  <<"unroute">> }

\* What each operation can have left; start and restart end with unroute when no
\* address is found for the app.
Remaining == [
  stop    |-> {Calls.stop, <<"unroute", "setStatus">>, <<"setStatus">>},
  start   |-> FromStart,
  restart |-> FromStart \cup
              {Calls.restart,
               <<"unroute", "startApp", "wait", "resolve", "write", "setStatus">>},
  remove  |-> {Calls.remove, <<"unroute", "clear">>, <<"clear">>},
  cleanup |-> {Calls.cleanup, <<"clear", "unroute">>, <<"unroute">>} ]

\* Which call follows which in an operation, and which call can be its last.
Starting == {<<"startApp", "wait">>, <<"wait", "resolve">>, <<"resolve", "write">>,
             <<"write", "setStatus">>}
After == [
  stop    |-> {<<"stopApp", "unroute">>, <<"unroute", "setStatus">>},
  start   |-> Starting,
  restart |-> Starting \cup {<<"stopApp", "unroute">>, <<"unroute", "startApp">>},
  remove  |-> {<<"removeApps", "unroute">>, <<"unroute", "clear">>},
  cleanup |-> {<<"removeApps", "clear">>, <<"clear", "unroute">>} ]
Last == [
  stop    |-> {"setStatus"},
  start   |-> {"setStatus", "unroute"},
  restart |-> {"setStatus", "unroute"},
  remove  |-> {"clear"},
  cleanup |-> {"unroute"} ]

\* What one point of an operation says of the next.
Point(k, l) ==
  /\ l # <<>> /\ Head(l) \in Call
  /\ l \in Seq(Call)
  /\ IF Len(l) = 1 THEN Head(l) \in Last[k]
                   ELSE Tail(l) \in Remaining[k] /\ <<Head(l), Head(Tail(l))>> \in After[k]

\* The points of stop.
LEMMA StopPoints == \A l \in Remaining.stop : Point("stop", l)
<1>1. Point("stop", Calls.stop)
  BY DEF Point, Calls, Call, Remaining, After, Last
<1>2. Point("stop", <<"unroute", "setStatus">>)
  BY DEF Point, Calls, Call, Remaining, After, Last
<1>3. Point("stop", <<"setStatus">>)
  BY DEF Point, Calls, Call, Remaining, After, Last
<1> QED
  BY <1>1, <1>2, <1>3 DEF Remaining

\* The points of start are points of restart too.
LEMMA StartPoints == \A l \in FromStart : Point("start", l) /\ Point("restart", l)
<1> DEFINE Both(l) == Point("start", l) /\ Point("restart", l)
<1>1. Both(<<"startApp", "wait", "resolve", "write", "setStatus">>)
  BY DEF Point, Call, Remaining, FromStart, After, Starting, Last
<1>2. Both(<<"wait", "resolve", "write", "setStatus">>)
  BY DEF Point, Call, Remaining, FromStart, After, Starting, Last
<1>3. Both(<<"resolve", "write", "setStatus">>)
  BY DEF Point, Call, Remaining, FromStart, After, Starting, Last
<1>4. Both(<<"write", "setStatus">>)
  BY DEF Point, Call, Remaining, FromStart, After, Starting, Last
<1>5. Both(<<"setStatus">>) /\ Both(<<"unroute">>)
  BY DEF Point, Call, Remaining, FromStart, After, Starting, Last
<1> HIDE DEF Both
<1>6. \A l \in FromStart : Both(l)
  BY <1>1, <1>2, <1>3, <1>4, <1>5 DEF FromStart
<1> QED
  BY <1>6 DEF Both

\* The points of restart before the start.
LEMMA RestartPoints == \A l \in Remaining.restart : Point("restart", l)
<1>1. Point("restart", Calls.restart)
  BY DEF Point, Calls, Call, Remaining, FromStart, After, Starting, Last
<1>2. Point("restart", <<"unroute", "startApp", "wait", "resolve", "write", "setStatus">>)
  BY DEF Point, Calls, Call, Remaining, FromStart, After, Starting, Last
<1> QED
  BY <1>1, <1>2, StartPoints DEF Remaining

\* The points of remove and cleanup.
LEMMA RemovalPoints == /\ \A l \in Remaining.remove : Point("remove", l)
                       /\ \A l \in Remaining.cleanup : Point("cleanup", l)
<1>1. Point("remove", Calls.remove) /\ Point("cleanup", Calls.cleanup)
  BY DEF Point, Calls, Call, Remaining, After, Last
<1>2. Point("remove", <<"unroute", "clear">>) /\ Point("cleanup", <<"clear", "unroute">>)
  BY DEF Point, Calls, Call, Remaining, After, Last
<1>3. Point("remove", <<"clear">>) /\ Point("cleanup", <<"unroute">>)
  BY DEF Point, Calls, Call, Remaining, After, Last
<1> QED
  BY <1>1, <1>2, <1>3 DEF Remaining

\* The points of every operation.
LEMMA Points == \A k \in DOMAIN Calls : \A l \in Remaining[k] : Point(k, l)
BY StopPoints, StartPoints, RestartPoints, RemovalPoints DEF Calls, Remaining

\* Which operations make a call.
LEMMA CallsOfKinds ==
  ASSUME NEW k \in DOMAIN Calls, NEW l \in Remaining[k]
  PROVE  /\ Head(l) \in {"stopApp", "startApp", "wait", "resolve", "write", "setStatus"}
              => k \in Runtime
         /\ Head(l) \in {"removeApps", "clear"} => k \in {"remove", "cleanup"}
         /\ Head(l) = "unroute" /\ Len(l) = 1 /\ k # "cleanup" => l = <<"unroute">>
BY DEF Calls, Remaining, FromStart, Runtime

-----------------------------------------------------------------------------
(* The records of the handlers.                                            *)

\* A handler holds what Begin read: a project with a row, a deployment or apps of it,
\* and calls of its kind; none is left when Brain is not up.
HandlersSound ==
  /\ brain # "up" => op = [o \in Ops |-> NoOp]
  /\ \A o \in Ops : op[o] # NoOp =>
       /\ op[o].kind \in DOMAIN Calls
       /\ op[o].project \in known
       /\ op[o].left \in Remaining[op[o].kind]
       /\ op[o].kind \in Runtime => op[o].dep \in JobsOf(op[o].project)
       /\ op[o].apps \subseteq JobsOf(op[o].project)

\* What a handler may do to its own record: end, go to the next call, or note a result.
\* The other records stay.
OnlyOp(o) == \A q \in Ops \ {o} : op'[q] = op[q]
SameHandler(o) ==
  /\ op'[o].kind = op[o].kind /\ op'[o].project = op[o].project
  /\ op'[o].dep = op[o].dep /\ op'[o].apps \subseteq op[o].apps

\* Advance: the handler ends after its last call, or has the next one at its head.
LEMMA Advanced ==
  ASSUME OpTypeOK, HandlersSound, NEW o \in Ops, op[o].left # <<>>, Advance(o)
  PROVE  /\ OnlyOp(o)
         /\ \/ op'[o] = NoOp /\ Len(op[o].left) = 1 /\ Head(op[o].left) \in Last[op[o].kind]
            \/ /\ op'[o] # NoOp /\ SameHandler(o)
               /\ op'[o].target = op[o].target
               /\ op'[o].left \in Remaining[op[o].kind]
               /\ <<Head(op[o].left), Head(op'[o].left)>> \in After[op[o].kind]
<1>1. /\ op[o] # NoOp /\ op[o].kind \in DOMAIN Calls
      /\ op[o].left \in Remaining[op[o].kind] /\ op[o].project \in known
  BY DEF HandlersSound, NoOp
<1>2. Point(op[o].kind, op[o].left)
  BY <1>1, Points
<1>3. OnlyOp(o) /\ op'[o] = Rest(o)
  BY DEF Advance, OnlyOp, OpTypeOK
<1>4. CASE Len(op[o].left) = 1
  BY <1>2, <1>3, <1>4 DEF Rest, Point
<1>5. CASE Len(op[o].left) # 1
  <2> DEFINE t == Tail(op[o].left)
  <2>1. op'[o] = [op[o] EXCEPT !.left = t]
    BY <1>3, <1>5 DEF Rest
  <2> HIDE DEF t
  <2>2. /\ op'[o].left = t /\ op'[o].kind = op[o].kind
        /\ op'[o].project = op[o].project /\ op'[o].dep = op[o].dep
        /\ op'[o].apps = op[o].apps /\ op'[o].target = op[o].target
    BY <2>1 DEF OpTypeOK
  <2>3. op'[o].left \in Remaining[op[o].kind] /\ op'[o].left # <<>>
    <3>1. op'[o].left \in Remaining[op[o].kind]
      BY <1>2, <1>5, <2>2 DEF Point, t
    <3> QED
      BY <1>1, <3>1, Points DEF Point
  <2>4. op'[o] # NoOp
    BY <2>3 DEF NoOp
  <2>5. <<Head(op[o].left), Head(op'[o].left)>> \in After[op[o].kind]
    BY <1>2, <1>5, <2>2 DEF Point, t
  <2>6. SameHandler(o)
    BY <2>2 DEF SameHandler
  <2> QED
    BY <1>3, <2>2, <2>3, <2>4, <2>5, <2>6
<1> QED
  BY <1>4, <1>5

\* A step of a handler that began: one of its calls, or the failure of one.
HandlerCall(o) ==
  \/ StopProjectApp(o) \/ StartProjectApp(o) \/ WaitForApp(o)
  \/ \E j \in Jobs : RemoveApp(o, j)
  \/ AppsRemoved(o) \/ Unroute(o) \/ Resolve(o) \/ Write(o)
  \/ SetStatus(o) \/ ClearState(o) \/ NotFound(o)
HandlerStep(o) == HandlerCall(o) \/ Abort(o)

\* A handler that takes a step runs, and what it holds is as Begin read it.
LEMMA Running ==
  ASSUME TypeOK, OpTypeOK, HandlersSound, NEW o \in Ops, op[o].left # <<>>
  PROVE  /\ op[o] # NoOp /\ brain = "up"
         /\ op[o].kind \in DOMAIN Calls
         /\ op[o].project \in known /\ op[o].project \in Projects
         /\ op[o].left \in Remaining[op[o].kind]
         /\ op[o].kind \in Runtime => op[o].dep \in JobsOf(op[o].project) /\ op[o].dep \in Jobs
         /\ op[o].apps \subseteq JobsOf(op[o].project) /\ op[o].apps \subseteq Jobs
<1>1. op[o] # NoOp
  BY DEF NoOp
<1> QED
  BY <1>1 DEF HandlersSound, JobsOf, TypeOK

\* The record after a handler's step: ended, or still that of the same handler.
LEMMA RecordKept ==
  ASSUME TypeOK, OpTypeOK, HandlersSound, NEW o \in Ops, HandlerStep(o)
  PROVE  /\ op[o].left # <<>> /\ OnlyOp(o)
         /\ \/ op'[o] = NoOp
            \/ /\ op'[o] # NoOp /\ SameHandler(o)
               /\ op'[o].left \in Remaining[op[o].kind]
         /\ op' \in [Ops -> [kind : OpKinds \cup {None}, left : Seq(Call),
                             project : Projects \cup {None}, dep : JobOrNone,
                             apps : SUBSET Jobs, target : JobOrNone]]
<1> DEFINE Record == [kind : OpKinds \cup {None}, left : Seq(Call),
                      project : Projects \cup {None}, dep : JobOrNone,
                      apps : SUBSET Jobs, target : JobOrNone]
           Good == /\ OnlyOp(o)
                   /\ \/ op'[o] = NoOp
                      \/ /\ op'[o] # NoOp /\ SameHandler(o)
                         /\ op'[o].left \in Remaining[op[o].kind]
                   /\ op' \in [Ops -> Record]
<1>1. NoOp \in Record /\ op \in [Ops -> Record]
  BY DEF NoOp, OpTypeOK, JobOrNone
<1>2. op[o].left # <<>>
  BY DEF HandlerStep, HandlerCall, At, StopProjectApp, StartProjectApp, WaitForApp, RemoveApp, AppsRemoved,
     Unroute, Resolve, Write, SetStatus, ClearState, NotFound, Abort
<1>3. /\ op[o] # NoOp /\ op[o].kind \in DOMAIN Calls
      /\ op[o].left \in Remaining[op[o].kind] /\ op[o].project \in Projects
  BY <1>2, Running
<1>4. Point(op[o].kind, op[o].left)
  BY <1>3, Points
<1>5. ASSUME Advance(o) PROVE Good
  <2>1. Rest(o) \in Record
    <3>1. CASE Len(op[o].left) = 1
      BY <1>1, <3>1 DEF Rest
    <3>2. CASE Len(op[o].left) # 1
      <4> DEFINE t == Tail(op[o].left)
      <4>1. t \in Seq(Call)
        <5>1. Tail(op[o].left) \in Remaining[op[o].kind]
          BY <1>4, <3>2 DEF Point
        <5> QED
          BY <1>3, <5>1, Points DEF Point
      <4>2. Rest(o) = [op[o] EXCEPT !.left = t]
        BY <3>2 DEF Rest
      <4> HIDE DEF t
      <4> QED
        BY <1>1, <4>1, <4>2
    <3> QED
      BY <3>1, <3>2
  <2>2. op' \in [Ops -> Record]
    BY <1>1, <1>5, <2>1 DEF Advance
  <2> QED
    BY <1>2, <1>5, <2>2, Advanced
<1>6. ASSUME End(o) PROVE Good
  BY <1>1, <1>6 DEF End, OnlyOp
<1>7. ASSUME NEW r \in Record, op' = [op EXCEPT ![o] = r], r # NoOp,
             r.left \in Remaining[op[o].kind],
             r.kind = op[o].kind, r.project = op[o].project, r.dep = op[o].dep,
             r.apps \subseteq op[o].apps
      PROVE  Good
  BY <1>1, <1>7 DEF OnlyOp, SameHandler
<1>8. ASSUME NEW j \in Jobs, RemoveApp(o, j) PROVE Good
  <2> DEFINE r == [op[o] EXCEPT !.apps = op[o].apps \ {j}]
  <2>1. op' = [op EXCEPT ![o] = r]
    BY <1>1, <1>8 DEF RemoveApp
  <2>2. /\ r \in Record
        /\ r.left = op[o].left /\ r.kind = op[o].kind /\ r.project = op[o].project
        /\ r.dep = op[o].dep /\ r.apps \subseteq op[o].apps
    BY <1>1
  <2>3. r # NoOp
    BY <1>2, <2>2 DEF NoOp
  <2> HIDE DEF r
  <2> QED
    BY <1>3, <1>7, <2>1, <2>2, <2>3
<1>9. ASSUME Resolve(o) PROVE Good
  <2>1. PICK t \in RouteTargets(op[o].project) :
          op' = IF t = None /\ current[op[o].project] # None
                THEN [op EXCEPT ![o].left = <<"unroute">>]
                ELSE [op EXCEPT ![o] = [Rest(o) EXCEPT !.target = t]]
    BY <1>9 DEF Resolve
  <2>2. /\ Head(op[o].left) = "resolve" /\ op[o].kind \in {"start", "restart"}
        /\ Len(op[o].left) # 1
    BY <1>3, <1>9 DEF Resolve, At, Calls, Remaining, FromStart
  <2>3. t \in JobOrNone
    BY <1>3 DEF RouteTargets, TypeOK, JobOrNone
  <2>4. CASE t = None /\ current[op[o].project] # None
    <3> DEFINE r == [op[o] EXCEPT !.left = <<"unroute">>]
    <3>1. op' = [op EXCEPT ![o] = r]
      BY <1>1, <2>1, <2>4
    <3>2. /\ r \in Record
          /\ r.left = <<"unroute">> /\ r.kind = op[o].kind /\ r.project = op[o].project
          /\ r.dep = op[o].dep /\ r.apps \subseteq op[o].apps
      <4>1. <<"unroute">> \in Seq(Call)
        BY DEF Call
      <4> QED
        BY <1>1, <4>1
    <3>3. r # NoOp /\ r.left \in Remaining[op[o].kind]
      BY <2>2, <3>2, SMTT(20) DEF NoOp, Remaining, FromStart
    <3> HIDE DEF r
    <3> QED
      BY <1>7, <3>1, <3>2, <3>3
  <2>5. CASE ~ (t = None /\ current[op[o].project] # None)
    <3> DEFINE l == Tail(op[o].left)
               r == [op[o] EXCEPT !.left = l, !.target = t]
    <3>1. op' = [op EXCEPT ![o] = r]
      <4>1. op' = [op EXCEPT ![o] = [Rest(o) EXCEPT !.target = t]]
        BY <2>1, <2>5
      <4>2. [Rest(o) EXCEPT !.target = t] = r
        <5>1. Rest(o) = [op[o] EXCEPT !.left = l]
          BY <2>2 DEF Rest
        <5> QED
          BY <5>1
      <4> QED
        BY <4>1, <4>2
    <3>2. l \in Remaining[op[o].kind] /\ l \in Seq(Call) /\ l # <<>>
      <4>1. l \in Remaining[op[o].kind]
        BY <1>4, <2>2 DEF Point
      <4> QED
        BY <1>3, <4>1, Points DEF Point
    <3> HIDE DEF l
    <3>3. /\ r \in Record
          /\ r.left = l /\ r.kind = op[o].kind /\ r.project = op[o].project
          /\ r.dep = op[o].dep /\ r.apps \subseteq op[o].apps
      BY <1>1, <2>3, <3>2
    <3>4. r # NoOp /\ r.left \in Remaining[op[o].kind]
      BY <3>2, <3>3 DEF NoOp
    <3> HIDE DEF r
    <3> QED
      BY <1>7, <3>1, <3>2, <3>3, <3>4
  <2> QED
    BY <2>4, <2>5
<1>10. Good
  BY <1>5, <1>6, <1>8, <1>9 DEF HandlerStep, HandlerCall, StopProjectApp, StartProjectApp, WaitForApp,
     AppsRemoved, Unroute, Write, SetStatus, ClearState, NotFound, Abort
<1> QED
  BY <1>2, <1>10

-----------------------------------------------------------------------------
(* What a handler's step writes of the pipeline's tables and containers.   *)

\* Only a removal writes the deployments table, and only for its project.
Cleared(p) ==
  /\ deployment' = Superseded(p, None)
  /\ current' = [current EXCEPT ![p] = None]

\* A handler creates no container, and touches those of its project only.
LEMMA ContainersWritten ==
  ASSUME TypeOK, OpTypeOK, HandlersSound, NEW o \in Ops, HandlerStep(o)
  PROVE  /\ app' \in [Jobs -> AppStates]
         /\ \A j \in Jobs : app'[j] # "absent" => app[j] # "absent"
         /\ \A j \in Jobs : j \notin JobsOf(op[o].project) => app'[j] = app[j]
         /\ readied' \subseteq Jobs
         /\ route' \in [Projects -> JobOrNone]
         /\ \A p \in Projects \ {op[o].project} : route'[p] = route[p]
<1> DEFINE h == op[o]
<1>1. /\ h.left # <<>> /\ h.project \in Projects /\ h.left \in Remaining[h.kind]
      /\ h.kind \in DOMAIN Calls /\ h.target \in JobOrNone
      /\ h.kind \in Runtime => h.dep \in JobsOf(h.project) /\ h.dep \in Jobs
      /\ h.apps \subseteq JobsOf(h.project) /\ h.apps \subseteq Jobs
  BY RecordKept, Running DEF OpTypeOK
<1>2. Head(h.left) \in {"stopApp", "startApp", "wait"}
        => h.dep \in JobsOf(h.project) /\ h.dep \in Jobs
  BY <1>1, CallsOfKinds
<1>3. /\ app \in [Jobs -> AppStates] /\ readied \subseteq Jobs
      /\ route \in [Projects -> JobOrNone]
  BY DEF TypeOK
<1>4. CASE StopProjectApp(o) \/ StartProjectApp(o)
  <2>1. /\ h.dep \in JobsOf(h.project) /\ h.dep \in Jobs /\ app[h.dep] # "absent"
        /\ \E a \in {"stopped", "running"} : app' = [app EXCEPT ![h.dep] = a]
        /\ UNCHANGED <<route, readied>>
    BY <1>2, <1>4 DEF StopProjectApp, StartProjectApp, At, OnlyApp
  <2> QED
    BY <1>3, <2>1 DEF AppStates
<1>5. CASE WaitForApp(o)
  <2>1. h.dep \in Jobs /\ readied' = readied \cup {h.dep} /\ UNCHANGED <<app, route>>
    BY <1>2, <1>5 DEF WaitForApp, At
  <2> QED
    BY <1>3, <2>1
<1>6. ASSUME NEW j \in Jobs, RemoveApp(o, j)
      PROVE  /\ app' = [app EXCEPT ![j] = "absent"] /\ j \in JobsOf(h.project)
             /\ UNCHANGED <<route, readied>>
  BY <1>1, <1>6 DEF RemoveApp, OnlyApp
<1>7. CASE \E j \in Jobs : RemoveApp(o, j)
  BY <1>3, <1>6, <1>7 DEF AppStates
<1>8. CASE Unroute(o) \/ Write(o)
  <2>1. /\ \E t \in JobOrNone : route' = [route EXCEPT ![h.project] = t]
        /\ UNCHANGED <<app, readied>>
    BY <1>1, <1>8 DEF Unroute, Write, JobOrNone
  <2> QED
    BY <1>1, <1>3, <2>1
<1>9. CASE Abort(o)
  <2>1. UNCHANGED <<route, readied>>
    BY <1>9 DEF Abort, OnlyApp
  <2>2. PICK j \in Jobs, a \in AppStates :
          a \in AfterFailedCall(o, j) /\ app' = [app EXCEPT ![j] = a]
    BY <1>9 DEF Abort
  <2>3. a # app[j] => j \in JobsOf(h.project) /\ app[j] # "absent"
    <3>1. CASE j \in h.apps
      BY <1>1, <2>2, <3>1 DEF AfterFailedCall, AfterFailedRemoval
    <3>2. CASE j \notin h.apps
      BY <1>2, <2>2, <3>2 DEF AfterFailedCall, At
    <3> QED
      BY <3>1, <3>2
  <2> QED
    BY <1>3, <2>1, <2>2, <2>3
<1>10. CASE AppsRemoved(o) \/ Resolve(o) \/ SetStatus(o) \/ ClearState(o) \/ NotFound(o)
  BY <1>3, <1>10 DEF AppsRemoved, Resolve, SetStatus, ClearState, NotFound, vars, world
<1> QED
  BY <1>4, <1>5, <1>7, <1>8, <1>9, <1>10 DEF HandlerStep, HandlerCall

\* A handler writes no job row and nothing of the process's memory, and of the other
\* tables only the rows of its project.
LEMMA TablesWritten ==
  ASSUME TypeOK, OpTypeOK, HandlersSound, NEW o \in Ops, HandlerStep(o)
  PROVE  /\ UNCHANGED <<jobProject, jobStatus, known, memory, worker, boot, faults>>
         /\ UNCHANGED <<deployment, current>> \/ (ClearState(o) /\ Cleared(op[o].project))
         /\ status' \in [Projects -> Statuses]
         /\ \A p \in Projects \ {op[o].project} : status'[p] = status[p]
<1>1. op[o].project \in Projects /\ status \in [Projects -> Statuses]
  BY RecordKept, Running DEF TypeOK
<1>2. CASE SetStatus(o)
  <2>1. /\ \E s \in {"stopped", "running"} : status' = [status EXCEPT ![op[o].project] = s]
        /\ UNCHANGED <<jobProject, jobStatus, deployment, known, current, world, memory,
                       worker, boot, faults>>
    BY <1>2 DEF SetStatus
  <2> QED
    BY <1>1, <2>1 DEF Statuses
<1>3. CASE ClearState(o)
  <2>1. /\ SyncStatus(op[o].project) /\ Cleared(op[o].project)
        /\ UNCHANGED <<jobProject, jobStatus, known, world, memory, worker, boot, faults>>
    BY <1>3 DEF ClearState, Cleared
  <2>2. status' \in [Projects -> Statuses]
    BY <1>1, <2>1, SyncStatusType
  <2>3. \A p \in Projects \ {op[o].project} : status'[p] = status[p]
    BY <1>1, <2>1 DEF SyncStatus
  <2> QED
    BY <1>3, <2>1, <2>2, <2>3
<1>4. ASSUME UNCHANGED <<tables, memory, worker, boot, faults>>
      PROVE  /\ UNCHANGED <<jobProject, jobStatus, known, memory, worker, boot, faults>>
             /\ UNCHANGED <<deployment, current>> /\ status' = status
  BY <1>4 DEF tables
<1>5. CASE ~ (SetStatus(o) \/ ClearState(o))
  <2>1. UNCHANGED <<tables, memory, worker, boot, faults>>
    <3>1. CASE \/ StopProjectApp(o) \/ StartProjectApp(o) \/ WaitForApp(o)
               \/ \E j \in Jobs : RemoveApp(o, j)
      BY <3>1 DEF StopProjectApp, StartProjectApp, WaitForApp, RemoveApp, OnlyApp
    <3>2. CASE AppsRemoved(o) \/ Unroute(o) \/ Resolve(o) \/ Write(o) \/ NotFound(o)
      BY <3>2 DEF AppsRemoved, Unroute, Resolve, Write, NotFound, vars
    <3>3. CASE Abort(o)
      BY <3>3 DEF Abort, OnlyApp
    <3> QED
      BY <1>5, <3>1, <3>2, <3>3 DEF HandlerStep, HandlerCall
  <2> QED
    BY <1>1, <1>4, <2>1
<1> QED
  BY <1>2, <1>3, <1>5

\* The invariant of the tables survives every handler, and no job is stranded by one.
LEMMA HandlerKeepsTables ==
  ASSUME TableInv, OpTypeOK, HandlersSound, NEW o \in Ops, HandlerStep(o)
  PROVE  TableInv' /\ (StrandedOnlyByFaults => StrandedOnlyByFaults')
<1> USE DEF TableInv
<1> DEFINE p == op[o].project
<1>1. /\ UNCHANGED <<jobProject, jobStatus, known, memory, worker, boot, faults>>
      /\ UNCHANGED <<deployment, current>> \/ Cleared(p)
      /\ status' \in [Projects -> Statuses]
  BY TablesWritten
<1>2. /\ app' \in [Jobs -> AppStates] /\ readied' \subseteq Jobs
      /\ route' \in [Projects -> JobOrNone]
      /\ \A j \in Jobs : app'[j] # "absent" => app[j] # "absent"
  BY ContainersWritten
<1>3. p \in Projects
  BY RecordKept, Running
<1>4. /\ deployment' \in [Jobs -> {"none", "succeeded", "superseded"}]
      /\ \A j \in Jobs : deployment'[j] = "none" <=> deployment[j] = "none"
      /\ \A j \in Jobs : jobProject[j] # p => deployment'[j] = deployment[j]
  <2>1. CASE UNCHANGED <<deployment, current>>
    BY <2>1 DEF TypeOK
  <2>2. CASE Cleared(p)
    <3>1. \A j \in Jobs : deployment'[j] = IF j \in JobsOf(p) /\ deployment[j] = "succeeded"
                                          THEN "superseded" ELSE deployment[j]
      BY <2>2, NoneAssumption DEF Cleared, Superseded
    <3>2. deployment' \in [Jobs -> {"none", "succeeded", "superseded"}]
      BY <2>2, NoneAssumption DEF Cleared, Superseded, TypeOK
    <3> QED
      BY <3>1, <3>2 DEF JobsOf
  <2> QED
    BY <1>1, <2>1, <2>2
<1>5. current' \in [Projects -> JobOrNone]
  BY <1>1 DEF TypeOK, Cleared, JobOrNone
<1>6. \A q \in Projects : current'[q] \in {None, current[q]}
  BY <1>1, <1>3 DEF TypeOK, Cleared
<1>7. TypeOK'
  BY <1>1, <1>2, <1>4, <1>5 DEF TypeOK, memory, boot, faults
<1>8. OneActiveJob' /\ QueueSound' /\ EmptyAtBoot'
  BY <1>1 DEF OneActiveJob, QueueSound, Queued, EmptyAtBoot, memory, boot, Serving
<1>9. SoleSucceededDeployment'
  <2>1. CASE UNCHANGED <<deployment, current>>
    BY <1>1, <2>1 DEF SoleSucceededDeployment, JobsOf
  <2>2. CASE Cleared(p)
    <3>1. current'[p] = None /\ \A q \in Projects \ {p} : current'[q] = current[q]
      BY <1>3, <2>2 DEF Cleared, TypeOK
    <3>2. \A j \in JobsOf(p) : deployment'[j] # "succeeded" /\ j # None
      BY <2>2, NoneAssumption DEF Cleared, Superseded, JobsOf
    <3> QED
      BY <1>1, <1>4, <3>1, <3>2 DEF SoleSucceededDeployment, JobsOf
  <2> QED
    BY <1>1, <2>1, <2>2
<1>10. ClaimedFirst' /\ WorkerOwnsJob'
  <2>1. worker.pc \in Processing => worker.job \in Jobs
    BY DEF TypeOK, Processing, WorkerPC
  <2> QED
    BY <1>1, <1>2, <1>4, <2>1 DEF ClaimedFirst, WorkerOwnsJob
<1>11. OldStays'
  <2>1. worker.pc \in {"removeOld", "promote"} => jobProject[worker.job] \in Projects
    BY DEF TypeOK
  <2> QED
    BY <1>1, <1>6, <2>1 DEF OldStays, JobsOf
<1>12. Stranded' = Stranded /\ Serving' = Serving /\ refused' = refused
  BY <1>1 DEF Stranded, Queued, memory, boot, Serving, faults
<1> QED
  BY <1>7, <1>8, <1>9, <1>10, <1>11, <1>12 DEF StrandedOnlyByFaults

-----------------------------------------------------------------------------
(* The inductive invariant of the tables and the handlers' records.        *)

\* Rows are only added, and a job keeps its project.
LEMMA RowsGrow ==
  ASSUME TypeOK, RowsBelong, [Next]_vars
  PROVE  /\ RowsBelong' /\ known \subseteq known'
         /\ \A j \in Jobs : jobStatus[j] # "none" => jobProject'[j] = jobProject[j]
         /\ \A j \in Jobs : jobStatus'[j] = "none" => jobStatus[j] = "none"
<1> DEFINE Grow == /\ RowsBelong' /\ known \subseteq known'
                   /\ \A j \in Jobs : jobStatus[j] # "none" => jobProject'[j] = jobProject[j]
                   /\ \A j \in Jobs : jobStatus'[j] = "none" => jobStatus[j] = "none"
<1>1. ASSUME UNCHANGED <<jobProject, jobStatus, known>> PROVE Grow
  BY <1>1 DEF RowsBelong
<1>2. ASSUME NEW j \in Jobs, jobStatus[j] # "none", NEW s \in JobStatuses \ {"none"},
             jobStatus' = [jobStatus EXCEPT ![j] = s], UNCHANGED <<jobProject, known>>
      PROVE  Grow
  BY <1>2 DEF RowsBelong, TypeOK
<1>3. ASSUME NEW p \in Projects, NEW j \in Jobs, CreateJob(p, j) PROVE Grow
  <2>1. /\ jobStatus[j] = "none" /\ jobStatus' = [jobStatus EXCEPT ![j] = "queued"]
        /\ jobProject' = [jobProject EXCEPT ![j] = p] /\ known' = known \cup {p}
    BY <1>3 DEF CreateJob
  <2> QED
    BY <2>1 DEF RowsBelong, TypeOK
<1>4. CASE Claim
  <2> DEFINE j == Head(queue)
  <2>1. j \in Jobs
    BY <1>4, HeadTailProperties DEF Claim, TypeOK
  <2>2. UNCHANGED <<jobProject, known>>
    BY <1>4 DEF Claim
  <2>3. \/ jobStatus' = jobStatus
        \/ jobStatus[j] = "queued" /\ jobStatus' = [jobStatus EXCEPT ![j] = "running"]
    BY <1>4 DEF Claim
  <2> HIDE DEF j
  <2> QED
    BY <1>1, <1>2, <2>1, <2>2, <2>3 DEF JobStatuses, Active
<1>5. CASE Promote \/ FailJob
  <2>1. worker.job \in Jobs /\ jobStatus[worker.job] # "none"
    BY <1>5 DEF Promote, FailJob, WorkerAt, TypeOK
  <2> QED
    BY <1>2, <1>5, <2>1 DEF Promote, FailJob, JobStatuses
<1>6. ASSUME NEW j \in Jobs, RecoverJob(j) PROVE Grow
  BY <1>2, <1>6 DEF RecoverJob, JobStatuses
<1>7. ASSUME NEW p \in Projects, ReconcileProject(p) \/ ReconcileStatus(p) \/ SyncIngress(p)
      PROVE  Grow
  BY <1>1, <1>7 DEF ReconcileProject, Adopt, ReconcileStatus, SyncIngress, tables
<1>8. CASE \/ \E j \in Jobs : Enqueue(j) \/ EnqueueBacklog(j)
           \/ Boot \/ FinishPhase \/ StartWorker \/ Listen \/ Crash \/ UNCHANGED vars
  BY <1>1, <1>8 DEF Enqueue, EnqueueBacklog, Boot, FinishPhase, StartWorker, Listen, Crash,
     vars, tables
<1>9. CASE Worker /\ ~ (Claim \/ Promote \/ FailJob)
  BY <1>1, <1>9 DEF Worker, ClaimFault, Build, StartApp, WaitReady, LoadCurrent, RemoveOld,
     PromoteRollback, FailJobFault, ResolveRoute, WriteRoute, WriteRouteFault, tables
<1> QED
  BY <1>3, <1>4, <1>5, <1>6, <1>7, <1>8, <1>9 DEF Next, Handlers, Startup

\* Only a crash takes Brain down from up.
LEMMA UpUntilCrash ==
  ASSUME brain = "up", Handlers \/ Worker \/ Startup \/ UNCHANGED vars
  PROVE  brain' = "up"
BY DEF Handlers, CreateJob, Enqueue, Worker, Claim, ClaimFault, Build, StartApp, WaitReady,
   LoadCurrent, RemoveOld, Promote, PromoteRollback, FailJob, FailJobFault, ResolveRoute,
   WriteRoute, WriteRouteFault, Startup, Boot, FinishPhase, NextPhase, StartWorker, Listen,
   ReconcileProject, ReconcileStatus, SyncIngress, RecoverJob, EnqueueBacklog, boot, vars

OpBase ==
  /\ TableInv
  /\ StrandedOnlyByFaults
  /\ RowsBelong
  /\ OpTypeOK
  /\ HandlersSound

\* The steps of OpNext: of a handler, the start of one, of the pipeline, a crash.
Begins(o) ==
  \E p \in Projects, k \in OpKinds : BeginRuntime(o, p, k) \/ BeginRemoval(o, p, k)
OpSteps ==
  \/ \E o \in Ops : HandlerStep(o) \/ Begins(o)
  \/ (Handlers \/ Worker \/ Startup) /\ UNCHANGED op
  \/ Crash /\ op' = [o \in Ops |-> NoOp]
  \/ UNCHANGED vars /\ UNCHANGED op

\* OpNext takes these steps; muddled only watches.
LEMMA OpNextSteps == [OpNext]_opVars => OpSteps
BY DEF OpNext, OpStep, OpSteps, HandlerStep, HandlerCall, Begins, opVars

\* The record of a handler that begins: it holds what it read.
LEMMA BeginsSound ==
  ASSUME TypeOK, OpTypeOK, HandlersSound, RowsBelong, NEW o \in Ops, Begins(o),
         SoleSucceededDeployment
  PROVE  /\ OpTypeOK' /\ HandlersSound' /\ UNCHANGED vars
         /\ brain = "up" /\ op[o] = NoOp /\ OnlyOp(o)
         /\ op'[o].project \in Projects
         /\ op'[o].kind \in OpKinds
         /\ op'[o].left = Calls[op'[o].kind]
         /\ op'[o].kind \in Runtime =>
              current[op'[o].project] # None /\ op'[o].dep = current[op'[o].project]
<1>1. PICK p \in Projects, k \in OpKinds : BeginRuntime(o, p, k) \/ BeginRemoval(o, p, k)
  BY DEF Begins
<1>2. /\ brain = "up" /\ op[o] = NoOp /\ p \in known /\ UNCHANGED vars
  BY <1>1 DEF BeginRuntime, BeginRemoval
<1>3. k \in DOMAIN Calls /\ Calls[k] \in Remaining[k] /\ Calls[k] \in Seq(Call) /\ Calls[k] # <<>>
  <2>1. k \in DOMAIN Calls
    BY KindsAssumption
  <2>2. Calls[k] \in Remaining[k]
    BY <2>1 DEF Calls, Remaining, FromStart
  <2> QED
    BY <2>1, <2>2, Points DEF Point
<1> DEFINE Read == [kind : {k}, left : {Calls[k]}, project : {p}, dep : JobOrNone,
                    apps : SUBSET JobsOf(p), target : {None}]
<1>4. PICK r \in Read : /\ op' = [op EXCEPT ![o] = r]
                        /\ k \in Runtime => r.dep = current[p] /\ current[p] # None
  <2>1. CASE BeginRuntime(o, p, k)
    <3> DEFINE r == [NoOp EXCEPT !.kind = k, !.left = Calls[k], !.project = p,
                                 !.dep = current[p]]
    <3>1. op' = [op EXCEPT ![o] = r] /\ current[p] # None /\ current[p] \in JobOrNone
      BY <2>1 DEF BeginRuntime, TypeOK
    <3>2. r \in Read /\ r.dep = current[p]
      BY <3>1 DEF NoOp
    <3> HIDE DEF r
    <3> QED
      BY <3>1, <3>2
  <2>2. CASE BeginRemoval(o, p, k)
    <3> DEFINE a == {j \in JobsOf(p) : app[j] # "absent"}
               r == [NoOp EXCEPT !.kind = k, !.left = Calls[k], !.project = p, !.apps = a]
    <3>1. op' = [op EXCEPT ![o] = r] /\ k \notin Runtime
      BY <2>2 DEF BeginRemoval, Runtime
    <3>2. a \subseteq JobsOf(p)
      OBVIOUS
    <3> HIDE DEF a
    <3>3. r \in Read
      BY <3>2 DEF NoOp, JobOrNone
    <3> HIDE DEF r
    <3> QED
      BY <3>1, <3>3
  <2> QED
    BY <1>1, <2>1, <2>2
<1>5. /\ OnlyOp(o) /\ op'[o] = r
      /\ r.kind = k /\ r.left = Calls[k] /\ r.project = p /\ r.apps \subseteq JobsOf(p)
  BY <1>4 DEF OnlyOp, OpTypeOK
<1>6. OpTypeOK'
  <2>1. r \in [kind : OpKinds \cup {None}, left : Seq(Call), project : Projects \cup {None},
               dep : JobOrNone, apps : SUBSET Jobs, target : JobOrNone]
    BY <1>3 DEF JobOrNone, JobsOf
  <2> QED
    BY <1>4, <2>1 DEF OpTypeOK
<1>7. known' = known /\ brain' = brain /\ jobProject' = jobProject
  BY <1>2 DEF vars, tables, boot
<1>8. k \in Runtime => r.dep \in JobsOf(p)
  BY <1>4 DEF SoleSucceededDeployment
<1>9. HandlersSound'
  <2>1. ASSUME NEW q \in Ops, op'[q] # NoOp
        PROVE  /\ op'[q].kind \in DOMAIN Calls
               /\ op'[q].project \in known
               /\ op'[q].left \in Remaining[op'[q].kind]
               /\ op'[q].kind \in Runtime => op'[q].dep \in JobsOf(op'[q].project)
               /\ op'[q].apps \subseteq JobsOf(op'[q].project)
    <3>1. CASE q = o
      BY <1>2, <1>3, <1>4, <1>5, <1>8, <3>1
    <3>2. CASE q # o
      BY <1>5, <2>1, <3>2 DEF OnlyOp, HandlersSound
    <3> QED
      BY <3>1, <3>2
  <2> QED
    BY <1>2, <1>7, <2>1 DEF HandlersSound, JobsOf
<1> QED
  BY <1>2, <1>4, <1>5, <1>6, <1>9

\* A handler's step keeps the handlers' records sound.
LEMMA StepSound ==
  ASSUME TypeOK, OpTypeOK, HandlersSound, NEW o \in Ops, HandlerStep(o)
  PROVE  OpTypeOK' /\ HandlersSound'
<1>1. /\ OnlyOp(o) /\ op[o].left # <<>>
      /\ \/ op'[o] = NoOp
         \/ op'[o] # NoOp /\ SameHandler(o) /\ op'[o].left \in Remaining[op[o].kind]
  BY RecordKept
<1>2. OpTypeOK'
  BY RecordKept DEF OpTypeOK
<1>3. UNCHANGED <<jobProject, known, brain>> /\ brain = "up" /\ op[o] # NoOp
  BY <1>1, TablesWritten, Running DEF boot
<1>4. ASSUME NEW q \in Ops, op'[q] # NoOp
      PROVE  /\ op'[q].kind \in DOMAIN Calls
             /\ op'[q].project \in known
             /\ op'[q].left \in Remaining[op'[q].kind]
             /\ op'[q].kind \in Runtime => op'[q].dep \in JobsOf(op'[q].project)
             /\ op'[q].apps \subseteq JobsOf(op'[q].project)
  <2>1. CASE q = o
    BY <1>1, <1>3, <1>4, <2>1 DEF HandlersSound, SameHandler
  <2>2. CASE q # o
    BY <1>1, <1>4, <2>2 DEF OnlyOp, HandlersSound
  <2> QED
    BY <2>1, <2>2
<1> QED
  BY <1>2, <1>3, <1>4 DEF HandlersSound, JobsOf

\* The pipeline moves on beside the handlers' records.
LEMMA PipelineSound ==
  ASSUME TypeOK, OpTypeOK, HandlersSound, RowsBelong, UNCHANGED op,
         Handlers \/ Worker \/ Startup \/ UNCHANGED vars
  PROVE  OpTypeOK' /\ HandlersSound'
<1>1. [Next]_vars
  BY DEF Next
<1>2. /\ known \subseteq known'
      /\ \A j \in Jobs : jobStatus[j] # "none" => jobProject'[j] = jobProject[j]
  BY <1>1, RowsGrow
<1>3. brain' # "up" => brain # "up"
  BY UpUntilCrash
<1>4. \A p \in Projects : JobsOf(p) \subseteq JobsOf(p)'
  BY <1>2, NoneAssumption DEF JobsOf, RowsBelong, TypeOK
<1>5. OpTypeOK'
  BY DEF OpTypeOK
<1>6. ASSUME NEW q \in Ops, op[q] # NoOp
      PROVE  /\ op[q].kind \in DOMAIN Calls
             /\ op[q].project \in known'
             /\ op[q].left \in Remaining[op[q].kind]
             /\ op[q].kind \in Runtime => op[q].dep \in JobsOf(op[q].project)'
             /\ op[q].apps \subseteq JobsOf(op[q].project)'
  <2>1. op[q].project \in Projects
    BY <1>6 DEF HandlersSound, TypeOK
  <2> QED
    BY <1>2, <1>4, <1>6, <2>1 DEF HandlersSound
<1> QED
  BY <1>3, <1>5, <1>6 DEF HandlersSound

\* Every step keeps the tables, the stranded jobs and the handlers' records in order.
LEMMA NextOpBase == OpBase /\ [OpNext]_opVars => OpBase'
<1> SUFFICES ASSUME OpBase, [OpNext]_opVars PROVE OpBase'
  OBVIOUS
<1> USE DEF OpBase
<1>1. OpSteps
  BY OpNextSteps
<1>2. ASSUME NEW o \in Ops, HandlerStep(o) PROVE OpBase'
  <2>1. TableInv' /\ StrandedOnlyByFaults'
    BY <1>2, HandlerKeepsTables
  <2>2. UNCHANGED <<jobProject, jobStatus, known>>
    BY <1>2, TablesWritten DEF TableInv
  <2>3. RowsBelong'
    BY <2>2 DEF RowsBelong
  <2>4. OpTypeOK' /\ HandlersSound'
    BY <1>2, StepSound DEF TableInv
  <2> QED
    BY <2>1, <2>3, <2>4
<1>3. ASSUME UNCHANGED vars PROVE TableInv' /\ StrandedOnlyByFaults' /\ RowsBelong'
  <2>1. [Next]_vars
    BY <1>3
  <2>2. TableInv'
    BY <2>1, NextTableInv DEF Kept
  <2> QED
    BY <2>1, <2>2, NextStranded, RowsGrow DEF TableInv
<1>4. ASSUME NEW o \in Ops, Begins(o) PROVE OpBase'
  BY <1>3, <1>4, BeginsSound DEF TableInv
<1>5. CASE (Handlers \/ Worker \/ Startup) /\ UNCHANGED op
  <2>1. [Next]_vars
    BY <1>5 DEF Next
  <2>2. TableInv'
    BY <2>1, NextTableInv DEF Kept
  <2>3. StrandedOnlyByFaults' /\ RowsBelong'
    BY <2>1, <2>2, NextStranded, RowsGrow DEF TableInv
  <2>4. OpTypeOK' /\ HandlersSound'
    BY <1>5, PipelineSound DEF TableInv
  <2> QED
    BY <2>2, <2>3, <2>4
<1>6. CASE Crash /\ op' = [o \in Ops |-> NoOp]
  <2>1. [Next]_vars
    BY <1>6 DEF Next
  <2>2. TableInv'
    BY <2>1, NextTableInv DEF Kept
  <2>3. StrandedOnlyByFaults' /\ RowsBelong'
    BY <2>1, <2>2, NextStranded, RowsGrow DEF TableInv
  <2>4. OpTypeOK' /\ HandlersSound'
    BY <1>6 DEF OpTypeOK, HandlersSound, NoOp, JobOrNone
  <2> QED
    BY <2>2, <2>3, <2>4
<1>7. CASE UNCHANGED vars /\ UNCHANGED op
  <2>1. OpTypeOK' /\ HandlersSound'
    BY <1>7, PipelineSound DEF TableInv
  <2> QED
    BY <1>3, <1>7, <2>1
<1> QED
  BY <1>1, <1>2, <1>4, <1>5, <1>6, <1>7 DEF OpSteps

\* A new database, an idle process and no handler.
LEMMA InitOpBase == OpInit => OpBase
<1> SUFFICES ASSUME OpInit PROVE OpBase
  OBVIOUS
<1>1. TableInv
  BY InitPipelineInv DEF OpInit, PipelineInv
<1>2. StrandedOnlyByFaults /\ RowsBelong
  BY DEF OpInit, Init, StrandedOnlyByFaults, Serving, RowsBelong
<1>3. OpTypeOK /\ HandlersSound
  BY DEF OpInit, OpTypeOK, HandlersSound, NoOp, JobOrNone
<1> QED
  BY <1>1, <1>2, <1>3 DEF OpBase

\* Beside handlers of every kind the tables keep what Deployments promises: the invariant
\* of the tables holds in every reachable state.
THEOREM OpBaseInvariant == OpSpec => []OpBase
BY InitOpBase, NextOpBase, PTL DEF OpSpec

\* One deployment succeeded per project, it is the current one, and a job is stranded
\* only by a refused update.
THEOREM TablesAlwaysKept == OpSpec => []TablesKept
BY OpBaseInvariant, PTL DEF OpBase, TableInv, TablesKept

-----------------------------------------------------------------------------
(* The start-up sequence repairs what handlers left.  A project without a   *)
(* row needs no repair; the others are visited phase by phase.              *)

DerivedFor(p) == status[p] = DerivedStatus(p, jobProject, jobStatus, current[p], status[p])
RouteFine(p) == route[p] \in {None, current[p]}

UnknownIdle ==
  \A p \in Projects \ known : status[p] = "idle" /\ route[p] = None /\ current[p] = None

PhasesDone ==
  /\ brain = "status" => \A p \in Projects \ todo : DerivedFor(p)
  /\ brain \in {"ingress", "recover"} => \A p \in Projects : DerivedFor(p)
  /\ refused = 0 /\ brain = "ingress" => \A p \in Projects \ todo : RouteFine(p)
  /\ refused = 0 /\ brain = "recover" => \A p \in Projects : RouteFine(p)

\* A project without a row shows the status it would be given, and no route.
LEMMA UnknownFine ==
  ASSUME RowsBelong, UnknownIdle, NEW p \in Projects \ known
  PROVE  DerivedFor(p) /\ RouteFine(p)
<1>1. status[p] = "idle" /\ route[p] = None /\ current[p] = None
  BY DEF UnknownIdle
<1>2. \A j \in Jobs : jobProject[j] # p
  BY NoneAssumption DEF RowsBelong
<1>3. DerivedStatus(p, jobProject, jobStatus, current[p], status[p]) = "idle"
  BY <1>1, <1>2 DEF DerivedStatus
<1> QED
  BY <1>1, <1>3 DEF DerivedFor, RouteFine

\* A step of the pipeline writes the projects table and the routes of known projects only,
\* but for what start-up writes from a row that is not there.
LEMMA NextUnknownIdle ==
  ASSUME TableInv, RowsBelong, UnknownIdle, [Next]_vars
  PROVE  UnknownIdle'
<1> USE DEF TableInv
<1>1. known \subseteq known'
  BY RowsGrow
<1>2. \A j \in Jobs : jobStatus[j] # "none" => jobProject[j] \in known
  BY DEF RowsBelong
<1>3. ASSUME NEW p \in Projects, p \in known \/ p \in known',
             \A q \in Projects \ {p} : /\ status'[q] = status[q] /\ route'[q] = route[q]
                                      /\ current'[q] = current[q]
      PROVE  UnknownIdle'
  BY <1>1, <1>3 DEF UnknownIdle
<1>4. ASSUME UNCHANGED <<status, route, current>> PROVE UnknownIdle'
  BY <1>1, <1>4 DEF UnknownIdle
<1>5. ASSUME NEW p \in Projects, NEW j \in Jobs, CreateJob(p, j) PROVE UnknownIdle'
  <2>1. p \in known' /\ \A q \in Projects \ {p} : /\ status'[q] = status[q]
                                                 /\ route'[q] = route[q]
                                                 /\ current'[q] = current[q]
    BY <1>5 DEF CreateJob, SyncStatus, world, TypeOK
  <2> QED
    BY <1>3, <2>1
<1>6. worker.pc # "idle" => jobProject[worker.job] \in known /\ jobProject[worker.job] \in Projects
  BY <1>2 DEF TypeOK
<1>7. CASE Promote
  <2>1. \A q \in Projects \ {jobProject[worker.job]} :
          /\ status'[q] = status[q] /\ route'[q] = route[q] /\ current'[q] = current[q]
    BY <1>7 DEF Promote, SyncStatus, world, TypeOK
  <2> QED
    BY <1>3, <1>6, <1>7, <2>1 DEF Promote, WorkerAt
<1>8. CASE FailJob
  <2>1. \A q \in Projects \ {jobProject[worker.job]} :
          /\ status'[q] = status[q] /\ route'[q] = route[q] /\ current'[q] = current[q]
    BY <1>8 DEF FailJob, SyncStatus, world, TypeOK
  <2> QED
    BY <1>3, <1>6, <1>8, <2>1 DEF FailJob, WorkerAt
<1>9. CASE WriteRoute
  <2>1. \A q \in Projects \ {jobProject[worker.job]} :
          /\ status'[q] = status[q] /\ route'[q] = route[q] /\ current'[q] = current[q]
    BY <1>9 DEF WriteRoute, tables, TypeOK
  <2> QED
    BY <1>3, <1>6, <1>9, <2>1 DEF WriteRoute, WorkerAt
<1>10. ASSUME NEW p \in Projects, ReconcileProject(p) PROVE UnknownIdle'
  <2>1. CASE UNCHANGED tables
    BY <1>4, <1>10, <2>1 DEF ReconcileProject, tables
  <2>2. ASSUME NEW k \in Keepers(p), Adopt(p, k) PROVE UnknownIdle'
    <3>1. p \in known
      BY <1>2, <2>2, AdoptType DEF ClaimedFirst, JobsOf
    <3>2. \A q \in Projects \ {p} : /\ status'[q] = status[q] /\ route'[q] = route[q]
                                   /\ current'[q] = current[q]
      BY <1>10, <2>2 DEF ReconcileProject, Adopt, SyncStatus, TypeOK
    <3> QED
      BY <1>3, <3>1, <3>2
  <2> QED
    BY <1>10, <2>1, <2>2 DEF ReconcileProject, tables
<1>11. ASSUME NEW p \in Projects, ReconcileStatus(p) PROVE UnknownIdle'
  <2>1. /\ \A q \in Projects \ {p} : status'[q] = status[q]
        /\ status'[p] = DerivedStatus(p, jobProject, jobStatus, current[p], status[p])
        /\ UNCHANGED <<route, current, known>>
    BY <1>11 DEF ReconcileStatus, SyncStatus, world, TypeOK
  <2>2. p \notin known => status'[p] = status[p]
    BY <2>1, UnknownFine DEF DerivedFor
  <2> QED
    BY <2>1, <2>2 DEF UnknownIdle
<1>12. ASSUME NEW p \in Projects, SyncIngress(p) PROVE UnknownIdle'
  <2>1. /\ \A q \in Projects \ {p} : route'[q] = route[q]
        /\ route'[p] \in {None, current[p], route[p]}
        /\ UNCHANGED <<status, current, known>>
    BY <1>12 DEF SyncIngress, RouteTargets, tables, TypeOK
  <2> QED
    BY <2>1 DEF UnknownIdle
<1>13. ASSUME NEW j \in Jobs, RecoverJob(j) PROVE UnknownIdle'
  <2>1. jobProject[j] \in known /\ jobProject[j] \in Projects
    BY <1>2, <1>13 DEF RecoverJob, TypeOK
  <2>2. \A q \in Projects \ {jobProject[j]} :
          /\ status'[q] = status[q] /\ route'[q] = route[q] /\ current'[q] = current[q]
    BY <1>13 DEF RecoverJob, SyncStatus, world, TypeOK
  <2> QED
    BY <1>3, <2>1, <2>2
<1>14. CASE \/ \E j \in Jobs : Enqueue(j) \/ EnqueueBacklog(j)
            \/ Boot \/ FinishPhase \/ StartWorker \/ Listen \/ Crash \/ UNCHANGED vars
  BY <1>4, <1>14 DEF Enqueue, EnqueueBacklog, Boot, FinishPhase, StartWorker, Listen, Crash,
     vars, tables, world
<1>15. CASE Worker /\ ~ (Promote \/ FailJob \/ WriteRoute)
  BY <1>4, <1>15 DEF Worker, Claim, ClaimFault, Build, StartApp, WaitReady, LoadCurrent,
     RemoveOld, PromoteRollback, FailJobFault, ResolveRoute, WriteRouteFault, tables, world
<1> QED
  BY <1>5, <1>7, <1>8, <1>9, <1>10, <1>11, <1>12, <1>13, <1>14, <1>15
     DEF Next, Handlers, Startup

\* Each phase has repaired the projects it has visited.
LEMMA NextPhasesDone ==
  ASSUME TableInv, TypeOK', RowsBelong, UnknownIdle, PhasesDone, [Next]_vars
  PROVE  PhasesDone'
<1> USE DEF TableInv
<1>1. refused \in Nat /\ refused' \in Nat
  BY BoundsAssumption DEF TypeOK
<1>2. ASSUME brain' \notin {"status", "ingress", "recover"} PROVE PhasesDone'
  BY <1>2 DEF PhasesDone
<1>3. CASE Handlers \/ Worker \/ Crash
  <2>1. brain' \notin {"status", "ingress", "recover"}
    BY <1>3 DEF Handlers, CreateJob, Enqueue, Worker, Claim, ClaimFault, Build, StartApp,
       WaitReady, LoadCurrent, RemoveOld, Promote, PromoteRollback, FailJob, FailJobFault,
       ResolveRoute, WriteRoute, WriteRouteFault, WorkerAt, Serving, Crash, boot
  <2> QED
    BY <1>2, <2>1
<1>4. CASE \/ Boot \/ StartWorker \/ Listen \/ \E j \in Jobs : EnqueueBacklog(j)
           \/ \E p \in Projects : ReconcileProject(p)
  <2>1. brain' \notin {"status", "ingress", "recover"}
    BY <1>4 DEF Boot, StartWorker, Listen, EnqueueBacklog, ReconcileProject, boot
  <2> QED
    BY <1>2, <2>1
<1>5. CASE FinishPhase
  <2>1. /\ todo = {} /\ UNCHANGED <<tables, route, refused>>
        /\ \/ brain = "reconcile" /\ brain' = "status" /\ todo' = known
           \/ brain = "status" /\ brain' = "ingress" /\ todo' = known
           \/ brain = "ingress" /\ brain' = "recover"
    BY <1>5 DEF FinishPhase, NextPhase, world, faults
  <2>2. \A p \in Projects : DerivedFor(p)' <=> DerivedFor(p)
    BY <2>1 DEF DerivedFor, tables
  <2>3. \A p \in Projects : RouteFine(p)' <=> RouteFine(p)
    BY <2>1 DEF RouteFine, tables
  <2>4. \A p \in Projects \ known : DerivedFor(p) /\ RouteFine(p)
    BY UnknownFine
  <2> QED
    BY <2>1, <2>2, <2>3, <2>4 DEF PhasesDone
<1>6. ASSUME NEW p \in Projects, ReconcileStatus(p) PROVE PhasesDone'
  <2>1. /\ brain = "status" /\ brain' = "status" /\ todo' = todo \ {p}
        /\ UNCHANGED <<jobProject, jobStatus, current>>
        /\ status'[p] = DerivedStatus(p, jobProject, jobStatus, current[p], status[p])
        /\ \A q \in Projects \ {p} : status'[q] = status[q]
    BY <1>6 DEF ReconcileStatus, SyncStatus, TypeOK
  <2>2. status'[p] = DerivedStatus(p, jobProject, jobStatus, current[p], status'[p])
    BY <2>1, DerivedTwice
  <2>3. DerivedFor(p)'
    BY <2>1, <2>2 DEF DerivedFor
  <2>4. \A q \in Projects \ {p} : DerivedFor(q) => DerivedFor(q)'
    BY <2>1 DEF DerivedFor
  <2> QED
    BY <2>1, <2>3, <2>4 DEF PhasesDone
<1>7. ASSUME NEW p \in Projects, SyncIngress(p) PROVE PhasesDone'
  <2>1. /\ brain = "ingress" /\ brain' = "ingress" /\ todo' = todo \ {p}
        /\ UNCHANGED tables
        /\ refused' = 0 => refused = 0 /\ route'[p] \in {None, current[p]}
        /\ \A q \in Projects \ {p} : route'[q] = route[q]
    BY <1>1, <1>7 DEF SyncIngress, RouteTargets, TypeOK
  <2>2. \A q \in Projects : DerivedFor(q)' <=> DerivedFor(q)
    BY <2>1 DEF DerivedFor, tables
  <2>3. refused' = 0 => RouteFine(p)' /\ \A q \in Projects \ {p} : RouteFine(q)' <=> RouteFine(q)
    BY <2>1 DEF RouteFine, tables
  <2> QED
    BY <2>1, <2>2, <2>3 DEF PhasesDone
<1>8. ASSUME NEW j \in Jobs, RecoverJob(j) PROVE PhasesDone'
  <2> DEFINE p == jobProject[j]
  <2>1. /\ p \in Projects /\ SyncStatus(p) /\ brain = "recover" /\ brain' = "recover"
        /\ jobStatus' = [jobStatus EXCEPT ![j] = "failed"]
        /\ UNCHANGED <<jobProject, current, route, refused>>
    BY <1>8 DEF RecoverJob, world, boot, faults, TypeOK
  <2>2. StatusIsDerived
    BY <2>1 DEF PhasesDone, DerivedFor, StatusIsDerived
  <2>3. StatusIsDerived'
    BY <2>1, <2>2, SyncDerived DEF TypeOK
  <2>4. \A q \in Projects : RouteFine(q)' <=> RouteFine(q)
    BY <2>1 DEF RouteFine
  <2>5. \A q \in Projects : DerivedFor(q)'
    BY <2>3 DEF StatusIsDerived, DerivedFor
  <2> QED
    BY <2>1, <2>4, <2>5 DEF PhasesDone
<1>9. CASE UNCHANGED vars
  BY <1>9 DEF vars, tables, world, boot, faults, PhasesDone, DerivedFor, RouteFine
<1> QED
  BY <1>3, <1>4, <1>5, <1>6, <1>7, <1>8, <1>9 DEF Next, Startup

\* Handlers run only while Brain is up, and on projects that have a row.
LEMMA NextRepair ==
  ASSUME OpBase, TypeOK', UnknownIdle, PhasesDone, [OpNext]_opVars
  PROVE  UnknownIdle' /\ PhasesDone'
<1> USE DEF OpBase, TableInv
<1>1. OpSteps
  BY OpNextSteps
<1>2. ASSUME NEW o \in Ops, HandlerStep(o) PROVE UnknownIdle' /\ PhasesDone'
  <2> DEFINE p == op[o].project
  <2>1. p \in known /\ p \in Projects /\ brain = "up"
    BY <1>2, RecordKept, Running
  <2>2. UNCHANGED <<known, boot>>
    BY <1>2, TablesWritten
  <2>3. \A q \in Projects \ {p} : /\ status'[q] = status[q] /\ route'[q] = route[q]
                                 /\ current'[q] = current[q]
    BY <1>2, <2>1, TablesWritten, ContainersWritten DEF Cleared, TypeOK
  <2> QED
    BY <2>1, <2>2, <2>3 DEF UnknownIdle, PhasesDone, boot
<1>3. ASSUME [Next]_vars PROVE UnknownIdle' /\ PhasesDone'
  BY <1>3, NextUnknownIdle, NextPhasesDone
<1>4. ASSUME NEW o \in Ops, Begins(o) PROVE UNCHANGED vars
  BY <1>4, BeginsSound
<1> QED
  BY <1>1, <1>2, <1>3, <1>4 DEF OpSteps, Next

\* Whatever the handlers and a crash left, start-up has repaired the status and the route
\* of every project when it recovers jobs.
THEOREM StartupAlwaysRepairs == OpSpec => []StartupRepairs
<1> DEFINE Inv == UnknownIdle /\ PhasesDone
<1>1. OpInit => Inv
  BY DEF OpInit, Init, UnknownIdle, PhasesDone
<1>2. OpBase /\ OpBase' /\ Inv /\ [OpNext]_opVars => Inv'
  BY NextRepair DEF OpBase, TableInv
<1>3. Inv => StartupRepairs
  BY DEF PhasesDone, StartupRepairs, DerivedFor, RouteFine
<1> QED
  BY <1>1, <1>2, <1>3, OpBaseInvariant, PTL DEF OpSpec

-----------------------------------------------------------------------------
(* What a project that nothing muddled relies on, half way through whatever *)
(* runs for it.                                                             *)

\* The worker processes a job of p; a handler of p is about to make a call.
AtWork(p)  == worker.pc # "idle" /\ jobProject[worker.job] = p
HandlersOf(p) == {o \in Ops : op[o].project = p}
NextCall(o) == Head(op[o].left)

\* The worker still replaces what is current, with an app that runs.
WorkerSide(p) ==
  AtWork(p) =>
    /\ worker.pc \in {"removeOld", "promote"} => worker.old = current[p]
    /\ worker.pc \in {"load", "removeOld", "promote"} => app[worker.job] = "running"
    /\ worker.pc = "write" => worker.target \in {None, current[p]}

\* A handler still acts on what is current, and its calls had the effect they should.
HandlerSide(p) ==
  \A o \in HandlersOf(p) :
    /\ op[o].kind \in Runtime => op[o].dep = current[p] /\ current[p] # None
    /\ op[o].kind = "stop" /\ NextCall(o) # "stopApp" => app[current[p]] # "running"
    /\ NextCall(o) = "wait" => app[current[p]] = "running"
    /\ NextCall(o) = "write" => op[o].target \in {None, current[p]}
    /\ op[o].kind = "remove" /\ NextCall(o) = "clear" => route[p] = None
    /\ op[o].kind = "cleanup" /\ NextCall(o) = "unroute" => current[p] = None

\* The current deployment has an app, unless it is being replaced or removed.
AppSide(p) ==
  \/ current[p] = None \/ app[current[p]] # "absent"
  \/ AtWork(p) /\ worker.pc = "promote"
  \/ \E o \in HandlersOf(p) : op[o].kind \in {"remove", "cleanup"}

\* A stopped project has no running app, unless it is being started.
StoppedSide(p) ==
  \/ status[p] # "stopped" \/ current[p] = None \/ app[current[p]] # "running"
  \/ \E o \in HandlersOf(p) : /\ op[o].kind \in {"start", "restart"}
                           /\ NextCall(o) \in {"wait", "resolve", "write", "setStatus"}

\* The route is the current deployment's, unless it is about to be written.
RouteSide(p) ==
  \/ RouteFine(p)
  \/ AtWork(p) /\ worker.pc \in {"resolve", "write"}
  \/ \E o \in HandlersOf(p) : op[o].kind = "cleanup" /\ NextCall(o) = "unroute"

Settled(p) ==
  /\ DerivedFor(p)
  /\ WorkerSide(p) /\ HandlerSide(p)
  /\ AppSide(p) /\ StoppedSide(p) /\ RouteSide(p)

\* An overlap muddles its project and a crash muddles them all; the others are settled.
SettledInv ==
  /\ crashes > 0 => muddled = Projects
  /\ FirstStart
  /\ Contested \subseteq muddled
  /\ refused = 0 => \A p \in Projects \ muddled : Settled(p)

\* A step that touches nothing p relies on leaves it settled.
LEMMA SettledFrame ==
  ASSUME TypeOK, SoleSucceededDeployment, HandlersSound, NEW p \in Projects, Settled(p),
         status'[p] = status[p], current'[p] = current[p], route'[p] = route[p],
         \A j \in Jobs : jobProject'[j] = p <=> jobProject[j] = p,
         \A j \in JobsOf(p) : /\ app'[j] = app[j]
                              /\ jobStatus'[j] \in Active <=> jobStatus[j] \in Active
                              /\ jobStatus'[j] = "failed" <=> jobStatus[j] = "failed",
         worker' = worker \/ (~ AtWork(p) /\ ~ AtWork(p)'),
         HandlersOf(p)' = HandlersOf(p), \A o \in HandlersOf(p) : op'[o] = op[o]
  PROVE  Settled(p)'
<1>1. DerivedStatus(p, jobProject', jobStatus', current[p], status[p])
        = DerivedStatus(p, jobProject, jobStatus, current[p], status[p])
  BY DerivedSame DEF JobsOf
<1>2. DerivedFor(p)'
  BY <1>1 DEF Settled, DerivedFor
<1>3. AtWork(p) => worker.job \in JobsOf(p)
  BY DEF AtWork, JobsOf, TypeOK
<1>4. AtWork(p)' <=> AtWork(p)
  BY <1>3 DEF AtWork, JobsOf, TypeOK
<1>5. AtWork(p) => worker' = worker /\ app'[worker.job] = app[worker.job]
  BY <1>3
<1>6. current[p] # None => app'[current[p]] = app[current[p]]
  BY DEF SoleSucceededDeployment
<1>7. WorkerSide(p)'
  BY <1>4, <1>5 DEF Settled, WorkerSide
<1>8. HandlerSide(p)'
  <2>1. ASSUME NEW o \in HandlersOf(p)
        PROVE  /\ op[o].kind \in Runtime => op[o].dep = current[p] /\ current[p] # None
               /\ op[o].kind = "stop" /\ NextCall(o) # "stopApp" => app'[current[p]] # "running"
               /\ NextCall(o) = "wait" => app'[current[p]] = "running"
               /\ NextCall(o) = "write" => op[o].target \in {None, current[p]}
               /\ op[o].kind = "remove" /\ NextCall(o) = "clear" => route[p] = None
               /\ op[o].kind = "cleanup" /\ NextCall(o) = "unroute" => current[p] = None
    <3>1. op[o].kind \in DOMAIN Calls /\ op[o].left \in Remaining[op[o].kind]
      BY NoneAssumption DEF HandlersOf, HandlersSound, NoOp
    <3>2. NextCall(o) = "wait" => op[o].kind \in Runtime
      BY <3>1, CallsOfKinds DEF NextCall
    <3> QED
      BY <1>6, <3>2 DEF Settled, HandlerSide, Runtime
  <2> QED
    BY <2>1 DEF HandlerSide, NextCall
<1>9. AppSide(p)'
  BY <1>4, <1>5, <1>6 DEF Settled, AppSide
<1>10. StoppedSide(p)'
  BY <1>6 DEF Settled, StoppedSide, NextCall
<1>11. RouteSide(p)'
  BY <1>4, <1>5 DEF Settled, RouteSide, RouteFine, NextCall
<1> QED
  BY <1>2, <1>7, <1>8, <1>9, <1>10, <1>11 DEF Settled

\* What comes after a call, in every operation.
LEMMA CallsInOrder ==
  ASSUME NEW k \in DOMAIN Calls, NEW a, NEW b
  PROVE  /\ <<a, b>> \in After[k] =>
              /\ a = "stopApp" => b = "unroute" /\ k \in {"stop", "restart"}
              /\ a \in {"startApp", "wait", "resolve", "write"} => k \in {"start", "restart"}
              /\ a = "startApp" => b = "wait"
              /\ a = "wait" => b = "resolve"
              /\ a = "resolve" => b = "write"
              /\ a = "write" => b = "setStatus"
              /\ a = "removeApps" => b = IF k = "remove" THEN "unroute" ELSE "clear"
              /\ a = "unroute" => \/ k = "stop" /\ b = "setStatus"
                                  \/ k = "restart" /\ b = "startApp"
                                  \/ k = "remove" /\ b = "clear"
              /\ a = "clear" => k = "cleanup" /\ b = "unroute"
              /\ a # "setStatus"
         /\ a \in Last[k] => \/ a = "setStatus" /\ k \in Runtime
                             \/ a = "unroute" /\ k \in {"start", "restart", "cleanup"}
                             \/ a = "clear" /\ k = "remove"
<1>1. k \in {"stop", "start", "restart", "remove", "cleanup"}
  BY DEF Calls
<1>2. CASE k = "stop"
  BY <1>2 DEF After, Last, Runtime
<1>3. CASE k = "start"
  BY <1>3 DEF After, Last, Runtime, Starting
<1>4. CASE k = "restart"
  BY <1>4 DEF After, Last, Runtime, Starting
<1>5. CASE k = "remove"
  BY <1>5 DEF After, Last, Runtime
<1>6. CASE k = "cleanup"
  BY <1>6 DEF After, Last, Runtime
<1> QED
  BY <1>1, <1>2, <1>3, <1>4, <1>5, <1>6

\* A project a handler has to itself: what Settled says of it then.
HandledAlone(p, o) ==
  /\ DerivedFor(p)
  /\ op[o] # NoOp => /\ op[o].project = p
                     /\ op[o].kind \in Runtime => op[o].dep = current[p] /\ current[p] # None
                     /\ op[o].kind = "stop" /\ NextCall(o) # "stopApp" =>
                          app[current[p]] # "running"
                     /\ NextCall(o) = "wait" => app[current[p]] = "running"
                     /\ NextCall(o) = "write" => op[o].target \in {None, current[p]}
                     /\ op[o].kind = "remove" /\ NextCall(o) = "clear" => route[p] = None
                     /\ op[o].kind = "cleanup" /\ NextCall(o) = "unroute" => current[p] = None
  /\ \/ current[p] = None \/ app[current[p]] # "absent"
     \/ op[o] # NoOp /\ op[o].kind \in {"remove", "cleanup"}
  /\ \/ status[p] # "stopped" \/ current[p] = None \/ app[current[p]] # "running"
     \/ /\ op[o] # NoOp /\ op[o].kind \in {"start", "restart"}
        /\ NextCall(o) \in {"wait", "resolve", "write", "setStatus"}
  /\ RouteFine(p) \/ (op[o] # NoOp /\ op[o].kind = "cleanup" /\ NextCall(o) = "unroute")

\* Settled and HandledAlone agree before a step and after it.
LEMMA SettledAlone ==
  ASSUME NEW p \in Projects, NEW o \in Ops
  PROVE  /\ ~ AtWork(p) /\ HandlersOf(p) = (IF op[o] = NoOp THEN {} ELSE {o})
              => (Settled(p) <=> HandledAlone(p, o))
         /\ ~ AtWork(p)' /\ HandlersOf(p)' = (IF op'[o] = NoOp THEN {} ELSE {o})
              => (Settled(p)' <=> HandledAlone(p, o)')
<1>1. ASSUME ~ AtWork(p), HandlersOf(p) = (IF op[o] = NoOp THEN {} ELSE {o})
      PROVE  Settled(p) <=> HandledAlone(p, o)
  <2>1. op[o] # NoOp => op[o].project = p
    BY <1>1 DEF HandlersOf
  <2> QED
    BY <1>1, <2>1 DEF Settled, HandledAlone, WorkerSide, HandlerSide, AppSide, StoppedSide,
       RouteSide
<1>2. ASSUME ~ AtWork(p)', HandlersOf(p)' = (IF op'[o] = NoOp THEN {} ELSE {o})
      PROVE  Settled(p)' <=> HandledAlone(p, o)'
  <2>1. op'[o] # NoOp => op'[o].project = p
    BY <1>2 DEF HandlersOf
  <2> QED
    BY <1>2, <2>1 DEF Settled, HandledAlone, WorkerSide, HandlerSide, AppSide, StoppedSide,
       RouteSide
<1> QED
  BY <1>1, <1>2

\* A handler that has its project to itself leaves it settled after every call.
LEMMA SettledByHandler ==
  ASSUME OpBase, NEW o \in Ops, HandlerCall(o),
         NEW p \in Projects, op[o].project = p, Settled(p),
         p \notin Contested, p \notin Contested'
  PROVE  Settled(p)'
<1> DEFINE k == op[o].kind
           c == current[p]
           n == NextCall(o)
<1>0. HandlerStep(o)
  BY DEF HandlerStep
<1>1. /\ op[o] # NoOp /\ op[o].left # <<>> /\ k \in DOMAIN Calls /\ p \in Projects
      /\ op[o].left \in Remaining[k] /\ op[o].apps \subseteq JobsOf(p)
      /\ OnlyOp(o)
  BY <1>0, RecordKept, Running DEF OpBase, TableInv
<1>2. HandlersOf(p) = {o} /\ ~ JobUnderWay(p) /\ ~ GaveUp(o)
  BY <1>1 DEF Contested, HandlersOf
<1>3. UNCHANGED <<jobProject, jobStatus, worker>>
  BY <1>0, TablesWritten DEF OpBase, TableInv
<1>4. ~ AtWork(p) /\ ~ AtWork(p)'
  BY <1>2, <1>3 DEF JobUnderWay, AtWork
<1>5. \A j \in JobsOf(p) : jobStatus[j] \notin Active
  BY <1>2 DEF JobUnderWay
<1>6. /\ op'[o] = NoOp \/ (op'[o] # NoOp /\ SameHandler(o))
      /\ HandlersOf(p)' = (IF op'[o] = NoOp THEN {} ELSE {o})
  <2>1. op'[o] = NoOp \/ (op'[o] # NoOp /\ SameHandler(o))
    BY <1>0, RecordKept DEF OpBase, TableInv
  <2>2. \A q \in Ops \ {o} : op'[q].project # p
    BY <1>1, <1>2 DEF HandlersOf, OnlyOp
  <2>3. op'[o].project = p <=> op'[o] # NoOp
    BY <2>1, NoneAssumption DEF SameHandler, NoOp
  <2> QED
    BY <2>1, <2>2, <2>3 DEF HandlersOf
<1>7. HandledAlone(p, o)
  BY <1>1, <1>2, <1>4, SettledAlone
<1>8. SUFFICES HandledAlone(p, o)'
  <2>1. HandledAlone(p, o)' => Settled(p)'
    BY <1>1, <1>4, <1>6, SettledAlone
  <2> QED
    BY <2>1
<1>9. /\ n \in {"stopApp", "startApp", "wait", "resolve", "write", "setStatus"} =>
           k \in Runtime /\ op[o].dep = c /\ c # None /\ c \in JobsOf(p)
      /\ n \in {"removeApps", "clear"} => k \in {"remove", "cleanup"}
      /\ n \in Call
  <2>1. c # None => c \in JobsOf(p)
    BY DEF OpBase, TableInv, SoleSucceededDeployment
  <2> QED
    BY <1>1, <1>7, <2>1, CallsOfKinds, Points DEF HandledAlone, NextCall, Point
<1>10. /\ UNCHANGED status \/ SetStatus(o) \/ ClearState(o)
       /\ UNCHANGED current \/ ClearState(o)
       /\ current'[p] \in {c, None}
  <2>1. UNCHANGED <<deployment, current>> \/ (ClearState(o) /\ Cleared(p))
    BY <1>0, TablesWritten DEF OpBase, TableInv
  <2>2. current'[p] \in {c, None}
    BY <2>1 DEF Cleared, OpBase, TableInv, TypeOK
  <2>3. UNCHANGED status \/ SetStatus(o) \/ ClearState(o)
    BY DEF HandlerCall, StopProjectApp, StartProjectApp, WaitForApp, RemoveApp, AppsRemoved,
       Unroute, Resolve, Write, NotFound, OnlyApp, vars, tables
  <2> QED
    BY <2>1, <2>2, <2>3
<1>11. UNCHANGED <<status, current>> => DerivedFor(p)'
  BY <1>3, <1>7 DEF HandledAlone, DerivedFor
<1>12. ASSUME Advance(o)
       PROVE  \/ /\ op'[o] = NoOp
                 /\ \/ n = "setStatus" /\ k \in Runtime
                    \/ n = "unroute" /\ k = "cleanup"
                    \/ n = "clear" /\ k = "remove"
              \/ /\ op'[o] # NoOp /\ SameHandler(o) /\ op'[o].target = op[o].target
                 /\ <<n, NextCall(o)'>> \in After[k]
  <2>1. \/ op'[o] = NoOp /\ Len(op[o].left) = 1 /\ n \in Last[k]
        \/ /\ op'[o] # NoOp /\ SameHandler(o) /\ op'[o].target = op[o].target
           /\ <<n, NextCall(o)'>> \in After[k]
    BY <1>1, <1>12, Advanced DEF OpBase, NextCall
  <2>2. n = "unroute" /\ Len(op[o].left) = 1 /\ k # "cleanup" => k \notin {"start", "restart"}
    BY <1>1, <1>2, CallsOfKinds DEF GaveUp, NextCall
  <2>3. n \in Last[k] => \/ n = "setStatus" /\ k \in Runtime
                         \/ n = "unroute" /\ k \in {"start", "restart", "cleanup"}
                         \/ n = "clear" /\ k = "remove"
    BY <1>1, CallsInOrder
  <2> QED
    BY <2>1, <2>2, <2>3
<1>13. c # None => c \in Jobs
  BY <1>1 DEF OpBase, TableInv, SoleSucceededDeployment, JobsOf
<1>14. CASE StopProjectApp(o)
  <2>1. /\ n = "stopApp" /\ Advance(o) /\ app' = [app EXCEPT ![c] = "stopped"]
        /\ UNCHANGED <<status, current, route>> /\ c # None
    BY <1>9, <1>14 DEF StopProjectApp, At, OnlyApp, tables, NextCall
  <2>2. /\ op'[o] # NoOp /\ SameHandler(o) /\ NextCall(o)' = "unroute"
        /\ k \in {"stop", "restart"}
    BY <1>1, <1>12, <2>1, CallsInOrder
  <2>3. app'[c] = "stopped"
    BY <1>9, <2>1 DEF OpBase, TableInv, TypeOK, JobsOf
  <2> QED
    BY <1>7, <1>9, <1>11, <2>1, <2>2, <2>3 DEF HandledAlone, SameHandler, RouteFine
<1>15. CASE StartProjectApp(o)
  <2>1. /\ n = "startApp" /\ Advance(o) /\ app' = [app EXCEPT ![c] = "running"]
        /\ UNCHANGED <<status, current, route>> /\ c # None
    BY <1>9, <1>15 DEF StartProjectApp, At, OnlyApp, tables, NextCall
  <2>2. /\ op'[o] # NoOp /\ SameHandler(o) /\ NextCall(o)' = "wait"
        /\ k \in {"start", "restart"}
    BY <1>1, <1>12, <2>1, CallsInOrder
  <2>3. app'[c] = "running"
    BY <1>9, <2>1 DEF OpBase, TableInv, TypeOK, JobsOf
  <2> QED
    BY <1>7, <1>9, <1>11, <2>1, <2>2, <2>3 DEF HandledAlone, SameHandler, RouteFine
<1>16. CASE WaitForApp(o)
  <2>1. /\ n = "wait" /\ Advance(o) /\ app[c] = "running"
        /\ UNCHANGED <<status, current, route, app>> /\ c # None
    BY <1>9, <1>16 DEF WaitForApp, At, tables, NextCall
  <2>2. /\ op'[o] # NoOp /\ SameHandler(o) /\ NextCall(o)' = "resolve"
        /\ k \in {"start", "restart"}
    BY <1>1, <1>12, <2>1, CallsInOrder
  <2> QED
    BY <1>7, <1>9, <1>11, <2>1, <2>2 DEF HandledAlone, SameHandler, RouteFine
<1>17. ASSUME NEW j \in Jobs, RemoveApp(o, j) PROVE HandledAlone(p, o)'
  <2>1. /\ n = "removeApps" /\ k \in {"remove", "cleanup"}
        /\ UNCHANGED <<status, current, route>>
        /\ app' = [app EXCEPT ![j] = "absent"]
        /\ op' = [op EXCEPT ![o].apps = @ \ {j}]
    BY <1>9, <1>17 DEF RemoveApp, At, OnlyApp, tables, NextCall
  <2>2. op'[o] # NoOp /\ SameHandler(o) /\ NextCall(o)' = "removeApps"
    <3>1. op'[o].left = op[o].left
      BY <2>1 DEF OpBase, OpTypeOK
    <3>2. op'[o] # NoOp
      BY <1>1, <3>1 DEF NoOp
    <3> QED
      BY <1>6, <2>1, <3>1, <3>2 DEF NextCall
  <2>3. c # None => app'[c] \in {app[c], "absent"}
    BY <1>13, <2>1 DEF OpBase, TableInv, TypeOK, JobsOf, SoleSucceededDeployment
  <2> QED
    BY <1>7, <1>11, <2>1, <2>2, <2>3 DEF HandledAlone, SameHandler, RouteFine, Runtime
<1>18. CASE AppsRemoved(o)
  <2>1. /\ n = "removeApps" /\ k \in {"remove", "cleanup"} /\ Advance(o)
        /\ UNCHANGED <<status, current, route, app>>
    BY <1>9, <1>18 DEF AppsRemoved, At, vars, tables, world, NextCall
  <2>2. /\ op'[o] # NoOp /\ SameHandler(o)
        /\ NextCall(o)' = IF k = "remove" THEN "unroute" ELSE "clear"
    BY <1>1, <1>12, <2>1, CallsInOrder
  <2> QED
    BY <1>7, <1>11, <2>1, <2>2 DEF HandledAlone, SameHandler, RouteFine, Runtime
<1>19. CASE Unroute(o)
  <2>1. /\ n = "unroute" /\ Advance(o) /\ route'[p] = None
        /\ UNCHANGED <<status, current, app>>
    BY <1>19 DEF Unroute, At, tables, NextCall, OpBase, TableInv, TypeOK
  <2>2. \/ op'[o] = NoOp /\ k = "cleanup"
        \/ /\ op'[o] # NoOp /\ SameHandler(o)
           /\ \/ k = "stop" /\ NextCall(o)' = "setStatus"
              \/ k = "restart" /\ NextCall(o)' = "startApp"
              \/ k = "remove" /\ NextCall(o)' = "clear"
    BY <1>1, <1>12, <2>1, CallsInOrder
  <2>3. RouteFine(p)' /\ DerivedFor(p)'
    BY <1>11, <2>1 DEF RouteFine
  <2>4. CASE op'[o] = NoOp /\ k = "cleanup"
    BY <1>7, <2>1, <2>3, <2>4 DEF HandledAlone
  <2>5. CASE op'[o] # NoOp /\ SameHandler(o) /\ k = "stop" /\ NextCall(o)' = "setStatus"
    BY <1>7, <1>1, <2>1, <2>3, <2>5 DEF HandledAlone, SameHandler, Runtime
  <2>6. CASE op'[o] # NoOp /\ SameHandler(o) /\ k = "restart" /\ NextCall(o)' = "startApp"
    BY <1>7, <1>1, <2>1, <2>3, <2>6 DEF HandledAlone, SameHandler, Runtime
  <2>7. CASE op'[o] # NoOp /\ SameHandler(o) /\ k = "remove" /\ NextCall(o)' = "clear"
    BY <1>7, <1>1, <2>1, <2>3, <2>7 DEF HandledAlone, SameHandler, Runtime
  <2> QED
    BY <2>2, <2>4, <2>5, <2>6, <2>7
<1>20. CASE Write(o)
  <2>1. /\ n = "write" /\ Advance(o) /\ route'[p] \in {None, c}
        /\ UNCHANGED <<status, current, app>> /\ c # None
    BY <1>1, <1>7, <1>9, <1>20
       DEF Write, At, tables, NextCall, OpBase, TableInv, TypeOK, HandledAlone
  <2>2. /\ op'[o] # NoOp /\ SameHandler(o) /\ NextCall(o)' = "setStatus"
        /\ k \in {"start", "restart"}
    BY <1>1, <1>12, <2>1, CallsInOrder
  <2> QED
    BY <1>7, <1>9, <1>11, <2>1, <2>2 DEF HandledAlone, SameHandler, RouteFine, Runtime
<1>21. CASE Resolve(o)
  <2>1. PICK t \in RouteTargets(p) :
          op' = IF t = None /\ c # None
                THEN [op EXCEPT ![o].left = <<"unroute">>]
                ELSE [op EXCEPT ![o] = [Rest(o) EXCEPT !.target = t]]
    BY <1>21 DEF Resolve
  <2>2. /\ n = "resolve" /\ UNCHANGED <<status, current, app, route>> /\ t \in {None, c}
        /\ k \in {"start", "restart"}
    <3>1. n = "resolve" /\ UNCHANGED <<status, current, app, route>> /\ t \in {None, c}
      BY <1>21 DEF Resolve, At, vars, tables, world, NextCall, RouteTargets
    <3>2. k # "stop"
      BY <1>1, <3>1 DEF Remaining, Calls, NextCall
    <3> QED
      BY <1>9, <3>1, <3>2 DEF Runtime
  <2>3. op[o].left = <<"resolve", "write", "setStatus">>
    BY <1>1, <2>2 DEF Remaining, Calls, FromStart, NextCall
  <2>4. ~ (t = None /\ c # None)
    <3>1. ASSUME t = None, c # None PROVE FALSE
      <4>1. op'[o].left = <<"unroute">>
        BY <2>1, <3>1 DEF OpBase, OpTypeOK
      <4>2. GaveUp(o)' /\ op'[o].project = p
        BY <1>6, <2>2, <4>1 DEF GaveUp, SameHandler, NoOp
      <4> QED
        BY <4>2 DEF Contested
    <3> QED
      BY <3>1
  <2>5. op'[o].left = <<"write", "setStatus">> /\ op'[o].target = t
    <3> DEFINE l == Tail(op[o].left)
    <3>1. l = <<"write", "setStatus">> /\ Len(op[o].left) # 1
      BY <2>3
    <3>2. op' = [op EXCEPT ![o] = [[op[o] EXCEPT !.left = l] EXCEPT !.target = t]]
      BY <2>1, <2>4, <3>1 DEF Rest
    <3> HIDE DEF l
    <3>3. op'[o].left = l /\ op'[o].target = t
      BY <3>2 DEF OpBase, OpTypeOK
    <3> QED
      BY <3>1, <3>3
  <2>6. op'[o] # NoOp /\ SameHandler(o) /\ NextCall(o)' = "write"
    BY <1>6, <2>5 DEF NoOp, NextCall
  <2> QED
    BY <1>7, <1>9, <1>11, <2>2, <2>5, <2>6 DEF HandledAlone, SameHandler, RouteFine, Runtime
<1>22. CASE SetStatus(o)
  <2>1. /\ n = "setStatus" /\ Advance(o) /\ UNCHANGED <<current, app, route>>
        /\ status'[p] = IF k = "stop" THEN "stopped" ELSE "running"
        /\ c # None /\ k \in Runtime
    BY <1>9, <1>22 DEF SetStatus, At, world, NextCall, OpBase, TableInv, TypeOK
  <2>2. op'[o] = NoOp
    BY <1>1, <1>12, <2>1, CallsInOrder
  <2>3. DerivedFor(p)'
    <3>1. \A j \in {j \in Jobs : jobProject[j] = p} : jobStatus[j] \notin Active
      BY <1>5 DEF JobsOf
    <3>2. DerivedStatus(p, jobProject, jobStatus, c, status'[p])
            = IF status'[p] = "stopped" THEN "stopped" ELSE "running"
      BY <2>1, <3>1 DEF DerivedStatus
    <3> QED
      BY <1>3, <2>1, <3>2 DEF DerivedFor
  <2> QED
    <3>1. RouteFine(p)' /\ app'[c] # "absent" /\ (k = "stop" => app'[c] # "running")
      BY <1>1, <1>7, <2>1 DEF HandledAlone, RouteFine, Runtime
    <3> QED
      BY <2>1, <2>2, <2>3, <3>1 DEF HandledAlone
<1>23. CASE ClearState(o)
  <2>1. /\ n = "clear" /\ Advance(o) /\ UNCHANGED <<app, route>> /\ SyncStatus(p)
        /\ current'[p] = None /\ k \in {"remove", "cleanup"}
    BY <1>9, <1>23 DEF ClearState, At, world, NextCall, OpBase, TableInv, TypeOK
  <2>2. \/ op'[o] = NoOp /\ k = "remove"
        \/ op'[o] # NoOp /\ SameHandler(o) /\ k = "cleanup" /\ NextCall(o)' = "unroute"
    BY <1>1, <1>12, <2>1, CallsInOrder
  <2>3. DerivedFor(p)'
    BY <2>1, DerivedTwice DEF DerivedFor, SyncStatus, OpBase, TableInv, TypeOK
  <2>4. k = "remove" => RouteFine(p)'
    BY <1>1, <1>7, <2>1 DEF HandledAlone, RouteFine
  <2> QED
    BY <2>1, <2>2, <2>3, <2>4 DEF HandledAlone, SameHandler, Runtime
<1>24. ~ NotFound(o)
  <2>1. ASSUME NotFound(o), n \in {"stopApp", "startApp"} PROVE FALSE
    BY <1>7, <1>9, <2>1 DEF NotFound, At, NextCall, HandledAlone, Runtime
  <2>2. ASSUME NotFound(o), n = "wait" PROVE FALSE
    BY <1>1, <1>7, <1>9, <2>2 DEF NotFound, At, NextCall, HandledAlone
  <2> QED
    BY <2>1, <2>2 DEF NotFound, At, NextCall
<1> QED
  BY <1>14, <1>15, <1>16, <1>17, <1>18, <1>19, <1>20, <1>21, <1>22, <1>23, <1>24 DEF HandlerCall

\* A handler of another project, or the start of any handler.
LEMMA SettledByOthers ==
  ASSUME OpBase, NEW p \in Projects, Settled(p), p \notin Contested, p \notin Contested',
         NEW o \in Ops,
         (HandlerStep(o) /\ op[o].project # p) \/ Begins(o)
  PROVE  Settled(p)'
<1> USE DEF OpBase, TableInv
<1>1. CASE HandlerStep(o) /\ op[o].project # p
  <2>1. /\ OnlyOp(o) /\ (op'[o] = NoOp \/ op'[o].project = op[o].project)
    BY <1>1, RecordKept DEF SameHandler
  <2>2. /\ HandlersOf(p)' = HandlersOf(p) /\ \A q \in HandlersOf(p) : op'[q] = op[q]
    BY <1>1, <2>1, NoneAssumption DEF HandlersOf, OnlyOp, NoOp
  <2>3. /\ UNCHANGED <<jobProject, jobStatus, worker>>
        /\ status'[p] = status[p] /\ current'[p] = current[p] /\ route'[p] = route[p]
        /\ \A j \in JobsOf(p) : app'[j] = app[j]
    BY <1>1, TablesWritten, ContainersWritten DEF Cleared, JobsOf, TypeOK
  <2> QED
    BY <2>2, <2>3, SettledFrame DEF JobsOf
<1>2. ASSUME Begins(o), op'[o].project # p PROVE Settled(p)'
  <2>1. UNCHANGED vars /\ op[o] = NoOp /\ OnlyOp(o)
    BY <1>2, BeginsSound
  <2>2. /\ HandlersOf(p)' = HandlersOf(p) /\ \A q \in HandlersOf(p) : op'[q] = op[q]
    BY <1>2, <2>1, NoneAssumption DEF HandlersOf, OnlyOp, NoOp
  <2>3. UNCHANGED <<jobProject, jobStatus, worker, status, current, route, app>>
    BY <2>1 DEF vars, tables, world
  <2> QED
    BY <2>2, <2>3, SettledFrame
<1>3. ASSUME Begins(o), op'[o].project = p PROVE Settled(p)'
  <2>1. /\ UNCHANGED vars /\ op[o] = NoOp /\ OnlyOp(o) /\ op'[o].kind \in DOMAIN Calls
        /\ op'[o].left = Calls[op'[o].kind]
        /\ op'[o].kind \in Runtime => current[p] # None /\ op'[o].dep = current[p]
    BY <1>3, BeginsSound, KindsAssumption
  <2>2. UNCHANGED <<jobProject, jobStatus, worker, status, current, route, app>>
    BY <2>1 DEF vars, tables, world
  <2>3. /\ NextCall(o)' \in {"stopApp", "startApp", "removeApps"}
        /\ op'[o].kind = "stop" => NextCall(o)' = "stopApp"
    BY <2>1 DEF Calls, NextCall
  <2>4. op'[o] # NoOp
    BY <1>3, NoneAssumption DEF NoOp
  <2>5. ~ JobUnderWay(p)' /\ HandlersOf(p)' = {o}
    BY <1>3 DEF Contested, HandlersOf
  <2>6. ~ AtWork(p) /\ ~ AtWork(p)'
    BY <2>2, <2>5 DEF JobUnderWay, AtWork
  <2>7. HandlersOf(p) = {}
    BY <2>1, <2>5, NoneAssumption DEF HandlersOf, OnlyOp, NoOp
  <2>8. HandledAlone(p, o)
    BY <2>1, <2>6, <2>7, SettledAlone
  <2>9. HandledAlone(p, o)'
    <3>1. DerivedFor(p)' /\ RouteFine(p)'
      BY <2>1, <2>2, <2>8 DEF HandledAlone, DerivedFor, RouteFine
    <3> QED
      BY <1>3, <2>1, <2>2, <2>3, <2>4, <2>8, <3>1 DEF HandledAlone
  <2> QED
    BY <2>4, <2>5, <2>6, <2>9, SettledAlone
<1> QED
  BY <1>1, <1>2, <1>3

\* A deploy or run request: the project it is for is at once under way.
LEMMA SettledByRequests ==
  ASSUME OpBase, NEW p \in Projects, Settled(p), p \notin Contested, p \notin Contested',
         Handlers, UNCHANGED op
  PROVE  Settled(p)'
<1> USE DEF OpBase, TableInv
<1>1. HandlersOf(p)' = HandlersOf(p)
  BY DEF HandlersOf
<1>2. ASSUME NEW j \in Jobs, Enqueue(j) PROVE Settled(p)'
  <2>1. UNCHANGED <<jobProject, jobStatus, worker, status, current, route, app>>
    BY <1>2 DEF Enqueue, tables, world
  <2> QED
    BY <1>1, <2>1, SettledFrame
<1>3. ASSUME NEW q \in Projects, NEW j \in Jobs, CreateJob(q, j) PROVE Settled(p)'
  <2>1. /\ jobStatus[j] = "none" /\ jobProject[j] = None
        /\ jobProject' = [jobProject EXCEPT ![j] = q]
        /\ jobStatus' = [jobStatus EXCEPT ![j] = "queued"]
        /\ UNCHANGED <<worker, current, route, app>> /\ SyncStatus(q)
    BY <1>3 DEF CreateJob, world, RowsBelong
  <2>2. AtWork(p)' <=> AtWork(p)
    BY <2>1 DEF AtWork, TypeOK
  <2>3. CASE q # p
    <3>1. status'[p] = status[p] /\ \A i \in Jobs : jobProject'[i] = p <=> jobProject[i] = p
      BY <2>1, <2>3, NoneAssumption DEF SyncStatus, TypeOK
    <3>2. \A i \in JobsOf(p) : jobStatus'[i] = jobStatus[i]
      BY <2>1, NoneAssumption DEF JobsOf, TypeOK
    <3> QED
      BY <1>1, <2>1, <3>1, <3>2, SettledFrame
  <2>4. CASE q = p
    <3>1. jobProject'[j] = p /\ jobStatus'[j] \in Active
      BY <2>1, <2>4 DEF Active, TypeOK
    <3>2. JobUnderWay(p)'
      BY <3>1 DEF JobUnderWay, JobsOf
    <3>3. HandlersOf(p) = {} /\ HandlersOf(p)' = {}
      BY <1>1, <3>2 DEF Contested, HandlersOf
    <3>4. status'[p] = DerivedStatus(p, jobProject', jobStatus', current'[p], status[p])
      BY <2>1, <2>4 DEF SyncStatus, TypeOK
    <3>5. DerivedFor(p)'
      BY <3>4, DerivedTwice DEF DerivedFor
    <3>6. status'[p] = "deploying"
      BY <3>1, <3>4 DEF DerivedStatus
    <3> QED
      BY <2>1, <2>2, <3>3, <3>5, <3>6 DEF Settled, WorkerSide, HandlerSide, AppSide,
         StoppedSide, RouteSide, RouteFine
  <2> QED
    BY <2>3, <2>4
<1> QED
  BY <1>2, <1>3 DEF Handlers

\* Until the first crash the start-up meets no rows: it changes nothing of a project.
LEMMA SettledByStartup ==
  ASSUME OpBase, FirstStart, crashes = 0, refused' = 0, NEW p \in Projects, Settled(p),
         Startup, UNCHANGED op
  PROVE  Settled(p)'
<1> USE DEF OpBase, TableInv
<1>1. HandlersOf(p)' = HandlersOf(p)
  BY DEF HandlersOf
<1>2. ~ Serving => known = {} /\ \A j \in Jobs : jobStatus[j] = "none" /\ app[j] = "absent"
  BY DEF FirstStart, RowsBelong, ClaimedFirst
<1>3. ASSUME UNCHANGED <<jobProject, jobStatus, worker, current, app>>,
             status'[p] = status[p], route'[p] = route[p]
      PROVE  Settled(p)'
  BY <1>1, <1>3, SettledFrame
<1>4. CASE \/ Boot \/ FinishPhase \/ StartWorker \/ Listen
           \/ \E j \in Jobs : EnqueueBacklog(j)
  BY <1>3, <1>4 DEF Boot, FinishPhase, StartWorker, Listen, EnqueueBacklog, tables, world
<1>5. ASSUME NEW q \in Projects, ReconcileProject(q) PROVE Settled(p)'
  <2>1. ASSUME NEW k \in Keepers(q) PROVE FALSE
    <3>1. k \in Jobs /\ app[k] = "running"
      BY DEF Keepers, JobsOf
    <3> QED
      BY <1>2, <1>5, <3>1 DEF ReconcileProject, Serving
  <2> QED
    BY <1>3, <1>5, <2>1 DEF ReconcileProject, tables
<1>6. ASSUME NEW q \in Projects, ReconcileStatus(q) PROVE Settled(p)'
  <2>1. status'[p] = status[p]
    BY <1>6 DEF ReconcileStatus, SyncStatus, Settled, DerivedFor, TypeOK
  <2> QED
    BY <1>3, <1>6, <2>1 DEF ReconcileStatus, world
<1>7. ASSUME NEW q \in Projects, SyncIngress(q) PROVE Settled(p)'
  <2>1. /\ UNCHANGED <<jobProject, jobStatus, worker, current, app, status>>
        /\ worker.pc = "idle"
        /\ q # p => route'[p] = route[p]
        /\ q = p => route'[p] \in {None, current[p]}
    BY <1>7, BoundsAssumption DEF SyncIngress, tables, RouteTargets, EmptyAtBoot, Serving,
       IdleWorker, TypeOK
  <2>2. CASE q # p
    BY <1>3, <2>1, <2>2
  <2>3. CASE q = p
    <3>1. ~ Serving /\ brain # "up"
      BY <1>7 DEF SyncIngress, Serving
    <3>2. HandlersOf(p) = {} /\ HandlersOf(p)' = {}
      BY <1>1, <3>1, NoneAssumption DEF HandlersSound, HandlersOf, NoOp
    <3>3. ~ AtWork(p) /\ ~ AtWork(p)'
      BY <2>1 DEF AtWork
    <3> QED
      BY <2>1, <2>3, <3>2, <3>3 DEF Settled, DerivedFor, WorkerSide, HandlerSide, AppSide,
         StoppedSide, RouteSide, RouteFine
  <2> QED
    BY <2>2, <2>3
<1>8. ASSUME NEW j \in Jobs, RecoverJob(j) PROVE FALSE
  BY <1>2, <1>8 DEF RecoverJob, Serving
<1> QED
  BY <1>4, <1>5, <1>6, <1>7, <1>8 DEF Startup

\* The worker writes the rows, the containers and the route of its job's project only.
LEMMA WorkerWrites ==
  ASSUME TableInv, Worker, ~ Claim, refused' = 0, refused = 0
  PROVE  /\ worker.pc # "idle" /\ worker.job \in Jobs /\ jobProject[worker.job] \in Projects
         /\ UNCHANGED <<jobProject, known>>
         /\ worker'.pc = "idle" \/ worker'.job = worker.job
         /\ \A i \in Jobs \ {worker.job} : jobStatus'[i] = jobStatus[i]
         /\ \A i \in Jobs \ JobsOf(jobProject[worker.job]) : app'[i] = app[i]
         /\ \A q \in Projects \ {jobProject[worker.job]} :
              status'[q] = status[q] /\ current'[q] = current[q] /\ route'[q] = route[q]
<1> USE DEF TableInv
<1> DEFINE q == jobProject[worker.job]
<1>1. ~ ClaimFault /\ ~ FailJobFault /\ ~ WriteRouteFault
  BY DEF ClaimFault, FailJobFault, WriteRouteFault
<1>2. worker.pc # "idle"
  BY <1>1 DEF Worker, Build, StartApp, WaitReady, LoadCurrent, RemoveOld, Promote,
     PromoteRollback, FailJob, ResolveRoute, WriteRoute, WorkerAt
<1>3. worker.job \in Jobs /\ q \in Projects /\ worker.job \in JobsOf(q)
  BY <1>2 DEF TypeOK, JobsOf
<1>4. CASE Build \/ WaitReady \/ LoadCurrent \/ PromoteRollback
  <2>1. UNCHANGED <<tables, app, route>>
    BY <1>4 DEF Build, WaitReady, LoadCurrent, PromoteRollback, world
  <2>2. worker'.job = worker.job
    BY <1>4 DEF Build, WaitReady, LoadCurrent, PromoteRollback, Goto, TypeOK
  <2> QED
    BY <1>2, <1>3, <2>1, <2>2 DEF tables
<1>5. CASE ResolveRoute
  <2>1. PICK t \in RouteTargets(q) : worker' = [worker EXCEPT !.pc = "write", !.target = t]
    BY <1>5 DEF ResolveRoute
  <2>2. UNCHANGED <<tables, app, route>> /\ worker'.job = worker.job
    BY <1>5, <2>1 DEF ResolveRoute, world, TypeOK
  <2> QED
    BY <1>2, <1>3, <2>2 DEF tables
<1>6. CASE StartApp
  <2>1. UNCHANGED <<tables, route>> /\ worker'.job = worker.job
    BY <1>6 DEF StartApp, Goto, TypeOK
  <2>2. \A i \in Jobs \ {worker.job} : app'[i] = app[i]
    BY <1>6 DEF StartApp, TypeOK
  <2> QED
    BY <1>2, <1>3, <2>1, <2>2 DEF tables
<1>7. CASE RemoveOld
  <2>1. UNCHANGED <<tables, route>> /\ worker'.job = worker.job
    BY <1>7 DEF RemoveOld, Goto, TypeOK
  <2>2. worker.old \in JobsOf(q)
    BY <1>7, NoneAssumption DEF RemoveOld, WorkerAt, OldStays, TypeOK
  <2>3. \A i \in Jobs \ {worker.job, worker.old} : app'[i] = app[i]
    BY <1>7 DEF RemoveOld, TypeOK
  <2> QED
    BY <1>2, <1>3, <2>1, <2>2, <2>3 DEF tables
<1>8. CASE Promote
  <2>1. /\ UNCHANGED <<jobProject, known, app, route>> /\ worker'.job = worker.job
        /\ jobStatus' = [jobStatus EXCEPT ![worker.job] = "succeeded"]
        /\ current' = [current EXCEPT ![q] = worker.job] /\ SyncStatus(q)
    BY <1>8 DEF Promote, Goto, world, TypeOK
  <2> QED
    BY <1>2, <1>3, <2>1 DEF SyncStatus, TypeOK
<1>9. CASE FailJob
  <2>1. /\ UNCHANGED <<jobProject, known, app, route, current>> /\ worker'.pc = "idle"
        /\ jobStatus' = [jobStatus EXCEPT ![worker.job] = "failed"] /\ SyncStatus(q)
    BY <1>9 DEF FailJob, world, IdleWorker
  <2> QED
    BY <1>2, <1>3, <2>1 DEF SyncStatus, TypeOK
<1>10. CASE WriteRoute
  <2>1. /\ UNCHANGED <<tables, app>> /\ worker'.pc = "idle"
        /\ route' = [route EXCEPT ![q] = worker.target]
    BY <1>10 DEF WriteRoute, IdleWorker
  <2> QED
    BY <1>2, <1>3, <2>1 DEF tables, TypeOK
<1> QED
  BY <1>1, <1>4, <1>5, <1>6, <1>7, <1>8, <1>9, <1>10 DEF Worker

\* Every step of the worker leaves the project of its job, and any other, settled.
LEMMA SettledByWorker ==
  ASSUME OpBase, NEW p \in Projects, Settled(p), p \notin Contested, p \notin Contested',
         refused = 0, refused' = 0, Worker, UNCHANGED op
  PROVE  Settled(p)'
<1> USE DEF OpBase, TableInv
<1> DEFINE j == worker.job
<1>1. HandlersOf(p)' = HandlersOf(p)
  BY DEF HandlersOf
<1>2. CASE Claim
  <2> DEFINE h == Head(queue)
  <2>1. /\ h \in Jobs /\ worker.pc = "idle"
        /\ UNCHANGED <<jobProject, status, current, route, app>>
        /\ \/ UNCHANGED <<jobStatus, worker>>
           \/ /\ jobStatus[h] = "queued" /\ jobStatus' = [jobStatus EXCEPT ![h] = "running"]
              /\ worker' = [IdleWorker EXCEPT !.pc = "build", !.job = h]
    BY <1>2, HeadTailProperties DEF Claim, WorkerAt, world, TypeOK
  <2> HIDE DEF h
  <2>2. worker' = worker \/ (worker'.pc = "build" /\ worker'.job = h)
    BY <2>1 DEF IdleWorker
  <2>3. \A i \in Jobs : /\ jobStatus'[i] \in Active <=> jobStatus[i] \in Active
                        /\ jobStatus'[i] = "failed" <=> jobStatus[i] = "failed"
    BY <2>1 DEF Active, TypeOK
  <2>4. CASE ~ AtWork(p)'
    <3>1. ~ AtWork(p)
      BY <2>1 DEF AtWork
    <3>2. \A i \in JobsOf(p) : /\ app'[i] = app[i]
                               /\ jobStatus'[i] \in Active <=> jobStatus[i] \in Active
                               /\ jobStatus'[i] = "failed" <=> jobStatus[i] = "failed"
      BY <2>1, <2>3 DEF JobsOf
    <3> QED
      BY <1>1, <2>1, <2>4, <3>1, <3>2, SettledFrame
  <2>5. CASE AtWork(p)'
    <3>1. HandlersOf(p) = {} /\ HandlersOf(p)' = {}
      BY <1>1, <2>5 DEF AtWork, JobUnderWay, Contested, HandlersOf
    <3>2. ~ AtWork(p) /\ worker'.pc = "build"
      BY <2>1, <2>2, <2>5 DEF AtWork
    <3>3. DerivedFor(p)'
      <4>1. DerivedStatus(p, jobProject, jobStatus', current[p], status[p])
              = DerivedStatus(p, jobProject, jobStatus, current[p], status[p])
        BY <2>3, DerivedSame
      <4> QED
        BY <2>1, <4>1 DEF Settled, DerivedFor
    <3> QED
      BY <2>1, <3>1, <3>2, <3>3 DEF Settled, WorkerSide, HandlerSide, AppSide, StoppedSide,
         RouteSide, RouteFine
  <2> QED
    BY <2>4, <2>5
<1>3. CASE ~ Claim /\ jobProject[j] # p
  <2>1. /\ UNCHANGED jobProject
        /\ status'[p] = status[p] /\ current'[p] = current[p] /\ route'[p] = route[p]
        /\ \A i \in JobsOf(p) : app'[i] = app[i] /\ jobStatus'[i] = jobStatus[i]
        /\ worker'.pc = "idle" \/ worker'.job = worker.job
    BY <1>3, WorkerWrites DEF JobsOf
  <2>2. ~ AtWork(p) /\ ~ AtWork(p)'
    BY <1>3, <2>1 DEF AtWork
  <2> QED
    BY <1>1, <2>1, <2>2, SettledFrame
<1>4. CASE ~ Claim /\ jobProject[j] = p
  <2>1. AtWork(p) /\ HandlersOf(p) = {} /\ HandlersOf(p)' = {} /\ j \in Jobs /\ j \in JobsOf(p)
    BY <1>1, <1>4, WorkerWrites DEF AtWork, JobUnderWay, Contested, HandlersOf, JobsOf
  <2>2. ~ ClaimFault /\ ~ FailJobFault /\ ~ WriteRouteFault
    BY DEF ClaimFault, FailJobFault, WriteRouteFault
  <2>3. worker.pc \in Processing =>
          /\ jobStatus[j] = "running" /\ deployment[j] = "none" /\ current[p] # j
    BY <2>1 DEF WorkerOwnsJob, SoleSucceededDeployment
  <2>4. worker.pc \in Processing => status[p] = "deploying"
    BY <2>1, <2>3 DEF Settled, DerivedFor, DerivedStatus, Active, JobsOf
  <2>5. UNCHANGED <<jobProject, jobStatus, status, current>> => DerivedFor(p)'
    BY DEF Settled, DerivedFor
  <2> DEFINE Unhandled ==
        /\ DerivedFor(p) /\ WorkerSide(p)
        /\ current[p] = None \/ app[current[p]] # "absent" \/ worker.pc = "promote"
        /\ status[p] # "stopped" \/ current[p] = None \/ app[current[p]] # "running"
        /\ RouteFine(p) \/ worker.pc \in {"resolve", "write"}
  <2>6. Unhandled
    BY <2>1 DEF Settled, AppSide, StoppedSide, RouteSide
  <2>7. ASSUME DerivedFor(p)', WorkerSide(p)',
               \/ current'[p] = None \/ app'[current'[p]] # "absent"
               \/ AtWork(p)' /\ worker'.pc = "promote",
               status'[p] # "stopped" \/ current'[p] = None \/ app'[current'[p]] # "running",
               RouteFine(p)' \/ (AtWork(p)' /\ worker'.pc \in {"resolve", "write"})
        PROVE  Settled(p)'
    BY <2>1, <2>7 DEF Settled, HandlerSide, AppSide, StoppedSide, RouteSide
  <2>8. UNCHANGED jobProject /\ (worker'.pc # "idle" => AtWork(p)' /\ worker'.job = j)
    BY <1>4, WorkerWrites DEF AtWork
  <2>9. CASE Build \/ WaitReady
    <3>1. /\ UNCHANGED <<jobProject, jobStatus, status, current, route, app>>
          /\ worker.pc \in {"build", "wait"}
          /\ worker'.pc \in {"startApp", "fail", "load"}
          /\ worker'.pc = "load" => app[j] = "running"
      BY <2>9 DEF Build, WaitReady, WorkerAt, Goto, tables, world, TypeOK
    <3>2. WorkerSide(p)'
      BY <2>8, <3>1 DEF WorkerSide
    <3> QED
      BY <2>5, <2>6, <2>7, <3>1, <3>2 DEF RouteFine
  <2>10. CASE StartApp
    <3>1. /\ UNCHANGED <<jobProject, jobStatus, status, current, route>>
          /\ worker.pc = "startApp" /\ worker'.pc \in {"wait", "fail"}
          /\ \A i \in Jobs \ {j} : app'[i] = app[i]
      BY <2>10 DEF StartApp, WorkerAt, Goto, tables, TypeOK
    <3>2. current[p] # None => app'[current[p]] = app[current[p]]
      BY <2>3, <3>1 DEF TypeOK, JobOrNone, Processing, WorkerPC
    <3>3. WorkerSide(p)'
      BY <3>1 DEF WorkerSide
    <3> QED
      BY <2>5, <2>6, <2>7, <3>1, <3>2, <3>3 DEF RouteFine
  <2>11. CASE LoadCurrent
    <3>1. /\ UNCHANGED <<jobProject, jobStatus, status, current, route, app>>
          /\ worker.pc = "load" /\ worker.old = None /\ app[j] = "running"
      BY <2>1, <2>6, <2>11 DEF LoadCurrent, WorkerAt, tables, world, OldStays, WorkerSide
    <3>2. worker'.pc \in {"promote", "removeOld"} => worker'.old = current[p]
      BY <1>4, <2>3, <2>11, <3>1 DEF LoadCurrent, Goto, TypeOK, Processing, WorkerPC
    <3>3. worker'.pc \in {"promote", "removeOld", "fail"}
      BY <2>11 DEF LoadCurrent, Goto, TypeOK
    <3>4. WorkerSide(p)'
      BY <2>8, <3>1, <3>2, <3>3 DEF WorkerSide
    <3> QED
      BY <2>5, <2>6, <2>7, <3>1, <3>4 DEF RouteFine
  <2>12. CASE RemoveOld
    <3>1. /\ UNCHANGED <<jobProject, jobStatus, status, current, route>>
          /\ worker.pc = "removeOld" /\ worker.old = current[p] /\ app[j] = "running"
          /\ current[p] \in Jobs
      BY <2>1, <2>6, <2>12 DEF RemoveOld, WorkerAt, tables, WorkerSide, TypeOK
    <3>2. current[p] # j
      BY <2>3, <3>1 DEF Processing, WorkerPC
    <3>3. CASE app' = [app EXCEPT ![worker.old] = "absent"] /\ Goto("promote")
      <4>1. /\ app'[current[p]] = "absent" /\ app'[j] = "running"
            /\ worker'.pc = "promote" /\ worker'.old = current[p]
        BY <2>1, <3>1, <3>2, <3>3 DEF Goto, TypeOK
      <4>2. WorkerSide(p)'
        BY <2>8, <3>1, <4>1 DEF WorkerSide
      <4> QED
        BY <2>5, <2>6, <2>7, <2>8, <3>1, <4>1, <4>2 DEF RouteFine
    <3>4. ASSUME NEW a \in AfterFailedRemoval(app[worker.old]),
                 NEW b \in {"absent"} \cup AfterFailedRemoval(app[j]),
                 app' = [app EXCEPT ![worker.old] = a, ![j] = b], Goto("fail")
          PROVE  Settled(p)'
      <4>1. app'[current[p]] = a /\ worker'.pc = "fail"
        BY <2>1, <3>1, <3>2, <3>4 DEF Goto, TypeOK
      <4>2. /\ a # "absent"
            /\ app[current[p]] # "running" => a # "running"
        <5>1. worker'.old = current[p] /\ current'[p] = current[p]
          BY <3>1, <3>4 DEF Goto, TypeOK
        <5>2. ~ Bereft(p)'
          BY DEF Contested
        <5>3. a # "absent"
          BY <2>8, <3>1, <4>1, <5>1, <5>2, NoneAssumption DEF Bereft, AtWork
        <5> QED
          BY <3>1, <3>4, <5>3 DEF AfterFailedRemoval
      <4>3. WorkerSide(p)'
        BY <4>1 DEF WorkerSide
      <4> QED
        BY <2>5, <2>6, <2>7, <3>1, <4>1, <4>2, <4>3 DEF RouteFine
    <3> QED
      BY <2>12, <3>3, <3>4 DEF RemoveOld
  <2>13. CASE Promote
    <3>1. /\ UNCHANGED <<jobProject, app, route>> /\ SyncStatus(p) /\ app[j] = "running"
          /\ current' = [current EXCEPT ![p] = j] /\ worker.pc = "promote"
          /\ worker'.pc = "resolve"
      BY <1>4, <2>1, <2>6, <2>13 DEF Promote, WorkerAt, Goto, world, WorkerSide, TypeOK
    <3>2. current'[p] = j /\ j # None
      BY <2>1, <3>1, NoneAssumption DEF TypeOK
    <3>3. status'[p] = DerivedStatus(p, jobProject', jobStatus', current'[p], status[p])
      BY <3>1 DEF SyncStatus, TypeOK
    <3>4. DerivedFor(p)'
      BY <3>3, DerivedTwice DEF DerivedFor
    <3>5. status'[p] # "stopped"
      BY <2>4, <3>1, <3>2, <3>3 DEF DerivedStatus, Processing, WorkerPC
    <3>6. WorkerSide(p)'
      BY <3>1 DEF WorkerSide
    <3> QED
      BY <2>7, <2>8, <3>1, <3>2, <3>4, <3>5, <3>6
  <2>14. ~ PromoteRollback
    <3>1. ASSUME worker.pc = "promote" PROVE Promotable
      <4>1. worker.old = current[p] /\ jobStatus[j] = "running"
        BY <2>1, <2>3, <2>6, <3>1 DEF WorkerSide, Processing, WorkerPC
      <4>2. worker.old # None => deployment[worker.old] = "succeeded"
        BY <4>1 DEF SoleSucceededDeployment
      <4> QED
        BY <4>1, <4>2 DEF Promotable
    <3> QED
      BY <3>1 DEF PromoteRollback, WorkerAt
  <2>15. CASE FailJob
    <3>1. /\ UNCHANGED <<jobProject, current, app, route>> /\ SyncStatus(p)
          /\ worker.pc = "fail" /\ worker'.pc = "idle"
      BY <1>4, <2>15 DEF FailJob, WorkerAt, world, IdleWorker
    <3>2. status'[p] = DerivedStatus(p, jobProject', jobStatus', current'[p], status[p])
      BY <3>1 DEF SyncStatus, TypeOK
    <3>3. DerivedFor(p)'
      BY <3>2, DerivedTwice DEF DerivedFor
    <3>4. status'[p] # "stopped"
      BY <2>4, <3>1, <3>2 DEF DerivedStatus, Processing, WorkerPC
    <3>5. WorkerSide(p)'
      BY <3>1 DEF WorkerSide, AtWork
    <3> QED
      BY <2>6, <2>7, <3>1, <3>3, <3>4, <3>5 DEF RouteFine
  <2>16. CASE ResolveRoute
    <3>1. PICK t \in RouteTargets(p) : worker' = [worker EXCEPT !.pc = "write", !.target = t]
      BY <1>4, <2>16 DEF ResolveRoute
    <3>2. /\ UNCHANGED <<jobProject, jobStatus, status, current, route, app>>
          /\ worker.pc = "resolve" /\ worker'.pc = "write" /\ worker'.target = t
          /\ t \in {None, current[p]}
      BY <2>16, <3>1 DEF ResolveRoute, WorkerAt, tables, world, TypeOK, RouteTargets
    <3>3. WorkerSide(p)'
      BY <3>2 DEF WorkerSide
    <3> QED
      BY <2>5, <2>6, <2>7, <2>8, <3>2, <3>3
  <2>17. CASE WriteRoute
    <3>1. /\ UNCHANGED <<jobProject, jobStatus, status, current, app>>
          /\ worker.pc = "write" /\ worker'.pc = "idle"
          /\ route'[p] = worker.target /\ worker.target \in {None, current[p]}
      BY <1>4, <2>1, <2>6, <2>17 DEF WriteRoute, WorkerAt, IdleWorker, tables, TypeOK, WorkerSide
    <3>2. WorkerSide(p)' /\ RouteFine(p)'
      BY <3>1 DEF WorkerSide, AtWork, RouteFine
    <3> QED
      BY <2>5, <2>6, <2>7, <3>1, <3>2
  <2> QED
    BY <1>4, <2>2, <2>9, <2>10, <2>11, <2>12, <2>13, <2>14, <2>15, <2>16, <2>17 DEF Worker
<1> QED
  BY <1>2, <1>3, <1>4

\* Every step keeps the projects that nothing muddled settled.
LEMMA NextSettled ==
  ASSUME OpBase, OpBase', SettledInv, [OpNext]_opVars
  PROVE  SettledInv'
<1> USE DEF OpBase, TableInv
<1>1. OpSteps
  BY OpNextSteps
<1>2. crashes \in Nat /\ refused \in Nat /\ refused' \in Nat /\ crashes' \in Nat
  BY BoundsAssumption DEF TypeOK
<1>3. FirstStart'
  <2>1. CASE [Next]_vars
    BY <2>1, FirstStartKept DEF SettledInv
  <2>2. ASSUME NEW o \in Ops, HandlerStep(o) PROVE FirstStart'
    BY <2>2, TablesWritten DEF SettledInv, FirstStart, Serving, boot, faults
  <2>3. ASSUME NEW o \in Ops, Begins(o) PROVE UNCHANGED vars
    BY <2>3, BeginsSound
  <2> QED
    BY <1>1, <2>1, <2>2, <2>3 DEF OpSteps, Next
<1>4. \A o \in Ops, p \in Projects :
        Abort(o) /\ op[o].project # p => (p \in Contested' => p \in Contested)
  <2> SUFFICES ASSUME NEW o \in Ops, NEW p \in Projects, Abort(o), op[o].project # p,
                      p \in Contested'
               PROVE  p \in Contested
    OBVIOUS
  <2>1. HandlerStep(o)
    BY DEF HandlerStep, HandlerCall
  <2>2. UNCHANGED <<jobProject, jobStatus, worker>> /\ OnlyOp(o) /\ op'[o] = NoOp
    BY <2>1, TablesWritten, RecordKept DEF Abort, End, OpTypeOK
  <2>3. JobUnderWay(p)' <=> JobUnderWay(p)
    BY <2>2 DEF JobUnderWay, JobsOf
  <2>4. CASE Bereft(p)'
    <3>1. worker.pc = "fail" /\ jobProject[worker.job] = p /\ worker.old # None
          /\ app'[worker.old] = "absent"
      BY <2>2, <2>4 DEF Bereft
    <3>2. worker.old \in JobsOf(p)
      BY <3>1 DEF OldStays
    <3>3. app'[worker.old] = app[worker.old]
      BY <2>1, <3>2, ContainersWritten DEF JobsOf
    <3> QED
      BY <3>1, <3>3 DEF Contested, Bereft
  <2>5. CASE ~ Bereft(p)'
    <3>1. PICK q \in Ops :
            /\ op'[q].project = p
            /\ GaveUp(q)' \/ JobUnderWay(p)' \/ \E r \in Ops \ {q} : op'[r].project = p
      BY <2>5 DEF Contested
    <3>2. \A r \in Ops : op'[r].project = p => r # o /\ op'[r] = op[r]
      BY <2>2, NoneAssumption DEF OnlyOp, NoOp
    <3> QED
      BY <2>3, <3>1, <3>2 DEF Contested, GaveUp
  <2> QED
    BY <2>4, <2>5
<1>5. CASE UNCHANGED opVars
  <2>1. UNCHANGED <<jobProject, jobStatus, worker, status, current, app, route, op, muddled>>
        /\ UNCHANGED <<crashes, refused>>
    BY <1>5 DEF opVars, vars, tables, world, faults
  <2>2. Contested' = Contested
    BY <2>1 DEF Contested, GaveUp, JobUnderWay, JobsOf, Bereft
  <2>3. ASSUME NEW p \in Projects, Settled(p) PROVE Settled(p)'
    <3>1. HandlersOf(p)' = HandlersOf(p)
      BY <2>1 DEF HandlersOf
    <3> QED
      BY <2>1, <2>3, <3>1, SettledFrame
  <2> QED
    BY <1>3, <2>1, <2>2, <2>3 DEF SettledInv
<1>6. CASE Crash /\ muddled' = Projects
  BY <1>3, <1>6 DEF SettledInv, Contested
<1>7. ASSUME NEW m \in SUBSET Projects, muddled' = muddled \cup m, crashes' = crashes,
             Contested' \subseteq muddled \cup m, refused <= refused',
             \A p \in Projects \ muddled' :
               refused' = 0 /\ p \notin Contested' /\ p \notin Contested /\ crashes = 0
                 /\ Settled(p) => Settled(p)'
      PROVE  SettledInv'
  <2>1. crashes' > 0 => muddled' = Projects
    BY <1>7 DEF SettledInv
  <2>2. ASSUME refused' = 0, NEW p \in Projects \ muddled' PROVE Settled(p)'
    <3>1. refused = 0 /\ crashes = 0 /\ p \notin muddled
      BY <1>2, <1>7, <2>2 DEF SettledInv
    <3>2. Settled(p) /\ p \notin Contested /\ p \notin Contested'
      BY <1>7, <2>2, <3>1 DEF SettledInv
    <3> QED
      BY <1>7, <2>2, <3>1, <3>2
  <2> QED
    BY <1>3, <1>7, <2>1, <2>2 DEF SettledInv
<1>8. Contested' \subseteq Projects
  BY DEF Contested
<1>9. ASSUME NEW o \in Ops, Abort(o), muddled' = muddled \cup {op[o].project}
      PROVE  SettledInv'
  <2>1. HandlerStep(o)
    BY <1>9 DEF HandlerStep, HandlerCall
  <2>2. op[o].project \in Projects /\ UNCHANGED <<crashes, refused>>
    BY <2>1, RecordKept, Running, TablesWritten DEF faults
  <2>3. Contested' \subseteq muddled \cup {op[o].project}
    BY <1>4, <1>8, <1>9 DEF SettledInv
  <2>4. ASSUME NEW p \in Projects \ muddled', p \notin Contested', p \notin Contested, Settled(p)
        PROVE  Settled(p)'
    BY <1>9, <2>1, <2>4, SettledByOthers
  <2> DEFINE m == {op[o].project}
  <2>5. m \in SUBSET Projects /\ muddled' = muddled \cup m /\ Contested' \subseteq muddled \cup m
    BY <1>9, <2>2, <2>3
  <2> HIDE DEF m
  <2> QED
    BY <1>2, <1>7, <2>2, <2>4, <2>5
<1>10. ASSUME muddled' = muddled \cup Contested', NEW o \in Ops, HandlerCall(o)
       PROVE  SettledInv'
  <2>1. HandlerStep(o) /\ UNCHANGED <<crashes, refused>>
    BY <1>10, TablesWritten DEF HandlerStep, faults
  <2>2. ASSUME NEW p \in Projects, p \notin Contested', p \notin Contested, Settled(p)
        PROVE  Settled(p)'
    BY <1>10, <2>1, <2>2, SettledByHandler, SettledByOthers
  <2> QED
    BY <1>2, <1>7, <1>8, <1>10, <2>1, <2>2
<1>11. ASSUME muddled' = muddled \cup Contested', NEW o \in Ops, Begins(o) PROVE SettledInv'
  <2>1. UNCHANGED <<crashes, refused>>
    BY <1>11, BeginsSound DEF vars, faults
  <2>2. ASSUME NEW p \in Projects, p \notin Contested', p \notin Contested, Settled(p)
        PROVE  Settled(p)'
    BY <1>11, <2>2, SettledByOthers
  <2> QED
    BY <1>2, <1>7, <1>8, <1>11, <2>1, <2>2
<1>12. ASSUME muddled' = muddled \cup Contested', Handlers \/ Worker \/ Startup, UNCHANGED op
       PROVE  SettledInv'
  <2>1. crashes' = crashes /\ refused <= refused'
    <3>1. CASE Handlers
      BY <1>2, <3>1 DEF Handlers, CreateJob, Enqueue, faults
    <3>2. CASE Worker
      <4>1. CASE ClaimFault \/ PromoteRollback \/ FailJobFault \/ WriteRouteFault
        BY <1>2, <4>1 DEF ClaimFault, PromoteRollback, FailJobFault, WriteRouteFault
      <4>2. CASE ~ (ClaimFault \/ PromoteRollback \/ FailJobFault \/ WriteRouteFault)
        <5>1. UNCHANGED faults
          BY <3>2, <4>2 DEF Worker, Claim, Build, StartApp, WaitReady, LoadCurrent, RemoveOld,
             Promote, FailJob, ResolveRoute, WriteRoute
        <5> QED
          BY <1>2, <5>1 DEF faults
      <4> QED
        BY <4>1, <4>2
    <3>3. CASE Startup
      BY <1>2, <3>3 DEF Startup, Boot, FinishPhase, StartWorker, Listen, ReconcileProject,
         ReconcileStatus, SyncIngress, RecoverJob, EnqueueBacklog, faults
    <3> QED
      BY <1>12, <3>1, <3>2, <3>3
  <2>2. ASSUME NEW p \in Projects, refused' = 0, p \notin Contested', p \notin Contested,
               crashes = 0, Settled(p)
        PROVE  Settled(p)'
    <3>1. refused = 0
      BY <1>2, <2>1, <2>2
    <3>2. FirstStart
      BY DEF SettledInv
    <3> QED
      BY <1>12, <2>2, <3>1, <3>2, SettledByRequests, SettledByWorker, SettledByStartup
  <2> QED
    BY <1>7, <1>8, <1>12, <2>1, <2>2
<1> QED
  <2>1. \A o \in Ops : OpStep(o) => HandlerCall(o) \/ Begins(o)
    BY DEF OpStep, HandlerCall, Begins
  <2> QED
    BY <1>5, <1>6, <1>9, <1>10, <1>11, <1>12, <2>1 DEF OpNext

\* Projects that nothing muddled stay settled.
THEOREM SettledInvariant == OpSpec => []SettledInv
<1>1. OpInit => SettledInv
  <2> SUFFICES ASSUME OpInit PROVE SettledInv
    OBVIOUS
  <2>1. /\ \A p \in Projects : HandlersOf(p) = {}
        /\ \A o \in Ops : op[o].project \notin Projects
    BY NoneAssumption DEF OpInit, HandlersOf, NoOp
  <2>2. Contested = {} /\ muddled = {} /\ crashes = 0 /\ FirstStart
    BY <2>1 DEF OpInit, Init, Contested, FirstStart, Bereft, IdleWorker
  <2>3. ASSUME NEW p \in Projects PROVE Settled(p)
    <3>1. DerivedFor(p)
      BY NoneAssumption DEF OpInit, Init, DerivedFor, DerivedStatus, Active
    <3> QED
      BY <2>1, <3>1 DEF OpInit, Init, IdleWorker, Settled, AtWork, WorkerSide, HandlerSide,
         AppSide, StoppedSide, RouteSide, RouteFine
  <2> QED
    BY <2>2, <2>3 DEF SettledInv
<1>2. OpBase /\ OpBase' /\ SettledInv /\ [OpNext]_opVars => SettledInv'
  BY NextSettled
<1> QED
  BY <1>1, <1>2, OpBaseInvariant, PTL DEF OpSpec

\* Whatever a user's stop, start, restart, remove and cleanup requests do: when nothing runs
\* for a project any more, and nothing muddled it, a stopped project has no running app, the
\* current deployment has an app and the route is its own.
THEOREM SettledAlways == OpSpec => []SettledUnlessMuddled
<1>1. SettledInv => SettledUnlessMuddled
  <2> SUFFICES ASSUME SettledInv, refused = 0, NEW p \in Projects, Quiet(p), p \notin muddled
               PROVE  /\ status[p] = "stopped" /\ current[p] # None => app[current[p]] # "running"
                      /\ current[p] # None => app[current[p]] # "absent"
                      /\ route[p] \in {None, current[p]}
    BY DEF SettledUnlessMuddled
  <2>1. Settled(p) /\ HandlersOf(p) = {} /\ ~ AtWork(p)
    BY DEF SettledInv, Quiet, HandlersOf, JobUnderWay, AtWork
  <2> QED
    BY <2>1 DEF Settled, AppSide, StoppedSide, RouteSide, RouteFine
<1> QED
  BY <1>1, SettledInvariant, PTL

-----------------------------------------------------------------------------
(* The rows a promotion needs.                                             *)

\* What Process read as current still is, in every project that nothing muddled.
OldIsCurrent(p) ==
  AtWork(p) /\ worker.pc \in {"removeOld", "promote"} => worker.old = current[p]

RowsInv == \A p \in Projects \ muddled : OldIsCurrent(p)

\* The worker's own steps, and a request beside them, keep what it read true.
LEMMA OldCurrentByPipeline ==
  ASSUME TableInv, NEW p \in Projects, OldIsCurrent(p), Handlers \/ Worker \/ Startup
  PROVE  OldIsCurrent(p)'
<1> USE DEF TableInv
<1>1. CASE worker' = worker /\ UNCHANGED <<jobProject, current>>
  BY <1>1 DEF OldIsCurrent, AtWork
<1>2. CASE worker'.pc \notin {"removeOld", "promote"}
  BY <1>2 DEF OldIsCurrent
<1>3. ASSUME NEW q \in Projects, NEW j \in Jobs, CreateJob(q, j) PROVE OldIsCurrent(p)'
  <2>1. worker' = worker /\ current' = current /\ jobStatus[j] = "none"
        /\ jobProject' = [jobProject EXCEPT ![j] = q]
    BY <1>3 DEF CreateJob
  <2>2. worker.pc # "idle" => worker.job # j
    BY <2>1 DEF TypeOK
  <2>3. AtWork(p)' => AtWork(p)
    BY <2>1, <2>2 DEF AtWork, TypeOK
  <2> QED
    BY <2>1, <2>3 DEF OldIsCurrent
<1>4. CASE \E j \in Jobs : Enqueue(j)
  BY <1>1, <1>4 DEF Enqueue, tables
<1>5. CASE Claim
  <2>1. \/ worker' = worker
        \/ worker' = [IdleWorker EXCEPT !.pc = "build", !.job = Head(queue)]
    BY <1>5 DEF Claim
  <2>2. [IdleWorker EXCEPT !.pc = "build", !.job = Head(queue)].pc = "build"
    BY DEF IdleWorker
  <2>3. UNCHANGED <<jobProject, current>>
    BY <1>5 DEF Claim
  <2> QED
    BY <1>1, <1>2, <2>1, <2>2, <2>3
<1>6. CASE ClaimFault
  BY <1>1, <1>6 DEF ClaimFault, tables
<1>7. CASE Build \/ StartApp \/ WaitReady \/ Promote \/ PromoteRollback
  <2>1. worker'.pc \in {"startApp", "wait", "load", "fail", "resolve"}
    BY <1>7 DEF Build, StartApp, WaitReady, Promote, PromoteRollback, Goto, TypeOK
  <2> QED
    BY <1>2, <2>1
<1>8. CASE FailJob \/ FailJobFault \/ WriteRoute \/ WriteRouteFault
  <2>1. worker'.pc = "idle"
    BY <1>8 DEF FailJob, FailJobFault, WriteRoute, WriteRouteFault, IdleWorker
  <2> QED
    BY <1>2, <2>1
<1>9. CASE ResolveRoute
  <2>1. PICK t \in RouteTargets(jobProject[worker.job]) :
          worker' = [worker EXCEPT !.pc = "write", !.target = t]
    BY <1>9 DEF ResolveRoute
  <2>2. worker'.pc = "write"
    BY <2>1 DEF TypeOK
  <2> QED
    BY <1>2, <2>2
<1>10. CASE LoadCurrent
  <2> DEFINE cur == current[jobProject[worker.job]]
  <2>1. worker.pc = "load" /\ worker.old = None /\ UNCHANGED <<jobProject, current>>
    BY <1>10 DEF LoadCurrent, WorkerAt, OldStays, tables
  <2>2. cur # worker.job
    BY <2>1, NoneAssumption
    DEF WorkerOwnsJob, SoleSucceededDeployment, Processing, WorkerPC, TypeOK, JobOrNone
  <2>3. worker'.job = worker.job
    BY <1>10 DEF LoadCurrent, Goto, TypeOK
  <2>4. worker'.pc \in {"removeOld", "promote"} => worker'.old = cur
    BY <1>10, <2>1, <2>2 DEF LoadCurrent, Goto, TypeOK
  <2> QED
    BY <2>1, <2>3, <2>4 DEF OldIsCurrent, AtWork
<1>11. CASE RemoveOld
  <2>1. worker.pc = "removeOld" /\ UNCHANGED <<jobProject, current>>
    BY <1>11 DEF RemoveOld, WorkerAt, tables
  <2>2. worker'.job = worker.job /\ worker'.old = worker.old
    BY <1>11 DEF RemoveOld, Goto, TypeOK
  <2> QED
    BY <2>1, <2>2 DEF OldIsCurrent, AtWork
<1>12. CASE \E q \in Projects : ReconcileProject(q) \/ ReconcileStatus(q) \/ SyncIngress(q)
  <2>1. worker' = IdleWorker
    BY <1>12 DEF ReconcileProject, ReconcileStatus, SyncIngress, EmptyAtBoot, Serving
  <2> QED
    BY <1>2, <2>1 DEF IdleWorker
<1>13. CASE \/ Boot \/ FinishPhase \/ StartWorker \/ Listen
            \/ \E j \in Jobs : RecoverJob(j) \/ EnqueueBacklog(j)
  BY <1>1, <1>13 DEF Boot, FinishPhase, StartWorker, Listen, RecoverJob, EnqueueBacklog, tables
<1> QED
  BY <1>3, <1>4, <1>5, <1>6, <1>7, <1>8, <1>9, <1>10, <1>11, <1>12, <1>13
     DEF Handlers, Worker, Startup

\* A runtime handler that clears the rows of a job under way has muddled its project.
LEMMA NextRows ==
  ASSUME OpBase, SettledInv, RowsInv, [OpNext]_opVars
  PROVE  RowsInv'
<1> USE DEF OpBase
<1> SUFFICES ASSUME NEW p \in Projects, p \notin muddled' PROVE OldIsCurrent(p)'
  BY DEF RowsInv
<1>1. p \notin muddled /\ p \notin Contested
  BY DEF OpNext, opVars, SettledInv
<1>2. OldIsCurrent(p)
  BY <1>1 DEF RowsInv
<1>3. ASSUME NEW o \in Ops, HandlerStep(o) PROVE OldIsCurrent(p)'
  <2>1. UNCHANGED <<jobProject, worker>>
        /\ (UNCHANGED current \/ current' = [current EXCEPT ![op[o].project] = None])
    BY <1>3, TablesWritten DEF TableInv, Cleared
  <2>2. CASE op[o].project = p
    <3>1. ~ AtWork(p)
      BY <1>1, <2>2 DEF Contested, JobUnderWay, AtWork
    <3> QED
      BY <2>1, <3>1 DEF OldIsCurrent, AtWork
  <2>3. CASE op[o].project # p
    BY <1>2, <2>1, <2>3 DEF OldIsCurrent, AtWork, TableInv, TypeOK
  <2> QED
    BY <2>2, <2>3
<1>4. ASSUME UNCHANGED vars PROVE OldIsCurrent(p)'
  BY <1>2, <1>4 DEF vars, tables, OldIsCurrent, AtWork
<1>5. ASSUME NEW o \in Ops, Begins(o) PROVE UNCHANGED vars
  BY <1>5, BeginsSound DEF TableInv
<1>6. CASE Crash
  BY <1>6 DEF Crash, IdleWorker, OldIsCurrent
<1>7. CASE Handlers \/ Worker \/ Startup
  BY <1>2, <1>7, OldCurrentByPipeline
<1> QED
  BY <1>3, <1>4, <1>5, <1>6, <1>7, OpNextSteps DEF OpSteps

\* markJobSucceeded finds the job's row running and the row to supersede succeeded,
\* also when writes are refused, unless handlers overlapped the job, a call of theirs
\* failed, Brain crashed or an earlier deploy lost the app it should replace.
THEOREM PromotionAlwaysFindsRows == OpSpec => []PromotionFindsRows
<1>1. OpInit => RowsInv
  BY DEF OpInit, Init, IdleWorker, RowsInv, OldIsCurrent
<1>2. OpBase /\ SettledInv /\ RowsInv /\ [OpNext]_opVars => RowsInv'
  BY NextRows
<1>3. OpBase /\ RowsInv => PromotionFindsRows
  <2> SUFFICES ASSUME OpBase, RowsInv, worker.pc = "promote",
                      jobProject[worker.job] \notin muddled
               PROVE  Promotable
    BY DEF PromotionFindsRows
  <2>1. /\ worker.job \in Jobs /\ jobStatus[worker.job] = "running"
        /\ jobProject[worker.job] \in Projects
    BY DEF OpBase, TableInv, TypeOK, WorkerOwnsJob, Processing, WorkerPC
  <2>2. worker.old = current[jobProject[worker.job]]
    BY <2>1 DEF RowsInv, OldIsCurrent, AtWork
  <2>3. worker.old # None => deployment[worker.old] = "succeeded"
    BY <2>1, <2>2 DEF OpBase, TableInv, SoleSucceededDeployment, JobsOf
  <2> QED
    BY <2>1, <2>3 DEF Promotable
<1> QED
  BY <1>1, <1>2, <1>3, OpBaseInvariant, SettledInvariant, PTL DEF OpSpec
=============================================================================
