------------------------- MODULE BuildManagerProofs -------------------------
(***************************************************************************)
(* Proofs about BuildManager, for any number of workers, clients, builds,  *)
(* distributions and retries and any pipeline.  At the end: the build      *)
(* manager implements the safety part of the job lifecycle, each of its    *)
(* steps being one of the lifecycle or one that changes nothing a reader   *)
(* of the table sees; and what holds with a single worker, the default of  *)
(* build.workers, that duplicates of a build in the queue would break if   *)
(* two workers could take them up at once.                                 *)
(***************************************************************************)
EXTENDS BuildLifecycle, FiniteSetTheorems, TLAPS

\* A worker that is not in its loop has a job.
JobKnown == \A w \in Workers : pc[w] \notin {"idle", "stopped"} => job[w] \in Jobs

Typed == TypeOK /\ JobKnown

\* The queue capacity, 2 * Workers, is a natural number.
LEMMA QueueCapType == QueueCap \in Nat
BY WorkersAssumption, FS_CardinalityType DEF QueueCap

\* UpdateStage writes an active status, whatever stage of the pipeline runs.
LEMMA StageStatusActive ==
    ASSUME NEW i \in StageIx
    PROVE  StatusOfStage(Stages[i]) \in Active
<1>1. Stages[i] \in StageName
  BY StagesAssumption DEF StageIx
<1> QED
  BY <1>1 DEF StageName, StatusOfStage, Active

\* A request that names a job names an existing identifier.
LEMMA RequestFields ==
    ASSUME NEW r \in Request
    PROVE  /\ r.op \in {"enqueue", "mark", "retry", "cancel"} => r.job \in Jobs
           /\ r.op = "cancel" => r.fn \in Workers \cup {NoWorker}
           /\ r.op = "save" => r.dist \in Dists /\ r.seen \in DistStatus
BY DEF Request

\* Writing a status of the right type through SetStatus keeps the type.
LEMMA SetStatusType ==
    ASSUME status \in [Jobs -> JobStatus], NEW j \in Jobs, NEW s \in JobStatus,
           SetStatus(j, s)
    PROVE  status' \in [Jobs -> JobStatus]
BY DEF SetStatus

\* Writing the stage rows of a build by name keeps their type.
LEMMA SetStageRowsType ==
    ASSUME stageRows \in [Jobs -> [StageIx -> SUBSET StageStatus]],
           NEW j \in Jobs, NEW i \in StageIx, NEW s \in StageStatus,
           SetStageRows(j, i, s)
    PROVE  stageRows' \in [Jobs -> [StageIx -> SUBSET StageStatus]]
BY DEF SetStageRows

\* The initial state is typed.
LEMMA InitTyped == Init => Typed
<1> SUFFICES ASSUME Init PROVE Typed
  OBVIOUS
<1>1. 1 \in StageIx
  BY StagesAssumption DEF StageIx
<1>2. 0 \in 0 .. MaxJobs
  BY BoundsAssumption
<1>3. (CHOOSE d \in Dists : TRUE) \in Dists
  BY BoundsAssumption
<1>4. Len(queue) <= QueueCap /\ queue \in Seq(Jobs)
  BY QueueCapType DEF Init
<1> QED
  BY <1>1, <1>2, <1>3, <1>4
  DEF Init, Typed, TypeOK, JobKnown, JobStatus, DistStatus, PC, Request, Idle, NoJob


\* Every step keeps every variable in its type.
LEMMA NextTyped == Typed /\ [Next]_vars => Typed'
<1> SUFFICES ASSUME Typed, [Next]_vars PROVE Typed'
  OBVIOUS
<1> USE DEF Typed, TypeOK, JobKnown, tables, manager, dispatcher, worker
<1>0. 1 \in StageIx
  BY StagesAssumption DEF StageIx
<1>1. ASSUME NEW c \in Clients, NEW d \in Dists, Submit(c, d) PROVE Typed'
  BY <1>1, BoundsAssumption DEF Submit, Ready, Request, Idle, Jobs, JobStatus
<1>2. ASSUME NEW c \in Clients, NEW d \in Dists, ClearBuilds(c, d) PROVE Typed'
  BY <1>2 DEF ClearBuilds, Ready, JobStatus
<1>3. ASSUME NEW c \in Clients, NEW d \in Dists, EditRead(c, d) PROVE Typed'
  BY <1>3 DEF EditRead, Ready, Request, Idle
<1>4. ASSUME NEW c \in Clients, NEW j \in Jobs, CancelLookup(c, j) PROVE Typed'
  BY <1>4 DEF CancelLookup, Ready, Request, Idle
<1>5. ASSUME NEW c \in Clients, NEW j \in Jobs, RetryCheck(c, j) PROVE Typed'
  BY <1>5 DEF RetryCheck, Ready, Request, Idle
<1>6. ASSUME NEW c \in Clients, Enqueue(c) PROVE Typed'
  <2>1. req' \in [Clients -> Request]
    BY <1>6 DEF Enqueue, Request, Idle
  <2>2. life # "closed" => req[c].job \in Jobs
    BY <1>6, RequestFields DEF Enqueue
  <2>3. queue' \in Seq(Jobs) /\ Len(queue') <= QueueCap
    <3>1. CASE queue' = queue
      BY <3>1
    <3>2. CASE queue' = Append(queue, req[c].job) /\ HasRoom /\ life # "closed"
      BY <3>2, <2>2, QueueCapType DEF HasRoom
    <3> QED
      BY <3>1, <3>2, <1>6 DEF Enqueue
  <2> QED
    BY <1>6, <2>1, <2>3 DEF Enqueue, QueueCap
<1>7. ASSUME NEW c \in Clients, CancelCall(c) PROVE Typed'
  BY <1>7, RequestFields DEF CancelCall, Request
<1>8. ASSUME NEW c \in Clients, CancelMark(c) PROVE Typed'
  BY <1>8, RequestFields, SetStatusType DEF CancelMark, JobStatus, Terminal, Request, Idle
<1>9. ASSUME NEW c \in Clients, RetryReset(c) PROVE Typed'
  BY <1>9, RequestFields, SetStatusType DEF RetryReset, JobStatus, Terminal, Request, Idle
<1>10. ASSUME NEW c \in Clients, EditSave(c) PROVE Typed'
  BY <1>10, RequestFields DEF EditSave, Request, Idle
<1>11. CASE DispatchList
  BY <1>11 DEF DispatchList, Pending
<1>12. CASE DispatchSend
  <2>1. PICK j \in todo :
          \/ /\ queue' = Append(queue, j) /\ HasRoom
             /\ todo' = todo \ {j} /\ UNCHANGED <<sentOnClosed, polling>>
          \/ /\ todo' = {} /\ UNCHANGED queue
             /\ sentOnClosed' \in BOOLEAN /\ polling' \in BOOLEAN
    BY <1>12 DEF DispatchSend
  <2>2. queue' \in Seq(Jobs) /\ Len(queue') <= QueueCap
    <3>1. CASE queue' = queue
      BY <3>1
    <3>2. CASE queue' = Append(queue, j) /\ HasRoom
      <4>1. j \in Jobs
        OBVIOUS
      <4> QED
        BY <3>2, <4>1, QueueCapType DEF HasRoom
    <3> QED
      BY <3>1, <3>2, <2>1
  <2>3. todo' \subseteq Jobs /\ polling' \in BOOLEAN /\ sentOnClosed' \in BOOLEAN
    BY <2>1
  <2> QED
    BY <1>12, <2>2, <2>3 DEF DispatchSend, QueueCap
<1>13. CASE DispatchAbandon
  BY <1>13 DEF DispatchAbandon
<1>14. CASE DispatchExit
  BY <1>14 DEF DispatchExit
<1>15. CASE StopCancel
  BY <1>15 DEF StopCancel
<1>16. CASE StopClose
  BY <1>16 DEF StopClose
<1>17. ASSUME NEW w \in Workers, Receive(w) PROVE Typed'
  BY <1>17, QueueCapType DEF Receive, Goto, PC, NoJob
<1>18. ASSUME NEW w \in Workers, WorkerExit(w) PROVE Typed'
  BY <1>18 DEF WorkerExit, Goto, PC
<1>19. ASSUME NEW w \in Workers, RegisterCancel(w) PROVE Typed'
  BY <1>19 DEF RegisterCancel, Goto, PC
<1>20. ASSUME NEW w \in Workers, MarkStarted(w) PROVE Typed'
  BY <1>20, SetStatusType DEF MarkStarted, Goto, PC, JobStatus, Active
<1>21. ASSUME NEW w \in Workers, DistBuilding(w) PROVE Typed'
  BY <1>21 DEF DistBuilding, Goto, PC, DistStatus
<1>22. ASSUME NEW w \in Workers, Prepare(w) PROVE Typed'
  BY <1>22, <1>0 DEF Prepare, Goto, PC, StageIx, StageStatus
<1>23. ASSUME NEW w \in Workers, PrepareFails(w) PROVE Typed'
  BY <1>23 DEF PrepareFails, Goto, PC
<1>24. ASSUME NEW w \in Workers, CheckCancelled(w) PROVE Typed'
  BY <1>24 DEF CheckCancelled, Goto, PC
<1>25. ASSUME NEW w \in Workers, UpdateStage(w) PROVE Typed'
  BY <1>25, SetStatusType, StageStatusActive DEF UpdateStage, Goto, PC, JobStatus
<1>26. ASSUME NEW w \in Workers, StageRunning(w) PROVE Typed'
  BY <1>26, SetStageRowsType DEF StageRunning, Goto, PC, StageStatus
<1>27. ASSUME NEW w \in Workers, MarkStageCompleted(w) PROVE Typed'
  BY <1>27, <1>0, SetStageRowsType DEF MarkStageCompleted, Goto, PC, StageStatus, LastStage, StageIx
<1>28. ASSUME NEW w \in Workers, MarkStageFailed(w) PROVE Typed'
  BY <1>28, SetStageRowsType DEF MarkStageFailed, Goto, PC, StageStatus
<1>29. ASSUME NEW w \in Workers, MarkFailed(w) PROVE Typed'
  BY <1>29, SetStatusType DEF MarkFailed, Goto, PC, JobStatus, Terminal
<1>30. ASSUME NEW w \in Workers, DistFailed(w) PROVE Typed'
  BY <1>30, <1>0 DEF DistFailed, Goto, PC, DistStatus, Return, NoJob, StageIx
<1>31. ASSUME NEW w \in Workers, MarkCompleted(w) PROVE Typed'
  BY <1>31, SetStatusType DEF MarkCompleted, Goto, PC, JobStatus, Terminal
<1>32. ASSUME NEW w \in Workers, DistReady(w) PROVE Typed'
  BY <1>32 DEF DistReady, Goto, PC, DistStatus
<1>33. ASSUME NEW w \in Workers, Unregister(w) PROVE Typed'
  <2>1. req' \in [Clients -> Request]
    <3>1. ASSUME NEW c \in Clients, req[c].op = "cancel"
          PROVE  [req[c] EXCEPT !.fn = NoWorker] \in Request
      BY <3>1 DEF Request
    <3> QED
      BY <1>33, <3>1 DEF Unregister
  <2>2. cancelFuncs' \in [Jobs -> Workers \cup {NoWorker}]
    BY <1>33 DEF Unregister
  <2>3. /\ pc' \in [Workers -> PC]
        /\ job' \in [Workers -> Jobs \cup {NoJob}]
        /\ stage' \in [Workers -> StageIx]
        /\ done' \in [Workers -> BOOLEAN]
    BY <1>33, <1>0 DEF Unregister, Goto, PC, Return
  <2>4. JobKnown'
    BY <1>33 DEF Unregister, Goto, Return
  <2> QED
    BY <1>33, <2>1, <2>2, <2>3, <2>4 DEF Unregister, QueueCap
<1>34. ASSUME NEW w \in Workers, Progress(w) PROVE Typed'
  BY <1>34, SetStatusType, StageStatusActive DEF Progress, Goto, PC, JobStatus
<1>35. ASSUME NEW w \in Workers, StageSucceeds(w) PROVE Typed'
  BY <1>35 DEF StageSucceeds, Goto, PC
<1>36. ASSUME NEW w \in Workers, StageErrs(w) PROVE Typed'
  BY <1>36 DEF StageErrs, Goto, PC
<1>37. ASSUME NEW w \in Workers, Panic(w) PROVE Typed'
  BY <1>37 DEF Panic, Goto, PC
<1>38. CASE UNCHANGED vars
  BY <1>38 DEF vars
<1> QED
  BY <1>1, <1>2, <1>3, <1>4, <1>5, <1>6, <1>7, <1>8, <1>9, <1>10, <1>11, <1>12, <1>13, <1>14, <1>15, <1>16, <1>17, <1>18, <1>19, <1>20, <1>21, <1>22, <1>23, <1>24, <1>25, <1>26, <1>27, <1>28, <1>29, <1>30, <1>31, <1>32, <1>33, <1>34, <1>35, <1>36, <1>37, <1>38
  DEF Next, ClientStep, DispatcherStep, StopStep, WorkerStep, RunStep, StageEnds


\* Every behaviour is well typed, and the channel never holds more than its
\* capacity, whichever of Submit and the dispatcher fill it.
THEOREM TypeCorrect == Spec => []TypeOK
<1>1. Spec => []Typed
  BY InitTyped, NextTyped, PTL DEF Spec
<1>2. Typed => TypeOK
  BY DEF Typed
<1> QED
  BY <1>1, <1>2, PTL

-----------------------------------------------------------------------------
(***************************************************************************)
(* ActiveBuildHasRunner is inductive together with the types.              *)
(***************************************************************************)

\* A step that makes no row active and takes no run out of RowHeld keeps it.
LEMMA RunnersKept ==
    ASSUME ActiveBuildHasRunner,
           \A j \in Jobs : status'[j] \in Active => status[j] \in Active,
           \A w \in Workers : pc[w] \in RowHeld => pc'[w] \in RowHeld /\ job'[w] = job[w]
    PROVE  ActiveBuildHasRunner'
BY DEF ActiveBuildHasRunner

\* A step that makes a row active is taken by a run that holds it from then on.
LEMMA RunnerActivates ==
    ASSUME Typed, ActiveBuildHasRunner, NEW v \in Workers, job[v] \in Jobs,
           NEW s \in Active, SetStatus(job[v], s), pc'[v] \in RowHeld, job' = job,
           \A w \in Workers : pc[w] \in RowHeld => pc'[w] \in RowHeld
    PROVE  ActiveBuildHasRunner'
BY DEF ActiveBuildHasRunner, SetStatus, Typed, TypeOK

\* A run that gives up its row has written a status that is not active, unless
\* the row is gone.
LEMMA RunnerReleases ==
    ASSUME Typed, ActiveBuildHasRunner, NEW v \in Workers, job[v] \in Jobs,
           NEW s \in JobStatus \ (Active \cup {"absent"}), SetStatus(job[v], s), job' = job,
           \A w \in Workers \ {v} : pc'[w] = pc[w]
    PROVE  ActiveBuildHasRunner'
<1> SUFFICES ASSUME NEW j \in Jobs, status'[j] \in Active
             PROVE  \E w \in Workers : pc'[w] \in RowHeld /\ job'[w] = j
  BY DEF ActiveBuildHasRunner
<1>1. "absent" \notin Active
  BY DEF Active
<1>2. j # job[v] /\ status[j] \in Active
  BY <1>1 DEF SetStatus, Exists, Typed, TypeOK
<1> QED
  BY <1>2 DEF ActiveBuildHasRunner

\* A step keeps every active build in the hands of a run.
LEMMA NextActive == Typed /\ ActiveBuildHasRunner /\ [Next]_vars => ActiveBuildHasRunner'
<1> SUFFICES ASSUME Typed, ActiveBuildHasRunner, [Next]_vars
             PROVE  ActiveBuildHasRunner'
  OBVIOUS
<1> USE DEF Typed, TypeOK, JobKnown
<1>1. ASSUME NEW c \in Clients, ClientStep(c) PROVE ActiveBuildHasRunner'
  <2>1. pc' = pc /\ job' = job
    BY <1>1 DEF ClientStep, Submit, ClearBuilds, EditRead, CancelLookup, RetryCheck,
         Enqueue, CancelCall, CancelMark, RetryReset, EditSave, worker
  <2> DEFINE NoneActivated == \A j \in Jobs : status'[j] \in Active => status[j] \in Active
  <2>2. NoneActivated
    <3>1. ASSUME NEW d \in Dists, Submit(c, d) PROVE NoneActivated
      BY <3>1 DEF Submit, Active
    <3>2. ASSUME NEW d \in Dists, ClearBuilds(c, d) PROVE NoneActivated
      BY <3>2 DEF ClearBuilds, Active
    <3>3. CASE CancelMark(c) \/ RetryReset(c)
      BY <3>3 DEF CancelMark, RetryReset, SetStatus, Active
    <3>4. CASE status' = status
      BY <3>4
    <3> QED
      BY <3>1, <3>2, <3>3, <3>4, <1>1 DEF ClientStep, EditRead, CancelLookup,
           RetryCheck, Enqueue, CancelCall, EditSave, tables
  <2> QED
    BY <2>1, <2>2, RunnersKept
<1>2. CASE DispatcherStep \/ StopStep \/ UNCHANGED vars
  <2>1. UNCHANGED <<status, pc, job>>
    BY <1>2 DEF DispatcherStep, DispatchList, DispatchSend, DispatchAbandon,
         DispatchExit, StopStep, StopCancel, StopClose, vars, tables, worker
  <2> QED
    BY <2>1, RunnersKept
<1>3. ASSUME NEW w \in Workers, MarkStarted(w) \/ UpdateStage(w) \/ Progress(w)
      PROVE  ActiveBuildHasRunner'
  <2>1. job[w] \in Jobs
    BY <1>3 DEF MarkStarted, UpdateStage, Progress, Goto
  <2>2. CASE MarkStarted(w) /\ ~Exists(job[w])
    BY <2>1, <2>2, RunnersKept DEF MarkStarted, Goto, SetStatus, RowHeld
  <2>3. CASE MarkStarted(w) /\ Exists(job[w])
    <3>1. "resolving" \in Active
      BY DEF Active
    <3> QED
      BY <2>1, <2>3, <3>1, RunnerActivates DEF MarkStarted, Goto, RowHeld
  <2>4. CASE UpdateStage(w) \/ Progress(w)
    <3>1. StatusOfStage(Stages[stage[w]]) \in Active
      BY StageStatusActive
    <3> QED
      BY <2>1, <2>4, <3>1, RunnerActivates DEF UpdateStage, Progress, Goto, RowHeld, worker
  <2> QED
    BY <1>3, <2>2, <2>3, <2>4
<1>4. ASSUME NEW w \in Workers, MarkFailed(w) \/ MarkCompleted(w)
      PROVE  ActiveBuildHasRunner'
  <2>1. job[w] \in Jobs /\ job' = job /\ \A u \in Workers \ {w} : pc'[u] = pc[u]
    BY <1>4 DEF MarkFailed, MarkCompleted, Goto
  <2>2. {"failed", "completed"} \subseteq JobStatus \ (Active \cup {"absent"})
    BY DEF JobStatus, Active, Terminal
  <2> QED
    BY <1>4, <2>1, <2>2, RunnerReleases DEF MarkFailed, MarkCompleted
<1>5. ASSUME NEW w \in Workers,
             \/ Receive(w) \/ WorkerExit(w) \/ RegisterCancel(w) \/ DistBuilding(w)
             \/ Prepare(w) \/ PrepareFails(w) \/ CheckCancelled(w) \/ StageRunning(w)
             \/ MarkStageCompleted(w) \/ MarkStageFailed(w) \/ DistFailed(w)
             \/ DistReady(w) \/ Unregister(w) \/ StageEnds(w)
      PROVE  ActiveBuildHasRunner'
  <2>1. status' = status
    BY <1>5 DEF Receive, WorkerExit, RegisterCancel, DistBuilding, Prepare,
         PrepareFails, CheckCancelled, StageRunning, MarkStageCompleted,
         MarkStageFailed, DistFailed, DistReady, Unregister, StageEnds,
         StageSucceeds, StageErrs, Panic, tables
  <2>2. \A u \in Workers : pc[u] \in RowHeld => pc'[u] \in RowHeld /\ job'[u] = job[u]
    BY <1>5 DEF Receive, WorkerExit, RegisterCancel, DistBuilding, Prepare,
         PrepareFails, CheckCancelled, StageRunning, MarkStageCompleted,
         MarkStageFailed, DistFailed, DistReady, Unregister, StageEnds,
         StageSucceeds, StageErrs, Panic, Goto, Return, RowHeld
  <2> QED
    BY <2>1, <2>2, RunnersKept
<1> QED
  BY <1>1, <1>2, <1>3, <1>4, <1>5 DEF Next, WorkerStep, RunStep

\* A build shown as resolving ... packaging is always being worked on, for any
\* number of workers that may run it at the same time: no way out of processJob
\* leaves its row active.
THEOREM ActiveBuilds == Spec => []ActiveBuildHasRunner
<1>1. Init => ActiveBuildHasRunner
  BY DEF Init, ActiveBuildHasRunner, Active
<1> QED
  BY <1>1, InitTyped, NextTyped, NextActive, PTL DEF Spec

-----------------------------------------------------------------------------
(***************************************************************************)
(* CancelFuncsLive is inductive together with the types.                   *)
(***************************************************************************)

\* A step that adds no entry and ends no registered run keeps it.
LEMMA EntriesKept ==
    ASSUME CancelFuncsLive, cancelFuncs' = cancelFuncs,
           \A w \in Workers : Registered(w) => Registered(w)' /\ job'[w] = job[w]
    PROVE  CancelFuncsLive'
BY DEF CancelFuncsLive

\* A step leaves no cancel function behind its run.
LEMMA NextCancelFuncs == Typed /\ CancelFuncsLive /\ [Next]_vars => CancelFuncsLive'
<1> SUFFICES ASSUME Typed, CancelFuncsLive, [Next]_vars PROVE CancelFuncsLive'
  OBVIOUS
<1> USE DEF Typed, TypeOK, JobKnown
<1>1. CASE (\E c \in Clients : ClientStep(c)) \/ DispatcherStep \/ StopStep \/ UNCHANGED vars
  <2>1. UNCHANGED <<cancelFuncs, pc, job>>
    BY <1>1 DEF ClientStep, Submit, ClearBuilds, EditRead, CancelLookup, RetryCheck,
         Enqueue, CancelCall, CancelMark, RetryReset, EditSave, DispatcherStep,
         DispatchList, DispatchSend, DispatchAbandon, DispatchExit, StopStep,
         StopCancel, StopClose, vars, manager, worker
  <2> QED
    BY <2>1, EntriesKept DEF Registered
<1>2. ASSUME NEW w \in Workers, RegisterCancel(w) PROVE CancelFuncsLive'
  BY <1>2 DEF RegisterCancel, Goto, CancelFuncsLive, Registered, NoContext
<1>3. ASSUME NEW w \in Workers, Unregister(w) PROVE CancelFuncsLive'
  <2>1. job[w] \in Jobs /\ cancelFuncs' = [cancelFuncs EXCEPT ![job[w]] = NoWorker]
    BY <1>3 DEF Unregister, Goto
  <2>2. \A u \in Workers \ {w} : pc'[u] = pc[u] /\ job'[u] = job[u]
    BY <1>3 DEF Unregister, Goto, Return
  <2>3. SUFFICES ASSUME NEW j \in Jobs, NEW u \in Workers, cancelFuncs'[j] = u
                 PROVE  job'[u] = j /\ Registered(u)'
    BY DEF CancelFuncsLive
  <2>4. j # job[w] /\ cancelFuncs[j] = u
    BY <2>1, <2>3, WorkersAssumption
  <2>5. job[u] = j /\ Registered(u) /\ u # w
    BY <2>4 DEF CancelFuncsLive
  <2> QED
    BY <2>2, <2>5 DEF Registered
<1>4. ASSUME NEW w \in Workers,
             \/ Receive(w) \/ WorkerExit(w) \/ MarkStarted(w) \/ DistBuilding(w)
             \/ Prepare(w) \/ PrepareFails(w) \/ CheckCancelled(w) \/ UpdateStage(w)
             \/ StageRunning(w) \/ MarkStageCompleted(w) \/ MarkStageFailed(w)
             \/ MarkFailed(w) \/ DistFailed(w) \/ MarkCompleted(w) \/ DistReady(w)
             \/ Progress(w) \/ StageEnds(w)
      PROVE  CancelFuncsLive'
  <2>1. cancelFuncs' = cancelFuncs
    BY <1>4 DEF Receive, WorkerExit, MarkStarted, DistBuilding, Prepare, PrepareFails,
         CheckCancelled, UpdateStage, StageRunning, MarkStageCompleted,
         MarkStageFailed, MarkFailed, DistFailed, MarkCompleted, DistReady,
         Progress, StageEnds, StageSucceeds, StageErrs, Panic, manager
  <2>2. \A u \in Workers : Registered(u) => Registered(u)' /\ job'[u] = job[u]
    BY <1>4 DEF Receive, WorkerExit, MarkStarted, DistBuilding, Prepare, PrepareFails,
         CheckCancelled, UpdateStage, StageRunning, MarkStageCompleted,
         MarkStageFailed, MarkFailed, DistFailed, MarkCompleted, DistReady,
         Progress, StageEnds, StageSucceeds, StageErrs, Panic, worker,
         Goto, Return, Registered, NoContext
  <2> QED
    BY <2>1, <2>2, EntriesKept
<1> QED
  BY <1>1, <1>2, <1>3, <1>4 DEF Next, WorkerStep, RunStep

\* cancelFuncs never holds a function for a run that is over, or for another
\* job, however many workers register and unregister one job at a time.
THEOREM CancelFuncsNeverLeak == Spec => []CancelFuncsLive
<1>1. Init => CancelFuncsLive
  BY WorkersAssumption DEF Init, CancelFuncsLive
<1> QED
  BY <1>1, InitTyped, NextTyped, NextCancelFuncs, PTL DEF Spec

-----------------------------------------------------------------------------
(***************************************************************************)
(* ClearedStaysCleared needs to know that a deleted build has no stage     *)
(* rows left (ON DELETE CASCADE) and that identifiers are given in order.  *)
(***************************************************************************)
Cleared ==
    \A j \in Jobs : ~Exists(j) => \A i \in StageIx : stageRows[j][i] = {}

\* A step that deletes no row and adds no stage row keeps it.
LEMMA ClearedKept ==
    ASSUME Cleared, stageRows' = stageRows,
           \A j \in Jobs : Exists(j) => Exists(j)'
    PROVE  Cleared'
BY DEF Cleared

\* An UPDATE by id neither creates nor deletes rows.
LEMMA SetStatusExists ==
    ASSUME Typed, NEW j \in Jobs, NEW s \in JobStatus \ {"absent"}, SetStatus(j, s)
    PROVE  \A k \in Jobs : Exists(k)' <=> Exists(k)
BY DEF Typed, TypeOK, SetStatus, Exists

\* What a step may do to the rows of a build that does not exist.
Untouched ==
    \A j \in Jobs : j <= submitted /\ ~Exists(j) =>
        status'[j] = "absent" /\ stageRows'[j] = stageRows[j]

\* A step brings no cleared row back.
LEMMA NextCleared == Typed /\ Cleared /\ [Next]_vars => Cleared' /\ Untouched
<1> SUFFICES ASSUME Typed, Cleared, [Next]_vars PROVE Cleared' /\ Untouched
  OBVIOUS
<1> USE DEF Typed, TypeOK, JobKnown
<1>0. {"resolving", "cancelled", "pending", "failed", "completed"} \subseteq JobStatus \ {"absent"}
  BY DEF JobStatus, Active, Terminal
<1>1. ASSUME NEW c \in Clients, NEW d \in Dists, Submit(c, d) PROVE Cleared' /\ Untouched
  BY <1>1 DEF Submit, Cleared, Untouched, Exists, Jobs
<1>2. ASSUME NEW c \in Clients, NEW d \in Dists, ClearBuilds(c, d) PROVE Cleared' /\ Untouched
  BY <1>2 DEF ClearBuilds, Cleared, Untouched, Exists
<1>3. ASSUME NEW j \in Jobs, NEW s \in JobStatus \ {"absent"}, SetStatus(j, s),
             stageRows' = stageRows
      PROVE  Cleared' /\ Untouched
  <2>1. \A k \in Jobs : Exists(k)' <=> Exists(k)
    BY <1>3, SetStatusExists
  <2> QED
    BY <1>3, <2>1, ClearedKept DEF Untouched, Exists
<1>4. ASSUME NEW w \in Workers, MarkStarted(w) \/ UpdateStage(w) \/ Progress(w)
                 \/ MarkFailed(w) \/ MarkCompleted(w)
      PROVE  Cleared' /\ Untouched
  <2>1. StatusOfStage(Stages[stage[w]]) \in JobStatus \ {"absent"}
    <3>1. StatusOfStage(Stages[stage[w]]) \in Active
      BY StageStatusActive
    <3> QED
      BY <3>1 DEF JobStatus, Active
  <2>2. job[w] \in Jobs /\ stageRows' = stageRows
    BY <1>4 DEF MarkStarted, UpdateStage, Progress, MarkFailed, MarkCompleted, Goto
  <2> QED
    BY <1>0, <1>3, <1>4, <2>1, <2>2 DEF MarkStarted, UpdateStage, Progress,
       MarkFailed, MarkCompleted
<1>5. ASSUME NEW c \in Clients, CancelMark(c) \/ RetryReset(c)
      PROVE  Cleared' /\ Untouched
  <2>1. req[c].job \in Jobs /\ stageRows' = stageRows
    BY <1>5, RequestFields DEF CancelMark, RetryReset
  <2> QED
    BY <1>0, <1>3, <1>5, <2>1 DEF CancelMark, RetryReset
<1>6. ASSUME NEW w \in Workers, Prepare(w) PROVE Cleared' /\ Untouched
  BY <1>6 DEF Prepare, Goto, Cleared, Untouched, Exists
<1>7. ASSUME NEW w \in Workers, NEW s \in StageStatus, job[w] \in Jobs,
             SetStageRows(job[w], stage[w], s), status' = status
      PROVE  Cleared' /\ Untouched
  BY <1>7 DEF SetStageRows, Cleared, Untouched, Exists
<1>8. ASSUME NEW w \in Workers, StageRunning(w) \/ MarkStageCompleted(w) \/ MarkStageFailed(w)
      PROVE  Cleared' /\ Untouched
  BY <1>7, <1>8 DEF StageRunning, MarkStageCompleted, MarkStageFailed, Goto, StageStatus
<1>9. CASE UNCHANGED <<status, stageRows>>
  BY <1>9, ClearedKept DEF Untouched, Exists
<1>10. ASSUME NEW c \in Clients, ClientStep(c) PROVE Cleared' /\ Untouched
  BY <1>1, <1>2, <1>5, <1>9, <1>10 DEF ClientStep, EditRead, CancelLookup, RetryCheck,
     Enqueue, CancelCall, EditSave, tables
<1>11. CASE DispatcherStep \/ StopStep \/ UNCHANGED vars
  BY <1>9, <1>11 DEF DispatcherStep, DispatchList, DispatchSend, DispatchAbandon,
     DispatchExit, StopStep, StopCancel, StopClose, vars, tables
<1>12. ASSUME NEW w \in Workers, WorkerStep(w) PROVE Cleared' /\ Untouched
  <2>1. CASE \/ Receive(w) \/ WorkerExit(w) \/ RegisterCancel(w) \/ DistBuilding(w)
             \/ PrepareFails(w) \/ CheckCancelled(w) \/ DistFailed(w) \/ DistReady(w)
             \/ Unregister(w) \/ StageEnds(w)
    BY <1>9, <2>1 DEF Receive, WorkerExit, RegisterCancel, DistBuilding, PrepareFails,
       CheckCancelled, DistFailed, DistReady, Unregister, StageEnds,
       StageSucceeds, StageErrs, Panic, tables
  <2> QED
    BY <1>4, <1>6, <1>8, <1>12, <2>1 DEF WorkerStep, RunStep
<1> QED
  BY <1>10, <1>11, <1>12 DEF Next

\* A build deleted while runs, cancellations and retries of it are under way
\* never comes back, and gets no stage rows.
THEOREM ClearedNeverReturns == Spec => ClearedStaysCleared
<1>1. Init => Cleared
  BY DEF Init, Cleared
<1>2. Untouched => [\A j \in Jobs : j <= submitted /\ ~Exists(j) =>
                       status'[j] = "absent" /\ stageRows'[j] = stageRows[j]]_vars
  BY DEF Untouched
<1> QED
  BY <1>1, <1>2, InitTyped, NextTyped, NextCleared, PTL DEF Spec, ClearedStaysCleared

-----------------------------------------------------------------------------
(***************************************************************************)
(* BuildingDistHasRunner, when nobody edits distributions.  It needs to    *)
(* know that whatever refers to a build refers to one that was submitted:  *)
(* only such a build keeps its distribution for ever.                      *)
(***************************************************************************)
Given(j) == j <= submitted

Submitted ==
    /\ \A j \in Jobs : Exists(j) => Given(j)
    /\ \A i \in 1 .. Len(queue) : Given(queue[i])
    /\ \A j \in todo : Given(j)
    /\ \A w \in Workers : pc[w] \notin {"idle", "stopped"} => Given(job[w])
    /\ \A c \in Clients : req[c].op = "enqueue" => Given(req[c].job)

\* A step that creates no row, sends nothing and hands out no job keeps it.
LEMMA SubmittedKept ==
    ASSUME Submitted, submitted' = submitted, queue' = queue, todo' \subseteq todo,
           \A j \in Jobs : Exists(j)' => Exists(j),
           \A w \in Workers : pc'[w] \notin {"idle", "stopped"} =>
               pc[w] \notin {"idle", "stopped"} /\ job'[w] = job[w],
           \A c \in Clients : req'[c].op = "enqueue" => req'[c] = req[c]
    PROVE  Submitted'
BY DEF Submitted, Given

\* A step keeps what is known of the builds submitted so far.
LEMMA NextSubmitted == Typed /\ Submitted /\ [Next]_vars => Submitted'
<1> SUFFICES ASSUME Typed, Submitted, [Next]_vars PROVE Submitted'
  OBVIOUS
<1> USE DEF Typed, TypeOK, JobKnown
<1>1. ASSUME NEW c \in Clients, NEW d \in Dists, Submit(c, d) PROVE Submitted'
  <2>1. submitted' = submitted + 1 /\ submitted \in Nat
    BY <1>1 DEF Submit
  <2>2. \A j \in Nat : Given(j) => Given(j)'
    BY <2>1 DEF Given
  <2>3. \A j \in Jobs : Exists(j)' => Given(j)'
    BY <1>1, <2>1, <2>2 DEF Submit, Submitted, Exists, Given, Jobs
  <2>4. \A i \in 1 .. Len(queue)' : Given(queue[i])'
    <3>1. queue' = queue /\ \A i \in 1 .. Len(queue) : queue[i] \in Nat
      <4>1. \A i \in 1 .. Len(queue) : queue[i] \in Jobs
        OBVIOUS
      <4> QED
        BY <1>1, <4>1 DEF Submit, Jobs, manager
    <3> QED
      BY <2>2, <3>1 DEF Submitted, Given
  <2>5. \A j \in todo' : Given(j)'
    BY <1>1, <2>2 DEF Submit, Submitted, Jobs, dispatcher
  <2>6. \A w \in Workers : pc'[w] \notin {"idle", "stopped"} => Given(job[w])'
    BY <1>1, <2>2 DEF Submit, Submitted, Jobs, worker
  <2>7. ASSUME NEW b \in Clients, req'[b].op = "enqueue" PROVE Given(req[b].job)'
    <3>1. CASE b = c
      BY <1>1, <2>1, <3>1 DEF Submit, Given, Jobs
    <3>2. CASE b # c
      <4>1. req'[b] = req[b] /\ req[b].job \in Nat
        BY <1>1, <2>7, <3>2, RequestFields DEF Submit, Jobs
      <4> QED
        BY <2>2, <2>7, <4>1 DEF Submitted, Given
    <3> QED
      BY <3>1, <3>2
  <2> QED
    BY <2>3, <2>4, <2>5, <2>6, <2>7 DEF Submitted
<1>2. ASSUME NEW c \in Clients, Enqueue(c) PROVE Submitted'
  <2>1. \A i \in 1 .. Len(queue') : Given(queue'[i])
    <3>1. CASE queue' = Append(queue, req[c].job)
      <4>1. req[c].job \in Jobs
        BY <1>2, RequestFields DEF Enqueue
      <4> QED
        BY <1>2, <3>1, <4>1 DEF Enqueue, Submitted
    <3> QED
      BY <1>2, <3>1 DEF Enqueue, Submitted
  <2> QED
    BY <1>2, <2>1 DEF Enqueue, Submitted, Given, Exists, Idle, tables, dispatcher, worker
<1>3. CASE DispatchList
  BY <1>3 DEF DispatchList, Pending, Submitted, Given, Exists, tables, manager, worker
<1>4. CASE DispatchSend
  <2>1. \A i \in 1 .. Len(queue') : Given(queue'[i])
    <3>1. ASSUME NEW j \in todo, queue' = Append(queue, j)
          PROVE  \A i \in 1 .. Len(queue') : Given(queue'[i])
      BY <3>1 DEF Submitted
    <3> QED
      BY <1>4, <3>1 DEF DispatchSend, Submitted
  <2>2. todo' \subseteq todo
    BY <1>4 DEF DispatchSend
  <2> QED
    BY <1>4, <2>1, <2>2 DEF DispatchSend, Submitted, Given, Exists, tables, worker
<1>5. ASSUME NEW w \in Workers, Receive(w) PROVE Submitted'
  <2>1. Given(Head(queue)) /\ \A i \in 1 .. Len(queue') : Given(queue'[i])
    BY <1>5 DEF Receive, Submitted
  <2> QED
    BY <1>5, <2>1 DEF Receive, Goto, Submitted, Given, Exists, tables, dispatcher
<1>6. ASSUME NEW j \in Jobs, NEW s \in JobStatus \ {"absent"}, SetStatus(j, s)
      PROVE  \A k \in Jobs : Exists(k)' => Exists(k)
  BY <1>6, SetStatusExists
<1>7. ASSUME NEW c \in Clients, NEW d \in Dists, ClearBuilds(c, d) \/ EditRead(c, d)
      PROVE  Submitted'
  BY <1>7, SubmittedKept DEF ClearBuilds, EditRead, Exists, tables, manager,
     dispatcher, worker
<1>8. ASSUME NEW c \in Clients, NEW j \in Jobs, CancelLookup(c, j) \/ RetryCheck(c, j)
      PROVE  Submitted'
  BY <1>8, SubmittedKept DEF CancelLookup, RetryCheck, Exists, tables, manager,
     dispatcher, worker
<1>9. ASSUME NEW c \in Clients, CancelCall(c) \/ EditSave(c) PROVE Submitted'
  BY <1>9, SubmittedKept DEF CancelCall, EditSave, Exists, Idle, tables, manager,
     dispatcher, worker
<1>10. ASSUME NEW c \in Clients, CancelMark(c) \/ RetryReset(c) PROVE Submitted'
  <2>1. req[c].job \in Jobs /\ {"cancelled", "pending"} \subseteq JobStatus \ {"absent"}
    BY <1>10, RequestFields DEF CancelMark, RetryReset, JobStatus, Active, Terminal
  <2>2. \A k \in Jobs : Exists(k)' => Exists(k)
    BY <1>6, <1>10, <2>1 DEF CancelMark, RetryReset
  <2> QED
    BY <1>10, <2>2, SubmittedKept DEF CancelMark, RetryReset, Idle, manager,
       dispatcher, worker
<1>11. CASE DispatchAbandon \/ DispatchExit \/ StopStep \/ UNCHANGED vars
  <2>1. UNCHANGED <<tables, queue, pc, job, req>> /\ todo' \subseteq todo
    BY <1>11 DEF DispatchAbandon, DispatchExit, StopStep, StopCancel, StopClose, vars,
       tables, manager, dispatcher, worker
  <2> QED
    BY <2>1, SubmittedKept DEF Exists, tables
<1>12. ASSUME NEW w \in Workers, MarkStarted(w) \/ UpdateStage(w) \/ Progress(w)
                 \/ MarkFailed(w) \/ MarkCompleted(w)
      PROVE  Submitted'
  <2>1. StatusOfStage(Stages[stage[w]]) \in Active
    BY StageStatusActive
  <2>2. job[w] \in Jobs /\ Active \cup Terminal \subseteq JobStatus \ {"absent"}
    BY <1>12 DEF MarkStarted, UpdateStage, Progress, MarkFailed, MarkCompleted, Goto,
       JobStatus, Active, Terminal
  <2>3. {"resolving", "failed", "completed"} \subseteq Active \cup Terminal
    BY DEF Active, Terminal
  <2>4. \A k \in Jobs : Exists(k)' => Exists(k)
    BY <1>6, <1>12, <2>1, <2>2, <2>3 DEF MarkStarted, UpdateStage, Progress,
       MarkFailed, MarkCompleted
  <2> QED
    BY <1>12, <2>4, SubmittedKept DEF MarkStarted, UpdateStage, Progress, MarkFailed,
       MarkCompleted, Goto, manager, dispatcher, worker
<1>13. ASSUME NEW w \in Workers,
              \/ WorkerExit(w) \/ RegisterCancel(w) \/ DistBuilding(w) \/ Prepare(w)
              \/ PrepareFails(w) \/ CheckCancelled(w) \/ StageRunning(w)
              \/ MarkStageCompleted(w) \/ MarkStageFailed(w) \/ DistFailed(w)
              \/ DistReady(w) \/ Unregister(w) \/ StageEnds(w)
      PROVE  Submitted'
  <2>1. UNCHANGED <<status, submitted, queue, todo>>
    BY <1>13 DEF WorkerExit, RegisterCancel, DistBuilding, Prepare, PrepareFails,
       CheckCancelled, StageRunning, MarkStageCompleted, MarkStageFailed, DistFailed,
       DistReady, Unregister, StageEnds, StageSucceeds, StageErrs, Panic, tables,
       manager, dispatcher
  <2>2. \A u \in Workers : pc'[u] \notin {"idle", "stopped"} =>
            pc[u] \notin {"idle", "stopped"} /\ job'[u] = job[u]
    BY <1>13 DEF WorkerExit, RegisterCancel, DistBuilding, Prepare, PrepareFails,
       CheckCancelled, StageRunning, MarkStageCompleted, MarkStageFailed, DistFailed,
       DistReady, Unregister, StageEnds, StageSucceeds, StageErrs, Panic, Goto, Return
  <2>3. \A c \in Clients : req'[c].op = "enqueue" => req'[c] = req[c]
    <3>1. CASE Unregister(w)
      <4>1. ASSUME NEW c \in Clients, req[c].op = "cancel"
            PROVE  [req[c] EXCEPT !.fn = NoWorker].op = "cancel"
        BY <4>1 DEF Request
      <4> QED
        BY <3>1, <4>1 DEF Unregister
    <3>2. CASE req' = req
      BY <3>2
    <3> QED
      BY <1>13, <3>1, <3>2 DEF WorkerExit, RegisterCancel, DistBuilding, Prepare,
         PrepareFails, CheckCancelled, StageRunning, MarkStageCompleted, MarkStageFailed,
         DistFailed, DistReady, StageEnds, StageSucceeds, StageErrs, Panic
  <2> QED
    BY <2>1, <2>2, <2>3, SubmittedKept DEF Exists
<1> QED
  BY <1>1, <1>2, <1>3, <1>4, <1>5, <1>7, <1>8, <1>9, <1>10, <1>11, <1>12, <1>13
  DEF Next, ClientStep, DispatcherStep, WorkerStep, RunStep

\* A step that starts no distribution, keeps the distribution of the builds
\* that runs work on and ends no such run keeps BuildingDistHasRunner.
LEMMA BuildersKept ==
    ASSUME BuildingDistHasRunner,
           \A d \in Dists : distStatus'[d] = "building" => distStatus[d] = "building",
           \A w \in Workers : pc[w] \in DistHeld =>
               pc'[w] \in DistHeld /\ job'[w] = job[w] /\ distOf'[job[w]] = distOf[job[w]]
    PROVE  BuildingDistHasRunner'
BY DEF BuildingDistHasRunner

NobodySaves == \A c \in Clients : req[c].op # "save"

\* Without edits nobody is about to write a distribution back.
LEMMA NextNobodySaves ==
    ASSUME "edit" \notin Requests
    PROVE  Typed /\ NobodySaves /\ [Next]_vars => NobodySaves'
<1> SUFFICES ASSUME Typed, NobodySaves, [Next]_vars PROVE NobodySaves'
  OBVIOUS
<1> USE DEF NobodySaves
<1>0. req \in [Clients -> Request]
  BY DEF Typed, TypeOK
<1>a. ASSUME NEW c \in Clients, NEW r, r.op # "save", req' = [req EXCEPT ![c] = r]
      PROVE  NobodySaves'
  BY <1>0, <1>a
<1>1. ASSUME NEW c \in Clients, ClientStep(c) PROVE NobodySaves'
  <2>1. ASSUME NEW d \in Dists, Submit(c, d) \/ ClearBuilds(c, d) PROVE NobodySaves'
    BY <1>a, <2>1 DEF Submit, ClearBuilds
  <2>2. ASSUME NEW j \in Jobs, CancelLookup(c, j) \/ RetryCheck(c, j) PROVE NobodySaves'
    BY <1>a, <2>2 DEF CancelLookup, RetryCheck
  <2>3. CASE Enqueue(c) \/ CancelCall(c) \/ CancelMark(c) \/ RetryReset(c) \/ EditSave(c)
    BY <1>a, <2>3 DEF Enqueue, CancelCall, CancelMark, RetryReset, EditSave, Idle
  <2>4. \A d \in Dists : ~EditRead(c, d)
    BY DEF EditRead, Ready
  <2> QED
    BY <1>1, <2>1, <2>2, <2>3, <2>4 DEF ClientStep
<1>2. ASSUME NEW w \in Workers, Unregister(w) PROVE NobodySaves'
  <2>1. ASSUME NEW c \in Clients, req[c].op = "cancel"
        PROVE  [req[c] EXCEPT !.fn = NoWorker].op = "cancel"
    BY <1>0, <2>1 DEF Request
  <2> QED
    BY <1>0, <1>2, <2>1 DEF Unregister
<1>3. CASE req' = req
  BY <1>3
<1> QED
  BY <1>1, <1>2, <1>3 DEF Next, DispatcherStep, DispatchList, DispatchSend,
     DispatchAbandon, DispatchExit, StopStep, StopCancel, StopClose, WorkerStep,
     RunStep, Receive, WorkerExit, RegisterCancel, MarkStarted, DistBuilding, Prepare,
     PrepareFails, CheckCancelled, UpdateStage, StageRunning, MarkStageCompleted,
     MarkStageFailed, MarkFailed, DistFailed, MarkCompleted, DistReady, Progress,
     StageEnds, StageSucceeds, StageErrs, Panic, vars

\* A step leaves no distribution building without a run.
LEMMA NextBuilders ==
    ASSUME Typed, Submitted, NobodySaves, BuildingDistHasRunner, [Next]_vars
    PROVE  BuildingDistHasRunner'
<1> USE DEF Typed, TypeOK, JobKnown
<1>1. ASSUME NEW c \in Clients, NEW d \in Dists, Submit(c, d) PROVE BuildingDistHasRunner'
  <2>1. \A w \in Workers : pc[w] \in DistHeld => job[w] # submitted + 1
    BY DEF DistHeld, RowHeld, Submitted, Given, Jobs
  <2> QED
    BY <1>1, <2>1, BuildersKept DEF Submit, worker, DistHeld, RowHeld
<1>2. ASSUME NEW c \in Clients, ClientStep(c), distOf' = distOf
      PROVE  BuildingDistHasRunner'
  BY <1>2, BuildersKept DEF NobodySaves, ClientStep, Submit, ClearBuilds, EditRead,
     CancelLookup, RetryCheck, Enqueue, CancelCall, CancelMark, RetryReset, EditSave,
     tables, worker
<1>3. CASE DispatcherStep \/ StopStep \/ UNCHANGED vars
  BY <1>3, BuildersKept DEF DispatcherStep, DispatchList, DispatchSend,
     DispatchAbandon, DispatchExit, StopStep, StopCancel, StopClose, vars, tables,
     worker
<1>4. ASSUME NEW w \in Workers, DistBuilding(w) PROVE BuildingDistHasRunner'
  <2>1. pc'[w] \in DistHeld /\ job' = job /\ distOf' = distOf
    BY <1>4 DEF DistBuilding, Goto, DistHeld, RowHeld
  <2>2. \A u \in Workers : pc[u] \in DistHeld => pc'[u] \in DistHeld
    BY <1>4 DEF DistBuilding, Goto, DistHeld, RowHeld
  <2>3. \A d \in Dists : d # distOf[job[w]] => distStatus'[d] = distStatus[d]
    BY <1>4 DEF DistBuilding, Goto
  <2> QED
    BY <2>1, <2>2, <2>3 DEF BuildingDistHasRunner
<1>5. ASSUME NEW w \in Workers, DistFailed(w) \/ DistReady(w)
      PROVE  BuildingDistHasRunner'
  <2>1. distOf[job[w]] \in Dists /\ distOf' = distOf
    BY <1>5 DEF DistFailed, DistReady, Goto, tables
  <2>2. distStatus'[distOf[job[w]]] # "building"
    BY <1>5, <2>1 DEF DistFailed, DistReady
  <2>3. \A d \in Dists \ {distOf[job[w]]} : distStatus'[d] = distStatus[d]
    BY <1>5, <2>1 DEF DistFailed, DistReady
  <2>4. \A u \in Workers \ {w} : pc'[u] = pc[u] /\ job'[u] = job[u]
    BY <1>5 DEF DistFailed, DistReady, Goto, Return
  <2>5. SUFFICES ASSUME NEW d \in Dists, distStatus'[d] = "building"
                 PROVE  \E u \in Workers : pc'[u] \in DistHeld /\ distOf'[job'[u]] = d
    BY DEF BuildingDistHasRunner
  <2>6. PICK u \in Workers : pc[u] \in DistHeld /\ distOf[job[u]] = d
    BY <2>2, <2>3, <2>5 DEF BuildingDistHasRunner
  <2>7. u # w
    BY <2>2, <2>5, <2>6
  <2> QED
    BY <2>1, <2>4, <2>6, <2>7
<1>6. ASSUME NEW w \in Workers, WorkerStep(w), ~DistBuilding(w), ~DistFailed(w), ~DistReady(w)
      PROVE  BuildingDistHasRunner'
  <2>1. distStatus' = distStatus /\ distOf' = distOf
    BY <1>6 DEF WorkerStep, RunStep, Receive, WorkerExit, RegisterCancel, MarkStarted,
       Prepare, PrepareFails, CheckCancelled, UpdateStage, StageRunning,
       MarkStageCompleted, MarkStageFailed, MarkFailed, MarkCompleted, Unregister,
       Progress, StageEnds, StageSucceeds, StageErrs, Panic, tables
  <2>2. \A u \in Workers : pc[u] \in DistHeld => pc'[u] \in DistHeld /\ job'[u] = job[u]
    BY <1>6 DEF WorkerStep, RunStep, Receive, WorkerExit, RegisterCancel, MarkStarted,
       Prepare, PrepareFails, CheckCancelled, UpdateStage, StageRunning,
       MarkStageCompleted, MarkStageFailed, MarkFailed, MarkCompleted, Unregister,
       Progress, StageEnds, StageSucceeds, StageErrs, Panic, worker, Goto, Return,
       DistHeld, RowHeld
  <2> QED
    BY <2>1, <2>2, BuildersKept
<1> QED
  BY <1>1, <1>2, <1>3, <1>4, <1>5, <1>6 DEF Next, ClientStep, ClearBuilds, EditRead,
     CancelLookup, RetryCheck, Enqueue, CancelCall, CancelMark, RetryReset, EditSave,
     tables

\* While nobody edits distributions, one that is shown as building has a run of
\* one of its builds at work, however many builds of it run at the same time.
THEOREM BuildingDists == "edit" \notin Requests => (Spec => []BuildingDistHasRunner)
<1> SUFFICES ASSUME "edit" \notin Requests PROVE Spec => []BuildingDistHasRunner
  OBVIOUS
<1>1. Init => Submitted /\ NobodySaves /\ BuildingDistHasRunner
  BY DEF Init, Submitted, NobodySaves, BuildingDistHasRunner, Exists, Idle
<1>2. NobodySaves /\ Typed /\ [Next]_vars => NobodySaves'
  BY NextNobodySaves
<1>3. Typed /\ Submitted /\ NobodySaves /\ BuildingDistHasRunner /\ [Next]_vars =>
          BuildingDistHasRunner'
  BY NextBuilders
<1> QED
  BY <1>1, <1>2, <1>3, InitTyped, NextTyped, NextSubmitted, PTL DEF Spec

-----------------------------------------------------------------------------
shown == <<ShownStatus, 1 .. submitted, RunnersOf>>

\* A step that leaves the rows and the runners alone is a stutter.
LEMMA Stutters ==
    ASSUME status' = status, submitted' = submitted,
           \A w \in Workers : (pc'[w] \in RowHeld) = (pc[w] \in RowHeld),
           \A w \in Workers : pc[w] \in RowHeld => job'[w] = job[w]
    PROVE  shown' = shown
<1>1. ShownStatus' = ShownStatus
  BY DEF ShownStatus
<1>2. RunnersOf' = RunnersOf
  BY DEF RunnersOf
<1> QED
  BY <1>1, <1>2 DEF shown

\* An update of the row of a job shows the new status, if there is a row.
LEMMA Shows ==
    ASSUME Typed, NEW j \in Jobs, NEW s \in JobStatus, SetStatus(j, s)
    PROVE  IF Exists(j)
             THEN Lifecycle!Show(j, IF s \in Active THEN "active" ELSE s)
             ELSE ShownStatus' = ShownStatus
<1>1. CASE Exists(j)
  <2>1. status' = [status EXCEPT ![j] = s]
    BY <1>1 DEF SetStatus
  <2>2. ShownStatus[j] # "absent"
    BY <1>1 DEF ShownStatus, Exists
  <2>3. ShownStatus' = [ShownStatus EXCEPT ![j] = IF s \in Active THEN "active" ELSE s]
    BY <2>1 DEF ShownStatus, Typed, TypeOK
  <2> QED
    BY <1>1, <2>2, <2>3 DEF Lifecycle!Show
<1>2. CASE ~Exists(j)
  BY <1>2 DEF SetStatus, ShownStatus
<1> QED
  BY <1>1, <1>2

\* Where no worker moves the runners stay.
LEMMA RunnersStay ==
    ASSUME pc' = pc, job' = job
    PROVE  RunnersOf' = RunnersOf
BY DEF RunnersOf

\* RunnersOf is a function of jobs, in both states of a step.
LEMMA RunnersFunction ==
    /\ RunnersOf = [j \in Jobs |-> RunnersOf[j]]
    /\ RunnersOf' = [j \in Jobs |-> RunnersOf'[j]]
BY DEF RunnersOf

\* Every step is a step of the lifecycle or a stutter.
LEMMA NextLifecycle == Typed /\ [Next]_vars => [Lifecycle!Next]_shown
<1> SUFFICES ASSUME Typed, [Next]_vars PROVE [Lifecycle!Next]_shown
  OBVIOUS
<1> USE DEF Typed, TypeOK, JobKnown
<1>1. ASSUME NEW c \in Clients, NEW d \in Dists, Submit(c, d) PROVE Lifecycle!Next
  <2> DEFINE j == submitted + 1
  <2>1. /\ j \in Jobs /\ submitted' = j /\ status' = [status EXCEPT ![j] = "pending"]
        /\ pc' = pc /\ job' = job
    BY <1>1, BoundsAssumption DEF Submit, Jobs, worker
  <2>2. ShownStatus' = [ShownStatus EXCEPT ![j] = "pending"]
    BY <2>1 DEF ShownStatus, Active
  <2>3. j \notin 1 .. submitted /\ (1 .. submitted)' = (1 .. submitted) \cup {j}
    BY <2>1
  <2>4. Lifecycle!Create(j)
    BY <2>1, <2>2, <2>3, RunnersStay DEF Lifecycle!Create
  <2> QED
    BY <2>1, <2>4 DEF Lifecycle!Next
<1>2. ASSUME NEW c \in Clients, NEW d \in Dists, ClearBuilds(c, d) PROVE Lifecycle!Next
  <2> DEFINE S == {j \in Jobs : distOf[j] = d}
  <2>1. /\ status' = [j \in Jobs |-> IF distOf[j] = d THEN "absent" ELSE status[j]]
        /\ submitted' = submitted /\ pc' = pc /\ job' = job
    BY <1>2 DEF ClearBuilds, worker
  <2>2. ShownStatus' = [j \in Jobs |-> IF j \in S THEN "absent" ELSE ShownStatus[j]]
    BY <2>1 DEF ShownStatus, Active
  <2>3. Lifecycle!Delete(S)
    BY <2>1, <2>2, RunnersStay DEF Lifecycle!Delete
  <2>4. S \in SUBSET Jobs
    OBVIOUS
  <2> QED
    BY <2>3, <2>4 DEF Lifecycle!Next
<1>3. ASSUME NEW c \in Clients, CancelMark(c) \/ RetryReset(c)
      PROVE  Lifecycle!Next \/ shown' = shown
  <2>1. /\ req[c].job \in Jobs /\ submitted' = submitted /\ pc' = pc /\ job' = job
        /\ {"cancelled", "pending"} \subseteq JobStatus \ Active
    BY <1>3, RequestFields DEF CancelMark, RetryReset, worker, JobStatus, Active, Terminal
  <2>2. PICK s \in {"cancelled", "pending"} : SetStatus(req[c].job, s)
    BY <1>3 DEF CancelMark, RetryReset
  <2>3. CASE Exists(req[c].job)
    <3>1. Lifecycle!Show(req[c].job, s)
      BY <2>1, <2>2, <2>3, Shows
    <3>2. Lifecycle!Cancel(req[c].job) \/ Lifecycle!Retry(req[c].job)
      BY <2>1, <2>2, <3>1, RunnersStay DEF Lifecycle!Cancel, Lifecycle!Retry
    <3> QED
      BY <2>1, <3>2 DEF Lifecycle!Next
  <2>4. CASE ~Exists(req[c].job)
    <3>1. status' = status
      BY <2>2, <2>4 DEF SetStatus
    <3> QED
      BY <2>1, <3>1, Stutters
  <2> QED
    BY <2>3, <2>4
<1>4. CASE UNCHANGED <<status, submitted, pc, job>>
  BY <1>4, Stutters
<1>5. ASSUME NEW c \in Clients, ClientStep(c) PROVE Lifecycle!Next \/ shown' = shown
  BY <1>1, <1>2, <1>3, <1>4, <1>5 DEF ClientStep, EditRead, CancelLookup, RetryCheck,
     Enqueue, CancelCall, EditSave, tables, worker
<1>6. CASE DispatcherStep \/ StopStep \/ UNCHANGED vars
  BY <1>4, <1>6 DEF DispatcherStep, DispatchList, DispatchSend, DispatchAbandon,
     DispatchExit, StopStep, StopCancel, StopClose, vars, tables, worker
<1>7. ASSUME NEW w \in Workers, MarkStarted(w) PROVE Lifecycle!Next \/ shown' = shown
  <2>1. /\ job[w] \in Jobs /\ submitted' = submitted /\ job' = job
        /\ pc[w] \notin RowHeld /\ SetStatus(job[w], "resolving")
        /\ \A u \in Workers \ {w} : pc'[u] = pc[u]
    BY <1>7 DEF MarkStarted, Goto, RowHeld
  <2>2. CASE Exists(job[w])
    <3>1. pc'[w] \in RowHeld
      BY <1>7, <2>2 DEF MarkStarted, Goto, RowHeld
    <3>2. Lifecycle!Show(job[w], "active")
      BY <2>1, <2>2, Shows DEF JobStatus, Active
    <3>3. RunnersOf' = [RunnersOf EXCEPT ![job[w]] = @ \cup {w}]
      <4>1. ASSUME NEW k \in Jobs
            PROVE  RunnersOf'[k] = IF k = job[w] THEN RunnersOf[k] \cup {w} ELSE RunnersOf[k]
        BY <2>1, <3>1 DEF RunnersOf
      <4> QED
        BY <2>1, <4>1, RunnersFunction
    <3>4. \A k \in Jobs : w \notin RunnersOf[k]
      BY <2>1 DEF RunnersOf
    <3>5. Lifecycle!Begin(job[w], w)
      BY <2>1, <3>2, <3>3, <3>4 DEF Lifecycle!Begin
    <3> QED
      BY <2>1, <3>5 DEF Lifecycle!Next
  <2>3. CASE ~Exists(job[w])
    <3>1. status' = status /\ pc'[w] \notin RowHeld
      BY <1>7, <2>3 DEF MarkStarted, Goto, SetStatus, RowHeld
    <3> QED
      BY <2>1, <3>1, Stutters
  <2> QED
    BY <2>2, <2>3
<1>8. ASSUME NEW w \in Workers, UpdateStage(w) \/ Progress(w)
      PROVE  Lifecycle!Next \/ shown' = shown
  <2> DEFINE s == StatusOfStage(Stages[stage[w]])
  <2>1. /\ job[w] \in Jobs /\ submitted' = submitted /\ job' = job
        /\ pc[w] \in RowHeld /\ pc'[w] \in RowHeld /\ SetStatus(job[w], s)
        /\ \A u \in Workers \ {w} : pc'[u] = pc[u]
    BY <1>8 DEF UpdateStage, Progress, Goto, RowHeld, worker
  <2>2. s \in Active /\ s \in JobStatus
    BY StageStatusActive DEF JobStatus
  <2>3. RunnersOf' = RunnersOf
    BY <2>1 DEF RunnersOf
  <2>4. CASE Exists(job[w])
    <3>1. Lifecycle!Show(job[w], "active")
      BY <2>1, <2>2, <2>4, Shows
    <3>2. w \in RunnersOf[job[w]]
      BY <2>1 DEF RunnersOf
    <3>3. Lifecycle!Report(job[w], w)
      BY <2>1, <2>3, <3>1, <3>2 DEF Lifecycle!Report
    <3> QED
      BY <2>1, <3>3 DEF Lifecycle!Next
  <2>5. CASE ~Exists(job[w])
    <3>1. ShownStatus' = ShownStatus
      BY <2>1, <2>2, <2>5, Shows
    <3> QED
      BY <2>1, <2>3, <3>1 DEF shown
  <2> QED
    BY <2>4, <2>5
<1>9. ASSUME NEW w \in Workers, MarkFailed(w) \/ MarkCompleted(w) PROVE Lifecycle!Next
  <2>1. PICK s \in {"failed", "completed"} : SetStatus(job[w], s)
    BY <1>9 DEF MarkFailed, MarkCompleted
  <2>2. /\ job[w] \in Jobs /\ submitted' = submitted /\ job' = job
        /\ pc[w] \in RowHeld /\ pc'[w] \notin RowHeld
        /\ \A u \in Workers \ {w} : pc'[u] = pc[u]
    BY <1>9 DEF MarkFailed, MarkCompleted, Goto, RowHeld
  <2>3. s \in JobStatus \ Active /\ s \in Lifecycle!Verdict
    BY DEF JobStatus, Active, Terminal, Lifecycle!Verdict
  <2>4. RunnersOf' = [RunnersOf EXCEPT ![job[w]] = @ \ {w}] /\ w \in RunnersOf[job[w]]
    <3>1. ASSUME NEW k \in Jobs
          PROVE  RunnersOf'[k] = IF k = job[w] THEN RunnersOf[k] \ {w} ELSE RunnersOf[k]
      BY <2>2 DEF RunnersOf
    <3>2. w \in RunnersOf[job[w]]
      BY <2>2 DEF RunnersOf
    <3> QED
      BY <2>2, <3>1, <3>2, RunnersFunction
  <2>5. \/ Lifecycle!Show(job[w], s)
        \/ ShownStatus[job[w]] = "absent" /\ ShownStatus' = ShownStatus
    <3>1. CASE Exists(job[w])
      BY <2>1, <2>2, <2>3, <3>1, Shows
    <3>2. CASE ~Exists(job[w])
      BY <2>1, <2>2, <3>2 DEF SetStatus, ShownStatus, Exists, Active
    <3> QED
      BY <3>1, <3>2
  <2>6. Lifecycle!End(job[w], w)
    BY <2>2, <2>3, <2>4, <2>5 DEF Lifecycle!End
  <2> QED
    BY <2>2, <2>6 DEF Lifecycle!Next
<1>10. ASSUME NEW w \in Workers,
              \/ Receive(w) \/ WorkerExit(w) \/ RegisterCancel(w) \/ DistBuilding(w)
              \/ Prepare(w) \/ PrepareFails(w) \/ CheckCancelled(w) \/ StageRunning(w)
              \/ MarkStageCompleted(w) \/ MarkStageFailed(w) \/ DistFailed(w)
              \/ DistReady(w) \/ Unregister(w) \/ StageEnds(w)
       PROVE  shown' = shown
  <2>1. status' = status /\ submitted' = submitted
    BY <1>10 DEF Receive, WorkerExit, RegisterCancel, DistBuilding, Prepare,
         PrepareFails, CheckCancelled, StageRunning, MarkStageCompleted,
         MarkStageFailed, DistFailed, DistReady, Unregister, StageEnds,
         StageSucceeds, StageErrs, Panic, tables
  <2>2. \A u \in Workers : (pc'[u] \in RowHeld) = (pc[u] \in RowHeld)
    BY <1>10 DEF Receive, WorkerExit, RegisterCancel, DistBuilding, Prepare,
         PrepareFails, CheckCancelled, StageRunning, MarkStageCompleted,
         MarkStageFailed, DistFailed, DistReady, Unregister, StageEnds,
         StageSucceeds, StageErrs, Panic, Goto, RowHeld
  <2>3. \A u \in Workers : pc[u] \in RowHeld => job'[u] = job[u]
    BY <1>10 DEF Receive, WorkerExit, RegisterCancel, DistBuilding, Prepare,
         PrepareFails, CheckCancelled, StageRunning, MarkStageCompleted,
         MarkStageFailed, DistFailed, DistReady, Unregister, StageEnds,
         StageSucceeds, StageErrs, Panic, Goto, Return, RowHeld
  <2> QED
    BY <2>1, <2>2, <2>3, Stutters
<1> QED
  BY <1>5, <1>6, <1>7, <1>8, <1>9, <1>10 DEF Next, WorkerStep, RunStep

\* Whatever the queue, the workers, the dispatcher and the requests do, the
\* build table moves only as the job lifecycle allows: the safety part of
\* ImplementsLifecycle.
THEOREM LifecycleIsKept == Spec => Lifecycle!SafeSpec
<1>1. Init => Lifecycle!Init
  <2> SUFFICES ASSUME Init PROVE Lifecycle!Init
    OBVIOUS
  <2>1. ShownStatus = [j \in Jobs |-> "absent"]
    BY DEF Init, ShownStatus, Active
  <2>2. RunnersOf = [j \in Jobs |-> {}]
    BY DEF Init, RunnersOf, RowHeld
  <2>3. 1 .. submitted = {}
    BY DEF Init
  <2> QED
    BY <2>1, <2>2, <2>3 DEF Lifecycle!Init
<1>2. Typed /\ [Next]_vars => [Lifecycle!Next]_(Lifecycle!lifecycle)
  BY NextLifecycle DEF shown, Lifecycle!lifecycle
<1> QED
  BY <1>1, <1>2, InitTyped, NextTyped, PTL DEF Spec, Lifecycle!SafeSpec

-----------------------------------------------------------------------------
(***************************************************************************)
(* A single worker.                                                        *)
(***************************************************************************)

OneWorker == \A u, v \in Workers : u = v

-----------------------------------------------------------------------------
(***************************************************************************)
(* SoleRunCancellable.                                                     *)
(***************************************************************************)

\* A step keeps the entry of the run in the map.
LEMMA NextCancellable ==
    ASSUME OneWorker, Typed, SoleRunCancellable, [Next]_vars
    PROVE  SoleRunCancellable'
<1> USE DEF Typed, TypeOK, JobKnown, OneWorker
<1>1. CASE (\E c \in Clients : ClientStep(c)) \/ DispatcherStep \/ StopStep \/ UNCHANGED vars
  <2>1. UNCHANGED <<cancelFuncs, pc, job>>
    BY <1>1 DEF ClientStep, Submit, ClearBuilds, EditRead, CancelLookup, RetryCheck,
         Enqueue, CancelCall, CancelMark, RetryReset, EditSave, DispatcherStep,
         DispatchList, DispatchSend, DispatchAbandon, DispatchExit, StopStep,
         StopCancel, StopClose, vars, manager, worker
  <2> QED
    BY <2>1 DEF SoleRunCancellable, Registered
<1>2. ASSUME NEW w \in Workers, RegisterCancel(w) PROVE SoleRunCancellable'
  BY <1>2 DEF RegisterCancel, Goto, SoleRunCancellable
<1>3. ASSUME NEW w \in Workers, Unregister(w) PROVE SoleRunCancellable'
  <2>1. ~Registered(w)'
    BY <1>3 DEF Unregister, Goto, Registered, NoContext
  <2> QED
    BY <2>1 DEF SoleRunCancellable
<1>4. ASSUME NEW w \in Workers,
             \/ Receive(w) \/ WorkerExit(w) \/ MarkStarted(w) \/ DistBuilding(w)
             \/ Prepare(w) \/ PrepareFails(w) \/ CheckCancelled(w) \/ UpdateStage(w)
             \/ StageRunning(w) \/ MarkStageCompleted(w) \/ MarkStageFailed(w)
             \/ MarkFailed(w) \/ DistFailed(w) \/ MarkCompleted(w) \/ DistReady(w)
             \/ Progress(w) \/ StageEnds(w)
      PROVE  SoleRunCancellable'
  <2>1. cancelFuncs' = cancelFuncs
    BY <1>4 DEF Receive, WorkerExit, MarkStarted, DistBuilding, Prepare, PrepareFails,
         CheckCancelled, UpdateStage, StageRunning, MarkStageCompleted,
         MarkStageFailed, MarkFailed, DistFailed, MarkCompleted, DistReady,
         Progress, StageEnds, StageSucceeds, StageErrs, Panic, manager
  <2>2. Registered(w)' => Registered(w) /\ job'[w] = job[w]
    BY <1>4 DEF Receive, WorkerExit, MarkStarted, DistBuilding, Prepare, PrepareFails,
         CheckCancelled, UpdateStage, StageRunning, MarkStageCompleted,
         MarkStageFailed, MarkFailed, DistFailed, MarkCompleted, DistReady,
         Progress, StageEnds, StageSucceeds, StageErrs, Panic, worker,
         Goto, Return, Registered, NoContext
  <2> QED
    BY <2>1, <2>2 DEF SoleRunCancellable
<1> QED
  BY <1>1, <1>2, <1>3, <1>4 DEF Next, WorkerStep, RunStep

\* With a single worker a run that has registered its cancel function can be
\* cancelled until it unregisters it: no earlier run of the build, and no
\* request, takes the entry away.
THEOREM RunsCancellable == OneWorker => (Spec => []SoleRunCancellable)
<1> SUFFICES ASSUME OneWorker PROVE Spec => []SoleRunCancellable
  OBVIOUS
<1>1. Init => SoleRunCancellable
  BY DEF Init, SoleRunCancellable, Registered, NoContext
<1> QED
  BY <1>1, InitTyped, NextTyped, NextCancellable, PTL DEF Spec

-----------------------------------------------------------------------------
(***************************************************************************)
(* StagesInOrder and CompletedMeansAllStages.  An update by name rewrites  *)
(* all the rows of a stage, those of earlier runs included, so the loop    *)
(* leaves completed rows behind it whatever it found.                      *)
(***************************************************************************)
InLoop == {"check", "update", "running", "execute", "stageDone", "stageFailed"}

\* Where the row of the job is no longer, or not yet, shown as completed.
Started == {"building", "prepare", "complete"} \cup InLoop

\* What a run has done so far.
Progressed(w) ==
    /\ pc[w] \in InLoop =>
         \A i \in 1 .. (stage[w] - 1) : stageRows[job[w]][i] \subseteq {"completed"}
    /\ pc[w] = "complete" =>
         \A i \in StageIx : stageRows[job[w]][i] \subseteq {"completed"}
    /\ pc[w] \in InLoop \cup {"complete"} /\ Exists(job[w]) =>
         \A i \in StageIx : stageRows[job[w]][i] # {}
    /\ pc[w] \in Started => status[job[w]] # "completed"

StagesInv == CompletedMeansAllStages /\ \A w \in Workers : Progressed(w)

\* A step that leaves the worker and the stage rows alone, or deletes rows.
LEMMA StagesKept ==
    ASSUME Typed, StagesInv, UNCHANGED <<pc, job, stage>>,
           \A j \in Jobs :
               \/ status'[j] = "absent" /\ stageRows'[j] = [i \in StageIx |-> {}]
               \/ /\ stageRows'[j] = stageRows[j]
                  /\ status'[j] = "completed" => status[j] = "completed"
                  /\ status'[j] # "absent" => status[j] # "absent"
    PROVE  StagesInv'
<1> USE DEF Typed, TypeOK, JobKnown, StagesInv
<1>1. CompletedMeansAllStages'
  <2> SUFFICES ASSUME NEW j \in Jobs, status'[j] = "completed"
               PROVE  \A i \in StageIx : stageRows'[j][i] = {"completed"}
    BY DEF CompletedMeansAllStages
  <2>1. status[j] = "completed" /\ stageRows'[j] = stageRows[j]
    OBVIOUS
  <2> QED
    BY <2>1 DEF CompletedMeansAllStages
<1>2. ASSUME NEW w \in Workers PROVE Progressed(w)'
  <2>1. CASE pc[w] \in {"idle", "stopped"}
    BY <2>1 DEF Progressed, InLoop, Started
  <2>2. CASE pc[w] \notin {"idle", "stopped"}
    <3>1. job[w] \in Jobs /\ stage[w] \in StageIx
      BY <2>2
    <3>2. 1 .. (stage[w] - 1) \subseteq StageIx
      BY <3>1, StagesAssumption DEF StageIx
    <3>3. Progressed(w)
      OBVIOUS
    <3>4. CASE status'[job[w]] = "absent" /\ stageRows'[job[w]] = [i \in StageIx |-> {}]
      BY <3>1, <3>2, <3>4 DEF Progressed, Exists
    <3>5. CASE /\ stageRows'[job[w]] = stageRows[job[w]]
               /\ status'[job[w]] = "completed" => status[job[w]] = "completed"
               /\ status'[job[w]] # "absent" => status[job[w]] # "absent"
      BY <3>1, <3>3, <3>5 DEF Progressed, Exists
    <3> QED
      BY <3>1, <3>4, <3>5
  <2> QED
    BY <2>1, <2>2
<1> QED
  BY <1>1, <1>2

\* A step keeps what the rows of the stages show.
LEMMA NextStages ==
    ASSUME OneWorker, Typed, Submitted, StagesInv, [Next]_vars
    PROVE  StagesInv'
<1> USE DEF Typed, TypeOK, JobKnown
<1>1. ASSUME NEW c \in Clients, NEW d \in Dists, Submit(c, d) PROVE StagesInv'
  <2>1. \A w \in Workers : pc[w] \notin {"idle", "stopped"} =>
            job[w] # submitted + 1 /\ status'[job[w]] = status[job[w]]
    BY <1>1 DEF Submit, Submitted, Given, Jobs
  <2>2. UNCHANGED <<pc, job, stage, stageRows>>
    BY <1>1 DEF Submit, worker
  <2>3. CompletedMeansAllStages'
    BY <1>1, <2>2 DEF Submit, StagesInv, CompletedMeansAllStages
  <2>4. \A w \in Workers : Progressed(w)'
    BY <2>1, <2>2 DEF StagesInv, Progressed, Exists, InLoop, Started
  <2> QED
    BY <2>3, <2>4 DEF StagesInv
<1>2. ASSUME NEW c \in Clients, NEW d \in Dists, ClearBuilds(c, d) PROVE StagesInv'
  BY <1>2, StagesKept DEF ClearBuilds, worker
<1>3. ASSUME NEW c \in Clients, CancelMark(c) \/ RetryReset(c) PROVE StagesInv'
  BY <1>3, StagesKept DEF CancelMark, RetryReset, SetStatus, Exists, worker
<1>4. CASE UNCHANGED <<status, stageRows, pc, job, stage>>
  BY <1>4, StagesKept
<1>5. ASSUME NEW c \in Clients, ClientStep(c) PROVE StagesInv'
  BY <1>1, <1>2, <1>3, <1>4, <1>5 DEF ClientStep, EditRead, CancelLookup, RetryCheck,
     Enqueue, CancelCall, EditSave, tables, worker
<1>6. CASE DispatcherStep \/ StopStep \/ UNCHANGED vars
  BY <1>4, <1>6 DEF DispatcherStep, DispatchList, DispatchSend, DispatchAbandon,
     DispatchExit, StopStep, StopCancel, StopClose, vars, tables, worker
<1>7. ASSUME NEW w \in Workers, CompletedMeansAllStages', Progressed(w)' PROVE StagesInv'
  BY <1>7 DEF StagesInv, OneWorker
<1>8. ASSUME NEW w \in Workers, WorkerStep(w) PROVE StagesInv'
  <2> USE DEF StagesInv
  <2>0. Progressed(w)
    OBVIOUS
  <2>1. CASE \/ Receive(w) \/ WorkerExit(w) \/ RegisterCancel(w)
             \/ DistBuilding(w) \/ PrepareFails(w) \/ CheckCancelled(w)
             \/ DistFailed(w) \/ DistReady(w) \/ Unregister(w) \/ StageEnds(w)
    <3>1. UNCHANGED <<status, stageRows>>
      BY <2>1 DEF Receive, WorkerExit, RegisterCancel, DistBuilding, PrepareFails,
         CheckCancelled, DistFailed, DistReady, Unregister, StageEnds, StageSucceeds,
         StageErrs, Panic, tables
    <3>2. CompletedMeansAllStages'
      BY <3>1 DEF CompletedMeansAllStages
    <3>3. \/ pc'[w] \notin Started
          \/ /\ pc'[w] \in InLoop /\ pc[w] \in InLoop
             /\ job'[w] = job[w] /\ stage'[w] = stage[w]
          \/ pc'[w] = "prepare" /\ pc[w] = "building" /\ job'[w] = job[w]
      BY <2>1 DEF Receive, WorkerExit, RegisterCancel, DistBuilding, PrepareFails,
         CheckCancelled, DistFailed, DistReady, Unregister, StageEnds, StageSucceeds,
         StageErrs, Panic, Goto, Return, Started, InLoop
    <3>4. Progressed(w)'
      BY <2>0, <3>1, <3>3 DEF Progressed, Exists, Started, InLoop
    <3> QED
      BY <1>7, <3>2, <3>4
  <2>2. CASE MarkStarted(w)
    <3>1. job[w] \in Jobs /\ job' = job /\ stageRows' = stageRows
      BY <2>2 DEF MarkStarted, Goto
    <3>2. CompletedMeansAllStages'
      BY <2>2, <3>1 DEF MarkStarted, SetStatus, CompletedMeansAllStages
    <3>3. pc'[w] \in {"building", "unregister"}
      BY <2>2 DEF MarkStarted, Goto
    <3>4. pc'[w] = "building" => status'[job[w]] = "resolving"
      BY <2>2, <3>1 DEF MarkStarted, Goto, SetStatus
    <3> QED
      BY <1>7, <3>1, <3>2, <3>3, <3>4 DEF Progressed, Started, InLoop
  <2>3. CASE Prepare(w)
    <3>1. /\ job[w] \in Jobs /\ job' = job /\ status' = status
          /\ pc[w] = "prepare" /\ pc'[w] = "check" /\ stage'[w] = 1
          /\ status[job[w]] # "completed"
      BY <2>0, <2>3 DEF Prepare, Goto, Progressed, Started
    <3>2. CompletedMeansAllStages'
      BY <2>3, <3>1 DEF Prepare, CompletedMeansAllStages
    <3>3. Exists(job[w]) => \A i \in StageIx : stageRows'[job[w]][i] # {}
      BY <2>3, <3>1 DEF Prepare
    <3>4. 1 .. (stage'[w] - 1) = {}
      BY <3>1
    <3>5. Progressed(w)'
      BY <3>1, <3>3, <3>4 DEF Progressed, Exists, InLoop
    <3> QED
      BY <1>7, <3>2, <3>5
  <2>4. CASE UpdateStage(w) \/ Progress(w)
    <3>1. /\ job[w] \in Jobs /\ job' = job /\ stageRows' = stageRows /\ stage' = stage
          /\ pc[w] \in InLoop /\ pc'[w] \in InLoop
      BY <2>4 DEF UpdateStage, Progress, Goto, worker, InLoop
    <3>2. StatusOfStage(Stages[stage[w]]) \in Active
      BY StageStatusActive
    <3>3. "completed" \notin Active /\ "absent" \notin Active
      BY DEF Active
    <3>4. /\ status'[job[w]] # "completed"
          /\ Exists(job[w])' => Exists(job[w])
          /\ \A j \in Jobs : status'[j] = "completed" => status[j] = "completed"
      BY <2>4, <3>1, <3>2, <3>3 DEF UpdateStage, Progress, SetStatus, Exists
    <3>5. CompletedMeansAllStages'
      BY <3>1, <3>4 DEF CompletedMeansAllStages
    <3>6. Progressed(w)'
      BY <2>0, <3>1, <3>4 DEF Progressed, InLoop, Exists
    <3> QED
      BY <1>7, <3>5, <3>6
  <2>5. CASE StageRunning(w) \/ MarkStageCompleted(w) \/ MarkStageFailed(w)
    <3>1. PICK s \in {"running", "completed", "failed"} : SetStageRows(job[w], stage[w], s)
      BY <2>5 DEF StageRunning, MarkStageCompleted, MarkStageFailed
    <3>2. /\ job[w] \in Jobs /\ job' = job /\ status' = status /\ stage[w] \in StageIx
          /\ pc[w] \in InLoop /\ status[job[w]] # "completed"
      BY <2>0, <2>5 DEF StageRunning, MarkStageCompleted, MarkStageFailed, Goto,
         Progressed, Started, InLoop
    <3>3. CompletedMeansAllStages'
      BY <3>1, <3>2 DEF CompletedMeansAllStages, SetStageRows
    <3>4. /\ \A i \in StageIx \ {stage[w]} : stageRows'[job[w]][i] = stageRows[job[w]][i]
          /\ stageRows'[job[w]][stage[w]] \subseteq {s}
          /\ stageRows[job[w]][stage[w]] # {} => stageRows'[job[w]][stage[w]] # {}
      BY <3>1, <3>2 DEF SetStageRows
    <3>5. Exists(job[w]) => \A i \in StageIx : stageRows'[job[w]][i] # {}
      BY <2>0, <3>2, <3>4 DEF Progressed
    <3>6. 1 .. (stage[w] - 1) \subseteq StageIx \ {stage[w]}
      BY <3>2, StagesAssumption DEF StageIx
    <3>7. \A i \in 1 .. (stage[w] - 1) : stageRows'[job[w]][i] \subseteq {"completed"}
      BY <2>0, <3>2, <3>4, <3>6 DEF Progressed
    <3>8. CASE StageRunning(w) \/ MarkStageFailed(w)
      <4>1. stage' = stage /\ pc'[w] \in {"execute", "fail"}
        BY <3>8 DEF StageRunning, MarkStageFailed, Goto
      <4>2. Progressed(w)'
        BY <3>2, <3>5, <3>7, <4>1 DEF Progressed, Exists, InLoop, Started
      <4> QED
        BY <1>7, <3>3, <4>2
    <3>9. CASE MarkStageCompleted(w)
      <4>1. /\ pc'[w] = IF LastStage(w) THEN "complete" ELSE "check"
            /\ stage'[w] = IF LastStage(w) THEN stage[w] ELSE stage[w] + 1
        BY <3>9 DEF MarkStageCompleted, Goto
      <4>2. stageRows'[job[w]][stage[w]] \subseteq {"completed"}
        BY <3>2, <3>9 DEF MarkStageCompleted, SetStageRows
      <4>3. \A i \in 1 .. stage[w] : stageRows'[job[w]][i] \subseteq {"completed"}
        <5>1. \A i \in 1 .. stage[w] : i = stage[w] \/ i \in 1 .. (stage[w] - 1)
          BY <3>2 DEF StageIx
        <5> QED
          BY <3>7, <4>2, <5>1
      <4>4. CASE LastStage(w)
        <5>1. StageIx = 1 .. stage[w] /\ pc'[w] = "complete"
          BY <4>1, <4>4 DEF LastStage, StageIx
        <5>2. Progressed(w)'
          BY <3>2, <3>5, <4>3, <5>1 DEF Progressed, Exists, InLoop, Started
        <5> QED
          BY <1>7, <3>3, <5>2
      <4>5. CASE ~LastStage(w)
        <5>1. stage'[w] - 1 = stage[w] /\ pc'[w] = "check"
          BY <3>2, <4>1, <4>5 DEF StageIx
        <5>2. Progressed(w)'
          BY <3>2, <3>5, <4>3, <5>1 DEF Progressed, Exists, InLoop, Started
        <5> QED
          BY <1>7, <3>3, <5>2
      <4> QED
        BY <4>4, <4>5
    <3> QED
      BY <2>5, <3>8, <3>9
  <2>6. CASE MarkCompleted(w)
    <3>1. /\ job[w] \in Jobs /\ pc[w] = "complete" /\ pc'[w] = "distReady"
          /\ stageRows' = stageRows /\ SetStatus(job[w], "completed")
      BY <2>6 DEF MarkCompleted, Goto
    <3>2. Exists(job[w]) => \A i \in StageIx : stageRows[job[w]][i] = {"completed"}
      BY <2>0, <3>1 DEF Progressed
    <3>3. CompletedMeansAllStages'
      BY <3>1, <3>2 DEF SetStatus, CompletedMeansAllStages
    <3> QED
      BY <1>7, <3>1, <3>3 DEF Progressed, Started, InLoop
  <2>7. CASE MarkFailed(w)
    <3>1. /\ job[w] \in Jobs /\ pc'[w] \in {"distFailed", "recoverDist"}
          /\ stageRows' = stageRows /\ SetStatus(job[w], "failed")
      BY <2>7 DEF MarkFailed, Goto
    <3>2. CompletedMeansAllStages'
      BY <3>1 DEF SetStatus, CompletedMeansAllStages
    <3> QED
      BY <1>7, <3>1, <3>2 DEF Progressed, Started, InLoop
  <2> QED
    BY <1>8, <2>1, <2>2, <2>3, <2>4, <2>5, <2>6, <2>7 DEF WorkerStep, RunStep
<1> QED
  BY <1>5, <1>6, <1>8 DEF Next

\* The invariant from which both follow.
LEMMA StagesInvariant == OneWorker => (Spec => []StagesInv)
<1> SUFFICES ASSUME OneWorker PROVE Spec => []StagesInv
  OBVIOUS
<1>1. Init => Submitted /\ StagesInv
  BY DEF Init, Submitted, StagesInv, CompletedMeansAllStages, Progressed, Exists,
     Idle, InLoop, Started
<1>2. Typed /\ Submitted /\ StagesInv /\ [Next]_vars => StagesInv'
  BY NextStages
<1> QED
  BY <1>1, <1>2, InitTyped, NextTyped, NextSubmitted, PTL DEF Spec

\* With a single worker a run that works on a stage has completed all earlier
\* ones, over whatever rows earlier runs of the build left.
THEOREM StagesRunInOrder == OneWorker => (Spec => []StagesInOrder)
<1> SUFFICES ASSUME OneWorker PROVE Spec => []StagesInOrder
  OBVIOUS
<1>1. StagesInv => StagesInOrder
  BY DEF StagesInv, Progressed, StagesInOrder, InLoop
<1>2. Spec => []StagesInv
  BY StagesInvariant
<1> QED
  BY <1>1, <1>2, PTL

\* With a single worker a build shown as completed shows each of its stages
\* completed, those of earlier runs included.
THEOREM CompletedBuilds == OneWorker => (Spec => []CompletedMeansAllStages)
<1> SUFFICES ASSUME OneWorker PROVE Spec => []CompletedMeansAllStages
  OBVIOUS
<1>1. StagesInv => CompletedMeansAllStages
  BY DEF StagesInv
<1>2. Spec => []StagesInv
  BY StagesInvariant
<1> QED
  BY <1>1, <1>2, PTL
=============================================================================
