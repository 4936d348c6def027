---------------------------- MODULE BuildManager ----------------------------
(***************************************************************************)
(* The build manager of ldfd (src/ldfd/build/manager.go and worker.go, the *)
(* build_jobs and build_stages tables behind db/build_jobs.go, and the     *)
(* handlers of api/builds/builds.go that change them).                     *)
(*                                                                         *)
(* Processes: the HTTP handlers (Clients), one dispatcher goroutine that   *)
(* polls the table, and the worker goroutines.  They share the database    *)
(* (one connection, so every Exec is one atomic step), the bounded         *)
(* jobQueue channel and the cancelFuncs map.                               *)
(*                                                                         *)
(* A job row is its status ("absent" when there is no row); jobs are       *)
(* numbered in order of created_at.  build_stages has no UNIQUE key and is *)
(* updated by (build_id, name), so the rows of one stage of one job are    *)
(* the set of the statuses they hold.                                      *)
(***************************************************************************)
EXTENDS Naturals, Sequences, FiniteSets

CONSTANTS
    Dists,          \* distributions, all of them with a configuration
    Workers,        \* build workers (build.workers, 1 by default)
    Clients,        \* concurrent HTTP requests
    Requests,       \* the kinds of requests the clients send
    Stages,         \* the registered pipeline: a sequence of stage names
    Stoppable,      \* whether Manager.Stop may be called
    NoWorker,       \* the absence of a cancel function
    MaxJobs,        \* bound: builds submitted in a behaviour
    MaxRetry        \* bound: retries of one build

StageName == {"resolve", "download", "prepare", "compile", "assemble", "package"}

DefaultStages ==
    <<"resolve", "download", "prepare", "compile", "assemble", "package">>

RequestKind == {"submit", "cancel", "retry", "clear", "edit"}

ASSUME StagesAssumption == Stages \in Seq(StageName) /\ Len(Stages) > 0
ASSUME WorkersAssumption == IsFiniteSet(Workers) /\ NoWorker \notin Workers
ASSUME RequestsAssumption == Requests \subseteq RequestKind
ASSUME BoundsAssumption ==
    MaxJobs \in Nat \ {0} /\ MaxRetry \in Nat /\ Stoppable \in BOOLEAN /\ Dists # {}

Jobs == 1 .. MaxJobs
NoJob == 0
StageIx == 1 .. Len(Stages)
QueueCap == 2 * Cardinality(Workers)

(***************************************************************************)
(* The statuses of a build row, a build_stages row and a distribution.     *)
(***************************************************************************)
Active == {"resolving", "preparing", "compiling", "assembling", "packaging"}
Terminal == {"completed", "failed", "cancelled"}
JobStatus == {"absent", "pending"} \cup Active \cup Terminal
StageStatus == {"pending", "running", "completed", "failed"}
DistStatus == {"pending", "building", "ready", "failed"}

VARIABLES
    status,         \* build_jobs.status of every job
    distOf,         \* build_jobs.distribution_id
    retries,        \* build_jobs.retry_count
    submitted,      \* how many rows were ever created
    stageRows,      \* build_stages: the statuses of the rows of each stage
    distStatus,     \* distributions.status
    queue,          \* the jobQueue channel
    cancelFuncs,    \* Manager.cancelFuncs: the run a cancel function stops
    life,           \* Manager: "running", then "cancelled", then "closed"
    sentOnClosed,   \* a send on the closed jobQueue panicked
    todo,           \* dispatcher: the listed jobs not yet sent
    polling,        \* dispatcher goroutine still in its loop
    pc,             \* worker: the next database step of processJob
    job,            \* worker: the job it processes
    stage,          \* worker: index of the stage it runs
    done,           \* worker: jobCtx is cancelled
    req             \* client: the request it is in the middle of

tables == <<status, distOf, retries, submitted, stageRows, distStatus>>
manager == <<queue, cancelFuncs, life, sentOnClosed>>
dispatcher == <<todo, polling>>
worker == <<pc, job, stage, done>>
vars == <<tables, manager, dispatcher, worker, req>>

Idle == [op |-> "idle"]

Init ==
    /\ status = [j \in Jobs |-> "absent"]
    /\ distOf = [j \in Jobs |-> CHOOSE d \in Dists : TRUE]
    /\ retries = [j \in Jobs |-> 0]
    /\ submitted = 0
    /\ stageRows = [j \in Jobs |-> [i \in StageIx |-> {}]]
    /\ distStatus = [d \in Dists |-> "pending"]
    /\ queue = <<>>
    /\ cancelFuncs = [j \in Jobs |-> NoWorker]
    /\ life = "running"
    /\ sentOnClosed = FALSE
    /\ todo = {}
    /\ polling = TRUE
    /\ pc = [w \in Workers |-> "idle"]
    /\ job = [w \in Workers |-> NoJob]
    /\ stage = [w \in Workers |-> 1]
    /\ done = [w \in Workers |-> FALSE]
    /\ req = [c \in Clients |-> Idle]

-----------------------------------------------------------------------------
(***************************************************************************)
(* The repository operations: an UPDATE ... WHERE id = ? changes nothing   *)
(* when the row is gone.                                                   *)
(***************************************************************************)
Exists(j) == status[j] # "absent"

MUT_UpsertStatus(j, s) == status' = [status EXCEPT ![j] = s]
SetStatus(j, s) ==
    status' = IF Exists(j) THEN [status EXCEPT ![j] = s] ELSE status

MUT_UpdateNewestRowOnly(j, i, s) ==
    stageRows' = [stageRows EXCEPT ![j][i] = IF @ = {} THEN {} ELSE @ \cup {s}]
SetStageRows(j, i, s) ==
    stageRows' = [stageRows EXCEPT ![j][i] = IF @ = {} THEN {} ELSE {s}]

\* The job status that UpdateStage writes for a stage.
StatusOfStage(name) ==
    CASE name = "resolve"               -> "resolving"
      [] name \in {"download", "prepare"} -> "preparing"
      [] name = "compile"               -> "compiling"
      [] name = "assemble"              -> "assembling"
      [] name = "package"               -> "packaging"

MUT_ListStarted == {j \in Jobs : status[j] = "resolving"}
Pending == {j \in Jobs : status[j] = "pending"}

MUT_RoomForOneMore == Len(queue) <= QueueCap
HasRoom == Len(queue) < QueueCap

-----------------------------------------------------------------------------
(***************************************************************************)
(* HTTP requests.  Each database access of a handler is a step.            *)
(***************************************************************************)

Ready(c, kind) == kind \in Requests /\ req[c] = Idle

\* SubmitBuild: the row is created ...
Submit(c, d) ==
    /\ Ready(c, "submit")
    /\ submitted < MaxJobs
    /\ LET j == submitted + 1 IN
         /\ submitted' = j
         /\ status' = [status EXCEPT ![j] = "pending"]
         /\ distOf' = [distOf EXCEPT ![j] = d]
         /\ req' = [req EXCEPT ![c] = [op |-> "enqueue", job |-> j]]
    /\ UNCHANGED <<retries, stageRows, distStatus, manager,
                   dispatcher, worker>>

\* ... then offered to the queue without blocking; a closed channel panics
\* (the router recovers the request).
Enqueue(c) ==
    /\ req[c].op = "enqueue"
    /\ req' = [req EXCEPT ![c] = Idle]
    /\ IF life = "closed"
         THEN sentOnClosed' = TRUE /\ UNCHANGED queue
         ELSE /\ queue' = IF HasRoom THEN Append(queue, req[c].job) ELSE queue
              /\ UNCHANGED sentOnClosed
    /\ UNCHANGED <<tables, cancelFuncs, life, dispatcher, worker>>

\* CancelBuild: the cancel function is looked up under the read lock, ...
CancelLookup(c, j) ==
    /\ Ready(c, "cancel")
    /\ Exists(j)
    /\ req' = [req EXCEPT ![c] =
                 [op |-> "cancel", job |-> j, fn |-> cancelFuncs[j]]]
    /\ UNCHANGED <<tables, manager, dispatcher, worker>>

\* ... called if there was one, ...
CancelCall(c) ==
    /\ req[c].op = "cancel"
    /\ done' = [w \in Workers |-> done[w] \/ w = req[c].fn]
    /\ req' = [req EXCEPT ![c] = [op |-> "mark", job |-> req[c].job]]
    /\ UNCHANGED <<tables, manager, dispatcher, pc, job, stage>>

\* ... and the row is marked, whatever its status is by then.
CancelMark(c) ==
    /\ req[c].op = "mark"
    /\ SetStatus(req[c].job, "cancelled")
    /\ req' = [req EXCEPT ![c] = Idle]
    /\ UNCHANGED <<distOf, retries, submitted, stageRows, distStatus,
                   manager, dispatcher, worker>>

\* RetryBuild: the status is checked on a copy of the row ...
RetryCheck(c, j) ==
    /\ Ready(c, "retry")
    /\ status[j] \in {"failed", "cancelled"}
    /\ retries[j] < MaxRetry
    /\ req' = [req EXCEPT ![c] = [op |-> "retry", job |-> j]]
    /\ UNCHANGED <<tables, manager, dispatcher, worker>>

\* ... before IncrementRetry makes the row pending again.
RetryReset(c) ==
    /\ req[c].op = "retry"
    /\ LET j == req[c].job IN
         /\ SetStatus(j, "pending")
         /\ retries' = IF Exists(j) THEN [retries EXCEPT ![j] = @ + 1] ELSE retries
    /\ req' = [req EXCEPT ![c] = Idle]
    /\ UNCHANGED <<distOf, submitted, stageRows, distStatus,
                   manager, dispatcher, worker>>

\* HandleClearDistributionBuilds: one DELETE, which cascades to the stages.
ClearBuilds(c, d) ==
    /\ Ready(c, "clear")
    /\ \E j \in Jobs : Exists(j) /\ distOf[j] = d
    /\ status' = [j \in Jobs |-> IF distOf[j] = d THEN "absent" ELSE status[j]]
    /\ stageRows' = [j \in Jobs |->
                       IF distOf[j] = d THEN [i \in StageIx |-> {}] ELSE stageRows[j]]
    /\ UNCHANGED <<distOf, retries, submitted, distStatus, manager,
                   dispatcher, worker, req>>

\* The distribution's HandleUpdate reads the whole row ...
EditRead(c, d) ==
    /\ Ready(c, "edit")
    /\ req' = [req EXCEPT ![c] = [op |-> "save", dist |-> d, seen |-> distStatus[d]]]
    /\ UNCHANGED <<tables, manager, dispatcher, worker>>

\* ... and writes the whole row back, the status it read included.
EditSave(c) ==
    /\ req[c].op = "save"
    /\ distStatus' = [distStatus EXCEPT ![req[c].dist] = req[c].seen]
    /\ req' = [req EXCEPT ![c] = Idle]
    /\ UNCHANGED <<status, distOf, retries, submitted, stageRows,
                   manager, dispatcher, worker>>

-----------------------------------------------------------------------------
(***************************************************************************)
(* The dispatcher goroutine.                                               *)
(***************************************************************************)

\* A tick: ListPending takes a snapshot of the pending rows.
DispatchList ==
    /\ polling
    /\ todo = {}
    /\ todo' = Pending
    /\ UNCHANGED <<tables, manager, polling, worker, req>>

\* The oldest listed job is sent; a full queue ends the round.  A closed
\* channel panics, and nothing recovers the dispatcher.
DispatchSend ==
    /\ polling
    /\ \E j \in todo :
         /\ \A k \in todo : j <= k
         /\ \/ /\ life # "closed"
               /\ HasRoom
               /\ queue' = Append(queue, j)
               /\ todo' = todo \ {j}
               /\ UNCHANGED <<sentOnClosed, polling>>
            \/ /\ life # "closed"
               /\ ~HasRoom
               /\ todo' = {}
               /\ UNCHANGED <<queue, sentOnClosed, polling>>
            \/ /\ life = "closed"
               /\ sentOnClosed' = TRUE
               /\ polling' = FALSE
               /\ todo' = {}
               /\ UNCHANGED queue
    /\ UNCHANGED <<tables, cancelFuncs, life, worker, req>>

\* Once Stop cancelled the manager's context a round may be abandoned ...
DispatchAbandon ==
    /\ life # "running"
    /\ todo # {}
    /\ todo' = {}
    /\ UNCHANGED <<tables, manager, polling, worker, req>>

\* ... and the goroutine ends between two rounds.
MUT_DispatchExitStopped ==
    /\ life = "closed"
    /\ Pending # {}
    /\ todo = {}
    /\ polling' = FALSE
    /\ UNCHANGED <<tables, manager, todo, worker, req>>
DispatchExit ==
    /\ polling
    /\ life # "running"
    /\ todo = {}
    /\ polling' = FALSE
    /\ UNCHANGED <<tables, manager, todo, worker, req>>

\* Where a worker has no jobCtx.
NoContext == {"idle", "stopped", "register"}

\* Stop cancels the context of the manager and of every run, ...
StopCancel ==
    /\ Stoppable
    /\ life = "running"
    /\ life' = "cancelled"
    /\ done' = [w \in Workers |-> pc[w] \notin NoContext]
    /\ UNCHANGED <<tables, queue, cancelFuncs, sentOnClosed,
                   dispatcher, pc, job, stage, req>>

\* ... and then closes the queue, without waiting for its senders.
StopClose ==
    /\ life = "cancelled"
    /\ life' = "closed"
    /\ UNCHANGED <<tables, queue, cancelFuncs, sentOnClosed,
                   dispatcher, worker, req>>

-----------------------------------------------------------------------------
(***************************************************************************)
(* The workers: processJob, one step per database access.                  *)
(***************************************************************************)
Goto(w, from, to) ==
    /\ pc[w] = from
    /\ pc' = [pc EXCEPT ![w] = to]

\* processJob returns: its locals are gone.
Return(w) ==
    /\ job' = [job EXCEPT ![w] = NoJob]
    /\ stage' = [stage EXCEPT ![w] = 1]
    /\ done' = [done EXCEPT ![w] = FALSE]

\* A goroutine in its loop takes the head of the queue.
Receive(w) ==
    /\ Goto(w, "idle", "register")
    /\ queue # <<>>
    /\ queue' = Tail(queue)
    /\ job' = [job EXCEPT ![w] = Head(queue)]
    /\ UNCHANGED <<tables, cancelFuncs, life, sentOnClosed,
                   dispatcher, stage, done, req>>

\* It leaves the loop when the manager's context is done.
WorkerExit(w) ==
    /\ life # "running"
    /\ Goto(w, "idle", "stopped")
    /\ UNCHANGED <<tables, manager, dispatcher, job, stage, done, req>>

\* A fresh context, derived from the manager's, and its cancel function.
MUT_RegisterNothing(w) ==
    /\ Goto(w, "register", "start")
    /\ done' = [done EXCEPT ![w] = (life # "running")]
    /\ UNCHANGED <<tables, manager, dispatcher, job, stage, req>>
RegisterCancel(w) ==
    /\ Goto(w, "register", "start")
    /\ cancelFuncs' = [cancelFuncs EXCEPT ![job[w]] = w]
    /\ done' = [done EXCEPT ![w] = (life # "running")]
    /\ UNCHANGED <<tables, queue, life, sentOnClosed, dispatcher,
                   job, stage, req>>

\* MarkStarted fails only when the row is gone: the run ends there.
MUT_ReturnRegistered(w) ==
    /\ Goto(w, "start", IF Exists(job[w]) THEN "building" ELSE "idle")
    /\ SetStatus(job[w], "resolving")
    /\ UNCHANGED <<distOf, retries, submitted, stageRows, distStatus,
                   manager, dispatcher, job, stage, done, req>>
MarkStarted(w) ==
    /\ Goto(w, "start", IF Exists(job[w]) THEN "building" ELSE "unregister")
    /\ SetStatus(job[w], "resolving")
    /\ UNCHANGED <<distOf, retries, submitted, stageRows, distStatus,
                   manager, dispatcher, job, stage, done, req>>

DistBuilding(w) ==
    /\ Goto(w, "building", "prepare")
    /\ distStatus' = [distStatus EXCEPT ![distOf[job[w]]] = "building"]
    /\ UNCHANGED <<status, distOf, retries, submitted, stageRows,
                   manager, dispatcher, job, stage, done, req>>

\* Config, environment and executor are ready: the stage records
\* are added (the foreign key refuses them when the row is gone).
Prepare(w) ==
    /\ Goto(w, "prepare", "check")
    /\ stageRows' = IF Exists(job[w])
                      THEN [stageRows EXCEPT ![job[w]] =
                              [i \in StageIx |-> @[i] \cup {"pending"}]]
                      ELSE stageRows
    /\ stage' = [stage EXCEPT ![w] = 1]
    /\ UNCHANGED <<status, distOf, retries, submitted, distStatus, manager,
                   dispatcher, job, done, req>>

\* One of the preparations fails.
MUT_ReturnWithoutFailure(w) ==
    /\ Goto(w, "prepare", "unregister")
    /\ UNCHANGED <<tables, manager, dispatcher, job, stage, done, req>>
PrepareFails(w) ==
    /\ Goto(w, "prepare", "fail")
    /\ UNCHANGED <<tables, manager, dispatcher, job, stage, done, req>>

\* The loop over the stages looks at jobCtx before each of them.
CheckCancelled(w) ==
    /\ \/ /\ ~done[w]
          /\ Goto(w, "check", "update")
       \/ /\ done[w]
          /\ Goto(w, "check", "fail")
    /\ UNCHANGED <<tables, manager, dispatcher, job, stage, done, req>>

UpdateStage(w) ==
    /\ Goto(w, "update", "running")
    /\ SetStatus(job[w], StatusOfStage(Stages[stage[w]]))
    /\ UNCHANGED <<distOf, retries, submitted, stageRows, distStatus,
                   manager, dispatcher, job, stage, done, req>>

StageRunning(w) ==
    /\ Goto(w, "running", "execute")
    /\ SetStageRows(job[w], stage[w], "running")
    /\ UNCHANGED <<status, distOf, retries, submitted, distStatus,
                   manager, dispatcher, job, stage, done, req>>

\* A progress report of the stage: UpdateStage once more.
Progress(w) ==
    /\ pc[w] = "execute"
    /\ SetStatus(job[w], StatusOfStage(Stages[stage[w]]))
    /\ UNCHANGED <<distOf, retries, submitted, stageRows, distStatus,
                   manager, dispatcher, worker, req>>

\* Validate and Execute succeed ...
StageSucceeds(w) ==
    /\ Goto(w, "execute", "stageDone")
    /\ UNCHANGED <<tables, manager, dispatcher, job, stage, done, req>>

\* ... or one of them returns an error, because of the context or its own.
StageErrs(w) ==
    /\ Goto(w, "execute", "stageFailed")
    /\ UNCHANGED <<tables, manager, dispatcher, job, stage, done, req>>

MUT_LastButOneStage(w) == stage[w] + 1 >= Len(Stages)
LastStage(w) == stage[w] = Len(Stages)

MarkStageCompleted(w) ==
    /\ Goto(w, "stageDone", IF LastStage(w) THEN "complete" ELSE "check")
    /\ SetStageRows(job[w], stage[w], "completed")
    /\ stage' = [stage EXCEPT ![w] = IF LastStage(w) THEN @ ELSE @ + 1]
    /\ UNCHANGED <<status, distOf, retries, submitted, distStatus,
                   manager, dispatcher, job, done, req>>

MarkStageFailed(w) ==
    /\ Goto(w, "stageFailed", "fail")
    /\ SetStageRows(job[w], stage[w], "failed")
    /\ UNCHANGED <<status, distOf, retries, submitted, distStatus,
                   manager, dispatcher, job, stage, done, req>>

\* A panic unwinds processJob: the deferred calls run, the last of them
\* recovers and calls handleFailure.
Panic(w) ==
    /\ \E from \in {"prepare", "execute"} : Goto(w, from, "unwind")
    /\ UNCHANGED <<tables, manager, dispatcher, job, stage, done, req>>

\* handleFailure: the job row, then the distribution.  It is called by the run
\* itself, or by its last deferred function when that recovers from a panic.
MarkFailed(w) ==
    /\ Goto(w, "fail", "distFailed") \/ Goto(w, "recover", "recoverDist")
    /\ SetStatus(job[w], "failed")
    /\ UNCHANGED <<distOf, retries, submitted, stageRows, distStatus,
                   manager, dispatcher, job, stage, done, req>>

DistFailed(w) ==
    /\ \/ Goto(w, "distFailed", "unregister") /\ UNCHANGED <<job, stage, done>>
       \/ Goto(w, "recoverDist", "idle") /\ Return(w)
    /\ distStatus' = [distStatus EXCEPT ![distOf[job[w]]] = "failed"]
    /\ UNCHANGED <<status, distOf, retries, submitted, stageRows,
                   manager, dispatcher, req>>

\* The end of a successful run: the job row, then the distribution.
MarkCompleted(w) ==
    /\ Goto(w, "complete", "distReady")
    /\ SetStatus(job[w], "completed")
    /\ UNCHANGED <<distOf, retries, submitted, stageRows, distStatus,
                   manager, dispatcher, job, stage, done, req>>

DistReady(w) ==
    /\ Goto(w, "distReady", "unregister")
    /\ distStatus' = [distStatus EXCEPT ![distOf[job[w]]] = "ready"]
    /\ UNCHANGED <<status, distOf, retries, submitted, stageRows,
                   manager, dispatcher, job, stage, done, req>>

\* The deferred calls: the map entry of the job goes, whoever registered it,
\* and jobCtx is cancelled, so a cancel function still held does nothing.
Unregister(w) ==
    /\ \/ Goto(w, "unregister", "idle") /\ Return(w)
       \/ Goto(w, "unwind", "recover") /\ UNCHANGED <<job, stage, done>>
    /\ cancelFuncs' = [cancelFuncs EXCEPT ![job[w]] = NoWorker]
    /\ req' = [c \in Clients |->
                 IF req[c].op = "cancel" /\ req[c].fn = w
                   THEN [req[c] EXCEPT !.fn = NoWorker] ELSE req[c]]
    /\ UNCHANGED <<tables, queue, life, sentOnClosed, dispatcher>>

-----------------------------------------------------------------------------
ClientStep(c) ==
    \/ \E d \in Dists : Submit(c, d) \/ ClearBuilds(c, d) \/ EditRead(c, d)
    \/ \E j \in Jobs : CancelLookup(c, j) \/ RetryCheck(c, j)
    \/ Enqueue(c) \/ CancelCall(c) \/ CancelMark(c) \/ RetryReset(c) \/ EditSave(c)

DispatcherStep ==
    DispatchList \/ DispatchSend \/ DispatchAbandon \/ DispatchExit

StopStep == StopCancel \/ StopClose

StageEnds(w) == StageSucceeds(w) \/ StageErrs(w) \/ Panic(w)

\* What a run does of its own accord: everything but a stage's own work.
RunStep(w) ==
    \/ Receive(w) \/ WorkerExit(w)
    \/ RegisterCancel(w) \/ MarkStarted(w) \/ DistBuilding(w)
    \/ Prepare(w) \/ PrepareFails(w)
    \/ CheckCancelled(w) \/ UpdateStage(w) \/ StageRunning(w)
    \/ MarkStageCompleted(w) \/ MarkStageFailed(w)
    \/ MarkFailed(w) \/ DistFailed(w)
    \/ MarkCompleted(w) \/ DistReady(w)
    \/ Unregister(w)

WorkerStep(w) == RunStep(w) \/ Progress(w) \/ StageEnds(w)

Next ==
    \/ \E c \in Clients : ClientStep(c)
    \/ DispatcherStep
    \/ StopStep
    \/ \E w \in Workers : WorkerStep(w)

Spec == Init /\ [][Next]_vars

\* The ticker keeps firing, goroutines are scheduled, a select picks at random
\* among its ready cases, and every stage ends: its commands, copies and waits
\* are finite.  Clients promise nothing, not even to finish a request.
Fairness ==
    /\ WF_vars(DispatcherStep)
    /\ SF_vars(DispatchExit)
    /\ WF_vars(StopClose)
    /\ \A w \in Workers : WF_vars(RunStep(w)) /\ WF_vars(StageEnds(w))

FairSpec == Spec /\ Fairness

-----------------------------------------------------------------------------
(***************************************************************************)
(* Properties.                                                             *)
(***************************************************************************)
PC == {"idle", "stopped", "register", "start", "building", "prepare", "check",
       "update", "running", "execute", "stageDone", "stageFailed", "fail",
       "distFailed", "complete", "distReady", "unwind", "recover",
       "recoverDist", "unregister"}

Request ==
    [op : {"idle"}]
      \cup [op : {"enqueue", "mark", "retry"}, job : Jobs]
      \cup [op : {"cancel"}, job : Jobs, fn : Workers \cup {NoWorker}]
      \cup [op : {"save"}, dist : Dists, seen : DistStatus]

\* Every variable keeps its type, and the queue its capacity.
TypeOK ==
    /\ status \in [Jobs -> JobStatus]
    /\ distOf \in [Jobs -> Dists]
    /\ retries \in [Jobs -> Nat]
    /\ submitted \in 0 .. MaxJobs
    /\ stageRows \in [Jobs -> [StageIx -> SUBSET StageStatus]]
    /\ distStatus \in [Dists -> DistStatus]
    /\ queue \in Seq(Jobs) /\ Len(queue) <= QueueCap
    /\ cancelFuncs \in [Jobs -> Workers \cup {NoWorker}]
    /\ life \in {"running", "cancelled", "closed"}
    /\ sentOnClosed \in BOOLEAN
    /\ todo \subseteq Jobs
    /\ polling \in BOOLEAN
    /\ pc \in [Workers -> PC]
    /\ job \in [Workers -> Jobs \cup {NoJob}]
    /\ stage \in [Workers -> StageIx]
    /\ done \in [Workers -> BOOLEAN]
    /\ req \in [Clients -> Request]

\* The steps of a run during which its job row may hold an active status, and
\* those during which its distribution may be "building".
RowHeld == {"building", "prepare", "check", "update", "running", "execute",
            "stageDone", "stageFailed", "complete", "fail", "unwind", "recover"}
DistHeld ==
    (RowHeld \ {"building"}) \cup {"distReady", "distFailed", "recoverDist"}

\* A build shown as resolving ... packaging is being worked on: every way out
\* of processJob (missing row, failed preparation, failed stage, cancellation,
\* panic, success) leaves the row in a terminal status, whatever other workers
\* and requests do to that row meanwhile.
ActiveBuildHasRunner ==
    \A j \in Jobs : status[j] \in Active =>
        \E w \in Workers : pc[w] \in RowHeld /\ job[w] = j

\* A distribution shown as building has a run of one of its builds on it, as
\* long as nobody edits it: processJob's exits after DistBuilding all write
\* "ready" or "failed", and the early exit of MarkStarted precedes it.
BuildingDistHasRunner ==
    \A d \in Dists : distStatus[d] = "building" =>
        \E w \in Workers : pc[w] \in DistHeld /\ distOf[job[w]] = d

\* The steps of worker w between registerCancel and unregisterCancel.
Registered(w) == pc[w] \notin NoContext \cup {"recover", "recoverDist"}

\* cancelFuncs never leaks: an entry belongs to a run of that very job that is
\* still between registerCancel and unregisterCancel.
CancelFuncsLive ==
    \A j \in Jobs, w \in Workers : cancelFuncs[j] = w => job[w] = j /\ Registered(w)

\* With the default single worker, every run can be cancelled from
\* registerCancel on: nothing else removes its entry.
SoleRunCancellable ==
    \A w \in Workers : Registered(w) => cancelFuncs[job[w]] = w

\* With a single worker, a run that works on a stage has completed all the
\* earlier ones, also when it runs a build again over the stage rows of a
\* previous run, which updates by name rewrite.
StagesInOrder ==
    \A w \in Workers :
        pc[w] \in {"check", "update", "running", "execute", "stageDone", "stageFailed"} =>
            \A i \in 1 .. (stage[w] - 1) : stageRows[job[w]][i] \subseteq {"completed"}

\* With a single worker, a build shown as completed shows every stage
\* completed, in every one of its stage rows.
CompletedMeansAllStages ==
    \A j \in Jobs : status[j] = "completed" =>
        \A i \in StageIx : stageRows[j][i] = {"completed"}

\* A cleared build never comes back: a run, a cancellation or a retry that was
\* under way when its row was deleted writes nothing.
ClearedStaysCleared ==
    [][\A j \in Jobs : j <= submitted /\ ~Exists(j) =>
          status'[j] = "absent" /\ stageRows'[j] = stageRows[j]]_vars

\* While the manager is not stopped, every submitted or retried build is
\* eventually picked up, cancelled or cleared, although the queue is bounded,
\* sends to it are dropped when it is full, and duplicates of older builds take
\* its places.
PendingIsPicked ==
    \A j \in Jobs : (status[j] = "pending") ~> (status[j] # "pending" \/ life # "running")

\* When users stop retrying, every build ends for good, except those that Stop
\* leaves pending: no run, queued duplicate or cancellation keeps a row changing
\* between statuses for ever, and Stop leaves none in the middle.
BuildsSettle ==
    \A j \in Jobs :
        <>[](\/ status[j] \in Terminal \cup {"absent"}
             \/ status[j] = "pending" /\ life # "running")

\* Stop's wg.Wait returns: all goroutines of the manager end.
StopReturns ==
    (life = "closed") ~> (~polling /\ \A w \in Workers : pc[w] = "stopped")

\* "CancelBuild cancels a running or pending build" (build/manager.go:283): a
\* cancelled build stays cancelled until it is retried or cleared.
CancelledUntilRetried ==
    [][\A j \in Jobs : status[j] = "cancelled" =>
          status'[j] \in {"cancelled", "pending", "absent"}]_vars
=============================================================================
