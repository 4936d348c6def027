--------------------------- MODULE DownloadManager ---------------------------
(***************************************************************************)
(* The download manager of ldfd (src/ldfd/download/manager.go, worker.go   *)
(* and downloader.go, the download_jobs table behind db/download_jobs.go,  *)
(* and the handlers of api/downloads/downloads.go).  The artifact cache,   *)
(* whose own state is not kept here, may or may not hold an artifact.      *)
(*                                                                         *)
(* It has the queue, dispatcher and cancelFuncs map of the build manager,  *)
(* but a run differs: it tries MaxRetries + 1 times, and before every      *)
(* further try it makes its own row pending again, which the dispatcher    *)
(* may list.  Jobs are numbered in order of created_at.                    *)
(***************************************************************************)
EXTENDS Naturals, Sequences, FiniteSets

CONSTANTS
    Dists,          \* distributions
    Items,          \* the source+version pairs that every distribution needs
    Priority,       \* download_jobs.priority of an item (componentPriority)
    Workers,        \* download workers
    Clients,        \* concurrent HTTP requests
    Requests,       \* the kinds of requests the clients send
    HasMirror,      \* whether mirror.local_path is configured
    MaxRetries,     \* further tries of a run (download.max_retries)
    Stoppable,      \* whether Manager.Stop may be called
    NoWorker,       \* the absence of a cancel function
    MaxJobs,        \* bound: rows created in a behaviour
    MaxUserRetry    \* bound: RetryJob requests on one row

RequestKind == {"start", "cancel", "retry", "flush"}

ASSUME WorkersAssumption == IsFiniteSet(Workers) /\ NoWorker \notin Workers
ASSUME ItemsAssumption == Items # {} /\ Priority \in [Items -> Nat]
ASSUME RequestsAssumption == Requests \subseteq RequestKind
ASSUME BoundsAssumption ==
    /\ MaxJobs \in Nat \ {0} /\ MaxRetries \in Nat /\ MaxUserRetry \in Nat
    /\ HasMirror \in BOOLEAN /\ Stoppable \in BOOLEAN /\ Dists # {}

Jobs == 1 .. MaxJobs
NoJob == 0
QueueCap == 2 * Cardinality(Workers)

Active == {"verifying", "downloading"}
Terminal == {"completed", "failed", "cancelled"}
JobStatus == {"absent", "pending"} \cup Active \cup Terminal

VARIABLES
    status,         \* download_jobs.status, "absent" when there is no row
    distOf,         \* download_jobs.distribution_id
    itemOf,         \* download_jobs.source_id and version
    submitted,      \* how many rows were ever created
    retried,        \* RetryJob requests so far, of every row
    queue,          \* the jobQueue channel
    cancelFuncs,    \* Manager.cancelFuncs: the run a cancel function stops
    life,           \* Manager: "running", then "cancelled", then "closed"
    sentOnClosed,   \* the dispatcher's send on the closed jobQueue panicked
    todo,           \* dispatcher: the listed jobs not yet sent
    polling,        \* dispatcher goroutine still in its loop
    pc,             \* worker: the next step of processJob
    job,            \* worker: the job it processes
    attempt,        \* worker: its tries so far
    done,           \* worker: jobCtx is cancelled
    req             \* client: the request it is in the middle of

table == <<status, distOf, itemOf, submitted, retried>>
manager == <<queue, cancelFuncs, life, sentOnClosed>>
dispatcher == <<todo, polling>>
worker == <<pc, job, attempt, done>>
vars == <<table, manager, dispatcher, worker, req>>

Idle == [op |-> "idle"]

Init ==
    /\ status = [j \in Jobs |-> "absent"]
    /\ distOf = [j \in Jobs |-> CHOOSE d \in Dists : TRUE]
    /\ itemOf = [j \in Jobs |-> CHOOSE i \in Items : TRUE]
    /\ submitted = 0
    /\ retried = [j \in Jobs |-> 0]
    /\ queue = <<>>
    /\ cancelFuncs = [j \in Jobs |-> NoWorker]
    /\ life = "running"
    /\ sentOnClosed = FALSE
    /\ todo = {}
    /\ polling = TRUE
    /\ pc = [w \in Workers |-> "idle"]
    /\ job = [w \in Workers |-> NoJob]
    /\ attempt = [w \in Workers |-> 0]
    /\ done = [w \in Workers |-> FALSE]
    /\ req = [c \in Clients |-> Idle]

-----------------------------------------------------------------------------
(***************************************************************************)
(* The table.                                                              *)
(***************************************************************************)
Exists(j) == status[j] # "absent"

\* An UPDATE ... WHERE id = ? changes nothing when the row is gone.
SetStatus(j, s) ==
    status' = IF Exists(j) THEN [status EXCEPT ![j] = s] ELSE status

MUT_PendingUrgent == {j \in Jobs : status[j] = "pending" /\ Priority[itemOf[j]] > 0}
Pending == {j \in Jobs : status[j] = "pending"}

\* GetBySourceAndVersion finds a row of any status.
MUT_RowPending(d, i) == \E j \in Pending : distOf[j] = d /\ itemOf[j] = i
HasRow(d, i) == \E j \in Jobs : Exists(j) /\ distOf[j] = d /\ itemOf[j] = i

\* ListPending: the highest priority first, then the oldest.
Before(j, k) ==
    \/ Priority[itemOf[j]] > Priority[itemOf[k]]
    \/ Priority[itemOf[j]] = Priority[itemOf[k]] /\ j <= k

MUT_RoomForOneMore == Len(queue) <= QueueCap
HasRoom == Len(queue) < QueueCap

-----------------------------------------------------------------------------
(***************************************************************************)
(* HTTP requests.  Each database access of a handler is a step.            *)
(***************************************************************************)
Ready(c, kind) == kind \in Requests /\ req[c] = Idle

\* CreateJobsForDistribution goes through the items the distribution needs.
Start(c, d) ==
    /\ Ready(c, "start")
    /\ req' = [req EXCEPT ![c] = [op |-> "start", dist |-> d, left |-> Items]]
    /\ UNCHANGED <<table, manager, dispatcher, worker>>

\* The rest of the request after item i.
Rest(c, i) ==
    IF req[c].left = {i}
      THEN Idle
      ELSE [op |-> "start", dist |-> req[c].dist, left |-> req[c].left \ {i}]

\* An item that has a row already is skipped, whatever the status of the row ...
StartCheck(c) ==
    /\ req[c].op = "start"
    /\ \E i \in req[c].left :
         req' = [req EXCEPT ![c] =
                   IF HasRow(req[c].dist, i)
                     THEN Rest(c, i)
                     ELSE [op |-> "create", dist |-> req[c].dist,
                           left |-> req[c].left, item |-> i]]
    /\ UNCHANGED <<table, manager, dispatcher, worker>>

\* ... and the others get one: a pending one, which the dispatcher will find, or
\* one that is completed already when the artifact was copied from the cache or
\* from another distribution, ...
StartCreate(c) ==
    /\ req[c].op = "create"
    /\ submitted < MaxJobs
    /\ LET j == submitted + 1
           rest == Rest(c, req[c].item)
       IN \E s \in {"pending", "completed"} :
         /\ submitted' = j
         /\ status' = [status EXCEPT ![j] = s]
         /\ distOf' = [distOf EXCEPT ![j] = req[c].dist]
         /\ itemOf' = [itemOf EXCEPT ![j] = req[c].item]
         /\ req' = [req EXCEPT ![c] =
                      IF s = "pending" THEN rest
                                       ELSE [op |-> "hit", job |-> j, next |-> rest]]
    /\ UNCHANGED <<retried, manager, dispatcher, worker>>

\* ... which MarkCompleted then marks once more, for its size.
StartHit(c) ==
    /\ req[c].op = "hit"
    /\ SetStatus(req[c].job, "completed")
    /\ req' = [req EXCEPT ![c] = req[c].next]
    /\ UNCHANGED <<distOf, itemOf, submitted, retried, manager, dispatcher, worker>>

\* CancelJob, for a request that goes on as next: the cancel function is looked
\* up under the read lock, ...
LookUp(c, j, next) ==
    req' = [req EXCEPT ![c] =
              [op |-> "cancel", job |-> j, fn |-> cancelFuncs[j], next |-> next]]

CancelLookup(c, j) ==
    /\ Ready(c, "cancel")
    /\ Exists(j)
    /\ LookUp(c, j, Idle)
    /\ UNCHANGED <<table, manager, dispatcher, worker>>

\* ... called if there was one, ...
CancelCall(c) ==
    /\ req[c].op = "cancel"
    /\ done' = [w \in Workers |-> done[w] \/ w = req[c].fn]
    /\ req' = [req EXCEPT ![c] =
                 [op |-> "mark", job |-> req[c].job, next |-> req[c].next]]
    /\ UNCHANGED <<table, manager, dispatcher, pc, job, attempt>>

\* ... and the row is marked, whatever its status is by then.
CancelMark(c) ==
    /\ req[c].op = "mark"
    /\ SetStatus(req[c].job, "cancelled")
    /\ req' = [req EXCEPT ![c] = req[c].next]
    /\ UNCHANGED <<distOf, itemOf, submitted, retried, manager, dispatcher, worker>>

\* RetryJob: the status is checked on a copy of the row ...
RetryCheck(c, j) ==
    /\ Ready(c, "retry")
    /\ status[j] \in {"failed", "cancelled"}
    /\ retried[j] < MaxUserRetry
    /\ req' = [req EXCEPT ![c] = [op |-> "retry", job |-> j]]
    /\ UNCHANGED <<table, manager, dispatcher, worker>>

\* ... before the row is made pending again.
RetryReset(c) ==
    /\ req[c].op = "retry"
    /\ SetStatus(req[c].job, "pending")
    /\ retried' = [retried EXCEPT ![req[c].job] = @ + 1]
    /\ req' = [req EXCEPT ![c] = Idle]
    /\ UNCHANGED <<distOf, itemOf, submitted, manager, dispatcher, worker>>

\* HandleFlushDistributionDownloads lists the jobs that are not over, ...
Flush(c, d) ==
    /\ Ready(c, "flush")
    /\ req' = [req EXCEPT ![c] =
                 [op |-> "flush", dist |-> d,
                  left |-> {j \in Jobs : distOf[j] = d
                                         /\ status[j] \in Active \cup {"pending"}}]]
    /\ UNCHANGED <<table, manager, dispatcher, worker>>

\* ... cancels them one after the other, the newest first, ...
FlushCancel(c) ==
    /\ req[c].op = "flush"
    /\ \E j \in req[c].left :
         /\ \A k \in req[c].left : k <= j
         /\ LookUp(c, j, [req[c] EXCEPT !.left = @ \ {j}])
    /\ UNCHANGED <<table, manager, dispatcher, worker>>

\* ... and deletes all the rows of the distribution, also those created since.
FlushDelete(c) ==
    /\ req[c].op = "flush"
    /\ req[c].left = {}
    /\ status' = [j \in Jobs |-> IF distOf[j] = req[c].dist THEN "absent" ELSE status[j]]
    /\ req' = [req EXCEPT ![c] = Idle]
    /\ UNCHANGED <<distOf, itemOf, submitted, retried, manager, dispatcher, worker>>

-----------------------------------------------------------------------------
(***************************************************************************)
(* The dispatcher goroutine and Stop.                                      *)
(***************************************************************************)

\* A tick: ListPending takes a snapshot of the pending rows.
DispatchList ==
    /\ polling
    /\ todo = {}
    /\ todo' = Pending
    /\ UNCHANGED <<table, manager, polling, worker, req>>

\* The first listed job is sent when the queue has room ...
DispatchSend ==
    /\ polling
    /\ life # "closed"
    /\ HasRoom
    /\ \E j \in todo :
         /\ \A k \in todo : Before(j, k)
         /\ queue' = Append(queue, j)
         /\ todo' = todo \ {j}
    /\ UNCHANGED <<table, cancelFuncs, life, sentOnClosed, polling, worker, req>>

\* ... a full queue ends the round, and so may Stop ...
DispatchAbandon ==
    /\ life # "running" \/ ~HasRoom
    /\ todo # {}
    /\ todo' = {}
    /\ UNCHANGED <<table, manager, polling, worker, req>>

\* ... but its closed channel panics, and nothing recovers the dispatcher.
DispatchPanics ==
    /\ polling
    /\ life = "closed"
    /\ todo # {}
    /\ sentOnClosed' = TRUE
    /\ polling' = FALSE
    /\ todo' = {}
    /\ UNCHANGED <<table, queue, cancelFuncs, life, worker, req>>

MUT_DispatchExitDrained ==
    /\ polling
    /\ life # "running"
    /\ Pending = {}
    /\ todo = {}
    /\ polling' = FALSE
    /\ UNCHANGED <<table, manager, todo, worker, req>>
DispatchExit ==
    /\ polling
    /\ life # "running"
    /\ todo = {}
    /\ polling' = FALSE
    /\ UNCHANGED <<table, manager, todo, worker, req>>

\* Where a worker has no jobCtx.
NoContext == {"idle", "stopped", "register"}

\* Stop cancels the context of the manager and of every run, ...
StopCancel ==
    /\ Stoppable
    /\ life = "running"
    /\ life' = "cancelled"
    /\ done' = [w \in Workers |-> pc[w] \notin NoContext]
    /\ UNCHANGED <<table, queue, cancelFuncs, sentOnClosed, dispatcher,
                   pc, job, attempt, req>>

\* ... and then closes the queue, without waiting for its sender.
StopClose ==
    /\ life = "cancelled"
    /\ life' = "closed"
    /\ UNCHANGED <<table, queue, cancelFuncs, sentOnClosed, dispatcher, worker, req>>

-----------------------------------------------------------------------------
(***************************************************************************)
(* The workers: processJob.                                                *)
(***************************************************************************)
Goto(w, from, to) ==
    /\ pc[w] = from
    /\ pc' = [pc EXCEPT ![w] = to]

\* A goroutine in its loop takes the head of the queue.
Receive(w) ==
    /\ Goto(w, "idle", "register")
    /\ queue # <<>>
    /\ queue' = Tail(queue)
    /\ job' = [job EXCEPT ![w] = Head(queue)]
    /\ UNCHANGED <<table, cancelFuncs, life, sentOnClosed, dispatcher,
                   attempt, done, req>>

\* It leaves the loop when the manager's context is done.
WorkerExit(w) ==
    /\ life # "running"
    /\ Goto(w, "idle", "stopped")
    /\ UNCHANGED <<table, manager, dispatcher, job, attempt, done, req>>

RegisterCancel(w) ==
    /\ Goto(w, "register", "try")
    /\ cancelFuncs' = [cancelFuncs EXCEPT ![job[w]] = w]
    /\ done' = [done EXCEPT ![w] = (life # "running")]
    /\ UNCHANGED <<table, queue, life, sentOnClosed, dispatcher, job, attempt, req>>

\* A try that fails is followed by a wait and another one, or by the failure of
\* the job once all are used up.
MUT_EndlessTries(w, from) ==
    /\ Goto(w, from, "backoff")
    /\ UNCHANGED attempt
TryFails(w, from) ==
    /\ Goto(w, from, IF attempt[w] < MaxRetries THEN "backoff" ELSE "fail")
    /\ attempt' = [attempt EXCEPT ![w] = IF @ < MaxRetries THEN @ + 1 ELSE @]

TryGoesOn(w, from, to) == Goto(w, from, to) /\ UNCHANGED attempt

\* An update that finds no row is an error like any other.
TryMarks(w, from, s, to) ==
    /\ pc[w] = from
    /\ SetStatus(job[w], s)
    /\ IF Exists(job[w]) THEN TryGoesOn(w, from, to) ELSE TryFails(w, from)

\* verify: MarkVerifying, ...
MarkVerifying(w) ==
    /\ TryMarks(w, "try", "verifying", "probe")
    /\ UNCHANGED <<distOf, itemOf, submitted, retried, manager, dispatcher,
                   job, done, req>>

\* ... then a HEAD request or a git ls-remote, which a cancelled context stops.
Probe(w) ==
    /\ \/ ~done[w] /\ TryGoesOn(w, "probe", "start")
       \/ TryFails(w, "probe")
    /\ UNCHANGED <<table, manager, dispatcher, job, done, req>>

\* DownloadHTTPWithOptions starts, or DownloadLocal when the mirror has the file.
MarkStarted(w) ==
    /\ \/ TryMarks(w, "start", "downloading", "fetch")
       \/ HasMirror /\ TryMarks(w, "try", "downloading", "copy")
    /\ UNCHANGED <<distOf, itemOf, submitted, retried, manager, dispatcher,
                   job, done, req>>

\* The transfer and the upload to storage: reading from the network stops with
\* the context, reading the local mirror does not.  A download that succeeds is
\* stored in the cache after MarkCompleted, which does not touch the row.
Fetch(w) ==
    /\ \/ ~done[w] /\ TryGoesOn(w, "fetch", "complete")
       \/ TryGoesOn(w, "copy", "complete")
       \/ \E from \in {"fetch", "copy"} : TryFails(w, from)
    /\ UNCHANGED <<table, manager, dispatcher, job, done, req>>

MUT_CompletedUnchecked(w) ==
    /\ status' = [status EXCEPT ![job[w]] = "completed"]
    /\ TryGoesOn(w, "complete", "unregister")
    /\ UNCHANGED <<distOf, itemOf, submitted, retried, manager, dispatcher,
                   job, done, req>>
MarkCompleted(w) ==
    /\ TryMarks(w, "complete", "completed", "unregister")
    /\ UNCHANGED <<distOf, itemOf, submitted, retried, manager, dispatcher,
                   job, done, req>>

\* The wait before a further try ends with the context or with the delay.
MUT_CancelledReturns(w) ==
    /\ TryGoesOn(w, "backoff", IF done[w] THEN "unregister" ELSE "again")
    /\ UNCHANGED <<table, manager, dispatcher, job, done, req>>
Backoff(w) ==
    /\ TryGoesOn(w, "backoff", IF done[w] THEN "fail" ELSE "again")
    /\ UNCHANGED <<table, manager, dispatcher, job, done, req>>

\* IncrementRetry: the row of the running job is pending again.
IncrementRetry(w) ==
    /\ TryGoesOn(w, "again", "try")
    /\ SetStatus(job[w], "pending")
    /\ UNCHANGED <<distOf, itemOf, submitted, retried, manager, dispatcher,
                   job, done, req>>

MarkFailed(w) ==
    /\ TryGoesOn(w, "fail", "unregister")
    /\ SetStatus(job[w], "failed")
    /\ UNCHANGED <<distOf, itemOf, submitted, retried, manager, dispatcher,
                   job, done, req>>

\* The deferred calls: the map entry of the job goes, whoever registered it,
\* and jobCtx is cancelled, so a cancel function still held does nothing.
MUT_UnregisterOwn(w) ==
    /\ Goto(w, "unregister", "idle")
    /\ cancelFuncs' = [cancelFuncs EXCEPT ![job[w]] = IF attempt[w] = 0 THEN NoWorker ELSE @]
    /\ job' = [job EXCEPT ![w] = NoJob]
    /\ attempt' = [attempt EXCEPT ![w] = 0]
    /\ done' = [done EXCEPT ![w] = FALSE]
    /\ UNCHANGED <<table, queue, life, sentOnClosed, dispatcher, req>>
Unregister(w) ==
    /\ Goto(w, "unregister", "idle")
    /\ cancelFuncs' = [cancelFuncs EXCEPT ![job[w]] = NoWorker]
    /\ req' = [c \in Clients |->
                 IF req[c].op = "cancel" /\ req[c].fn = w
                   THEN [req[c] EXCEPT !.fn = NoWorker] ELSE req[c]]
    /\ job' = [job EXCEPT ![w] = NoJob]
    /\ attempt' = [attempt EXCEPT ![w] = 0]
    /\ done' = [done EXCEPT ![w] = FALSE]
    /\ UNCHANGED <<table, queue, life, sentOnClosed, dispatcher>>

-----------------------------------------------------------------------------
ClientStep(c) ==
    \/ \E d \in Dists : Start(c, d) \/ Flush(c, d)
    \/ \E j \in Jobs : CancelLookup(c, j) \/ RetryCheck(c, j)
    \/ StartCheck(c) \/ StartCreate(c) \/ StartHit(c) \/ CancelCall(c) \/ CancelMark(c)
    \/ RetryReset(c) \/ FlushCancel(c) \/ FlushDelete(c)

DispatcherStep ==
    DispatchList \/ DispatchSend \/ DispatchAbandon \/ DispatchPanics \/ DispatchExit

StopStep == StopCancel \/ StopClose

\* What a run does of its own accord: everything but the network's answers.
RunStep(w) ==
    \/ Receive(w) \/ WorkerExit(w) \/ RegisterCancel(w)
    \/ MarkVerifying(w) \/ MarkStarted(w) \/ MarkCompleted(w)
    \/ Backoff(w) \/ IncrementRetry(w) \/ MarkFailed(w) \/ Unregister(w)

Next ==
    \/ \E c \in Clients : ClientStep(c)
    \/ DispatcherStep
    \/ StopStep
    \/ \E w \in Workers : RunStep(w) \/ Probe(w) \/ Fetch(w)

Spec == Init /\ [][Next]_vars

\* The ticker and the timers fire, goroutines are scheduled and a select picks
\* at random among its ready cases.
Fairness ==
    /\ WF_vars(DispatcherStep)
    /\ SF_vars(DispatchExit)
    /\ WF_vars(StopClose)
    /\ \A w \in Workers : WF_vars(RunStep(w)) /\ WF_vars(Probe(w))

\* The download client has no timeout: that a transfer ends is up to the server.
ServersAnswer == \A w \in Workers : WF_vars(Fetch(w))

FairSpec == Spec /\ Fairness /\ ServersAnswer

-----------------------------------------------------------------------------
(***************************************************************************)
(* Properties.                                                             *)
(***************************************************************************)
PC == {"idle", "stopped", "register", "try", "probe", "start", "fetch", "copy",
       "complete", "backoff", "again", "fail", "unregister"}

\* What a request goes on with after a step that it shares with others.
Continuation ==
    {Idle}
      \cup [op : {"start"}, dist : Dists, left : SUBSET Items]
      \cup [op : {"flush"}, dist : Dists, left : SUBSET Jobs]

Request ==
    Continuation
      \cup [op : {"hit"}, job : Jobs, next : Continuation]
      \cup [op : {"create"}, dist : Dists, left : SUBSET Items, item : Items]
      \cup [op : {"cancel"}, job : Jobs, fn : Workers \cup {NoWorker}, next : Continuation]
      \cup [op : {"mark"}, job : Jobs, next : Continuation]
      \cup [op : {"retry"}, job : Jobs]

\* Every variable keeps its type, the queue its capacity, and a run its number
\* of tries.
TypeOK ==
    /\ status \in [Jobs -> JobStatus]
    /\ distOf \in [Jobs -> Dists]
    /\ itemOf \in [Jobs -> Items]
    /\ submitted \in 0 .. MaxJobs
    /\ retried \in [Jobs -> Nat]
    /\ queue \in Seq(Jobs) /\ Len(queue) <= QueueCap
    /\ cancelFuncs \in [Jobs -> Workers \cup {NoWorker}]
    /\ life \in {"running", "cancelled", "closed"}
    /\ sentOnClosed \in BOOLEAN
    /\ todo \subseteq Jobs
    /\ polling \in BOOLEAN
    /\ pc \in [Workers -> PC]
    /\ job \in [Workers -> Jobs \cup {NoJob}]
    /\ attempt \in [Workers -> 0 .. MaxRetries]
    /\ done \in [Workers -> BOOLEAN]
    /\ req \in [Clients -> Request]

\* The steps of a run during which its row may hold an active status.
RowHeld == {"try", "probe", "start", "fetch", "copy", "complete", "backoff",
            "again", "fail"}

\* A download shown as verifying or downloading is being worked on: every way
\* out of the tries (missing row, failed probe or transfer, cancelled wait,
\* success) leaves the row in a terminal status, also when the dispatcher gave
\* the job to a second run while the first one waited to try again.
ActiveDownloadHasRunner ==
    \A j \in Jobs : status[j] \in Active =>
        \E w \in Workers : pc[w] \in RowHeld /\ job[w] = j

\* The steps of worker w between registerCancel and unregisterCancel.
Registered(w) == pc[w] \notin NoContext

\* cancelFuncs never leaks: an entry belongs to a run of that very job that is
\* still between registerCancel and unregisterCancel.
CancelFuncsLive ==
    \A j \in Jobs, w \in Workers : cancelFuncs[j] = w => job[w] = j /\ Registered(w)

\* A deleted row never comes back: what a run, a cancellation or a retry writes
\* after the flush is lost.
FlushedStaysFlushed ==
    [][\A j \in Jobs : j <= submitted /\ ~Exists(j) => status'[j] = "absent"]_vars

\* When requests come one at a time, no artifact of a distribution is downloaded
\* for two rows, whatever flushes, retries and runs happened before.
OneRowPerArtifact ==
    \A j, k \in Jobs :
        Exists(j) /\ Exists(k) /\ distOf[j] = distOf[k] /\ itemOf[j] = itemOf[k] => j = k

\* From some time on no try fails.
TriesStopFailing == <>[][\A w \in Workers : attempt'[w] <= attempt[w]]_vars

\* Once tries stop failing, every pending download is picked up, cancelled or
\* flushed unless the manager stops: those of high priority, and the duplicates
\* in the bounded queue, never starve the others.
PendingIsPicked ==
    TriesStopFailing =>
        \A j \in Jobs : (status[j] = "pending") ~> (status[j] # "pending" \/ life # "running")

Settles(j) ==
    <>[](\/ status[j] \in Terminal \cup {"absent"}
         \/ status[j] = "pending" /\ life # "running")

\* Once tries stop failing and users stop retrying, every download ends for
\* good, except those that Stop leaves pending: no duplicate or late step of a
\* run changes its row for ever.
DownloadsSettle == TriesStopFailing => \A j \in Jobs : Settles(j)

\* "MaxRetries int // Default max retries per job" (download/manager.go:33):
\* the retries of a job that nobody retries by hand come to an end.
RetriesEnd == \A j \in Jobs : Settles(j)

\* Stop's wg.Wait returns: all goroutines of the manager end.
StopReturns ==
    (life = "closed") ~> (~polling /\ \A w \in Workers : pc[w] = "stopped")

=============================================================================
