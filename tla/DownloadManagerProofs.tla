------------------------ MODULE DownloadManagerProofs ------------------------
(***************************************************************************)
(* Proofs about the downloads: the manager (DownloadManager), for any      *)
(* number of distributions, items, workers, clients, rows, tries and       *)
(* retries, with or without a mirror, and the limit on the bandwidth       *)
(* (Throttle), for every rate, every burst, every resolution of the clock  *)
(* and every number of workers.  With the discovery of versions, which has *)
(* its proofs in SyncProofs, they give the types of DownloadLiveMC.        *)
(***************************************************************************)
EXTENDS DownloadLiveMC, SyncProofs

\* A worker that is not in its loop has a job.
JobKnown == \A w \in Workers : pc[w] \notin {"idle", "stopped"} => job[w] \in Jobs

Typed == TypeOK /\ JobKnown

\* The queue capacity, 2 * Workers, is a natural number.
LEMMA QueueCapType == QueueCap \in Nat
BY WorkersAssumption, FS_CardinalityType DEF QueueCap

\* What a request carries, by its kind.
LEMMA RequestFields ==
    ASSUME NEW r \in Request
    PROVE  /\ r.op \in {"hit", "cancel", "mark", "retry"} => r.job \in Jobs
           /\ r.op = "cancel" => r.fn \in Workers \cup {NoWorker}
           /\ r.op \in {"hit", "cancel", "mark"} => r.next \in Continuation
           /\ r.op \in {"start", "create", "flush"} => r.dist \in Dists
           /\ r.op \in {"start", "create"} => r.left \subseteq Items
           /\ r.op = "flush" => r.left \subseteq Jobs
           /\ r.op = "create" => r.item \in Items
BY DEF Request, Continuation, Idle

\* What a start goes on with after an item is the rest of a start.
LEMMA RestType ==
    ASSUME req \in [Clients -> Request], NEW c \in Clients, NEW i \in Items,
           req[c].op \in {"start", "create"}
    PROVE  Rest(c, i) \in Continuation
<1>1. req[c].dist \in Dists /\ req[c].left \subseteq Items
  BY RequestFields
<1> QED
  BY <1>1 DEF Rest, Continuation

\* Writing a status of the right type through SetStatus keeps the type.
LEMMA SetStatusType ==
    ASSUME status \in [Jobs -> JobStatus], NEW j \in Jobs, NEW s \in JobStatus,
           SetStatus(j, s)
    PROVE  status' \in [Jobs -> JobStatus]
BY DEF SetStatus

\* A step of a try moves the worker within the tries and counts them.
LEMMA TryType ==
    ASSUME Typed, NEW w \in Workers, NEW from \in PC \ {"idle", "stopped"},
           NEW to \in PC, TryGoesOn(w, from, to) \/ TryFails(w, from), job' = job
    PROVE  /\ pc' \in [Workers -> PC]
           /\ attempt' \in [Workers -> 0 .. MaxRetries]
           /\ JobKnown'
<1> USE DEF Typed, TypeOK
<1>1. CASE TryGoesOn(w, from, to)
  BY <1>1 DEF TryGoesOn, Goto, JobKnown
<1>2. CASE TryFails(w, from)
  <2>1. attempt' \in [Workers -> 0 .. MaxRetries]
    BY <1>2, BoundsAssumption DEF TryFails
  <2>2. pc' \in [Workers -> PC] /\ JobKnown'
    BY <1>2 DEF TryFails, Goto, JobKnown, PC
  <2> QED
    BY <2>1, <2>2
<1> QED
  BY <1>1, <1>2

\* So does one that also marks the row.
LEMMA MarkType ==
    ASSUME Typed, NEW w \in Workers, NEW from \in PC \ {"idle", "stopped"},
           NEW to \in PC, NEW s \in JobStatus, TryMarks(w, from, s, to), job' = job
    PROVE  /\ status' \in [Jobs -> JobStatus]
           /\ pc' \in [Workers -> PC]
           /\ attempt' \in [Workers -> 0 .. MaxRetries]
           /\ JobKnown'
<1>1. job[w] \in Jobs
  BY DEF Typed, JobKnown, TryMarks
<1>2. status' \in [Jobs -> JobStatus]
  BY <1>1, SetStatusType DEF Typed, TypeOK, TryMarks
<1>3. TryGoesOn(w, from, to) \/ TryFails(w, from)
  BY DEF TryMarks
<1> QED
  BY <1>2, <1>3, TryType

\* The initial state is typed.
LEMMA InitTyped == Init => Typed
<1> SUFFICES ASSUME Init PROVE Typed
  OBVIOUS
<1>1. 0 \in 0 .. MaxJobs /\ 0 \in 0 .. MaxRetries
  BY BoundsAssumption
<1>2. (CHOOSE d \in Dists : TRUE) \in Dists /\ (CHOOSE i \in Items : TRUE) \in Items
  BY BoundsAssumption, ItemsAssumption
<1>3. Len(queue) <= QueueCap /\ queue \in Seq(Jobs)
  BY QueueCapType DEF Init
<1>4. req \in [Clients -> Request]
  BY DEF Init, Request, Continuation
<1> QED
  BY <1>1, <1>2, <1>3, <1>4 DEF Init, Typed, TypeOK, JobKnown, JobStatus, PC, NoJob

\* Every step keeps every variable in its type.
LEMMA NextTyped == Typed /\ [Next]_vars => Typed'
<1> SUFFICES ASSUME Typed, [Next]_vars PROVE Typed'
  OBVIOUS
<1> USE DEF Typed, TypeOK, table, manager, dispatcher, worker
<1>0. Idle \in Request /\ Continuation \subseteq Request
  BY DEF Request, Continuation
<1>r. ASSUME NEW c \in Clients, NEW r \in Request, req' = [req EXCEPT ![c] = r]
      PROVE  req' \in [Clients -> Request]
  BY <1>r
<1>1. ASSUME NEW c \in Clients, NEW d \in Dists, Start(c, d) PROVE Typed'
  <2>1. [op |-> "start", dist |-> d, left |-> Items] \in Request
    BY DEF Request, Continuation
  <2> QED
    BY <1>1, <1>r, <2>1 DEF Start, QueueCap, JobKnown
<1>2. ASSUME NEW c \in Clients, NEW d \in Dists, Flush(c, d) PROVE Typed'
  <2>1. {j \in Jobs : distOf[j] = d /\ status[j] \in Active \cup {"pending"}} \in SUBSET Jobs
    OBVIOUS
  <2>2. [op |-> "flush", dist |-> d,
         left |-> {j \in Jobs : distOf[j] = d /\ status[j] \in Active \cup {"pending"}}]
            \in Request
    BY <2>1 DEF Request, Continuation
  <2> QED
    BY <1>2, <1>r, <2>2 DEF Flush, QueueCap, JobKnown
<1>l. ASSUME NEW c \in Clients, NEW j \in Jobs, NEW next \in Continuation, LookUp(c, j, next)
      PROVE  req' \in [Clients -> Request]
  <2>1. [op |-> "cancel", job |-> j, fn |-> cancelFuncs[j], next |-> next] \in Request
    BY DEF Request
  <2> QED
    BY <1>l, <1>r, <2>1 DEF LookUp
<1>3. ASSUME NEW c \in Clients, NEW j \in Jobs, CancelLookup(c, j) PROVE Typed'
  <2>1. Idle \in Continuation
    BY DEF Continuation
  <2> QED
    BY <1>3, <1>l, <2>1 DEF CancelLookup, QueueCap, JobKnown
<1>4. ASSUME NEW c \in Clients, NEW j \in Jobs, RetryCheck(c, j) PROVE Typed'
  <2>1. [op |-> "retry", job |-> j] \in Request
    BY DEF Request
  <2> QED
    BY <1>4, <1>r, <2>1 DEF RetryCheck, QueueCap, JobKnown
<1>5. ASSUME NEW c \in Clients, StartCheck(c) PROVE Typed'
  <2>1. PICK i \in req[c].left :
          req' = [req EXCEPT ![c] =
                    IF HasRow(req[c].dist, i) THEN Rest(c, i)
                    ELSE [op |-> "create", dist |-> req[c].dist,
                          left |-> req[c].left, item |-> i]]
    BY <1>5 DEF StartCheck
  <2>2. req[c].op = "start" /\ req[c].dist \in Dists /\ req[c].left \subseteq Items /\ i \in Items
    BY <1>5, RequestFields DEF StartCheck
  <2>3. Rest(c, i) \in Request
    BY <1>0, <2>2, RestType
  <2>4. [op |-> "create", dist |-> req[c].dist, left |-> req[c].left, item |-> i] \in Request
    BY <2>2 DEF Request
  <2>5. req' \in [Clients -> Request]
    BY <1>r, <2>1, <2>3, <2>4
  <2> QED
    BY <1>5, <2>5 DEF StartCheck, QueueCap, JobKnown
<1>6. ASSUME NEW c \in Clients, StartCreate(c) PROVE Typed'
  <2>1. /\ req[c].op = "create" /\ req[c].dist \in Dists /\ req[c].item \in Items
    BY <1>6, RequestFields DEF StartCreate
  <2>2. Rest(c, req[c].item) \in Continuation
    BY <2>1, RestType
  <2>3. submitted + 1 \in Jobs /\ submitted' = submitted + 1
    BY <1>6, BoundsAssumption DEF StartCreate, Jobs
  <2>4. submitted' \in 0 .. MaxJobs
    BY <2>3 DEF Jobs
  <2>5. [op |-> "hit", job |-> submitted + 1, next |-> Rest(c, req[c].item)] \in Request
    BY <2>2, <2>3 DEF Request
  <2>6. req' \in [Clients -> Request]
    BY <1>0, <1>6, <1>r, <2>2, <2>5 DEF StartCreate
  <2>7. status' \in [Jobs -> JobStatus]
    BY <1>6 DEF StartCreate, JobStatus, Terminal
  <2>8. distOf' \in [Jobs -> Dists] /\ itemOf' \in [Jobs -> Items]
    BY <1>6, <2>1 DEF StartCreate
  <2> QED
    BY <1>6, <2>4, <2>6, <2>7, <2>8 DEF StartCreate, QueueCap, JobKnown
<1>7. ASSUME NEW c \in Clients, StartHit(c) \/ CancelMark(c) PROVE Typed'
  <2>1. req[c].job \in Jobs /\ req[c].next \in Request
    BY <1>0, <1>7, RequestFields DEF StartHit, CancelMark
  <2>2. req' \in [Clients -> Request]
    BY <1>7, <1>r, <2>1 DEF StartHit, CancelMark
  <2>3. {"completed", "cancelled"} \subseteq JobStatus
    BY DEF JobStatus, Terminal
  <2>4. status' \in [Jobs -> JobStatus]
    BY <1>7, <2>1, <2>3, SetStatusType DEF StartHit, CancelMark
  <2> QED
    BY <1>7, <2>2, <2>4 DEF StartHit, CancelMark, QueueCap, JobKnown
<1>8. ASSUME NEW c \in Clients, CancelCall(c) PROVE Typed'
  <2>1. req[c].job \in Jobs /\ req[c].next \in Continuation
    BY <1>8, RequestFields DEF CancelCall
  <2>2. [op |-> "mark", job |-> req[c].job, next |-> req[c].next] \in Request
    BY <2>1 DEF Request
  <2>3. req' \in [Clients -> Request]
    BY <1>8, <1>r, <2>2 DEF CancelCall
  <2> QED
    BY <1>8, <2>3 DEF CancelCall, QueueCap, JobKnown
<1>9. ASSUME NEW c \in Clients, RetryReset(c) PROVE Typed'
  <2>1. req[c].job \in Jobs
    BY <1>9, RequestFields DEF RetryReset
  <2>2. req' \in [Clients -> Request]
    BY <1>0, <1>9, <1>r DEF RetryReset
  <2>3. status' \in [Jobs -> JobStatus]
    BY <1>9, <2>1, SetStatusType DEF RetryReset, JobStatus
  <2>4. retried' \in [Jobs -> Nat]
    BY <1>9, <2>1 DEF RetryReset
  <2> QED
    BY <1>9, <2>2, <2>3, <2>4 DEF RetryReset, QueueCap, JobKnown
<1>10. ASSUME NEW c \in Clients, FlushCancel(c) PROVE Typed'
  <2>1. PICK j \in req[c].left : LookUp(c, j, [req[c] EXCEPT !.left = @ \ {j}])
    BY <1>10 DEF FlushCancel
  <2>2. req[c].op = "flush" /\ j \in Jobs /\ req[c].dist \in Dists /\ req[c].left \subseteq Jobs
    BY <1>10, RequestFields DEF FlushCancel
  <2>3. req[c] \in [op : {"flush"}, dist : Dists, left : SUBSET Jobs]
    BY <2>2 DEF Request, Continuation, Idle
  <2>4. [req[c] EXCEPT !.left = @ \ {j}] \in Continuation
    BY <2>3 DEF Continuation
  <2>5. req' \in [Clients -> Request]
    BY <1>l, <2>1, <2>2, <2>4
  <2> QED
    BY <1>10, <2>5 DEF FlushCancel, QueueCap, JobKnown
<1>11. ASSUME NEW c \in Clients, FlushDelete(c) PROVE Typed'
  <2>1. req' \in [Clients -> Request]
    BY <1>0, <1>11, <1>r DEF FlushDelete
  <2> QED
    BY <1>11, <2>1 DEF FlushDelete, JobStatus, QueueCap, JobKnown
<1>12. CASE DispatchList
  BY <1>12 DEF DispatchList, Pending, QueueCap, JobKnown
<1>13. CASE DispatchSend
  <2>1. PICK j \in todo : queue' = Append(queue, j) /\ todo' = todo \ {j}
    BY <1>13 DEF DispatchSend
  <2>2. queue' \in Seq(Jobs) /\ Len(queue') <= QueueCap
    BY <1>13, <2>1, QueueCapType DEF DispatchSend, HasRoom
  <2> QED
    BY <1>13, <2>1, <2>2 DEF DispatchSend, QueueCap, JobKnown
<1>14. CASE DispatchAbandon
  BY <1>14 DEF DispatchAbandon, QueueCap, JobKnown
<1>15. CASE DispatchPanics
  BY <1>15 DEF DispatchPanics, QueueCap, JobKnown
<1>16. CASE DispatchExit
  BY <1>16 DEF DispatchExit, QueueCap, JobKnown
<1>17. CASE StopCancel
  BY <1>17 DEF StopCancel, QueueCap, JobKnown
<1>18. CASE StopClose
  BY <1>18 DEF StopClose, QueueCap, JobKnown
<1>19. ASSUME NEW w \in Workers, Receive(w) PROVE Typed'
  <2>1. Head(queue) \in Jobs /\ queue' \in Seq(Jobs) /\ Len(queue') <= QueueCap
    BY <1>19, QueueCapType DEF Receive
  <2> QED
    BY <1>19, <2>1 DEF Receive, Goto, PC, QueueCap, JobKnown
<1>20. ASSUME NEW w \in Workers, WorkerExit(w) PROVE Typed'
  BY <1>20 DEF WorkerExit, Goto, PC, QueueCap, JobKnown
<1>21. ASSUME NEW w \in Workers, RegisterCancel(w) PROVE Typed'
  BY <1>21 DEF RegisterCancel, Goto, PC, QueueCap, JobKnown
<1>22. ASSUME NEW w \in Workers, MarkVerifying(w) \/ MarkStarted(w) \/ MarkCompleted(w)
       PROVE  Typed'
  <2>1. /\ {"verifying", "downloading", "completed"} \subseteq JobStatus
        /\ {"try", "probe", "start", "fetch", "copy", "complete", "unregister"}
             \subseteq PC
    BY DEF JobStatus, Active, Terminal, PC
  <2>2. /\ status' \in [Jobs -> JobStatus]
        /\ pc' \in [Workers -> PC]
        /\ attempt' \in [Workers -> 0 .. MaxRetries]
        /\ JobKnown'
    BY <1>22, <2>1, MarkType DEF MarkVerifying, MarkStarted, MarkCompleted
  <2> QED
    BY <1>22, <2>2 DEF MarkVerifying, MarkStarted, MarkCompleted, QueueCap
<1>23. ASSUME NEW w \in Workers,
              Probe(w) \/ Fetch(w) \/ Backoff(w) \/ IncrementRetry(w) \/ MarkFailed(w)
       PROVE  Typed'
  <2>1. {"probe", "start", "fetch", "copy", "complete", "backoff", "again", "fail",
         "try", "unregister"} \subseteq PC \ {"idle", "stopped"}
    BY DEF PC
  <2>2. job' = job
    BY <1>23 DEF Probe, Fetch, Backoff, IncrementRetry, MarkFailed
  <2>3. /\ pc' \in [Workers -> PC]
        /\ attempt' \in [Workers -> 0 .. MaxRetries]
        /\ JobKnown'
    <3>1. CASE Probe(w)
      BY <2>1, <2>2, <3>1, TryType DEF Probe
    <3>2. CASE Fetch(w)
      BY <2>1, <2>2, <3>2, TryType DEF Fetch
    <3>3. CASE Backoff(w)
      BY <2>1, <2>2, <3>3, TryType DEF Backoff
    <3>4. CASE IncrementRetry(w) \/ MarkFailed(w)
      BY <2>1, <2>2, <3>4, TryType DEF IncrementRetry, MarkFailed
    <3> QED
      BY <1>23, <3>1, <3>2, <3>3, <3>4
  <2>4. status' \in [Jobs -> JobStatus]
    <3>1. CASE IncrementRetry(w) \/ MarkFailed(w)
      <4>1. job[w] \in Jobs /\ {"pending", "failed"} \subseteq JobStatus
        BY <3>1 DEF IncrementRetry, MarkFailed, TryGoesOn, Goto, JobKnown, JobStatus, Terminal
      <4> QED
        BY <3>1, <4>1, SetStatusType DEF IncrementRetry, MarkFailed
    <3> QED
      BY <1>23, <3>1 DEF Probe, Fetch, Backoff
  <2> QED
    BY <1>23, <2>2, <2>3, <2>4 DEF Probe, Fetch, Backoff, IncrementRetry, MarkFailed, QueueCap
<1>24. ASSUME NEW w \in Workers, Unregister(w) PROVE Typed'
  <2>1. req' \in [Clients -> Request]
    <3>1. ASSUME NEW c \in Clients, req[c].op = "cancel"
          PROVE  [req[c] EXCEPT !.fn = NoWorker] \in Request
      <4>1. req[c] \in [op : {"cancel"}, job : Jobs, fn : Workers \cup {NoWorker},
                        next : Continuation]
        BY <3>1 DEF Request, Continuation, Idle
      <4> QED
        BY <4>1 DEF Request
    <3> QED
      BY <1>24, <3>1 DEF Unregister
  <2>2. attempt' \in [Workers -> 0 .. MaxRetries] /\ pc' \in [Workers -> PC]
    BY <1>24, BoundsAssumption DEF Unregister, Goto, PC
  <2>3. JobKnown'
    BY <1>24 DEF Unregister, Goto, JobKnown
  <2> QED
    BY <1>24, <2>1, <2>2, <2>3 DEF Unregister, QueueCap, NoJob
<1>25. CASE UNCHANGED vars
  BY <1>25 DEF vars, QueueCap, JobKnown
<1> QED
  BY <1>1, <1>2, <1>3, <1>4, <1>5, <1>6, <1>7, <1>8, <1>9, <1>10, <1>11, <1>12, <1>13,
     <1>14, <1>15, <1>16, <1>17, <1>18, <1>19, <1>20, <1>21, <1>22, <1>23, <1>24, <1>25
  DEF Next, ClientStep, DispatcherStep, StopStep, RunStep

\* Every behaviour is well typed: the channel never holds more than its capacity
\* and no run tries more often than its limit.
THEOREM TypeCorrect == Spec => []TypeOK
<1>1. Typed => TypeOK
  BY DEF Typed
<1> QED
  BY <1>1, InitTyped, NextTyped, PTL DEF Spec

-----------------------------------------------------------------------------
(***************************************************************************)
(* ActiveDownloadHasRunner is inductive together with the types.           *)
(***************************************************************************)

\* A step that makes no row active and takes no run out of RowHeld keeps it.
LEMMA RunnersKept ==
    ASSUME ActiveDownloadHasRunner,
           \A j \in Jobs : status'[j] \in Active => status[j] \in Active,
           \A w \in Workers : pc[w] \in RowHeld => pc'[w] \in RowHeld /\ job'[w] = job[w]
    PROVE  ActiveDownloadHasRunner'
BY DEF ActiveDownloadHasRunner

\* A run may write any status to its row as long as it holds the row on.
LEMMA RunnerMarks ==
    ASSUME Typed, ActiveDownloadHasRunner, NEW v \in Workers, job[v] \in Jobs,
           NEW s, SetStatus(job[v], s), pc'[v] \in RowHeld, job' = job,
           \A w \in Workers : pc[w] \in RowHeld => pc'[w] \in RowHeld
    PROVE  ActiveDownloadHasRunner'
BY DEF ActiveDownloadHasRunner, SetStatus, Typed, TypeOK

\* A run that gives up its row has written a status that is not active, unless
\* the row is gone.
LEMMA RunnerReleases ==
    ASSUME Typed, ActiveDownloadHasRunner, NEW v \in Workers, job[v] \in Jobs,
           NEW s \in Terminal, SetStatus(job[v], s), job' = job,
           \A w \in Workers \ {v} : pc'[w] = pc[w]
    PROVE  ActiveDownloadHasRunner'
<1> SUFFICES ASSUME NEW j \in Jobs, status'[j] \in Active
             PROVE  \E w \in Workers : pc'[w] \in RowHeld /\ job'[w] = j
  BY DEF ActiveDownloadHasRunner
<1>1. "absent" \notin Active /\ s \notin Active
  BY DEF Active, Terminal
<1>2. j # job[v] /\ status[j] \in Active
  BY <1>1 DEF SetStatus, Exists, Typed, TypeOK
<1> QED
  BY <1>2 DEF ActiveDownloadHasRunner

\* A step keeps every active download in the hands of a run.
LEMMA NextActive ==
    Typed /\ ActiveDownloadHasRunner /\ [Next]_vars => ActiveDownloadHasRunner'
<1> SUFFICES ASSUME Typed, ActiveDownloadHasRunner, [Next]_vars
             PROVE  ActiveDownloadHasRunner'
  OBVIOUS
<1> USE DEF Typed, TypeOK, JobKnown
<1>1. ASSUME NEW c \in Clients, ClientStep(c) PROVE ActiveDownloadHasRunner'
  <2>1. pc' = pc /\ job' = job
    BY <1>1 DEF ClientStep, Start, Flush, CancelLookup, RetryCheck, StartCheck,
       StartCreate, StartHit, CancelCall, CancelMark, RetryReset, FlushCancel,
       FlushDelete, worker
  <2> DEFINE NoneActivated == \A j \in Jobs : status'[j] \in Active => status[j] \in Active
  <2>2. NoneActivated
    <3>1. CASE StartCreate(c)
      BY <3>1 DEF StartCreate, Active
    <3>2. CASE StartHit(c) \/ CancelMark(c) \/ RetryReset(c)
      BY <3>2 DEF StartHit, CancelMark, RetryReset, SetStatus, Active
    <3>3. CASE FlushDelete(c)
      BY <3>3 DEF FlushDelete, Active
    <3>4. CASE status' = status
      BY <3>4
    <3> QED
      BY <1>1, <3>1, <3>2, <3>3, <3>4 DEF ClientStep, Start, Flush, CancelLookup,
         RetryCheck, StartCheck, CancelCall, FlushCancel, table
  <2> QED
    BY <2>1, <2>2, RunnersKept
<1>2. CASE DispatcherStep \/ StopStep \/ UNCHANGED vars
  <2>1. UNCHANGED <<status, pc, job>>
    BY <1>2 DEF DispatcherStep, DispatchList, DispatchSend, DispatchAbandon,
       DispatchPanics, DispatchExit, StopStep, StopCancel, StopClose, vars, table, worker
  <2> QED
    BY <2>1, RunnersKept
<1>t. ASSUME NEW w \in Workers, NEW from \in RowHeld, NEW to \in RowHeld,
             TryGoesOn(w, from, to) \/ TryFails(w, from)
      PROVE  pc'[w] \in RowHeld /\ \A u \in Workers : pc[u] \in RowHeld => pc'[u] \in RowHeld
  <2>1. {"backoff", "fail"} \subseteq RowHeld
    BY DEF RowHeld
  <2> QED
    BY <1>t, <2>1 DEF TryGoesOn, TryFails, Goto
<1>3. ASSUME NEW w \in Workers, MarkVerifying(w) \/ MarkStarted(w)
      PROVE  ActiveDownloadHasRunner'
  <2>1. PICK from \in RowHeld, to \in RowHeld, s \in Active : TryMarks(w, from, s, to)
    BY <1>3 DEF MarkVerifying, MarkStarted, RowHeld, Active
  <2>2. job[w] \in Jobs /\ job' = job /\ SetStatus(job[w], s)
    BY <1>3, <2>1 DEF MarkVerifying, MarkStarted, TryMarks, RowHeld
  <2>3. TryGoesOn(w, from, to) \/ TryFails(w, from)
    BY <2>1 DEF TryMarks
  <2> QED
    BY <1>t, <2>2, <2>3, RunnerMarks
<1>4. ASSUME NEW w \in Workers, IncrementRetry(w) PROVE ActiveDownloadHasRunner'
  <2>1. job[w] \in Jobs /\ job' = job /\ {"again", "try"} \subseteq RowHeld
    BY <1>4 DEF IncrementRetry, TryGoesOn, Goto, RowHeld
  <2> QED
    BY <1>4, <1>t, <2>1, RunnerMarks DEF IncrementRetry
<1>5. ASSUME NEW w \in Workers, MarkCompleted(w) \/ MarkFailed(w)
      PROVE  ActiveDownloadHasRunner'
  <2>1. job[w] \in Jobs /\ job' = job /\ {"completed", "failed"} \subseteq Terminal
    BY <1>5 DEF MarkCompleted, MarkFailed, TryMarks, TryGoesOn, Goto, Terminal
  <2>2. \A u \in Workers \ {w} : pc'[u] = pc[u]
    BY <1>5 DEF MarkCompleted, MarkFailed, TryMarks, TryGoesOn, TryFails, Goto
  <2> QED
    BY <1>5, <2>1, <2>2, RunnerReleases DEF MarkCompleted, MarkFailed, TryMarks
<1>6. ASSUME NEW w \in Workers, Probe(w) \/ Fetch(w) \/ Backoff(w)
      PROVE  ActiveDownloadHasRunner'
  <2>1. {"probe", "start", "fetch", "copy", "complete", "backoff", "again", "fail"}
          \subseteq RowHeld
    BY DEF RowHeld
  <2>2. UNCHANGED <<status, job>>
    BY <1>6 DEF Probe, Fetch, Backoff, table
  <2>3. \A u \in Workers : pc[u] \in RowHeld => pc'[u] \in RowHeld
    <3>1. CASE Probe(w)
      BY <1>t, <2>1, <3>1 DEF Probe
    <3>2. CASE Fetch(w)
      BY <1>t, <2>1, <3>2 DEF Fetch
    <3>3. CASE Backoff(w)
      BY <1>t, <2>1, <3>3 DEF Backoff
    <3> QED
      BY <1>6, <3>1, <3>2, <3>3
  <2> QED
    BY <2>2, <2>3, RunnersKept
<1>7. ASSUME NEW w \in Workers,
             Receive(w) \/ WorkerExit(w) \/ RegisterCancel(w) \/ Unregister(w)
      PROVE  ActiveDownloadHasRunner'
  <2>1. status' = status
    BY <1>7 DEF Receive, WorkerExit, RegisterCancel, Unregister, table
  <2>2. \A u \in Workers : pc[u] \in RowHeld => pc'[u] \in RowHeld /\ job'[u] = job[u]
    BY <1>7 DEF Receive, WorkerExit, RegisterCancel, Unregister, Goto, RowHeld
  <2> QED
    BY <2>1, <2>2, RunnersKept
<1> QED
  BY <1>1, <1>2, <1>3, <1>4, <1>5, <1>6, <1>7 DEF Next, RunStep

\* A download shown as verifying or downloading is always being worked on, for
\* any number of workers, tries and duplicates of it in the queue: a run that
\* gives up, a cancelled wait and a retry that makes the row of a running job
\* pending again leave none behind.
THEOREM ActiveDownloads == Spec => []ActiveDownloadHasRunner
<1>1. Init => ActiveDownloadHasRunner
  BY DEF Init, ActiveDownloadHasRunner, Active
<1> QED
  BY <1>1, InitTyped, NextTyped, NextActive, PTL DEF Spec

-----------------------------------------------------------------------------
(***************************************************************************)
(* CancelFuncsLive is inductive together with the types.                   *)
(***************************************************************************)

\* A step that adds no entry and ends no registered run keeps it.
LEMMA EntriesKept ==
    ASSUME CancelFuncsLive, cancelFuncs' = cancelFuncs,
           \A w \in Workers : Registered(w) => Registered(w)' /\ job'[w] = job[w]
    PROVE  CancelFuncsLive'
BY DEF CancelFuncsLive

\* A step leaves no cancel function behind its run.
LEMMA NextCancelFuncs == Typed /\ CancelFuncsLive /\ [Next]_vars => CancelFuncsLive'
<1> SUFFICES ASSUME Typed, CancelFuncsLive, [Next]_vars PROVE CancelFuncsLive'
  OBVIOUS
<1> USE DEF Typed, TypeOK, JobKnown
<1>1. CASE (\E c \in Clients : ClientStep(c)) \/ DispatcherStep \/ StopStep \/ UNCHANGED vars
  <2>1. UNCHANGED <<cancelFuncs, pc, job>>
    BY <1>1 DEF ClientStep, Start, Flush, CancelLookup, RetryCheck, StartCheck,
       StartCreate, StartHit, CancelCall, CancelMark, RetryReset, FlushCancel,
       FlushDelete, DispatcherStep, DispatchList, DispatchSend, DispatchAbandon,
       DispatchPanics, DispatchExit, StopStep, StopCancel, StopClose, vars, manager, worker
  <2> QED
    BY <2>1, EntriesKept DEF Registered
<1>2. ASSUME NEW w \in Workers, RegisterCancel(w) PROVE CancelFuncsLive'
  BY <1>2 DEF RegisterCancel, Goto, CancelFuncsLive, Registered, NoContext
<1>3. ASSUME NEW w \in Workers, Unregister(w) PROVE CancelFuncsLive'
  <2>1. job[w] \in Jobs /\ cancelFuncs' = [cancelFuncs EXCEPT ![job[w]] = NoWorker]
    BY <1>3 DEF Unregister, Goto
  <2>2. \A u \in Workers \ {w} : pc'[u] = pc[u] /\ job'[u] = job[u]
    BY <1>3 DEF Unregister, Goto
  <2>3. SUFFICES ASSUME NEW j \in Jobs, NEW u \in Workers, cancelFuncs'[j] = u
                 PROVE  job'[u] = j /\ Registered(u)'
    BY DEF CancelFuncsLive
  <2>4. j # job[w] /\ cancelFuncs[j] = u
    BY <2>1, <2>3, WorkersAssumption
  <2>5. job[u] = j /\ Registered(u) /\ u # w
    BY <2>4 DEF CancelFuncsLive
  <2> QED
    BY <2>2, <2>5 DEF Registered
<1>4. ASSUME NEW w \in Workers,
             \/ Receive(w) \/ WorkerExit(w) \/ MarkVerifying(w) \/ MarkStarted(w)
             \/ MarkCompleted(w) \/ Backoff(w) \/ IncrementRetry(w) \/ MarkFailed(w)
             \/ Probe(w) \/ Fetch(w)
      PROVE  CancelFuncsLive'
  <2>1. cancelFuncs' = cancelFuncs
    BY <1>4 DEF Receive, WorkerExit, MarkVerifying, MarkStarted, MarkCompleted, Backoff,
       IncrementRetry, MarkFailed, Probe, Fetch, manager
  <2>2. \A u \in Workers : Registered(u) => Registered(u)' /\ job'[u] = job[u]
    BY <1>4 DEF Receive, WorkerExit, MarkVerifying, MarkStarted, MarkCompleted, Backoff,
       IncrementRetry, MarkFailed, Probe, Fetch, TryMarks, TryGoesOn, TryFails, Goto,
       Registered, NoContext
  <2> QED
    BY <2>1, <2>2, EntriesKept
<1> QED
  BY <1>1, <1>2, <1>3, <1>4 DEF Next, RunStep

\* cancelFuncs never holds a function for a run that is over, or for another
\* job, however many workers register and unregister one job at a time.
THEOREM CancelFuncsNeverLeak == Spec => []CancelFuncsLive
<1>1. Init => CancelFuncsLive
  BY WorkersAssumption DEF Init, CancelFuncsLive
<1> QED
  BY <1>1, InitTyped, NextTyped, NextCancelFuncs, PTL DEF Spec

-----------------------------------------------------------------------------
(***************************************************************************)
(* FlushedStaysFlushed: identifiers are given in order, and an UPDATE by   *)
(* identifier creates no row.                                              *)
(***************************************************************************)

\* The rows of a step that creates none.
NoneCreated == \A j \in Jobs : ~Exists(j) => status'[j] = "absent"

\* Only a start request creates a row.
LEMMA OnlyStartsCreate ==
    ASSUME Typed, [Next]_vars, \A c \in Clients : ~StartCreate(c)
    PROVE  NoneCreated
<1> USE DEF Typed, TypeOK, JobKnown
<1>1. ASSUME NEW j, NEW s, SetStatus(j, s) PROVE NoneCreated
  BY <1>1 DEF SetStatus, NoneCreated, Exists
<1>2. CASE status' = status
  BY <1>2 DEF NoneCreated, Exists
<1>3. ASSUME NEW c \in Clients, ClientStep(c) PROVE NoneCreated
  <2>1. CASE StartHit(c) \/ CancelMark(c) \/ RetryReset(c)
    BY <1>1, <2>1 DEF StartHit, CancelMark, RetryReset
  <2>2. CASE FlushDelete(c)
    BY <2>2 DEF FlushDelete, NoneCreated, Exists
  <2> QED
    BY <1>2, <1>3, <2>1, <2>2 DEF ClientStep, Start, Flush, CancelLookup, RetryCheck,
       StartCheck, CancelCall, FlushCancel, table
<1>4. CASE DispatcherStep \/ StopStep \/ UNCHANGED vars
  BY <1>2, <1>4 DEF DispatcherStep, DispatchList, DispatchSend, DispatchAbandon,
     DispatchPanics, DispatchExit, StopStep, StopCancel, StopClose, vars, table
<1>5. ASSUME NEW w \in Workers, RunStep(w) \/ Probe(w) \/ Fetch(w) PROVE NoneCreated
  <2>1. CASE MarkVerifying(w) \/ MarkStarted(w) \/ MarkCompleted(w)
             \/ IncrementRetry(w) \/ MarkFailed(w)
    BY <1>1, <2>1 DEF MarkVerifying, MarkStarted, MarkCompleted, IncrementRetry,
       MarkFailed, TryMarks
  <2> QED
    BY <1>2, <1>5, <2>1 DEF RunStep, Receive, WorkerExit, RegisterCancel, Backoff,
       Unregister, Probe, Fetch, table
<1> QED
  BY <1>3, <1>4, <1>5 DEF Next

\* Rows deleted by a flush stay away, whatever runs, cancellations and retries
\* of them are still under way.
THEOREM FlushedNeverReturns == Spec => FlushedStaysFlushed
<1> DEFINE Flushed == \A j \in Jobs : j <= submitted /\ ~Exists(j) => status'[j] = "absent"
<1>1. Typed /\ [Next]_vars => [Flushed]_vars
  <2> SUFFICES ASSUME Typed, [Next]_vars PROVE Flushed
    OBVIOUS
  <2>1. ASSUME NEW c \in Clients, StartCreate(c) PROVE Flushed
    BY <2>1 DEF StartCreate, Exists, Typed, TypeOK, Jobs
  <2> QED
    BY <2>1, OnlyStartsCreate DEF NoneCreated
<1> QED
  BY <1>1, InitTyped, NextTyped, PTL DEF Spec, FlushedStaysFlushed

-----------------------------------------------------------------------------
(***************************************************************************)
(* OneRowPerArtifact, when requests come one at a time: what a request saw *)
(* missing is still missing when it creates the row.                       *)
(***************************************************************************)
StillMissing ==
    \A c \in Clients : req[c].op = "create" => ~HasRow(req[c].dist, req[c].item)

\* A step that creates no row and says nothing new of an artifact keeps both.
LEMMA RowsKept ==
    ASSUME Typed, OneRowPerArtifact, StillMissing, NoneCreated,
           distOf' = distOf, itemOf' = itemOf,
           \A c \in Clients : req'[c].op = "create" =>
               \/ req'[c] = req[c]
               \/ ~HasRow(req'[c].dist, req'[c].item)
    PROVE  OneRowPerArtifact' /\ StillMissing'
<1>1. \A j \in Jobs : Exists(j)' => Exists(j)
  BY DEF NoneCreated, Exists
<1>2. OneRowPerArtifact'
  BY <1>1 DEF OneRowPerArtifact
<1>3. \A d, i : HasRow(d, i)' => HasRow(d, i)
  BY <1>1 DEF HasRow
<1> QED
  BY <1>2, <1>3 DEF StillMissing

\* With one client at most a step adds no second row of an artifact.
LEMMA NextOneRow ==
    ASSUME \A b, c \in Clients : b = c,
           Typed, OneRowPerArtifact, StillMissing, [Next]_vars
    PROVE  OneRowPerArtifact' /\ StillMissing'
<1> USE DEF Typed, TypeOK
<1>1. ASSUME NEW c \in Clients, StartCreate(c) PROVE OneRowPerArtifact' /\ StillMissing'
  <2>1. /\ req[c].op = "create"
        /\ distOf' = [distOf EXCEPT ![submitted + 1] = req[c].dist]
        /\ itemOf' = [itemOf EXCEPT ![submitted + 1] = req[c].item]
        /\ \A j \in Jobs \ {submitted + 1} : status'[j] = status[j]
    BY <1>1 DEF StartCreate
  <2>2. ~HasRow(req[c].dist, req[c].item)
    BY <2>1 DEF StillMissing
  <2>3. OneRowPerArtifact'
    BY <2>1, <2>2 DEF OneRowPerArtifact, HasRow, Exists
  <2>4. Rest(c, req[c].item).op # "create"
    BY DEF Rest, Idle
  <2>5. req'[c].op # "create"
    BY <1>1, <2>4 DEF StartCreate
  <2> QED
    BY <2>3, <2>5 DEF StillMissing
<1>2. ASSUME NEW c \in Clients, StartCheck(c) PROVE OneRowPerArtifact' /\ StillMissing'
  <2>1. NoneCreated /\ distOf' = distOf /\ itemOf' = itemOf
    BY <1>2 DEF StartCheck, table, NoneCreated, Exists
  <2>2. \A i : Rest(c, i).op # "create"
    BY DEF Rest, Idle
  <2>3. req'[c].op = "create" => ~HasRow(req'[c].dist, req'[c].item)
    BY <1>2, <2>2 DEF StartCheck
  <2> QED
    BY <2>1, <2>3, RowsKept
<1>3. ASSUME \A c \in Clients : ~StartCreate(c) /\ ~StartCheck(c)
      PROVE  OneRowPerArtifact' /\ StillMissing'
  <2>1. NoneCreated
    BY <1>3, OnlyStartsCreate
  <2>2. distOf' = distOf /\ itemOf' = itemOf
    BY <1>3 DEF Next, ClientStep, Start, Flush, CancelLookup, RetryCheck, StartHit,
       CancelCall, CancelMark, RetryReset, FlushCancel, FlushDelete, DispatcherStep,
       DispatchList, DispatchSend, DispatchAbandon, DispatchPanics, DispatchExit,
       StopStep, StopCancel, StopClose, RunStep, Receive, WorkerExit, RegisterCancel,
       MarkVerifying, MarkStarted, MarkCompleted, Backoff, IncrementRetry, MarkFailed,
       Unregister, Probe, Fetch, vars, table
  <2>3. ASSUME NEW c \in Clients, req'[c].op = "create" PROVE req'[c] = req[c]
    <3>a. ASSUME NEW b \in Clients, NEW r, r.op # "create", req' = [req EXCEPT ![b] = r]
          PROVE  req'[c] = req[c]
      BY <2>3, <3>a
    <3>1. CASE ClientStep(c)
      <4>1. \A b \in Clients, r \in Continuation : r.op # "create"
        BY DEF Continuation, Idle
      <4>2. CASE StartHit(c) \/ CancelMark(c)
        BY <3>a, <4>1, <4>2, RequestFields DEF StartHit, CancelMark
      <4>3. CASE RetryReset(c) \/ FlushDelete(c) \/ CancelCall(c) \/ FlushCancel(c)
        BY <3>a, <4>3 DEF RetryReset, FlushDelete, CancelCall, FlushCancel, LookUp, Idle
      <4>4. ASSUME NEW d \in Dists, Start(c, d) \/ Flush(c, d) PROVE req'[c] = req[c]
        BY <3>a, <4>4 DEF Start, Flush
      <4>5. ASSUME NEW j \in Jobs, CancelLookup(c, j) \/ RetryCheck(c, j)
            PROVE  req'[c] = req[c]
        BY <3>a, <4>5 DEF CancelLookup, RetryCheck, LookUp
      <4> QED
        BY <1>3, <3>1, <4>2, <4>3, <4>4, <4>5 DEF ClientStep
    <3>2. ASSUME NEW w \in Workers, Unregister(w) PROVE req'[c] = req[c]
      <4>1. ASSUME req[c].op = "cancel" PROVE [req[c] EXCEPT !.fn = NoWorker].op = "cancel"
        <5>1. req[c] \in [op : {"cancel"}, job : Jobs, fn : Workers \cup {NoWorker},
                          next : Continuation]
          BY <4>1 DEF Request, Continuation, Idle
        <5> QED
          BY <5>1
      <4> QED
        BY <2>3, <3>2, <4>1 DEF Unregister
    <3>3. CASE req' = req
      BY <3>3
    <3> QED
      BY <3>1, <3>2, <3>3 DEF Next, DispatcherStep, DispatchList, DispatchSend,
         DispatchAbandon, DispatchPanics, DispatchExit, StopStep, StopCancel, StopClose,
         RunStep, Receive, WorkerExit, RegisterCancel, MarkVerifying, MarkStarted,
         MarkCompleted, Backoff, IncrementRetry, MarkFailed, Probe, Fetch, vars
  <2> QED
    BY <2>1, <2>2, <2>3, RowsKept
<1> QED
  BY <1>1, <1>2, <1>3

\* As long as requests come one at a time no artifact of a distribution has two
\* rows, however often it is started, flushed, retried and run.
THEOREM OneRow == (\A b, c \in Clients : b = c) => (Spec => []OneRowPerArtifact)
<1> SUFFICES ASSUME \A b, c \in Clients : b = c PROVE Spec => []OneRowPerArtifact
  OBVIOUS
<1>1. Init => OneRowPerArtifact /\ StillMissing
  BY DEF Init, OneRowPerArtifact, StillMissing, Exists, Idle
<1>2. Typed /\ OneRowPerArtifact /\ StillMissing /\ [Next]_vars =>
          OneRowPerArtifact' /\ StillMissing'
  BY NextOneRow
<1> QED
  BY <1>1, <1>2, InitTyped, NextTyped, PTL DEF Spec

-----------------------------------------------------------------------------
(***************************************************************************)
(* The bytes of the downloads.  What a bucket holds and what its age is    *)
(* worth never exceeds the exact bucket by a whole byte; the age of a full *)
(* bucket is worth less than a byte, or the next refill throws it away.    *)
(***************************************************************************)

\* A bucket b of limiter l is sound beside an exact bucket of e.
Earned(b, e, l) ==
  \/ Second * b.tokens + Rate(l) * b.age < e + Second
  \/ Rate(l) * b.age >= Second /\ Second * MaxTokens(l) < e + Second

Bucket(l) == [tokens: 0..MaxTokens(l), age: Nat]

TransferOK(t) ==
  /\ t \in [step: {"idle", "read", "wait", "sleep"}, n: Nat, ahead: Seq(Limiters), sleep: Nat]
  /\ \A i \in 1..Len(t.ahead) : Rate(t.ahead[i]) > 0

BucketOK(b, e, l) == b \in Bucket(l) /\ e \in Int /\ e <= Second * MaxTokens(l) /\ Earned(b, e, l)

ThrottleInv ==
  /\ bucket = [l \in Limiters |-> bucket[l]]
  /\ exact = [l \in Limiters |-> exact[l]]
  /\ transfer = [r \in Readers |-> transfer[r]]
  /\ \A l \in Limiters : BucketOK(bucket[l], exact[l], l)
  /\ \A r \in Readers : TransferOK(transfer[r])

\* The constants of the limiter are numbers, and a burst is not less than a
\* read (throttle.go, newRateLimiter and Read).
LEMMA Numbers ==
  /\ Second \in Nat /\ Second > 0
  /\ \A l \in Limiters : Rate(l) \in Nat /\ MaxTokens(l) \in Nat
BY ThrottleAssumption DEF ThrottleAssumption, Rate, MaxTokens

\* What division by a number of clock steps gives.
LEMMA Division ==
  ASSUME NEW x \in Nat, NEW s \in Nat, s > 0
  PROVE  x \div s \in Nat /\ s * (x \div s) <= x /\ x < s * (x \div s) + s
OBVIOUS

\* A product by a sum.
LEMMA Spread ==
  ASSUME NEW s \in Nat, NEW x \in Nat, NEW y \in Nat
  PROVE  s * (x + y) = s * x + s * y /\ s * x \in Nat /\ s * y \in Nat
OBVIOUS

\* A product grows with its factor.
LEMMA Grows ==
  ASSUME NEW s \in Nat, NEW x \in Nat, NEW y \in Nat, y <= x
  PROVE  s * y <= s * x
OBVIOUS

\* A full bucket that was just made is sound.
LEMMA FullIsSound ==
  ASSUME NEW l \in Limiters
  PROVE  BucketOK(FullBucket(l), Second * MaxTokens(l), l)
<1>1. Second \in Nat /\ Second > 0 /\ Rate(l) \in Nat /\ MaxTokens(l) \in Nat
  BY Numbers
<1>2. Second * MaxTokens(l) \in Nat /\ Rate(l) * 0 = 0
  BY <1>1
<1>3. FullBucket(l) \in Bucket(l)
  BY <1>1 DEF FullBucket, Bucket
<1> QED BY <1>1, <1>2, <1>3 DEF BucketOK, Earned, FullBucket

\* The clock makes a bucket older and fills the exact one.
LEMMA OlderIsSound ==
  ASSUME NEW l \in Limiters, NEW b, NEW e, BucketOK(b, e, l),
         NEW b2 \in {b, [b EXCEPT !.age = @ + 1]},
         NEW e2, e2 = IF e + Rate(l) > Second * MaxTokens(l) THEN Second * MaxTokens(l) ELSE e + Rate(l)
  PROVE  BucketOK(b2, e2, l)
<1>1. /\ Second \in Nat /\ Second > 0 /\ Rate(l) \in Nat /\ MaxTokens(l) \in Nat
      /\ b \in Bucket(l) /\ e \in Int /\ e <= Second * MaxTokens(l) /\ Earned(b, e, l)
  BY Numbers DEF BucketOK
<1>2. /\ b.tokens \in Nat /\ b.tokens <= MaxTokens(l) /\ b.age \in Nat
      /\ [b EXCEPT !.age = @ + 1] \in Bucket(l)
      /\ [b EXCEPT !.age = @ + 1].tokens = b.tokens
      /\ [b EXCEPT !.age = @ + 1].age = b.age + 1
  BY <1>1 DEF Bucket
<1> DEFINE st == Second * b.tokens
           ra == Rate(l) * b.age
           sm == Second * MaxTokens(l)
<1>3. /\ st \in Nat /\ ra \in Nat /\ sm \in Nat /\ st <= sm
      /\ Rate(l) * (b.age + 1) = ra + Rate(l)
  <2>1. st \in Nat /\ ra \in Nat /\ sm \in Nat
    BY <1>1, <1>2
  <2>2. st <= sm
    BY <1>1, <1>2, Grows
  <2>3. Rate(l) * (b.age + 1) = ra + Rate(l) * 1 /\ Rate(l) * 1 = Rate(l)
    BY <1>1, <1>2, Spread
  <2> QED BY <2>1, <2>2, <2>3
<1>4. st + ra < e + Second \/ (ra >= Second /\ sm < e + Second)
  BY <1>1 DEF Earned
<1>5. e2 \in Int /\ e2 <= sm /\ e <= e2 /\ (e2 = sm \/ e2 = e + Rate(l))
  BY <1>1, <1>3
<1>6. CASE b2 = b
  <2>1. st + ra < e2 + Second \/ (ra >= Second /\ sm < e2 + Second)
    BY <1>1, <1>3, <1>4, <1>5
  <2> QED BY <1>1, <1>5, <1>6, <2>1 DEF BucketOK, Earned
<1>7. CASE b2 = [b EXCEPT !.age = @ + 1]
  <2>1. \/ st + (ra + Rate(l)) < e2 + Second
        \/ ra + Rate(l) >= Second /\ sm < e2 + Second
    <3> HIDE DEF st, ra, sm
    <3>1. CASE e2 = sm
      BY <1>1, <1>3, <3>1
    <3>2. CASE e2 = e + Rate(l)
      BY <1>1, <1>3, <1>4, <1>5, <3>2
    <3> QED BY <1>5, <3>1, <3>2
  <2> QED BY <1>1, <1>2, <1>3, <1>5, <1>7, <2>1 DEF BucketOK, Earned
<1> QED BY <1>6, <1>7

\* A refill turns the age of a bucket into whole bytes, or keeps what is less
\* than one.
LEMMA RefilledIsSound ==
  ASSUME NEW l \in Limiters, BucketOK(bucket[l], exact[l], l)
  PROVE  /\ BucketOK(Refilled(l), exact[l], l)
         /\ Second * Refilled(l).tokens + Rate(l) * Refilled(l).age < exact[l] + Second
<1> DEFINE b == bucket[l]
           e == exact[l]
           q == NewTokens(l, b.age)
<1>1. /\ Second \in Nat /\ Second > 0 /\ Rate(l) \in Nat /\ MaxTokens(l) \in Nat
      /\ b \in Bucket(l) /\ e \in Int /\ e <= Second * MaxTokens(l) /\ Earned(b, e, l)
  BY Numbers DEF BucketOK
<1>2. b.tokens \in Nat /\ b.tokens <= MaxTokens(l) /\ b.age \in Nat
  BY <1>1 DEF Bucket
<1>3. b.age * Rate(l) \in Nat /\ b.age * Rate(l) = Rate(l) * b.age
  BY <1>1, <1>2
<1>4. /\ q \in Nat
      /\ Second * q <= Rate(l) * b.age
      /\ Rate(l) * b.age < Second * q + Second
  BY <1>1, <1>3, Division DEF NewTokens
<1> DEFINE st == Second * b.tokens
           ra == Rate(l) * b.age
           sm == Second * MaxTokens(l)
           sq == Second * q
<1> HIDE DEF q
<1>5. /\ st \in Nat /\ ra \in Nat /\ sm \in Nat /\ sq \in Nat
      /\ Second * (b.tokens + q) = st + sq
  BY <1>1, <1>2, <1>3, <1>4, Spread
<1>6. st + ra < e + Second \/ (ra >= Second /\ sm < e + Second)
  BY <1>1 DEF Earned
<1>7. CASE q = 0
  <2>1. Refilled(l) = b
    BY <1>2, <1>7 DEF Refilled, q
  <2>2. sq = 0
    BY <1>1, <1>7
  <2>3. ra < Second
    BY <1>4, <2>2, <1>5, <1>1
  <2>4. st + ra < e + Second
    BY <1>1, <1>5, <1>6, <2>3
  <2> QED BY <2>1, <2>4
<1>8. CASE q # 0
  <2>1. PICK t \in 0..MaxTokens(l) : /\ Refilled(l) = [tokens |-> t, age |-> 0]
                                     /\ t <= b.tokens + q
    <3> DEFINE t == IF b.tokens + q > MaxTokens(l) THEN MaxTokens(l) ELSE b.tokens + q
    <3>1. t \in 0..MaxTokens(l) /\ t <= b.tokens + q
      BY <1>1, <1>2, <1>4
    <3>2. Refilled(l) = [tokens |-> t, age |-> 0]
      BY <1>2, <1>4, <1>8 DEF Refilled, q
    <3> QED BY <3>1, <3>2
  <2>2. Second * t <= st + sq /\ Second * t <= sm /\ Second * t \in Nat
    BY <1>1, <1>2, <1>4, <1>5, <2>1, Grows
  <2>3. ra >= Second
    <3>1. Second * 1 <= Second * q /\ Second * 1 = Second
      BY <1>1, <1>4, <1>8, Grows
    <3> QED BY <1>1, <1>4, <1>5, <3>1
  <2>4. Second * t < e + Second
    BY <1>1, <1>4, <1>5, <1>6, <2>2
  <2>5. Refilled(l) \in Bucket(l) /\ Refilled(l).tokens = t /\ Refilled(l).age = 0 /\ Rate(l) * 0 = 0
    BY <1>1, <2>1 DEF Bucket
  <2>6. Second * Refilled(l).tokens + Rate(l) * Refilled(l).age < exact[l] + Second
    BY <1>1, <2>2, <2>4, <2>5
  <2> QED BY <1>1, <2>5, <2>6 DEF BucketOK, Earned
<1> QED BY <1>7, <1>8

\* Bytes that pass are taken from the bucket and from the exact one.
LEMMA TakenIsSound ==
  ASSUME NEW l \in Limiters, NEW b, NEW e, NEW n \in Nat, BucketOK(b, e, l), n <= b.tokens,
         Second * b.tokens + Rate(l) * b.age < e + Second
  PROVE  BucketOK([b EXCEPT !.tokens = @ - n], e - Second * n, l)
<1>1. /\ Second \in Nat /\ Second > 0 /\ Rate(l) \in Nat /\ MaxTokens(l) \in Nat
      /\ b \in Bucket(l) /\ e \in Int /\ e <= Second * MaxTokens(l)
  BY Numbers DEF BucketOK
<1>2. /\ b.tokens \in Nat /\ b.tokens <= MaxTokens(l) /\ b.age \in Nat /\ b.tokens - n \in Nat
      /\ [b EXCEPT !.tokens = @ - n] \in Bucket(l)
      /\ [b EXCEPT !.tokens = @ - n].tokens = b.tokens - n
      /\ [b EXCEPT !.tokens = @ - n].age = b.age
  BY <1>1 DEF Bucket
<1>3. /\ Second * b.tokens = Second * (b.tokens - n) + Second * n
      /\ Second * n \in Nat /\ Second * (b.tokens - n) \in Nat /\ Rate(l) * b.age \in Nat
      /\ Second * MaxTokens(l) \in Nat
  <2>1. (b.tokens - n) + n = b.tokens
    BY <1>2
  <2> QED BY <1>1, <1>2, <2>1, Spread
<1>4. Second * (b.tokens - n) + Rate(l) * b.age < (e - Second * n) + Second
  BY <1>1, <1>3
<1>5. e - Second * n \in Int /\ e - Second * n <= Second * MaxTokens(l)
  BY <1>1, <1>3
<1> QED BY <1>2, <1>4, <1>5 DEF BucketOK, Earned

\* A worker without a transfer is in a state that is allowed.
LEMMA RestIsOK == TransferOK(NoTransfer)
<1>1. <<>> \in Seq(Limiters) /\ Len(<<>>) = 0
  OBVIOUS
<1>2. NoTransfer \in [step: {"idle", "read", "wait", "sleep"}, n: Nat, ahead: Seq(Limiters), sleep: Nat]
  BY <1>1 DEF NoTransfer
<1> QED BY <1>2 DEF TransferOK, NoTransfer

\* A transfer that is allowed may go to another step, ...
LEMMA StepChanges ==
  ASSUME NEW t, TransferOK(t), NEW s \in {"idle", "read", "wait", "sleep"}
  PROVE  TransferOK([t EXCEPT !.step = s])
BY DEF TransferOK

\* ... sleep for another time, ...
LEMMA SleepChanges ==
  ASSUME NEW t, TransferOK(t), NEW d \in Nat
  PROVE  TransferOK([t EXCEPT !.sleep = d])
BY DEF TransferOK

\* ... or have other limiters ahead of it, if they have a rate.
LEMMA AheadChanges ==
  ASSUME NEW t, TransferOK(t), NEW a \in Seq(Limiters), \A i \in 1..Len(a) : Rate(a[i]) > 0
  PROVE  TransferOK([t EXCEPT !.ahead = a])
BY DEF TransferOK

\* So is one that begins to wait for limiters with a rate.
LEMMA WaitsFor ==
  ASSUME NEW n \in Nat, NEW a \in Seq(Limiters), \A i \in 1..Len(a) : Rate(a[i]) > 0
  PROVE  TransferOK([step |-> "wait", n |-> n, ahead |-> a, sleep |-> 0])
BY DEF TransferOK

\* All buckets are full at the start.
LEMMA ThrottleStart == ThrottleInit => ThrottleInv
<1> SUFFICES ASSUME ThrottleInit PROVE ThrottleInv
  OBVIOUS
<1>1. \A l \in Limiters : BucketOK(bucket[l], exact[l], l)
  BY FullIsSound DEF ThrottleInit
<1> QED BY <1>1, RestIsOK DEF ThrottleInit, ThrottleInv

\* Every step keeps the buckets sound.
LEMMA ThrottleStep == ThrottleInv /\ [ThrottleNext]_throttleVars => ThrottleInv'
<1> SUFFICES ASSUME ThrottleInv, [ThrottleNext]_throttleVars PROVE ThrottleInv'
  OBVIOUS
<1>1. /\ bucket = [l \in Limiters |-> bucket[l]]
      /\ exact = [l \in Limiters |-> exact[l]]
      /\ transfer = [r \in Readers |-> transfer[r]]
      /\ \A l \in Limiters : BucketOK(bucket[l], exact[l], l)
      /\ \A r \in Readers : TransferOK(transfer[r])
  BY DEF ThrottleInv
<1>2. \A r \in Readers : /\ transfer[r] \in [step: {"idle", "read", "wait", "sleep"}, n: Nat, ahead: Seq(Limiters), sleep: Nat]
                         /\ \A i \in 1..Len(transfer[r].ahead) : Rate(transfer[r].ahead[i]) > 0
  BY <1>1 DEF TransferOK
<1>3. Readers \subseteq Limiters /\ Global \in Limiters
  BY DEF Limiters
<1>4. ASSUME NEW r \in Readers, StartTransfer(r) PROVE ThrottleInv'
  <2>1. TransferOK([transfer[r] EXCEPT !.step = "read"])
    BY <1>1, StepChanges
  <2>2. r \in Limiters
    BY <1>3
  <2>3. /\ transfer' = [transfer EXCEPT ![r] = [transfer[r] EXCEPT !.step = "read"]]
        /\ bucket' = [bucket EXCEPT ![r] = FullBucket(r)]
        /\ exact' = [exact EXCEPT ![r] = Second * MaxTokens(r)]
    BY <1>4 DEF StartTransfer
  <2>4. \A l \in Limiters : BucketOK(bucket'[l], exact'[l], l)
    BY <1>1, <2>2, <2>3, FullIsSound
  <2> QED BY <1>1, <2>1, <2>3, <2>4 DEF ThrottleInv, BucketOK, Earned, TransferOK
<1>5. ASSUME NEW r \in Readers, ReceiveBytes(r) PROVE ThrottleInv'
  <2>1. PICK n \in 1..MaxRead :
          transfer' = [transfer EXCEPT ![r] = [step |-> "wait", n |-> n, ahead |-> ActiveLimiters(r), sleep |-> 0]]
    BY <1>5 DEF ReceiveBytes
  <2>2. TransferOK([step |-> "wait", n |-> n, ahead |-> ActiveLimiters(r), sleep |-> 0])
    <3>1. n \in Nat
      BY ThrottleAssumption DEF ThrottleAssumption
    <3>2. r # Global /\ Rate(r) = WorkerRate /\ Rate(Global) = GlobalRate
      BY ThrottleAssumption DEF ThrottleAssumption, Rate
    <3>3. /\ ActiveLimiters(r) \in Seq(Limiters)
          /\ \A i \in 1..Len(ActiveLimiters(r)) : Rate(ActiveLimiters(r)[i]) > 0
      <4>1. CASE WorkerRate > 0 /\ GlobalRate > 0
        <5>1. ActiveLimiters(r) = <<r, Global>>
          BY <4>1 DEF ActiveLimiters
        <5> QED BY <1>3, <3>2, <4>1, <5>1
      <4>2. CASE WorkerRate > 0 /\ ~(GlobalRate > 0)
        <5>1. ActiveLimiters(r) = <<r>>
          BY <4>2 DEF ActiveLimiters
        <5> QED BY <1>3, <3>2, <4>2, <5>1
      <4>3. CASE ~(WorkerRate > 0) /\ GlobalRate > 0
        <5>1. ActiveLimiters(r) = <<Global>>
          BY <4>3 DEF ActiveLimiters
        <5> QED BY <1>3, <3>2, <4>3, <5>1
      <4>4. CASE ~(WorkerRate > 0) /\ ~(GlobalRate > 0)
        <5>1. ActiveLimiters(r) = <<>>
          BY <4>4 DEF ActiveLimiters
        <5> QED BY <5>1
      <4> QED BY <4>1, <4>2, <4>3, <4>4
    <3> QED BY <3>1, <3>3, WaitsFor
  <2>3. bucket' = bucket /\ exact' = exact
    BY <1>5 DEF ReceiveBytes
  <2> QED BY <1>1, <2>1, <2>2, <2>3 DEF ThrottleInv, BucketOK, Earned, TransferOK
<1>6. ASSUME NEW r \in Readers, Take(r) PROVE ThrottleInv'
  <2>1. PICK l \in Limiters :
          /\ Asks(r, l)
          /\ Refilled(l).tokens >= transfer[r].n
          /\ bucket' = [bucket EXCEPT ![l] = [Refilled(l) EXCEPT !.tokens = @ - transfer[r].n]]
          /\ exact' = [exact EXCEPT ![l] = exact[l] - Second * transfer[r].n]
          /\ transfer' = [transfer EXCEPT ![r] = [transfer[r] EXCEPT !.ahead = Tail(@)]]
    BY <1>6 DEF Take
  <2>2. BucketOK([Refilled(l) EXCEPT !.tokens = @ - transfer[r].n], exact[l] - Second * transfer[r].n, l)
    <3>1. transfer[r].n \in Nat /\ BucketOK(bucket[l], exact[l], l)
      BY <1>1, <1>2
    <3>2. /\ BucketOK(Refilled(l), exact[l], l)
          /\ Second * Refilled(l).tokens + Rate(l) * Refilled(l).age < exact[l] + Second
      BY <3>1, RefilledIsSound
    <3>3. transfer[r].n <= Refilled(l).tokens
      BY <2>1, <3>1, <3>2, Numbers DEF BucketOK, Bucket
    <3> QED BY <3>1, <3>2, <3>3, TakenIsSound
  <2>3. \A m \in Limiters : BucketOK(bucket'[m], exact'[m], m)
    BY <1>1, <2>1, <2>2
  <2>4. TransferOK([transfer[r] EXCEPT !.ahead = Tail(@)])
    <3> DEFINE s == transfer[r].ahead
    <3>1. s \in Seq(Limiters) /\ s # <<>> /\ \A i \in 1..Len(s) : Rate(s[i]) > 0
      BY <1>2, <2>1 DEF Asks
    <3>2. Tail(s) \in Seq(Limiters) /\ \A i \in 1..Len(Tail(s)) : Rate(Tail(s)[i]) > 0
      BY <3>1
    <3> QED BY <1>1, <3>2, AheadChanges
  <2> QED BY <1>1, <2>1, <2>3, <2>4 DEF ThrottleInv, BucketOK, Earned, TransferOK
<1>7. ASSUME NEW r \in Readers, Sleep(r) PROVE ThrottleInv'
  <2>1. PICK l \in Limiters :
          /\ Asks(r, l)
          /\ Refilled(l).tokens < transfer[r].n
          /\ bucket' = [bucket EXCEPT ![l] = Refilled(l)]
          /\ transfer' = [transfer EXCEPT ![r] =
                [transfer[r] EXCEPT !.step = "sleep",
                    !.sleep = ((transfer[r].n - Refilled(l).tokens) * Second) \div Rate(l)]]
          /\ exact' = exact
    BY <1>7 DEF Sleep
  <2>2. BucketOK(bucket[l], exact[l], l) /\ BucketOK(Refilled(l), exact[l], l)
    BY <1>1, RefilledIsSound
  <2>3. ((transfer[r].n - Refilled(l).tokens) * Second) \div Rate(l) \in Nat
    <3>1. transfer[r].n \in Nat /\ Refilled(l).tokens \in Nat
      BY <1>2, <2>2, Numbers DEF BucketOK, Bucket
    <3>2. transfer[r].n - Refilled(l).tokens \in Nat
      BY <2>1, <3>1
    <3>3. (transfer[r].n - Refilled(l).tokens) * Second \in Nat
      BY <3>2, Numbers
    <3>4. Rate(l) \in Nat /\ Rate(l) > 0
      <4>1. transfer[r].ahead \in Seq(Limiters) /\ transfer[r].ahead # <<>> /\ l = transfer[r].ahead[1]
        BY <1>2, <2>1 DEF Asks
      <4>2. 1 \in 1..Len(transfer[r].ahead)
        BY <4>1
      <4> QED BY <1>2, <4>1, <4>2, Numbers
    <3> QED BY <3>3, <3>4, Division
  <2>4. TransferOK([transfer[r] EXCEPT !.step = "sleep",
                       !.sleep = ((transfer[r].n - Refilled(l).tokens) * Second) \div Rate(l)])
    BY <1>1, <2>3, StepChanges, SleepChanges
  <2>5. \A m \in Limiters : BucketOK(bucket'[m], exact'[m], m)
    BY <1>1, <2>1, <2>2
  <2> QED BY <1>1, <2>1, <2>4, <2>5 DEF ThrottleInv, BucketOK, Earned, TransferOK
<1>8. ASSUME NEW r \in Readers, Wake(r) \/ Pass(r) \/ End(r) PROVE ThrottleInv'
  <2>1. PICK t \in {[transfer[r] EXCEPT !.step = "wait"], [transfer[r] EXCEPT !.step = "read"], NoTransfer} :
          transfer' = [transfer EXCEPT ![r] = t]
    BY <1>8 DEF Wake, Pass, End
  <2>2. TransferOK(t)
    BY <1>1, <2>1, StepChanges, RestIsOK
  <2>3. bucket' = bucket /\ exact' = exact
    BY <1>8 DEF Wake, Pass, End
  <2> QED BY <1>1, <2>1, <2>2, <2>3 DEF ThrottleInv, BucketOK, Earned, TransferOK
<1>9. CASE TimePasses
  <2>1. \A l \in Limiters :
          /\ bucket'[l] \in {bucket[l], [bucket[l] EXCEPT !.age = @ + 1]}
          /\ exact'[l] = IF exact[l] + Rate(l) > Second * MaxTokens(l) THEN Second * MaxTokens(l)
                         ELSE exact[l] + Rate(l)
    BY <1>9 DEF TimePasses
  <2>2. \A l \in Limiters : BucketOK(bucket'[l], exact'[l], l)
    <3> SUFFICES ASSUME NEW l \in Limiters PROVE BucketOK(bucket'[l], exact'[l], l)
      OBVIOUS
    <3>1. BucketOK(bucket[l], exact[l], l)
      BY <1>1
    <3> DEFINE older == [bucket[l] EXCEPT !.age = @ + 1]
               filled == IF exact[l] + Rate(l) > Second * MaxTokens(l) THEN Second * MaxTokens(l)
                         ELSE exact[l] + Rate(l)
    <3>2. BucketOK(bucket[l], filled, l) /\ BucketOK(older, filled, l)
      BY <3>1, OlderIsSound
    <3>3. bucket'[l] \in {bucket[l], older} /\ exact'[l] = filled
      BY <2>1
    <3> HIDE DEF older, filled
    <3> QED BY <3>2, <3>3
  <2>3. \A r \in Readers : TransferOK(transfer'[r])
    <3> SUFFICES ASSUME NEW r \in Readers PROVE TransferOK(transfer'[r])
      OBVIOUS
    <3>1. CASE transfer[r].sleep > 0
      <4>1. transfer'[r] = [transfer[r] EXCEPT !.sleep = @ - 1]
        BY <1>9, <3>1 DEF TimePasses
      <4>2. transfer[r].sleep - 1 \in Nat
        BY <1>2, <3>1
      <4> QED BY <1>1, <4>1, <4>2, SleepChanges
    <3>2. CASE ~(transfer[r].sleep > 0)
      BY <1>1, <1>9, <3>2 DEF TimePasses
    <3> QED BY <3>1, <3>2
  <2>4. /\ bucket' = [l \in Limiters |-> bucket'[l]]
        /\ exact' = [l \in Limiters |-> exact'[l]]
        /\ transfer' = [r \in Readers |-> transfer'[r]]
    BY <1>9 DEF TimePasses
  <2> QED BY <2>2, <2>3, <2>4 DEF ThrottleInv, BucketOK, Earned, TransferOK
<1>10. CASE UNCHANGED throttleVars
  BY <1>1, <1>10 DEF throttleVars, ThrottleInv, BucketOK, Earned, TransferOK
<1> QED BY <1>4, <1>5, <1>6, <1>7, <1>8, <1>9, <1>10 DEF ThrottleNext, ReaderStep

\* However often a limiter is asked and by however many workers, the bytes it
\* lets pass are within a burst and its rate, but for a part of a byte
\* (rateLimiter.Wait), for every rate, burst and resolution of the clock.
THEOREM RateIsKept == ThrottleSpec => []WithinRate
<1>1. ThrottleInv => WithinRate
  <2> SUFFICES ASSUME ThrottleInv, NEW l \in Limiters PROVE exact[l] > -Second
    BY DEF WithinRate
  <2>1. /\ Second \in Nat /\ Second > 0 /\ Rate(l) \in Nat /\ MaxTokens(l) \in Nat
        /\ bucket[l] \in Bucket(l) /\ exact[l] \in Int /\ Earned(bucket[l], exact[l], l)
    BY Numbers DEF ThrottleInv, BucketOK
  <2>2. /\ Second * bucket[l].tokens \in Nat /\ Rate(l) * bucket[l].age \in Nat
        /\ Second * MaxTokens(l) \in Nat
    BY <2>1 DEF Bucket
  <2> QED BY <2>1, <2>2 DEF Earned
<1> QED BY <1>1, ThrottleStart, ThrottleStep, PTL DEF ThrottleSpec

\* A read is no larger than the buffer, and its limiters are asked in one order.
Orders(r) == {<<>>, <<r>>, <<Global>>, <<r, Global>>}
ReadsOK == \A r \in Readers : transfer[r].n \in 0..MaxRead /\ transfer[r].ahead \in Orders(r)

\* The next limiter of an order leaves the rest of it.
LEMMA TailOrders ==
  ASSUME NEW r, NEW a \in Orders(r), a # <<>>
  PROVE  Tail(a) \in Orders(r)
<1>1. Tail(<<r>>) = <<>> /\ Tail(<<Global>>) = <<>> /\ Tail(<<r, Global>>) = <<Global>>
  OBVIOUS
<1> QED BY <1>1 DEF Orders

\* Every step keeps that.
LEMMA ReadsStep ==
  ASSUME ThrottleInv, ReadsOK, [ThrottleNext]_throttleVars
  PROVE  ReadsOK'
<1>1. /\ transfer = [r \in Readers |-> transfer[r]]
      /\ \A r \in Readers : transfer[r] \in [step: {"idle", "read", "wait", "sleep"}, n: Nat, ahead: Seq(Limiters), sleep: Nat]
  BY DEF ThrottleInv, TransferOK
<1> DEFINE Fine(r, t) == t.n \in 0..MaxRead /\ t.ahead \in Orders(r)
<1>2. \A r \in Readers : Fine(r, transfer[r])
  BY DEF ReadsOK
<1>3. ASSUME NEW r \in Readers, NEW t, transfer' = [transfer EXCEPT ![r] = t], Fine(r, t) PROVE ReadsOK'
  BY <1>1, <1>2, <1>3 DEF ReadsOK, Orders
<1>4. ASSUME NEW r \in Readers, Take(r) PROVE ReadsOK'
  <2>1. transfer[r].ahead # <<>> /\ transfer' = [transfer EXCEPT ![r] = [transfer[r] EXCEPT !.ahead = Tail(@)]]
    BY <1>4 DEF Take, Asks
  <2>2. Tail(transfer[r].ahead) \in Orders(r)
    BY <1>2, <2>1, TailOrders
  <2>3. Fine(r, [transfer[r] EXCEPT !.ahead = Tail(@)])
    BY <1>1, <1>2, <2>2
  <2> QED BY <1>3, <2>1, <2>3
<1>5. ASSUME NEW r \in Readers, ReceiveBytes(r) PROVE ReadsOK'
  <2>1. PICK n \in 1..MaxRead :
          transfer' = [transfer EXCEPT ![r] = [step |-> "wait", n |-> n, ahead |-> ActiveLimiters(r), sleep |-> 0]]
    BY <1>5 DEF ReceiveBytes
  <2>2. ActiveLimiters(r) \in Orders(r) /\ n \in 0..MaxRead
    BY ThrottleAssumption DEF ThrottleAssumption, ActiveLimiters, Orders
  <2>3. Fine(r, [step |-> "wait", n |-> n, ahead |-> ActiveLimiters(r), sleep |-> 0])
    BY <2>2
  <2> QED BY <1>3, <2>1, <2>3
<1>6. ASSUME NEW r \in Readers, StartTransfer(r) \/ Sleep(r) \/ Wake(r) \/ Pass(r) \/ End(r) PROVE ReadsOK'
  <2>1. \/ \E s \in {"read", "wait"} : transfer' = [transfer EXCEPT ![r] = [transfer[r] EXCEPT !.step = s]]
        \/ \E d : transfer' = [transfer EXCEPT ![r] = [transfer[r] EXCEPT !.step = "sleep", !.sleep = d]]
        \/ transfer' = [transfer EXCEPT ![r] = NoTransfer]
    BY <1>6 DEF StartTransfer, Sleep, Wake, Pass, End
  <2>2. /\ \A s : Fine(r, [transfer[r] EXCEPT !.step = s])
        /\ \A d : Fine(r, [transfer[r] EXCEPT !.step = "sleep", !.sleep = d])
    BY <1>1, <1>2
  <2>3. Fine(r, NoTransfer)
    BY ThrottleAssumption DEF ThrottleAssumption, NoTransfer, Orders
  <2> HIDE DEF Fine
  <2> QED BY <1>3, <2>1, <2>2, <2>3
<1>7. CASE TimePasses
  <2>1. \A r \in Readers : transfer'[r] = transfer[r] \/ transfer'[r] = [transfer[r] EXCEPT !.sleep = @ - 1]
    BY <1>7 DEF TimePasses
  <2>2. \A r \in Readers : transfer'[r].n = transfer[r].n /\ transfer'[r].ahead = transfer[r].ahead
    BY <1>1, <2>1
  <2> QED BY <1>2, <2>2 DEF ReadsOK, Orders
<1>8. CASE UNCHANGED throttleVars
  BY <1>2, <1>8 DEF throttleVars, ReadsOK, Orders
<1> QED BY <1>4, <1>5, <1>6, <1>7, <1>8 DEF ThrottleNext, ReaderStep

\* The types hold at the beginning and every step keeps them.
LEMMA ThrottleTypesStart == ThrottleInit => ThrottleInv /\ ReadsOK
  BY ThrottleStart, ThrottleAssumption DEF ThrottleInit, ReadsOK, NoTransfer, Orders, ThrottleAssumption

LEMMA ThrottleTypesStep == ThrottleInv /\ ReadsOK /\ [ThrottleNext]_throttleVars => (ThrottleInv /\ ReadsOK)'
  BY ThrottleStep, ReadsStep

LEMMA ThrottleTypesSound == ThrottleInv /\ ReadsOK => ThrottleTypeOK
<1> SUFFICES ASSUME ThrottleInv, ReadsOK PROVE ThrottleTypeOK
  OBVIOUS
<1>1. \A l \in Limiters : bucket[l] \in Bucket(l) /\ exact[l] \in Int /\ MaxTokens(l) \in Nat
  BY Numbers DEF ThrottleInv, BucketOK
<1>2. \A l \in Limiters : bucket[l] \in [tokens: Nat, age: Nat] /\ bucket[l].tokens <= MaxTokens(l)
  BY <1>1 DEF Bucket
<1>3. bucket \in [Limiters -> [tokens: Nat, age: Nat]] /\ exact \in [Limiters -> Int]
  BY <1>1, <1>2 DEF ThrottleInv
<1>4. \A r \in Readers : transfer[r].step \in {"idle", "read", "wait", "sleep"} /\ transfer[r].sleep \in Nat
  BY DEF ThrottleInv, TransferOK
<1> QED BY <1>2, <1>3, <1>4 DEF ThrottleTypeOK, ReadsOK, Orders

\* A bucket holds no more than a burst, a read is no larger than the buffer, and
\* a worker asks its own limiter before the global one (throttle.go, Read and
\* Wait), for every rate, burst and resolution of the clock.
THEOREM ThrottleTypes == ThrottleSpec => []ThrottleTypeOK
  BY ThrottleTypesStart, ThrottleTypesStep, ThrottleTypesSound, PTL DEF ThrottleSpec

-----------------------------------------------------------------------------
(***************************************************************************)
(* The three parts together.                                               *)
(***************************************************************************)
LiveInv ==
  /\ part = "downloads" => Typed
  /\ part = "bandwidth" => ThrottleInv /\ ReadsOK
  /\ part = "sources" => SyncInv

\* Each part keeps its types beside the others.
THEOREM LiveTypes == LiveSpec => []LiveTypeOK
  <1>1. LiveInit => LiveInv
    BY InitTyped, ThrottleTypesStart, SyncStart DEF LiveInit, LiveInv
  <1>2. LiveInv /\ [LiveNext]_liveVars => LiveInv'
    <2> SUFFICES ASSUME LiveInv, [LiveNext]_liveVars PROVE LiveInv'
      OBVIOUS
    <2>1. part' = part
      BY DEF LiveNext, liveVars
    <2>2. part = "downloads" => [Next]_vars
      BY DEF LiveNext, liveVars
    <2>3. part = "bandwidth" => [ThrottleNext]_throttleVars
      BY DEF LiveNext, liveVars
    <2>4. part = "sources" => [SyncNext]_syncVars
      BY DEF LiveNext, liveVars
    <2> QED
      BY <2>1, <2>2, <2>3, <2>4, NextTyped, ThrottleTypesStep, SyncStep DEF LiveInv
  <1>3. LiveInv => LiveTypeOK
    BY ThrottleTypesSound, SyncInvTypes DEF LiveInv, LiveTypeOK, Typed
  <1> QED
    BY <1>1, <1>2, <1>3, PTL DEF LiveSpec
=============================================================================
