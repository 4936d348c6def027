--------------------------- MODULE BuildLifecycle ---------------------------
(***************************************************************************)
(* The build manager implements the job lifecycle: a runner is a worker    *)
(* between MarkStarted and its verdict on the row, and the statuses        *)
(* "resolving" ... "packaging" are what it shows as active.                *)
(***************************************************************************)
EXTENDS BuildManager

ShownStatus == [j \in Jobs |-> IF status[j] \in Active THEN "active" ELSE status[j]]

RunnersOf == [j \in Jobs |-> {w \in Workers : pc[w] \in RowHeld /\ job[w] = j}]

Lifecycle == INSTANCE JobLifecycle WITH
    Runners <- Workers,
    Reports <- {"active"},
    status <- ShownStatus,
    created <- 1 .. submitted,
    runners <- RunnersOf

\* Whatever the queue, the duplicates in it, the dispatcher and concurrent
\* requests do, the build table moves as the job lifecycle allows: only a run
\* makes a build active, only the run's own end gives a verdict, and every run
\* ends.
ImplementsLifecycle == Lifecycle!Spec
=============================================================================
