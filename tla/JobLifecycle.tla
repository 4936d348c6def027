---------------------------- MODULE JobLifecycle ----------------------------
(***************************************************************************)
(* What a job table (build_jobs, download_jobs) promises to whoever reads  *)
(* it, whatever queue, map and worker pool serve it: who may put a job in  *)
(* which status.  A job is created pending.  It is active only while some  *)
(* runner works on it, and a runner gives a verdict when it leaves.  Users *)
(* cancel, retry and delete, at any time.                                  *)
(***************************************************************************)
EXTENDS FiniteSets

CONSTANTS
    Jobs,
    Runners,
    Reports         \* the statuses a runner shows while it works

Verdict == {"completed", "failed"}

VARIABLES
    status,         \* what the table shows
    created,        \* the jobs that ever had a row: identifiers are not reused
    runners         \* who works on a job

lifecycle == <<status, created, runners>>

Init ==
    /\ status = [j \in Jobs |-> "absent"]
    /\ created = {}
    /\ runners = [j \in Jobs |-> {}]

Show(j, s) == status[j] # "absent" /\ status' = [status EXCEPT ![j] = s]

Create(j) ==
    /\ j \notin created
    /\ created' = created \cup {j}
    /\ status' = [status EXCEPT ![j] = "pending"]
    /\ UNCHANGED runners

Begin(j, r) ==
    /\ \A k \in Jobs : r \notin runners[k]
    /\ runners' = [runners EXCEPT ![j] = @ \cup {r}]
    /\ \E s \in Reports : Show(j, s)
    /\ UNCHANGED created

Report(j, r) ==
    /\ r \in runners[j]
    /\ \E s \in Reports : Show(j, s)
    /\ UNCHANGED <<created, runners>>

\* The verdict is lost when the row was deleted meanwhile.
End(j, r) ==
    /\ r \in runners[j]
    /\ runners' = [runners EXCEPT ![j] = @ \ {r}]
    /\ \/ \E s \in Verdict : Show(j, s)
       \/ status[j] = "absent" /\ UNCHANGED status
    /\ UNCHANGED created

Cancel(j) == Show(j, "cancelled") /\ UNCHANGED <<created, runners>>

Retry(j) == Show(j, "pending") /\ UNCHANGED <<created, runners>>

Delete(S) ==
    /\ status' = [j \in Jobs |-> IF j \in S THEN "absent" ELSE status[j]]
    /\ UNCHANGED <<created, runners>>

Next ==
    \/ \E j \in Jobs : Create(j) \/ Cancel(j) \/ Retry(j)
    \/ \E j \in Jobs, r \in Runners : Begin(j, r) \/ Report(j, r) \/ End(j, r)
    \/ \E S \in SUBSET Jobs : Delete(S)

SafeSpec == Init /\ [][Next]_lifecycle

\* A runner never keeps a job for ever.
Spec == SafeSpec /\ \A j \in Jobs, r \in Runners : WF_lifecycle(End(j, r))

=============================================================================
