------------------------- MODULE FleetCatalogSafety -------------------------
(***************************************************************************)
(* The safety of the catalog of FleetCatalog, for every fleet: of the jobs *)
(* table, the inductive invariant JobsInv, what follows from it, and that  *)
(* it implements JobQueue; of the rows of workspaces, that what they say   *)
(* comes from the node they are assigned to, and that an assignment never  *)
(* takes a node beyond the capacity it advertises.                         *)
(***************************************************************************)
EXTENDS FleetCatalogProofs

Final == \A j \in JobIds : jobs[j].status \in Terminal => jobs'[j] = jobs[j]

\* How a row may move in one step, and that only a running job is begun.
RowsMove ==
  /\ \A j \in JobIds :
       \/ jobs'[j].status = jobs[j].status
       \/ jobs[j].status = "absent"  /\ jobs'[j].status = "queued"
       \/ jobs[j].status = "queued"  /\ jobs'[j].status \in {"claimed"} \cup Terminal
       \/ jobs[j].status = "claimed" /\ jobs'[j].status \in {"queued", "running"} \cup Terminal
       \/ jobs[j].status = "running" /\ jobs'[j].status \in Terminal
  /\ \A j \in JobIds : jobs[j].status # "absent" => jobs'[j].ws = jobs[j].ws
  /\ \A j \in JobIds : \/ execs'[j] = execs[j]
                       \/ execs[j] = 0 /\ execs'[j] = 1 /\ jobs'[j].status = "running"

\* A step that leaves the jobs table and the executions alone, and gives no
\* worker a job or a wait it did not have.
Quiet ==
  /\ jobs' = jobs /\ njobs' = njobs /\ execs' = execs
  /\ \A n \in Nodes :
       \/ worker'[n].phase = "idle"
       \/ /\ worker[n].phase # "idle" /\ worker'[n].job = worker[n].job
          /\ worker'[n].phase \in {"claimed", "starting"}
               => worker[n].phase \in {"claimed", "starting"}

LEMMA QuietKeepsJobs ==
  ASSUME TypeOK, JobsInv, Quiet
  PROVE  JobsInv' /\ Final /\ RowsMove
  BY DEF Quiet, JobsInv, RowsInOrder, NotYetBegun, OwnJobs, WaitingForAnswer,
         OneActiveJobPerWorkspace, AtMostOnceExecution, Final, RowsMove

LEMMA InsertKeepsJobs ==
  ASSUME TypeOK, JobsInv, NEW d \in drafts, InsertJob(d)
  PROVE  JobsInv' /\ Final /\ RowsMove
<1>1. /\ njobs + 1 \in JobIds /\ njobs \in Nat /\ njobs' = njobs + 1
      /\ jobs[njobs + 1].status = "absent"
  BY BoundsAreNatural DEF InsertJob, TypeOK, JobIds, JobsInv, RowsInOrder
<1>2. \A j \in JobIds : jobs'[j] = IF j = njobs + 1 THEN QueuedJob(d.ws, d.node, d.kind) ELSE jobs[j]
  BY <1>1 DEF InsertJob, TypeOK
<1>3. worker' = worker /\ execs' = execs
  BY DEF InsertJob
<1>4. \A j \in JobIds : j \in Nat
  BY BoundsAreNatural DEF JobIds
<1>5. RowsInOrder'
  BY <1>1, <1>2, <1>4 DEF JobsInv, RowsInOrder, QueuedJob
<1>6. \A n \in Nodes : worker[n].phase # "idle" =>
         worker[n].job \in JobIds /\ jobs'[worker[n].job] = jobs[worker[n].job]
  BY <1>1, <1>2 DEF TypeOK, WorkerState, IdleWorker, JobsInv, OwnJobs
<1>7. OwnJobs' /\ WaitingForAnswer'
  BY <1>3, <1>6 DEF JobsInv, OwnJobs, WaitingForAnswer
<1>8. NotYetBegun' /\ OneActiveJobPerWorkspace' /\ AtMostOnceExecution' /\ Final /\ RowsMove
  BY <1>1, <1>2, <1>3 DEF JobsInv, NotYetBegun, OneActiveJobPerWorkspace, AtMostOnceExecution,
     QueuedJob, Active, Terminal, Final, RowsMove
<1> QED
  BY <1>5, <1>7, <1>8 DEF JobsInv

LEMMA RecoveryKeepsJobs ==
  ASSUME TypeOK, JobsInv, CommitRecovery
  PROVE  JobsInv' /\ Final /\ RowsMove
<1> DEFINE added == Cardinality(plan.items)
           new   == (njobs + 1)..(njobs + added)
<1>1. plan.items \subseteq Workspaces /\ added \in Nat /\ plan.to \in Nodes
  BY PlanType DEF CommitRecovery
<1>2. njobs \in Nat /\ njobs' = njobs + added /\ njobs + added <= MaxJobs
  <2>1. njobs' = njobs + added /\ njobs + added <= MaxJobs
    BY DEF CommitRecovery
  <2>2. njobs \in Nat
    BY BoundsAreNatural DEF TypeOK
  <2> HIDE DEF added
  <2> QED
    BY <2>1, <2>2
<1>3. PICK ids \in [plan.items -> new] :
        /\ \A j \in new : \E w \in plan.items : ids[w] = j
        /\ jobs' = Superseded(ids)
  BY DEF CommitRecovery
<1>4. worker' = worker /\ execs' = execs
  BY DEF CommitRecovery
<1>5. \A j \in JobIds : j \in Nat
  BY BoundsAreNatural DEF JobIds
\* A row of the recovery was free, every other row keeps its place and owner.
<1>6. ASSUME NEW j \in JobIds
      PROVE  \/ /\ jobs[j].status = "absent" /\ jobs'[j].status = "queued"
                /\ j > njobs /\ j <= njobs + added
             \/ /\ jobs'[j].ws = jobs[j].ws /\ jobs'[j].node = jobs[j].node
                /\ \/ jobs'[j] = jobs[j]
                   \/ /\ jobs[j].status \in {"queued"} \cup Active
                      /\ jobs'[j].status \in {"canceled", "failed"}
  <2>1. jobs[j] \in JobRow
    BY DEF TypeOK
  <2>2. CASE \E w \in plan.items : ids[w] = j
    <3>1. j \in new
      BY <1>3, <2>2
    <3>2. j > njobs /\ j <= njobs + added
      BY <1>1, <1>2, <1>5, <3>1
    <3>3. jobs[j].status = "absent"
      BY <3>2 DEF JobsInv, RowsInOrder
    <3>4. jobs'[j].status = "queued"
      BY <1>3, <2>2 DEF Superseded, QueuedJob
    <3> QED
      BY <3>2, <3>3, <3>4
  <2>3. CASE ~\E w \in plan.items : ids[w] = j
    <3>1. jobs'[j] = IF jobs[j].ws \in plan.items /\ jobs[j].status \in {"queued"} \cup Active
                     THEN [jobs[j] EXCEPT !.status = IF @ = "queued" THEN "canceled" ELSE "failed"]
                     ELSE jobs[j]
      BY <1>3, <2>3 DEF Superseded
    <3> QED
      BY <2>1, <3>1 DEF JobRow
  <2> QED
    BY <2>2, <2>3
\* The new rows are exactly the ones after the last.
<1>7. ASSUME NEW j \in JobIds, j > njobs, j <= njobs + added
      PROVE  jobs'[j].status = "queued"
  <2>1. j \in new
    BY <1>1, <1>2, <1>5, <1>7
  <2>2. \E w \in plan.items : ids[w] = j
    BY <1>3, <2>1
  <2> QED
    BY <1>3, <2>2 DEF Superseded, QueuedJob
<1>8. RowsInOrder'
  BY <1>1, <1>2, <1>5, <1>6, <1>7 DEF JobsInv, RowsInOrder, Active
<1>9. \A n \in Nodes : worker[n].phase # "idle" => worker[n].job \in JobIds
  BY DEF TypeOK, WorkerState, IdleWorker
<1>10. OwnJobs' /\ WaitingForAnswer'
  BY <1>4, <1>6, <1>9 DEF JobsInv, OwnJobs, WaitingForAnswer, Active
<1>11. NotYetBegun' /\ OneActiveJobPerWorkspace' /\ AtMostOnceExecution' /\ Final /\ RowsMove
  BY <1>4, <1>6 DEF JobsInv, NotYetBegun, OneActiveJobPerWorkspace, AtMostOnceExecution,
     Active, Terminal, Final, RowsMove
<1> QED
  BY <1>8, <1>10, <1>11 DEF JobsInv

LEMMA LeaseKeepsJobs ==
  ASSUME TypeOK, JobsInv, NEW j \in JobIds, LeaseRunsOut(j)
  PROVE  JobsInv' /\ Final /\ RowsMove
<1>1. jobs' = [jobs EXCEPT ![j] = [jobs[j] EXCEPT !.overdue = TRUE]]
  BY DEF LeaseRunsOut
<1>2. \A i \in JobIds : /\ jobs'[i].status = jobs[i].status /\ jobs'[i].ws = jobs[i].ws
                        /\ jobs'[i].node = jobs[i].node
  BY <1>1 DEF TypeOK, JobRow
<1>3. Final
  BY <1>1 DEF LeaseRunsOut, Final, Active, Terminal, TypeOK
<1>4. worker' = worker /\ execs' = execs /\ njobs' = njobs
  BY DEF LeaseRunsOut
<1>5. \A n \in Nodes : worker[n].phase # "idle" => worker[n].job \in JobIds
  BY DEF TypeOK, WorkerState, IdleWorker
<1>6. RowsInOrder' /\ NotYetBegun' /\ OneActiveJobPerWorkspace' /\ AtMostOnceExecution'
  BY <1>2, <1>4 DEF JobsInv, RowsInOrder, NotYetBegun, OneActiveJobPerWorkspace, AtMostOnceExecution
<1>7. OwnJobs' /\ WaitingForAnswer'
  BY <1>2, <1>4, <1>5 DEF JobsInv, OwnJobs, WaitingForAnswer
<1>8. RowsMove
  BY <1>2, <1>4 DEF RowsMove
<1> QED
  BY <1>3, <1>6, <1>7, <1>8 DEF JobsInv

\* What expiring the leases does to one row.
LEMMA ExpiredRow ==
  ASSUME TypeOK, NEW j \in JobIds
  PROVE  LET js == ExpireLeases(jobs) IN
         /\ js[j].ws = jobs[j].ws /\ js[j].node = jobs[j].node
         /\ \/ js[j] = jobs[j]
            \/ jobs[j].status = "claimed" /\ js[j].status = "queued"
            \/ jobs[j].status = "running" /\ js[j].status = "failed"
<1>1. jobs[j] \in JobRow
  BY DEF TypeOK
<1>2. ExpireLeases(jobs)[j] =
        CASE jobs[j].overdue /\ jobs[j].status = "claimed" ->
               [jobs[j] EXCEPT !.status = "queued", !.claimedBy = None, !.overdue = FALSE]
          [] jobs[j].overdue /\ jobs[j].status = "running" ->
               [jobs[j] EXCEPT !.status = "failed", !.overdue = FALSE]
          [] OTHER -> jobs[j]
  BY DEF ExpireLeases
<1> QED
  BY <1>1, <1>2 DEF JobRow

LEMMA ClaimKeepsJobs ==
  ASSUME TypeOK, JobsInv, NEW n \in Nodes, NEW c \in BOOLEAN, NEW d \in BOOLEAN,
         ClaimJob(n, c, d)
  PROVE  JobsInv' /\ Final /\ RowsMove
<1> DEFINE js == ExpireLeases(jobs)
<1>1. \A i \in JobIds :
        /\ js[i].ws = jobs[i].ws /\ js[i].node = jobs[i].node
        /\ \/ js[i] = jobs[i]
           \/ jobs[i].status = "claimed" /\ js[i].status = "queued"
           \/ jobs[i].status = "running" /\ js[i].status = "failed"
  BY ExpiredRow
<1>2. js \in [JobIds -> JobRow]
  BY ExpireLeasesType DEF TypeOK
<1>3. execs' = execs /\ njobs' = njobs /\ worker[n].phase = "idle"
  BY DEF ClaimJob
<1>4. \A m \in Nodes : worker[m].phase # "idle" => worker[m].job \in JobIds
  BY DEF TypeOK, WorkerState, IdleWorker
<1>5. CASE jobs' = js /\ worker' = worker
  <2>1. RowsInOrder' /\ NotYetBegun' /\ OneActiveJobPerWorkspace' /\ AtMostOnceExecution' /\ Final /\ RowsMove
    BY <1>1, <1>3, <1>5 DEF JobsInv, RowsInOrder, NotYetBegun, OneActiveJobPerWorkspace,
       AtMostOnceExecution, Final, RowsMove, Active, Terminal
  <2>2. OwnJobs' /\ WaitingForAnswer'
    BY <1>1, <1>3, <1>4, <1>5 DEF JobsInv, OwnJobs, WaitingForAnswer
  <2> QED
    BY <2>1, <2>2 DEF JobsInv
<1>6. ASSUME NEW j \in JobIds, Eligible(js, j, n, c, d),
             jobs' = [js EXCEPT ![j].status = "claimed", ![j].claimedBy = n],
             worker' \in {worker, [worker EXCEPT ![n] = [phase |-> "claimed", job |-> j]]}
      PROVE  JobsInv' /\ Final /\ RowsMove
  <2>1. js[j].status = "queued" /\ js[j].node = n
    BY <1>6 DEF Eligible
  <2>2. \A i \in JobIds : js[i].ws = js[j].ws => js[i].status \notin Active
    BY <1>6 DEF Eligible, NoActiveJob
  <2>3. jobs'[j].status = "claimed" /\ jobs'[j].ws = js[j].ws /\ jobs'[j].node = n
    BY <1>2, <1>6, <2>1 DEF JobRow
  <2>4. \A i \in JobIds : i # j => jobs'[i] = js[i]
    BY <1>2, <1>6
  <2> HIDE DEF js
  <2>5. RowsInOrder' /\ NotYetBegun' /\ AtMostOnceExecution' /\ Final /\ RowsMove
    BY <1>1, <1>3, <2>1, <2>3, <2>4 DEF JobsInv, RowsInOrder, NotYetBegun,
       AtMostOnceExecution, Final, RowsMove, Terminal
  <2>6. OneActiveJobPerWorkspace'
    BY <1>1, <2>2, <2>3, <2>4 DEF JobsInv, OneActiveJobPerWorkspace, Active
  <2>7. \A m \in Nodes : \/ worker'[m] = worker[m]
                         \/ m = n /\ worker'[m].phase = "claimed" /\ worker'[m].job = j
    BY <1>6 DEF TypeOK
  <2>8. OwnJobs' /\ WaitingForAnswer'
    BY <1>1, <1>3, <1>4, <2>1, <2>3, <2>4, <2>7 DEF JobsInv, OwnJobs, WaitingForAnswer
  <2> QED
    BY <2>5, <2>6, <2>8 DEF JobsInv
<1> QED
  BY <1>5, <1>6 DEF ClaimJob

LEMMA AnswerKeepsJobs ==
  ASSUME TypeOK, JobsInv, NEW r \in reports, ApplyReport(r), ApplyRunning(r)
  PROVE  JobsInv' /\ Final /\ RowsMove
<1>1. r.node \in Nodes /\ r.job \in JobIds
  BY DEF ApplyRunning, TypeOK, JobReport, WsReport
<1>2. njobs' = njobs
  BY DEF ApplyReport
\* Only the job that is refreshed changes, and only if it was active.
<1>3. \A i \in JobIds :
        /\ jobs'[i].ws = jobs[i].ws /\ jobs'[i].node = jobs[i].node
        /\ \/ jobs'[i] = jobs[i]
           \/ i = r.job /\ jobs[i].status \in Active /\ jobs'[i].status = "running"
  <2>1. CASE Holds(r.node, r.job)
    BY <1>1, <2>1 DEF ApplyRunning, Holds, TypeOK, JobRow
  <2>2. CASE ~Holds(r.node, r.job)
    BY <2>2 DEF ApplyRunning
  <2> QED
    BY <2>1, <2>2
<1>4. \A m \in Nodes : worker[m].phase # "idle" => worker[m].job \in JobIds
  BY DEF TypeOK, WorkerState, IdleWorker
<1>5. RowsInOrder' /\ OneActiveJobPerWorkspace' /\ Final
  BY <1>2, <1>3 DEF JobsInv, RowsInOrder, OneActiveJobPerWorkspace, Final, Active, Terminal
<1>6. CASE /\ worker[r.node] = [phase |-> "starting", job |-> r.job]
           /\ Holds(r.node, r.job)
           /\ worker' = [worker EXCEPT ![r.node].phase = "executing"]
           /\ execs' = [execs EXCEPT ![r.job] = @ + 1]
  <2>1. execs[r.job] = 0
    BY <1>1, <1>6 DEF JobsInv, NotYetBegun, WaitingForAnswer, Holds, Active
  <2>2. jobs'[r.job].status = "running"
    BY <1>1, <1>6 DEF ApplyRunning, Holds, TypeOK, JobRow
  <2>3. \A i \in JobIds : execs'[i] = IF i = r.job THEN 1 ELSE execs[i]
    BY <1>1, <1>6, <2>1 DEF TypeOK
  <2>4. \A m \in Nodes : worker'[m] = IF m = r.node THEN [phase |-> "executing", job |-> r.job]
                                                    ELSE worker[m]
    BY <1>1, <1>6 DEF TypeOK
  <2>5. NotYetBegun' /\ AtMostOnceExecution' /\ RowsMove
    BY <1>3, <2>1, <2>2, <2>3 DEF JobsInv, NotYetBegun, AtMostOnceExecution, Active, RowsMove
  <2>6. OwnJobs'
    BY <1>1, <1>3, <1>4, <1>6, <2>4 DEF JobsInv, OwnJobs, Active
  <2>7. WaitingForAnswer'
    <3> SUFFICES ASSUME NEW m \in Nodes, worker'[m].phase \in {"claimed", "starting"},
                        jobs'[worker'[m].job].status = "running"
                 PROVE  execs'[worker'[m].job] = 0
      BY DEF WaitingForAnswer
    <3>1. m # r.node /\ worker'[m] = worker[m] /\ worker[m].job \in JobIds
      <4>1. m # r.node
        BY <2>4
      <4>2. worker'[m] = worker[m]
        BY <2>4, <4>1
      <4>3. worker[m].phase # "idle"
        BY <4>2
      <4> QED
        BY <1>4, <4>1, <4>2, <4>3
    \* Nobody else has the job: it is a job of r.node.
    <3>2. worker[m].job # r.job
      <4>1. jobs[r.job].node = r.node
        BY <1>1, <1>6 DEF JobsInv, OwnJobs
      <4>2. jobs[worker[m].job].node = m
        BY <3>1 DEF JobsInv, OwnJobs
      <4> QED
        BY <3>1, <4>1, <4>2
    <3>3. jobs[worker[m].job].status = "running"
      BY <1>3, <3>1, <3>2
    <3>4. execs[worker[m].job] = 0
      BY <3>1, <3>3 DEF JobsInv, WaitingForAnswer
    <3> QED
      BY <2>3, <3>1, <3>2, <3>4
  <2> QED
    BY <1>5, <2>5, <2>6, <2>7 DEF JobsInv
<1>7. CASE /\ execs' = execs
           /\ worker' = worker \/ worker' = [worker EXCEPT ![r.node] = IdleWorker]
  <2>1. \A m \in Nodes : worker'[m] = worker[m] \/ worker'[m].phase = "idle"
    BY <1>1, <1>7 DEF TypeOK, IdleWorker
  <2>2. NotYetBegun' /\ AtMostOnceExecution' /\ RowsMove
    BY <1>3, <1>7 DEF JobsInv, NotYetBegun, AtMostOnceExecution, RowsMove, Active
  <2>3. OwnJobs'
    BY <1>3, <1>4, <2>1 DEF JobsInv, OwnJobs, Active
  <2>4. WaitingForAnswer'
    BY <1>3, <1>4, <1>7, <2>1 DEF JobsInv, WaitingForAnswer, NotYetBegun, Active
  <2> QED
    BY <1>5, <2>2, <2>3, <2>4 DEF JobsInv
<1> QED
  BY <1>6, <1>7 DEF ApplyRunning

LEMMA CompletionKeepsJobs ==
  ASSUME TypeOK, JobsInv, NEW r \in reports, ApplyReport(r), ApplyCompletion(r)
  PROVE  JobsInv' /\ Final /\ RowsMove
<1>1. r.node \in Nodes /\ r.job \in JobIds
  BY DEF ApplyCompletion, TypeOK, JobReport, WsReport
<1>2. njobs' = njobs /\ execs' = execs
  BY DEF ApplyReport, ApplyCompletion
<1>3. \A i \in JobIds :
        /\ jobs'[i].ws = jobs[i].ws /\ jobs'[i].node = jobs[i].node
        /\ \/ jobs'[i] = jobs[i]
           \/ jobs[i].status \in Active /\ jobs'[i].status \in Terminal
  <2>1. CASE Holds(r.node, r.job)
    BY <1>1, <2>1 DEF ApplyCompletion, Holds, TypeOK, JobRow, Terminal
  <2>2. CASE ~Holds(r.node, r.job)
    BY <2>2 DEF ApplyCompletion
  <2> QED
    BY <2>1, <2>2
<1>4. \A m \in Nodes : worker[m].phase # "idle" => worker[m].job \in JobIds
  BY DEF TypeOK, WorkerState, IdleWorker
<1>5. \A m \in Nodes : worker'[m] = worker[m] \/ worker'[m].phase = "idle"
  BY <1>1 DEF ApplyCompletion, TypeOK, IdleWorker
<1>6. /\ RowsInOrder' /\ NotYetBegun' /\ OneActiveJobPerWorkspace' /\ AtMostOnceExecution'
      /\ Final /\ RowsMove
  BY <1>2, <1>3 DEF JobsInv, RowsInOrder, NotYetBegun, OneActiveJobPerWorkspace,
     AtMostOnceExecution, Final, RowsMove, Active, Terminal
<1>7. OwnJobs' /\ WaitingForAnswer'
  BY <1>2, <1>3, <1>4, <1>5 DEF JobsInv, OwnJobs, WaitingForAnswer, Active, Terminal
<1> QED
  BY <1>6, <1>7 DEF JobsInv

(* Every other step is quiet. *)

LEMMA WorkersAreQuiet ==
  ASSUME TypeOK, NEW n \in Nodes, Worker(n),
         \A c, d \in BOOLEAN : ~ClaimJob(n, c, d)
  PROVE  Quiet
<1>1. CASE StartJob(n)
  BY <1>1 DEF StartJob, TypeOK, WorkerState, IdleWorker, Quiet
<1>2. ASSUME NEW o \in {"succeeded", "failed"}, CompleteJob(n, o) PROVE Quiet
  BY <1>2 DEF CompleteJob, TypeOK, WorkerState, IdleWorker, Quiet
<1>3. CASE WorkerLetsGo(n)
  BY <1>3 DEF WorkerLetsGo, TypeOK, IdleWorker, Quiet
<1>4. CASE RegisterNode(n) \/ Heartbeat(n)
  BY <1>4 DEF RegisterNode, Heartbeat, Quiet
<1>5. ASSUME NEW o \in {"succeeded", "failed"}, RetryCompletion(n, o) PROVE Quiet
  BY <1>5 DEF RetryCompletion, Quiet
<1>6. ASSUME NEW w \in Workspaces, NEW s \in WorkerStates, ReportWorkspace(n, w, s) PROVE Quiet
  BY <1>6 DEF ReportWorkspace, Quiet
<1> QED
  BY <1>1, <1>2, <1>3, <1>4, <1>5, <1>6 DEF Worker

LEMMA OthersAreQuiet ==
  ASSUME TypeOK
  PROVE  /\ Operator /\ ~CommitRecovery => Quiet
         /\ Users /\ ~(\E d \in drafts : InsertJob(d)) => Quiet
         /\ ApiRestart => Quiet
         /\ \A n \in Nodes : NodeGoesStale(n) => Quiet
         /\ \A r \in reports : ApplyReport(r) /\ ApplyWorkspace(r) => Quiet
<1>1. Operator /\ ~CommitRecovery => Quiet
  BY DEF Operator, SetNodeStatus, SetDesired, PlanRecovery, CommitEmptyRecovery, AbortRecovery, Quiet
<1>2. Users /\ ~(\E d \in drafts : InsertJob(d)) => Quiet
  BY DEF Users, CreateWorkspace, RequestJob, DeleteUser, Quiet
<1>3. ApiRestart => Quiet
  BY DEF ApiRestart, Quiet
<1>4. \A n \in Nodes : NodeGoesStale(n) => Quiet
  BY DEF NodeGoesStale, Quiet
<1>5. \A r \in reports : ApplyReport(r) /\ ApplyWorkspace(r) => Quiet
  BY DEF ApplyReport, ApplyWorkspace, Quiet
<1> QED
  BY <1>1, <1>2, <1>3, <1>4, <1>5

LEMMA StepKeepsJobs ==
  ASSUME TypeOK, JobsInv, [Next]_vars
  PROVE  JobsInv' /\ Final /\ RowsMove
<1>1. CASE Operator
  BY <1>1, RecoveryKeepsJobs, OthersAreQuiet, QuietKeepsJobs
<1>2. CASE Users
  BY <1>2, InsertKeepsJobs, OthersAreQuiet, QuietKeepsJobs
<1>3. CASE ApiRestart
  BY <1>3, OthersAreQuiet, QuietKeepsJobs
<1>4. ASSUME NEW n \in Nodes, Worker(n)
      PROVE  JobsInv' /\ Final /\ RowsMove
  BY <1>4, ClaimKeepsJobs, WorkersAreQuiet, QuietKeepsJobs
<1>5. ASSUME NEW r \in reports, ApplyReport(r)
      PROVE  JobsInv' /\ Final /\ RowsMove
  <2>1. ApplyRunning(r) \/ ApplyCompletion(r) \/ ApplyWorkspace(r)
    BY <1>5 DEF ApplyReport
  <2> QED
    BY <1>5, <2>1, AnswerKeepsJobs, CompletionKeepsJobs, OthersAreQuiet, QuietKeepsJobs
<1>6. CASE Time
  BY <1>6, InputsAreLegal, LeaseKeepsJobs, OthersAreQuiet, QuietKeepsJobs DEF Time
<1>7. CASE UNCHANGED vars
  BY <1>7, QuietKeepsJobs DEF vars, Quiet
<1> QED
  BY <1>1, <1>2, <1>3, <1>4, <1>5, <1>6, <1>7 DEF Next

LEMMA InitJobs == Init => JobsInv
  BY BoundsAreNatural DEF Init, JobsInv, RowsInOrder, NotYetBegun, OwnJobs, WaitingForAnswer,
     OneActiveJobPerWorkspace, AtMostOnceExecution, Absent, IdleWorker, JobIds, Active

(* The inductive invariant of the jobs table. *)
THEOREM JobsInvariant == Spec => []JobsInv
<1>1. TypeOK /\ JobsInv /\ [Next]_vars => JobsInv'
  BY StepKeepsJobs
<1> QED
  BY <1>1, InitJobs, TypeCorrect, PTL DEF Spec

(* claim_job's NOT EXISTS is a lock: at no time do two jobs of a workspace *)
(* hold it, whatever leases expire and hosts are recovered.                *)
THEOREM MutualExclusion == Spec => []OneActiveJobPerWorkspace
<1>1. JobsInv => OneActiveJobPerWorkspace
  BY DEF JobsInv
<1> QED
  BY <1>1, JobsInvariant, PTL

(* A job is begun at most once: expire_stale_job_leases queues only those jobs *)
(* again that no worker has begun.                                             *)
THEOREM BegunAtMostOnce == Spec => []AtMostOnceExecution
<1>1. JobsInv => AtMostOnceExecution
  BY DEF JobsInv
<1> QED
  BY <1>1, JobsInvariant, PTL

(* A result that was given out stays: complete_job, mark_job_running, the *)
(* expiry of leases and a recovery leave ended jobs alone.                *)
THEOREM ResultsStay == Spec => TerminalIsFinal
<1>1. TypeOK /\ JobsInv /\ [Next]_vars => [Final]_jobs
  BY StepKeepsJobs
<1> QED
  BY <1>1, JobsInvariant, TypeCorrect, PTL DEF Spec, TerminalIsFinal, Final

(* The refinement: seen through StageOf, every step of the catalog is a step *)
(* of JobQueue or leaves it alone.                                           *)

LEMMA StageTable ==
  ASSUME NEW st \in JobStatus
  PROVE  /\ StageOf(st) \in Queue!Stages
         /\ st = "absent"  <=> StageOf(st) = "absent"
         /\ st = "queued"  <=> StageOf(st) = "queued"
         /\ st = "claimed" <=> StageOf(st) = "claimed"
         /\ st = "running" <=> StageOf(st) = "running"
         /\ st \in Terminal <=> StageOf(st) = "over"
  BY DEF StageOf, JobStatus, Active, Terminal, Queue!Stages

LEMMA StepOfQueue ==
  ASSUME TypeOK, TypeOK', JobsInv, [Next]_vars
  PROVE  Queue!Next
<1> DEFINE stage == [j \in JobIds |-> StageOf(jobs[j].status)]
           owner == [j \in JobIds |-> jobs[j].ws]
<1>1. JobsInv' /\ RowsMove
  BY StepKeepsJobs
<1>2. \A j \in JobIds : /\ jobs[j].status \in JobStatus /\ jobs'[j].status \in JobStatus
                        /\ jobs'[j].ws \in Workspaces \cup {None}
  BY DEF TypeOK, JobRow
<1>3. stage' = [j \in JobIds |-> StageOf(jobs'[j].status)] /\ owner' = [j \in JobIds |-> jobs'[j].ws]
  OBVIOUS
<1>4. Queue!Move
  <2>1. stage' \in [JobIds -> Queue!Stages]
    BY <1>2, <1>3, StageTable
  <2>2. \A j \in JobIds : stage'[j] = stage[j] \/ <<stage[j], stage'[j]>> \in Queue!Moves
    <3> SUFFICES ASSUME NEW j \in JobIds
                 PROVE  \/ StageOf(jobs'[j].status) = StageOf(jobs[j].status)
                        \/ <<StageOf(jobs[j].status), StageOf(jobs'[j].status)>> \in Queue!Moves
      BY <1>3
    <3>1. \/ jobs'[j].status = jobs[j].status
          \/ jobs[j].status = "absent"  /\ jobs'[j].status = "queued"
          \/ jobs[j].status = "queued"  /\ jobs'[j].status \in {"claimed"} \cup Terminal
          \/ jobs[j].status = "claimed" /\ jobs'[j].status \in {"queued", "running"} \cup Terminal
          \/ jobs[j].status = "running" /\ jobs'[j].status \in Terminal
      BY <1>1 DEF RowsMove
    <3> QED
      BY <1>2, <3>1, StageTable DEF Queue!Moves
  <2> QED
    BY <2>1, <2>2 DEF Queue!Move
<1>5. Queue!Keep
  <2>1. owner' \in [JobIds -> Workspaces \cup {None}]
    BY <1>2, <1>3
  <2>2. \A j \in JobIds : stage[j] # "absent" => owner'[j] = owner[j]
    BY <1>1, <1>2, <1>3, StageTable DEF RowsMove
  <2> QED
    BY <2>1, <2>2 DEF Queue!Keep
<1>6. Queue!Exclude
  <2> SUFFICES ASSUME NEW i \in JobIds, NEW j \in JobIds,
                      stage[j] = "queued", stage'[j] = "claimed",
                      i # j, owner[i] = owner[j]
               PROVE  stage'[i] \notin Queue!Locks
    BY DEF Queue!Exclude
  <2>1. jobs[j].status = "queued" /\ jobs'[j].status = "claimed" /\ jobs[i].ws = jobs[j].ws
    BY <1>2, <1>3, StageTable
  <2>2. jobs'[j].ws = jobs[j].ws
    BY <1>1, <2>1 DEF RowsMove
  <2>3. CASE jobs[i].status = "absent"
    BY <1>1, <1>2, <1>3, <2>3, StageTable DEF RowsMove, Queue!Locks
  <2>4. CASE jobs[i].status # "absent"
    <3>1. jobs'[i].ws = jobs'[j].ws
      BY <1>1, <2>1, <2>2, <2>4 DEF RowsMove
    <3>2. jobs'[i].status \notin Active
      BY <1>1, <2>1, <3>1 DEF JobsInv, OneActiveJobPerWorkspace, Active
    <3> QED
      BY <1>2, <1>3, <3>2, StageTable DEF Queue!Locks, Active
  <2> QED
    BY <2>3, <2>4
<1>7. Queue!Begin
  <2>1. execs' \in [JobIds -> Nat]
    BY DEF TypeOK
  <2>2. \A j \in JobIds : \/ execs'[j] = execs[j]
                          \/ execs[j] = 0 /\ execs'[j] = 1 /\ stage'[j] = "running"
    BY <1>1, <1>2, <1>3, StageTable DEF RowsMove
  <2> QED
    BY <2>1, <2>2 DEF Queue!Begin
<1> QED
  BY <1>4, <1>5, <1>6, <1>7 DEF Queue!Next

(* The jobs table keeps the promises of JobQueue, for every fleet. *)
THEOREM QueueImplemented == Spec => ImplementsJobQueue
<1>1. Init => Queue!Init
  <2> SUFFICES ASSUME Init
               PROVE  Queue!Init
    OBVIOUS
  <2>1. \A j \in JobIds : jobs[j].status = "absent" /\ jobs[j].ws = None
    BY DEF Init, Absent
  <2>2. [j \in JobIds |-> StageOf(jobs[j].status)] = [j \in JobIds |-> "absent"]
    <3>1. "absent" \in JobStatus
      BY DEF JobStatus
    <3>2. StageOf("absent") = "absent"
      BY <3>1, StageTable
    <3>3. \A j \in JobIds : StageOf(jobs[j].status) = "absent"
      BY <2>1, <3>2
    <3> QED
      BY <3>3
  <2>3. [j \in JobIds |-> jobs[j].ws] \in [JobIds -> Workspaces \cup {None}]
    BY <2>1
  <2>4. execs = [j \in JobIds |-> 0]
    BY DEF Init
  <2> QED
    BY <2>2, <2>3, <2>4 DEF Queue!Init
<1>2. TypeOK /\ TypeOK' /\ JobsInv /\ [Next]_vars => [Queue!Next]_(Queue!vars)
  BY StepOfQueue
<1> QED
  BY <1>1, <1>2, JobsInvariant, TypeCorrect, PTL DEF Spec, ImplementsJobQueue, Queue!Spec

-----------------------------------------------------------------------------
(* Rows and assignments. *)

(* A step that leaves every workspace where it is and takes no report. *)
Stay == /\ reporter' = reporter
        /\ \A w \in Workspaces : ws'[w].node = ws[w].node

LEMMA WorkersStay ==
  ASSUME NEW n \in Nodes, Worker(n)
  PROVE  ws' = ws /\ reporter' = reporter
  BY DEF Worker, RegisterNode, ClaimJob, StartJob, Heartbeat, CompleteJob, RetryCompletion,
     WorkerLetsGo, ReportWorkspace

LEMMA OthersStay ==
  ASSUME TypeOK, [Next]_vars
  PROVE  \/ Stay
         \/ \E w \in Workspaces, n \in Nodes : CreateWorkspace(w, n)
         \/ CommitRecovery
         \/ \E r \in reports : ApplyReport(r) /\ ApplyWorkspace(r)
<1>1. CASE Operator /\ ~CommitRecovery
  <2>1. ASSUME NEW w \in Workspaces, NEW d \in {"running", "stopped"}, SetDesired(w, d)
        PROVE  Stay
    BY <2>1 DEF SetDesired, TypeOK, WsRow, Stay
  <2>2. CASE ~(\E w \in Workspaces, d \in {"running", "stopped"} : SetDesired(w, d))
    BY <1>1, <2>2 DEF Operator, SetNodeStatus, PlanRecovery, CommitEmptyRecovery, AbortRecovery, Stay
  <2> QED
    BY <2>1, <2>2
<1>2. CASE Users
  <2>1. ASSUME NEW w \in Workspaces, DeleteUser(w)
        PROVE  Stay
    BY <2>1 DEF DeleteUser, TypeOK, WsRow, Stay
  <2>2. ASSUME NEW w \in Workspaces, NEW k \in RequestKinds, RequestJob(w, k)
        PROVE  Stay
    BY <2>2 DEF RequestJob, Stay
  <2>3. ASSUME NEW d \in drafts, InsertJob(d)
        PROVE  Stay
    BY <2>3 DEF InsertJob, Stay
  <2> QED
    BY <1>2, <2>1, <2>2, <2>3 DEF Users
<1>3. CASE ApiRestart \/ Time \/ UNCHANGED vars
  BY <1>3 DEF ApiRestart, Time, NodeGoesStale, LeaseRunsOut, vars, Stay
<1>4. ASSUME NEW n \in Nodes, Worker(n)
      PROVE  Stay
  BY <1>4, WorkersStay DEF Stay
<1>5. ASSUME NEW r \in reports, ApplyReport(r), ~ApplyWorkspace(r)
      PROVE  Stay
  BY <1>5 DEF ApplyReport, ApplyRunning, ApplyCompletion, Stay
<1> QED
  BY <1>1, <1>2, <1>3, <1>4, <1>5 DEF Next

(* A late report of a host that lost the workspace writes nothing: every    *)
(* assignment forgets who reported before, and workspace_update_from_worker *)
(* looks at the assignment in the statement that writes.                    *)
THEOREM RowsBelongToTheirNode == Spec => []ReportedByAssignedNode
<1>1. Init => ReportedByAssignedNode
  BY DEF Init, ReportedByAssignedNode
<1>2. TypeOK /\ ReportedByAssignedNode /\ [Next]_vars => ReportedByAssignedNode'
  <2> SUFFICES ASSUME TypeOK, ReportedByAssignedNode, [Next]_vars
               PROVE  ReportedByAssignedNode'
    OBVIOUS
  <2>1. CASE Stay
    BY <2>1 DEF Stay, ReportedByAssignedNode
  <2>2. ASSUME NEW w \in Workspaces, NEW n \in Nodes, CreateWorkspace(w, n)
        PROVE  ReportedByAssignedNode'
    <3>1. \A v \in Workspaces \ {w} : ws'[v] = ws[v] /\ reporter'[v] = reporter[v]
      BY <2>2 DEF CreateWorkspace, TypeOK
    <3>2. reporter'[w] = None
      BY <2>2 DEF CreateWorkspace, TypeOK
    <3> QED
      BY <3>1, <3>2 DEF ReportedByAssignedNode
  <2>3. CASE CommitRecovery
    <3>1. \A v \in Workspaces :
            reporter'[v] = None \/ (ws'[v] = ws[v] /\ reporter'[v] = reporter[v])
      <4> TAKE v \in Workspaces
      <4>1. CASE v \in plan.items
        BY <2>3, <4>1 DEF CommitRecovery
      <4>2. CASE v \notin plan.items
        BY <2>3, <4>2 DEF CommitRecovery
      <4> QED
        BY <4>1, <4>2
    <3> QED
      BY <3>1 DEF ReportedByAssignedNode
  <2>4. ASSUME NEW r \in reports, ApplyReport(r), ApplyWorkspace(r)
        PROVE  ReportedByAssignedNode'
    <3>1. CASE HasRow(r.ws) /\ ws[r.ws].node = r.node
      <4>1. r.ws \in Workspaces
        BY <2>4 DEF ApplyWorkspace, TypeOK, JobReport, WsReport
      <4>2. \A v \in Workspaces : ws'[v].node = ws[v].node
        BY <2>4, <3>1, <4>1 DEF ApplyWorkspace, TypeOK, WsRow
      <4>3. reporter' = [reporter EXCEPT ![r.ws] = r.node]
        BY <2>4, <3>1 DEF ApplyWorkspace
      <4> QED
        BY <3>1, <4>1, <4>2, <4>3 DEF ReportedByAssignedNode, TypeOK
    <3>2. CASE ~(HasRow(r.ws) /\ ws[r.ws].node = r.node)
      BY <2>4, <3>2 DEF ApplyWorkspace, ReportedByAssignedNode
    <3> QED
      BY <3>1, <3>2
  <2> QED
    BY <2>1, <2>2, <2>3, <2>4, OthersStay
<1> QED
  BY <1>1, <1>2, TypeCorrect, PTL DEF Spec

(* The property of one step. *)
AssignmentFits ==
  \A n \in Nodes, w \in Workspaces :
    ws[w].node # n /\ ws'[w].node = n /\ ws'[w].desired = "running"
      => Capacity[n] = 0 \/ Load(RunningOn(n))' <= Capacity[n]

LEMMA CreationFits ==
  ASSUME TypeOK, NEW v \in Workspaces, NEW m \in Nodes, CreateWorkspace(v, m)
  PROVE  AssignmentFits
<1>1. ws' = [ws EXCEPT ![v] = [node |-> m, desired |-> "running", status |-> "creating"]]
  BY DEF CreateWorkspace
<1>2. RunningOn(m)' = (RunningOn(m) \ {v}) \cup {v}
  BY <1>1 DEF RunningOn, TypeOK
<1>3. Capacity[m] = 0 \/ Load(RunningOn(m)') <= Capacity[m]
  BY <1>2 DEF CreateWorkspace, Fits
<1> SUFFICES ASSUME NEW n \in Nodes, NEW w \in Workspaces, ws[w].node # n, ws'[w].node = n
             PROVE  Capacity[n] = 0 \/ Load(RunningOn(n)') <= Capacity[n]
  BY DEF AssignmentFits
<1>4. w = v /\ n = m
  BY <1>1 DEF TypeOK
<1> QED
  BY <1>3, <1>4

LEMMA RecoveryFits ==
  ASSUME TypeOK, CommitRecovery
  PROVE  AssignmentFits
<1> DEFINE moved == {w \in plan.items : ws[w].desired = "running"}
<1>1. plan.items \subseteq Workspaces
  BY PlanType DEF CommitRecovery
<1>2. \A w \in plan.items : ws[w].node # plan.to
  BY DEF CommitRecovery, RecoveryHolds
<1>3. \A w \in Workspaces :
        IF w \in plan.items
        THEN /\ ws'[w].node = plan.to
             /\ ws'[w].desired = ws[w].desired
             /\ ws'[w].status = "restore-queued"
        ELSE ws'[w] = ws[w]
  <2>1. ws' = [w \in Workspaces |->
                 IF w \in plan.items
                 THEN [ws[w] EXCEPT !.node = plan.to, !.status = "restore-queued"]
                 ELSE ws[w]]
    BY DEF CommitRecovery
  <2>2. \A w \in Workspaces : ws[w] \in WsRow
    BY DEF TypeOK
  <2> QED
    BY <2>1, <2>2 DEF WsRow
<1> SUFFICES ASSUME NEW n \in Nodes, NEW v \in Workspaces, ws[v].node # n, ws'[v].node = n
             PROVE  Capacity[n] = 0 \/ Load(RunningOn(n)') <= Capacity[n]
  BY DEF AssignmentFits
<1>4. n = plan.to
  BY <1>3
<1>5. RunningOn(n)' = RunningOn(n) \cup moved
  <2>1. RunningOn(n)' = {w \in Workspaces : /\ ws'[w].node = n
                                            /\ ws'[w].desired = "running"
                                            /\ ws'[w].status \notin {"none", "removed"}}
    BY DEF RunningOn
  <2>2. moved \subseteq Workspaces
    BY <1>1
  <2>3. ASSUME NEW w \in Workspaces
        PROVE  w \in RunningOn(n)' <=> w \in RunningOn(n) \/ w \in moved
    <3>1. CASE w \in plan.items
      BY <1>2, <1>3, <1>4, <2>1, <3>1 DEF RunningOn
    <3>2. CASE w \notin plan.items
      BY <1>3, <2>1, <3>2 DEF RunningOn
    <3> QED
      BY <3>1, <3>2
  <2>4. RunningOn(n) \subseteq Workspaces /\ RunningOn(n)' \subseteq Workspaces
    BY <2>1 DEF RunningOn
  <2> QED
    BY <2>2, <2>3, <2>4
<1> QED
  BY <1>4, <1>5 DEF CommitRecovery, RecoveryHolds

(* Whoever assigns a workspace leaves the node within its capacity: both the *)
(* creation and the recovery decide with the rows they write, not with those *)
(* that an earlier request or plan saw.                                      *)
THEOREM AssignmentsFit == Spec => AssignmentFitsCapacity
<1>1. TypeOK /\ [Next]_vars => [AssignmentFits]_ws
  <2> SUFFICES ASSUME TypeOK, [Next]_vars, ws' # ws
               PROVE  AssignmentFits
    OBVIOUS
  <2>1. CASE Stay
    BY <2>1 DEF Stay, AssignmentFits
  <2>2. ASSUME NEW r \in reports, ApplyReport(r), ApplyWorkspace(r)
        PROVE  AssignmentFits
    <3>1. \A v \in Workspaces : ws'[v].node = ws[v].node
      BY <2>2 DEF ApplyWorkspace, TypeOK, WsRow
    <3> QED
      BY <3>1 DEF AssignmentFits
  <2> QED
    BY <2>1, <2>2, OthersStay, CreationFits, RecoveryFits
<1> QED
  BY <1>1, TypeCorrect, PTL DEF Spec, AssignmentFitsCapacity, AssignmentFits
=============================================================================
