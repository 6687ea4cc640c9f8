------------------------- MODULE FleetCatalogProofs -------------------------
(***************************************************************************)
(* Theorems about FleetCatalog for every number of nodes, workspaces and   *)
(* jobs, every capacity and every demand.                                  *)
(***************************************************************************)
EXTENDS FleetCatalog, FiniteSetTheorems, TLAPS

(* The types of the helpers, stated once. *)

LEMMA ExpireLeasesType ==
  ASSUME NEW js \in [JobIds -> JobRow]
  PROVE  ExpireLeases(js) \in [JobIds -> JobRow]
  BY DEF ExpireLeases, JobRow, JobStatus, Active, Terminal

LEMMA PlanType ==
  ASSUME TypeOK, plan # NoPlan
  PROVE  /\ plan.from \in Nodes /\ plan.to \in Nodes
         /\ plan.items \subseteq Workspaces
         /\ Cardinality(plan.items) \in Nat
<1>1. plan \in [from: Nodes, to: Nodes, items: SUBSET Workspaces]
  BY DEF TypeOK, Plan
<1>2. IsFiniteSet(plan.items)
  BY <1>1, WorkspacesAreFinite, FS_Subset
<1> QED
  BY <1>1, <1>2, FS_CardinalityType

LEMMA QueuedJobType ==
  ASSUME NEW w \in Workspaces, NEW n \in Nodes, NEW k \in Kinds
  PROVE  QueuedJob(w, n, k) \in JobRow
  BY DEF QueuedJob, JobRow, JobStatus

LEMMA TakeOfflineType ==
  ASSUME node \in [Nodes -> NodeRow], NEW n \in Nodes
  PROVE  TakeOffline(n) \in [Nodes -> NodeRow]
  BY DEF TakeOffline, NodeRow, NodeStatus

LEMMA SupersededType ==
  ASSUME TypeOK, plan # NoPlan, NEW ids \in [plan.items -> Nat]
  PROVE  Superseded(ids) \in [JobIds -> JobRow]
<1> SUFFICES ASSUME NEW j \in JobIds PROVE Superseded(ids)[j] \in JobRow
  BY DEF Superseded
<1> plan.to \in Nodes /\ plan.items \subseteq Workspaces
  BY PlanType
<1> jobs[j] \in JobRow
  BY DEF TypeOK
<1>1. CASE \E w \in plan.items : ids[w] = j
  <2> DEFINE owner == CHOOSE w \in plan.items : ids[w] = j
  <2>1. owner \in plan.items
    BY <1>1
  <2>2. Superseded(ids)[j] = QueuedJob(owner, plan.to, "restore")
    BY <1>1 DEF Superseded
  <2> HIDE DEF owner
  <2> QED
    BY <2>1, <2>2, QueuedJobType DEF Kinds
<1>2. CASE ~\E w \in plan.items : ids[w] = j
  BY <1>2 DEF Superseded, JobRow, JobStatus, Terminal
<1> QED
  BY <1>1, <1>2

(* The type invariant, action by action. *)

LEMMA NodesKeepType ==
  ASSUME TypeOK, NEW n \in Nodes
  PROVE  /\ RegisterNode(n) => TypeOK'
         /\ NodeGoesStale(n) => TypeOK'
         /\ \A s \in NodeOrders : SetNodeStatus(n, s) => TypeOK'
<1>1. RegisterNode(n) => TypeOK'
  BY DEF TypeOK, NodeRow, NodeStatus, RegisterNode
<1>2. NodeGoesStale(n) => TypeOK'
  <2> SUFFICES ASSUME NodeGoesStale(n) PROVE TypeOK'
    OBVIOUS
  <2>1. node[n] \in NodeRow
    BY DEF TypeOK
  <2>2. [node[n] EXCEPT !.fresh = FALSE] \in NodeRow
    BY <2>1 DEF NodeRow
  <2>3. node' = [node EXCEPT ![n] = [node[n] EXCEPT !.fresh = FALSE]]
    BY DEF NodeGoesStale
  <2>4. node' \in [Nodes -> NodeRow]
    BY <2>2, <2>3 DEF TypeOK
  <2> QED
    BY <2>4 DEF NodeGoesStale, TypeOK
<1>3. ASSUME NEW s \in NodeOrders, SetNodeStatus(n, s) PROVE TypeOK'
  <2>1. s \in NodeStatus
    BY InputsAreLegal DEF NodeStatus
  <2>2. node' \in [Nodes -> NodeRow]
    BY <1>3, <2>1 DEF SetNodeStatus, TypeOK, NodeRow
  <2> QED
    BY <1>3, <2>2 DEF SetNodeStatus, TypeOK
<1> QED
  BY <1>1, <1>2, <1>3

LEMMA UsersKeepType ==
  ASSUME TypeOK, Users
  PROVE  TypeOK'
<1>1. ASSUME NEW w \in Workspaces, NEW n \in Nodes, CreateWorkspace(w, n)
      PROVE  TypeOK'
  <2>1. /\ ws' \in [Workspaces -> WsRow]
        /\ \A v \in Workspaces : ws'[v].status # "none" => ws'[v].node \in Nodes
    BY <1>1 DEF CreateWorkspace, TypeOK, WsRow, WsStatus, Desired
  <2>2. [ws |-> w, node |-> n, kind |-> "create"] \in Draft
    BY DEF Draft, Kinds
  <2> QED
    BY <1>1, <2>1, <2>2 DEF CreateWorkspace, TypeOK
<1>2. ASSUME NEW w \in Workspaces, NEW k \in RequestKinds, RequestJob(w, k)
      PROVE  TypeOK'
  <2>1. ws[w].node \in Nodes
    BY <1>2 DEF RequestJob, HasRow, TypeOK
  <2>2. k \in Kinds
    BY InputsAreLegal
  <2> QED
    BY <1>2, <2>1, <2>2 DEF RequestJob, TypeOK, Draft
<1>3. ASSUME NEW w \in Workspaces, DeleteUser(w)
      PROVE  TypeOK'
  <2>1. ws' \in [Workspaces -> WsRow] /\ \A v \in Workspaces : ws'[v].node = ws[v].node
    BY <1>3 DEF DeleteUser, TypeOK, WsRow, WsStatus, Desired
  <2>2. ws[w].node \in Nodes
    BY <1>3 DEF DeleteUser, HasRow, TypeOK
  <2>3. [ws |-> w, node |-> ws[w].node, kind |-> "remove"] \in Draft
    BY <2>2 DEF Draft, Kinds
  <2>4. \A v \in Workspaces : ws'[v].status # "none" => ws'[v].node \in Nodes
    BY <1>3, <2>1, <2>2 DEF DeleteUser, TypeOK
  <2> QED
    BY <1>3, <2>1, <2>3, <2>4 DEF DeleteUser, TypeOK
<1>4. ASSUME NEW d \in drafts, InsertJob(d)
      PROVE  TypeOK'
  <2>1. d.ws \in Workspaces /\ d.node \in Nodes /\ d.kind \in Kinds
    BY DEF TypeOK, Draft
  <2>2. QueuedJob(d.ws, d.node, d.kind) \in JobRow
    BY <2>1, QueuedJobType
  <2>3. njobs' \in 0..MaxJobs
    BY <1>4, BoundsAreNatural DEF InsertJob, TypeOK
  <2> QED
    BY <1>4, <2>2, <2>3 DEF InsertJob, TypeOK
<1> QED
  BY <1>1, <1>2, <1>3, <1>4 DEF Users

LEMMA OperatorKeepsType ==
  ASSUME TypeOK, Operator
  PROVE  TypeOK'
<1>1. ASSUME NEW w \in Workspaces, NEW d \in {"running", "stopped"}, SetDesired(w, d)
      PROVE  TypeOK'
  BY <1>1 DEF SetDesired, HasRow, TypeOK, WsRow, Desired
<1>2. ASSUME NEW from \in Nodes, NEW to \in Nodes, PlanRecovery(from, to)
      PROVE  TypeOK'
  BY <1>2 DEF PlanRecovery, TypeOK, Plan
<1>3. ASSUME CommitRecovery
      PROVE  TypeOK'
  <2>1. /\ plan.from \in Nodes /\ plan.to \in Nodes
        /\ plan.items \subseteq Workspaces
        /\ Cardinality(plan.items) \in Nat
    BY <1>3, PlanType DEF CommitRecovery
  <2>2. njobs' \in 0..MaxJobs
    <3> DEFINE added == Cardinality(plan.items)
    <3>1. njobs' = njobs + added /\ njobs + added <= MaxJobs
      BY <1>3 DEF CommitRecovery
    <3>2. njobs \in Nat /\ added \in Nat
      BY <2>1, BoundsAreNatural DEF TypeOK
    <3> HIDE DEF added
    <3> QED
      BY <3>1, <3>2, BoundsAreNatural
  <2>3. jobs' \in [JobIds -> JobRow]
    <3>1. PICK ids \in [plan.items -> (njobs + 1)..(njobs + Cardinality(plan.items))] :
            jobs' = Superseded(ids)
      BY <1>3 DEF CommitRecovery
    <3>2. ids \in [plan.items -> Nat]
      BY <2>1 DEF TypeOK
    <3> QED
      BY <1>3, <3>1, <3>2, SupersededType DEF CommitRecovery
  <2>4. node' \in [Nodes -> NodeRow]
    BY <1>3, <2>1, TakeOfflineType DEF CommitRecovery, TypeOK
  <2>5. /\ ws' \in [Workspaces -> WsRow]
        /\ \A w \in Workspaces : ws'[w].status # "none" => ws'[w].node \in Nodes
    <3> SUFFICES ASSUME NEW w \in Workspaces
                 PROVE  ws'[w] \in WsRow /\ (ws'[w].status # "none" => ws'[w].node \in Nodes)
      BY <1>3 DEF CommitRecovery
    <3>1. ws[w] \in WsRow
      BY DEF TypeOK
    <3>2. CASE w \in plan.items
      <4>1. ws'[w] = [ws[w] EXCEPT !.node = plan.to, !.status = "restore-queued"]
        BY <1>3, <3>2 DEF CommitRecovery
      <4> QED
        BY <2>1, <3>1, <4>1 DEF WsRow, WsStatus
    <3>3. CASE w \notin plan.items
      BY <1>3, <3>1, <3>3 DEF CommitRecovery, TypeOK
    <3> QED
      BY <3>2, <3>3
  <2>6. reporter' \in [Workspaces -> Nodes \cup {None}]
    BY <1>3 DEF CommitRecovery, TypeOK
  <2> QED
    BY <1>3, <2>2, <2>3, <2>4, <2>5, <2>6 DEF CommitRecovery, TypeOK, Plan
<1>4. ASSUME CommitEmptyRecovery
      PROVE  TypeOK'
  <2>1. TakeOffline(plan.from) \in [Nodes -> NodeRow]
    BY <1>4, PlanType, TakeOfflineType DEF CommitEmptyRecovery, TypeOK
  <2> QED
    BY <1>4, <2>1 DEF CommitEmptyRecovery, TypeOK, Plan
<1>5. ASSUME AbortRecovery
      PROVE  TypeOK'
  BY <1>5 DEF AbortRecovery, TypeOK, Plan
<1> QED
  BY <1>1, <1>2, <1>3, <1>4, <1>5, NodesKeepType DEF Operator

LEMMA WorkersKeepType ==
  ASSUME TypeOK, NEW n \in Nodes, Worker(n)
  PROVE  TypeOK'
<1> USE DEF Phases
<1>0. worker[n].phase # "idle" => worker[n].job \in JobIds /\ worker[n].phase \in Phases
  BY DEF TypeOK, WorkerState, IdleWorker
<1>1. ASSUME NEW c \in BOOLEAN, NEW d \in BOOLEAN, ClaimJob(n, c, d)
      PROVE  TypeOK'
  <2> DEFINE js   == ExpireLeases(jobs)
             able == {j \in JobIds : Eligible(js, j, n, c, d)}
  <2>1. js \in [JobIds -> JobRow]
    BY ExpireLeasesType DEF TypeOK
  <2>2. node' \in [Nodes -> NodeRow]
    BY <1>1 DEF ClaimJob, TypeOK, NodeRow
  <2>3. \/ jobs' = js /\ worker' = worker
        \/ \E j \in able :
             /\ jobs' = [js EXCEPT ![j].status = "claimed", ![j].claimedBy = n]
             /\ worker' \in {worker, [worker EXCEPT ![n] = [phase |-> "claimed", job |-> j]]}
    BY <1>1 DEF ClaimJob
  <2>4. able \subseteq JobIds
    OBVIOUS
  <2> HIDE DEF js, able
  <2>5. jobs' \in [JobIds -> JobRow]
    <3>1. ASSUME NEW j \in JobIds
          PROVE  [js EXCEPT ![j].status = "claimed", ![j].claimedBy = n] \in [JobIds -> JobRow]
      BY <2>1 DEF JobRow, JobStatus, Active
    <3> QED
      BY <2>1, <2>3, <2>4, <3>1
  <2>6. worker' \in [Nodes -> WorkerState]
    <3>1. ASSUME NEW j \in JobIds
          PROVE  [phase |-> "claimed", job |-> j] \in WorkerState
      BY DEF WorkerState
    <3>2. worker \in [Nodes -> WorkerState]
      BY DEF TypeOK
    <3>3. CASE worker' = worker
      BY <3>2, <3>3
    <3>4. ASSUME NEW j \in JobIds, worker' = [worker EXCEPT ![n] = [phase |-> "claimed", job |-> j]]
          PROVE  worker' \in [Nodes -> WorkerState]
      BY <3>1, <3>2, <3>4
    <3> QED
      BY <2>3, <2>4, <3>3, <3>4
  <2> QED
    BY <1>1, <2>2, <2>5, <2>6 DEF ClaimJob, TypeOK
<1>2. CASE StartJob(n)
  <2>1. [op |-> "running", node |-> n, job |-> worker[n].job] \in JobReport
    BY <1>0, <1>2 DEF StartJob, JobReport
  <2>2. worker' \in [Nodes -> WorkerState]
    <3>1. [worker[n] EXCEPT !.phase = "starting"] \in WorkerState
      BY <1>0, <1>2 DEF StartJob, TypeOK, WorkerState, IdleWorker
    <3>2. IdleWorker \in WorkerState
      BY DEF WorkerState
    <3> QED
      BY <1>2, <3>1, <3>2 DEF StartJob, TypeOK
  <2> QED
    BY <1>2, <2>1, <2>2 DEF StartJob, Send, TypeOK
<1>3. CASE Heartbeat(n)
  <2>1. [op |-> "heartbeat", node |-> n, job |-> worker[n].job] \in JobReport
    BY <1>0, <1>3 DEF Heartbeat, JobReport
  <2> QED
    BY <1>3, <2>1 DEF Heartbeat, Send, TypeOK
<1>4. ASSUME NEW o \in {"succeeded", "failed"}, CompleteJob(n, o)
      PROVE  TypeOK'
  <2>1. [op |-> o, node |-> n, job |-> worker[n].job] \in JobReport
    BY <1>0, <1>4 DEF CompleteJob, JobReport
  <2>2. worker' \in [Nodes -> WorkerState]
    <3>1. [worker[n] EXCEPT !.phase = "completing"] \in WorkerState
      BY <1>0, <1>4 DEF CompleteJob, TypeOK, WorkerState, IdleWorker
    <3> QED
      BY <1>4, <3>1 DEF CompleteJob, TypeOK
  <2> QED
    BY <1>4, <2>1, <2>2 DEF CompleteJob, Send, TypeOK
<1>5. ASSUME NEW o \in {"succeeded", "failed"}, RetryCompletion(n, o)
      PROVE  TypeOK'
  <2>1. [op |-> o, node |-> n, job |-> worker[n].job] \in JobReport
    BY <1>0, <1>5 DEF RetryCompletion, JobReport
  <2> QED
    BY <1>5, <2>1 DEF RetryCompletion, Send, TypeOK
<1>6. CASE WorkerLetsGo(n)
  BY <1>6 DEF WorkerLetsGo, TypeOK, WorkerState, IdleWorker, Phases
<1>7. ASSUME NEW w \in Workspaces, NEW s \in WorkerStates, ReportWorkspace(n, w, s)
      PROVE  TypeOK'
  <2>1. s[1] \in {"keep", "live", "removed"} /\ s[2] \in Desired \cup {"keep"}
    BY InputsAreLegal
  <2> QED
    BY <1>7, <2>1 DEF ReportWorkspace, Send, TypeOK, WsReport
<1> QED
  BY <1>1, <1>2, <1>3, <1>4, <1>5, <1>6, <1>7, NodesKeepType DEF Worker

LEMMA ReportsKeepType ==
  ASSUME TypeOK, NEW r \in reports, ApplyReport(r)
  PROVE  TypeOK'
<1>1. r.node \in Nodes
  BY DEF TypeOK, JobReport, WsReport
<1>2. node' \in [Nodes -> NodeRow] /\ reports' \subseteq (JobReport \cup WsReport)
  BY <1>1 DEF ApplyReport, Touch, TypeOK, NodeRow
<1>3. CASE ApplyRunning(r)
  <2>1. r \in JobReport
    BY <1>3 DEF ApplyRunning, TypeOK, WsReport
  <2>2. jobs' \in [JobIds -> JobRow]
    BY <1>3, <2>1 DEF ApplyRunning, JobReport, TypeOK, JobRow, JobStatus, Active
  <2>3. worker' \in [Nodes -> WorkerState] /\ execs' \in [JobIds -> Nat]
    BY <1>3, <2>1 DEF ApplyRunning, JobReport, TypeOK, WorkerState, IdleWorker, Phases
  <2> QED
    BY <1>2, <1>3, <2>2, <2>3 DEF ApplyReport, ApplyRunning, TypeOK
<1>4. CASE ApplyCompletion(r)
  <2>1. r \in JobReport
    BY <1>4 DEF ApplyCompletion, TypeOK, WsReport
  <2>2. jobs' \in [JobIds -> JobRow]
    <3>1. r.job \in JobIds /\ r.op \in JobStatus
      BY <1>4, <2>1 DEF ApplyCompletion, JobReport, JobStatus, Terminal
    <3>2. [jobs EXCEPT ![r.job].status = r.op, ![r.job].overdue = FALSE] \in [JobIds -> JobRow]
      BY <3>1 DEF TypeOK, JobRow
    <3> QED
      BY <1>4, <3>2 DEF ApplyCompletion, TypeOK
  <2>3. worker' \in [Nodes -> WorkerState]
    BY <1>4, <2>1 DEF ApplyCompletion, JobReport, TypeOK, WorkerState, IdleWorker, Phases
  <2> QED
    BY <1>2, <1>4, <2>2, <2>3 DEF ApplyReport, ApplyCompletion, TypeOK
<1>5. CASE ApplyWorkspace(r)
  <2>1. r \in WsReport
    BY <1>5 DEF ApplyWorkspace, TypeOK, JobReport
  <2>2. /\ ws' \in [Workspaces -> WsRow]
        /\ \A w \in Workspaces : ws'[w].status # "none" => ws'[w].node \in Nodes
    BY <1>5, <2>1 DEF ApplyWorkspace, HasRow, WsReport, TypeOK, WsRow, WsStatus, Desired
  <2>3. reporter' \in [Workspaces -> Nodes \cup {None}]
    BY <1>5, <2>1 DEF ApplyWorkspace, WsReport, TypeOK
  <2> QED
    BY <1>2, <1>5, <2>2, <2>3 DEF ApplyReport, ApplyWorkspace, TypeOK
<1> QED
  BY <1>3, <1>4, <1>5 DEF ApplyReport

(* Every row keeps its type: the invariant everything else rests on.  It says *)
(* that no statement writes a status, a node or a lease nobody can read.      *)
THEOREM TypeCorrect == Spec => []TypeOK
<1>1. Init => TypeOK
  BY BoundsAreNatural DEF Init, TypeOK, NodeRow, NodeStatus, WsRow, WsStatus, Desired, JobRow,
     JobStatus, Kinds, Absent, WorkerState, IdleWorker, Phases, Plan, NoPlan, JobIds
<1>2. TypeOK /\ [Next]_vars => TypeOK'
  <2> SUFFICES ASSUME TypeOK, [Next]_vars PROVE TypeOK'
    OBVIOUS
  <2>1. CASE ApiRestart
    BY <2>1 DEF ApiRestart, TypeOK
  <2>2. ASSUME NEW j \in JobIds, LeaseRunsOut(j)
        PROVE  TypeOK'
    BY <2>2 DEF LeaseRunsOut, TypeOK, JobRow
  <2>3. CASE Time
    BY <2>2, <2>3, NodesKeepType, InputsAreLegal DEF Time
  <2>4. CASE UNCHANGED vars
    BY <2>4 DEF vars, TypeOK
  <2> QED
    BY <2>1, <2>3, <2>4, OperatorKeepsType, UsersKeepType, WorkersKeepType, ReportsKeepType
       DEF Next
<1> QED
  BY <1>1, <1>2, PTL DEF Spec
=============================================================================
