---------------------------- MODULE FleetCatalog ----------------------------
(***************************************************************************)
(* The control plane of Agent Mom: the nodes, workspaces and jobs tables   *)
(* of the SQLite catalog (src/db.rs), the HTTP handlers of the API         *)
(* that read and write them (src/api.rs), the CLI commands that open       *)
(* the same database (src/main.rs) and the part of each worker that        *)
(* talks to the API (src/worker.rs).                                       *)
(*                                                                         *)
(* One SQL transaction, or one statement outside a transaction, is one     *)
(* action.  A handler that checks something in one statement and writes in *)
(* a later one is two actions: what it has checked and not yet written is  *)
(* kept in drafts, plan or reports, and everything else may happen between *)
(* the two.                                                                *)
(*                                                                         *)
(* Abstractions.  Clock readings are reduced to what the code compares     *)
(* them with: a node is fresh or stale (MOM_NODE_STALE_SECS), a lease is   *)
(* within its timeout or overdue (MOM_JOB_*_TIMEOUT_SECS).  The active     *)
(* count, the cpus and the memory of a node are three sums compared with a *)
(* limit in the same way; one of them stands for all.  Job payloads,       *)
(* outputs, events and backup rows are left out.                           *)
(***************************************************************************)
EXTENDS Naturals, FiniteSets, FiniteSetsExt

CONSTANTS
  Nodes,        \* worker node ids
  Workspaces,   \* workspace names
  MaxJobs,      \* bound: how many job rows are ever inserted
  MaxReports,   \* bound: requests of workers between their check and their write
  MaxDrafts,    \* bound: job requests between their check and their insertion
  RequestKinds, \* bound: the kinds of job users and operators ask for
  Silent,       \* bound: the nodes that may fall silent
  NodeOrders,   \* bound: the statuses `mom node` sets
  WorkerStates, \* bound: what workers report, as pairs <<status, desired state>>
  Capacity,     \* Capacity[n]: the limit a node advertises, 0 for no limit
  Demand,       \* Demand[w]: what a running workspace takes of it
  None          \* SQL NULL

JobIds == 1..MaxJobs

ASSUME BoundsAreNatural == MaxJobs \in Nat /\ MaxReports \in Nat /\ MaxDrafts \in Nat
ASSUME CapacityIsNatural == Capacity \in [Nodes -> Nat]
ASSUME DemandIsPositive == Demand \in [Workspaces -> Nat \ {0}]
ASSUME WorkspacesAreFinite == IsFiniteSet(Workspaces)
ASSUME NoneIsNull == None \notin Nodes \cup Workspaces

VARIABLES
  node,      \* nodes table: status, and whether last_seen_at is within the cutoff
  ws,        \* workspaces table: node_id, desired_state, status
  jobs,      \* jobs table, in order of insertion
  njobs,     \* job rows inserted so far
  worker,    \* what each worker process is doing with the job it was given
  reports,   \* worker requests the API has checked and not yet applied
  drafts,    \* job requests the API or the CLI has checked and not yet inserted
  plan,      \* the recovery an operator's `mom fleet recover-host` has planned
  reporter,  \* history: the node whose report the workspace row last took
  execs      \* history: how often a worker began to execute each job

vars == <<node, ws, jobs, njobs, worker, reports, drafts, plan, reporter, execs>>

-----------------------------------------------------------------------------
(* The rows. *)

NodeStatus ==
  {"absent", "ready", "cordoned", "draining", "maintenance", "retired", "offline"}
Claimable  == {"ready", "cordoned"}
Reporting  == {"ready", "cordoned", "draining"}

\* Every status string but the ones a guard reads is "live"; "none": no row.
\* Every desired state that is neither running nor removed is "stopped".
WsStatus == {"none", "creating", "live", "restore-queued", "removed"}
Desired  == {"running", "stopped", "removed"}

\* "start" stands for every kind that needs capacity to run: start, warm,
\* pause, suspend, resume, execute, hermes, backup and upgrade.
Kinds     == {"create", "start", "stop", "remove", "restore"}
Active    == {"claimed", "running"}
Terminal  == {"succeeded", "failed", "canceled"}
JobStatus == {"absent", "queued"} \cup Active \cup Terminal

ASSUME InputsAreLegal ==
  /\ Silent \subseteq Nodes
  /\ RequestKinds \subseteq Kinds \ {"create"}
  /\ NodeOrders \subseteq {"ready", "cordoned", "draining", "maintenance", "retired"}
  /\ WorkerStates \subseteq {"keep", "live", "removed"} \X (Desired \cup {"keep"})

NodeRow == [status: NodeStatus, fresh: BOOLEAN]
WsRow   == [node: Nodes \cup {None}, desired: Desired, status: WsStatus]
JobRow  == [status: JobStatus, ws: Workspaces \cup {None}, node: Nodes \cup {None},
            kind: Kinds, claimedBy: Nodes \cup {None}, overdue: BOOLEAN]

Phases      == {"claimed", "starting", "executing", "completing"}
IdleWorker  == [phase |-> "idle", job |-> 0]
WorkerState == [phase: Phases, job: JobIds] \cup {IdleWorker}

\* A worker request that has passed its checks.  "succeeded" and "failed" are
\* the two statuses a worker completes a job with.
JobReport == [op: {"running", "heartbeat", "succeeded", "failed"},
              node: Nodes, job: JobIds]
WsReport  == [op: {"state"}, node: Nodes, ws: Workspaces,
              status: {"keep", "live", "removed"}, desired: Desired \cup {"keep"}]
Draft     == [ws: Workspaces, node: Nodes, kind: Kinds]
NoPlan    == [from |-> None, to |-> None, items |-> {}]
Plan      == [from: Nodes, to: Nodes, items: SUBSET Workspaces] \cup {NoPlan}

TypeOK ==
  /\ node \in [Nodes -> NodeRow]
  /\ ws \in [Workspaces -> WsRow]
  /\ \A w \in Workspaces : ws[w].status # "none" => ws[w].node \in Nodes
  /\ jobs \in [JobIds -> JobRow]
  /\ njobs \in 0..MaxJobs
  /\ worker \in [Nodes -> WorkerState]
  /\ reports \subseteq (JobReport \cup WsReport)
  /\ drafts \subseteq Draft
  /\ plan \in Plan
  /\ reporter \in [Workspaces -> Nodes \cup {None}]
  /\ execs \in [JobIds -> Nat]

\* What a job row that was never inserted looks like: its fields mean nothing.
Absent == [status |-> "absent", ws |-> None, node |-> None, kind |-> "start",
           claimedBy |-> None, overdue |-> FALSE]

Init ==
  /\ node = [n \in Nodes |-> [status |-> "absent", fresh |-> FALSE]]
  /\ ws = [w \in Workspaces |->
             [node |-> None, desired |-> "stopped", status |-> "none"]]
  /\ jobs = [j \in JobIds |-> Absent]
  /\ njobs = 0
  /\ worker = [n \in Nodes |-> IdleWorker]
  /\ reports = {}
  /\ drafts = {}
  /\ plan = NoPlan
  /\ reporter = [w \in Workspaces |-> None]
  /\ execs = [j \in JobIds |-> 0]

-----------------------------------------------------------------------------
(* Queries the statements share. *)

HasRow(w) == ws[w].status # "none"

ReadyAndFresh(n) == node[n].status = "ready" /\ node[n].fresh

\* require_claimable_node
RequireClaimable(n) == node[n].status \in Claimable /\ node[n].fresh

\* require_worker_report_allowed
ReportAllowed(n) == node[n].status \in Reporting

\* The workspaces a node's capacity is charged with.
RunningOn(n) == {w \in Workspaces : /\ ws[w].node = n
                                    /\ ws[w].desired = "running"
                                    /\ ws[w].status \notin {"none", "removed"}}

Load(S) == MapThenSumSet(LAMBDA w : Demand[w], S)

\* The workspaces in S can run on n besides the ones already charged to it.
Fits(n, S) == Capacity[n] = 0 \/ Load((RunningOn(n) \ S) \cup S) <= Capacity[n]

QueuedJob(w, n, k) == [status |-> "queued", ws |-> w, node |-> n, kind |-> k,
                       claimedBy |-> None, overdue |-> FALSE]

NoActiveJob(js, w) == \A j \in JobIds : js[j].ws = w => js[j].status \notin Active

\* Mutant: a run nobody refreshed goes back to the queue too.
ExpireLeasesRequeuing(js) ==
  [j \in JobIds |->
     IF js[j].overdue /\ js[j].status \in Active
     THEN [js[j] EXCEPT !.status = "queued", !.claimedBy = None, !.overdue = FALSE]
     ELSE js[j]]

\* Mutant: only runs expire.
ExpireLeasesOfRuns(js) ==
  [j \in JobIds |->
     IF js[j].overdue /\ js[j].status = "running"
     THEN [js[j] EXCEPT !.status = "failed", !.overdue = FALSE]
     ELSE js[j]]

\* expire_stale_job_leases: a claim nobody began goes back to the queue, a run
\* nobody refreshed is given up.
ExpireLeases(js) ==
  [j \in JobIds |->
     CASE js[j].overdue /\ js[j].status = "claimed" ->
            [js[j] EXCEPT !.status = "queued", !.claimedBy = None, !.overdue = FALSE]
       [] js[j].overdue /\ js[j].status = "running" ->
            [js[j] EXCEPT !.status = "failed", !.overdue = FALSE]
       [] OTHER -> js[j]]

\* Mutant: the NOT EXISTS of claim_job is missing.
EligibleBesideActive(js, j, n, capacityOk, diskOk) ==
  LET w == js[j].ws IN
  /\ js[j].status = "queued"
  /\ js[j].node = n
  /\ \/ js[j].kind \in {"stop", "remove"}
     \/ diskOk /\ js[j].kind = "restore" /\ HasRow(w) /\ ws[w].desired # "running"
     \/ capacityOk /\ HasRow(w) /\ Fits(n, {w})

\* The WHERE clause of claim_job, over the rows as expired.
Eligible(js, j, n, capacityOk, diskOk) ==
  LET w == js[j].ws IN
  /\ js[j].status = "queued"
  /\ js[j].node = n
  /\ \/ js[j].kind \in {"stop", "remove"}
     \/ diskOk /\ js[j].kind = "restore" /\ HasRow(w) /\ ws[w].desired # "running"
     \/ capacityOk /\ HasRow(w) /\ Fits(n, {w})
  /\ NoActiveJob(js, w)

-----------------------------------------------------------------------------
(* Nodes. *)

\* register_node, called by /worker/register and at the head of /worker/claim:
\* only a row that an operator or a recovery has not taken out becomes ready.
RegisterNode(n) ==
  /\ node' = [node EXCEPT ![n] =
       [status |-> IF @.status = "absent" THEN "ready" ELSE @.status, fresh |-> TRUE]]
  /\ UNCHANGED <<ws, jobs, njobs, worker, reports, drafts, plan, reporter, execs>>

\* MOM_NODE_STALE_SECS pass without a request of the node.
NodeGoesStale(n) ==
  /\ node[n].fresh
  /\ node' = [node EXCEPT ![n].fresh = FALSE]
  /\ UNCHANGED <<ws, jobs, njobs, worker, reports, drafts, plan, reporter, execs>>

\* mom node cordon | drain | retire | uncordon; uncordon also forgets when the
\* node was last seen, so that it has to report before it is used.
SetNodeStatus(n, status) ==
  /\ node[n].status # "absent"
  /\ node' = [node EXCEPT ![n] =
       [status |-> status, fresh |-> IF status = "ready" THEN FALSE ELSE @.fresh]]
  /\ UNCHANGED <<ws, jobs, njobs, worker, reports, drafts, plan, reporter, execs>>

-----------------------------------------------------------------------------
(* Requests of users and operators: check first, insert the job later. *)

\* workspace_upsert_pending_on_ready_node: choose the node and insert the row in
\* one immediate transaction.  The "create" job follows in a second one.
CreateWorkspace(w, n) ==
  /\ Cardinality(drafts) < MaxDrafts
  /\ ~HasRow(w)
  /\ ReadyAndFresh(n)
  /\ Fits(n, {w})
  /\ ws' = [ws EXCEPT ![w] = [node |-> n, desired |-> "running", status |-> "creating"]]
  /\ drafts' = drafts \cup {[ws |-> w, node |-> n, kind |-> "create"]}
  /\ reporter' = [reporter EXCEPT ![w] = None]
  /\ UNCHANGED <<node, jobs, njobs, worker, reports, plan, execs>>

\* api_create_job, create_and_wait_for_job and queue_assigned_workspace_job up
\* to the insertion: the assigned node must be taking jobs.
RequestJob(w, kind) ==
  /\ Cardinality(drafts) < MaxDrafts
  /\ HasRow(w)
  /\ RequireClaimable(ws[w].node)
  /\ drafts' = drafts \cup {[ws |-> w, node |-> ws[w].node, kind |-> kind]}
  /\ UNCHANGED <<node, ws, jobs, njobs, worker, reports, plan, reporter, execs>>

\* delete_user_and_workspace: no check of the node at all.  Its two UPDATEs, of
\* one column each, are taken together; the job follows.
DeleteUser(w) ==
  /\ Cardinality(drafts) < MaxDrafts
  /\ HasRow(w)
  /\ ws' = [ws EXCEPT ![w].desired = "removed", ![w].status = "live"]
  /\ drafts' = drafts \cup {[ws |-> w, node |-> ws[w].node, kind |-> "remove"]}
  /\ UNCHANGED <<node, jobs, njobs, worker, reports, plan, reporter, execs>>

\* mom workspace pause | suspend | resume write the desired state before they
\* ask whether the node takes jobs.
SetDesired(w, desired) ==
  /\ HasRow(w)
  /\ ws' = [ws EXCEPT ![w].desired = desired]
  /\ UNCHANGED <<node, jobs, njobs, worker, reports, drafts, plan, reporter, execs>>

\* create_job: one INSERT, which looks at nothing.
InsertJob(d) ==
  /\ d \in drafts
  /\ njobs < MaxJobs
  /\ jobs' = [jobs EXCEPT ![njobs + 1] = QueuedJob(d.ws, d.node, d.kind)]
  /\ njobs' = njobs + 1
  /\ drafts' = drafts \ {d}
  /\ UNCHANGED <<node, ws, worker, reports, plan, reporter, execs>>

\* The API process dies: whatever it had checked and not written is forgotten.
ApiRestart ==
  /\ drafts # {} \/ reports # {}
  /\ drafts' = {}
  /\ reports' = {}
  /\ UNCHANGED <<node, ws, jobs, njobs, worker, plan, reporter, execs>>

-----------------------------------------------------------------------------
(* Host-loss recovery: mom fleet recover-host --from A --to B. *)

\* fleet_recover_host reads the target, the workspaces of the lost host and a
\* backup of each, outside any transaction.
PlanRecovery(from, to) ==
  /\ plan = NoPlan
  /\ ReadyAndFresh(to)
  /\ plan' = [from |-> from, to |-> to,
              items |-> {w \in Workspaces : /\ ws[w].node = from
                                            /\ ws[w].status \notin {"none", "removed"}}]
  /\ UNCHANGED <<node, ws, jobs, njobs, worker, reports, drafts, reporter, execs>>

\* Mutant: the capacity the plan saw is taken for granted.
RecoveryHoldsUnchecked ==
  /\ plan.from # plan.to
  /\ \A w \in plan.items : /\ ws[w].node = plan.from
                           /\ ws[w].status \notin {"none", "removed"}
  /\ ReadyAndFresh(plan.to)

\* The preconditions recover_host_with_backups checks again in its transaction.
RecoveryHolds ==
  /\ plan.from # plan.to
  /\ \A w \in plan.items : /\ ws[w].node = plan.from
                           /\ ws[w].status \notin {"none", "removed"}
  /\ ReadyAndFresh(plan.to)
  /\ \/ Capacity[plan.to] = 0
     \/ Load(RunningOn(plan.to) \cup {w \in plan.items : ws[w].desired = "running"})
          <= Capacity[plan.to]

\* Mutant: a status that nothing else knows.
TakeOfflineMisspelt(n) ==
  [node EXCEPT ![n] = IF @.status = "absent" THEN @
                      ELSE [status |-> "off-line", fresh |-> TRUE]]

TakeOffline(n) ==
  [node EXCEPT ![n] = IF @.status = "absent" THEN @
                      ELSE [status |-> "offline", fresh |-> TRUE]]

\* The jobs after a recovery: what was under way for a recovered workspace ends,
\* and ids[w] is a new restore job for it.
Superseded(ids) ==
  [j \in JobIds |->
     IF \E w \in plan.items : ids[w] = j
     THEN QueuedJob(CHOOSE w \in plan.items : ids[w] = j, plan.to, "restore")
     ELSE IF jobs[j].ws \in plan.items /\ jobs[j].status \in {"queued"} \cup Active
     THEN [jobs[j] EXCEPT !.status = IF @ = "queued" THEN "canceled" ELSE "failed"]
     ELSE jobs[j]]

\* recover_host_with_backups: one immediate transaction for every workspace.
CommitRecovery ==
  /\ plan # NoPlan
  /\ plan.items # {}
  /\ RecoveryHolds
  /\ njobs + Cardinality(plan.items) <= MaxJobs
  /\ LET new == (njobs + 1)..(njobs + Cardinality(plan.items)) IN
     \E ids \in [plan.items -> new] :
       /\ \A j \in new : \E w \in plan.items : ids[w] = j
       /\ jobs' = Superseded(ids)
  /\ njobs' = njobs + Cardinality(plan.items)
  /\ ws' = [w \in Workspaces |->
              IF w \in plan.items
              THEN [ws[w] EXCEPT !.node = plan.to, !.status = "restore-queued"]
              ELSE ws[w]]
  /\ reporter' = [w \in Workspaces |-> IF w \in plan.items THEN None ELSE reporter[w]]
  /\ node' = TakeOffline(plan.from)
  /\ plan' = NoPlan
  /\ UNCHANGED <<worker, reports, drafts, execs>>

\* A host without workspaces is only marked offline.
CommitEmptyRecovery ==
  /\ plan # NoPlan
  /\ plan.items = {}
  /\ node' = TakeOffline(plan.from)
  /\ plan' = NoPlan
  /\ UNCHANGED <<ws, jobs, njobs, worker, reports, drafts, reporter, execs>>

\* A precondition no longer holds: the transaction rolls back and mom exits.
AbortRecovery ==
  /\ plan # NoPlan
  /\ plan.items # {} /\ ~RecoveryHolds
  /\ plan' = NoPlan
  /\ UNCHANGED <<node, ws, jobs, njobs, worker, reports, drafts, reporter, execs>>

-----------------------------------------------------------------------------
(* A worker claims, runs and completes one job at a time. *)

\* /worker/claim once the node may claim: expire leases, then take the oldest
\* eligible job, in one transaction.  The response may be lost on its way.
ClaimJob(n, capacityOk, diskOk) ==
  LET js   == ExpireLeases(jobs)
      able == {j \in JobIds : Eligible(js, j, n, capacityOk, diskOk)}
  IN
  /\ capacityOk => diskOk
  /\ worker[n].phase = "idle"
  /\ node[n].status \in Claimable
  /\ \/ /\ able = {}
        /\ jobs' = js
        /\ UNCHANGED worker
     \/ \E j \in able :
          /\ \A k \in able : j <= k
          /\ jobs' = [js EXCEPT ![j].status = "claimed", ![j].claimedBy = n]
          /\ worker' \in {worker, [worker EXCEPT ![n] = [phase |-> "claimed", job |-> j]]}
  /\ node' = [node EXCEPT ![n].fresh = TRUE]
  /\ UNCHANGED <<ws, njobs, reports, drafts, plan, reporter, execs>>

\* MOM_JOB_CLAIM_TIMEOUT_SECS or MOM_JOB_RUNNING_TIMEOUT_SECS pass without a
\* job_running event.
LeaseRunsOut(j) ==
  /\ jobs[j].status \in Active
  /\ ~jobs[j].overdue
  /\ jobs' = [jobs EXCEPT ![j].overdue = TRUE]
  /\ UNCHANGED <<node, ws, njobs, worker, reports, drafts, plan, reporter, execs>>

Send(r) ==
  /\ Cardinality(reports) < MaxReports
  /\ reports' = reports \cup {r}

\* run_claimed_job holds the workspace lock and sends job_running; a refusal
\* makes it drop the job.
StartJob(n) ==
  /\ worker[n].phase = "claimed"
  /\ IF ReportAllowed(n)
     THEN /\ Send([op |-> "running", node |-> n, job |-> worker[n].job])
          /\ worker' = [worker EXCEPT ![n].phase = "starting"]
     ELSE /\ worker' = [worker EXCEPT ![n] = IdleWorker]
          /\ UNCHANGED reports
  /\ UNCHANGED <<node, ws, jobs, njobs, drafts, plan, reporter, execs>>

\* spawn_job_heartbeat, every 30 s until the completion is through.
Heartbeat(n) ==
  /\ worker[n].phase \in {"executing", "completing"}
  /\ ReportAllowed(n)
  /\ Send([op |-> "heartbeat", node |-> n, job |-> worker[n].job])
  /\ UNCHANGED <<node, ws, jobs, njobs, worker, drafts, plan, reporter, execs>>

\* complete_claimed_job: sent until an answer arrives.
CompleteJob(n, outcome) ==
  /\ worker[n].phase = "executing"
  /\ worker' = [worker EXCEPT ![n].phase = "completing"]
  /\ IF ReportAllowed(n)
     THEN Send([op |-> outcome, node |-> n, job |-> worker[n].job])
     ELSE UNCHANGED reports
  /\ UNCHANGED <<node, ws, jobs, njobs, drafts, plan, reporter, execs>>

RetryCompletion(n, outcome) ==
  /\ worker[n].phase = "completing"
  /\ ReportAllowed(n)
  /\ jobs[worker[n].job].status \in Terminal => jobs[worker[n].job].status = outcome
  /\ Send([op |-> outcome, node |-> n, job |-> worker[n].job])
  /\ UNCHANGED <<node, ws, jobs, njobs, worker, drafts, plan, reporter, execs>>

\* A request timed out or was refused, MOM_JOB_COMPLETION_RETRY_SECS are over,
\* or the process was killed and started again.  What it sent is still on its
\* way, and what the catalog says of its job stays.
WorkerLetsGo(n) ==
  /\ worker[n].phase # "idle"
  /\ worker' = [worker EXCEPT ![n] = IdleWorker]
  /\ UNCHANGED <<node, ws, jobs, njobs, reports, drafts, plan, reporter, execs>>

\* /worker/workspaces/:name/state up to its write: the workspace is assigned to
\* the sender, which may report.  A job, the reconcile loop and the chat bridge
\* all report.
ReportWorkspace(n, w, state) ==
  /\ HasRow(w) /\ ws[w].node = n
  /\ ReportAllowed(n)
  /\ Send([op |-> "state", node |-> n, ws |-> w, status |-> state[1], desired |-> state[2]])
  /\ UNCHANGED <<node, ws, jobs, njobs, worker, drafts, plan, reporter, execs>>

-----------------------------------------------------------------------------
(* The write of a checked request: node_touch, then the UPDATE. *)

Touch(n) == node' = [node EXCEPT ![n].fresh = TRUE]

\* Mutant: the status filter is missing.
HoldsByName(n, j) == jobs[j].claimedBy = n

\* claimed_by = node AND status IN ('claimed', 'running')
Holds(n, j) == jobs[j].claimedBy = n /\ jobs[j].status \in Active

\* mark_job_running.  The answer starts the execution, unless it is lost or the
\* worker has let go of the job.
ApplyRunning(r) ==
  /\ r.op \in {"running", "heartbeat"}
  /\ jobs' = IF Holds(r.node, r.job)
             THEN [jobs EXCEPT ![r.job].status = "running", ![r.job].overdue = FALSE]
             ELSE jobs
  /\ LET waiting == r.op = "running" /\ worker[r.node] = [phase |-> "starting", job |-> r.job]
     IN  \/ /\ waiting /\ Holds(r.node, r.job)
            /\ worker' = [worker EXCEPT ![r.node].phase = "executing"]
            /\ execs' = [execs EXCEPT ![r.job] = @ + 1]
         \/ /\ waiting
            /\ worker' = [worker EXCEPT ![r.node] = IdleWorker]
            /\ UNCHANGED execs
         \/ ~waiting /\ UNCHANGED <<worker, execs>>
  /\ UNCHANGED <<ws, reporter>>

\* complete_job.  A repeated completion with the same result is answered as the
\* first one was.
ApplyCompletion(r) ==
  /\ r.op \in {"succeeded", "failed"}
  /\ jobs' = IF Holds(r.node, r.job)
             THEN [jobs EXCEPT ![r.job].status = r.op, ![r.job].overdue = FALSE]
             ELSE jobs
  /\ IF /\ worker[r.node] = [phase |-> "completing", job |-> r.job]
        /\ jobs'[r.job].claimedBy = r.node /\ jobs'[r.job].status = r.op
     THEN worker' \in {worker, [worker EXCEPT ![r.node] = IdleWorker]}
     ELSE UNCHANGED worker
  /\ UNCHANGED <<ws, reporter, execs>>

\* Mutant: WHERE name = ?1 only.
ApplyWorkspaceByName(r) ==
  /\ r.op = "state"
  /\ IF HasRow(r.ws)
     THEN /\ ws' = [ws EXCEPT
               ![r.ws].status  = IF r.status = "keep" THEN @ ELSE r.status,
               ![r.ws].desired = IF r.desired = "keep" THEN @ ELSE r.desired]
          /\ reporter' = [reporter EXCEPT ![r.ws] = r.node]
     ELSE UNCHANGED <<ws, reporter>>
  /\ UNCHANGED <<jobs, worker, execs>>

\* workspace_update_from_worker: ... WHERE name = ?1 AND node_id = ?2
ApplyWorkspace(r) ==
  /\ r.op = "state"
  /\ IF HasRow(r.ws) /\ ws[r.ws].node = r.node
     THEN /\ ws' = [ws EXCEPT
               ![r.ws].status  = IF r.status = "keep" THEN @ ELSE r.status,
               ![r.ws].desired = IF r.desired = "keep" THEN @ ELSE r.desired]
          /\ reporter' = [reporter EXCEPT ![r.ws] = r.node]
     ELSE UNCHANGED <<ws, reporter>>
  /\ UNCHANGED <<jobs, worker, execs>>

ApplyReport(r) ==
  /\ r \in reports
  /\ ApplyRunning(r) \/ ApplyCompletion(r) \/ ApplyWorkspace(r)
  /\ Touch(r.node)
  /\ reports' = reports \ {r}
  /\ UNCHANGED <<njobs, drafts, plan>>

-----------------------------------------------------------------------------
Operator ==
  \/ \E n \in Nodes, s \in NodeOrders : SetNodeStatus(n, s)
  \/ \E w \in Workspaces, d \in {"running", "stopped"} : SetDesired(w, d)
  \/ \E from, to \in Nodes : PlanRecovery(from, to)
  \/ CommitRecovery \/ CommitEmptyRecovery \/ AbortRecovery

Users ==
  \/ \E w \in Workspaces, n \in Nodes : CreateWorkspace(w, n)
  \/ \E w \in Workspaces, k \in RequestKinds : RequestJob(w, k)
  \/ \E w \in Workspaces : DeleteUser(w)
  \/ \E d \in drafts : InsertJob(d)

Worker(n) ==
  \/ RegisterNode(n)
  \/ \E capacityOk, diskOk \in BOOLEAN : ClaimJob(n, capacityOk, diskOk)
  \/ StartJob(n)
  \/ Heartbeat(n)
  \/ \E outcome \in {"succeeded", "failed"} :
       CompleteJob(n, outcome) \/ RetryCompletion(n, outcome)
  \/ WorkerLetsGo(n)
  \/ \E w \in Workspaces, s \in WorkerStates : ReportWorkspace(n, w, s)

Time ==
  \/ \E n \in Silent : NodeGoesStale(n)
  \/ \E j \in JobIds : LeaseRunsOut(j)

Next ==
  \/ Operator
  \/ Users
  \/ ApiRestart
  \/ \E n \in Nodes : Worker(n)
  \/ \E r \in reports : ApplyReport(r)
  \/ Time

Spec == Init /\ [][Next]_vars

(* Fairness.  A worker keeps polling /worker/claim and working while its node  *)
(* is in service (the loop in worker()), every request it waits for is         *)
(* answered or times out (worker_api_client), a job's execution ends, and time *)
(* passes.  Answers may be lost, processes killed and requests time out any    *)
(* number of times; but a worker that asks again and again for a job is not    *)
(* cut off every single time: that is what strong fairness says.  Nothing is   *)
(* assumed of users and operators.                                             *)

Polls(n)    == \E capacityOk, diskOk \in BOOLEAN : ClaimJob(n, capacityOk, diskOk)
IsGiven(n)  == Polls(n) /\ worker' # worker
Begins(n)   == (\E r \in reports : ApplyReport(r)) /\ execs' # execs /\ worker'[n] # worker[n]
Finishes(n) == \E outcome \in {"succeeded", "failed"} : CompleteJob(n, outcome)
GivesUp(n)  == worker[n].phase \in {"starting", "completing"} /\ WorkerLetsGo(n)

Fairness ==
  /\ \A n \in Nodes : /\ WF_vars(Polls(n))
                      /\ SF_vars(IsGiven(n))
                      /\ SF_vars(StartJob(n))
                      /\ SF_vars(Begins(n))
                      /\ WF_vars(Finishes(n))
                      /\ WF_vars(GivesUp(n))
  /\ \A j \in JobIds : WF_vars(LeaseRunsOut(j))

FairSpec == Spec /\ Fairness

-----------------------------------------------------------------------------
(* What the catalog promises. *)

\* No two jobs of a workspace are claimed or running at once, on one node or on
\* two, through expired leases, retries and recoveries: claim_job decides in the
\* transaction that claims, and it is the only lock a workspace has across hosts.
OneActiveJobPerWorkspace ==
  \A i, j \in JobIds :
    /\ jobs[i].status \in Active
    /\ jobs[j].status \in Active
    /\ jobs[i].ws = jobs[j].ws
    => i = j

\* A job is begun at most once, whatever leases expire and answers are lost: an
\* expired claim is queued again only as long as nobody can have begun it.
AtMostOnceExecution == \A j \in JobIds : execs[j] <= 1

\* Why a job is begun at most once.  Rows fill the table in order; until a job
\* has been running nobody has begun it; a worker only has jobs of its own node;
\* and a job that runs while its worker still waits for the answer has not begun.
RowsInOrder == \A j \in JobIds : jobs[j].status = "absent" <=> j > njobs
NotYetBegun ==
  \A j \in JobIds : jobs[j].status \in {"absent", "queued", "claimed"} => execs[j] = 0
OwnJobs ==
  \A n \in Nodes : worker[n].phase # "idle"
    => /\ jobs[worker[n].job].status # "absent"
       /\ jobs[worker[n].job].node = n
WaitingForAnswer ==
  \A n \in Nodes :
    worker[n].phase \in {"claimed", "starting"} /\ jobs[worker[n].job].status = "running"
      => execs[worker[n].job] = 0

\* The inductive invariant of the jobs table: what the lease rules rest on.
JobsInv == /\ RowsInOrder /\ NotYetBegun /\ OwnJobs /\ WaitingForAnswer
           /\ OneActiveJobPerWorkspace /\ AtMostOnceExecution

\* What a workspace row says was written by the node it is assigned to, or by
\* nobody since it was assigned: a report that the old host sent before a
\* recovery and the API applies after it changes nothing.
ReportedByAssignedNode == \A w \in Workspaces : reporter[w] \in {None, ws[w].node}

\* A job that has ended never changes again: neither a late completion, a late
\* heartbeat nor a recovery rewrites a result that was given out.
TerminalIsFinal ==
  [][\A j \in JobIds : jobs[j].status \in Terminal => jobs'[j] = jobs[j]]_jobs

\* Whoever puts a workspace that is to run on a node, a creation or a recovery,
\* leaves the node within the capacity it advertises, although the node was
\* chosen before, and others were placed on it since.
AssignmentFitsCapacity ==
  [][\A n \in Nodes, w \in Workspaces :
       ws[w].node # n /\ ws'[w].node = n /\ ws'[w].desired = "running"
         => Capacity[n] = 0 \/ Load(RunningOn(n))' <= Capacity[n]]_ws

\* As long as some node is polling, no workspace is blocked for ever by a job
\* whose worker died, was cut off, or never heard that it was given the job.
ActiveJobsEnd ==
  (\E n \in Nodes : <>[](node[n].status \in Claimable))
    => \A j \in JobIds : jobs[j].status \in Active ~> jobs[j].status \notin Active

-----------------------------------------------------------------------------
(* The jobs table implements the abstract queue. *)

StageOf(status) ==
  CASE status = "absent"   -> "absent"
    [] status = "queued"   -> "queued"
    [] status = "claimed"  -> "claimed"
    [] status = "running"  -> "running"
    [] status \in Terminal -> "over"

Queue == INSTANCE JobQueue WITH
  Jobs   <- JobIds,
  Owners <- Workspaces \cup {None},
  stage  <- [j \in JobIds |-> StageOf(jobs[j].status)],
  owner  <- [j \in JobIds |-> jobs[j].ws],
  begun  <- execs

\* Whatever the catalog does, seen as a table of jobs it is the queue of
\* JobQueue: jobs exclude each other per workspace, are begun at most once, and
\* are never taken back after they may have been begun.
ImplementsJobQueue == Queue!Spec
=============================================================================
