----------------------------- MODULE WorkerLoop -----------------------------
(***************************************************************************)
(* One worker process (src/worker.rs): its main loop, which claims a job,  *)
(* waits for a wake-up, the shutdown or the interval, claims again and     *)
(* reconciles every assigned workspace until a wake-up cuts it short; the  *)
(* jobs and the reconciliation step by step, on rows that the API and      *)
(* mom commands change meanwhile; and the opening of a chat, which starts  *)
(* the VM beside them.                                                     *)
(*                                                                         *)
(* Leases and other nodes are FleetCatalog's, the steps inside a start or  *)
(* a stop MicroVm's.  Kinds of jobs that read and write a row like one of  *)
(* these are left out, and the order of jobs of one workspace; without a   *)
(* VM there is no directory to back up.                                    *)
(***************************************************************************)
EXTENDS Naturals, FiniteSets

CONSTANTS
  Workspaces,
  Kinds,       \* kinds of jobs: a subset of JobKinds
  Requests,    \* what users do: a subset of RequestKinds
  MaxQueued,   \* bound on the queued jobs of a workspace
  Faults       \* what may go wrong: a subset of FaultKinds

JobKinds     == {"start", "stop", "suspend", "remove", "backup"}
RequestKinds == {"ask", "command", "delete", "chat", "shutdown"}
FaultKinds   == {"vm", "step", "chat", "worker"}

ASSUME ConstantsAssumption ==
  /\ Kinds \subseteq JobKinds
  /\ Requests \subseteq RequestKinds
  /\ MaxQueued \in Nat \ {0}
  /\ Faults \subseteq FaultKinds

VARIABLES
  ws,        \* ws[w]: row of the workspace, and the kinds of its queued jobs
  vm,        \* vm[w]
  lock,      \* WorkspaceLocks: who holds the lock of w
  at,        \* where the main loop is
  step,      \* where the job or the reconciliation in hand is
  rec,       \* the record it works from
  todo,      \* the other records that reconciliation has listed
  shutdown,  \* the value in the channel shutdown_rx
  chat,      \* chat[w]: where the opening of a chat is
  late       \* history: how many jobs were claimed after the signal to shut down

rowVars  == <<ws, vm>>
loopVars == <<at, step, rec, todo>>
vars     == <<rowVars, lock, loopVars, shutdown, chat, late>>

-----------------------------------------------------------------------------
Desired == {"running", "stopped", "suspended", "removed"}
\* "busy": creating, starting, backup-stopped, removing, removing-dir, error.
Status  == {"stopped", "running", "suspended", "idle-stopped", "removed", "busy"}
VmState == {"missing", "off", "on", "frozen"}

\* What a worker takes from the record of a workspace.  differs: reconciliation has
\* something to do about the desired state; idle: last_used_at is further back than
\* idle_timeout_secs, which matters to a workspace it runs; due: backup_due.
Record == [ws : Workspaces, kind : JobKinds \cup {"reconcile"},
           desired : Desired, differs : BOOLEAN, idle : BOOLEAN, due : BOOLEAN]
NoRecord == [ws |-> "none"]

WsRow == [status : Status, desired : Desired, idle : BOOLEAN, due : BOOLEAN,
          jobs : SUBSET Kinds]

TypeOK ==
  /\ ws \in [Workspaces -> WsRow]
  /\ vm \in [Workspaces -> VmState]
  /\ lock \in [Workspaces -> {"free", "loop", "chat"}]
  /\ at \in {"register", "top", "claim", "check", "select", "claim again",
             "job", "reconcile", "exited"}
  /\ step \in {"none", "list", "next", "lock", "begin", "act", "report", "idle",
               "idled", "halt", "halted", "copy", "copy, start"}
  /\ rec \in Record \cup {NoRecord}
  /\ todo \subseteq Record
  /\ shutdown \in BOOLEAN
  /\ chat \in [Workspaces -> {"none", "starting", "reporting"}]
  /\ late \in Nat

\* A workspace that is meant to run: stopped, or only a row, the API having died before
\* it inserted the job to create it.
Init ==
  /\ vm \in [Workspaces -> {"off", "missing"}]
  /\ ws = [w \in Workspaces |->
       [status |-> IF vm[w] = "off" THEN "stopped" ELSE "busy", desired |-> "running",
        idle |-> FALSE, due |-> FALSE, jobs |-> {}]]
  /\ lock = [w \in Workspaces |-> "free"]
  /\ at = "register" /\ step = "none" /\ rec = NoRecord /\ todo = {}
  /\ shutdown = FALSE
  /\ chat = [w \in Workspaces |-> "none"]
  /\ late = 0

-----------------------------------------------------------------------------
(* The main loop. *)

Goto(pc) == at' = pc /\ UNCHANGED <<step, rec, todo>>

\* The process returns from the loop, and what else it was doing ends with it.
Exit ==
  /\ at' = "exited" /\ step' = "none" /\ rec' = NoRecord /\ todo' = {}
  /\ lock' = [w \in Workspaces |-> "free"]
  /\ chat' = [w \in Workspaces |-> "none"]
  /\ UNCHANGED <<rowVars, shutdown, late>>

\* The loop looks at the signal before and after the first claim, and waits for it
\* beside its registration, its pause and the reconciliation, which is then dropped.
Exits == at \in {"register", "top", "check", "select", "reconcile"} /\ shutdown /\ Exit

\* register_worker_until_ready, but for its retries.
Register ==
  /\ at = "register" /\ ~shutdown
  /\ Goto("top")
  /\ UNCHANGED <<rowVars, lock, shutdown, chat, late>>

\* Mutant: the loop starts over without a look at the signal.
MutTop ==
  /\ at = "top"
  /\ Goto("claim")
  /\ UNCHANGED <<rowVars, lock, shutdown, chat, late>>

Top ==
  /\ at = "top" /\ ~shutdown
  /\ Goto("claim")
  /\ UNCHANGED <<rowVars, lock, shutdown, chat, late>>

Claiming == at \in {"claim", "claim again"}

\* Mutant: the desired state of a removal is spelt like the status on the way to it.
MutTarget(kind) == IF kind = "remove" THEN "removing" ELSE "running"

\* The state a kind of job is for; a backup is told by the row.
Target(kind) ==
  CASE kind = "stop" -> "stopped" [] kind = "suspend" -> "suspended"
    [] kind = "remove" -> "removed" [] OTHER -> "running"

\* worker_claim_once gets a job of w.
Claim(w, kind) ==
  /\ Claiming
  /\ kind \in ws[w].jobs
  /\ ws' = [ws EXCEPT ![w].jobs = @ \ {kind}]
  /\ at' = "job" /\ step' = "lock"
  /\ rec' = [ws |-> w, kind |-> kind, desired |-> Target(kind),
             differs |-> TRUE, idle |-> FALSE, due |-> kind = "backup"]
  /\ late' = IF shutdown THEN late + 1 ELSE late
  /\ UNCHANGED <<vm, lock, todo, shutdown, chat>>

\* On from the first claim, on from the second.
AfterFirst  == at' = "check" /\ step' = "none"
AfterSecond == at' = "reconcile" /\ step' = "list"

\* There is none, or the request fails.
ClaimNothing ==
  /\ Claiming
  /\ "step" \in Faults \/ \A w \in Workspaces : ws[w].jobs = {}
  /\ IF at = "claim" THEN AfterFirst ELSE AfterSecond
  /\ UNCHANGED <<rowVars, lock, rec, todo, shutdown, chat, late>>

Check ==
  /\ at = "check" /\ ~shutdown
  /\ Goto("select")
  /\ UNCHANGED <<rowVars, lock, shutdown, chat, late>>

\* worker_sse_loop has put something in the channel: an event or the keep-alive of
\* the stream, so at any time.
WokenUp ==
  /\ at = "select"
  /\ Goto("top")
  /\ UNCHANGED <<rowVars, lock, shutdown, chat, late>>

\* Mutant: there is no polling, only the nudge.
MutIntervalOver == FALSE

IntervalOver ==
  /\ at = "select"
  /\ Goto("claim again")
  /\ UNCHANGED <<rowVars, lock, shutdown, chat, late>>

LetGo == lock' = [w \in Workspaces |-> IF lock[w] = "loop" THEN "free" ELSE lock[w]]

\* Reconciliation is dropped wherever it is, its lock with it.
DropToWake ==
  /\ at = "reconcile"
  /\ at' = "top" /\ step' = "none" /\ rec' = NoRecord /\ todo' = {}
  /\ LetGo
  /\ UNCHANGED <<rowVars, shutdown, chat, late>>

-----------------------------------------------------------------------------
(* Reconciliation goes through the records it has listed. *)

\* Mutant: a workspace that is reported as running is not looked at.
MutDiffers(row) == row.desired # row.status

Differs(row) ==
  CASE row.desired = "running"   -> row.status # "idle-stopped"
    [] row.desired = "suspended" -> row.status # "suspended"
    [] row.desired = "stopped"   -> row.status \notin {"stopped", "idle-stopped"}
    [] row.desired = "removed"   -> row.status # "removed"

Listed(w) ==
  LET differs == Differs(ws[w]) IN
  [ws |-> w, kind |-> "reconcile", desired |-> ws[w].desired, differs |-> differs,
   idle |-> differs /\ ws[w].desired = "running" /\ ws[w].idle, due |-> ws[w].due]

List ==
  /\ at = "reconcile" /\ step = "list"
  /\ todo' = {Listed(w) : w \in {v \in Workspaces : ws[v].status # "removed"}}
  /\ step' = "next"
  /\ UNCHANGED <<rowVars, lock, at, rec, shutdown, chat, late>>

Take(r) ==
  /\ at = "reconcile" /\ step = "next"
  /\ r \in todo
  /\ lock[r.ws] = "free"
  /\ lock' = [lock EXCEPT ![r.ws] = "loop"]
  /\ rec' = [r EXCEPT !.differs = TRUE] /\ todo' = todo \ {r}
  /\ step' = IF r.differs THEN "act" ELSE "halt"
  /\ UNCHANGED <<rowVars, at, shutdown, chat, late>>

\* Mutant: after reconciliation the loop waits again, without a look at the signal.
MutAllDone ==
  /\ at = "reconcile" /\ step = "next"
  /\ todo = {}
  /\ at' = "select" /\ step' = "none"
  /\ UNCHANGED <<rowVars, lock, rec, todo, shutdown, chat, late>>

AllDone ==
  /\ at = "reconcile" /\ step = "next"
  /\ todo = {}
  /\ at' = "top" /\ step' = "none"
  /\ UNCHANGED <<rowVars, lock, rec, todo, shutdown, chat, late>>

-----------------------------------------------------------------------------
(* The steps of a job and of the reconciliation of one workspace. *)

IsJob == rec.kind # "reconcile"

\* The job or the workspace is done with.
Finish ==
  /\ LetGo
  /\ rec' = NoRecord
  /\ IF IsJob THEN at' = "top" /\ step' = "none" ELSE at' = at /\ step' = "next"

Proceed(s) == step' = s /\ UNCHANGED <<lock, at, rec>>

TakeLock ==
  /\ step = "lock"
  /\ lock[rec.ws] = "free"
  /\ lock' = [lock EXCEPT ![rec.ws] = "loop"]
  /\ step' = "begin"
  /\ UNCHANGED <<rowVars, at, rec, todo, shutdown, chat, late>>

\* Mutant: a removal is reported before it is carried out.
MutBegin ==
  /\ step = "begin"
  /\ rec' = IF rec.kind = "backup" THEN [rec EXCEPT !.desired = ws[rec.ws].desired] ELSE rec
  /\ step' = IF rec.kind = "backup" THEN "halt" ELSE "act"
  /\ ws' = [ws EXCEPT ![rec.ws] = [@ EXCEPT !.desired = rec.desired, !.status = rec.desired]]
  /\ UNCHANGED <<vm, lock, at, todo, shutdown, chat, late>>

\* A job reports what it is about to do before it does it.
Begin ==
  /\ step = "begin"
  /\ IF rec.kind = "backup"
     THEN /\ rec' = [rec EXCEPT !.desired = ws[rec.ws].desired]
          /\ step' = "halt"
          /\ UNCHANGED ws
     ELSE /\ step' = "act"
          /\ UNCHANGED rec
          /\ ws' = [ws EXCEPT ![rec.ws] =
               [@ EXCEPT !.desired = rec.desired,
                  !.idle   = IF rec.kind = "start" THEN FALSE ELSE ws[rec.ws].idle,
                  !.status = IF rec.kind \in {"start", "remove"} THEN "busy"
                             ELSE ws[rec.ws].status]]
  /\ UNCHANGED <<vm, lock, at, todo, shutdown, chat, late>>

\* A job to pause or to suspend fails where no VM runs.
Act ==
  /\ step = "act"
  /\ IF rec.kind = "suspend" /\ vm[rec.ws] # "on"
     THEN Finish /\ UNCHANGED vm
     ELSE /\ vm' = [vm EXCEPT ![rec.ws] =
               CASE rec.desired = "running"   -> "on"
                 [] rec.desired = "suspended" -> IF @ = "on" THEN "frozen" ELSE @
                 [] rec.desired = "stopped"   -> IF @ \in {"on", "frozen"} THEN "off" ELSE @
                 [] rec.desired = "removed"   -> "missing"]
          /\ Proceed("report")
  /\ UNCHANGED <<ws, todo, shutdown, chat, late>>

Report ==
  /\ step = "report"
  /\ ws' = [ws EXCEPT ![rec.ws] =
       [@ EXCEPT !.status = rec.desired,
                 !.desired = IF rec.kind = "remove" THEN "removed" ELSE ws[rec.ws].desired]]
  /\ IF IsJob THEN Finish
     ELSE Proceed(IF rec.desired = "running" /\ rec.idle THEN "idle" ELSE "halt")
  /\ UNCHANGED <<vm, todo, shutdown, chat, late>>

Idle ==
  /\ step = "idle"
  /\ vm' = [vm EXCEPT ![rec.ws] = IF @ = "on" THEN "off" ELSE @]
  /\ Proceed("idled")
  /\ UNCHANGED <<ws, todo, shutdown, chat, late>>

Idled ==
  /\ step = "idled"
  /\ ws' = [ws EXCEPT ![rec.ws] = [@ EXCEPT !.status = "idle-stopped", !.desired = "stopped"]]
  /\ Proceed("halt")
  /\ UNCHANGED <<vm, todo, shutdown, chat, late>>

\* backup_workspace_local: a VM that runs is stopped first.
NoBackup ==
  /\ step = "halt"
  /\ ~rec.due \/ vm[rec.ws] = "missing"
  /\ Finish
  /\ UNCHANGED <<rowVars, todo, shutdown, chat, late>>

Halt ==
  /\ step = "halt"
  /\ rec.due
  /\ vm[rec.ws] # "missing"
  /\ vm' = [vm EXCEPT ![rec.ws] = IF @ = "on" THEN "off" ELSE @]
  /\ Proceed(IF vm[rec.ws] = "on" THEN "halted" ELSE "copy")
  /\ UNCHANGED <<ws, todo, shutdown, chat, late>>

Halted ==
  /\ step = "halted"
  /\ ws' = [ws EXCEPT ![rec.ws].status = "busy"]
  /\ Proceed(IF rec.desired = "running" THEN "copy, start" ELSE "copy")
  /\ UNCHANGED <<vm, todo, shutdown, chat, late>>

\* restic is done and the backup recorded; a VM that ran is started again.
Copy ==
  /\ step \in {"copy", "copy, start"}
  /\ ws' = [ws EXCEPT ![rec.ws].due = FALSE]
  /\ IF step = "copy" THEN Finish
     ELSE /\ rec' = [rec EXCEPT !.due = FALSE, !.idle = FALSE]
          /\ step' = "act"
          /\ UNCHANGED <<lock, at>>
  /\ UNCHANGED <<vm, todo, shutdown, chat, late>>

Working == {"begin", "act", "report", "idle", "idled", "halt", "halted", "copy", "copy, start"}

\* A step fails: a job is completed as failed, or that does not get through either and
\* the claim has failed, whichever of the two it was; reconciliation reports an error,
\* unless it was the backup that failed or the API is away.
StepFails ==
  /\ "step" \in Faults
  /\ step \in Working
  /\ \/ Finish
     \/ IsJob /\ LetGo /\ rec' = NoRecord /\ (AfterFirst \/ AfterSecond)
  /\ \/ UNCHANGED ws
     \/ ~IsJob /\ ws' = [ws EXCEPT ![rec.ws].status = "busy"]
  /\ UNCHANGED <<vm, todo, shutdown, chat, late>>

-----------------------------------------------------------------------------
(* The opening of a chat: worker_hermes_acp_ws. *)

\* The request takes the lock; what it did before has changed nothing.
OpenChat(w) ==
  /\ "chat" \in Requests
  /\ at # "exited"
  /\ chat[w] = "none"
  /\ lock[w] = "free"
  /\ lock' = [lock EXCEPT ![w] = "chat"]
  /\ chat' = [chat EXCEPT ![w] = "starting"]
  /\ UNCHANGED <<rowVars, loopVars, shutdown, late>>

ChatEnds(w) ==
  /\ chat' = [chat EXCEPT ![w] = "none"]
  /\ lock' = [lock EXCEPT ![w] = IF @ = "chat" THEN "free" ELSE @]

\* The VM runs already, or there is none, which is an error.
ChatFindsVm(w) ==
  /\ chat[w] = "starting"
  /\ vm[w] \in {"on", "missing"}
  /\ ChatEnds(w)
  /\ UNCHANGED <<rowVars, loopVars, shutdown, late>>

ChatStartsVm(w) ==
  /\ chat[w] = "starting"
  /\ vm[w] \in {"off", "frozen"}
  /\ vm' = [vm EXCEPT ![w] = "on"]
  /\ chat' = [chat EXCEPT ![w] = "reporting"]
  /\ UNCHANGED <<ws, lock, loopVars, shutdown, late>>

\* The row is not touched: last_used_at stays.
ChatReports(w) ==
  /\ chat[w] = "reporting"
  /\ ws' = [ws EXCEPT ![w] = [@ EXCEPT !.status = "running", !.desired = "running"]]
  /\ ChatEnds(w)
  /\ UNCHANGED <<vm, loopVars, shutdown, late>>

\* The start or the report fails, or the API has hung up.
ChatFails(w) ==
  /\ "chat" \in Faults
  /\ chat[w] # "none"
  /\ ChatEnds(w)
  /\ UNCHANGED <<rowVars, loopVars, shutdown, late>>

-----------------------------------------------------------------------------
(* Users, time and accidents. *)

\* A request of the UI or a mom command on the control host queues a job.
Ask(w, kind) ==
  /\ "ask" \in Requests
  /\ Cardinality(ws[w].jobs) < MaxQueued
  /\ ws' = [ws EXCEPT ![w].jobs = @ \cup {kind}]
  /\ UNCHANGED <<vm, lock, loopVars, shutdown, chat, late>>

\* mom workspace suspend | resume writes the desired state first; the node may then
\* refuse the job.
Command(w, kind, accepted) ==
  /\ "command" \in Requests
  /\ accepted => kind \in Kinds /\ Cardinality(ws[w].jobs) < MaxQueued
  /\ ws' = [ws EXCEPT ![w] =
       [@ EXCEPT !.desired = Target(kind),
                 !.idle = IF kind = "start" THEN FALSE ELSE ws[w].idle,
                 !.jobs = ws[w].jobs \cup (IF accepted THEN {kind} ELSE {})]]
  /\ UNCHANGED <<vm, lock, loopVars, shutdown, chat, late>>

\* delete_user_and_workspace.
DeleteUser(w) ==
  /\ "delete" \in Requests
  /\ "remove" \in Kinds
  /\ Cardinality(ws[w].jobs) < MaxQueued
  /\ ws' = [ws EXCEPT ![w] =
       [@ EXCEPT !.desired = "removed", !.status = "busy",
                 !.jobs = ws[w].jobs \cup {"remove"}]]
  /\ UNCHANGED <<vm, lock, loopVars, shutdown, chat, late>>

Signal ==
  /\ "shutdown" \in Requests
  /\ ~shutdown
  /\ at # "exited"
  /\ shutdown' = TRUE
  /\ UNCHANGED <<rowVars, lock, loopVars, chat, late>>

TimePasses(w) ==
  /\ \/ ~ws[w].idle /\ ws' = [ws EXCEPT ![w].idle = TRUE]
     \/ ~ws[w].due /\ ws' = [ws EXCEPT ![w].due = TRUE]
  /\ UNCHANGED <<vm, lock, loopVars, shutdown, chat, late>>

VmCrashes(w) ==
  /\ "vm" \in Faults
  /\ vm[w] = "on"
  /\ vm' = [vm EXCEPT ![w] = "off"]
  /\ UNCHANGED <<ws, lock, loopVars, shutdown, chat, late>>

\* The process dies, or is started again after a shutdown.  A job in hand fails
\* with its lease, or is queued again when it was not yet begun.
WorkerDies ==
  /\ "worker" \in Faults
  /\ at # "register"
  /\ at' = "register" /\ step' = "none" /\ rec' = NoRecord /\ todo' = {}
  /\ IF step \in {"lock", "begin"}
     THEN ws' = [ws EXCEPT ![rec.ws].jobs = @ \cup {rec.kind}]
     ELSE UNCHANGED ws
  /\ lock' = [w \in Workspaces |-> "free"]
  /\ chat' = [w \in Workspaces |-> "none"]
  /\ shutdown' = FALSE /\ late' = 0
  /\ UNCHANGED vm

-----------------------------------------------------------------------------
LoopStep ==
  \/ Exits \/ Register \/ Top \/ ClaimNothing \/ Check \/ IntervalOver
  \/ \E w \in Workspaces, kind \in Kinds : Claim(w, kind)
  \/ List \/ (\E r \in todo : Take(r)) \/ AllDone
  \/ TakeLock \/ Begin \/ Act \/ Report \/ Idle \/ Idled
  \/ NoBackup \/ Halt \/ Halted \/ Copy

ChatStep(w) == ChatFindsVm(w) \/ ChatStartsVm(w) \/ ChatReports(w)

Accident ==
  \/ StepFails \/ WorkerDies
  \/ \E w \in Workspaces : ChatFails(w) \/ VmCrashes(w)

Outside ==
  \/ \E w \in Workspaces :
       \/ \E kind \in Kinds : Ask(w, kind)
       \/ \E kind \in {"start", "suspend"}, accepted \in BOOLEAN : Command(w, kind, accepted)
       \/ DeleteUser(w) \/ OpenChat(w) \/ TimePasses(w)
  \/ WokenUp \/ DropToWake \/ Signal

System == LoopStep \/ \E w \in Workspaces : ChatStep(w)

Next == System \/ Accident \/ Outside

Spec == Init /\ [][Next]_vars

\* The loop goes on; a claim is not refused every time, nor a worker killed every
\* time before it claims; the mutex of a workspace is given out in turn.
Fairness ==
  /\ WF_vars(LoopStep)
  /\ SF_vars(Top)
  /\ \A w \in Workspaces : SF_vars(\E kind \in Kinds : Claim(w, kind))
  /\ SF_vars(TakeLock \/ \E r \in todo : Take(r))
  /\ \A w \in Workspaces : WF_vars(ChatStep(w))

FairSpec == Spec /\ Fairness

-----------------------------------------------------------------------------
(* Properties. *)

\* Once the process has been told to shut down it begins at most one more job: the
\* signal may come after the last look at it and before a claim, or lose the race
\* with the interval in the select!, but then the next look ends the loop.
AtMostOneLateJob == late <= 1

\* A workspace whose row says "removed" has no VM: whoever brings one back (a late
\* start, a chat that read the row before, reconciliation of an old record) has
\* written another status first.
RemovedIsGone == \A w \in Workspaces : ws[w].status = "removed" => vm[w] = "missing"

\* A worker that is told to shut down does, whatever it is doing (or it dies).
ShutdownEnds == shutdown ~> at = "exited" \/ ~shutdown

\* A queued job does not wait for an event of the stream, which may be lost: the
\* interval alone gets the loop to claim one.
JobsAreClaimed ==
  (\E w \in Workspaces : ws[w].jobs # {}) ~> at \in {"job", "exited"}

\* What reconciliation is to reach.  A removed workspace stays removed, also when a
\* command or a chat has asked for it to run in the meantime.  An idle-stopped one
\* that is to run again waits for a job that wakes it.
Settled(w) ==
  \/ ws[w].status = "removed"
  \/ CASE ws[w].desired = "running"   -> \/ ws[w].status = "idle-stopped"
                                         \/ ws[w].status = "running" /\ vm[w] = "on"
       [] ws[w].desired = "stopped"   -> ws[w].status \in {"stopped", "idle-stopped"}
       [] ws[w].desired = "suspended" -> ws[w].status = "suspended"
       [] ws[w].desired = "removed"   -> FALSE

\* When users, nudges and accidents leave the worker alone, every workspace gets to its
\* desired state and stays there, whatever had been cut short before.
Converges ==
  <>[][System]_vars => <>[](at = "exited" \/ \A w \in Workspaces : Settled(w))

=============================================================================
