------------------------------ MODULE MicroVm ------------------------------
(***************************************************************************)
(* One microVM on its host: its systemd unit, the runner script the unit   *)
(* executes (nix/module.nix), its cloud-hypervisor process, and the state  *)
(* file and the snapshot in its machine directory.  src/runtime.rs starts, *)
(* pauses, suspends, stops and removes it one command or file operation at *)
(* a time, and so does this model; the runner writes the same state file.  *)
(*                                                                         *)
(* Jobs, reconciliation and the opening of a chat hold the lock of the     *)
(* workspace: together they are the thread "job".  A request for sessions  *)
(* or for the terminal, and a chat message to a paused guest, do not take  *)
(* it: they are the thread "open".  A command may fail or time out at      *)
(* every step, before or after it has had its effect, and the worker die.  *)
(*                                                                         *)
(* Abstractions.  Only a guest that runs ends on its own; a snapshot goes  *)
(* with the workspace directory ("current") until a guest runs on it or a  *)
(* restore replaces it; definitions, keys and readiness probes are left    *)
(* out.                                                                    *)
(***************************************************************************)
EXTENDS Naturals

CONSTANTS
  Jobs,     \* bound: what holders of the lock do
  Openings  \* bound: what is done without it

JobNames     == {"create", "start", "pause", "suspend", "stop", "backup", "restore",
                 "remove", "upgrade"}
OpeningNames == {"start", "message"}

ASSUME OperationsAreKnown == Jobs \subseteq JobNames /\ Openings \subseteq OpeningNames

VARIABLES
  state,    \* the state file; "missing": no machine directory; "blank": no definition in it yet
  unit,     \* the systemd unit; "retrying": it waits to restart after a failure
  runner,   \* the runner script: "preparing" until it has written "running";
            \* "orphan": its machine directory has been removed
  restores, \* the runner has found a snapshot to restore from
  vmm,      \* the guest, as cloud-hypervisor has it
  snap,     \* the snapshot directory
  current,  \* the snapshot goes with the workspace directory as it is
  spoiled,  \* history: since the last snapshot, a guest that the state file called
            \* suspended, or was about to, has been resumed or booted without the
            \* lock, or a restore has replaced the directory of one that is
            \* suspended or that a runner is about to resume
  op        \* what each thread does; "wanted": the VM is to run afterwards

machine == <<state, snap, current, spoiled>>
process == <<unit, runner, restores, vmm>>
vars    == <<state, unit, runner, restores, vmm, snap, current, spoiled, op>>

-----------------------------------------------------------------------------
Threads == {"job", "open"}
Steps   == {"idle", "look", "start", "define", "create", "boot", "active", "booted", "ready",
            "resume", "markrunning", "pause", "markpaused", "snapdir", "snapshot",
            "marksuspended", "kill", "gone", "dropsnap", "markstopped", "copy", "swap",
            "erase"}
Ops     == [name : JobNames \cup OpeningNames \cup {"none"}, pc : Steps, wanted : BOOLEAN]
Idle    == [name |-> "none", pc |-> "idle", wanted |-> FALSE]

TypeOK ==
  /\ state \in {"missing", "blank", "stopped", "running", "paused", "suspended"}
  /\ unit \in {"inactive", "active", "stopping", "retrying", "failed"}
  /\ runner \in {"none", "starting", "preparing", "up", "orphan"}
  /\ restores \in BOOLEAN
  /\ vmm \in {"none", "running", "paused"}
  /\ snap \in {"none", "part", "whole"}
  /\ current \in BOOLEAN
  /\ spoiled \in BOOLEAN
  /\ op \in [Threads -> Ops]

Init ==
  /\ state \in {"missing", "stopped"}
  /\ unit = "inactive"
  /\ runner = "none"
  /\ restores = FALSE
  /\ vmm = "none"
  /\ snap = "none"
  /\ current = FALSE
  /\ spoiled = FALSE
  /\ op = [t \in Threads |-> Idle]

\* get_vm finds a definition.
Defined == state \notin {"missing", "blank"}

\* vm_status_from_systemd, of a VM that is defined.  A unit that waits to
\* restart is "activating", which counts as active.
VmStatus ==
  CASE unit \in {"active", "retrying"} -> (IF state = "suspended" THEN "draining" ELSE state)
    [] unit = "stopping" -> "draining"
    [] unit = "failed"   -> "crashed"
    [] unit = "inactive" -> (IF state = "suspended" THEN "suspended" ELSE "stopped")

\* A runner has decided to resume the guest, and has not yet done so.
Waking == restores /\ runner \in {"preparing", "up"} /\ vmm = "none"

IsRunning == VmStatus \in {"running", "draining"}
IsStarted == IsRunning \/ VmStatus = "paused"

-----------------------------------------------------------------------------
(* The steps of a thread. *)

At(t, pc)      == op[t].pc = pc
Does(t, names) == op[t].name \in names

Goto(t, pc) == op' = [op EXCEPT ![t].pc = pc]

\* It goes on as another operation.
Turns(t, name, wanted) ==
  op' = [op EXCEPT ![t] = [name |-> name, pc |-> "look", wanted |-> wanted]]

\* The operation is over, whether it has succeeded or failed.
Ends(t) == op' = [op EXCEPT ![t] = Idle]

EndsOrStarts(t) == IF op[t].wanted THEN Goto(t, "start") ELSE Ends(t)

\* The lock is free, or not asked for.
Begin(t, name, wanted) ==
  /\ At(t, "idle")
  /\ wanted => name \in {"backup", "restore", "upgrade"}
  /\ op' = [op EXCEPT ![t] = [name |-> name, pc |-> "look", wanted |-> wanted]]
  /\ UNCHANGED <<machine, process>>

\* A command fails or times out, the future is dropped or the worker dies.
GivesUp(t) ==
  /\ ~At(t, "idle")
  /\ Ends(t)
  /\ UNCHANGED <<machine, process>>

\* ensure_workspace_running_local and running_vm_owned, then start_vm.
LookToStart(t) ==
  /\ At(t, "start") \/ (At(t, "look") /\ Does(t, {"start"}))
  /\ \/ Defined /\ IsRunning /\ Goto(t, "ready")
     \/ Defined /\ VmStatus = "paused" /\ Goto(t, "resume")
     \/ Defined /\ VmStatus = "suspended" /\ snap = "none" /\ Ends(t)
     \/ Defined /\ VmStatus = "suspended" /\ snap # "none" /\ Goto(t, "boot")
     \/ Defined /\ VmStatus \in {"stopped", "crashed"} /\ Goto(t, "boot")
     \/ ~Defined /\ (IF t = "job" THEN Turns(t, "create", TRUE) ELSE Ends(t))
  /\ UNCHANGED <<machine, process>>

\* resume_if_state_file_paused_fast
LookForMessage(t) ==
  /\ At(t, "look") /\ Does(t, {"message"})
  /\ IF state = "paused" THEN Goto(t, "resume") ELSE Ends(t)
  /\ UNCHANGED <<machine, process>>

\* pause_vm
LookToPause(t) ==
  /\ At(t, "look") /\ Does(t, {"pause"})
  /\ \/ Defined /\ VmStatus = "paused" /\ Ends(t)
     \/ Defined /\ IsRunning /\ Goto(t, "pause")
     \/ ~(Defined /\ IsStarted) /\ Ends(t)
  /\ UNCHANGED <<machine, process>>

\* suspend_vm
LookToSuspend(t) ==
  /\ At(t, "look") /\ Does(t, {"suspend"})
  /\ \/ Defined /\ VmStatus = "suspended" /\ Ends(t)
     \/ Defined /\ VmStatus = "paused" /\ Goto(t, "snapdir")
     \/ Defined /\ IsRunning /\ Goto(t, "pause")
     \/ ~(Defined /\ (IsStarted \/ VmStatus = "suspended")) /\ Ends(t)
  /\ UNCHANGED <<machine, process>>

\* Mutant: only a guest that runs is stopped.
LookToBackupRunning(t) ==
  /\ At(t, "look") /\ Does(t, {"backup"})
  /\ op' = [op EXCEPT ![t].pc = IF Defined /\ IsRunning THEN "kill" ELSE "copy",
                      ![t].wanted = @ /\ Defined /\ IsRunning]
  /\ UNCHANGED <<machine, process>>

\* backup_workspace_local; only a VM that ran starts again.
LookToBackup(t) ==
  /\ At(t, "look") /\ Does(t, {"backup"})
  /\ op' = [op EXCEPT ![t].pc = IF Defined /\ IsStarted THEN "kill" ELSE "copy",
                      ![t].wanted = @ /\ Defined /\ IsRunning]
  /\ UNCHANGED <<machine, process>>

\* stop_workspace_local, restore_workspace_local, upgrade_workspace_local,
\* remove_vm: whether the VM is stopped first.
StopsFirst(t) ==
  \/ Does(t, {"stop"}) /\ Defined /\ (IsStarted \/ VmStatus = "suspended")
  \/ Does(t, {"restore"}) /\ Defined /\ IsStarted
  \/ Does(t, {"upgrade"}) /\ Defined
  \/ Does(t, {"remove", "create"}) /\ state # "missing"

\* What follows the stop.
Proceeds(t) ==
  \/ Does(t, {"stop"}) /\ Ends(t)
  \/ Does(t, {"backup"}) /\ Goto(t, "copy")
  \/ Does(t, {"restore"}) /\ Goto(t, "swap")
  \/ Does(t, {"upgrade"}) /\ Turns(t, "create", op[t].wanted)
  \/ Does(t, {"remove", "create"}) /\ Goto(t, "erase")

LookToStop(t) ==
  /\ At(t, "look") /\ Does(t, {"stop", "restore", "upgrade", "remove", "create"})
  /\ IF StopsFirst(t) THEN Goto(t, "kill") ELSE Proceeds(t)
  /\ UNCHANGED <<machine, process>>

-----------------------------------------------------------------------------
(* Starting and resuming: start_vm, restore_suspended_vm, resume_vm. *)

\* systemctl start, which waits for a stop that is under way.
Boot(t) ==
  /\ At(t, "boot") /\ Defined
  /\ unit # "stopping"
  /\ IF unit = "active"
     THEN UNCHANGED <<unit, runner, spoiled>>
     ELSE /\ unit' = "active"
          /\ runner' = "starting"
          /\ spoiled' = (spoiled \/ At("job", "marksuspended"))
  /\ Goto(t, "active")
  /\ UNCHANGED <<state, snap, current, restores, vmm>>

\* wait_for_systemd_active
Active(t) ==
  /\ At(t, "active") /\ Defined
  /\ IsRunning
  /\ Goto(t, "booted")
  /\ UNCHANGED <<machine, process>>

\* wait_for_vm_readiness of a VM that was started, or that ran already.
Answers(t) ==
  /\ vmm = "running"
  /\ \/ At(t, "booted") /\ Goto(t, "markrunning")
     \/ At(t, "ready") /\ Ends(t)
  /\ UNCHANGED <<machine, process>>

\* The control socket is in the machine directory.
Reaches == Defined /\ runner = "up"

Resume(t) ==
  /\ At(t, "resume") /\ Reaches
  /\ vmm = "paused"
  /\ vmm' = "running"
  /\ current' = FALSE
  /\ spoiled' = (spoiled \/ (t = "open" /\ (state = "suspended" \/ At("job", "marksuspended"))))
  /\ Goto(t, "markrunning")
  /\ UNCHANGED <<state, snap, unit, runner, restores>>

\* The runner or the worker writes the state file of a VM that is defined.
Writes(s) == state' = IF state = "blank" THEN state ELSE s

MarkRunning(t) ==
  /\ At(t, "markrunning") /\ state # "missing"
  /\ Writes("running")
  /\ Ends(t)
  /\ UNCHANGED <<snap, current, spoiled, process>>

-----------------------------------------------------------------------------
(* Pausing and suspending: pause_vm, suspend_vm. *)

Pause(t) ==
  /\ At(t, "pause") /\ Reaches
  /\ vmm = "running"
  /\ vmm' = "paused"
  /\ Goto(t, IF Does(t, {"pause"}) THEN "markpaused" ELSE "snapdir")
  /\ UNCHANGED <<machine, unit, runner, restores>>

MarkPaused(t) ==
  /\ At(t, "markpaused") /\ state # "missing"
  /\ Writes("paused")
  /\ Ends(t)
  /\ UNCHANGED <<snap, current, spoiled, process>>

\* The old snapshot is removed and an empty directory made.
SnapDir(t) ==
  /\ At(t, "snapdir") /\ state # "missing"
  /\ snap' = "part"
  /\ Goto(t, "snapshot")
  /\ UNCHANGED <<state, current, spoiled, process>>

Snapshot(t) ==
  /\ At(t, "snapshot") /\ Reaches
  /\ vmm = "paused" /\ snap = "part"
  /\ snap' = "whole"
  /\ current' = TRUE
  /\ spoiled' = FALSE
  /\ Goto(t, "marksuspended")
  /\ UNCHANGED <<state, process>>

\* Mutant: a state no reader knows.
MarkSuspendedMisspelt(t) ==
  /\ At(t, "marksuspended") /\ state # "missing"
  /\ Writes("suspend")
  /\ Goto(t, "kill")
  /\ UNCHANGED <<snap, current, spoiled, process>>

MarkSuspended(t) ==
  /\ At(t, "marksuspended") /\ state # "missing"
  /\ Writes("suspended")
  /\ Goto(t, "kill")
  /\ UNCHANGED <<snap, current, spoiled, process>>

-----------------------------------------------------------------------------
(* Stopping and removing: stop_vm, stop_vm_process, remove_vm, create_vm. *)

\* systemctl stop; the runner then cleans up.
Kill(t) ==
  /\ At(t, "kill")
  /\ \/ unit = "active" /\ unit' = "stopping"
     \/ unit = "retrying" /\ unit' = "inactive"
     \/ unit \notin {"active", "retrying"} /\ UNCHANGED unit
  /\ Goto(t, "gone")
  /\ UNCHANGED <<machine, runner, restores, vmm>>

\* Mutant: systemctl is not waited for.
GoneAtOnce(t) ==
  /\ At(t, "gone")
  /\ IF Does(t, {"suspend"}) THEN Ends(t) ELSE Goto(t, "dropsnap")
  /\ UNCHANGED <<machine, process>>

\* wait_for_systemd_inactive
Gone(t) ==
  /\ At(t, "gone")
  /\ unit \in {"inactive", "failed"}
  /\ IF Does(t, {"suspend"}) THEN Ends(t) ELSE Goto(t, "dropsnap")
  /\ UNCHANGED <<machine, process>>

\* A removal that is interrupted leaves a part.
DropSnap(t) ==
  /\ At(t, "dropsnap")
  /\ \/ snap' = "none" /\ Goto(t, "markstopped")
     \/ snap # "none" /\ snap' = "part" /\ Ends(t)
  /\ UNCHANGED <<state, current, spoiled, process>>

MarkStopped(t) ==
  /\ At(t, "markstopped") /\ state # "missing"
  /\ Writes("stopped")
  /\ Proceeds(t)
  /\ UNCHANGED <<snap, current, spoiled, process>>

\* restic copies the workspace directory.
Copy(t) ==
  /\ At(t, "copy")
  /\ EndsOrStarts(t)
  /\ UNCHANGED <<machine, process>>

\* run_restic_restore replaces the workspace directory; see RestoreSwap.
Swap(t) ==
  /\ At(t, "swap")
  /\ current' = FALSE
  /\ spoiled' = (spoiled \/ state = "suspended" \/ Waking)
  /\ IF ~Defined /\ ~op[t].wanted THEN Turns(t, "create", FALSE) ELSE EndsOrStarts(t)
  /\ UNCHANGED <<state, snap, process>>

\* The machine directory is removed.
Erase(t) ==
  /\ At(t, "erase")
  /\ state' = "missing"
  /\ snap' = "none"
  /\ runner' = IF runner \in {"none", "starting"} THEN runner ELSE "orphan"
  /\ IF Does(t, {"remove"}) THEN Ends(t) ELSE Goto(t, "define")
  /\ UNCHANGED <<current, spoiled, unit, restores, vmm>>

\* create_vm makes the directory, later its definition.
Define(t) ==
  /\ At(t, "define")
  /\ state' = "blank"
  /\ Goto(t, "create")
  /\ UNCHANGED <<snap, current, spoiled, process>>

Create(t) ==
  /\ At(t, "create") /\ state # "missing"
  /\ state' = "stopped"
  /\ EndsOrStarts(t)
  /\ UNCHANGED <<snap, current, spoiled, process>>

-----------------------------------------------------------------------------
(* The runner and systemd. *)

\* The runner is over; systemd restarts it after a failure, up to its limit.
RunnerEnds(after) ==
  /\ unit' \in after
  /\ runner' = "none"
  /\ vmm' = "none"
  /\ UNCHANGED <<restores, snap, current, spoiled, op>>

\* cleanup
CleansUp == state' = IF runner = "orphan" \/ state \in {"missing", "blank", "suspended"}
                     THEN state ELSE "stopped"

\* Mutant: a snapshot is resumed whatever the state file says.
RunnerStartsFromAnySnapshot ==
  /\ unit = "active" /\ runner = "starting"
  /\ IF state = "missing"
     THEN RunnerEnds({"inactive"}) /\ UNCHANGED state
     ELSE /\ restores' = (snap # "none")
          /\ runner' = "preparing"
          /\ UNCHANGED <<unit, vmm, machine, op>>

\* Without a machine directory there is nothing to run.
RunnerStarts ==
  /\ unit = "active" /\ runner = "starting"
  /\ IF state = "missing"
     THEN RunnerEnds({"inactive"}) /\ UNCHANGED state
     ELSE /\ restores' = (state = "suspended" /\ snap # "none")
          /\ runner' = "preparing"
          /\ UNCHANGED <<unit, vmm, machine, op>>

\* The guest's inputs are built, its file systems served.
RunnerIsReady ==
  /\ unit = "active" /\ runner = "preparing"
  /\ Defined
  /\ state' = "running"
  /\ runner' = "up"
  /\ UNCHANGED <<unit, restores, vmm, snap, current, spoiled, op>>

\* cloud-hypervisor boots, or resumes a complete snapshot.
GuestStarts ==
  /\ unit = "active" /\ runner = "up"
  /\ vmm = "none"
  /\ restores => snap = "whole"
  /\ vmm' = "running"
  /\ current' = FALSE
  /\ UNCHANGED <<state, snap, spoiled, unit, runner, restores, op>>

RunnerFails ==
  /\ unit = "active" /\ runner \in {"preparing", "up", "orphan"}
  /\ vmm = "none"
  /\ CleansUp
  /\ RunnerEnds({"retrying", "failed"})

\* Of its own, with or without an error.
GuestEnds ==
  /\ unit = "active" /\ vmm = "running"
  /\ CleansUp
  /\ RunnerEnds({"inactive", "retrying", "failed"})

RunnerStops ==
  /\ unit = "stopping"
  /\ IF runner = "starting" THEN UNCHANGED state ELSE CleansUp
  /\ RunnerEnds({"inactive"})

\* TimeoutStopSec is over: the cleanup is cut short.
RunnerIsKilled ==
  /\ unit = "stopping"
  /\ UNCHANGED state
  /\ RunnerEnds({"failed"})

Retry ==
  /\ unit = "retrying"
  /\ unit' = "active"
  /\ runner' = "starting"
  /\ UNCHANGED <<machine, restores, vmm, op>>

\* Units are not started at boot.
HostReboots ==
  /\ unit' = "inactive"
  /\ runner' = "none"
  /\ vmm' = "none"
  /\ op' = [t \in Threads |-> Idle]
  /\ UNCHANGED <<machine, restores>>

-----------------------------------------------------------------------------
ThreadSteps(t) ==
  \/ \E name \in IF t = "job" THEN Jobs ELSE Openings, wanted \in BOOLEAN : Begin(t, name, wanted)
  \/ GivesUp(t)
  \/ LookToStart(t) \/ LookForMessage(t) \/ LookToPause(t) \/ LookToSuspend(t)
  \/ LookToBackup(t) \/ LookToStop(t)
  \/ Boot(t) \/ Active(t) \/ Answers(t) \/ Resume(t) \/ MarkRunning(t)
  \/ Pause(t) \/ MarkPaused(t) \/ SnapDir(t) \/ Snapshot(t) \/ MarkSuspended(t)
  \/ Kill(t) \/ Gone(t) \/ DropSnap(t) \/ MarkStopped(t)
  \/ Copy(t) \/ Swap(t) \/ Erase(t) \/ Define(t) \/ Create(t)

HostSteps ==
  \/ RunnerStarts \/ RunnerIsReady \/ GuestStarts
  \/ RunnerFails \/ GuestEnds \/ RunnerStops \/ RunnerIsKilled \/ Retry \/ HostReboots

Next == (\E t \in Threads : ThreadSteps(t)) \/ HostSteps

Spec == Init /\ [][Next]_vars

-----------------------------------------------------------------------------
(* Properties.  Those on snapshots allow everything that is done to a VM;   *)
(* those on stopping, and SuspendableVm below, messages without the lock    *)
(* but nothing that boots the VM without it.                                *)

\* A guest resumes from a snapshot only while the workspace directory is as the
\* guest left it: its memory and its files agree, and no snapshot is resumed
\* twice.  restore_suspended_vm and the runner go by the state file alone.  Only
\* who does not take the lock, or a restore, comes between.
ResumesCurrent ==
  [][restores /\ vmm = "none" /\ vmm' = "running" => current \/ spoiled]_vars

\* While the state file says "suspended" no guest runs, and a complete snapshot
\* is current; the same goes for one that a runner is about to resume; a job
\* that is to write "suspended" holds a paused or ended guest and its snapshot.
FrozenInv == spoiled \/
  /\ state = "suspended" => vmm # "running" /\ (snap = "whole" => current)
  /\ Waking => (snap = "whole" => current)
  /\ At("job", "marksuspended") => /\ snap = "whole" /\ current
                                  /\ (vmm = "paused" \/ unit \in {"inactive", "failed"})
  /\ At("job", "resume") => state # "suspended"
  /\ runner = "up" => state # "suspended" \/ vmm = "paused"

\* The moment a backup or a restore turns to the workspace directory, no guest is
\* there, not even a paused one, and none is about to be resumed: what VmStatus
\* reports to backup_workspace_local and restore_workspace_local is enough to
\* decide that.
BeginsQuiet ==
  [][(op'["job"].pc \in {"copy", "swap"} /\ op["job"].pc \notin {"copy", "swap"})
       => vmm = "none" /\ ~Waking]_vars

\* When a stop, a removal or an upgrade goes on to the files of the machine,
\* nothing is left of its process, and no restart is pending that would bring
\* it back (stop_vm, remove_vm).
StoppedIsGone ==
  At("job", "dropsnap") \/ At("job", "markstopped") \/ At("job", "erase") =>
    vmm = "none" /\ runner = "none" /\ unit \in {"inactive", "failed"}

-----------------------------------------------------------------------------
(* The machine as those who use it see it. *)

\* The steps of a job between the end of the process and the next start at
\* which it works on what the machine directory holds.
WorksOnFiles == op["job"].pc \in {"dropsnap", "markstopped", "erase", "define", "create"}

Suspendable == INSTANCE SuspendableVm WITH
  power    <- IF vmm = "none" THEN "off" ELSE vmm,
  origin   <- IF vmm = "none" THEN "nothing" ELSE IF restores THEN "image" ELSE "scratch",
  image    <- snap = "whole" /\ current,
  hands    <- WorksOnFiles,
  tampered <- spoiled

\* The unit, the runner, the state file and the snapshot directory, with every
\* failure, restart and reboot, do for one machine what SuspendableVm says: a
\* guest wakes at most once from a snapshot, and only on the directory it was
\* taken with, unless the snapshot has been tampered with, and comes up under no
\* job that has stopped it.
ImplementsSuspendableVm == Suspendable!Spec
=============================================================================
