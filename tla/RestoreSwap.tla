---------------------------- MODULE RestoreSwap ----------------------------
(***************************************************************************)
(* Restoring a workspace directory from a restic backup                    *)
(* (run_restic_restore in src/backup.rs), on the host that holds it.       *)
(* Restic writes into .restore-<id> beside the directory; the directory is *)
(* moved aside to .pre-restore-<id>, the restored tree renamed into its    *)
(* place and what was moved aside removed.  The worker may die between any *)
(* two file operations and in the middle of a removal; the next attempt,   *)
(* of the same backup or of another one, starts from what is on the disk.  *)
(*                                                                         *)
(* A restore holds the lock of its workspace and stops the guest first, so *)
(* guests only run, and VMs are only recreated, between two attempts.      *)
(***************************************************************************)
EXTENDS Naturals

CONSTANTS
  Backups,  \* ids of the backups of the workspace
  None      \* no such path

VARIABLES
  ws,       \* the tree at the workspace directory
  tmp,      \* tmp[b]: the tree in .restore-b, "empty" if there is none in it yet
  prev,     \* prev[b]: the tree at .pre-restore-b
  pc,       \* how far the restore is
  bk,       \* the backup it restores
  result,   \* what the last attempt came to
  vm,       \* whether the host has a definition of the workspace's VM
  stocked   \* history: the host has held a whole tree of the workspace

vars == <<ws, tmp, prev, pc, bk, result, vm, stocked>>

-----------------------------------------------------------------------------
\* "live" has what the guest wrote, "restored" all of a backup, "part" some of a
\* tree; "fresh" is the empty directory create_vm makes.
Whole  == {"live", "restored"}
Trees  == Whole \cup {"part", "fresh"}
Stages == {"recover", "discard", "clean", "restic", "stale", "aside", "swap",
           "old", "finish"}

ASSUME NoneIsNoPath == None \notin Trees \cup {"empty"}

TypeOK ==
  /\ ws \in Trees \cup {None}
  /\ tmp \in [Backups -> {None, "empty", "part", "restored"}]
  /\ prev \in [Backups -> Trees \cup {None}]
  /\ pc \in Stages \cup {"idle"}
  /\ bk \in Backups
  /\ result \in {"none", "ok", "failed"}
  /\ vm \in BOOLEAN
  /\ stocked \in BOOLEAN

\* A host that runs the workspace, or one that a recovery has just assigned it to.
Init ==
  /\ \/ ws = "live" /\ vm \in BOOLEAN
     \/ ws = None   /\ vm = FALSE
  /\ tmp = [b \in Backups |-> None]
  /\ prev = [b \in Backups |-> None]
  /\ pc = "idle"
  /\ bk \in Backups
  /\ result = "none"
  /\ stocked = (ws = "live")

Goto(stage) == pc' = stage /\ UNCHANGED <<bk, result, vm>>

\* Once the tree at the workspace directory is whole, the host is stocked.
Stock == stocked' = (stocked \/ ws' \in Whole)

-----------------------------------------------------------------------------
(* run_restic_restore, one file operation at a time. *)

\* A restore job: the guest is stopped, the arguments are checked.
Begin(b) ==
  /\ pc = "idle"
  /\ pc' = "recover"
  /\ bk' = b
  /\ result' = "none"
  /\ UNCHANGED <<ws, tmp, prev, vm, stocked>>

\* Mutant: whatever is left of an earlier attempt is ignored.
RecoverNothingEver ==
  /\ pc = "recover"
  /\ UNCHANGED <<ws, tmp, prev, stocked>>
  /\ Goto("clean")

\* recover_interrupted_restore: with the directory gone, an earlier attempt
\* stopped between its two renames.  Finish it, or undo it.
Recover ==
  /\ pc = "recover"
  /\ \/ /\ ws = None
        /\ tmp[bk] \in {"part", "restored"}
        /\ ws' = tmp[bk]
        /\ tmp' = [tmp EXCEPT ![bk] = "empty"]
        /\ UNCHANGED prev
        /\ Goto("discard")
     \/ /\ ws = None
        /\ tmp[bk] \in {None, "empty"}
        /\ prev[bk] # None
        /\ ws' = prev[bk]
        /\ prev' = [prev EXCEPT ![bk] = None]
        /\ UNCHANGED tmp
        /\ Goto("clean")
     \/ /\ ws # None \/ (tmp[bk] \in {None, "empty"} /\ prev[bk] = None)
        /\ UNCHANGED <<ws, tmp, prev>>
        /\ Goto("clean")
  /\ Stock

\* The removal of .pre-restore-b: after a recovery, before a commit (a stale
\* one) and after it.
RemovePrevious ==
  /\ pc \in {"discard", "stale", "old"}
  /\ prev' = [prev EXCEPT ![bk] = None]
  /\ UNCHANGED <<ws, tmp, stocked>>
  /\ Goto(CASE pc = "discard" -> "clean"
            [] pc = "stale"   -> "aside"
            [] pc = "old"     -> "finish")

\* The stale .restore-b is removed, a new one made.
CleanTmp ==
  /\ pc = "clean"
  /\ tmp' = [tmp EXCEPT ![bk] = "empty"]
  /\ UNCHANGED <<ws, prev, stocked>>
  /\ Goto("restic")

ResticWrites ==
  /\ pc = "restic"
  /\ tmp' = [tmp EXCEPT ![bk] = "part"]
  /\ UNCHANGED <<ws, prev, pc, bk, result, vm, stocked>>

\* Mutant: the exit status of restic is not looked at.
ResticEndsSomehow ==
  /\ pc = "restic"
  /\ tmp' \in {tmp, [tmp EXCEPT ![bk] = "restored"]}
  /\ tmp'[bk] # "empty"
  /\ UNCHANGED <<ws, prev, stocked>>
  /\ Goto("stale")

\* Restic succeeds, and the tree it wrote is the workspace directory.
ResticEnds ==
  /\ pc = "restic"
  /\ tmp' = [tmp EXCEPT ![bk] = "restored"]
  /\ UNCHANGED <<ws, prev, stocked>>
  /\ Goto("stale")

\* commit_restored_workspace_dir: the first rename.  A directory that is missing
\* leaves nothing aside.
MoveAside ==
  /\ pc = "aside"
  /\ ws' = None
  /\ prev' = [prev EXCEPT ![bk] = ws]
  /\ UNCHANGED <<tmp, stocked>>
  /\ Goto("swap")

\* Mutant: the error of the rename is dropped.
SwapFailsUnnoticed ==
  /\ pc = "swap"
  /\ ws' = prev[bk]
  /\ prev' = [prev EXCEPT ![bk] = None]
  /\ UNCHANGED tmp
  /\ Stock
  /\ Goto("old")

\* The second rename.
Swap ==
  /\ pc = "swap"
  /\ ws' = tmp[bk]
  /\ tmp' = [tmp EXCEPT ![bk] = "empty"]
  /\ UNCHANGED prev
  /\ Stock
  /\ Goto("old")

\* It fails: what was moved aside is moved back, and the restore ends.
SwapFails ==
  /\ pc = "swap"
  /\ ws' = prev[bk]
  /\ prev' = [prev EXCEPT ![bk] = None]
  /\ UNCHANGED tmp
  /\ Stock
  /\ pc' = "idle"
  /\ result' = "failed"
  /\ UNCHANGED <<bk, vm>>

\* .restore-b is removed, and the job has succeeded.
Finish ==
  /\ pc = "finish"
  /\ tmp' = [tmp EXCEPT ![bk] = None]
  /\ pc' = "idle"
  /\ result' = "ok"
  /\ UNCHANGED <<ws, prev, bk, vm, stocked>>

\* A file operation or restic fails, or the worker dies.  A directory that was
\* being removed may have lost a part of its tree.
StopsShort ==
  /\ pc # "idle"
  /\ pc' = "idle"
  /\ result' = "failed"
  /\ \/ UNCHANGED <<tmp, prev>>
     \/ /\ pc \in {"discard", "stale", "old"} /\ prev[bk] # None
        /\ prev' = [prev EXCEPT ![bk] = "part"]
        /\ UNCHANGED tmp
     \/ /\ pc \in {"clean", "finish"} /\ tmp[bk] # None
        /\ \E left \in {None, "empty", "part"} :
             /\ tmp[bk] = "empty" => left # "part"
             /\ tmp' = [tmp EXCEPT ![bk] = left]
        /\ UNCHANGED prev
  /\ UNCHANGED <<ws, bk, vm, stocked>>

-----------------------------------------------------------------------------
(* Between two attempts. *)

\* ensure_workspace_running_local, by a job or the reconcile loop, and the guest
\* it boots.  Starting a VM needs the directory (validate_workspace_source);
\* create_vm, for a VM that has no definition, makes one.
Boot ==
  /\ pc = "idle"
  /\ vm => ws # None
  /\ vm' = TRUE
  /\ ws' = CASE ws = None -> "fresh" [] ws = "restored" -> "live" [] OTHER -> ws
  /\ UNCHANGED <<tmp, prev, pc, bk, result, stocked>>

\* upgrade_workspace_local recreates the VM, and the directory with it.
Upgrade ==
  /\ pc = "idle"
  /\ vm' = TRUE
  /\ ws' = IF ws = None THEN "fresh" ELSE ws
  /\ UNCHANGED <<tmp, prev, pc, bk, result, stocked>>

\* remove_workspace_local without the directory.
RemoveVm ==
  /\ pc = "idle"
  /\ vm
  /\ vm' = FALSE
  /\ UNCHANGED <<ws, tmp, prev, pc, bk, result, stocked>>

Restore ==
  \/ Recover \/ RemovePrevious \/ CleanTmp \/ ResticWrites \/ ResticEnds
  \/ MoveAside \/ Swap \/ SwapFails \/ Finish \/ StopsShort

Next ==
  \/ \E b \in Backups : Begin(b)
  \/ Restore
  \/ Boot \/ Upgrade \/ RemoveVm

Spec == Init /\ [][Next]_vars

-----------------------------------------------------------------------------
(* What a restore must never do. *)

\* Once a host holds a whole tree of the workspace, its directory is only missing
\* while the complete restored tree waits beside it: wherever an attempt stops,
\* the next one of that backup can put it in place.
MissingIsRecoverable ==
  stocked /\ ws = None => \E b \in Backups : tmp[b] = "restored"

HasLive     == ws = "live" \/ \E b \in Backups : prev[b] = "live"
HasRestored == ws = "restored" \/ \E b \in Backups : tmp[b] = "restored"

\* What the guest wrote is given up for nothing less than a complete restored
\* tree: a restore that fails, however often it is tried, interrupted and
\* tried again, keeps it in place or aside.
NonDestructive == [][HasLive => HasLive' \/ HasRestored']_vars

\* A restore that reports success has put the complete tree of its backup in
\* place and leaves nothing beside it.
RestoreDelivers ==
  [][result' = "ok" /\ result # "ok"
       => ws' = "restored" /\ tmp'[bk] = None /\ prev'[bk] = None]_vars

\* Why: what each stage has established, and what it is about to remove.
ToCommit   == pc \in {"stale", "aside", "swap"} => tmp[bk] = "restored"
Committed  == pc \in {"old", "finish"} => ws = "restored" /\ tmp[bk] = "empty"
CleanedUp  == pc = "finish" => prev[bk] = None
Cleaning   == pc = "clean" /\ ws = None => tmp[bk] # "restored"
Writing    == pc = "restic" => tmp[bk] \in {"empty", "part"}
Discarding == pc = "discard" => ws # None /\ (stocked => HasRestored)
WasStocked == HasLive \/ ws \in Whole => stocked

\* The inductive invariant of a restore.
SwapInv == /\ ToCommit /\ Committed /\ CleanedUp /\ Cleaning /\ Writing
           /\ Discarding /\ WasStocked /\ MissingIsRecoverable
=============================================================================
