--------------------------- MODULE MicroVmProofs ---------------------------
(***************************************************************************)
(* Theorems about MicroVm.  Those on snapshots allow everything that is    *)
(* done to a VM, those on stopping everything under the lock and messages  *)
(* without it; the refinement wants every operation under the lock and no  *)
(* restore of the workspace directory.                                     *)
(***************************************************************************)
EXTENDS MicroVm, TLAPS

(* What a step does to the operation of its thread. *)
OpsOK == op \in [Threads -> Ops]

LEMMA OpSteps ==
  ASSUME OpsOK, NEW t \in Threads
  PROVE  /\ \A pc \in Steps : Goto(t, pc) => OpsOK'
         /\ \A name \in JobNames, wanted \in BOOLEAN : Turns(t, name, wanted) => OpsOK'
         /\ op[t].wanted \in BOOLEAN
         /\ Ends(t) => OpsOK'
         /\ EndsOrStarts(t) => OpsOK'
         /\ Proceeds(t) => OpsOK'
<1>1. \A pc \in Steps : [op[t] EXCEPT !.pc = pc] \in Ops
  BY DEF OpsOK, Ops
<1>2. ASSUME NEW pc \in Steps, Goto(t, pc)
      PROVE  OpsOK'
  BY <1>1, <1>2 DEF OpsOK, Goto
<1>3. op[t].wanted \in BOOLEAN
  BY DEF OpsOK, Ops
<1>4. ASSUME NEW name \in JobNames, NEW wanted \in BOOLEAN, Turns(t, name, wanted)
      PROVE  OpsOK'
  BY <1>4 DEF OpsOK, Turns, Ops, Steps
<1>5. ASSUME Ends(t)
      PROVE  OpsOK'
  <2>1. Idle \in Ops
    BY DEF Idle, Ops, Steps
  <2> QED
    BY <1>5, <2>1 DEF OpsOK, Ends
<1>6. "start" \in Steps /\ "copy" \in Steps /\ "swap" \in Steps /\ "erase" \in Steps
  BY DEF Steps
<1>7. "create" \in JobNames
  BY DEF JobNames
<1> QED
  BY <1>2, <1>3, <1>4, <1>5, <1>6, <1>7 DEF EndsOrStarts, Proceeds

LEMMA ThreadsType ==
  ASSUME TypeOK, NEW t \in Threads, ThreadSteps(t)
  PROVE  TypeOK'
<1>1. OpsOK
  BY DEF TypeOK, OpsOK
<1>2. OpsOK'
  <2> USE <1>1, OpSteps
  <2>1. ASSUME NEW name \in IF t = "job" THEN Jobs ELSE Openings, NEW wanted \in BOOLEAN,
               Begin(t, name, wanted)
        PROVE  OpsOK'
    <3>1. name \in JobNames \cup OpeningNames
      BY <2>1, OperationsAreKnown
    <3>2. [name |-> name, pc |-> "look", wanted |-> wanted] \in Ops
      BY <3>1 DEF Ops, Steps
    <3> QED
      BY <2>1, <3>2 DEF Begin, OpsOK
  <2>2. CASE GivesUp(t) \/ LookToStart(t) \/ LookForMessage(t) \/ LookToPause(t) \/ LookToSuspend(t)
    BY <2>2 DEF GivesUp, LookToStart, LookForMessage, LookToPause, LookToSuspend, Steps, JobNames
  <2>3. CASE LookToBackup(t)
    <3>1. \A pc \in Steps, wanted \in BOOLEAN : [op[t] EXCEPT !.pc = pc, !.wanted = wanted] \in Ops
      BY DEF OpsOK, Ops
    <3>2. /\ (IF Defined /\ IsStarted THEN "kill" ELSE "copy") \in Steps
          /\ (op[t].wanted /\ Defined /\ IsRunning) \in BOOLEAN
      BY DEF Steps
    <3> QED
      BY <2>3, <3>1, <3>2 DEF LookToBackup, OpsOK
  <2>4. CASE LookToStop(t)
    BY <2>4 DEF LookToStop, Steps
  <2>5. CASE Boot(t) \/ Active(t) \/ Answers(t) \/ Resume(t) \/ MarkRunning(t)
    BY <2>5 DEF Boot, Active, Answers, Resume, MarkRunning, Steps
  <2>6. CASE Pause(t) \/ MarkPaused(t) \/ SnapDir(t) \/ Snapshot(t) \/ MarkSuspended(t)
    BY <2>6 DEF Pause, MarkPaused, SnapDir, Snapshot, MarkSuspended, Steps
  <2>7. CASE Kill(t) \/ Gone(t) \/ DropSnap(t) \/ MarkStopped(t)
    BY <2>7 DEF Kill, Gone, DropSnap, MarkStopped, Steps
  <2>8. CASE Copy(t) \/ Swap(t) \/ Erase(t) \/ Define(t) \/ Create(t)
    BY <2>8 DEF Copy, Swap, Erase, Define, Create, Steps, JobNames
  <2> QED
    BY <2>1, <2>2, <2>3, <2>4, <2>5, <2>6, <2>7, <2>8 DEF ThreadSteps
<1>3. /\ state' \in {"missing", "blank", "stopped", "running", "paused", "suspended"}
      /\ unit' \in {"inactive", "active", "stopping", "retrying", "failed"}
      /\ runner' \in {"none", "starting", "preparing", "up", "orphan"}
      /\ restores' \in BOOLEAN
      /\ vmm' \in {"none", "running", "paused"}
      /\ snap' \in {"none", "part", "whole"}
      /\ current' \in BOOLEAN
      /\ spoiled' \in BOOLEAN
  BY DEF TypeOK, machine, process, ThreadSteps, Begin, GivesUp, LookToStart, LookForMessage,
     LookToPause, LookToSuspend, LookToBackup, LookToStop, Boot, Active, Answers, Resume,
     MarkRunning, Pause, MarkPaused, SnapDir, Snapshot, MarkSuspended, Kill, Gone, DropSnap,
     MarkStopped, Copy, Swap, Erase, Define, Create, Writes
<1> QED
  BY <1>2, <1>3 DEF TypeOK, OpsOK

LEMMA HostType ==
  ASSUME TypeOK, HostSteps
  PROVE  TypeOK'
<1> USE DEF TypeOK, machine
<1>1. CASE RunnerStarts \/ RunnerIsReady \/ GuestStarts \/ Retry
  BY <1>1 DEF RunnerStarts, RunnerIsReady, GuestStarts, Retry, RunnerEnds
<1>2. CASE RunnerFails \/ GuestEnds \/ RunnerStops \/ RunnerIsKilled
  BY <1>2 DEF RunnerFails, GuestEnds, RunnerStops, RunnerIsKilled, CleansUp, RunnerEnds
<1>3. CASE HostReboots
  BY <1>3 DEF HostReboots, Idle, Ops, Steps, Threads
<1> QED
  BY <1>1, <1>2, <1>3 DEF HostSteps

(* Every variable keeps to its values, whatever is done to the VM. *)
THEOREM VmTypeCorrect == Spec => []TypeOK
<1>1. Init => TypeOK
  <2>1. Idle \in Ops
    BY DEF Idle, Ops, Steps
  <2> QED
    BY <2>1 DEF Init, TypeOK
<1>2. TypeOK /\ [Next]_vars => TypeOK'
  BY ThreadsType, HostType DEF Next, vars, TypeOK
<1> QED
  BY <1>1, <1>2, PTL DEF Spec

-----------------------------------------------------------------------------
(* Where a step takes its thread, and that it takes no other. *)
LEMMA Moves ==
  ASSUME OpsOK, NEW t \in Threads
  PROVE  /\ \A pc \in Steps : Goto(t, pc) => op'[t].pc = pc /\ op'[t].name = op[t].name
         /\ \A name, wanted : Turns(t, name, wanted) => op'[t].pc = "look" /\ op'[t].name = name
         /\ Ends(t) => op'[t].pc = "idle" /\ op'[t].name = "none"
  BY DEF OpsOK, Ops, Goto, Turns, Ends, Idle

LEMMA OthersStayPut ==
  ASSUME OpsOK, NEW t \in Threads, NEW u \in Threads \ {t}, ThreadSteps(t)
  PROVE  op'[u] = op[u]
<1>1. /\ \A pc : Goto(t, pc) => op'[u] = op[u]
      /\ \A name, wanted : Turns(t, name, wanted) => op'[u] = op[u]
      /\ Ends(t) \/ EndsOrStarts(t) \/ Proceeds(t) => op'[u] = op[u]
      /\ \A name, wanted : Begin(t, name, wanted) => op'[u] = op[u]
      /\ LookToBackup(t) => op'[u] = op[u]
  BY DEF OpsOK, Goto, Turns, Ends, EndsOrStarts, Proceeds, Begin, LookToBackup
<1>2. CASE GivesUp(t) \/ LookToStart(t) \/ LookForMessage(t) \/ LookToPause(t) \/ LookToSuspend(t)
           \/ LookToStop(t)
  BY <1>1, <1>2 DEF GivesUp, LookToStart, LookForMessage, LookToPause, LookToSuspend, LookToStop
<1>3. CASE Boot(t) \/ Active(t) \/ Answers(t) \/ Resume(t) \/ MarkRunning(t) \/ Pause(t)
           \/ MarkPaused(t) \/ SnapDir(t) \/ Snapshot(t) \/ MarkSuspended(t)
  BY <1>1, <1>3 DEF Boot, Active, Answers, Resume, MarkRunning, Pause, MarkPaused, SnapDir, Snapshot,
     MarkSuspended
<1>4. CASE Kill(t) \/ Gone(t) \/ DropSnap(t) \/ MarkStopped(t) \/ Copy(t) \/ Swap(t) \/ Erase(t)
           \/ Define(t) \/ Create(t)
  BY <1>1, <1>4 DEF Kill, Gone, DropSnap, MarkStopped, Copy, Swap, Erase, Define, Create
<1> QED
  BY <1>1, <1>2, <1>3, <1>4 DEF ThreadSteps

-----------------------------------------------------------------------------
(* Snapshots, whatever is done to the VM, with the lock or without it: a    *)
(* guest has a runner, and a runner has a unit.                             *)
RunnerInv ==
  /\ vmm # "none" => runner \in {"up", "orphan"}
  /\ runner # "none" => unit \in {"active", "stopping"}

\* Where the thread that does not take the lock may be.
OpeningInv ==
  /\ op["open"].pc \in {"idle", "look", "boot", "active", "booted", "ready", "resume", "markrunning"}
  /\ op["open"].name \in OpeningNames \cup {"none"}

(* What is done without the lock. *)
LEMMA OpeningsOnly ==
  ASSUME OpeningInv, ThreadSteps("open")
  PROVE  \/ \E name \in Openings, wanted \in BOOLEAN : Begin("open", name, wanted)
         \/ GivesUp("open") \/ LookToStart("open") \/ LookForMessage("open") \/ Boot("open")
         \/ Active("open") \/ Answers("open") \/ Resume("open") \/ MarkRunning("open")
<1>1. ~(LookToPause("open") \/ LookToSuspend("open") \/ LookToBackup("open") \/ LookToStop("open"))
  BY DEF OpeningInv, OpeningNames, LookToPause, LookToSuspend, LookToBackup, LookToStop, Does
<1>2. ~(Pause("open") \/ MarkPaused("open") \/ SnapDir("open") \/ Snapshot("open")
        \/ MarkSuspended("open") \/ Kill("open") \/ Gone("open") \/ DropSnap("open")
        \/ MarkStopped("open") \/ Copy("open") \/ Swap("open") \/ Erase("open")
        \/ Define("open") \/ Create("open"))
  BY DEF OpeningInv, Pause, MarkPaused, SnapDir, Snapshot, MarkSuspended, Kill, Gone, DropSnap,
     MarkStopped, Copy, Swap, Erase, Define, Create, At
<1> QED
  BY <1>1, <1>2 DEF ThreadSteps

LEMMA OpeningStays ==
  ASSUME TypeOK, OpeningInv, ThreadSteps("open")
  PROVE  OpeningInv'
<1>1. OpsOK /\ "open" \in Threads
  BY DEF TypeOK, OpsOK, Threads
<1>2. {"ready", "resume", "boot", "active", "booted", "markrunning"} \subseteq Steps
  BY DEF Steps
<1>3. CASE \E name \in Openings, wanted \in BOOLEAN : Begin("open", name, wanted)
  BY <1>1, <1>3, OperationsAreKnown DEF Begin, OpsOK, OpeningInv
<1>4. CASE GivesUp("open") \/ LookToStart("open") \/ LookForMessage("open")
  BY <1>1, <1>2, <1>4, Moves DEF GivesUp, LookToStart, LookForMessage, OpeningInv
<1>5. CASE Boot("open") \/ Active("open") \/ Answers("open") \/ Resume("open") \/ MarkRunning("open")
  BY <1>1, <1>2, <1>5, Moves DEF Boot, Active, Answers, Resume, MarkRunning, OpeningInv
<1> QED
  BY <1>3, <1>4, <1>5, OpeningsOnly

LEMMA RunnerThread ==
  ASSUME TypeOK, RunnerInv, NEW t \in Threads, ThreadSteps(t)
  PROVE  RunnerInv'
<1> USE DEF RunnerInv, TypeOK
<1>1. CASE Boot(t) \/ Kill(t) \/ Erase(t)
  BY <1>1 DEF Boot, Kill, Erase, machine
<1>2. CASE Resume(t) \/ Pause(t)
  BY <1>2 DEF Resume, Pause, Reaches, machine
<1>3. CASE ~(Boot(t) \/ Kill(t) \/ Erase(t) \/ Resume(t) \/ Pause(t))
  <2>1. UNCHANGED process
    BY <1>3 DEF ThreadSteps, Begin, GivesUp, LookToStart, LookForMessage, LookToPause, LookToSuspend,
       LookToBackup, LookToStop, Active, Answers, MarkRunning, MarkPaused, SnapDir, Snapshot,
       MarkSuspended, Gone, DropSnap, MarkStopped, Copy, Swap, Define, Create
  <2> QED
    BY <2>1 DEF process
<1> QED
  BY <1>1, <1>2, <1>3

LEMMA RunnerHost ==
  ASSUME TypeOK, RunnerInv, HostSteps
  PROVE  RunnerInv'
<1> USE DEF TypeOK, RunnerInv, machine
<1>1. CASE RunnerStarts \/ RunnerIsReady \/ GuestStarts \/ Retry
  BY <1>1 DEF RunnerStarts, RunnerIsReady, GuestStarts, Retry, RunnerEnds
<1>2. CASE RunnerFails \/ GuestEnds \/ RunnerStops \/ RunnerIsKilled \/ HostReboots
  BY <1>2 DEF RunnerFails, GuestEnds, RunnerStops, RunnerIsKilled, RunnerEnds, HostReboots
<1> QED
  BY <1>1, <1>2 DEF HostSteps

LEMMA FrozenHost ==
  ASSUME TypeOK, RunnerInv, FrozenInv, HostSteps
  PROVE  FrozenInv'
<1> USE DEF TypeOK, RunnerInv, FrozenInv, Waking, At, machine
<1>1. CASE RunnerStarts \/ RunnerIsReady \/ GuestStarts \/ Retry
  BY <1>1 DEF RunnerStarts, RunnerIsReady, GuestStarts, Retry, RunnerEnds
<1>2. CASE RunnerFails \/ GuestEnds \/ RunnerStops \/ RunnerIsKilled
  BY <1>2 DEF RunnerFails, GuestEnds, RunnerStops, RunnerIsKilled, CleansUp, RunnerEnds
<1>3. CASE HostReboots
  BY <1>3 DEF HostReboots, Idle, Threads
<1> QED
  BY <1>1, <1>2, <1>3 DEF HostSteps

LEMMA FrozenJob ==
  ASSUME TypeOK, RunnerInv, FrozenInv, ThreadSteps("job")
  PROVE  FrozenInv'
<1>1. OpsOK /\ "job" \in Threads
  BY DEF TypeOK, OpsOK, Threads
<1>2. /\ \A pc \in Steps : Goto("job", pc) => op'["job"].pc = pc
      /\ \A name, wanted : Turns("job", name, wanted) => op'["job"].pc = "look"
      /\ Ends("job") => op'["job"].pc = "idle"
  BY <1>1, Moves
<1>3. Proceeds("job") \/ EndsOrStarts("job")
        => op'["job"].pc \in {"idle", "look", "start", "copy", "swap", "erase"}
  BY <1>2 DEF Proceeds, EndsOrStarts, Steps
<1>4. CASE \/ \E name \in Jobs, wanted \in BOOLEAN : Begin("job", name, wanted)
           \/ GivesUp("job") \/ LookForMessage("job") \/ LookToPause("job") \/ LookToSuspend("job")
           \/ LookToStart("job") \/ LookToBackup("job") \/ LookToStop("job")
           \/ Active("job") \/ Answers("job") \/ Gone("job") \/ Copy("job")
  <2>0. UNCHANGED <<machine, process>>
    BY <1>4 DEF Begin, GivesUp, LookToStart, LookForMessage, LookToPause, LookToSuspend, LookToBackup,
       LookToStop, Active, Answers, Gone, Copy
  <2>1. FrozenInv' <=> \/ spoiled
                       \/ /\ (op'["job"].pc = "marksuspended" =>
                                  /\ snap = "whole" /\ current
                                  /\ (vmm = "paused" \/ unit \in {"inactive", "failed"}))
                          /\ (op'["job"].pc = "resume" => state # "suspended")
    BY <2>0 DEF FrozenInv, Waking, At, machine, process
  <2>2. CASE \E name \in Jobs, wanted \in BOOLEAN : Begin("job", name, wanted)
    BY <1>1, <2>1, <2>2 DEF Begin, OpsOK
  <2>3. CASE GivesUp("job") \/ LookForMessage("job") \/ LookToPause("job") \/ LookToSuspend("job")
    BY <1>2, <2>1, <2>3 DEF GivesUp, LookForMessage, LookToPause, LookToSuspend, Steps
  <2>4. CASE LookToStart("job")
    <3>1. Defined /\ VmStatus = "paused" => state # "suspended"
      BY DEF VmStatus, TypeOK
    <3> QED
      BY <1>2, <2>1, <2>4, <3>1 DEF LookToStart, Steps
  <2>5. CASE LookToBackup("job")
    BY <1>1, <2>1, <2>5 DEF LookToBackup, OpsOK, Ops
  <2>6. CASE LookToStop("job")
    BY <1>2, <1>3, <2>1, <2>6 DEF LookToStop, Steps
  <2>7. CASE Active("job") \/ Answers("job") \/ Gone("job") \/ Copy("job")
    BY <1>2, <1>3, <2>1, <2>7 DEF Active, Answers, Gone, Copy, Steps
  <2> QED
    BY <1>4, <2>2, <2>3, <2>4, <2>5, <2>6, <2>7
<1>5. CASE Boot("job") \/ Kill("job")
  <2>1. op'["job"].pc \in {"active", "gone"}
    BY <1>2, <1>5 DEF Boot, Kill, Steps
  <2> QED
    BY <1>5, <2>1 DEF Boot, Kill, FrozenInv, Waking, RunnerInv, TypeOK, At, machine
<1>6. CASE Resume("job")
  <2>1. op'["job"].pc = "markrunning"
    BY <1>2, <1>6 DEF Resume, Steps
  <2> QED
    BY <1>6, <2>1 DEF Resume, Reaches, FrozenInv, Waking, TypeOK, At
<1>7. CASE Pause("job")
  <2>1. op'["job"].pc \in {"markpaused", "snapdir"}
    BY <1>2, <1>7 DEF Pause, Steps
  <2> QED
    BY <1>7, <2>1 DEF Pause, Reaches, FrozenInv, Waking, At, machine
<1>8. CASE MarkRunning("job") \/ MarkPaused("job")
  <2>1. op'["job"].pc = "idle"
    BY <1>2, <1>8 DEF MarkRunning, MarkPaused
  <2> QED
    BY <1>8, <2>1 DEF MarkRunning, MarkPaused, Writes, FrozenInv, Waking, At, process
<1>9. CASE SnapDir("job") \/ DropSnap("job")
  <2>1. op'["job"].pc \in {"idle", "snapshot", "markstopped"}
    BY <1>2, <1>9 DEF SnapDir, DropSnap, Steps
  <2> QED
    BY <1>9, <2>1 DEF SnapDir, DropSnap, FrozenInv, Waking, At, process
<1>10. CASE Snapshot("job")
  <2>1. op'["job"].pc = "marksuspended"
    BY <1>2, <1>10 DEF Snapshot, Steps
  <2> QED
    BY <1>10, <2>1 DEF Snapshot, FrozenInv, Waking, At, process
<1>11. CASE MarkSuspended("job")
  <2>1. op'["job"].pc = "kill"
    BY <1>2, <1>11 DEF MarkSuspended, Steps
  <2>2. spoiled \/ (vmm # "running" /\ (runner = "up" => vmm = "paused") /\ current)
    BY <1>11 DEF MarkSuspended, At, FrozenInv, RunnerInv
  <2> QED
    BY <1>11, <2>1, <2>2 DEF MarkSuspended, Writes, FrozenInv, Waking, At, process
<1>12. CASE MarkStopped("job") \/ Create("job") \/ Define("job") \/ Erase("job")
  <2>1. op'["job"].pc \notin {"marksuspended", "resume"}
    BY <1>2, <1>3, <1>12 DEF MarkStopped, Create, Define, Erase, Steps
  <2>2. CASE Erase("job")
    BY <2>1, <2>2 DEF Erase, FrozenInv, Waking, At
  <2>3. CASE MarkStopped("job") \/ Create("job") \/ Define("job")
    BY <2>1, <2>3 DEF MarkStopped, Create, Define, Writes, FrozenInv, Waking, At, process
  <2> QED
    BY <1>12, <2>2, <2>3
<1>13. CASE Swap("job")
  <2>1. op'["job"].pc \in {"idle", "look", "start"}
    BY <1>2, <1>13 DEF Swap, EndsOrStarts, Steps
  <2> QED
    BY <1>13, <2>1 DEF Swap, FrozenInv, Waking, At, process
<1> QED
  BY <1>4, <1>5, <1>6, <1>7, <1>8, <1>9, <1>10, <1>11, <1>12, <1>13 DEF ThreadSteps

(* Who does not take the lock wakes or boots a guest that is suspended only *)
(* by spoiling its snapshot.                                                *)
LEMMA FrozenOpen ==
  ASSUME TypeOK, RunnerInv, OpeningInv, FrozenInv, ThreadSteps("open")
  PROVE  FrozenInv'
<1>1. op'["job"] = op["job"]
  BY OthersStayPut DEF TypeOK, OpsOK, Threads
<1>2. CASE \/ \E name \in Openings, wanted \in BOOLEAN : Begin("open", name, wanted)
           \/ GivesUp("open") \/ LookToStart("open") \/ LookForMessage("open") \/ Active("open")
           \/ Answers("open")
  <2>1. UNCHANGED <<machine, process>>
    BY <1>2 DEF Begin, GivesUp, LookToStart, LookForMessage, Active, Answers
  <2> QED
    BY <1>1, <2>1 DEF FrozenInv, Waking, At, machine, process
<1>3. CASE Boot("open")
  BY <1>1, <1>3 DEF Boot, FrozenInv, Waking, RunnerInv, TypeOK, At
<1>4. CASE Resume("open")
  BY <1>1, <1>4 DEF Resume, FrozenInv, Waking, At
<1>5. CASE MarkRunning("open")
  BY <1>1, <1>5 DEF MarkRunning, Writes, FrozenInv, Waking, At, process
<1> QED
  BY <1>2, <1>3, <1>4, <1>5, OpeningsOnly

LEMMA FrozenInvariant == Spec => [](RunnerInv /\ OpeningInv /\ FrozenInv)
<1>1. Init => RunnerInv /\ OpeningInv /\ FrozenInv
  BY DEF Init, RunnerInv, OpeningInv, FrozenInv, Waking, At, Idle, Threads
<1>2. TypeOK /\ RunnerInv /\ OpeningInv /\ FrozenInv /\ [Next]_vars
        => RunnerInv' /\ OpeningInv' /\ FrozenInv'
  <2> SUFFICES ASSUME TypeOK, RunnerInv, OpeningInv, FrozenInv, [Next]_vars
               PROVE  RunnerInv' /\ OpeningInv' /\ FrozenInv'
    OBVIOUS
  <2>1. CASE ThreadSteps("job")
    <3>1. OpeningInv'
      BY <2>1, OthersStayPut DEF OpeningInv, TypeOK, OpsOK, Threads
    <3> QED
      BY <2>1, <3>1, RunnerThread, FrozenJob DEF Threads
  <2>2. CASE ThreadSteps("open")
    BY <2>2, RunnerThread, OpeningStays, FrozenOpen DEF Threads
  <2>3. CASE HostSteps
    <3>1. OpeningInv'
      BY <2>3 DEF OpeningInv, HostSteps, RunnerStarts, RunnerIsReady, GuestStarts, RunnerFails,
         GuestEnds, RunnerStops, RunnerIsKilled, Retry, HostReboots, RunnerEnds, Idle, Threads
    <3> QED
      BY <2>3, <3>1, RunnerHost, FrozenHost
  <2>4. CASE UNCHANGED vars
    BY <2>4 DEF vars, RunnerInv, OpeningInv, FrozenInv, Waking, At
  <2> QED
    BY <2>1, <2>2, <2>3, <2>4 DEF Next, Threads
<1> QED
  BY <1>1, <1>2, VmTypeCorrect, PTL DEF Spec

(* While the state file says "suspended", the guest is frozen and its       *)
(* snapshot current, unless it has been spoiled without the lock or by a    *)
(* restore.                                                                 *)
THEOREM SuspendedIsFrozen == Spec => []FrozenInv
BY FrozenInvariant, PTL

(* A guest is only resumed on the directory it was suspended with, unless   *)
(* its snapshot has been spoiled without the lock or by a restore.          *)
THEOREM ResumedOnItsDirectory == Spec => ResumesCurrent
<1> DEFINE Resumes == restores /\ vmm = "none" /\ vmm' = "running" => current \/ spoiled
<1>1. TypeOK /\ OpeningInv /\ FrozenInv /\ [Next]_vars => [Resumes]_vars
  <2> SUFFICES ASSUME TypeOK, OpeningInv, FrozenInv, [Next]_vars, vmm = "none", vmm' = "running"
               PROVE  Resumes
    BY DEF vars
  <2>1. ASSUME NEW t \in Threads
        PROVE  ~ThreadSteps(t)
    BY DEF ThreadSteps, Begin, GivesUp, LookToStart, LookForMessage, LookToPause, LookToSuspend,
       LookToBackup, LookToStop, Boot, Active, Answers, Resume, MarkRunning, Pause, MarkPaused, SnapDir,
       Snapshot, MarkSuspended, Kill, Gone, DropSnap, MarkStopped, Copy, Swap, Erase, Define, Create,
       process
  <2>2. GuestStarts
    BY <2>1 DEF Next, vars, HostSteps, RunnerStarts, RunnerIsReady, RunnerFails, GuestEnds,
       RunnerStops, RunnerIsKilled, Retry, HostReboots, RunnerEnds
  <2> QED
    BY <2>2 DEF GuestStarts, FrozenInv, Waking
<1> QED
  BY <1>1, VmTypeCorrect, FrozenInvariant, PTL DEF Spec, ResumesCurrent

-----------------------------------------------------------------------------
(* The inductive invariant of stopping, when only messages come without the *)
(* lock: a guest has a runner that is up, a runner has a unit that is       *)
(* active or stopping, one that is up has written the state file, and       *)
(* nothing writes "stopped" under one that is to resume; from the moment a  *)
(* job has waited for the unit until its machine is defined again the unit  *)
(* is gone, and so it is while there is no machine.                         *)
UnitGone == unit \in {"inactive", "failed"}

ProcessInv ==
  /\ vmm # "none" => runner = "up"
  /\ runner # "none" => runner # "orphan" /\ unit \in {"active", "stopping"}
  /\ runner = "up" => state \in {"running", "paused", "suspended"}
  /\ restores /\ runner = "preparing" => state \in {"running", "paused", "suspended"}
  /\ ~Defined => UnitGone
  /\ op["job"].pc \in {"dropsnap", "markstopped", "erase", "define", "create"} => UnitGone

OpenInv == op["open"].pc \in {"idle", "look", "resume", "markrunning"}
           /\ op["open"].name \in {"none", "message"}

LEMMA ProcessHost ==
  ASSUME TypeOK, ProcessInv, HostSteps
  PROVE  ProcessInv'
<1> USE DEF TypeOK, ProcessInv, UnitGone, Defined, machine
<1>1. CASE RunnerStarts \/ RunnerIsReady \/ GuestStarts \/ Retry
  BY <1>1 DEF RunnerStarts, RunnerIsReady, GuestStarts, Retry, RunnerEnds
<1>2. CASE RunnerFails \/ GuestEnds \/ RunnerStops \/ RunnerIsKilled
  BY <1>2 DEF RunnerFails, GuestEnds, RunnerStops, RunnerIsKilled, CleansUp, RunnerEnds
<1>3. CASE HostReboots
  BY <1>3 DEF HostReboots, Idle, Threads
<1> QED
  BY <1>1, <1>2, <1>3 DEF HostSteps

(* What a message may do. *)
LEMMA MessagesOnly ==
  ASSUME OpenInv, Openings \subseteq {"message"}, ThreadSteps("open")
  PROVE  \/ \E name \in Openings, wanted \in BOOLEAN : Begin("open", name, wanted)
         \/ GivesUp("open") \/ LookForMessage("open") \/ Resume("open") \/ MarkRunning("open")
<1>1. ~(LookToStart("open") \/ LookToPause("open") \/ LookToSuspend("open") \/ LookToBackup("open")
        \/ LookToStop("open") \/ Boot("open") \/ Active("open") \/ Answers("open"))
  BY DEF OpenInv, LookToStart, LookToPause, LookToSuspend, LookToBackup, LookToStop, Boot, Active,
     Answers, At, Does
<1>2. ~(Pause("open") \/ MarkPaused("open") \/ SnapDir("open") \/ Snapshot("open")
        \/ MarkSuspended("open") \/ Kill("open") \/ Gone("open") \/ DropSnap("open")
        \/ MarkStopped("open") \/ Copy("open") \/ Swap("open") \/ Erase("open")
        \/ Define("open") \/ Create("open"))
  BY DEF OpenInv, Pause, MarkPaused, SnapDir, Snapshot, MarkSuspended, Kill, Gone, DropSnap,
     MarkStopped, Copy, Swap, Erase, Define, Create, At
<1> QED
  BY <1>1, <1>2 DEF ThreadSteps

LEMMA ProcessOpen ==
  ASSUME TypeOK, ProcessInv, OpenInv, Openings \subseteq {"message"}, ThreadSteps("open")
  PROVE  ProcessInv' /\ OpenInv'
<1>1. OpsOK /\ "open" \in Threads /\ op'["job"] = op["job"]
  BY OthersStayPut DEF TypeOK, OpsOK, Threads
<1>2. CASE \E name \in Openings, wanted \in BOOLEAN : Begin("open", name, wanted)
  BY <1>1, <1>2 DEF Begin, OpsOK, ProcessInv, OpenInv, UnitGone, Defined, machine, process
<1>3. CASE GivesUp("open") \/ LookForMessage("open") \/ Resume("open") \/ MarkRunning("open")
  <2>1. {"resume", "markrunning"} \subseteq Steps
    BY DEF Steps
  <2> QED
    BY <1>1, <1>3, <2>1, Moves DEF GivesUp, LookForMessage, Resume, MarkRunning, Reaches, Writes,
       ProcessInv, OpenInv, UnitGone, Defined, machine, process
<1> QED
  BY <1>2, <1>3, MessagesOnly

LEMMA ProcessJob ==
  ASSUME TypeOK, ProcessInv, OpenInv, ThreadSteps("job")
  PROVE  /\ ProcessInv'
         /\ op'["job"].pc \in {"copy", "swap"} => op["job"].pc \in {"copy", "swap"} \/ (vmm = "none" /\ ~Waking)
<1>1. OpsOK /\ "job" \in Threads
  BY DEF TypeOK, OpsOK, Threads
<1>2. CASE \E name \in Jobs, wanted \in BOOLEAN : Begin("job", name, wanted)
  BY <1>1, <1>2 DEF Begin, OpsOK, ProcessInv, UnitGone, Defined, machine, process
<1>3. CASE GivesUp("job") \/ LookToStart("job") \/ LookForMessage("job") \/ LookToPause("job")
           \/ LookToSuspend("job") \/ Active("job") \/ Answers("job")
  <2>1. {"ready", "resume", "boot", "pause", "snapdir", "booted", "markrunning"} \subseteq Steps
    BY DEF Steps
  <2>2. op'["job"].pc \in {"idle", "look", "ready", "resume", "boot", "pause", "snapdir", "booted",
                           "markrunning"}
    <3>1. CASE GivesUp("job") \/ LookToPause("job") \/ LookToSuspend("job") \/ Active("job")
               \/ Answers("job")
      BY <1>1, <2>1, <3>1, Moves DEF GivesUp, LookToPause, LookToSuspend, Active, Answers
    <3>2. CASE LookToStart("job") \/ LookForMessage("job")
      BY <1>1, <2>1, <3>2, Moves DEF LookToStart, LookForMessage
    <3> QED
      BY <1>3, <3>1, <3>2
  <2>3. UNCHANGED <<machine, process>>
    BY <1>3 DEF GivesUp, LookToStart, LookForMessage, LookToPause, LookToSuspend, Active, Answers
  <2> QED
    BY <2>2, <2>3 DEF ProcessInv, UnitGone, Defined, machine, process
<1>4. vmm # "none" \/ Waking => Defined /\ IsStarted
  BY DEF Waking, ProcessInv, TypeOK, Defined, IsStarted, IsRunning, VmStatus
<1>5. CASE LookToBackup("job")
  <2>1. op'["job"].pc = IF Defined /\ IsStarted THEN "kill" ELSE "copy"
    BY <1>1, <1>5 DEF LookToBackup, OpsOK, Ops
  <2> QED
    BY <1>4, <1>5, <2>1 DEF LookToBackup, ProcessInv, UnitGone, Defined, machine, process
<1>6. {"kill", "copy", "swap", "erase"} \subseteq Steps
  BY DEF Steps
<1>7. CASE LookToStop("job")
  <2>1. CASE StopsFirst("job")
    BY <1>1, <1>6, <1>7, <2>1, Moves DEF LookToStop, ProcessInv, UnitGone, Defined, machine, process
  <2>2. CASE ~StopsFirst("job") /\ Does("job", {"restore"})
    <3>1. Goto("job", "swap")
      BY <1>7, <2>2 DEF LookToStop, Proceeds, Does
    <3>2. vmm = "none" /\ ~Waking
      BY <1>4, <2>2 DEF StopsFirst
    <3> QED
      BY <1>1, <1>6, <1>7, <3>1, <3>2, Moves DEF LookToStop, ProcessInv, UnitGone, Defined, machine,
         process
  <2>3. CASE ~StopsFirst("job") /\ Does("job", {"remove", "create"})
    <3>1. Goto("job", "erase")
      BY <1>7, <2>3 DEF LookToStop, Proceeds, Does
    <3>2. UnitGone
      BY <2>3 DEF StopsFirst, ProcessInv, Defined
    <3> QED
      BY <1>1, <1>6, <1>7, <3>1, <3>2, Moves DEF LookToStop, ProcessInv, UnitGone, Defined, machine,
         process
  <2>4. CASE ~StopsFirst("job") /\ Does("job", {"stop", "upgrade"})
    <3>1. Ends("job") \/ Turns("job", "create", op["job"].wanted)
      BY <1>7, <2>4 DEF LookToStop, Proceeds, Does
    <3> QED
      BY <1>1, <1>7, <3>1, Moves DEF LookToStop, ProcessInv, UnitGone, Defined, machine, process
  <2> QED
    BY <1>7, <2>1, <2>2, <2>3, <2>4 DEF LookToStop, Does
<1>8. CASE Boot("job") \/ Resume("job") \/ MarkRunning("job")
  <2>1. {"active", "markrunning"} \subseteq Steps
    BY DEF Steps
  <2> QED
    BY <1>1, <1>8, <2>1, Moves DEF Boot, Resume, MarkRunning, Reaches, Writes, TypeOK, ProcessInv,
       UnitGone, Defined, machine, process
<1>9. CASE Pause("job") \/ MarkPaused("job") \/ SnapDir("job") \/ Snapshot("job") \/ MarkSuspended("job")
  <2>1. {"markpaused", "snapdir", "snapshot", "marksuspended", "kill"} \subseteq Steps
    BY DEF Steps
  <2> QED
    BY <1>1, <1>9, <2>1, Moves DEF Pause, MarkPaused, SnapDir, Snapshot, MarkSuspended, Reaches, Writes,
       ProcessInv, UnitGone, Defined, machine, process
<1>10. CASE Kill("job") \/ Gone("job") \/ DropSnap("job")
  <2>1. {"gone", "dropsnap", "markstopped"} \subseteq Steps
    BY DEF Steps
  <2>2. CASE Kill("job")
    <3>1. op'["job"].pc = "gone"
      BY <1>1, <2>1, <2>2, Moves DEF Kill
    <3> QED
      BY <2>2, <3>1 DEF Kill, ProcessInv, UnitGone, Defined, machine
  <2>3. CASE Gone("job") \/ DropSnap("job")
    <3>1. UnitGone
      BY <2>3 DEF Gone, DropSnap, At, ProcessInv, UnitGone
    <3>2. op'["job"].pc \in {"idle", "dropsnap", "markstopped"}
      BY <1>1, <2>1, <2>3, Moves DEF Gone, DropSnap
    <3> QED
      BY <2>3, <3>1, <3>2 DEF Gone, DropSnap, ProcessInv, UnitGone, Defined, machine, process
  <2> QED
    BY <1>10, <2>2, <2>3
<1>11. CASE MarkStopped("job")
  <2>1. UnitGone /\ runner = "none" /\ vmm = "none"
    BY <1>11 DEF MarkStopped, At, ProcessInv, UnitGone
  <2> QED
    BY <1>11, <2>1 DEF MarkStopped, Writes, Waking, ProcessInv, UnitGone, Defined, process
<1>12. CASE Copy("job") \/ Swap("job")
  <2>1. "start" \in Steps
    BY DEF Steps
  <2>2. op'["job"].pc \in {"idle", "look", "start"}
    BY <1>1, <1>12, <2>1, Moves DEF Copy, Swap, EndsOrStarts
  <2>3. UNCHANGED <<state, process>>
    BY <1>12 DEF Copy, Swap, machine
  <2> QED
    BY <2>2, <2>3 DEF ProcessInv, UnitGone, Defined, process
<1>13. CASE Erase("job") \/ Define("job") \/ Create("job")
  <2>1. UnitGone /\ runner = "none" /\ vmm = "none"
    BY <1>13 DEF Erase, Define, Create, At, ProcessInv, UnitGone
  <2>2. {"define", "create", "start"} \subseteq Steps
    BY DEF Steps
  <2>3. op'["job"].pc \in {"idle", "define", "create", "start"}
    BY <1>1, <1>13, <2>2, Moves DEF Erase, Define, Create, EndsOrStarts
  <2> QED
    BY <1>13, <2>1, <2>3 DEF Erase, Define, Create, ProcessInv, UnitGone, Defined, process
<1> QED
  BY <1>2, <1>3, <1>5, <1>7, <1>8, <1>9, <1>10, <1>11, <1>12, <1>13 DEF ThreadSteps

LEMMA ProcessInvariant ==
  ASSUME Openings \subseteq {"message"}
  PROVE  Spec => [](TypeOK /\ ProcessInv /\ OpenInv)
<1>1. Init => ProcessInv /\ OpenInv
  BY DEF Init, ProcessInv, OpenInv, UnitGone, Defined, Idle, Threads
<1>2. TypeOK /\ ProcessInv /\ OpenInv /\ [Next]_vars => ProcessInv' /\ OpenInv'
  <2> SUFFICES ASSUME TypeOK, ProcessInv, OpenInv, [Next]_vars
               PROVE  ProcessInv' /\ OpenInv'
    OBVIOUS
  <2>1. CASE ThreadSteps("job")
    BY <2>1, ProcessJob, OthersStayPut DEF OpenInv, TypeOK, OpsOK, Threads
  <2>2. CASE ThreadSteps("open")
    BY <2>2, ProcessOpen
  <2>3. CASE HostSteps
    <3>1. OpenInv'
      BY <2>3 DEF OpenInv, HostSteps, RunnerStarts, RunnerIsReady, GuestStarts,
         RunnerFails, GuestEnds, RunnerStops, RunnerIsKilled, Retry, HostReboots, RunnerEnds, Idle,
         Threads
    <3> QED
      BY <2>3, <3>1, ProcessHost
  <2>4. CASE UNCHANGED vars
    BY <2>4 DEF vars, ProcessInv, OpenInv, UnitGone, Defined
  <2> QED
    BY <2>1, <2>2, <2>3, <2>4 DEF Next, Threads
<1> QED
  BY <1>1, <1>2, VmTypeCorrect, PTL DEF Spec

(* The unit of a VM that a job has stopped is gone, with all it ran, when   *)
(* the job goes on to the files of the machine, and no restart is pending.  *)
THEOREM StopsAreComplete ==
  ASSUME Openings \subseteq {"message"}
  PROVE  Spec => []StoppedIsGone
<1>1. ProcessInv => StoppedIsGone
  BY DEF ProcessInv, UnitGone, StoppedIsGone, At
<1> QED
  BY <1>1, ProcessInvariant, PTL

(* A backup or a restore finds no guest, running, paused or about to be     *)
(* resumed, on the workspace directory when it turns to it.                 *)
THEOREM DirectoryIsQuiet ==
  ASSUME Openings \subseteq {"message"}
  PROVE  Spec => BeginsQuiet
<1> DEFINE Quiet == op'["job"].pc \in {"copy", "swap"} /\ op["job"].pc \notin {"copy", "swap"}
                    => vmm = "none" /\ ~Waking
<1>1. TypeOK /\ ProcessInv /\ OpenInv /\ [Next]_vars => [Quiet]_vars
  <2> SUFFICES ASSUME TypeOK, ProcessInv, OpenInv, [Next]_vars
               PROVE  Quiet \/ UNCHANGED vars
    OBVIOUS
  <2>1. CASE ThreadSteps("job")
    BY <2>1, ProcessJob
  <2>2. CASE ThreadSteps("open")
    BY <2>2, OthersStayPut DEF TypeOK, OpsOK, Threads
  <2>3. CASE HostSteps
    BY <2>3 DEF HostSteps, RunnerStarts, RunnerIsReady, GuestStarts, RunnerFails,
       GuestEnds, RunnerStops, RunnerIsKilled, Retry, HostReboots, RunnerEnds, Idle, Threads
  <2> QED
    BY <2>1, <2>2, <2>3 DEF Next, Threads
<1> QED
  BY <1>1, ProcessInvariant, PTL DEF Spec, BeginsQuiet

-----------------------------------------------------------------------------
(* Nothing is done without the lock, and no restore: then nothing spoils a  *)
(* snapshot.                                                                *)
UnderLock == Openings = {} /\ "restore" \notin Jobs

LockInv == /\ op["open"].pc = "idle"
           /\ op["job"].name # "restore"
           /\ op["job"].pc # "swap"
           /\ spoiled = FALSE

LEMMA OpenNeverSteps ==
  ASSUME LockInv, UnderLock, ThreadSteps("open")
  PROVE  FALSE
<1>1. ~(LookToStart("open") \/ LookForMessage("open") \/ LookToPause("open") \/ LookToSuspend("open")
        \/ LookToBackup("open") \/ LookToStop("open") \/ Boot("open") \/ Active("open")
        \/ Answers("open") \/ Resume("open") \/ MarkRunning("open") \/ GivesUp("open"))
  BY DEF LockInv, LookToStart, LookForMessage, LookToPause, LookToSuspend, LookToBackup, LookToStop,
     Boot, Active, Answers, Resume, MarkRunning, GivesUp, At
<1>2. ~(Pause("open") \/ MarkPaused("open") \/ SnapDir("open") \/ Snapshot("open")
        \/ MarkSuspended("open") \/ Kill("open") \/ Gone("open") \/ DropSnap("open")
        \/ MarkStopped("open") \/ Copy("open") \/ Swap("open") \/ Erase("open")
        \/ Define("open") \/ Create("open"))
  BY DEF LockInv, Pause, MarkPaused, SnapDir, Snapshot, MarkSuspended, Kill, Gone, DropSnap,
     MarkStopped, Copy, Swap, Erase, Define, Create, At
<1> QED
  BY <1>1, <1>2 DEF ThreadSteps, UnderLock

LEMMA LockStep ==
  ASSUME TypeOK, LockInv, UnderLock, ThreadSteps("job")
  PROVE  LockInv'
<1>1. OpsOK /\ "job" \in Threads /\ op'["open"] = op["open"]
  BY OthersStayPut DEF TypeOK, OpsOK, Threads
<1> DEFINE Good == op'["job"].name # "restore" /\ op'["job"].pc # "swap"
<1>2. /\ \A pc \in Steps \ {"swap"} : Goto("job", pc) => Good
      /\ \A name \in JobNames \ {"restore"} : \A wanted : Turns("job", name, wanted) => Good
      /\ Ends("job") => Good
  BY <1>1, Moves DEF LockInv
<1>3. Steps \ {"swap"} = {"idle", "look", "start", "define", "create", "boot", "active", "booted",
          "ready", "resume", "markrunning", "pause", "markpaused", "snapdir", "snapshot",
          "marksuspended", "kill", "gone", "dropsnap", "markstopped", "copy", "erase"}
  BY DEF Steps
<1>4. "create" \in JobNames \ {"restore"}
  BY DEF JobNames
<1>5. Good
  <2>1. CASE \E name \in Jobs, wanted \in BOOLEAN : Begin("job", name, wanted)
    BY <1>1, <2>1 DEF Begin, OpsOK, UnderLock
  <2>2. CASE LookToBackup("job")
    BY <1>1, <2>2 DEF LookToBackup, OpsOK, Ops, LockInv
  <2> HIDE DEF Good
  <2>3. Proceeds("job") \/ EndsOrStarts("job") => Good
    BY <1>2, <1>3, <1>4 DEF Proceeds, EndsOrStarts, Does, LockInv
  <2>4. CASE GivesUp("job") \/ LookToStart("job") \/ LookForMessage("job") \/ LookToPause("job")
             \/ LookToSuspend("job") \/ LookToStop("job")
    BY <1>2, <1>3, <1>4, <2>3, <2>4 DEF GivesUp, LookToStart, LookForMessage, LookToPause, LookToSuspend,
       LookToStop
  <2>5. CASE Boot("job") \/ Active("job") \/ Answers("job") \/ Resume("job") \/ MarkRunning("job")
             \/ Pause("job") \/ MarkPaused("job") \/ SnapDir("job") \/ Snapshot("job")
             \/ MarkSuspended("job")
    BY <1>2, <1>3, <2>5 DEF Boot, Active, Answers, Resume, MarkRunning, Pause, MarkPaused, SnapDir,
       Snapshot, MarkSuspended
  <2>6. CASE Kill("job") \/ Gone("job") \/ DropSnap("job") \/ MarkStopped("job") \/ Copy("job")
             \/ Erase("job") \/ Define("job") \/ Create("job")
    BY <1>2, <1>3, <2>3, <2>6 DEF Kill, Gone, DropSnap, MarkStopped, Copy, Erase, Define, Create
  <2>7. ~Swap("job")
    BY DEF Swap, At, LockInv
  <2> QED
    BY <2>1, <2>2, <2>4, <2>5, <2>6, <2>7 DEF ThreadSteps
<1>6. spoiled' = FALSE
  BY DEF LockInv, machine, At, ThreadSteps, Begin, GivesUp, LookToStart, LookForMessage, LookToPause,
     LookToSuspend, LookToBackup, LookToStop, Boot, Active, Answers, Resume, MarkRunning, Pause,
     MarkPaused, SnapDir, Snapshot, MarkSuspended, Kill, Gone, DropSnap, MarkStopped, Copy, Swap, Erase,
     Define, Create
<1> QED
  BY <1>1, <1>5, <1>6 DEF LockInv

LEMMA LockInvariant ==
  ASSUME UnderLock
  PROVE  Spec => []LockInv
<1>1. Init => LockInv
  BY DEF Init, LockInv, Idle, Threads
<1>2. TypeOK /\ LockInv /\ [Next]_vars => LockInv'
  <2> SUFFICES ASSUME TypeOK, LockInv, [Next]_vars
               PROVE  LockInv'
    OBVIOUS
  <2>1. CASE ThreadSteps("job")
    BY <2>1, LockStep
  <2>2. ~ThreadSteps("open")
    BY OpenNeverSteps
  <2>3. CASE HostSteps
    BY <2>3 DEF LockInv, HostSteps, RunnerStarts, RunnerIsReady, GuestStarts, RunnerFails, GuestEnds,
       RunnerStops, RunnerIsKilled, Retry, HostReboots, RunnerEnds, Idle, Threads, machine
  <2>4. CASE UNCHANGED vars
    BY <2>4 DEF vars, LockInv
  <2> QED
    BY <2>1, <2>2, <2>3, <2>4 DEF Next, Threads
<1> QED
  BY <1>1, <1>2, VmTypeCorrect, PTL DEF Spec

(* As long as everybody takes the lock and nothing is restored, no snapshot *)
(* is spoiled: the machine below is never tampered with.                    *)
THEOREM MachineUntampered ==
  ASSUME UnderLock
  PROVE  Spec => [](spoiled = FALSE)
<1>1. LockInv => spoiled = FALSE
  BY DEF LockInv
<1> QED
  BY <1>1, LockInvariant, PTL

-----------------------------------------------------------------------------
(* The refinement: seen as SuspendableVm sees it, every step is a step of   *)
(* that specification or none.                                              *)

(* What the mapped variables are, and that a job on the files has no guest. *)
LEMMA OnFilesNoGuest ==
  ASSUME ProcessInv
  PROVE  WorksOnFiles => vmm = "none" /\ UnitGone
  BY DEF ProcessInv, WorksOnFiles, UnitGone

(* A step that leaves the guest and its snapshot alone takes hold of the    *)
(* files, lets go of them, or is not seen.                                  *)
LEMMA OnlyHands ==
  ASSUME UNCHANGED <<vmm, restores, snap, current, spoiled>>, WorksOnFiles' => vmm = "none"
  PROVE  [Suspendable!Next]_(Suspendable!vars)
<1>1. CASE WorksOnFiles'
  BY <1>1 DEF Suspendable!Next, Suspendable!Grab
<1>2. CASE ~WorksOnFiles'
  <2>1. WorksOnFiles' = FALSE
    BY <1>2 DEF WorksOnFiles
  <2> QED
    BY <2>1 DEF Suspendable!Next, Suspendable!LetGo
<1> QED
  BY <1>1, <1>2

LEMMA JobIsSeen ==
  ASSUME TypeOK, ProcessInv, ProcessInv', ThreadSteps("job")
  PROVE  [Suspendable!Next]_(Suspendable!vars)
<1>1. OpsOK /\ "job" \in Threads
  BY DEF TypeOK, OpsOK, Threads
<1>2. WorksOnFiles' => vmm' = "none"
  BY DEF ProcessInv, WorksOnFiles, UnitGone
<1>3. \A pc \in Steps : Goto("job", pc) => op'["job"].pc = pc
  BY <1>1, Moves
<1>4. CASE \/ \E name \in Jobs, wanted \in BOOLEAN : Begin("job", name, wanted)
           \/ GivesUp("job") \/ LookToStart("job") \/ LookForMessage("job") \/ LookToPause("job")
           \/ LookToSuspend("job") \/ LookToBackup("job") \/ LookToStop("job")
           \/ Active("job") \/ Answers("job") \/ Gone("job") \/ Copy("job")
  BY <1>2, <1>4, OnlyHands DEF Begin, GivesUp, LookToStart, LookForMessage, LookToPause,
     LookToSuspend, LookToBackup, LookToStop, Active, Answers, Gone, Copy, machine, process
<1>5. CASE \/ Boot("job") \/ MarkRunning("job") \/ MarkPaused("job") \/ MarkSuspended("job")
           \/ Kill("job") \/ MarkStopped("job") \/ Define("job") \/ Create("job")
  <2>1. Boot("job") => spoiled' = spoiled
    BY DEF Boot, At, TypeOK
  <2> QED
    BY <1>2, <1>5, <2>1, OnlyHands DEF Boot, MarkRunning, MarkPaused, MarkSuspended, Kill, MarkStopped,
       Define, Create, machine, process
<1>6. CASE Resume("job")
  <2>1. WorksOnFiles = FALSE /\ WorksOnFiles' = FALSE
    BY <1>3, <1>6 DEF Resume, At, WorksOnFiles, Steps
  <2>2. Suspendable!Unpause
    BY <1>6, <2>1 DEF Resume, Suspendable!Unpause, Suspendable!Runs
  <2> QED
    BY <2>2 DEF Suspendable!Next
<1>7. CASE Pause("job")
  <2>1. WorksOnFiles = FALSE /\ WorksOnFiles' = FALSE
    BY <1>3, <1>7 DEF Pause, At, WorksOnFiles, Steps
  <2>2. Suspendable!Pause
    BY <1>7, <2>1 DEF Pause, machine, Suspendable!Pause
  <2> QED
    BY <2>2 DEF Suspendable!Next
<1>8. CASE SnapDir("job")
  <2>1. WorksOnFiles = FALSE /\ WorksOnFiles' = FALSE
    BY <1>3, <1>8 DEF SnapDir, At, WorksOnFiles, Steps
  <2>2. Suspendable!Discard
    BY <1>8, <2>1 DEF SnapDir, process, Suspendable!Discard
  <2> QED
    BY <2>2 DEF Suspendable!Next
<1>9. CASE Snapshot("job")
  <2>1. WorksOnFiles = FALSE /\ WorksOnFiles' = FALSE
    BY <1>3, <1>9 DEF Snapshot, At, WorksOnFiles, Steps
  <2>2. Suspendable!Save
    BY <1>9, <2>1 DEF Snapshot, process, Suspendable!Save
  <2> QED
    BY <2>2 DEF Suspendable!Next
<1>10. CASE DropSnap("job") \/ Erase("job")
  <2>1. WorksOnFiles
    BY <1>10 DEF DropSnap, Erase, At, WorksOnFiles
  <2>2. snap' # "whole" /\ UNCHANGED <<vmm, restores, spoiled>>
    BY <1>10 DEF DropSnap, Erase, process
  <2>3. Suspendable!Discard
    BY <2>1, <2>2 DEF Suspendable!Discard
  <2> QED
    BY <2>3 DEF Suspendable!Next
<1>11. CASE Swap("job")
  <2>1. "start" \in Steps
    BY DEF Steps
  <2>2. op'["job"].pc \in {"idle", "look", "start"}
    BY <1>1, <1>11, <2>1, Moves DEF Swap, EndsOrStarts
  <2>3. WorksOnFiles = FALSE /\ WorksOnFiles' = FALSE
    BY <1>11, <2>2 DEF Swap, At, WorksOnFiles
  <2>4. UNCHANGED <<vmm, restores>> /\ current' = FALSE /\ (spoiled' = spoiled \/ spoiled' = TRUE)
    BY <1>11 DEF Swap, process, TypeOK
  <2>5. CASE spoiled' = spoiled
    <3>1. Suspendable!Discard
      BY <2>3, <2>4, <2>5 DEF Suspendable!Discard
    <3> QED
      BY <3>1 DEF Suspendable!Next
  <2>6. CASE spoiled' = TRUE
    <3>1. Suspendable!Tamper
      BY <2>3, <2>4, <2>6 DEF Suspendable!Tamper
    <3> QED
      BY <3>1 DEF Suspendable!Next
  <2> QED
    BY <2>4, <2>5, <2>6
<1> QED
  BY <1>4, <1>5, <1>6, <1>7, <1>8, <1>9, <1>10, <1>11 DEF ThreadSteps

(* A message resumes a guest, perhaps one that it should not, or is not seen. *)
LEMMA MessageIsSeen ==
  ASSUME TypeOK, ProcessInv, ProcessInv', OpenInv, Openings \subseteq {"message"}, ThreadSteps("open")
  PROVE  [Suspendable!Next]_(Suspendable!vars)
<1>1. op'["job"] = op["job"]
  BY OthersStayPut DEF TypeOK, OpsOK, Threads
<1>2. WorksOnFiles' = WorksOnFiles /\ (WorksOnFiles' => vmm' = "none")
  BY <1>1 DEF ProcessInv, WorksOnFiles, UnitGone
<1>3. CASE \/ \E name \in Openings, wanted \in BOOLEAN : Begin("open", name, wanted)
           \/ GivesUp("open") \/ LookForMessage("open") \/ MarkRunning("open")
  BY <1>2, <1>3, OnlyHands DEF Begin, GivesUp, LookForMessage, MarkRunning, machine, process
<1>4. CASE Resume("open")
  <2>1. Suspendable!Unpause
    BY <1>2, <1>4 DEF Resume, Suspendable!Unpause, Suspendable!Runs
  <2> QED
    BY <2>1 DEF Suspendable!Next
<1> QED
  BY <1>3, <1>4, MessagesOnly

LEMMA HostIsSeen ==
  ASSUME TypeOK, ProcessInv, FrozenInv, HostSteps
  PROVE  [Suspendable!Next]_(Suspendable!vars)
<1>1. CASE RunnerStarts \/ RunnerIsReady \/ Retry
  <2>1. vmm' = vmm /\ (vmm # "none" => restores' = restores)
    BY <1>1 DEF RunnerStarts, RunnerIsReady, Retry, RunnerEnds, ProcessInv
  <2>2. UNCHANGED <<snap, current, spoiled, op>>
    BY <1>1 DEF RunnerStarts, RunnerIsReady, Retry, RunnerEnds, machine
  <2> QED
    BY <2>1, <2>2 DEF Suspendable!vars, WorksOnFiles
<1>2. CASE GuestStarts
  <2>1. ~WorksOnFiles /\ WorksOnFiles' = WorksOnFiles
    BY <1>2, OnFilesNoGuest DEF GuestStarts, UnitGone, WorksOnFiles
  <2>2. CASE restores
    <3>1. (snap = "whole" /\ current) \/ spoiled
      BY <1>2, <2>2 DEF GuestStarts, FrozenInv, Waking
    <3>2. Suspendable!Wake
      BY <1>2, <2>1, <2>2, <3>1 DEF GuestStarts, Suspendable!Wake, Suspendable!ComesUp,
         Suspendable!Runs
    <3> QED
      BY <3>2 DEF Suspendable!Next
  <2>3. CASE ~restores
    <3>1. Suspendable!Boot
      BY <1>2, <2>1, <2>3 DEF GuestStarts, Suspendable!Boot, Suspendable!ComesUp, Suspendable!Runs
    <3> QED
      BY <3>1 DEF Suspendable!Next
  <2> QED
    BY <2>2, <2>3
<1>3. CASE RunnerFails \/ GuestEnds \/ RunnerStops \/ RunnerIsKilled \/ HostReboots
  <2>1. vmm' = "none" /\ UNCHANGED <<snap, current, spoiled>>
    BY <1>3 DEF RunnerFails, GuestEnds, RunnerStops, RunnerIsKilled, HostReboots, RunnerEnds, machine
  <2>2. WorksOnFiles' => WorksOnFiles
    BY <1>3 DEF RunnerFails, GuestEnds, RunnerStops, RunnerIsKilled, HostReboots, RunnerEnds,
       WorksOnFiles, Idle, Threads
  <2>3. Suspendable!End
    BY <2>1, <2>2 DEF Suspendable!End
  <2> QED
    BY <2>3 DEF Suspendable!Next
<1> QED
  BY <1>1, <1>2, <1>3 DEF HostSteps

(* A machine is a SuspendableVm, for any jobs, when at most messages come   *)
(* without the lock: a guest wakes at most once from a snapshot, only on    *)
(* the directory it was taken with unless it was tampered with, and comes   *)
(* up under no job that has stopped it, whatever fails, restarts or reboots. *)
THEOREM MachineImplemented ==
  ASSUME Openings \subseteq {"message"}
  PROVE  Spec => ImplementsSuspendableVm
<1>1. Init => Suspendable!Init
  BY DEF Init, Idle, Threads, WorksOnFiles, Suspendable!Init
<1>2. /\ TypeOK /\ ProcessInv /\ OpenInv /\ FrozenInv
      /\ ProcessInv'
      /\ [Next]_vars
      => [Suspendable!Next]_(Suspendable!vars)
  <2> SUFFICES ASSUME TypeOK, ProcessInv, OpenInv, FrozenInv, ProcessInv', [Next]_vars
               PROVE  [Suspendable!Next]_(Suspendable!vars)
    OBVIOUS
  <2>1. CASE ThreadSteps("job")
    BY <2>1, JobIsSeen
  <2>2. CASE ThreadSteps("open")
    BY <2>2, MessageIsSeen
  <2>3. CASE HostSteps
    BY <2>3, HostIsSeen
  <2>4. CASE UNCHANGED vars
    BY <2>4 DEF vars, Suspendable!vars, WorksOnFiles
  <2> QED
    BY <2>1, <2>2, <2>3, <2>4 DEF Next, Threads
<1> QED
  BY <1>1, <1>2, ProcessInvariant, SuspendedIsFrozen, VmTypeCorrect, PTL
     DEF Spec, ImplementsSuspendableVm, Suspendable!Spec
=============================================================================
