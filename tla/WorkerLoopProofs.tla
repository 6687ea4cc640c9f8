-------------------------- MODULE WorkerLoopProofs --------------------------
(***************************************************************************)
(* Theorems about WorkerLoop, for any workspaces, kinds of jobs, requests  *)
(* and faults.                                                             *)
(***************************************************************************)
EXTENDS WorkerLoop, TLAPS

(* What the loop has in hand, and who else may touch it. *)

Removed(w) == ws[w].status = "removed"

\* The loop holds the lock of the workspace it works on, and a chat the lock of its.
HeldInv ==
  /\ step \in Working => rec \in Record /\ lock[rec.ws] = "loop"
  /\ \A w \in Workspaces : chat[w] # "none" => lock[w] = "chat"

\* A job is for the state that its kind says, and ends before the loop goes on.
JobInv ==
  /\ step = "lock" => rec \in Record
  /\ step \in {"lock", "begin"} => rec.kind \in Kinds /\ rec.desired = Target(rec.kind)
  /\ step \in {"lock"} \cup Working => (at = "job" <=> IsJob) /\ at \in {"job", "reconcile"}

\* What reconciliation has listed is one record of each workspace, none of them removed,
\* and not the one in hand.
TodoInv ==
  /\ todo # {} => at = "reconcile"
  /\ \A r, s \in todo : r.ws = s.ws => r = s
  /\ step \in Working => \A r \in todo : r.ws # rec.ws
  /\ \A r \in todo : r.kind = "reconcile" /\ ~Removed(r.ws)

\* Nobody starts the VM of a row that says "removed", or reports so of a VM there is.
BringsBackInv ==
  /\ step = "copy, start" \/ (step = "act" /\ rec.desired = "running") => ~Removed(rec.ws)
  /\ step = "report" /\ rec.desired = "removed" => vm[rec.ws] = "missing"

\* After a job that was claimed late the loop gets to its next look at the signal.
LateInv ==
  /\ late \in {0, 1}
  /\ late = 1 => shutdown /\ at \in {"job", "top", "check", "reconcile", "exited"}

HandInv == HeldInv /\ JobInv /\ TodoInv /\ BringsBackInv /\ RemovedIsGone

\* Inductive.
WorkInv == TypeOK /\ HandInv

-----------------------------------------------------------------------------
(* The signal to shut down. *)

LEMMA LateKept == LateInv /\ [Next]_vars => LateInv'
<1> SUFFICES ASSUME LateInv, [Next]_vars PROVE LateInv'
  OBVIOUS
<1> USE DEF LateInv, rowVars, loopVars
<1>1. ASSUME Exits \/ Register \/ Top \/ Check PROVE LateInv'
  <2>1. CASE Exits
    BY <2>1 DEF Exits, Exit
  <2>2. CASE Register \/ Top \/ Check
    BY <2>2 DEF Register, Top, Check, Goto
  <2> QED
    BY <1>1, <2>1, <2>2
<1>2. ASSUME ClaimNothing \/ IntervalOver \/ WokenUp \/ DropToWake PROVE LateInv'
  BY <1>2 DEF ClaimNothing, Claiming, AfterFirst, AfterSecond, IntervalOver, WokenUp,
     DropToWake, Goto
<1>3. ASSUME NEW w \in Workspaces, NEW kind \in Kinds, Claim(w, kind) PROVE LateInv'
  <2>1. late = 0
    BY <1>3 DEF Claim, Claiming
  <2>2. late' = (IF shutdown THEN 1 ELSE 0) /\ at' = "job" /\ shutdown' = shutdown
    BY <1>3, <2>1 DEF Claim
  <2> QED
    BY <2>2
<1>4. ASSUME List \/ (\E r \in todo : Take(r)) \/ AllDone \/ TakeLock \/ Begin
      PROVE  LateInv'
  BY <1>4 DEF List, Take, AllDone, TakeLock, Begin
<1>5. ASSUME Act \/ Report \/ Idle \/ Idled \/ NoBackup PROVE LateInv'
  BY <1>5 DEF Act, Report, Idle, Idled, NoBackup, Finish, Proceed
<1>6. ASSUME Halt \/ Halted \/ Copy \/ StepFails PROVE LateInv'
  BY <1>6 DEF Halt, Halted, Copy, StepFails, Finish, Proceed, AfterFirst, AfterSecond
<1>7. ASSUME NEW w \in Workspaces, ChatStep(w) \/ OpenChat(w) \/ ChatFails(w)
      PROVE  LateInv'
  BY <1>7 DEF ChatStep, ChatFindsVm, ChatStartsVm, ChatReports, OpenChat, ChatFails, ChatEnds
<1>8. ASSUME NEW w \in Workspaces,
             \/ \E kind \in Kinds : Ask(w, kind)
             \/ \E kind \in {"start", "suspend"}, accepted \in BOOLEAN :
                  Command(w, kind, accepted)
             \/ DeleteUser(w) \/ TimePasses(w) \/ VmCrashes(w)
      PROVE  LateInv'
  BY <1>8 DEF Ask, Command, DeleteUser, TimePasses, VmCrashes
<1>9. ASSUME Signal \/ WorkerDies PROVE LateInv'
  BY <1>9 DEF Signal, WorkerDies
<1>10. CASE UNCHANGED vars
  BY <1>10 DEF vars
<1> QED
  BY <1>1, <1>2, <1>3, <1>4, <1>5, <1>6, <1>7, <1>8, <1>9, <1>10
     DEF Next, System, LoopStep, Accident, Outside

\* A worker that has been told to shut down begins at most one more job: each way out of
\* that job leads to a look at the signal before another claim.
THEOREM OneLateJob == Spec => []AtMostOneLateJob
<1>1. Init => LateInv
  BY DEF Init, LateInv
<1>2. LateInv => AtMostOneLateJob
  BY DEF LateInv, AtMostOneLateJob
<1> QED
  BY <1>1, <1>2, LateKept, PTL DEF Spec

-----------------------------------------------------------------------------
(* Types. *)

\* A row that is replaced by one of its type.
LEMMA RowReplaced ==
  ASSUME TypeOK, NEW w \in Workspaces, NEW row \in WsRow
  PROVE  [ws EXCEPT ![w] = row] \in [Workspaces -> WsRow]
BY DEF TypeOK

LEMMA RowChanged ==
  ASSUME NEW row \in WsRow
  PROVE  /\ \A d \in Desired, i \in BOOLEAN, st \in Status :
              [row EXCEPT !.desired = d, !.idle = i, !.status = st] \in WsRow
         /\ \A st \in Status, d \in Desired :
              [row EXCEPT !.status = st, !.desired = d] \in WsRow
         /\ \A js \in SUBSET Kinds : [row EXCEPT !.jobs = js] \in WsRow
         /\ \A d \in Desired, i \in BOOLEAN, js \in SUBSET Kinds :
              [row EXCEPT !.desired = d, !.idle = i, !.jobs = js] \in WsRow
         /\ \A d \in Desired, st \in Status, js \in SUBSET Kinds :
              [row EXCEPT !.desired = d, !.status = st, !.jobs = js] \in WsRow
BY DEF WsRow

LEMMA LoopKeepsType ==
  ASSUME TypeOK,
         \/ Exits \/ Register \/ Top \/ ClaimNothing \/ Check \/ IntervalOver \/ List
         \/ (\E r \in todo : Take(r)) \/ AllDone \/ TakeLock \/ WokenUp \/ DropToWake
  PROVE  TypeOK'
<1> USE DEF TypeOK, rowVars, loopVars
<1>1. CASE Exits
  BY <1>1 DEF Exits, Exit
<1>2. CASE Register \/ Top \/ Check \/ IntervalOver \/ WokenUp
  BY <1>2 DEF Register, Top, Check, IntervalOver, WokenUp, Goto
<1>3. CASE ClaimNothing
  BY <1>3 DEF ClaimNothing, AfterFirst, AfterSecond
<1>4. CASE List
  <2>1. ASSUME NEW w \in Workspaces PROVE Listed(w) \in Record
    <3>1. ws[w].desired \in Desired /\ ws[w].idle \in BOOLEAN /\ ws[w].due \in BOOLEAN
      BY DEF WsRow
    <3>2. Differs(ws[w]) \in BOOLEAN
      BY <3>1 DEF Differs, Desired
    <3> QED
      BY <3>1, <3>2 DEF Listed, Record
  <2>2. todo' \subseteq Record
    BY <1>4, <2>1 DEF List
  <2> QED
    BY <1>4, <2>2 DEF List
<1>5. ASSUME NEW r \in todo, Take(r) PROVE TypeOK'
  <2>1. rec' \in Record /\ todo' \subseteq Record
    BY <1>5 DEF Take, Record
  <2> QED
    BY <1>5, <2>1 DEF Take
<1>6. CASE AllDone \/ TakeLock
  BY <1>6 DEF AllDone, TakeLock
<1>7. CASE DropToWake
  BY <1>7 DEF DropToWake, LetGo
<1> QED
  BY <1>1, <1>2, <1>3, <1>4, <1>5, <1>6, <1>7

LEMMA ClaimKeepsType ==
  ASSUME TypeOK, NEW w \in Workspaces, NEW kind \in Kinds, Claim(w, kind)
  PROVE  TypeOK'
<1>1. ws' \in [Workspaces -> WsRow]
  BY DEF TypeOK, Claim, WsRow
<1>2. Target(kind) \in Desired
  BY DEF Target, Desired
<1>3. rec' \in Record
  BY <1>2, ConstantsAssumption DEF Claim, Record
<1>4. late' \in Nat
  <2>1. late \in Nat /\ (late' = late + 1 \/ late' = late)
    BY DEF TypeOK, Claim
  <2> QED
    BY <2>1
<1> QED
  BY <1>1, <1>3, <1>4 DEF TypeOK, Claim, WsRow

LEMMA WorkKeepsType ==
  ASSUME TypeOK, HeldInv,
         \/ Begin \/ Act \/ Report \/ Idle \/ Idled \/ NoBackup \/ Halt \/ Halted \/ Copy
         \/ StepFails
  PROVE  TypeOK'
<1> DEFINE w == rec.ws
<1>1. rec \in Record /\ rec.ws \in Workspaces /\ rec.desired \in Desired
  BY DEF HeldInv, Working, Record, Begin, Act, Report, Idle, Idled, NoBackup, Halt, Halted,
     Copy, StepFails
<1>2. Desired \subseteq Status /\ "busy" \in Status /\ "idle-stopped" \in Status
        /\ "removed" \in Desired /\ "stopped" \in Desired
  BY DEF Desired, Status
<1>4. \A st \in Status : [ws EXCEPT ![rec.ws].status = st] \in [Workspaces -> WsRow]
  BY <1>1 DEF TypeOK, WsRow
<1>5. NoRecord \in Record \cup {NoRecord} /\ [rec EXCEPT !.due = FALSE, !.idle = FALSE] \in Record
  BY <1>1 DEF Record
<1>6. [v \in Workspaces |-> IF lock[v] = "loop" THEN "free" ELSE lock[v]]
        \in [Workspaces -> {"free", "loop", "chat"}]
  BY DEF TypeOK
<1> USE DEF rowVars
<1>7. CASE Begin
  <2>1. ws' \in [Workspaces -> WsRow]
    <3> DEFINE idle   == IF rec.kind = "start" THEN FALSE ELSE ws[w].idle
               status == IF rec.kind \in {"start", "remove"} THEN "busy" ELSE ws[w].status
    <3>1. ws[w] \in WsRow /\ idle \in BOOLEAN /\ status \in Status
      BY <1>1, <1>2 DEF TypeOK, WsRow
    <3>2. [ws[w] EXCEPT !.desired = rec.desired, !.idle = idle, !.status = status] \in WsRow
      BY <1>1, <3>1, RowChanged
    <3> QED
      BY <1>1, <1>7, <3>2, RowReplaced DEF TypeOK, Begin
  <2>2. rec' \in Record
    <3>1. ws[w].desired \in Desired
      BY <1>1 DEF TypeOK, WsRow
    <3> QED
      BY <1>1, <1>7, <3>1 DEF Begin, Record
  <2> QED
    BY <1>7, <2>1, <2>2 DEF TypeOK, Begin, WsRow
<1>8. CASE Act
  <2>1. vm' \in [Workspaces -> VmState]
    <3>1. CASE vm' = vm
      BY <3>1 DEF TypeOK
    <3>2. PICK v \in VmState : vm' = vm \/ vm' = [vm EXCEPT ![w] = v]
      <4>1. vm[w] \in VmState
        BY <1>1 DEF TypeOK
      <4> QED
        BY <1>1, <1>8, <4>1 DEF Act, VmState, Desired
    <3> QED
      BY <3>1, <3>2 DEF TypeOK
  <2> QED
    BY <1>5, <1>6, <1>8, <2>1 DEF TypeOK, Act, Finish, LetGo, Proceed
<1>9. CASE Report
  <2>1. ws' \in [Workspaces -> WsRow]
    <3> DEFINE desired == IF rec.kind = "remove" THEN "removed" ELSE ws[w].desired
    <3>1. ws[w] \in WsRow /\ desired \in Desired
      BY <1>1, <1>2 DEF TypeOK, WsRow
    <3>2. [ws[w] EXCEPT !.status = rec.desired, !.desired = desired] \in WsRow
      BY <1>1, <1>2, <3>1, RowChanged
    <3> QED
      BY <1>1, <1>9, <3>2, RowReplaced DEF Report
  <2> QED
    BY <1>5, <1>6, <1>9, <2>1 DEF TypeOK, Report, Finish, LetGo, Proceed, WsRow
<1>10. CASE Idle
  <2>1. vm' \in [Workspaces -> VmState]
    BY <1>1, <1>10 DEF TypeOK, Idle, VmState
  <2> QED
    BY <1>10, <2>1 DEF TypeOK, Idle, Proceed
<1>11. CASE Idled
  <2>1. ws' \in [Workspaces -> WsRow]
    BY <1>1, <1>2, <1>11 DEF TypeOK, Idled, WsRow
  <2> QED
    BY <1>11, <2>1 DEF TypeOK, Idled, Proceed, WsRow
<1>12. CASE NoBackup
  BY <1>5, <1>6, <1>12 DEF TypeOK, NoBackup, Finish, LetGo
<1>13. CASE Halt
  <2>1. vm' \in [Workspaces -> VmState]
    BY <1>1, <1>13 DEF TypeOK, Halt, VmState
  <2> QED
    BY <1>13, <2>1 DEF TypeOK, Halt, Proceed
<1>14. CASE Halted
  <2>1. ws' \in [Workspaces -> WsRow]
    BY <1>2, <1>4, <1>14 DEF Halted
  <2> QED
    BY <1>14, <2>1 DEF TypeOK, Halted, Proceed, WsRow
<1>15. CASE Copy
  <2>1. ws' \in [Workspaces -> WsRow]
    BY <1>1, <1>15 DEF TypeOK, Copy, WsRow
  <2> QED
    BY <1>5, <1>6, <1>15, <2>1 DEF TypeOK, Copy, Finish, LetGo, WsRow
<1>16. CASE StepFails
  <2>1. ws' \in [Workspaces -> WsRow]
    <3>1. [ws EXCEPT ![rec.ws].status = "busy"] \in [Workspaces -> WsRow]
      BY <1>2, <1>4
    <3> QED
      BY <1>16, <3>1 DEF TypeOK, StepFails
  <2>2. lock' \in [Workspaces -> {"free", "loop", "chat"}] /\ rec' = NoRecord
        /\ at' \in {at, "top", "check", "reconcile"} /\ step' \in {"none", "next", "list"}
    BY <1>6, <1>16 DEF StepFails, Finish, LetGo, AfterFirst, AfterSecond
  <2> QED
    BY <1>5, <1>16, <2>1, <2>2 DEF TypeOK, StepFails, WsRow
<1> QED
  BY <1>7, <1>8, <1>9, <1>10, <1>11, <1>12, <1>13, <1>14, <1>15, <1>16

LEMMA ChatKeepsType ==
  ASSUME TypeOK, NEW w \in Workspaces, ChatStep(w) \/ OpenChat(w) \/ ChatFails(w)
  PROVE  TypeOK'
<1> USE DEF loopVars, rowVars
<1>1. [chat EXCEPT ![w] = "none"] \in [Workspaces -> {"none", "starting", "reporting"}]
        /\ [lock EXCEPT ![w] = IF @ = "chat" THEN "free" ELSE @]
             \in [Workspaces -> {"free", "loop", "chat"}]
  BY DEF TypeOK
<1>2. CASE ChatFindsVm(w) \/ ChatFails(w)
  BY <1>1, <1>2 DEF TypeOK, ChatFindsVm, ChatFails, ChatEnds
<1>3. CASE ChatStartsVm(w)
  BY <1>3 DEF TypeOK, ChatStartsVm, VmState
<1>4. CASE ChatReports(w)
  <2>1. ws' \in [Workspaces -> WsRow]
    <3>1. ws[w] \in WsRow /\ "running" \in Status /\ "running" \in Desired
      BY DEF TypeOK, Status, Desired
    <3>2. [ws[w] EXCEPT !.status = "running", !.desired = "running"] \in WsRow
      BY <3>1, RowChanged
    <3> QED
      BY <1>4, <3>2, RowReplaced DEF ChatReports
  <2> QED
    BY <1>1, <1>4, <2>1 DEF TypeOK, ChatReports, ChatEnds, WsRow
<1>5. CASE OpenChat(w)
  BY <1>5 DEF TypeOK, OpenChat
<1> QED
  BY <1>2, <1>3, <1>4, <1>5 DEF ChatStep

LEMMA OutsideKeepsType ==
  ASSUME TypeOK, NEW w \in Workspaces,
         \/ \E kind \in Kinds : Ask(w, kind)
         \/ \E kind \in {"start", "suspend"}, accepted \in BOOLEAN :
              Command(w, kind, accepted)
         \/ DeleteUser(w) \/ TimePasses(w) \/ VmCrashes(w)
  PROVE  TypeOK'
<1> USE DEF loopVars, rowVars
<1>1. ASSUME NEW kind \in Kinds, Ask(w, kind) PROVE TypeOK'
  <2>1. ws' \in [Workspaces -> WsRow]
    <3>1. ws[w] \in WsRow /\ ws[w].jobs \cup {kind} \in SUBSET Kinds
      BY DEF TypeOK, WsRow
    <3>2. [ws[w] EXCEPT !.jobs = ws[w].jobs \cup {kind}] \in WsRow
      BY <3>1, RowChanged
    <3> QED
      BY <1>1, <3>2, RowReplaced DEF Ask
  <2> QED
    BY <1>1, <2>1 DEF TypeOK, Ask
<1>2. ASSUME NEW kind \in {"start", "suspend"}, NEW accepted \in BOOLEAN,
             Command(w, kind, accepted)
      PROVE  TypeOK'
  <2>1. Target(kind) \in Desired
    BY DEF Target, Desired
  <2>2. ws' \in [Workspaces -> WsRow]
    <3> DEFINE idle == IF kind = "start" THEN FALSE ELSE ws[w].idle
               more == ws[w].jobs \cup (IF accepted THEN {kind} ELSE {})
    <3>1. ws[w] \in WsRow /\ idle \in BOOLEAN /\ more \in SUBSET Kinds
      BY <1>2 DEF TypeOK, WsRow, Command
    <3>2. [ws[w] EXCEPT !.desired = Target(kind), !.idle = idle, !.jobs = more] \in WsRow
      BY <2>1, <3>1, RowChanged
    <3> QED
      BY <1>2, <3>2, RowReplaced DEF Command
  <2> QED
    BY <1>2, <2>2 DEF TypeOK, Command, WsRow
<1>3. CASE DeleteUser(w)
  <2>1. ws' \in [Workspaces -> WsRow]
    <3> DEFINE more == ws[w].jobs \cup {"remove"}
    <3>1. ws[w] \in WsRow /\ more \in SUBSET Kinds /\ "removed" \in Desired /\ "busy" \in Status
      BY <1>3 DEF TypeOK, WsRow, DeleteUser, Status, Desired
    <3>2. [ws[w] EXCEPT !.desired = "removed", !.status = "busy", !.jobs = more] \in WsRow
      BY <3>1, RowChanged
    <3> QED
      BY <1>3, <3>2, RowReplaced DEF DeleteUser
  <2> QED
    BY <1>3, <2>1 DEF TypeOK, DeleteUser, WsRow
<1>4. CASE TimePasses(w)
  <2>1. ws' \in [Workspaces -> WsRow]
    <3>1. [ws EXCEPT ![w].idle = TRUE] \in [Workspaces -> WsRow]
      BY DEF TypeOK, WsRow
    <3>2. [ws EXCEPT ![w].due = TRUE] \in [Workspaces -> WsRow]
      BY DEF TypeOK, WsRow
    <3> QED
      BY <1>4, <3>1, <3>2 DEF TimePasses
  <2> QED
    BY <1>4, <2>1 DEF TypeOK, TimePasses
<1>5. CASE VmCrashes(w)
  BY <1>5 DEF TypeOK, VmCrashes, VmState
<1> QED
  BY <1>1, <1>2, <1>3, <1>4, <1>5

LEMMA DeathKeepsType == TypeOK /\ HeldInv /\ JobInv /\ WorkerDies => TypeOK'
<1> SUFFICES ASSUME TypeOK, HeldInv, JobInv, WorkerDies PROVE TypeOK'
  OBVIOUS
<1>1. ws' \in [Workspaces -> WsRow]
  <2>1. ASSUME step \in {"lock", "begin"} PROVE rec.ws \in Workspaces /\ rec.kind \in Kinds
    BY <2>1 DEF HeldInv, JobInv, Working, Record
  <2>2. CASE step \in {"lock", "begin"}
    <3>1. ws[rec.ws] \in WsRow /\ ws[rec.ws].jobs \cup {rec.kind} \in SUBSET Kinds
      BY <2>1, <2>2 DEF TypeOK, WsRow
    <3>2. [ws[rec.ws] EXCEPT !.jobs = ws[rec.ws].jobs \cup {rec.kind}] \in WsRow
      BY <3>1, RowChanged
    <3> QED
      BY <2>1, <2>2, <3>2, RowReplaced DEF WorkerDies
  <2>3. CASE step \notin {"lock", "begin"}
    BY <2>3 DEF TypeOK, WorkerDies
  <2> QED
    BY <2>2, <2>3
<1> QED
  BY <1>1 DEF TypeOK, WorkerDies, WsRow

-----------------------------------------------------------------------------
(* What the loop has in hand. *)

LEMMA LoopKeepsHand ==
  ASSUME TypeOK, HandInv,
         \/ Exits \/ Register \/ Top \/ ClaimNothing \/ Check \/ IntervalOver \/ List
         \/ (\E r \in todo : Take(r)) \/ AllDone \/ TakeLock \/ WokenUp \/ DropToWake
  PROVE  HandInv'
<1> USE DEF HandInv, HeldInv, JobInv, TodoInv, BringsBackInv, RemovedIsGone, Removed,
            Working, IsJob, rowVars, loopVars
<1>1. CASE Exits
  BY <1>1 DEF Exits, Exit
<1>2. CASE Register \/ Top \/ Check \/ IntervalOver \/ WokenUp
  BY <1>2 DEF Register, Top, Check, IntervalOver, WokenUp, Goto
<1>3. CASE ClaimNothing
  BY <1>3 DEF ClaimNothing, Claiming, AfterFirst, AfterSecond
<1>4. CASE List
  <2>1. \A w \in Workspaces : Listed(w).ws = w /\ Listed(w).kind = "reconcile"
    BY DEF Listed
  <2>2. ASSUME NEW r \in todo'
        PROVE  /\ r.ws \in Workspaces /\ r.kind = "reconcile" /\ r = Listed(r.ws)
               /\ ws[r.ws].status # "removed"
    <3>1. PICK w \in Workspaces : ws[w].status # "removed" /\ r = Listed(w)
      BY <1>4, <2>2 DEF List
    <3> QED
      BY <2>1, <3>1
  <2>3. ASSUME NEW r \in todo', NEW s \in todo', r.ws = s.ws PROVE r = s
    <3>1. r = Listed(r.ws) /\ s = Listed(s.ws)
      BY <2>2
    <3>2. Listed(r.ws) = Listed(s.ws)
      BY <2>3
    <3> QED
      BY <3>1, <3>2, Zenon
  <2>4. TodoInv'
    BY <1>4, <2>2, <2>3 DEF List
  <2>5. HeldInv' /\ JobInv' /\ BringsBackInv' /\ RemovedIsGone'
    BY <1>4 DEF List
  <2> QED
    BY <2>4, <2>5
<1>5. ASSUME NEW r \in todo, Take(r) PROVE HandInv'
  <2>1. r \in Record /\ at = "reconcile" /\ step = "next" /\ lock[r.ws] = "free"
    BY <1>5 DEF Take, TypeOK
  <2>2. rec' \in Record /\ rec'.ws = r.ws /\ rec'.desired = r.desired /\ rec'.kind = r.kind
    BY <1>5, <2>1 DEF Take, Record
  <2>3. r.ws \in Workspaces
    BY <2>1 DEF Record
  <2>4. /\ lock'[r.ws] = "loop" /\ \A w \in Workspaces \ {r.ws} : lock'[w] = lock[w]
    BY <1>5, <2>3 DEF Take, TypeOK
  <2>5. HeldInv'
    BY <1>5, <2>1, <2>2, <2>3, <2>4 DEF Take
  <2>6. JobInv'
    BY <1>5, <2>1, <2>2 DEF Take
  <2>7. TodoInv'
    BY <1>5, <2>1, <2>2 DEF Take
  <2>8. BringsBackInv' /\ RemovedIsGone'
    BY <1>5, <2>1, <2>2 DEF Take
  <2> QED
    BY <2>5, <2>6, <2>7, <2>8
<1>6. CASE AllDone
  BY <1>6 DEF AllDone
<1>7. CASE TakeLock
  <2>1. rec \in Record /\ rec.ws \in Workspaces /\ at = "job"
    BY <1>7, ConstantsAssumption DEF TakeLock, Record, JobKinds
  <2>2. lock'[rec.ws] = "loop" /\ \A w \in Workspaces \ {rec.ws} : lock'[w] = lock[w]
    BY <1>7, <2>1 DEF TakeLock, TypeOK
  <2>3. HeldInv'
    BY <1>7, <2>1, <2>2 DEF TakeLock
  <2>4. JobInv' /\ TodoInv' /\ BringsBackInv' /\ RemovedIsGone'
    BY <1>7, <2>1 DEF TakeLock
  <2> QED
    BY <2>3, <2>4
<1>8. CASE DropToWake
  BY <1>8 DEF DropToWake, LetGo
<1> QED
  BY <1>1, <1>2, <1>3, <1>4, <1>5, <1>6, <1>7, <1>8

LEMMA ClaimKeepsHand ==
  ASSUME TypeOK, HandInv, NEW w \in Workspaces, NEW kind \in Kinds, Claim(w, kind)
  PROVE  HandInv'
<1> USE DEF HandInv, HeldInv, JobInv, TodoInv, BringsBackInv, RemovedIsGone, Removed,
            Working, IsJob
<1>1. todo' = {} /\ step' = "lock" /\ at' = "job"
  BY DEF Claim, Claiming
<1>2. rec' \in Record /\ rec'.kind = kind /\ rec'.desired = Target(kind) /\ kind # "reconcile"
  <2>1. Target(kind) \in Desired
    BY DEF Target, Desired
  <2> QED
    BY <2>1, ConstantsAssumption DEF Claim, Record, JobKinds
<1>3. \A v \in Workspaces : ws'[v].status = ws[v].status
  <2>1. ws \in [Workspaces -> WsRow] /\ ws[w] \in WsRow
    BY DEF TypeOK
  <2> QED
    <3> DEFINE row == [ws[w] EXCEPT !.jobs = ws[w].jobs \ {kind}]
    <3>1. row.status = ws[w].status
      BY <2>1 DEF WsRow
    <3>2. ws' = [ws EXCEPT ![w] = row]
      BY DEF Claim
    <3> HIDE DEF row
    <3> QED
      BY <2>1, <3>1, <3>2
<1> QED
  BY <1>1, <1>2, <1>3 DEF Claim

\* The loop is done with the workspace in hand.
LEMMA FinishKeepsHand ==
  ASSUME TypeOK, HandInv, step \in Working, Finish, todo' = todo, chat' = chat,
         \A r \in todo : ws'[r.ws].status = ws[r.ws].status, RemovedIsGone'
  PROVE  HandInv'
<1> USE DEF HandInv, HeldInv, JobInv, TodoInv, BringsBackInv, Removed, Working, IsJob
<1>1. step' \in {"none", "next"} /\ (todo # {} => at' = "reconcile")
  BY DEF Finish
<1>2. \A v \in Workspaces : lock[v] = "chat" => lock'[v] = "chat"
  BY DEF TypeOK, Finish, LetGo
<1> QED
  BY <1>1, <1>2

\* It goes on to a step that is not another start.
LEMMA ProceedKeepsHand ==
  ASSUME TypeOK, HandInv, step \in Working, NEW s \in Working \ {"begin", "act", "report"},
         Proceed(s), todo' = todo, chat' = chat,
         \A r \in todo : ws'[r.ws].status = ws[r.ws].status, RemovedIsGone',
         s = "copy, start" => ~Removed(rec.ws)'
  PROVE  HandInv'
BY DEF HandInv, HeldInv, JobInv, TodoInv, BringsBackInv, Removed, Working, IsJob, Proceed

LEMMA WorkKeepsHand ==
  ASSUME TypeOK, HandInv,
         \/ Begin \/ Act \/ Report \/ Idle \/ Idled \/ NoBackup \/ Halt \/ Halted \/ Copy
         \/ StepFails
  PROVE  HandInv'
<1> DEFINE w == rec.ws
<1>1. step \in Working /\ rec \in Record /\ w \in Workspaces /\ lock[w] = "loop"
  BY DEF HandInv, HeldInv, Working, Record, Begin, Act, Report, Idle, Idled, NoBackup, Halt,
     Halted, Copy, StepFails
<1>2. \A r \in todo : r \in Record /\ r.ws \in Workspaces /\ r.ws # w
  BY <1>1 DEF HandInv, TodoInv, TypeOK, Record
<1>3. ws \in [Workspaces -> WsRow] /\ vm \in [Workspaces -> VmState]
  BY DEF TypeOK
<1> USE DEF rowVars
<1>4. CASE Begin
  <2>1. \A v \in Workspaces \ {w} : ws'[v] = ws[v]
    BY <1>1, <1>3, <1>4 DEF Begin
  <2>2. /\ ws'[w].status = "removed" => ws[w].status = "removed"
        /\ rec.kind = "start" => ws'[w].status # "removed"
    <3>1. ws[w] \in WsRow
      BY <1>1, <1>3
    <3>2. CASE rec.kind = "backup"
      BY <1>4, <3>2 DEF Begin
    <3>3. CASE rec.kind # "backup"
      <4> DEFINE idle   == IF rec.kind = "start" THEN FALSE ELSE ws[w].idle
                 status == IF rec.kind \in {"start", "remove"} THEN "busy" ELSE ws[w].status
                 row    == [ws[w] EXCEPT !.desired = rec.desired, !.idle = idle,
                                         !.status = status]
      <4>1. row.status = status
        BY <3>1 DEF WsRow
      <4>2. ws' = [ws EXCEPT ![w] = row]
        BY <1>4, <3>3 DEF Begin
      <4> HIDE DEF row
      <4>3. ws'[w].status = status
        BY <1>1, <1>3, <4>1, <4>2
      <4> QED
        BY <4>3
    <3> QED
      BY <3>2, <3>3
  <2>3. /\ rec' \in Record /\ rec'.ws = w /\ rec'.kind = rec.kind
        /\ step' \in {"act", "halt"} /\ (step' = "act" => rec' = rec /\ rec.kind # "backup")
    <3>1. ws[w].desired \in Desired
      BY <1>1, <1>3 DEF WsRow
    <3> QED
      BY <1>1, <1>4, <3>1 DEF Begin, Record
  <2>4. step' = "act" /\ rec'.desired = "running" => rec.kind = "start"
    BY <1>1, <1>4, <2>3, ConstantsAssumption DEF HandInv, JobInv, Begin, Target, JobKinds
  <2>5. HeldInv' /\ JobInv'
    BY <1>1, <1>4, <2>3 DEF HandInv, HeldInv, JobInv, Working, IsJob, Begin
  <2>6. TodoInv'
    BY <1>1, <1>2, <1>4, <2>1, <2>3 DEF HandInv, TodoInv, Removed, Working, Begin
  <2>7. BringsBackInv' /\ RemovedIsGone'
    BY <1>1, <1>4, <2>1, <2>2, <2>3, <2>4
       DEF HandInv, BringsBackInv, RemovedIsGone, Removed, Begin
  <2> QED
    BY <2>5, <2>6, <2>7 DEF HandInv
<1>5. CASE Act
  <2>1. CASE rec.kind = "suspend" /\ vm[w] # "on"
    <3>1. RemovedIsGone' /\ Finish /\ todo' = todo /\ chat' = chat /\ ws' = ws
      BY <1>5, <2>1 DEF HandInv, RemovedIsGone, Act
    <3> QED
      BY <1>1, <3>1, FinishKeepsHand
  <2>2. CASE ~(rec.kind = "suspend" /\ vm[w] # "on")
    <3>1. \A v \in Workspaces \ {w} : vm'[v] = vm[v]
      BY <1>1, <1>3, <1>5, <2>2 DEF Act
    <3>2. /\ rec.desired = "removed" => vm'[w] = "missing"
          /\ rec.desired # "running" => (vm[w] = "missing" => vm'[w] = "missing")
      BY <1>1, <1>3, <1>5, <2>2 DEF Act, Record, Desired
    <3>3. RemovedIsGone'
      BY <1>1, <1>5, <3>1, <3>2 DEF HandInv, RemovedIsGone, BringsBackInv, Removed, Act
    <3>4. ws' = ws /\ step' = "report" /\ UNCHANGED <<lock, at, rec, todo, chat>>
      BY <1>5, <2>2 DEF Act, Proceed
    <3> QED
      BY <1>1, <3>2, <3>3, <3>4
         DEF HandInv, HeldInv, JobInv, TodoInv, BringsBackInv, Removed, Working, IsJob
  <2> QED
    BY <2>1, <2>2
<1>6. CASE Report
  <2>1. \A v \in Workspaces \ {w} : ws'[v] = ws[v]
    BY <1>1, <1>3, <1>6 DEF Report
  <2>2. ws'[w].status = rec.desired
    BY <1>1, <1>3, <1>6 DEF Report, WsRow
  <2>3. RemovedIsGone'
    BY <1>1, <1>6, <2>1, <2>2 DEF HandInv, RemovedIsGone, BringsBackInv, Report
  <2>4. \A r \in todo : ws'[r.ws].status = ws[r.ws].status
    BY <1>2, <2>1
  <2>5. todo' = todo /\ chat' = chat /\ (Finish \/ \E s \in {"idle", "halt"} : Proceed(s))
    BY <1>6 DEF Report
  <2> QED
    BY <1>1, <2>3, <2>4, <2>5, FinishKeepsHand, ProceedKeepsHand DEF Working
<1>7. CASE Idle \/ Halt
  <2>1. \A v \in Workspaces : vm[v] = "missing" => vm'[v] = "missing"
    BY <1>1, <1>3, <1>7 DEF Idle, Halt
  <2>2. /\ ws' = ws /\ todo' = todo /\ chat' = chat
        /\ \E s \in {"idled", "halted", "copy"} : Proceed(s)
    BY <1>7 DEF Idle, Halt
  <2>3. RemovedIsGone'
    BY <2>1, <2>2 DEF HandInv, RemovedIsGone
  <2> QED
    BY <1>1, <2>2, <2>3, ProceedKeepsHand DEF Working
<1>8. CASE Idled \/ Halted
  <2>1. \A v \in Workspaces \ {w} : ws'[v] = ws[v]
    BY <1>1, <1>3, <1>8 DEF Idled, Halted
  <2>2. ws'[w].status \in {"idle-stopped", "busy"}
    <3>1. ws[w] \in WsRow
      BY <1>1, <1>3
    <3>2. [ws[w] EXCEPT !.status = "busy"].status = "busy"
          /\ [ws[w] EXCEPT !.status = "idle-stopped", !.desired = "stopped"].status = "idle-stopped"
      BY <3>1 DEF WsRow
    <3>3. CASE Idled
      BY <1>1, <1>3, <3>2, <3>3 DEF Idled
    <3>4. CASE Halted
      BY <1>1, <1>3, <3>2, <3>4 DEF Halted
    <3> QED
      BY <1>8, <3>3, <3>4
  <2>3. /\ vm' = vm /\ todo' = todo /\ chat' = chat
        /\ \E s \in {"halt", "copy", "copy, start"} : Proceed(s)
    BY <1>8 DEF Idled, Halted
  <2>4. RemovedIsGone'
    BY <2>1, <2>2, <2>3 DEF HandInv, RemovedIsGone
  <2>5. ~Removed(rec.ws)'
    BY <2>2, <2>3 DEF Removed, Proceed
  <2>6. \A r \in todo : ws'[r.ws].status = ws[r.ws].status
    BY <1>2, <2>1
  <2> QED
    BY <1>1, <2>3, <2>4, <2>5, <2>6, ProceedKeepsHand DEF Working
<1>9. CASE NoBackup
  <2>1. Finish /\ ws' = ws /\ todo' = todo /\ chat' = chat /\ RemovedIsGone'
    BY <1>9 DEF NoBackup, HandInv, RemovedIsGone
  <2> QED
    BY <1>1, <2>1, FinishKeepsHand
<1>10. CASE Copy
  <2>1. \A v \in Workspaces : ws'[v].status = ws[v].status
    BY <1>1, <1>3, <1>10 DEF Copy, WsRow
  <2>2. RemovedIsGone' /\ todo' = todo /\ chat' = chat /\ vm' = vm
    BY <1>10, <2>1 DEF HandInv, RemovedIsGone, Copy
  <2>3. CASE step = "copy"
    <3>1. Finish
      BY <1>10, <2>3 DEF Copy
    <3> QED
      BY <1>1, <1>2, <2>1, <2>2, <3>1, FinishKeepsHand
  <2>4. CASE step = "copy, start"
    <3>1. /\ step' = "act" /\ lock' = lock /\ at' = at
          /\ rec' \in Record /\ rec'.ws = w /\ rec'.kind = rec.kind /\ rec'.desired = rec.desired
      BY <1>1, <1>10, <2>4 DEF Copy, Record
    <3>2. HeldInv' /\ JobInv'
      BY <1>1, <2>2, <3>1 DEF HandInv, HeldInv, JobInv, Working, IsJob
    <3>3. TodoInv'
      BY <1>1, <1>2, <2>1, <2>2, <3>1 DEF HandInv, TodoInv, Removed
    <3>4. BringsBackInv'
      BY <1>1, <2>1, <2>4, <3>1 DEF HandInv, BringsBackInv, Removed
    <3> QED
      BY <2>2, <3>2, <3>3, <3>4 DEF HandInv
  <2> QED
    BY <1>10, <2>3, <2>4 DEF Copy
<1>11. CASE StepFails
  <2>1. \A v \in Workspaces \ {w} : ws'[v] = ws[v]
    BY <1>1, <1>3, <1>11 DEF StepFails
  <2>2. ws'[w].status \in {"busy", ws[w].status}
    BY <1>1, <1>3, <1>11 DEF StepFails, WsRow
  <2>3. RemovedIsGone' /\ todo' = todo /\ chat' = chat
    BY <1>11, <2>1, <2>2 DEF HandInv, RemovedIsGone, StepFails
  <2>4. \A r \in todo : ws'[r.ws].status = ws[r.ws].status
    BY <1>2, <2>1
  <2>5. CASE Finish
    BY <1>1, <2>3, <2>4, <2>5, FinishKeepsHand
  <2>6. CASE IsJob /\ LetGo /\ rec' = NoRecord /\ (AfterFirst \/ AfterSecond)
    <3>1. todo = {} /\ step' \in {"none", "list"}
      BY <1>1, <2>6 DEF HandInv, JobInv, TodoInv, AfterFirst, AfterSecond
    <3>2. \A v \in Workspaces : lock[v] = "chat" => lock'[v] = "chat"
      BY <2>6 DEF TypeOK, LetGo
    <3> QED
      BY <2>3, <3>1, <3>2 DEF HandInv, HeldInv, JobInv, TodoInv, BringsBackInv, Working
  <2> QED
    BY <1>11, <2>5, <2>6 DEF StepFails
<1> QED
  BY <1>4, <1>5, <1>6, <1>7, <1>8, <1>9, <1>10, <1>11

LEMMA ChatKeepsHand ==
  ASSUME TypeOK, HandInv, NEW w \in Workspaces, ChatStep(w) \/ OpenChat(w) \/ ChatFails(w)
  PROVE  HandInv'
<1> USE DEF rowVars, loopVars
<1>1. /\ \A v \in Workspaces \ {w} : /\ lock'[v] = lock[v] /\ chat'[v] = chat[v]
                                     /\ ws'[v] = ws[v] /\ vm'[v] = vm[v]
      /\ chat'[w] # "none" => lock'[w] = "chat"
      /\ lock[w] # "loop" /\ UNCHANGED loopVars
  BY DEF TypeOK, HandInv, HeldInv, ChatStep, ChatFindsVm, ChatStartsVm, ChatReports, OpenChat,
     ChatFails, ChatEnds
<1>2. /\ ws'[w].status = "removed" => ws[w].status = "removed" /\ vm[w] = "missing"
      /\ vm[w] = "missing" => vm'[w] = "missing"
  BY DEF TypeOK, HandInv, RemovedIsGone, WsRow, ChatStep, ChatFindsVm, ChatStartsVm,
     ChatReports, OpenChat, ChatFails
<1>3. step \in Working => rec.ws \in Workspaces \ {w}
  BY <1>1 DEF HandInv, HeldInv, Record
<1>4. \A r \in todo : r.ws \in Workspaces
  BY DEF TypeOK, Record
<1>5. HeldInv' /\ JobInv'
  BY <1>1, <1>3 DEF HandInv, HeldInv, JobInv, IsJob, Working
<1>6. TodoInv'
  BY <1>1, <1>2, <1>4 DEF HandInv, TodoInv, Removed
<1>7. BringsBackInv' /\ RemovedIsGone'
  BY <1>1, <1>2, <1>3 DEF HandInv, BringsBackInv, RemovedIsGone, Removed, Working
<1> QED
  BY <1>5, <1>6, <1>7 DEF HandInv

LEMMA OutsideKeepsHand ==
  ASSUME TypeOK, HandInv, NEW w \in Workspaces,
         \/ \E kind \in Kinds : Ask(w, kind)
         \/ \E kind \in {"start", "suspend"}, accepted \in BOOLEAN :
              Command(w, kind, accepted)
         \/ DeleteUser(w) \/ TimePasses(w) \/ VmCrashes(w)
  PROVE  HandInv'
<1> USE DEF loopVars, rowVars
<1>1. /\ \A v \in Workspaces : ws'[v].status = "removed" => ws[v].status = "removed"
      /\ \A v \in Workspaces : vm[v] = "missing" => vm'[v] = "missing"
      /\ UNCHANGED <<lock, loopVars, chat>>
  <2> ws \in [Workspaces -> WsRow] /\ ws[w] \in WsRow
    BY DEF TypeOK
  <2>1. ASSUME NEW kind \in Kinds, Ask(w, kind)
        PROVE  \A v \in Workspaces : ws'[v].status = ws[v].status
    BY <2>1 DEF Ask, WsRow
  <2>2. ASSUME NEW kind \in {"start", "suspend"}, NEW accepted \in BOOLEAN,
               Command(w, kind, accepted)
        PROVE  \A v \in Workspaces : ws'[v].status = ws[v].status
    <3> DEFINE row ==
          [ws[w] EXCEPT !.desired = Target(kind),
                        !.idle = IF kind = "start" THEN FALSE ELSE ws[w].idle,
                        !.jobs = ws[w].jobs \cup (IF accepted THEN {kind} ELSE {})]
    <3>1. row.status = ws[w].status
      BY DEF WsRow
    <3>2. ws' = [ws EXCEPT ![w] = row]
      BY <2>2 DEF Command
    <3> HIDE DEF row
    <3> QED
      BY <3>1, <3>2
  <2>3. ASSUME DeleteUser(w)
        PROVE  ws'[w].status = "busy" /\ \A v \in Workspaces \ {w} : ws'[v] = ws[v]
    BY <2>3 DEF DeleteUser, WsRow
  <2>4. ASSUME TimePasses(w) PROVE \A v \in Workspaces : ws'[v].status = ws[v].status
    <3>1. [ws[w] EXCEPT !.idle = TRUE].status = ws[w].status
          /\ [ws[w] EXCEPT !.due = TRUE].status = ws[w].status
      BY DEF WsRow
    <3> QED
      BY <2>4, <3>1 DEF TimePasses
  <2>5. CASE VmCrashes(w)
    BY <2>5 DEF TypeOK, VmCrashes
  <2>6. /\ UNCHANGED <<lock, loopVars, chat>>
        /\ ~VmCrashes(w) => vm' = vm
    BY DEF Ask, Command, DeleteUser, TimePasses, VmCrashes
  <2> QED
    BY <2>1, <2>2, <2>3, <2>4, <2>5, <2>6
<1>2. step \in Working => rec.ws \in Workspaces
  BY DEF HandInv, HeldInv, Record
<1>3. \A r \in todo : r.ws \in Workspaces
  BY DEF TypeOK, Record
<1>4. HeldInv' /\ JobInv'
  BY <1>1 DEF HandInv, HeldInv, JobInv, IsJob
<1>5. TodoInv'
  BY <1>1, <1>3 DEF HandInv, TodoInv, Removed
<1>6. BringsBackInv' /\ RemovedIsGone'
  BY <1>1, <1>2 DEF HandInv, BringsBackInv, RemovedIsGone, Removed, Working
<1> QED
  BY <1>4, <1>5, <1>6 DEF HandInv

LEMMA DeathKeepsHand == TypeOK /\ HandInv /\ WorkerDies => HandInv'
<1> SUFFICES ASSUME TypeOK, HandInv, WorkerDies PROVE HandInv'
  OBVIOUS
<1>1. \A v \in Workspaces : ws'[v].status = ws[v].status
  <2>1. ws \in [Workspaces -> WsRow]
    BY DEF TypeOK
  <2>2. ASSUME step \in {"lock", "begin"}
        PROVE  \A v \in Workspaces : ws'[v].status = ws[v].status
    <3>1. rec.ws \in Workspaces /\ ws[rec.ws] \in WsRow
      BY <2>1, <2>2 DEF HandInv, HeldInv, JobInv, Working, Record
    <3> DEFINE row == [ws[rec.ws] EXCEPT !.jobs = ws[rec.ws].jobs \cup {rec.kind}]
    <3>2. row.status = ws[rec.ws].status
      BY <3>1 DEF WsRow
    <3>3. ws' = [ws EXCEPT ![rec.ws] = row]
      BY <2>2 DEF WorkerDies
    <3> HIDE DEF row
    <3> QED
      BY <2>1, <3>1, <3>2, <3>3
  <2> QED
    BY <2>2 DEF WorkerDies
<1>2. RemovedIsGone'
  BY <1>1 DEF HandInv, RemovedIsGone, WorkerDies
<1> QED
  BY <1>2 DEF HandInv, HeldInv, JobInv, TodoInv, BringsBackInv, Working, WorkerDies

-----------------------------------------------------------------------------
(* Together. *)

LEMMA WorkStart == Init => WorkInv
<1> SUFFICES ASSUME Init PROVE WorkInv
  OBVIOUS
<1>1. TypeOK
  BY DEF Init, TypeOK, WsRow, VmState, Status, Desired
<1>2. HeldInv /\ JobInv /\ TodoInv /\ BringsBackInv /\ RemovedIsGone
  BY DEF Init, HeldInv, JobInv, TodoInv, BringsBackInv, RemovedIsGone, Working
<1> QED
  BY <1>1, <1>2 DEF WorkInv, HandInv

LEMMA WorkKept == WorkInv /\ [Next]_vars => WorkInv'
<1> SUFFICES ASSUME WorkInv, [Next]_vars PROVE WorkInv'
  OBVIOUS
<1>1. TypeOK /\ HandInv /\ HeldInv /\ JobInv
  BY DEF WorkInv, HandInv
<1>2. SUFFICES TypeOK' /\ HandInv'
  BY DEF WorkInv, HandInv
<1>3. CASE \/ Exits \/ Register \/ Top \/ ClaimNothing \/ Check \/ IntervalOver \/ List
           \/ (\E r \in todo : Take(r)) \/ AllDone \/ TakeLock \/ WokenUp \/ DropToWake
  BY <1>1, <1>3, LoopKeepsType, LoopKeepsHand
<1>4. ASSUME NEW w \in Workspaces, NEW kind \in Kinds, Claim(w, kind)
      PROVE  TypeOK' /\ HandInv'
  BY <1>1, <1>4, ClaimKeepsType, ClaimKeepsHand
<1>5. CASE \/ Begin \/ Act \/ Report \/ Idle \/ Idled \/ NoBackup \/ Halt \/ Halted \/ Copy
           \/ StepFails
  BY <1>1, <1>5, WorkKeepsType, WorkKeepsHand
<1>6. ASSUME NEW w \in Workspaces, ChatStep(w) \/ OpenChat(w) \/ ChatFails(w)
      PROVE  TypeOK' /\ HandInv'
  BY <1>1, <1>6, ChatKeepsType, ChatKeepsHand
<1>7. ASSUME NEW w \in Workspaces,
             \/ \E kind \in Kinds : Ask(w, kind)
             \/ \E kind \in {"start", "suspend"}, accepted \in BOOLEAN :
                  Command(w, kind, accepted)
             \/ DeleteUser(w) \/ TimePasses(w) \/ VmCrashes(w)
      PROVE  TypeOK' /\ HandInv'
  BY <1>1, <1>7, OutsideKeepsType, OutsideKeepsHand
<1>8. CASE Signal \/ UNCHANGED vars
  <2>1. shutdown' \in BOOLEAN /\ UNCHANGED <<ws, vm, lock, at, step, rec, todo, chat, late>>
    BY <1>1, <1>8 DEF Signal, vars, TypeOK, rowVars, loopVars
  <2>2. TypeOK'
    BY <1>1, <2>1 DEF TypeOK
  <2>3. HandInv'
    BY <1>1, <2>1 DEF HandInv, HeldInv, JobInv, TodoInv, BringsBackInv, RemovedIsGone, Removed,
       IsJob, Working
  <2> QED
    BY <2>2, <2>3
<1>9. CASE WorkerDies
  BY <1>1, <1>9, DeathKeepsType, DeathKeepsHand
<1> QED
  BY <1>3, <1>4, <1>5, <1>6, <1>7, <1>8, <1>9
     DEF Next, System, LoopStep, Accident, Outside

\* The rows, the VMs, the locks and the loop stay within their types.
THEOREM WorkerTypeCorrect == Spec => []TypeOK
<1>1. WorkInv => TypeOK
  BY DEF WorkInv
<1> QED
  BY <1>1, WorkStart, WorkKept, PTL DEF Spec

\* A workspace whose row says "removed" has no VM, whatever the loop, the chats, the users
\* and the accidents do to it in whatever order.
THEOREM RemovedStaysGone == Spec => []RemovedIsGone
<1>1. WorkInv => RemovedIsGone
  BY DEF WorkInv, HandInv
<1> QED
  BY <1>1, WorkStart, WorkKept, PTL DEF Spec

=============================================================================
