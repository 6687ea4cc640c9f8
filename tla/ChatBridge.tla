----------------------------- MODULE ChatBridge -----------------------------
(***************************************************************************)
(* The chats of one workspace: the proxy between the browser and the       *)
(* worker (src/ui.rs), the worker's handler that starts the VM, and the    *)
(* bridge between a websocket and an agent process in the guest            *)
(* (src/acp.rs), beside the jobs that take the VM down and start it.       *)
(*                                                                         *)
(* A connection is one websocket of a proxy with the worker, and the       *)
(* process its bridge starts has its name.  What is said is left out: a    *)
(* message is known by being on its way.                                   *)
(***************************************************************************)
EXTENDS Naturals, FiniteSets

CONSTANTS
  Chats,      \* browser tabs
  MaxConns,   \* bound on the connections ever made
  MaxQueued,  \* bound on the messages on their way on a connection
  Sleeps,     \* what jobs do to the VM: a subset of {"paused", "off"}
  Accidents   \* a subset of AccidentKinds

AccidentKinds ==
  {"refused",    \* a connection is refused, or the VM does not start
   "start",      \* the preflight or the spawn fails
   "exit",       \* an agent process ends on its own
   "dashboard"}  \* a request for the dashboard starts the VM and reports nothing

ASSUME ConstantsAssumption ==
  /\ MaxConns \in Nat /\ MaxQueued \in Nat \ {0}
  /\ Sleeps \subseteq {"paused", "off"}
  /\ Accidents \subseteq AccidentKinds

VARIABLES
  vm,         \* the VM, as its state file says
  row,        \* the status of the workspace in the catalog
  lock,       \* the connection that holds the lock of the workspace
  job,        \* the job that holds it instead, and what it has still to report
  chat,       \* chat[p]: the proxy of tab p
  conn,       \* conn[c]: handler and bridge of connection c
  proc,       \* proc[c]: the agent process of connection c
  sessions,   \* the entry of the workspace in HermesAcpState::sessions
  slept,      \* history: the connections the VM was taken down under
  raced,      \* history: the connections whose start met another one's
  unreported  \* history: the VM was started or resumed and nobody reported it

hostVars    == <<vm, row, lock, job>>
bridgeVars  == <<proc, sessions, raced>>
historyVars == <<slept, unreported>>
vars        == <<hostVars, chat, conn, bridgeVars, historyVars>>

Conns == 1..MaxConns
None  == 0

-----------------------------------------------------------------------------
VmState == {"on", "paused", "off"}

\* "down": paused, suspended, stopped or idle-stopped; "up": any other.
Row == {"up", "down"}

Bridge == {"unused", "asked", "vm", "report", "refused", "clean",
           "spawn", "insert", "pipe", "end", "over"}

TypeOK ==
  /\ vm \in VmState
  /\ row \in Row
  /\ lock \in Conns \cup {None}
  /\ job \in {"none", "slept", "woken"}
  /\ chat \in [Chats -> [at : {"away", "connecting", "attached", "detached", "gone"},
                         conn : Conns \cup {None}, held : BOOLEAN]]
  /\ conn \in [Conns -> [at : Bridge, queued : 0..MaxQueued, hungUp : BOOLEAN]]
  /\ proc \in [Conns -> {"none", "live", "dead"}]
  /\ sessions \in Conns \cup {None}
  /\ slept \subseteq Conns /\ raced \subseteq Conns
  /\ unreported \in BOOLEAN

Init ==
  /\ vm = "on" /\ row = "up" /\ lock = None /\ job = "none"
  /\ chat = [p \in Chats |-> [at |-> "away", conn |-> None, held |-> FALSE]]
  /\ conn = [c \in Conns |-> [at |-> "unused", queued |-> 0, hungUp |-> FALSE]]
  /\ proc = [c \in Conns |-> "none"]
  /\ sessions = None
  /\ slept = {} /\ raced = {} /\ unreported = FALSE

-----------------------------------------------------------------------------
(* The proxy: proxy_acp_websocket. *)

IsNext(c) ==
  /\ conn[c].at = "unused"
  /\ \A d \in Conns : conn[d].at = "unused" => c <= d

Connecting(p, c, held) ==
  chat' = [chat EXCEPT ![p] = [at |-> "connecting", conn |-> c, held |-> held]]

OpenChat(p, c) ==
  /\ chat[p].at = "away"
  /\ IsNext(c)
  /\ Connecting(p, c, FALSE)
  /\ conn' = [conn EXCEPT ![c].at = "asked"]
  /\ UNCHANGED <<hostVars, bridgeVars, historyVars>>

Upgraded(c) == conn[c].at \in {"clean", "spawn", "insert", "pipe", "end", "over"}

\* The message that was waiting for the connection goes out.
Connected(p) ==
  /\ chat[p].at = "connecting"
  /\ Upgraded(chat[p].conn)
  /\ chat' = [chat EXCEPT ![p].at = "attached", ![p].held = FALSE]
  /\ conn' = [conn EXCEPT ![chat[p].conn].queued = IF chat[p].held THEN 1 ELSE @]
  /\ UNCHANGED <<hostVars, bridgeVars, historyVars>>

\* The failure of a connection ends the proxy.
ConnectionFails(p) ==
  /\ chat[p].at = "connecting"
  /\ conn[chat[p].conn].at = "refused"
  /\ chat' = [chat EXCEPT ![p] = [at |-> "gone", conn |-> None, held |-> FALSE]]
  /\ UNCHANGED <<hostVars, conn, bridgeVars, historyVars>>

\* workspace_needs_worker_reconnect.
NeedsReconnect == row = "down"

\* A message on a connection the proxy believes in.
Send(p) ==
  /\ chat[p].at = "attached"
  /\ ~NeedsReconnect
  /\ conn[chat[p].conn].queued < MaxQueued
  /\ conn' = [conn EXCEPT ![chat[p].conn].queued = @ + 1]
  /\ UNCHANGED <<hostVars, chat, bridgeVars, historyVars>>

\* A message when there is no connection, or none that will do.
SendAnew(p, c) ==
  /\ chat[p].at = "detached" \/ (chat[p].at = "attached" /\ NeedsReconnect)
  /\ IsNext(c)
  /\ Connecting(p, c, TRUE)
  /\ conn' = [d \in Conns |->
       IF d = c THEN [conn[c] EXCEPT !.at = "asked"]
       ELSE [conn[d] EXCEPT !.hungUp = @ \/ d = chat[p].conn]]
  /\ UNCHANGED <<hostVars, bridgeVars, historyVars>>

Detached == [at |-> "detached", conn |-> None, held |-> FALSE]

\* The poll every 25 milliseconds.
Tick(p) ==
  /\ chat[p].at = "attached"
  /\ NeedsReconnect
  /\ conn' = [conn EXCEPT ![chat[p].conn].hungUp = TRUE]
  /\ chat' = [chat EXCEPT ![p] = Detached]
  /\ UNCHANGED <<hostVars, bridgeVars, historyVars>>

\* The worker side is over: the proxy waits for the next message, or the connection
\* broke without a word, which ends it; a message that comes first is lost.
WorkerGone(p) ==
  /\ chat[p].at = "attached"
  /\ conn[chat[p].conn].at = "over"
  /\ \/ chat' = [chat EXCEPT ![p] = Detached]
     \/ chat' = [chat EXCEPT ![p] = [Detached EXCEPT !.at = "gone"]]
  /\ UNCHANGED <<hostVars, conn, bridgeVars, historyVars>>

CloseChat(p) ==
  /\ chat[p].at \in {"attached", "detached"}
  /\ conn' = [d \in Conns |-> [conn[d] EXCEPT !.hungUp = @ \/ d = chat[p].conn]]
  /\ chat' = [chat EXCEPT ![p] = [Detached EXCEPT !.at = "gone"]]
  /\ UNCHANGED <<hostVars, bridgeVars, historyVars>>

-----------------------------------------------------------------------------
(* The handler of the worker: worker_hermes_acp_ws. *)

Free == lock = None /\ job = "none"

Goto(c, at) == conn' = [conn EXCEPT ![c].at = at]

TakeLock(c) ==
  /\ conn[c].at = "asked"
  /\ Free
  /\ lock' = c
  /\ Goto(c, "vm")
  /\ UNCHANGED <<vm, row, job, chat, bridgeVars, historyVars>>

\* Mutant: the guard of the lock lives as long as the chat.
MutFindsRunning(c) ==
  /\ conn[c].at = "vm"
  /\ vm = "on"
  /\ Goto(c, "clean")
  /\ UNCHANGED <<hostVars, chat, bridgeVars, historyVars>>

\* A VM that runs is not reported.
FindsRunning(c) ==
  /\ conn[c].at = "vm"
  /\ vm = "on"
  /\ lock' = None
  /\ Goto(c, "clean")
  /\ UNCHANGED <<vm, row, job, chat, bridgeVars, historyVars>>

StartsVm(c) ==
  /\ conn[c].at = "vm"
  /\ vm # "on"
  /\ vm' = "on"
  /\ Goto(c, "report")
  /\ UNCHANGED <<row, lock, job, chat, bridgeVars, historyVars>>

\* Mutant: a VM that the chat has started is not reported.
MutReportsVm(c) ==
  /\ conn[c].at = "report"
  /\ lock' = None
  /\ Goto(c, "clean")
  /\ UNCHANGED <<vm, row, job, chat, bridgeVars, historyVars>>

ReportsVm(c) ==
  /\ conn[c].at = "report"
  /\ row' = "up" /\ unreported' = FALSE
  /\ lock' = None
  /\ Goto(c, "clean")
  /\ UNCHANGED <<vm, job, chat, bridgeVars, slept>>

\* A VM that was started before the failure is not reported.
Refused(c) ==
  /\ "refused" \in Accidents
  /\ conn[c].at \in {"asked", "vm", "report"}
  /\ lock' = IF lock = c THEN None ELSE lock
  /\ unreported' = (unreported \/ conn[c].at = "report")
  /\ Goto(c, "refused")
  /\ UNCHANGED <<vm, row, job, chat, bridgeVars, slept>>

-----------------------------------------------------------------------------
(* The bridge: bridge_worker_socket. *)

\* cleanup_workspace goes by the name of the workspace.
Cleanup ==
  /\ proc' = [c \in Conns |-> IF c = sessions THEN "dead" ELSE proc[c]]
  /\ sessions' = None

Starting(c) == conn[c].at \in {"spawn", "insert"}

\* Mutant: the process of an earlier chat is left alone.
MutCleanFirst(c) ==
  /\ conn[c].at = "clean"
  /\ Goto(c, "spawn")
  /\ LET met == {d \in Conns : Starting(d)} IN
     raced' = raced \cup met \cup (IF met = {} THEN {} ELSE {c})
  /\ UNCHANGED <<hostVars, chat, proc, sessions, historyVars>>

CleanFirst(c) ==
  /\ conn[c].at = "clean"
  /\ Cleanup
  /\ Goto(c, "spawn")
  /\ LET met == {d \in Conns : Starting(d)} IN
     raced' = raced \cup met \cup (IF met = {} THEN {} ELSE {c})
  /\ UNCHANGED <<hostVars, chat, historyVars>>

\* After a preflight, unless the workspace has passed it before.
Spawn(c) ==
  /\ conn[c].at = "spawn"
  /\ proc' = [proc EXCEPT ![c] = "live"]
  /\ Goto(c, "insert")
  /\ UNCHANGED <<hostVars, chat, sessions, raced, historyVars>>

StartFails(c) ==
  /\ "start" \in Accidents
  /\ conn[c].at = "spawn"
  /\ Goto(c, "end")
  /\ UNCHANGED <<hostVars, chat, bridgeVars, historyVars>>

\* A child that is replaced in the table is dropped, not killed.
Insert(c) ==
  /\ conn[c].at = "insert"
  /\ sessions' = c
  /\ Goto(c, "pipe")
  /\ UNCHANGED <<hostVars, chat, proc, raced, historyVars>>

\* Mutant: the bridge reads when there is nothing to read.
MutFeed(c) ==
  /\ conn[c].at = "pipe"
  /\ conn' = [conn EXCEPT ![c].queued = @ - 1]
  /\ UNCHANGED <<hostVars, chat, bridgeVars, historyVars>>

\* A message resumes a paused VM, which it does not report, and goes to the process.
Feed(c) ==
  /\ conn[c].at = "pipe"
  /\ conn[c].queued > 0
  /\ IF vm = "paused"
     THEN vm' = "on" /\ unreported' = TRUE
     ELSE UNCHANGED <<vm, unreported>>
  /\ conn' = [conn EXCEPT ![c].queued = @ - 1,
                ![c].at = IF proc[c] = "live" THEN @ ELSE "end"]
  /\ UNCHANGED <<row, lock, job, chat, bridgeVars, slept>>

\* The first side to finish ends the bridge.
PipeEnds(c) ==
  /\ conn[c].at = "pipe"
  /\ proc[c] = "dead" \/ (conn[c].hungUp /\ conn[c].queued = 0)
  /\ Goto(c, "end")
  /\ UNCHANGED <<hostVars, chat, bridgeVars, historyVars>>

\* Mutant: whoever ends leaves the table alone.
MutEnd(c) ==
  /\ conn[c].at = "end"
  /\ Goto(c, "over")
  /\ UNCHANGED <<hostVars, chat, bridgeVars, historyVars>>

End(c) ==
  /\ conn[c].at = "end"
  /\ Cleanup
  /\ Goto(c, "over")
  /\ UNCHANGED <<hostVars, chat, raced, historyVars>>

\* The agent sees the end of its input; or it ends on its own, or its VM is down.
ProcessEnds(c) ==
  /\ proc[c] = "live"
  /\ \/ conn[c].at \in {"end", "over"}
     \/ "exit" \in Accidents
     \/ vm = "off"
  /\ proc' = [proc EXCEPT ![c] = "dead"]
  /\ UNCHANGED <<hostVars, chat, conn, sessions, raced, historyVars>>

-----------------------------------------------------------------------------
(* The jobs of the workspace, under its lock, and the dashboard, without it. *)

\* A job pauses, suspends or stops the VM and reports it.
Sleep(s) ==
  /\ s \in Sleeps
  /\ Free /\ vm # s
  /\ vm = "off" => s = "off"
  /\ job' = "slept"
  /\ vm' = s
  /\ slept' = {c \in Conns : conn[c].at # "unused"}
  /\ UNCHANGED <<row, lock, chat, conn, bridgeVars, unreported>>

Wake ==
  /\ Free /\ vm # "on"
  /\ job' = "woken"
  /\ vm' = "on"
  /\ UNCHANGED <<row, lock, chat, conn, bridgeVars, historyVars>>

JobReports ==
  /\ job # "none"
  /\ row' = IF job = "slept" THEN "down" ELSE "up"
  /\ unreported' = (unreported /\ job = "slept")
  /\ job' = "none"
  /\ UNCHANGED <<vm, lock, chat, conn, bridgeVars, slept>>

\* open_hermes_dashboard_urls.
DashboardStarts ==
  /\ "dashboard" \in Accidents
  /\ vm # "on"
  /\ vm' = "on" /\ unreported' = TRUE
  /\ UNCHANGED <<row, lock, job, chat, conn, bridgeVars, slept>>

-----------------------------------------------------------------------------
ProxyStep(p) == Connected(p) \/ ConnectionFails(p) \/ Tick(p) \/ WorkerGone(p)

BridgeStep(c) ==
  \/ FindsRunning(c) \/ StartsVm(c) \/ ReportsVm(c)
  \/ CleanFirst(c) \/ Spawn(c) \/ Insert(c)
  \/ Feed(c) \/ PipeEnds(c) \/ End(c)

System ==
  \/ \E p \in Chats : ProxyStep(p)
  \/ \E c \in Conns : BridgeStep(c) \/ TakeLock(c) \/ ProcessEnds(c)
  \/ JobReports

Users ==
  \/ \E p \in Chats :
       \/ Send(p) \/ CloseChat(p)
       \/ \E c \in Conns : OpenChat(p, c) \/ SendAnew(p, c)
  \/ (\E s \in VmState : Sleep(s)) \/ Wake

Next ==
  \/ System \/ Users \/ DashboardStarts
  \/ \E c \in Conns : Refused(c) \/ StartFails(c)

Spec == Init /\ [][Next]_vars

\* Proxies, bridges and jobs go on; the mutex of the workspace is given out in turn.
Fairness ==
  /\ \A p \in Chats : WF_vars(ProxyStep(p))
  /\ \A c \in Conns : WF_vars(BridgeStep(c)) /\ SF_vars(TakeLock(c))
  /\ WF_vars(JobReports)

FairSpec == Spec /\ Fairness

-----------------------------------------------------------------------------
(* Properties. *)

\* Two agents run side by side in a workspace only when two chats were starting at
\* the same time: the table has one entry, and start_acp_process kills what it finds.
NewReplacesOld ==
  \A c, d \in Conns :
    c # d /\ proc[c] = "live" /\ proc[d] = "live"
      /\ conn[c].at \in {"insert", "pipe"} /\ conn[d].at \in {"insert", "pipe"}
    => c \in raced \/ d \in raced

\* The entry of a workspace never outlives its bridge: whoever ends last, or next,
\* takes it out, although cleanup_workspace asks for the name and not for the process.
EntryIsServed == sessions # None => conn[sessions].at \in {"pipe", "end"}

\* A chat that is of use or waits for its user.
Settled(p) ==
  \/ chat[p].at \in {"away", "detached", "gone"}
  \/ chat[p].at = "attached" /\ proc[chat[p].conn] = "live"

\* No chat hangs: when users and accidents leave it alone, an attempt to connect has
\* ended, and a browser whose process was killed, by the end of another chat too, is not
\* left attached to nothing.
Settles == <>[][System]_vars => <>[](\A p \in Chats : Settled(p))

\* The proxy gives up a worker side that works.
LetsGo(p) ==
  /\ chat[p].at = "attached" /\ chat'[p].at \in {"detached", "connecting"}
  /\ conn'[chat[p].conn].hungUp

\* A worker side is given up only when the VM was taken down under it, unless the VM
\* has been started or resumed by someone who did not report it.
DropIsExplained ==
  [][\A p \in Chats : LetsGo(p) => chat[p].conn \in slept \/ unreported]_vars

\* As todos/microvm-prod.md says of the proxy: it drops the stale worker side.
DropsOnlyStale ==
  [][\A p \in Chats : LetsGo(p) => chat[p].conn \in slept]_vars

=============================================================================
