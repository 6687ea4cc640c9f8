--------------------------- MODULE ServiceTunnels ---------------------------
(***************************************************************************)
(* Tunnels from a worker's host to services inside its guests: the Hermes  *)
(* dashboard and registered web previews (src/service.rs), the worker's    *)
(* handlers around them (src/worker.rs) and the API's, which store the     *)
(* returned URL in the table service_tunnels (src/ui.rs, src/db.rs).       *)
(*                                                                         *)
(* Simplifications: host names carry the port (serviceTunnelBaseUrl with   *)
(* {port}), so a port stands for a row's hostname; finding the workspace   *)
(* and checking tokens writes nothing and is left out; a free port of the  *)
(* range is chosen at will; a close is carried out at once or never.       *)
(***************************************************************************)
EXTENDS Naturals, FiniteSets

CONSTANTS
  Dashboards,  \* keys of hermes_tunnels, one per workspace
  Previews,    \* keys of preview_tunnels, any number per workspace
  Home,        \* Home[k]: the workspace that serves k
  Ports,       \* the configured range of ports
  Processes,   \* ids of ssh processes; bounds how many run at once
  Requests,    \* ids of requests under way; bounds their number
  None

Services   == Dashboards \cup Previews
Workspaces == {Home[k] : k \in Services}

ASSUME KeysAssumption ==
  /\ Dashboards \cap Previews = {}
  /\ Home \in [Services -> Workspaces]
ASSUME NoneAssumption ==
  None \notin Services \cup Ports \cup Processes \cup Requests

VARIABLES
  tunnel,    \* tunnel[k]: the ssh process in the worker's table under k
  reserved,  \* port_reservations
  ssh,       \* ssh[c]: state, service and port of a process; early: it or its
             \* request let go of the port before it listened
  up,        \* up[w]: the VM of w runs
  lock,      \* lock[w]: the request that holds the lock of w
  req,       \* req[r]: what a request is, how far it is and what it has in hand
  rows,      \* rows[p]: the service registered under the hostname of p
  gone       \* history: k was removed, and no open of it has begun since

vars == <<tunnel, reserved, ssh, up, lock, req, rows, gone>>

-----------------------------------------------------------------------------
NoProcess == [state |-> "none", key |-> None, port |-> None, early |-> FALSE]
NoRequest == [kind |-> "none", pc |-> "idle", key |-> None, port |-> None,
              ssh |-> None, heard |-> TRUE, alone |-> FALSE]

OnWorker == {"lock", "look", "reserve", "connect", "probe", "insert"}
OnApi    == {"prune", "record", "close", "erase"}

RequestRow ==
  [kind : {"none", "open", "peek", "remove"}, pc : OnWorker \cup OnApi \cup {"idle"},
   key : Services \cup {None}, port : Ports \cup {None}, ssh : Processes \cup {None},
   heard : BOOLEAN, alone : BOOLEAN]
ProcessRow ==
  [state : {"none", "starting", "listening", "dead"}, key : Services \cup {None},
   port : Ports \cup {None}, early : BOOLEAN]

TypeOK ==
  /\ tunnel \in [Services -> Processes \cup {None}]
  /\ reserved \subseteq Ports
  /\ ssh \in [Processes -> ProcessRow]
  /\ up \in [Workspaces -> BOOLEAN]
  /\ lock \in [Workspaces -> Requests \cup {None}]
  /\ req \in [Requests -> RequestRow]
  /\ rows \in [Ports -> Services \cup {None}]
  /\ gone \in [Services -> BOOLEAN]

Init ==
  /\ tunnel = [k \in Services |-> None]
  /\ reserved = {}
  /\ ssh = [c \in Processes |-> NoProcess]
  /\ up \in [Workspaces -> BOOLEAN]
  /\ lock = [w \in Workspaces |-> None]
  /\ req = [r \in Requests |-> NoRequest]
  /\ rows = [p \in Ports |-> None]
  /\ gone = [k \in Services |-> FALSE]

-----------------------------------------------------------------------------
Running(c)   == ssh[c].state \in {"starting", "listening"}
Listened(p)  == \E c \in Processes : ssh[c].state = "listening" /\ ssh[c].port = p
\* Mutant: a port is taken without a look at the reservations.
MutUnmarked(p) == TRUE
\* Mutant: a port is taken without a trial bind.
MutBindable(p) == TRUE
Bindable(p)  == ~Listened(p)
Unmarked(p)  == p \notin reserved
HoldsPort(r) == req[r].pc \in {"connect", "probe"}

\* What curl can find at a port: some process listens there and its guest runs.
\* A dashboard may also be too slow, and a preview answer anything.
MayAnswer(p) ==
  \E c \in Processes :
    ssh[c].state = "listening" /\ ssh[c].port = p /\ up[Home[ssh[c].key]]

\* Mutant: previews and the dashboard are opened without the lock.
MutNeedsLock(kind) == FALSE
\* A preview and the dashboard button hold the lock of the workspace; the lists of
\* sessions and the terminal open the dashboard without it.
NeedsLock(kind) == kind = "open"

\* Mutant: the lock is kept by a request that ends.
MutUnlock(r) == UNCHANGED lock
\* The guard of the workspace and the port reservation are dropped.
Unlock(r) == lock' = [w \in Workspaces |-> IF lock[w] = r THEN None ELSE lock[w]]
Unmark(r) == reserved' = IF HoldsPort(r) THEN reserved \ {req[r].port} ELSE reserved

\* The worker answers with the URL of port p: the API goes on to register it,
\* unless it has stopped waiting or the request is not one it registers.
Answer(r, p) ==
  /\ Unlock(r)
  /\ req' = [req EXCEPT ![r] =
       IF @.kind = "open" /\ @.heard
         THEN [@ EXCEPT !.pc = "prune", !.port = p, !.ssh = None]
         ELSE NoRequest]

\* An error: nothing is registered.
End(r) == Unlock(r) /\ Unmark(r) /\ req' = [req EXCEPT ![r] = NoRequest]

Goto(r, pc) == req' = [req EXCEPT ![r].pc = pc]

-----------------------------------------------------------------------------
(* Opening a tunnel. *)

Ask(r, k, kind) ==
  /\ req[r].pc = "idle"
  /\ kind = "peek" => k \in Dashboards
  /\ kind = "remove" => k \in Previews
  /\ LET others == {s \in Requests : req[s].key = k}
     IN req' = [s \in Requests |->
          CASE s = r ->
                 [NoRequest EXCEPT !.kind = kind, !.key = k,
                    !.pc = IF NeedsLock(kind) THEN "lock"
                           ELSE IF kind = "remove" THEN "close" ELSE "look",
                    !.alone = (kind = "remove" /\ others = {})]
            [] s # r /\ s \in others -> [req[s] EXCEPT !.alone = FALSE]
            [] OTHER -> req[s]]
  /\ gone' = [gone EXCEPT ![k] = @ /\ kind = "remove"]
  /\ UNCHANGED <<tunnel, reserved, ssh, up, lock, rows>>

Lock(r) ==
  /\ req[r].pc = "lock"
  /\ lock[Home[req[r].key]] = None
  /\ lock' = [lock EXCEPT ![Home[req[r].key]] = r]
  /\ Goto(r, "look")
  /\ UNCHANGED <<tunnel, reserved, ssh, up, rows, gone>>

\* What makes the tunnel in the table good enough to be answered again.
Usable(k) ==
  /\ tunnel[k] # None
  /\ IF k \in Dashboards THEN MayAnswer(ssh[tunnel[k]].port) ELSE Running(tunnel[k])

Reuse(r) ==
  LET k == req[r].key IN
  /\ req[r].pc = "look"
  /\ Usable(k)
  /\ Answer(r, ssh[tunnel[k]].port)
  /\ UNCHANGED <<tunnel, reserved, ssh, up, rows, gone>>

\* A dashboard that does not answer in time, and a preview whose process has
\* exited, leave the table, and the process is killed.
Discard(r) ==
  LET k == req[r].key IN
  /\ req[r].pc = "look"
  /\ k \in Previews => ~Usable(k)
  /\ ssh' = [c \in Processes |-> IF c = tunnel[k] THEN NoProcess ELSE ssh[c]]
  /\ tunnel' = [tunnel EXCEPT ![k] = None]
  /\ Goto(r, "reserve")
  /\ UNCHANGED <<reserved, up, lock, rows, gone>>

\* reserve_host_port: the port is marked, then tried with a bind.
Reserve(r) ==
  /\ req[r].pc = "reserve"
  /\ \E p \in Ports :
       /\ Unmarked(p)
       /\ Bindable(p)
       /\ reserved' = reserved \cup {p}
       /\ req' = [req EXCEPT ![r].pc = "connect", ![r].port = p]
  /\ UNCHANGED <<tunnel, ssh, up, lock, rows, gone>>

\* Mutant: an exhausted range falls through to a port outside of it.
MutNoneFree(r) ==
  /\ req[r].pc = "reserve"
  /\ \A p \in Ports : ~Unmarked(p) \/ ~Bindable(p)
  /\ reserved' = reserved \cup {None}
  /\ req' = [req EXCEPT ![r].pc = "connect", ![r].port = None]
  /\ UNCHANGED <<tunnel, ssh, up, lock, rows, gone>>

NoneFree(r) ==
  /\ req[r].pc = "reserve"
  /\ \A p \in Ports : ~Unmarked(p) \/ ~Bindable(p)
  /\ End(r)
  /\ UNCHANGED <<tunnel, ssh, up, rows, gone>>

\* A new ssh process for the request; the VM has been started for it if need be.
Spawn(r, c, early) ==
  /\ ssh[c] = NoProcess
  /\ ssh' = [ssh EXCEPT ![c] = [state |-> "starting", key |-> req[r].key,
                                port |-> req[r].port, early |-> early]]
  /\ up' = [up EXCEPT ![Home[req[r].key]] = TRUE]

\* The dashboard's request keeps the reservation while it waits for an answer.
ForwardDashboard(r) ==
  /\ req[r].pc = "connect"
  /\ req[r].key \in Dashboards
  /\ \E c \in Processes :
       /\ Spawn(r, c, FALSE)
       /\ req' = [req EXCEPT ![r].pc = "probe", ![r].ssh = c]
  /\ UNCHANGED <<tunnel, reserved, lock, rows, gone>>

\* A preview's process is put in the table at once, its reservation released.
ForwardPreview(r) ==
  /\ req[r].pc = "connect"
  /\ req[r].key \in Previews
  /\ \E c \in Processes :
       /\ Spawn(r, c, TRUE)
       /\ tunnel' = [tunnel EXCEPT ![req[r].key] = c]
  /\ Unmark(r)
  /\ Answer(r, req[r].port)
  /\ UNCHANGED <<rows, gone>>

\* The VM does not start, or is started and cannot be reached.
ConnectFails(r) ==
  /\ req[r].pc = "connect"
  /\ \E started \in BOOLEAN :
       up' = [up EXCEPT ![Home[req[r].key]] = @ \/ started]
  /\ End(r)
  /\ UNCHANGED <<tunnel, ssh, rows, gone>>

\* wait_for_hermes_tunnel: an answer at the port releases the reservation.
Probe(r) ==
  /\ req[r].pc = "probe"
  /\ MayAnswer(req[r].port)
  /\ Unmark(r)
  /\ Goto(r, "insert")
  /\ ssh' = [ssh EXCEPT ![req[r].ssh].early = @ \/ ssh[req[r].ssh].state = "starting"]
  /\ UNCHANGED <<tunnel, up, lock, rows, gone>>

\* A process that the new entry replaces is not killed.
Insert(r) ==
  LET old == tunnel[req[r].key] IN
  /\ req[r].pc = "insert"
  /\ tunnel' = [tunnel EXCEPT ![req[r].key] = req[r].ssh]
  /\ ssh' = [c \in Processes |->
       IF c = old /\ ssh[c].state = "dead" THEN NoProcess ELSE ssh[c]]
  /\ Answer(r, req[r].port)
  /\ UNCHANGED <<reserved, up, rows, gone>>

ProbeFails(r) ==
  /\ req[r].pc = "probe"
  /\ ssh' = [ssh EXCEPT ![req[r].ssh] = NoProcess]
  /\ End(r)
  /\ UNCHANGED <<tunnel, up, rows, gone>>

-----------------------------------------------------------------------------
(* The API's side. *)

\* service_tunnel_upsert: two statements, without a transaction.
Prune(r) ==
  /\ req[r].pc = "prune"
  /\ rows' = [p \in Ports |->
       IF rows[p] = req[r].key /\ p # req[r].port THEN None ELSE rows[p]]
  /\ Goto(r, "record")
  /\ UNCHANGED <<tunnel, reserved, ssh, up, lock, gone>>

Record(r) ==
  /\ req[r].pc = "record"
  /\ rows' = [rows EXCEPT ![req[r].port] = req[r].key]
  /\ req' = [req EXCEPT ![r] = NoRequest]
  /\ UNCHANGED <<tunnel, reserved, ssh, up, lock, gone>>

\* Mutant: the entry is removed from the table, its process is not killed.
MutClose(r) ==
  /\ req[r].pc = "close"
  /\ tunnel' = [tunnel EXCEPT ![req[r].key] = None]
  /\ Goto(r, "erase")
  /\ UNCHANGED <<reserved, ssh, up, lock, rows, gone>>

\* close_preview_app, without the lock of the workspace.
Close(r) ==
  LET k == req[r].key IN
  /\ req[r].pc = "close"
  /\ ssh' = [c \in Processes |-> IF c = tunnel[k] THEN NoProcess ELSE ssh[c]]
  /\ tunnel' = [tunnel EXCEPT ![k] = None]
  /\ Goto(r, "erase")
  /\ UNCHANGED <<reserved, up, lock, rows, gone>>

\* The API ignores that the worker could not be reached.
CloseFails(r) ==
  /\ req[r].pc = "close"
  /\ req' = [req EXCEPT ![r].pc = "erase", ![r].alone = FALSE]
  /\ UNCHANGED <<tunnel, reserved, ssh, up, lock, rows, gone>>

Erase(r) ==
  LET k == req[r].key IN
  /\ req[r].pc = "erase"
  /\ rows' = [p \in Ports |-> IF rows[p] = k THEN None ELSE rows[p]]
  /\ gone' = [gone EXCEPT ![k] = @ \/ req[r].alone]
  /\ req' = [req EXCEPT ![r] = NoRequest]
  /\ UNCHANGED <<tunnel, reserved, ssh, up, lock>>

\* The API times out or dies.  What runs on the worker goes on until the worker
\* sees that the connection is closed; then the handler is dropped where it is.
GiveUp(r) ==
  /\ req[r].pc # "idle"
  /\ req[r].heard
  /\ req' = [req EXCEPT ![r] = IF @.pc \in OnWorker THEN [@ EXCEPT !.heard = FALSE]
                               ELSE NoRequest]
  /\ UNCHANGED <<tunnel, reserved, ssh, up, lock, rows, gone>>

\* The ssh process outlives the handle that is dropped (no kill_on_drop).
DropHandler(r) ==
  /\ req[r].pc \in OnWorker
  /\ ~req[r].heard
  /\ End(r)
  /\ ssh' = [c \in Processes |->
       IF c = req[r].ssh /\ ssh[c].state = "starting"
         THEN [ssh[c] EXCEPT !.early = TRUE]
         ELSE IF c = req[r].ssh /\ ssh[c].state = "dead" THEN NoProcess ELSE ssh[c]]
  /\ UNCHANGED <<tunnel, up, rows, gone>>

-----------------------------------------------------------------------------
(* ssh processes, VMs and the worker itself. *)

Referenced(c) ==
  (\E k \in Services : tunnel[k] = c) \/ (\E r \in Requests : req[r].ssh = c)

Dead(c) == IF Referenced(c) THEN [ssh[c] EXCEPT !.state = "dead"] ELSE NoProcess

\* ExitOnForwardFailure: a process that cannot bind its port exits.
Listen(c) ==
  /\ ssh[c].state = "starting"
  /\ up[Home[ssh[c].key]]
  /\ ssh' = [ssh EXCEPT ![c] =
       IF Bindable(ssh[c].port) THEN [@ EXCEPT !.state = "listening"] ELSE Dead(c)]
  /\ UNCHANGED <<tunnel, reserved, up, lock, req, rows, gone>>

\* The connection is lost; while a VM is only frozen it is not.
Exit(c) ==
  /\ Running(c)
  /\ ssh' = [ssh EXCEPT ![c] = Dead(c)]
  /\ UNCHANGED <<tunnel, reserved, up, lock, req, rows, gone>>

VmStops(w) ==
  /\ up[w]
  /\ up' = [up EXCEPT ![w] = FALSE]
  /\ UNCHANGED <<tunnel, reserved, ssh, lock, req, rows, gone>>

\* The control group of the worker is killed with it.
WorkerRestarts ==
  /\ tunnel' = [k \in Services |-> None]
  /\ reserved' = {}
  /\ ssh' = [c \in Processes |-> NoProcess]
  /\ lock' = [w \in Workspaces |-> None]
  /\ req' = [r \in Requests |-> IF req[r].pc \in OnWorker THEN NoRequest ELSE req[r]]
  /\ UNCHANGED <<up, rows, gone>>

-----------------------------------------------------------------------------
WorkerStep(r) ==
  \/ Lock(r) \/ Reuse(r) \/ Discard(r) \/ Reserve(r) \/ NoneFree(r)
  \/ ForwardDashboard(r) \/ ForwardPreview(r) \/ ConnectFails(r)
  \/ Probe(r) \/ Insert(r) \/ ProbeFails(r) \/ DropHandler(r)

ApiStep(r) ==
  \/ \E k \in Services, kind \in {"open", "peek", "remove"} : Ask(r, k, kind)
  \/ Prune(r) \/ Record(r) \/ Close(r) \/ CloseFails(r) \/ Erase(r) \/ GiveUp(r)

HostStep ==
  \/ \E c \in Processes : Listen(c) \/ Exit(c)
  \/ \E w \in Workspaces : VmStops(w)
  \/ WorkerRestarts

Next == (\E r \in Requests : WorkerStep(r) \/ ApiStep(r)) \/ HostStep

Spec == Init /\ [][Next]_vars

-----------------------------------------------------------------------------
(* Properties. *)

\* The reservations are exactly the ports that some request under way holds, and no
\* two requests hold the same one: a port is neither lost nor given twice, also when
\* a request fails, is dropped or times out (PortReservation and its Drop).
PortsExclusive ==
  /\ reserved = {req[r].port : r \in {s \in Requests : HoldsPort(s)}}
  /\ \A r, s \in Requests :
       HoldsPort(r) /\ HoldsPort(s) /\ req[r].port = req[s].port => r = s

\* A process that forwards to a preview is the one in the table, so that a close
\* reaches it: concurrent opens, failures and cancelled requests leave none behind
\* (worker_open_preview holds the workspace's lock around ensure_preview_tunnel).
PreviewsTracked ==
  \A c \in Processes :
    Running(c) /\ ssh[c].key \in Previews => tunnel[ssh[c].key] = c

\* A preview that was removed while nothing else was asked of it is gone for good: no
\* table entry, no process and no registered hostname, until it is opened again
\* (remove_preview_for_workspace, worker_close_preview).
ClosedStaysClosed ==
  \A k \in Previews : gone[k] =>
    /\ tunnel[k] = None
    /\ \A c \in Processes : Running(c) => ssh[c].key # k
    /\ \A p \in Ports : rows[p] # k

\* Two processes are after the same port only if one of them had lost its reservation
\* before it listened: the reservation of reserve_host_port closes the gap between
\* the trial bind and ssh's own, for as long as it is kept.
ClashNeedsEarlyRelease ==
  \A c, d \in Processes :
    Running(c) /\ Running(d) /\ ssh[c].port = ssh[d].port /\ c # d
      => ssh[c].early \/ ssh[d].early

\* Who holds the lock of a workspace is a request for one of its services that is
\* under way on the worker: the lock is not left behind by an error, an answer, a time-out
\* or a dropped handler (the guards of worker_open_hermes and worker_open_preview).
LockHolders ==
  \A w \in Workspaces : lock[w] # None =>
    /\ req[lock[w]].pc \in OnWorker \ {"lock"}
    /\ req[lock[w]].kind = "open"
    /\ Home[req[lock[w]].key] = w

=============================================================================
