------------------------ MODULE ServiceTunnelsProofs ------------------------
(***************************************************************************)
(* Theorems about ServiceTunnels, for any services, ports, processes and   *)
(* requests under way.                                                     *)
(***************************************************************************)
EXTENDS ServiceTunnels, TLAPS

\* What a request may have in hand at each stage.
RowInv(row) ==
  /\ row.pc = "idle" => row = NoRequest
  /\ row.pc # "idle" => row.key \in Services
  /\ row.pc \in OnWorker => row.kind = "open" \/ (row.kind = "peek" /\ row.key \in Dashboards)
  /\ row.pc \in {"lock", "prune", "record"} => row.kind = "open"
  /\ row.pc \in {"close", "erase"} => row.kind = "remove" /\ row.key \in Previews
  /\ row.pc \in {"connect", "probe", "insert"} => row.port \in Ports
  /\ row.pc \in {"probe", "insert"} => row.key \in Dashboards

RequestInv == \A r \in Requests : RowInv(req[r])

\* And the other way round: who is past the lock holds it.
Holder(r) == req[r].kind = "open" /\ req[r].pc \in OnWorker \ {"lock"}

LockInv ==
  \A w \in Workspaces, r \in Requests :
    lock[w] = r <=> Holder(r) /\ Home[req[r].key] = w

\* Nothing is in the table while a new process for a preview is on its way.
TableInv ==
  /\ PreviewsTracked
  /\ \A r \in Requests :
       req[r].pc \in {"reserve", "connect"} /\ req[r].key \in Previews
         => tunnel[req[r].key] = None

\* A removal that has been alone since it was asked for, and what it leaves.
GoneInv ==
  /\ \A r, s \in Requests : req[r].alone /\ req[s].key = req[r].key => r = s
  /\ \A r \in Requests : req[r].alone => req[r].pc \in {"close", "erase"}
  /\ \A r \in Requests :
       req[r].alone /\ req[r].pc = "erase" => tunnel[req[r].key] = None
  /\ \A k \in Previews : gone[k] =>
       /\ \A r \in Requests : req[r].key = k => req[r].kind = "remove"
       /\ tunnel[k] = None
       /\ \A p \in Ports : rows[p] # k

\* A process that starts with its reservation has a request that keeps it, and nobody
\* else who still has his is at the port that a request has reserved.
EarlyInv ==
  /\ \A c \in Processes : ssh[c].state = "starting" /\ ~ssh[c].early =>
       \E r \in Requests :
         req[r].pc = "probe" /\ req[r].ssh = c /\ req[r].port = ssh[c].port
  /\ \A r \in Requests : req[r].pc = "connect" =>
       \A c \in Processes : Running(c) /\ ssh[c].port = req[r].port => ssh[c].early
  /\ ClashNeedsEarlyRelease

TunnelInv ==
  TypeOK /\ RequestInv /\ PortsExclusive /\ LockInv /\ TableInv /\ GoneInv /\ EarlyInv

-----------------------------------------------------------------------------
(* Types. *)

LEMMA NoneIsNothing ==
  /\ None \notin Services /\ None \notin Ports /\ None \notin Processes /\ None \notin Requests
  /\ NoRequest \in RequestRow /\ NoProcess \in ProcessRow
  /\ \A k \in Services : Home[k] \in Workspaces
BY NoneAssumption, KeysAssumption DEF NoRequest, NoProcess, RequestRow, ProcessRow, OnWorker

\* A request that goes on, and a process that changes, stay within their types.
LEMMA RequestTyped ==
  ASSUME TypeOK, NEW r \in Requests, NEW row \in RequestRow
  PROVE  [req EXCEPT ![r] = row] \in [Requests -> RequestRow]
BY DEF TypeOK

LEMMA RequestChanged ==
  ASSUME NEW row \in RequestRow, NEW pc \in OnWorker \cup OnApi
  PROVE  /\ [row EXCEPT !.pc = pc] \in RequestRow
         /\ \A p \in Ports \cup {None} : [row EXCEPT !.pc = pc, !.port = p] \in RequestRow
         /\ \A c \in Processes \cup {None} : [row EXCEPT !.pc = pc, !.ssh = c] \in RequestRow
         /\ \A p \in Ports \cup {None}, c \in Processes \cup {None} :
              [row EXCEPT !.pc = pc, !.port = p, !.ssh = c] \in RequestRow
         /\ \A b \in BOOLEAN : /\ [row EXCEPT !.pc = pc, !.alone = b] \in RequestRow
                              /\ [row EXCEPT !.alone = b] \in RequestRow
                              /\ [row EXCEPT !.heard = b] \in RequestRow
<1> USE DEF RequestRow
<1>1. [row EXCEPT !.pc = pc] \in RequestRow
  OBVIOUS
<1>2. \A p \in Ports \cup {None} : [row EXCEPT !.pc = pc, !.port = p] \in RequestRow
  OBVIOUS
<1>3. \A c \in Processes \cup {None} : [row EXCEPT !.pc = pc, !.ssh = c] \in RequestRow
  OBVIOUS
<1>4. \A p \in Ports \cup {None}, c \in Processes \cup {None} :
        [row EXCEPT !.pc = pc, !.port = p, !.ssh = c] \in RequestRow
  OBVIOUS
<1>5. \A b \in BOOLEAN : [row EXCEPT !.pc = pc, !.alone = b] \in RequestRow
  OBVIOUS
<1>6. \A b \in BOOLEAN : [row EXCEPT !.alone = b] \in RequestRow
  OBVIOUS
<1>7. \A b \in BOOLEAN : [row EXCEPT !.heard = b] \in RequestRow
  OBVIOUS
<1> QED
  BY <1>1, <1>2, <1>3, <1>4, <1>5, <1>6, <1>7

LEMMA GotoTyped ==
  ASSUME TypeOK, NEW r \in Requests, NEW pc \in OnWorker \cup OnApi, Goto(r, pc)
  PROVE  req' \in [Requests -> RequestRow]
<1>1. [req[r] EXCEPT !.pc = pc] \in RequestRow
  BY RequestChanged DEF TypeOK
<1> QED
  BY <1>1, RequestTyped DEF Goto

LEMMA AnswerTyped ==
  ASSUME TypeOK, NEW r \in Requests, NEW p \in Ports \cup {None}, Answer(r, p)
  PROVE  req' \in [Requests -> RequestRow] /\ lock' \in [Workspaces -> Requests \cup {None}]
<1>1. [req[r] EXCEPT !.pc = "prune", !.port = p, !.ssh = None] \in RequestRow
  BY RequestChanged DEF TypeOK, OnApi
<1>2. req' \in [Requests -> RequestRow]
  BY <1>1, RequestTyped, NoneIsNothing DEF Answer
<1> QED
  BY <1>2 DEF Answer, Unlock, TypeOK

LEMMA EndTyped ==
  ASSUME TypeOK, NEW r \in Requests, End(r)
  PROVE  /\ req' \in [Requests -> RequestRow] /\ lock' \in [Workspaces -> Requests \cup {None}]
         /\ reserved' \subseteq Ports
<1>1. req' \in [Requests -> RequestRow]
  BY RequestTyped, NoneIsNothing DEF End
<1> QED
  BY <1>1 DEF End, Unlock, Unmark, TypeOK

LEMMA ProcessTyped ==
  ASSUME TypeOK, NEW c \in Processes
  PROVE  /\ [ssh[c] EXCEPT !.early = TRUE] \in ProcessRow
         /\ [ssh[c] EXCEPT !.state = "listening"] \in ProcessRow
         /\ Dead(c) \in ProcessRow /\ ssh[c] \in ProcessRow
         /\ \A row \in ProcessRow : [ssh EXCEPT ![c] = row] \in [Processes -> ProcessRow]
BY NoneIsNothing DEF TypeOK, ProcessRow, Dead

LEMMA SpawnTyped ==
  ASSUME TypeOK, NEW r \in Requests, NEW c \in Processes, NEW early \in BOOLEAN,
         Spawn(r, c, early)
  PROVE  ssh' \in [Processes -> ProcessRow] /\ up' \in [Workspaces -> BOOLEAN]
<1>1. req[r].key \in Services \cup {None} /\ req[r].port \in Ports \cup {None}
  BY DEF TypeOK, RequestRow
<1>2. [state |-> "starting", key |-> req[r].key, port |-> req[r].port, early |-> early]
        \in ProcessRow
  BY <1>1 DEF ProcessRow
<1> QED
  BY <1>2, ProcessTyped DEF Spawn, TypeOK

LEMMA OpeningKeepsType ==
  ASSUME TypeOK, RequestInv, NEW r \in Requests,
         \/ Lock(r) \/ Reuse(r) \/ Discard(r) \/ Reserve(r) \/ NoneFree(r)
         \/ ForwardDashboard(r) \/ ForwardPreview(r) \/ ConnectFails(r)
  PROVE  TypeOK'
<1>1. CASE Lock(r)
  BY <1>1, GotoTyped DEF Lock, TypeOK, OnWorker
<1>2. CASE Reuse(r)
  <2>1. ssh[tunnel[req[r].key]].port \in Ports \cup {None}
    BY <1>2 DEF Reuse, Usable, RequestInv, RowInv, TypeOK, ProcessRow
  <2> QED
    BY <1>2, <2>1, AnswerTyped DEF Reuse, TypeOK
<1>3. CASE Discard(r)
  <2>1. ssh' \in [Processes -> ProcessRow] /\ tunnel' \in [Services -> Processes \cup {None}]
    BY <1>3, NoneIsNothing DEF Discard, TypeOK
  <2> QED
    BY <1>3, <2>1, GotoTyped DEF Discard, TypeOK, OnWorker
<1>4. CASE Reserve(r)
  <2>1. PICK p \in Ports : reserved' = reserved \cup {p}
                         /\ req' = [req EXCEPT ![r].pc = "connect", ![r].port = p]
    BY <1>4 DEF Reserve
  <2>2. [req[r] EXCEPT !.pc = "connect", !.port = p] \in RequestRow
    BY RequestChanged DEF TypeOK, OnWorker
  <2>3. req' \in [Requests -> RequestRow]
    BY <2>1, <2>2, RequestTyped DEF TypeOK
  <2> QED
    BY <1>4, <2>1, <2>3 DEF Reserve, TypeOK
<1>5. CASE NoneFree(r)
  BY <1>5, EndTyped DEF NoneFree, TypeOK
<1>6. CASE ForwardDashboard(r)
  <2>1. PICK c \in Processes : Spawn(r, c, FALSE)
                         /\ req' = [req EXCEPT ![r].pc = "probe", ![r].ssh = c]
    BY <1>6 DEF ForwardDashboard
  <2>2. [req[r] EXCEPT !.pc = "probe", !.ssh = c] \in RequestRow
    BY RequestChanged DEF TypeOK, OnWorker
  <2>3. req' \in [Requests -> RequestRow]
    BY <2>1, <2>2, RequestTyped DEF TypeOK
  <2> QED
    BY <1>6, <2>1, <2>3, SpawnTyped DEF ForwardDashboard, TypeOK
<1>7. CASE ForwardPreview(r)
  <2>1. PICK c \in Processes : Spawn(r, c, TRUE) /\ tunnel' = [tunnel EXCEPT ![req[r].key] = c]
    BY <1>7 DEF ForwardPreview
  <2>2. req[r].port \in Ports \cup {None}
    BY DEF TypeOK, RequestRow
  <2>3. reserved' \subseteq Ports
    BY <1>7 DEF ForwardPreview, Unmark, TypeOK
  <2> QED
    BY <1>7, <2>1, <2>2, <2>3, SpawnTyped, AnswerTyped DEF ForwardPreview, TypeOK
<1>8. CASE ConnectFails(r)
  <2>1. up' \in [Workspaces -> BOOLEAN]
    BY <1>8 DEF ConnectFails, TypeOK
  <2> QED
    BY <1>8, <2>1, EndTyped DEF ConnectFails, TypeOK
<1> QED
  BY <1>1, <1>2, <1>3, <1>4, <1>5, <1>6, <1>7, <1>8

LEMMA WaitingKeepsType ==
  ASSUME TypeOK, NEW r \in Requests,
         Probe(r) \/ Insert(r) \/ ProbeFails(r) \/ DropHandler(r)
  PROVE  TypeOK'
<1>1. CASE Probe(r)
  <2>1. ssh' \in [Processes -> ProcessRow]
    <3> DEFINE c == req[r].ssh
               early == ssh[c].early \/ ssh[c].state = "starting"
    <3>1. ssh' = [ssh EXCEPT ![c] = [ssh[c] EXCEPT !.early = early]]
      BY <1>1 DEF Probe
    <3>2. CASE c \in Processes
      <4>1. \A b \in BOOLEAN : [ssh[c] EXCEPT !.early = b] \in ProcessRow
        BY <3>2 DEF TypeOK, ProcessRow
      <4>2. early \in BOOLEAN
        OBVIOUS
      <4>3. [ssh[c] EXCEPT !.early = early] \in ProcessRow
        BY <4>1, <4>2, Zenon
      <4> QED
        BY <3>1, <3>2, <4>3, ProcessTyped
    <3>3. CASE c \notin Processes
      BY <3>1, <3>3 DEF TypeOK
    <3> QED
      BY <3>2, <3>3
  <2>2. reserved' \subseteq Ports
    BY <1>1 DEF Probe, Unmark, TypeOK
  <2> QED
    BY <1>1, <2>1, <2>2, GotoTyped DEF Probe, TypeOK, OnWorker
<1>2. CASE Insert(r)
  <2>1. req[r].port \in Ports \cup {None} /\ req[r].ssh \in Processes \cup {None}
    BY DEF TypeOK, RequestRow
  <2>2. ssh' \in [Processes -> ProcessRow] /\ tunnel' \in [Services -> Processes \cup {None}]
    BY <1>2, <2>1, NoneIsNothing DEF Insert, TypeOK
  <2> QED
    BY <1>2, <2>1, <2>2, AnswerTyped DEF Insert, TypeOK
<1>3. CASE ProbeFails(r)
  <2>1. ssh' \in [Processes -> ProcessRow]
    BY <1>3, NoneIsNothing DEF ProbeFails, TypeOK
  <2> QED
    BY <1>3, <2>1, EndTyped DEF ProbeFails, TypeOK
<1>4. CASE DropHandler(r)
  <2>1. \A c \in Processes : ssh[c] \in ProcessRow /\ [ssh[c] EXCEPT !.early = TRUE] \in ProcessRow
    BY ProcessTyped
  <2>2. ssh' \in [Processes -> ProcessRow]
    BY <1>4, <2>1, NoneIsNothing DEF DropHandler
  <2> QED
    BY <1>4, <2>2, EndTyped DEF DropHandler, TypeOK
<1> QED
  BY <1>1, <1>2, <1>3, <1>4

LEMMA ApiKeepsType ==
  ASSUME TypeOK, NEW r \in Requests, ApiStep(r)
  PROVE  TypeOK'
<1>1. ASSUME NEW k \in Services, NEW kind \in {"open", "peek", "remove"}, Ask(r, k, kind)
      PROVE  TypeOK'
  <2> DEFINE pc == IF NeedsLock(kind) THEN "lock" ELSE IF kind = "remove" THEN "close" ELSE "look"
             alone == kind = "remove" /\ {s \in Requests : req[s].key = k} = {}
             new == [NoRequest EXCEPT !.kind = kind, !.key = k, !.pc = pc, !.alone = alone]
  <2>1. new \in RequestRow
    BY DEF NoRequest, RequestRow, OnWorker, OnApi
  <2>2. \A s \in Requests : req[s] \in RequestRow /\ [req[s] EXCEPT !.alone = FALSE] \in RequestRow
    BY RequestChanged DEF TypeOK, OnWorker
  <2>3. \A s \in Requests : req'[s] \in {new, [req[s] EXCEPT !.alone = FALSE], req[s]}
    BY <1>1 DEF Ask
  <2>4. req' \in [Requests -> RequestRow]
    <3> HIDE DEF new
    <3> QED
      BY <1>1, <2>1, <2>2, <2>3 DEF Ask
  <2>5. gone' \in [Services -> BOOLEAN]
    BY <1>1 DEF Ask, TypeOK
  <2> QED
    BY <1>1, <2>4, <2>5 DEF Ask, TypeOK
<1>2. CASE Prune(r)
  <2>1. rows' \in [Ports -> Services \cup {None}]
    BY <1>2 DEF Prune, TypeOK
  <2> QED
    BY <1>2, <2>1, GotoTyped DEF Prune, TypeOK, OnApi
<1>3. CASE Record(r)
  <2>1. rows' \in [Ports -> Services \cup {None}]
    BY <1>3 DEF Record, TypeOK, RequestRow
  <2> QED
    BY <1>3, <2>1, RequestTyped, NoneIsNothing DEF Record, TypeOK
<1>4. CASE Close(r)
  <2>1. ssh' \in [Processes -> ProcessRow] /\ tunnel' \in [Services -> Processes \cup {None}]
    BY <1>4, NoneIsNothing DEF Close, TypeOK
  <2> QED
    BY <1>4, <2>1, GotoTyped DEF Close, TypeOK, OnApi
<1>5. CASE CloseFails(r)
  <2>1. [req[r] EXCEPT !.pc = "erase", !.alone = FALSE] \in RequestRow
    BY RequestChanged DEF TypeOK, OnApi
  <2> QED
    BY <1>5, <2>1, RequestTyped DEF CloseFails, TypeOK
<1>6. CASE Erase(r)
  <2>1. /\ rows' \in [Ports -> Services \cup {None}]
        /\ gone' \in [Services -> BOOLEAN]
    BY <1>6 DEF Erase, TypeOK, RequestRow
  <2> QED
    BY <1>6, <2>1, RequestTyped, NoneIsNothing DEF Erase, TypeOK
<1>7. CASE GiveUp(r)
  <2>1. [req[r] EXCEPT !.heard = FALSE] \in RequestRow
    BY RequestChanged DEF TypeOK, OnApi
  <2> QED
    BY <1>7, <2>1, RequestTyped, NoneIsNothing DEF GiveUp, TypeOK
<1> QED
  BY <1>1, <1>2, <1>3, <1>4, <1>5, <1>6, <1>7 DEF ApiStep

LEMMA HostKeepsType == TypeOK /\ HostStep => TypeOK'
<1> SUFFICES ASSUME TypeOK, HostStep PROVE TypeOK'
  OBVIOUS
<1>1. ASSUME NEW c \in Processes, Listen(c) \/ Exit(c) PROVE TypeOK'
  <2>1. ssh' \in [Processes -> ProcessRow]
    <3>1. ssh' = [ssh EXCEPT ![c] = Dead(c)]
            \/ ssh' = [ssh EXCEPT ![c] = [ssh[c] EXCEPT !.state = "listening"]]
      BY <1>1 DEF Listen, Exit
    <3> QED
      BY <3>1, ProcessTyped
  <2> QED
    BY <1>1, <2>1 DEF Listen, Exit, TypeOK
<1>2. ASSUME NEW w \in Workspaces, VmStops(w) PROVE TypeOK'
  BY <1>2 DEF VmStops, TypeOK
<1>3. CASE WorkerRestarts
  BY <1>3, NoneIsNothing DEF WorkerRestarts, TypeOK
<1> QED
  BY <1>1, <1>2, <1>3 DEF HostStep

LEMMA TypeKept == TypeOK /\ RequestInv /\ [Next]_vars => TypeOK'
<1> SUFFICES ASSUME TypeOK, RequestInv, [Next]_vars PROVE TypeOK'
  OBVIOUS
<1>1. ASSUME NEW r \in Requests, WorkerStep(r) PROVE TypeOK'
  BY <1>1, OpeningKeepsType, WaitingKeepsType DEF WorkerStep
<1>2. CASE UNCHANGED vars
  BY <1>2 DEF vars, TypeOK
<1> QED
  BY <1>1, <1>2, ApiKeepsType, HostKeepsType DEF Next

-----------------------------------------------------------------------------
(* The stages of a request. *)

\* The rows that a step of r leaves and makes, by what it does to req.
LEMMA RowsAfter ==
  ASSUME TypeOK, NEW r \in Requests, NEW row, req' = [req EXCEPT ![r] = row]
  PROVE  req'[r] = row /\ \A s \in Requests \ {r} : req'[s] = req[s]
BY DEF TypeOK

LEMMA RowInvKept ==
  ASSUME TypeOK, RequestInv, NEW r \in Requests, NEW row, req' = [req EXCEPT ![r] = row],
         RowInv(row)
  PROVE  RequestInv'
<1>1. ASSUME NEW s \in Requests PROVE RowInv(req'[s])
  <2>1. req'[s] = row \/ req'[s] = req[s]
    BY RowsAfter
  <2> QED
    BY <2>1 DEF RequestInv
<1> QED
  BY <1>1 DEF RequestInv, RowInv, NoRequest

LEMMA NoRequestInv == RowInv(NoRequest)
BY DEF RowInv, NoRequest, OnWorker

LEMMA AnswerKeepsRequests ==
  ASSUME TypeOK, RequestInv, NEW r \in Requests, NEW p, Answer(r, p), req[r].pc \in OnWorker
  PROVE  RequestInv'
<1> DEFINE row == [req[r] EXCEPT !.pc = "prune", !.port = p, !.ssh = None]
<1>1. req[r].kind = "open" => RowInv(row)
  BY DEF RowInv, RequestInv, TypeOK, RequestRow, OnWorker
<1> HIDE DEF row
<1>2. req' = [req EXCEPT ![r] = IF req[r].kind = "open" /\ req[r].heard THEN row ELSE NoRequest]
  BY DEF Answer, row
<1> QED
  BY <1>1, <1>2, RowInvKept, NoRequestInv

LEMMA EndKeepsRequests ==
  ASSUME TypeOK, RequestInv, NEW r \in Requests, End(r)
  PROVE  RequestInv'
BY RowInvKept, NoRequestInv DEF End

LEMMA WorkerKeepsRequests ==
  ASSUME TypeOK, RequestInv, NEW r \in Requests, WorkerStep(r)
  PROVE  RequestInv'
<1>0. req[r] \in RequestRow /\ RowInv(req[r])
  BY DEF TypeOK, RequestInv
<1> USE DEF OnWorker
<1>1. ASSUME NEW pc \in {"look", "reserve"}, Goto(r, pc), req[r].pc \in {"lock", "look"}
      PROVE  RequestInv'
  <2>1. RowInv([req[r] EXCEPT !.pc = pc])
    BY <1>0, <1>1 DEF RowInv, RequestRow
  <2> QED
    BY <1>1, <2>1, RowInvKept DEF Goto
<1>2. CASE Lock(r) \/ Discard(r)
  BY <1>1, <1>2 DEF Lock, Discard
<1>3. CASE Reuse(r)
  BY <1>3, AnswerKeepsRequests DEF Reuse
<1>4. CASE Reserve(r)
  <2>1. PICK p \in Ports : req' = [req EXCEPT ![r].pc = "connect", ![r].port = p]
    BY <1>4 DEF Reserve
  <2>2. RowInv([req[r] EXCEPT !.pc = "connect", !.port = p])
    BY <1>0, <1>4 DEF RowInv, RequestRow, Reserve
  <2>3. req' = [req EXCEPT ![r] = [req[r] EXCEPT !.pc = "connect", !.port = p]]
    BY <2>1 DEF TypeOK
  <2> QED
    BY <2>2, <2>3, RowInvKept
<1>5. CASE NoneFree(r) \/ ConnectFails(r) \/ ProbeFails(r) \/ DropHandler(r)
  BY <1>5, EndKeepsRequests DEF NoneFree, ConnectFails, ProbeFails, DropHandler
<1>6. CASE ForwardDashboard(r)
  <2>1. PICK c \in Processes : req' = [req EXCEPT ![r].pc = "probe", ![r].ssh = c]
    BY <1>6 DEF ForwardDashboard
  <2>2. RowInv([req[r] EXCEPT !.pc = "probe", !.ssh = c])
    BY <1>0, <1>6 DEF RowInv, RequestRow, ForwardDashboard
  <2>3. req' = [req EXCEPT ![r] = [req[r] EXCEPT !.pc = "probe", !.ssh = c]]
    BY <2>1 DEF TypeOK
  <2> QED
    BY <2>2, <2>3, RowInvKept
<1>7. CASE ForwardPreview(r) \/ Insert(r)
  BY <1>7, AnswerKeepsRequests DEF ForwardPreview, Insert
<1>8. CASE Probe(r)
  <2>1. RowInv([req[r] EXCEPT !.pc = "insert"])
    BY <1>0, <1>8 DEF RowInv, RequestRow, Probe
  <2> QED
    BY <1>8, <2>1, RowInvKept DEF Probe, Goto
<1> QED
  BY <1>2, <1>3, <1>4, <1>5, <1>6, <1>7, <1>8 DEF WorkerStep

\* Ask makes the row of r, and changes what the others know of being alone.
SameBut(s) ==
  /\ req'[s].kind = req[s].kind /\ req'[s].pc = req[s].pc /\ req'[s].key = req[s].key
  /\ req'[s].port = req[s].port /\ req'[s].ssh = req[s].ssh

LEMMA Asked ==
  ASSUME TypeOK, NEW r \in Requests, NEW k \in Services,
         NEW kind \in {"open", "peek", "remove"}, Ask(r, k, kind)
  PROVE  /\ req[r].pc = "idle" /\ (kind = "peek" => k \in Dashboards)
         /\ kind = "remove" => k \in Previews
         /\ req'[r].kind = kind /\ req'[r].key = k /\ req'[r].ssh = None
         /\ req'[r].pc = CASE kind = "open" -> "lock" [] kind = "peek" -> "look"
                           [] kind = "remove" -> "close"
         /\ req'[r].alone => kind = "remove" /\ \A s \in Requests : req[s].key # k
         /\ \A s \in Requests \ {r} :
              SameBut(s) /\ (req'[s].alone => req[s].alone /\ req[s].key # k)
<1> DEFINE pc == IF NeedsLock(kind) THEN "lock" ELSE IF kind = "remove" THEN "close" ELSE "look"
           alone == kind = "remove" /\ {s \in Requests : req[s].key = k} = {}
           row == [NoRequest EXCEPT !.kind = kind, !.key = k, !.pc = pc, !.alone = alone]
<1>1. req'[r] = row
  BY DEF Ask
<1>2. row.kind = kind /\ row.key = k /\ row.pc = pc /\ row.ssh = None /\ row.alone = alone
  BY DEF NoRequest
<1>3. pc = CASE kind = "open" -> "lock" [] kind = "peek" -> "look" [] kind = "remove" -> "close"
  BY DEF NeedsLock
<1>4. ASSUME NEW s \in Requests \ {r}
      PROVE  SameBut(s) /\ (req'[s].alone => req[s].alone /\ req[s].key # k)
  <2>1. req[s] \in RequestRow
    BY DEF TypeOK
  <2>2. req'[s] = IF req[s].key = k THEN [req[s] EXCEPT !.alone = FALSE] ELSE req[s]
    BY DEF Ask
  <2> QED
    BY <2>1, <2>2 DEF SameBut, RequestRow
<1>5. alone => \A s \in Requests : req[s].key # k
  OBVIOUS
<1>6. /\ req[r].pc = "idle" /\ (kind = "peek" => k \in Dashboards)
      /\ kind = "remove" => k \in Previews
  BY DEF Ask
<1> HIDE DEF pc, alone, row
<1>7. req'[r].alone = alone
  BY <1>1, <1>2
<1>8. alone => kind = "remove"
  BY DEF alone
<1>9. req'[r].alone => kind = "remove" /\ \A s \in Requests : req[s].key # k
  BY <1>5, <1>7, <1>8, Zenon
<1>10. req'[r].kind = kind /\ req'[r].key = k /\ req'[r].ssh = None /\ req'[r].pc = pc
  BY <1>1, <1>2
<1> QED
  BY <1>3, <1>4, <1>6, <1>9, <1>10

LEMMA ApiKeepsRequests ==
  ASSUME TypeOK, RequestInv, NEW r \in Requests, ApiStep(r)
  PROVE  RequestInv'
<1>0. req[r] \in RequestRow /\ RowInv(req[r])
  BY DEF TypeOK, RequestInv
<1> USE DEF OnWorker, OnApi
<1>1. ASSUME NEW k \in Services, NEW kind \in {"open", "peek", "remove"}, Ask(r, k, kind)
      PROVE  RequestInv'
  <2>1. RowInv(req'[r])
    <3>1. /\ kind = "peek" => k \in Dashboards
          /\ kind = "remove" => k \in Previews
          /\ req'[r].kind = kind /\ req'[r].key = k
          /\ req'[r].pc = CASE kind = "open" -> "lock" [] kind = "peek" -> "look"
                            [] kind = "remove" -> "close"
      BY <1>1, Asked
    <3> QED
      BY <3>1 DEF RowInv
  <2>2. ASSUME NEW s \in Requests \ {r} PROVE RowInv(req'[s])
    <3>1. RowInv(req[s]) /\ req[s] \in RequestRow
      BY DEF RequestInv, TypeOK
    <3>2. req[s].pc = "idle" => req[s].key # k
      BY <3>1, NoneIsNothing DEF RowInv, NoRequest
    <3>3. req[s].pc # "idle" => RowInv(req'[s])
      BY <1>1, <3>1, Asked DEF SameBut, RowInv
    <3>4. req[s].pc = "idle" => req'[s] = req[s]
      BY <1>1, <3>2 DEF Ask
    <3> QED
      BY <3>1, <3>3, <3>4
  <2> QED
    BY <2>1, <2>2 DEF RequestInv, RowInv, NoRequest
<1>2. CASE Prune(r)
  <2>1. RowInv([req[r] EXCEPT !.pc = "record"])
    BY <1>0, <1>2 DEF RowInv, RequestRow, Prune
  <2> QED
    BY <1>2, <2>1, RowInvKept DEF Prune, Goto
<1>3. CASE Record(r) \/ Erase(r)
  BY <1>3, RowInvKept, NoRequestInv DEF Record, Erase
<1>4. CASE Close(r)
  <2>1. RowInv([req[r] EXCEPT !.pc = "erase"])
    BY <1>0, <1>4 DEF RowInv, RequestRow, Close
  <2> QED
    BY <1>4, <2>1, RowInvKept DEF Close, Goto
<1>5. CASE CloseFails(r)
  <2>1. RowInv([req[r] EXCEPT !.pc = "erase", !.alone = FALSE])
    BY <1>0, <1>5 DEF RowInv, RequestRow, CloseFails
  <2>2. req' = [req EXCEPT ![r] = [req[r] EXCEPT !.pc = "erase", !.alone = FALSE]]
    BY <1>5 DEF CloseFails, TypeOK
  <2> QED
    BY <2>1, <2>2, RowInvKept
<1>6. CASE GiveUp(r)
  <2>1. RowInv([req[r] EXCEPT !.heard = FALSE])
    BY <1>0, <1>6 DEF RowInv, RequestRow, GiveUp
  <2>2. \E row \in {NoRequest, [req[r] EXCEPT !.heard = FALSE]} : req' = [req EXCEPT ![r] = row]
    BY <1>6 DEF GiveUp
  <2> QED
    BY <2>1, <2>2, RowInvKept, NoRequestInv
<1> QED
  BY <1>1, <1>2, <1>3, <1>4, <1>5, <1>6 DEF ApiStep

LEMMA RequestsKept == TypeOK /\ RequestInv /\ [Next]_vars => RequestInv'
<1> SUFFICES ASSUME TypeOK, RequestInv, [Next]_vars PROVE RequestInv'
  OBVIOUS
<1>1. ASSUME UNCHANGED req PROVE RequestInv'
  BY <1>1 DEF RequestInv, RowInv, NoRequest
<1>2. CASE HostStep
  <2>1. CASE WorkerRestarts
    <3>1. \A r \in Requests : req'[r] \in {NoRequest, req[r]}
      BY <2>1 DEF WorkerRestarts
    <3> QED
      BY <3>1, NoRequestInv DEF RequestInv, RowInv, NoRequest
  <2> QED
    BY <1>1, <1>2, <2>1 DEF HostStep, Listen, Exit, VmStops
<1> QED
  BY <1>1, <1>2, WorkerKeepsRequests, ApiKeepsRequests DEF Next, vars

-----------------------------------------------------------------------------
(* What the steps of a request do to the rows, field by field. *)

OthersStay(r) == \A s \in Requests \ {r} : req'[s] = req[s]

\* Only the stage of r changes.
To(r, pc) ==
  /\ req'[r].pc = pc /\ req'[r].kind = req[r].kind /\ req'[r].key = req[r].key
  /\ req'[r].port = req[r].port /\ req'[r].ssh = req[r].ssh /\ req'[r].alone = req[r].alone

LEMMA Went ==
  ASSUME TypeOK, NEW r \in Requests, NEW pc, Goto(r, pc)
  PROVE  To(r, pc) /\ OthersStay(r)
<1>1. req[r] \in RequestRow
  BY DEF TypeOK
<1>2. req'[r] = [req[r] EXCEPT !.pc = pc]
  BY DEF Goto, TypeOK
<1>3. OthersStay(r)
  BY DEF Goto, TypeOK, OthersStay
<1> QED
  BY <1>1, <1>2, <1>3 DEF To, RequestRow

LEMMA Answered ==
  ASSUME TypeOK, NEW r \in Requests, NEW p, Answer(r, p)
  PROVE  /\ OthersStay(r) /\ Unlock(r)
         /\ \/ req'[r] = NoRequest
            \/ /\ req'[r].pc = "prune" /\ req'[r].kind = "open" /\ req'[r].key = req[r].key
               /\ req'[r].port = p /\ req'[r].ssh = None /\ req'[r].alone = req[r].alone
               /\ req[r].kind = "open"
<1> DEFINE row == [req[r] EXCEPT !.pc = "prune", !.port = p, !.ssh = None]
<1>1. /\ row.pc = "prune" /\ row.kind = req[r].kind /\ row.key = req[r].key
      /\ row.port = p /\ row.ssh = None /\ row.alone = req[r].alone
  BY DEF TypeOK, RequestRow
<1>2. req' = [req EXCEPT ![r] = IF req[r].kind = "open" /\ req[r].heard THEN row ELSE NoRequest]
  BY DEF Answer
<1> HIDE DEF row
<1>3. OthersStay(r)
  BY <1>2 DEF TypeOK, OthersStay
<1>4. req'[r] = IF req[r].kind = "open" /\ req[r].heard THEN row ELSE NoRequest
  BY <1>2 DEF TypeOK
<1> QED
  BY <1>1, <1>3, <1>4 DEF Answer

LEMMA Ended ==
  ASSUME TypeOK, NEW r \in Requests,
         \/ End(r)
         \/ Record(r) \/ Erase(r)
         \/ GiveUp(r) /\ req[r].pc \notin OnWorker
  PROVE  req'[r] = NoRequest /\ OthersStay(r)
BY DEF End, Record, Erase, GiveUp, TypeOK, OthersStay

LEMMA Reserved ==
  ASSUME TypeOK, NEW r \in Requests, NEW p \in Ports,
         req' = [req EXCEPT ![r].pc = "connect", ![r].port = p]
  PROVE  /\ OthersStay(r)
         /\ req'[r].pc = "connect" /\ req'[r].kind = req[r].kind /\ req'[r].key = req[r].key
         /\ req'[r].port = p /\ req'[r].ssh = req[r].ssh /\ req'[r].alone = req[r].alone
<1> DEFINE row == [req[r] EXCEPT !.pc = "connect", !.port = p]
<1>1. /\ row.pc = "connect" /\ row.kind = req[r].kind /\ row.key = req[r].key
      /\ row.port = p /\ row.ssh = req[r].ssh /\ row.alone = req[r].alone
  <2>1. req[r] \in RequestRow
    BY DEF TypeOK
  <2> QED
    BY <2>1 DEF RequestRow
<1>2. req'[r] = row
  BY DEF TypeOK
<1>3. OthersStay(r)
  BY DEF TypeOK, OthersStay
<1> HIDE DEF row
<1> QED
  BY <1>1, <1>2, <1>3

LEMMA Forwarded ==
  ASSUME TypeOK, NEW r \in Requests, NEW c \in Processes,
         req' = [req EXCEPT ![r].pc = "probe", ![r].ssh = c]
  PROVE  /\ OthersStay(r)
         /\ req'[r].pc = "probe" /\ req'[r].kind = req[r].kind /\ req'[r].key = req[r].key
         /\ req'[r].port = req[r].port /\ req'[r].ssh = c /\ req'[r].alone = req[r].alone
<1> DEFINE row == [req[r] EXCEPT !.pc = "probe", !.ssh = c]
<1>1. /\ row.pc = "probe" /\ row.kind = req[r].kind /\ row.key = req[r].key
      /\ row.port = req[r].port /\ row.ssh = c /\ row.alone = req[r].alone
  <2>1. req[r] \in RequestRow
    BY DEF TypeOK
  <2> QED
    BY <2>1 DEF RequestRow
<1>2. req'[r] = row
  BY DEF TypeOK
<1>3. OthersStay(r)
  BY DEF TypeOK, OthersStay
<1> HIDE DEF row
<1> QED
  BY <1>1, <1>2, <1>3

LEMMA NotHeard ==
  ASSUME TypeOK, NEW r \in Requests, GiveUp(r), req[r].pc \in OnWorker
  PROVE  To(r, req[r].pc) /\ OthersStay(r)
<1>1. req[r] \in RequestRow
  BY DEF TypeOK
<1>2. req'[r] = [req[r] EXCEPT !.heard = FALSE] /\ OthersStay(r)
  BY DEF GiveUp, TypeOK, OthersStay
<1> QED
  BY <1>1, <1>2 DEF To, RequestRow

LEMMA CloseFailed ==
  ASSUME TypeOK, NEW r \in Requests, CloseFails(r)
  PROVE  /\ OthersStay(r)
         /\ req'[r].pc = "erase" /\ req'[r].kind = req[r].kind /\ req'[r].key = req[r].key
         /\ req'[r].port = req[r].port /\ req'[r].ssh = req[r].ssh /\ req'[r].alone = FALSE
<1>1. req[r] \in RequestRow
  BY DEF TypeOK
<1>2. req'[r] = [req[r] EXCEPT !.pc = "erase", !.alone = FALSE] /\ OthersStay(r)
  BY DEF CloseFails, TypeOK, OthersStay
<1> QED
  BY <1>1, <1>2 DEF RequestRow

-----------------------------------------------------------------------------
(* Ports. *)

\* What a step of r may do: nothing to ports, or give its own up, or take one.
LEMMA PortsFrame ==
  ASSUME TypeOK, PortsExclusive, NEW r \in Requests,
         \A s \in Requests \ {r} : req'[s].pc = req[s].pc /\ req'[s].port = req[s].port,
         \/ /\ reserved' = reserved /\ (HoldsPort(r)' <=> HoldsPort(r))
            /\ HoldsPort(r) => req'[r].port = req[r].port
         \/ Unmark(r) /\ ~HoldsPort(r)'
         \/ /\ ~HoldsPort(r) /\ HoldsPort(r)' /\ req'[r].port \notin reserved
            /\ reserved' = reserved \cup {req'[r].port}
  PROVE  PortsExclusive'
<1>1. \A s \in Requests \ {r} : HoldsPort(s)' <=> HoldsPort(s)
  BY DEF HoldsPort
<1>2. \A s \in Requests : HoldsPort(s) => req[s].port \in reserved
  BY DEF PortsExclusive
<1>3. \A s, t \in Requests :
        HoldsPort(s)' /\ HoldsPort(t)' /\ req'[s].port = req'[t].port => s = t
  BY <1>1, <1>2 DEF PortsExclusive
<1>4. \A p : p \in reserved' <=> \E s \in Requests : HoldsPort(s)' /\ req'[s].port = p
  <2>1. \A p : p \in reserved <=> \E s \in Requests : HoldsPort(s) /\ req[s].port = p
    BY DEF PortsExclusive
  <2>2. CASE /\ reserved' = reserved /\ (HoldsPort(r)' <=> HoldsPort(r))
             /\ HoldsPort(r) => req'[r].port = req[r].port
    BY <1>1, <2>1, <2>2
  <2>3. CASE Unmark(r) /\ ~HoldsPort(r)'
    <3>1. \A p : p \in reserved' <=> p \in reserved /\ (HoldsPort(r) => p # req[r].port)
      BY <2>3 DEF Unmark
    <3> QED
      BY <1>1, <2>1, <2>3, <3>1 DEF PortsExclusive
  <2>4. CASE /\ ~HoldsPort(r) /\ HoldsPort(r)' /\ req'[r].port \notin reserved
             /\ reserved' = reserved \cup {req'[r].port}
    BY <1>1, <2>1, <2>4
  <2> QED
    BY <2>2, <2>3, <2>4
<1>5. reserved' = {req'[s].port : s \in {t \in Requests : HoldsPort(t)'}}
  BY <1>4
<1> QED
  BY <1>3, <1>5 DEF PortsExclusive, HoldsPort

LEMMA PortsKept == TypeOK /\ RequestInv /\ PortsExclusive /\ [Next]_vars => PortsExclusive'
<1> SUFFICES ASSUME TypeOK, RequestInv, PortsExclusive, [Next]_vars PROVE PortsExclusive'
  OBVIOUS
<1>1. NoRequest.pc = "idle"
  BY DEF NoRequest
<1>2. ASSUME NEW r \in Requests,
             Lock(r) \/ Discard(r) \/ Prune(r) \/ Close(r) \/ CloseFails(r) \/ GiveUp(r)
      PROVE  PortsExclusive'
  <2>1. OthersStay(r) /\ (HoldsPort(r)' <=> HoldsPort(r))
          /\ (HoldsPort(r) => req'[r].port = req[r].port)
    <3>1. CASE Lock(r) \/ Discard(r) \/ Prune(r) \/ Close(r)
      BY <3>1, Went DEF Lock, Discard, Prune, Close, To, HoldsPort
    <3>2. CASE CloseFails(r)
      BY <3>2, CloseFailed DEF CloseFails, HoldsPort
    <3>3. CASE GiveUp(r)
      BY <1>1, <3>3, NotHeard, Ended DEF To, HoldsPort, OnWorker
    <3> QED
      BY <1>2, <3>1, <3>2, <3>3
  <2>2. reserved' = reserved
    BY <1>2 DEF Lock, Discard, Prune, Close, CloseFails, GiveUp
  <2> QED
    BY <2>1, <2>2, PortsFrame DEF OthersStay
<1>3. ASSUME NEW r \in Requests, Record(r) \/ Erase(r) PROVE PortsExclusive'
  <2>1. OthersStay(r) /\ ~HoldsPort(r) /\ ~HoldsPort(r)' /\ reserved' = reserved
    BY <1>1, <1>3, Ended DEF Record, Erase, HoldsPort
  <2> QED
    BY <2>1, PortsFrame DEF OthersStay
<1>4. ASSUME NEW r \in Requests, End(r) PROVE PortsExclusive'
  <2>1. OthersStay(r) /\ ~HoldsPort(r)' /\ Unmark(r)
    BY <1>1, <1>4, Ended DEF End, HoldsPort
  <2> QED
    BY <2>1, PortsFrame DEF OthersStay
<1>5. ASSUME NEW r \in Requests, Reuse(r) \/ ForwardPreview(r) \/ Insert(r) PROVE PortsExclusive'
  <2>1. OthersStay(r) /\ ~HoldsPort(r)'
    BY <1>1, <1>5, Answered DEF Reuse, ForwardPreview, Insert, HoldsPort
  <2>2. Unmark(r)
    BY <1>5 DEF Reuse, ForwardPreview, Insert, Unmark, HoldsPort
  <2> QED
    BY <2>1, <2>2, PortsFrame DEF OthersStay
<1>6. ASSUME NEW r \in Requests, Reserve(r) PROVE PortsExclusive'
  <2>1. PICK p \in Ports : /\ p \notin reserved /\ reserved' = reserved \cup {p}
                         /\ req' = [req EXCEPT ![r].pc = "connect", ![r].port = p]
    BY <1>6 DEF Reserve, Unmarked
  <2>2. OthersStay(r) /\ HoldsPort(r)' /\ req'[r].port = p /\ ~HoldsPort(r)
    BY <1>6, <2>1, Reserved DEF Reserve, HoldsPort
  <2> QED
    BY <2>1, <2>2, PortsFrame DEF OthersStay
<1>7. ASSUME NEW r \in Requests, ForwardDashboard(r) PROVE PortsExclusive'
  <2>1. PICK c \in Processes : req' = [req EXCEPT ![r].pc = "probe", ![r].ssh = c]
    BY <1>7 DEF ForwardDashboard
  <2>2. OthersStay(r) /\ HoldsPort(r)' /\ HoldsPort(r) /\ req'[r].port = req[r].port
    BY <1>7, <2>1, Forwarded DEF ForwardDashboard, HoldsPort
  <2>3. reserved' = reserved
    BY <1>7 DEF ForwardDashboard
  <2> QED
    BY <2>2, <2>3, PortsFrame DEF OthersStay
<1>8. ASSUME NEW r \in Requests, Probe(r) PROVE PortsExclusive'
  <2>1. OthersStay(r) /\ ~HoldsPort(r)' /\ Unmark(r)
    BY <1>8, Went DEF Probe, To, HoldsPort
  <2> QED
    BY <2>1, PortsFrame DEF OthersStay
<1>9. ASSUME NEW r \in Requests, NEW k \in Services, NEW kind \in {"open", "peek", "remove"},
             Ask(r, k, kind)
      PROVE  PortsExclusive'
  <2>1. ~HoldsPort(r) /\ ~HoldsPort(r)'
    BY <1>9, Asked DEF HoldsPort
  <2>2. \A s \in Requests \ {r} : req'[s].pc = req[s].pc /\ req'[s].port = req[s].port
    BY <1>9, Asked DEF SameBut
  <2>3. reserved' = reserved
    BY <1>9 DEF Ask
  <2> QED
    BY <2>1, <2>2, <2>3, PortsFrame
<1>10. CASE WorkerRestarts
  <2>1. \A r \in Requests : ~HoldsPort(r)'
    BY <1>1, <1>10 DEF WorkerRestarts, HoldsPort, OnWorker
  <2>2. reserved' = {}
    BY <1>10 DEF WorkerRestarts
  <2> QED
    BY <2>1, <2>2 DEF PortsExclusive
<1>11. CASE UNCHANGED <<reserved, req>>
  BY <1>11 DEF PortsExclusive, HoldsPort
<1> QED
  BY <1>2, <1>3, <1>4, <1>5, <1>6, <1>7, <1>8, <1>9, <1>10, <1>11
     DEF Next, WorkerStep, ApiStep, HostStep, vars, NoneFree, ConnectFails, ProbeFails,
         DropHandler, Listen, Exit, VmStops

-----------------------------------------------------------------------------
(* The lock of a workspace. *)

LEMMA LockFrame ==
  ASSUME TypeOK, RequestInv, LockInv, NEW r \in Requests,
         \A s \in Requests \ {r} :
           req'[s].kind = req[s].kind /\ req'[s].pc = req[s].pc /\ req'[s].key = req[s].key,
         \/ /\ lock' = lock /\ (Holder(r)' <=> Holder(r))
            /\ Holder(r) => req'[r].key = req[r].key
         \/ Unlock(r) /\ ~Holder(r)'
         \/ /\ ~Holder(r) /\ Holder(r)' /\ req'[r].key = req[r].key /\ req[r].key \in Services
            /\ lock[Home[req[r].key]] = None
            /\ lock' = [lock EXCEPT ![Home[req[r].key]] = r]
  PROVE  LockInv'
<1>1. \A s \in Requests \ {r} : (Holder(s)' <=> Holder(s)) /\ req'[s].key = req[s].key
  BY DEF Holder
<1>2. \A s \in Requests : Holder(s) => req[s].key \in Services
  BY DEF Holder, RequestInv, RowInv, OnWorker
<1>3. \A s \in Requests : Holder(s) => Home[req[s].key] \in Workspaces
  BY <1>2, NoneIsNothing
<1>4. lock \in [Workspaces -> Requests \cup {None}]
  BY DEF TypeOK
<1> USE NoneIsNothing
<1> SUFFICES ASSUME NEW w \in Workspaces, NEW s \in Requests
             PROVE  lock'[w] = s <=> Holder(s)' /\ Home[req'[s].key] = w
  BY DEF LockInv, Holder
<1>5. lock[w] = s <=> Holder(s) /\ Home[req[s].key] = w
  BY DEF LockInv
<1>6. CASE lock' = lock /\ (Holder(r)' <=> Holder(r)) /\ (Holder(r) => req'[r].key = req[r].key)
  BY <1>1, <1>5, <1>6
<1>7. CASE Unlock(r) /\ ~Holder(r)'
  <2>1. lock'[w] = IF lock[w] = r THEN None ELSE lock[w]
    BY <1>7 DEF Unlock
  <2> QED
    BY <1>1, <1>5, <1>7, <2>1
<1>8. CASE /\ ~Holder(r) /\ Holder(r)' /\ req'[r].key = req[r].key /\ req[r].key \in Services
           /\ lock[Home[req[r].key]] = None
           /\ lock' = [lock EXCEPT ![Home[req[r].key]] = r]
  <2>1. lock'[w] = IF w = Home[req[r].key] THEN r ELSE lock[w]
    BY <1>4, <1>8
  <2> QED
    BY <1>1, <1>5, <1>8, <2>1
<1> QED
  BY <1>6, <1>7, <1>8

LEMMA LocksKept == TypeOK /\ RequestInv /\ LockInv /\ [Next]_vars => LockInv'
<1> SUFFICES ASSUME TypeOK, RequestInv, LockInv, [Next]_vars PROVE LockInv'
  OBVIOUS
<1>1. NoRequest.pc = "idle" /\ NoRequest.kind = "none" /\ "idle" \notin OnWorker
  BY DEF NoRequest, OnWorker
<1>2. ASSUME NEW r \in Requests, Lock(r) PROVE LockInv'
  <2>1. /\ OthersStay(r) /\ req'[r].kind = req[r].kind /\ req'[r].key = req[r].key
        /\ req'[r].pc = "look"
    BY <1>2, Went DEF Lock, To
  <2>2. req[r].kind = "open" /\ req[r].key \in Services /\ req[r].pc = "lock"
    BY <1>2 DEF Lock, RequestInv, RowInv
  <2>3. ~Holder(r) /\ Holder(r)'
    BY <2>1, <2>2 DEF Holder, OnWorker
  <2> QED
    BY <1>2, <2>1, <2>2, <2>3, LockFrame DEF Lock, OthersStay
<1>3. ASSUME NEW r \in Requests, Discard(r) \/ Probe(r) \/ Prune(r) \/ Close(r) PROVE LockInv'
  <2>1. OthersStay(r) /\ (Holder(r)' <=> Holder(r)) /\ req'[r].key = req[r].key
    BY <1>3, Went DEF Discard, Probe, Prune, Close, To, Holder, OnWorker
  <2>2. lock' = lock
    BY <1>3 DEF Discard, Probe, Prune, Close
  <2> QED
    BY <2>1, <2>2, LockFrame DEF OthersStay
<1>4. ASSUME NEW r \in Requests, CloseFails(r) \/ GiveUp(r) PROVE LockInv'
  <2>1. CASE CloseFails(r)
    <3>1. OthersStay(r) /\ ~Holder(r)' /\ ~Holder(r) /\ lock' = lock
      BY <2>1, CloseFailed DEF CloseFails, Holder, OnWorker
    <3> QED
      BY <3>1, LockFrame DEF OthersStay
  <2>2. CASE GiveUp(r) /\ req[r].pc \in OnWorker
    <3>1. OthersStay(r) /\ (Holder(r)' <=> Holder(r)) /\ req'[r].key = req[r].key /\ lock' = lock
      BY <2>2, NotHeard DEF GiveUp, Holder, To
    <3> QED
      BY <3>1, LockFrame DEF OthersStay
  <2>3. CASE GiveUp(r) /\ req[r].pc \notin OnWorker
    <3>1. OthersStay(r) /\ ~Holder(r)' /\ ~Holder(r) /\ lock' = lock
      BY <1>1, <2>3, Ended DEF GiveUp, Holder
    <3> QED
      BY <3>1, LockFrame DEF OthersStay
  <2> QED
    BY <1>4, <2>1, <2>2, <2>3
<1>5. ASSUME NEW r \in Requests, Record(r) \/ Erase(r) PROVE LockInv'
  <2>1. OthersStay(r) /\ ~Holder(r)' /\ ~Holder(r) /\ lock' = lock
    BY <1>1, <1>5, Ended DEF Record, Erase, Holder, OnWorker
  <2> QED
    BY <2>1, LockFrame DEF OthersStay
<1>6. ASSUME NEW r \in Requests, End(r) PROVE LockInv'
  <2>1. OthersStay(r) /\ ~Holder(r)' /\ Unlock(r)
    BY <1>1, <1>6, Ended DEF End, Holder
  <2> QED
    BY <2>1, LockFrame DEF OthersStay
<1>7. ASSUME NEW r \in Requests, Reuse(r) \/ ForwardPreview(r) \/ Insert(r) PROVE LockInv'
  <2>1. OthersStay(r) /\ ~Holder(r)' /\ Unlock(r)
    BY <1>1, <1>7, Answered DEF Reuse, ForwardPreview, Insert, Holder, OnWorker
  <2> QED
    BY <2>1, LockFrame DEF OthersStay
<1>8. ASSUME NEW r \in Requests, Reserve(r) \/ ForwardDashboard(r) PROVE LockInv'
  <2>1. OthersStay(r) /\ req'[r].kind = req[r].kind /\ req'[r].key = req[r].key
          /\ req[r].pc \in {"reserve", "connect"} /\ req'[r].pc \in {"connect", "probe"}
    BY <1>8, Reserved, Forwarded DEF Reserve, ForwardDashboard
  <2>2. Holder(r)' <=> Holder(r)
    BY <2>1 DEF Holder, OnWorker
  <2>3. lock' = lock
    BY <1>8 DEF Reserve, ForwardDashboard
  <2> QED
    BY <2>1, <2>2, <2>3, LockFrame DEF OthersStay
<1>9. ASSUME NEW r \in Requests, NEW k \in Services, NEW kind \in {"open", "peek", "remove"},
             Ask(r, k, kind)
      PROVE  LockInv'
  <2>1. ~Holder(r) /\ ~Holder(r)'
    BY <1>9, Asked DEF Holder, OnWorker
  <2>2. \A s \in Requests \ {r} :
          req'[s].kind = req[s].kind /\ req'[s].pc = req[s].pc /\ req'[s].key = req[s].key
    BY <1>9, Asked DEF SameBut
  <2>3. lock' = lock
    BY <1>9 DEF Ask
  <2> QED
    BY <2>1, <2>2, <2>3, LockFrame
<1>10. CASE WorkerRestarts
  <2>1. \A r \in Requests : ~Holder(r)'
    BY <1>1, <1>10 DEF WorkerRestarts, Holder
  <2>2. \A w \in Workspaces : lock'[w] = None
    BY <1>10 DEF WorkerRestarts
  <2> QED
    BY <2>1, <2>2, NoneIsNothing DEF LockInv, Holder
<1>11. CASE UNCHANGED <<lock, req>>
  BY <1>11 DEF LockInv, Holder
<1> QED
  BY <1>2, <1>3, <1>4, <1>5, <1>6, <1>7, <1>8, <1>9, <1>10, <1>11
     DEF Next, WorkerStep, ApiStep, HostStep, vars, NoneFree, ConnectFails, ProbeFails,
         DropHandler, Listen, Exit, VmStops

-----------------------------------------------------------------------------
(* ssh processes and the tables. *)

\* Unless one is spawned, a process that runs did so before, for the same service at the
\* same port.
Older(c) ==
  Running(c)' => /\ Running(c) /\ (ssh'[c].state = "starting" => ssh[c].state = "starting")
                 /\ ssh'[c].key = ssh[c].key /\ ssh'[c].port = ssh[c].port
                 /\ ssh[c].early => ssh'[c].early

LEMMA Removed ==
  ASSUME TypeOK, NEW d,
         \/ ssh' = [c \in Processes |-> IF c = d THEN NoProcess ELSE ssh[c]]
         \/ ssh' = [c \in Processes |->
                      IF c = d /\ ssh[c].state = "dead" THEN NoProcess ELSE ssh[c]]
         \/ ssh' = [ssh EXCEPT ![d] = NoProcess]
         \/ ssh' = [c \in Processes |-> NoProcess]
         \/ ssh' = ssh
  PROVE  \A c \in Processes : Older(c)
BY DEF TypeOK, Older, Running, NoProcess

LEMMA NoNewProcess ==
  ASSUME TypeOK,
         \/ \E r \in Requests : \/ Discard(r) \/ Probe(r) \/ Insert(r) \/ ProbeFails(r)
                                \/ Close(r) \/ DropHandler(r)
         \/ \E c \in Processes : Listen(c) \/ Exit(c)
         \/ WorkerRestarts \/ UNCHANGED ssh
  PROVE  \A c \in Processes : Older(c)
<1>0. \A c \in Processes : ssh[c] \in ProcessRow
  BY DEF TypeOK
<1>1. ASSUME NEW r \in Requests, Discard(r) \/ Insert(r) \/ ProbeFails(r) \/ Close(r)
      PROVE  \A c \in Processes : Older(c)
  <2>1. CASE Discard(r) \/ Close(r)
    <3>1. ssh' = [c \in Processes |-> IF c = tunnel[req[r].key] THEN NoProcess ELSE ssh[c]]
      BY <2>1 DEF Discard, Close
    <3> QED
      BY <3>1, Removed
  <2>2. CASE Insert(r)
    <3>1. ssh' = [c \in Processes |-> IF c = tunnel[req[r].key] /\ ssh[c].state = "dead"
                                        THEN NoProcess ELSE ssh[c]]
      BY <2>2 DEF Insert
    <3> QED
      BY <3>1, Removed
  <2>3. CASE ProbeFails(r)
    <3>1. ssh' = [ssh EXCEPT ![req[r].ssh] = NoProcess]
      BY <2>3 DEF ProbeFails
    <3> QED
      BY <3>1, Removed
  <2> QED
    BY <1>1, <2>1, <2>2, <2>3
<1>2. ASSUME NEW r \in Requests, Probe(r) PROVE \A c \in Processes : Older(c)
  <2> DEFINE d == req[r].ssh
             early == ssh[d].early \/ ssh[d].state = "starting"
             row == [ssh[d] EXCEPT !.early = early]
  <2>1. ssh' = [ssh EXCEPT ![d] = row]
    BY <1>2 DEF Probe
  <2>2. d \in Processes => /\ row.state = ssh[d].state /\ row.key = ssh[d].key
                           /\ row.port = ssh[d].port /\ row.early = early
    BY <1>0 DEF ProcessRow
  <2>3. ssh[d].early => early
    OBVIOUS
  <2> HIDE DEF row, early
  <2>4. ASSUME NEW c \in Processes PROVE Older(c)
    <3>1. CASE c = d
      <4>1. /\ ssh'[c].state = ssh[d].state /\ ssh'[c].key = ssh[d].key
            /\ ssh'[c].port = ssh[d].port /\ ssh'[c].early = early
        BY <2>1, <2>2, <3>1 DEF TypeOK
      <4> QED
        BY <2>3, <3>1, <4>1 DEF Older, Running
    <3>2. CASE c # d
      BY <2>1, <3>2 DEF TypeOK, Older, Running
    <3> QED
      BY <3>1, <3>2
  <2> QED
    BY <2>4
<1>3. ASSUME NEW r \in Requests, DropHandler(r) PROVE \A c \in Processes : Older(c)
  <2>1. \A c \in Processes :
          \/ ssh'[c] \in {ssh[c], NoProcess}
          \/ ssh'[c] = [ssh[c] EXCEPT !.early = TRUE] /\ ssh[c].state = "starting"
    BY <1>3 DEF DropHandler
  <2>2. ASSUME NEW c \in Processes PROVE Older(c)
    <3>1. CASE ssh'[c] \in {ssh[c], NoProcess}
      BY <3>1 DEF Older, Running, NoProcess
    <3>2. CASE ssh'[c] = [ssh[c] EXCEPT !.early = TRUE] /\ ssh[c].state = "starting"
      <4>1. /\ ssh'[c].state = "starting" /\ ssh'[c].key = ssh[c].key
            /\ ssh'[c].port = ssh[c].port /\ ssh'[c].early
        BY <1>0, <3>2 DEF ProcessRow
      <4> QED
        BY <3>2, <4>1 DEF Older, Running
    <3> QED
      BY <2>1, <3>1, <3>2
  <2> QED
    BY <2>2
<1>4. ASSUME NEW d \in Processes, Listen(d) \/ Exit(d) PROVE \A c \in Processes : Older(c)
  <2>1. \/ ssh' = [ssh EXCEPT ![d] = Dead(d)]
        \/ ssh' = [ssh EXCEPT ![d] = [ssh[d] EXCEPT !.state = "listening"]]
    BY <1>4 DEF Listen, Exit
  <2>2. Dead(d).state \notin {"starting", "listening"}
    BY <1>0 DEF Dead, NoProcess, ProcessRow
  <2>3. ssh[d].state \in {"starting", "listening"}
    BY <1>4 DEF Listen, Exit, Running
  <2> QED
    BY <1>0, <2>1, <2>2, <2>3 DEF TypeOK, Older, Running, ProcessRow
<1>5. CASE WorkerRestarts \/ UNCHANGED ssh
  BY <1>5, Removed DEF WorkerRestarts
<1> QED
  BY <1>1, <1>2, <1>3, <1>4, <1>5

\* One request at a time is past the lock with the key of a preview.
LEMMA OneOpens ==
  ASSUME TypeOK, RequestInv, LockInv, NEW r \in Requests, NEW s \in Requests,
         req[r].pc \in OnWorker \ {"lock"}, req[s].pc \in OnWorker \ {"lock"},
         req[r].key = req[s].key, req[r].key \in Previews
  PROVE  r = s
<1>1. req[r].kind = "open" /\ req[s].kind = "open"
  BY KeysAssumption DEF RequestInv, RowInv
<1>2. Home[req[r].key] \in Workspaces
  BY NoneIsNothing DEF Services
<1> QED
  BY <1>1, <1>2 DEF LockInv, Holder

Preparing(r) == req[r].pc \in {"reserve", "connect"} /\ req[r].key \in Previews

LEMMA TableFrame ==
  ASSUME TypeOK, TableInv, tunnel' = tunnel,
         \A c \in Processes : Older(c) \/ ssh'[c].key \in Dashboards,
         \A s \in Requests : Preparing(s)' => Preparing(s) /\ req'[s].key = req[s].key
  PROVE  TableInv'
<1>1. PreviewsTracked'
  BY KeysAssumption DEF TableInv, PreviewsTracked, Older, Running
<1> QED
  BY <1>1 DEF TableInv, Preparing

LEMMA TableKept ==
  TypeOK /\ RequestInv /\ LockInv /\ TableInv /\ [Next]_vars => TableInv'
<1> SUFFICES ASSUME TypeOK, RequestInv, LockInv, TableInv, [Next]_vars PROVE TableInv'
  OBVIOUS
<1>0. NoRequest.pc = "idle"
  BY DEF NoRequest
<1>1. ASSUME NEW r \in Requests, Lock(r) \/ Probe(r) \/ Prune(r) PROVE TableInv'
  <2>1. OthersStay(r) /\ ~Preparing(r)'
    BY <1>1, Went DEF Lock, Probe, Prune, To, Preparing
  <2>2. tunnel' = tunnel /\ \A c \in Processes : Older(c)
    BY <1>1, NoNewProcess DEF Lock, Probe, Prune
  <2> QED
    BY <2>1, <2>2, TableFrame DEF OthersStay, Preparing
<1>2. ASSUME NEW r \in Requests,
             \/ NoneFree(r) \/ ConnectFails(r) \/ ProbeFails(r) \/ DropHandler(r)
             \/ Record(r) \/ Erase(r) \/ (GiveUp(r) /\ req[r].pc \notin OnWorker)
      PROVE  TableInv'
  <2>1. OthersStay(r) /\ ~Preparing(r)'
    BY <1>0, <1>2, Ended DEF NoneFree, ConnectFails, ProbeFails, DropHandler, Preparing
  <2>2. tunnel' = tunnel /\ \A c \in Processes : Older(c)
    BY <1>2, NoNewProcess DEF NoneFree, ConnectFails, ProbeFails, DropHandler, Record, Erase, GiveUp
  <2> QED
    BY <2>1, <2>2, TableFrame DEF OthersStay, Preparing
<1>3. ASSUME NEW r \in Requests, Reuse(r) PROVE TableInv'
  <2>1. OthersStay(r) /\ ~Preparing(r)'
    BY <1>0, <1>3, Answered DEF Reuse, Preparing
  <2>2. tunnel' = tunnel /\ \A c \in Processes : Older(c)
    BY <1>3, NoNewProcess DEF Reuse
  <2> QED
    BY <2>1, <2>2, TableFrame DEF OthersStay, Preparing
<1>4. ASSUME NEW r \in Requests, Reserve(r) \/ CloseFails(r) \/ (GiveUp(r) /\ req[r].pc \in OnWorker)
      PROVE  TableInv'
  <2>1. OthersStay(r) /\ (Preparing(r)' => Preparing(r) /\ req'[r].key = req[r].key)
    <3>1. CASE Reserve(r)
      BY <3>1, Reserved DEF Reserve, Preparing
    <3>2. CASE CloseFails(r)
      BY <3>2, CloseFailed DEF Preparing
    <3>3. CASE GiveUp(r) /\ req[r].pc \in OnWorker
      BY <3>3, NotHeard DEF To, Preparing
    <3> QED
      BY <1>4, <3>1, <3>2, <3>3
  <2>2. tunnel' = tunnel /\ \A c \in Processes : Older(c)
    BY <1>4, NoNewProcess DEF Reserve, CloseFails, GiveUp
  <2> QED
    BY <2>1, <2>2, TableFrame DEF OthersStay, Preparing
<1>5. ASSUME NEW r \in Requests, ForwardDashboard(r) PROVE TableInv'
  <2>1. PICK c \in Processes : Spawn(r, c, FALSE)
                         /\ req' = [req EXCEPT ![r].pc = "probe", ![r].ssh = c]
    BY <1>5 DEF ForwardDashboard
  <2>2. OthersStay(r) /\ ~Preparing(r)'
    BY <2>1, Forwarded DEF Preparing
  <2>3. req[r].key \in Dashboards /\ tunnel' = tunnel
    BY <1>5 DEF ForwardDashboard
  <2>4. \A d \in Processes : Older(d) \/ ssh'[d].key \in Dashboards
    BY <2>1, <2>3 DEF Spawn, TypeOK, Older, Running
  <2> QED
    BY <2>2, <2>3, <2>4, TableFrame DEF OthersStay, Preparing
<1>6. ASSUME NEW r \in Requests, Discard(r) \/ Close(r) PROVE TableInv'
  <2> DEFINE k == req[r].key
  <2>1. OthersStay(r) /\ req'[r].key = k
    BY <1>6, Went DEF Discard, Close, To
  <2>2. /\ ssh' = [c \in Processes |-> IF c = tunnel[k] THEN NoProcess ELSE ssh[c]]
        /\ tunnel' = [tunnel EXCEPT ![k] = None] /\ k \in Services
    BY <1>6 DEF Discard, Close, RequestInv, RowInv
  <2>3. tunnel'[k] = None /\ \A j \in Services \ {k} : tunnel'[j] = tunnel[j]
    BY <2>2 DEF TypeOK
  <2>4. \A c \in Processes : Running(c)' => c # tunnel[k] /\ Running(c) /\ ssh'[c] = ssh[c]
    BY <2>2 DEF Running, NoProcess
  <2>5. PreviewsTracked'
    BY <2>3, <2>4 DEF TableInv, PreviewsTracked, Services, Running
  <2>6. \A s \in Requests : Preparing(s)' => tunnel'[req'[s].key] = None
    BY <2>1, <2>3 DEF TableInv, Preparing, OthersStay, Services
  <2> QED
    BY <2>5, <2>6 DEF TableInv, Preparing
<1>7. ASSUME NEW r \in Requests, ForwardPreview(r) PROVE TableInv'
  <2> DEFINE k == req[r].key
  <2>1. PICK c \in Processes : Spawn(r, c, TRUE) /\ tunnel' = [tunnel EXCEPT ![k] = c]
    BY <1>7 DEF ForwardPreview
  <2>2. k \in Previews /\ k \in Services /\ req[r].pc = "connect" /\ OthersStay(r) /\ ~Preparing(r)'
    BY <1>0, <1>7, Answered DEF ForwardPreview, Preparing, Services
  <2>3. tunnel[k] = None
    BY <2>2 DEF TableInv
  <2>4. tunnel'[k] = c /\ \A j \in Services \ {k} : tunnel'[j] = tunnel[j]
    BY <2>1, <2>2 DEF TypeOK
  <2>5. ssh'[c].key = k /\ \A d \in Processes \ {c} : ssh'[d] = ssh[d]
    BY <2>1 DEF Spawn, TypeOK
  <2>6. PreviewsTracked'
    BY <2>3, <2>4, <2>5, NoneIsNothing DEF TableInv, PreviewsTracked, Running, Services
  <2>7. ASSUME NEW s \in Requests, Preparing(s)' PROVE tunnel'[req'[s].key] = None
    <3>1. s # r /\ req'[s] = req[s] /\ Preparing(s)
      BY <2>2, <2>7 DEF OthersStay, Preparing
    <3>2. req[s].key # k
      BY <2>2, <3>1, OneOpens DEF Preparing, OnWorker
    <3> QED
      BY <2>4, <3>1, <3>2 DEF TableInv, Preparing, Services
  <2> QED
    BY <2>6, <2>7 DEF TableInv, Preparing
<1>8. ASSUME NEW r \in Requests, Insert(r) PROVE TableInv'
  <2>1. req[r].key \in Dashboards
    BY <1>8 DEF Insert, RequestInv, RowInv
  <2>2. \A k \in Previews : tunnel'[k] = tunnel[k]
    BY <1>8, <2>1, KeysAssumption DEF Insert, TypeOK, Services
  <2>3. OthersStay(r) /\ ~Preparing(r)'
    BY <1>0, <1>8, Answered DEF Insert, Preparing
  <2>4. PreviewsTracked'
    BY <1>8, <2>2, NoNewProcess DEF TableInv, PreviewsTracked, Older, Running
  <2>5. \A s \in Requests : Preparing(s)' => tunnel'[req'[s].key] = None
    BY <2>2, <2>3 DEF TableInv, Preparing, OthersStay
  <2> QED
    BY <2>4, <2>5 DEF TableInv, Preparing
<1>9. ASSUME NEW r \in Requests, NEW k \in Services, NEW kind \in {"open", "peek", "remove"},
             Ask(r, k, kind)
      PROVE  TableInv'
  <2>1. ~Preparing(r)'
    BY <1>9, Asked DEF Preparing
  <2>2. \A s \in Requests \ {r} : req'[s].pc = req[s].pc /\ req'[s].key = req[s].key
    BY <1>9, Asked DEF SameBut
  <2>3. tunnel' = tunnel /\ \A c \in Processes : Older(c)
    BY <1>9, NoNewProcess DEF Ask
  <2> QED
    BY <2>1, <2>2, <2>3, TableFrame DEF Preparing
<1>10. CASE WorkerRestarts
  <2>1. \A c \in Processes : ~Running(c)'
    BY <1>10 DEF WorkerRestarts, Running, NoProcess
  <2>2. \A r \in Requests : ~Preparing(r)'
    BY <1>0, <1>10 DEF WorkerRestarts, Preparing, OnWorker
  <2> QED
    BY <2>1, <2>2 DEF TableInv, PreviewsTracked, Preparing
<1>11. CASE (HostStep /\ ~WorkerRestarts) \/ UNCHANGED vars
  <2>1. UNCHANGED <<tunnel, req>> /\ \A c \in Processes : Older(c)
    BY <1>11, NoNewProcess DEF HostStep, Listen, Exit, VmStops, vars
  <2> QED
    BY <2>1, TableFrame DEF Preparing
<1> QED
  BY <1>1, <1>2, <1>3, <1>4, <1>5, <1>6, <1>7, <1>8, <1>9, <1>10, <1>11
     DEF Next, WorkerStep, ApiStep

-----------------------------------------------------------------------------
(* Removals. *)

LEMMA GoneFrame ==
  ASSUME TypeOK, RequestInv, GoneInv, NEW r \in Requests, OthersStay(r), gone' = gone,
         \/ req'[r] = NoRequest
         \/ /\ req'[r].kind = req[r].kind /\ req'[r].key = req[r].key
            /\ req'[r].alone => req[r].alone /\ req'[r].pc \in {"close", "erase"}
            /\ req'[r].alone /\ req'[r].pc = "erase"
                 => req[r].pc = "erase" \/ tunnel'[req[r].key] = None,
         \A k \in Services : \/ tunnel'[k] \in {None, tunnel[k]}
                             \/ req[r].key = k /\ req[r].pc \in OnWorker,
         \A p \in Ports : \/ rows'[p] \in {None, rows[p]}
                          \/ rows'[p] = req[r].key /\ req[r].pc = "record"
  PROVE  GoneInv'
<1>1. NoRequest.key = None /\ ~NoRequest.alone
  BY DEF NoRequest
<1>2. \A s \in Requests : req[s].alone => req[s].pc \notin OnWorker /\ req[s].key \in Services
  BY DEF GoneInv, RequestInv, RowInv, OnWorker
<1>3. \A s \in Requests : req'[s].alone => req[s].alone /\ req'[s].key = req[s].key
  BY <1>1 DEF OthersStay
<1>4. \A s \in Requests : req'[s].key # None => req'[s].key = req[s].key /\ req'[s].kind = req[s].kind
  BY <1>1 DEF OthersStay
<1>5. \A s, t \in Requests : req'[s].alone /\ req'[t].key = req'[s].key => s = t
  BY <1>2, <1>3, <1>4, NoneIsNothing DEF GoneInv
<1>6. \A s \in Requests : req'[s].alone => req'[s].pc \in {"close", "erase"}
  BY <1>1 DEF GoneInv, OthersStay
<1>7. ASSUME NEW s \in Requests, req'[s].alone, req'[s].pc = "erase"
      PROVE  tunnel'[req'[s].key] = None
  <2>1. req[s].alone /\ req'[s].key = req[s].key /\ req[s].key \in Services
    BY <1>2, <1>3, <1>7
  <2>2. tunnel'[req[s].key] \in {None, tunnel[req[s].key]}
    <3>1. req[r].key = req[s].key => r = s
      BY <2>1 DEF GoneInv
    <3> QED
      BY <1>2, <2>1, <3>1
  <2>3. req[s].pc = "erase" => tunnel[req[s].key] = None
    BY <2>1 DEF GoneInv
  <2> QED
    BY <1>1, <1>7, <2>1, <2>2, <2>3 DEF OthersStay
<1>8. ASSUME NEW k \in Previews, gone[k]
      PROVE  /\ \A s \in Requests : req'[s].key = k => req'[s].kind = "remove"
             /\ tunnel'[k] = None /\ \A p \in Ports : rows'[p] # k
  <2>1. k \in Services /\ k # None
    BY NoneIsNothing DEF Services
  <2>2. /\ \A s \in Requests : req[s].key = k => req[s].kind = "remove"
        /\ tunnel[k] = None /\ \A p \in Ports : rows[p] # k
    BY <1>8 DEF GoneInv
  <2>3. req[r].key = k => req[r].pc \notin OnWorker /\ req[r].pc # "record"
    BY <2>1, <2>2, KeysAssumption DEF RequestInv, RowInv
  <2> QED
    BY <1>4, <2>1, <2>2, <2>3
<1> QED
  BY <1>5, <1>6, <1>7, <1>8 DEF GoneInv

LEMMA GoneKept == TypeOK /\ RequestInv /\ GoneInv /\ [Next]_vars => GoneInv'
<1> SUFFICES ASSUME TypeOK, RequestInv, GoneInv, [Next]_vars PROVE GoneInv'
  OBVIOUS
<1>0. NoRequest.key = None /\ ~NoRequest.alone
  BY DEF NoRequest
<1>1. ASSUME NEW r \in Requests, Lock(r) \/ Discard(r) \/ Probe(r) \/ Prune(r) PROVE GoneInv'
  <2>1. OthersStay(r) /\ req'[r].kind = req[r].kind /\ req'[r].key = req[r].key /\ ~req'[r].alone
    BY <1>1, Went DEF Lock, Discard, Probe, Prune, To, GoneInv
  <2>2. \A k \in Services : tunnel'[k] \in {None, tunnel[k]}
    BY <1>1 DEF Lock, Discard, Probe, Prune, TypeOK
  <2>3. gone' = gone /\ \A p \in Ports : rows'[p] \in {None, rows[p]}
    BY <1>1 DEF Lock, Discard, Probe, Prune
  <2> QED
    BY <2>1, <2>2, <2>3, GoneFrame
<1>2. ASSUME NEW r \in Requests,
             \/ NoneFree(r) \/ ConnectFails(r) \/ ProbeFails(r) \/ DropHandler(r)
             \/ Record(r) \/ (GiveUp(r) /\ req[r].pc \notin OnWorker)
      PROVE  GoneInv'
  <2>1. OthersStay(r) /\ req'[r] = NoRequest
    BY <1>2, Ended DEF NoneFree, ConnectFails, ProbeFails, DropHandler
  <2>2. tunnel' = tunnel /\ gone' = gone
    BY <1>2 DEF NoneFree, ConnectFails, ProbeFails, DropHandler, Record, GiveUp
  <2>3. \A p \in Ports : rows'[p] = rows[p] \/ (rows'[p] = req[r].key /\ req[r].pc = "record")
    BY <1>2 DEF NoneFree, ConnectFails, ProbeFails, DropHandler, Record, GiveUp, TypeOK
  <2> QED
    BY <2>1, <2>2, <2>3, GoneFrame
<1>3. ASSUME NEW r \in Requests, Reuse(r) \/ ForwardPreview(r) \/ Insert(r) PROVE GoneInv'
  <2>0. ~req[r].alone
    BY <1>3 DEF Reuse, ForwardPreview, Insert, GoneInv
  <2>1. OthersStay(r) /\ (req'[r] = NoRequest \/ (/\ req'[r].kind = req[r].kind
                               /\ req'[r].key = req[r].key /\ ~req'[r].alone))
    <3>1. CASE Reuse(r)
      BY <2>0, <3>1, Answered DEF Reuse
    <3>2. CASE ForwardPreview(r)
      BY <2>0, <3>2, Answered DEF ForwardPreview
    <3>3. CASE Insert(r)
      BY <2>0, <3>3, Answered DEF Insert
    <3> QED
      BY <1>3, <3>1, <3>2, <3>3
  <2>2. req[r].pc \in OnWorker /\ gone' = gone /\ rows' = rows
    BY <1>3 DEF Reuse, ForwardPreview, Insert, OnWorker
  <2>3. \A k \in Services : tunnel'[k] = tunnel[k] \/ req[r].key = k
    BY <1>3 DEF Reuse, ForwardPreview, Insert, TypeOK
  <2> QED
    BY <2>1, <2>2, <2>3, GoneFrame
<1>4. ASSUME NEW r \in Requests, Reserve(r) \/ ForwardDashboard(r) PROVE GoneInv'
  <2>1. OthersStay(r) /\ req'[r].kind = req[r].kind /\ req'[r].key = req[r].key /\ ~req'[r].alone
    <3>1. ~req[r].alone
      BY <1>4 DEF Reserve, ForwardDashboard, GoneInv
    <3>2. CASE Reserve(r)
      BY <3>1, <3>2, Reserved DEF Reserve
    <3>3. CASE ForwardDashboard(r)
      BY <3>1, <3>3, Forwarded DEF ForwardDashboard
    <3> QED
      BY <1>4, <3>2, <3>3
  <2>2. UNCHANGED <<tunnel, rows, gone>>
    BY <1>4 DEF Reserve, ForwardDashboard
  <2> QED
    BY <2>1, <2>2, GoneFrame
<1>5. ASSUME NEW r \in Requests, Close(r) PROVE GoneInv'
  <2>1. OthersStay(r) /\ req'[r].kind = req[r].kind /\ req'[r].key = req[r].key
          /\ req'[r].alone = req[r].alone /\ req'[r].pc = "erase"
    BY <1>5, Went DEF Close, To
  <2>2. req[r].key \in Services
    BY <1>5 DEF Close, RequestInv, RowInv
  <2>3. tunnel'[req[r].key] = None /\ \A k \in Services : tunnel'[k] \in {None, tunnel[k]}
    BY <1>5, <2>2 DEF Close, TypeOK
  <2>4. gone' = gone /\ rows' = rows
    BY <1>5 DEF Close
  <2> QED
    BY <2>1, <2>3, <2>4, GoneFrame
<1>6. ASSUME NEW r \in Requests, CloseFails(r) \/ (GiveUp(r) /\ req[r].pc \in OnWorker)
      PROVE  GoneInv'
  <2>1. OthersStay(r) /\ req'[r].kind = req[r].kind /\ req'[r].key = req[r].key /\ ~req'[r].alone
    <3>1. CASE CloseFails(r)
      BY <3>1, CloseFailed
    <3>2. CASE GiveUp(r) /\ req[r].pc \in OnWorker
      BY <3>2, NotHeard DEF To, GoneInv, OnWorker
    <3> QED
      BY <1>6, <3>1, <3>2
  <2>2. UNCHANGED <<tunnel, rows, gone>>
    BY <1>6 DEF CloseFails, GiveUp
  <2> QED
    BY <2>1, <2>2, GoneFrame
<1>7. ASSUME NEW r \in Requests, Erase(r) PROVE GoneInv'
  <2> DEFINE k == req[r].key
  <2>1. OthersStay(r) /\ req'[r] = NoRequest /\ tunnel' = tunnel
    BY <1>7, Ended DEF Erase
  <2>2. req[r].pc = "erase" /\ k \in Previews /\ k \in Services
    BY <1>7 DEF Erase, RequestInv, RowInv, Services
  <2>3. /\ \A p \in Ports : rows'[p] = IF rows[p] = k THEN None ELSE rows[p]
        /\ \A j \in Services : gone'[j] = IF j = k THEN gone[k] \/ req[r].alone ELSE gone[j]
    BY <1>7, <2>2 DEF Erase, TypeOK
  <2>4. \A s, t \in Requests : req'[s].alone /\ req'[t].key = req'[s].key => s = t
    <3>1. \A s \in Requests : req[s].alone => req[s].key # None
      BY NoneIsNothing DEF GoneInv, RequestInv, RowInv
    <3> QED
      BY <1>0, <2>1, <3>1 DEF GoneInv, OthersStay
  <2>5. \A s \in Requests : req'[s].alone =>
          /\ req'[s].pc \in {"close", "erase"}
          /\ req'[s].pc = "erase" => tunnel'[req'[s].key] = None
    BY <1>0, <2>1 DEF GoneInv, OthersStay
  <2>6. ASSUME NEW j \in Previews, gone'[j]
        PROVE  /\ \A s \in Requests : req'[s].key = j => req'[s].kind = "remove"
               /\ tunnel'[j] = None /\ \A p \in Ports : rows'[p] # j
    <3>1. j \in Services /\ j # None
      BY NoneIsNothing DEF Services
    <3>2. CASE gone[j]
      BY <1>0, <2>1, <2>3, <3>1, <3>2 DEF GoneInv, OthersStay
    <3>3. CASE ~gone[j]
      <4>1. j = k /\ req[r].alone
        BY <2>3, <2>6, <3>1, <3>3
      <4>2. tunnel[k] = None /\ \A s \in Requests : req[s].key = k => s = r
        BY <2>2, <4>1 DEF GoneInv
      <4> QED
        BY <1>0, <2>1, <2>3, <3>1, <4>1, <4>2 DEF OthersStay
    <3> QED
      BY <3>2, <3>3
  <2> QED
    BY <2>4, <2>5, <2>6 DEF GoneInv
<1>8. ASSUME NEW r \in Requests, NEW k \in Services, NEW kind \in {"open", "peek", "remove"},
             Ask(r, k, kind)
      PROVE  GoneInv'
  <2>1. /\ req'[r].kind = kind /\ req'[r].key = k
        /\ req'[r].alone => /\ kind = "remove" /\ req'[r].pc = "close"
                           /\ \A s \in Requests : req[s].key # k
    BY <1>8, Asked
  <2>2. \A s \in Requests \ {r} :
          /\ req'[s].kind = req[s].kind /\ req'[s].pc = req[s].pc /\ req'[s].key = req[s].key
          /\ req'[s].alone => req[s].alone /\ req[s].key # k
    BY <1>8, Asked DEF SameBut
  <2>3. tunnel' = tunnel /\ rows' = rows /\ \A j \in Services :
          gone'[j] => gone[j] /\ (j = k => kind = "remove")
    BY <1>8 DEF Ask, TypeOK
  <2>4. \A s, t \in Requests : req'[s].alone /\ req'[t].key = req'[s].key => s = t
    BY <2>1, <2>2 DEF GoneInv
  <2>5. \A s \in Requests : req'[s].alone =>
          /\ req'[s].pc \in {"close", "erase"}
          /\ req'[s].pc = "erase" => tunnel'[req'[s].key] = None
    BY <2>1, <2>2, <2>3 DEF GoneInv
  <2>6. ASSUME NEW j \in Previews, gone'[j]
        PROVE  /\ \A s \in Requests : req'[s].key = j => req'[s].kind = "remove"
               /\ tunnel'[j] = None /\ \A p \in Ports : rows'[p] # j
    <3>1. gone[j] /\ (j = k => kind = "remove")
      BY <2>3, <2>6 DEF Services
    <3> QED
      BY <2>1, <2>2, <2>3, <3>1 DEF GoneInv
  <2> QED
    BY <2>4, <2>5, <2>6 DEF GoneInv
<1>9. CASE WorkerRestarts
  <2>1. \A r \in Requests : req'[r] \in {NoRequest, req[r]}
    BY <1>9 DEF WorkerRestarts
  <2>2. rows' = rows /\ gone' = gone /\ \A k \in Services : tunnel'[k] = None
    BY <1>9 DEF WorkerRestarts
  <2>3. \A r \in Requests : req[r].alone => req[r].key \in Services
    BY DEF GoneInv, RequestInv, RowInv
  <2>4. \A s, t \in Requests : req'[s].alone /\ req'[t].key = req'[s].key => s = t
    BY <1>0, <2>1, <2>3, NoneIsNothing DEF GoneInv
  <2>5. \A s \in Requests : req'[s].alone =>
          req'[s].pc \in {"close", "erase"} /\ tunnel'[req'[s].key] = None
    BY <1>0, <2>1, <2>2, <2>3 DEF GoneInv
  <2>6. \A k \in Previews : k \in Services /\ k # None
    BY NoneIsNothing DEF Services
  <2> QED
    BY <1>0, <2>1, <2>2, <2>4, <2>5, <2>6 DEF GoneInv
<1>10. CASE UNCHANGED <<tunnel, req, rows, gone>>
  BY <1>10 DEF GoneInv
<1> QED
  BY <1>1, <1>2, <1>3, <1>4, <1>5, <1>6, <1>7, <1>8, <1>9, <1>10
     DEF Next, WorkerStep, ApiStep, HostStep, Listen, Exit, VmStops, vars

-----------------------------------------------------------------------------
(* Reservations that are let go early. *)

LEMMA EarlyFrame ==
  ASSUME TypeOK, EarlyInv, \A c \in Processes : Older(c),
         \A s \in Requests, c \in Processes :
           req[s].pc = "probe" /\ req[s].ssh = c =>
             \/ req'[s].pc = "probe" /\ req'[s].ssh = c /\ req'[s].port = req[s].port
             \/ ssh'[c].state = "starting" => ssh'[c].early,
         \A s \in Requests : req'[s].pc = "connect" =>
           req[s].pc = "connect" /\ req'[s].port = req[s].port
  PROVE  EarlyInv'
<1>1. ASSUME NEW c \in Processes, ssh'[c].state = "starting", ~ssh'[c].early
      PROVE  \E s \in Requests :
               req'[s].pc = "probe" /\ req'[s].ssh = c /\ req'[s].port = ssh'[c].port
  <2>1. ssh[c].state = "starting" /\ ~ssh[c].early /\ ssh'[c].port = ssh[c].port
    BY <1>1 DEF Older, Running
  <2>2. PICK s \in Requests :
          req[s].pc = "probe" /\ req[s].ssh = c /\ req[s].port = ssh[c].port
    BY <2>1 DEF EarlyInv
  <2> QED
    BY <1>1, <2>1, <2>2
<1>2. ASSUME NEW s \in Requests, req'[s].pc = "connect", NEW c \in Processes, Running(c)',
             ssh'[c].port = req'[s].port
      PROVE  ssh'[c].early
  BY <1>2 DEF EarlyInv, Older
<1>3. ClashNeedsEarlyRelease'
  BY DEF EarlyInv, ClashNeedsEarlyRelease, Older
<1> QED
  BY <1>1, <1>2, <1>3 DEF EarlyInv, Running

\* A new process for the port that r has reserved.
LEMMA EarlySpawn ==
  ASSUME TypeOK, PortsExclusive, EarlyInv, NEW r \in Requests, NEW c \in Processes,
         NEW early \in BOOLEAN, Spawn(r, c, early), OthersStay(r), req[r].pc = "connect",
         early \/ (req'[r].pc = "probe" /\ req'[r].ssh = c /\ req'[r].port = req[r].port),
         req'[r].pc # "connect"
  PROVE  EarlyInv'
<1>1. /\ ssh[c].state = "none" /\ \A d \in Processes \ {c} : ssh'[d] = ssh[d]
      /\ ssh'[c].state = "starting" /\ ssh'[c].port = req[r].port /\ ssh'[c].early = early
  BY DEF Spawn, TypeOK, NoProcess
<1>2. \A s \in Requests \ {r} : req'[s] = req[s]
  BY DEF OthersStay
<1>3. ASSUME NEW d \in Processes, ssh'[d].state = "starting", ~ssh'[d].early
      PROVE  \E s \in Requests :
               req'[s].pc = "probe" /\ req'[s].ssh = d /\ req'[s].port = ssh'[d].port
  <2>1. CASE d = c
    BY <1>1, <1>3, <2>1
  <2>2. CASE d # c
    <3>1. ssh'[d] = ssh[d]
      BY <1>1, <2>2
    <3>2. PICK s \in Requests :
            req[s].pc = "probe" /\ req[s].ssh = d /\ req[s].port = ssh[d].port
      BY <1>3, <3>1 DEF EarlyInv
    <3> QED
      BY <1>2, <3>1, <3>2
  <2> QED
    BY <2>1, <2>2
<1>4. ASSUME NEW s \in Requests, req'[s].pc = "connect", NEW d \in Processes, Running(d)',
             ssh'[d].port = req'[s].port
      PROVE  ssh'[d].early
  <2>1. s # r /\ req'[s] = req[s] /\ req[s].pc = "connect"
    BY <1>2, <1>4
  <2>2. req[s].port # req[r].port
    BY <2>1 DEF PortsExclusive, HoldsPort
  <2>3. d # c /\ ssh'[d] = ssh[d]
    BY <1>1, <1>4, <2>1, <2>2
  <2> QED
    BY <1>4, <2>1, <2>3 DEF EarlyInv, Running
<1>5. ClashNeedsEarlyRelease'
  <2>1. \A d \in Processes \ {c} : Running(d) /\ ssh[d].port = req[r].port => ssh[d].early
    BY DEF EarlyInv
  <2> QED
    BY <1>1, <2>1 DEF EarlyInv, ClashNeedsEarlyRelease, Running
<1> QED
  BY <1>3, <1>4, <1>5 DEF EarlyInv, Running

LEMMA EarlyKept ==
  TypeOK /\ RequestInv /\ PortsExclusive /\ EarlyInv /\ [Next]_vars => EarlyInv'
<1> SUFFICES ASSUME TypeOK, RequestInv, PortsExclusive, EarlyInv, [Next]_vars PROVE EarlyInv'
  OBVIOUS
<1>0. NoRequest.pc = "idle"
  BY DEF NoRequest
<1>1. ASSUME NEW r \in Requests,
             \/ Lock(r) \/ Reuse(r) \/ Discard(r) \/ NoneFree(r) \/ ConnectFails(r) \/ Insert(r)
             \/ Prune(r) \/ Record(r) \/ Close(r) \/ CloseFails(r) \/ Erase(r)
             \/ (GiveUp(r) /\ req[r].pc \notin OnWorker)
      PROVE  EarlyInv'
  <2>1. OthersStay(r) /\ req'[r].pc # "connect"
    <3>1. CASE Lock(r) \/ Discard(r) \/ Prune(r) \/ Close(r)
      BY <3>1, Went DEF Lock, Discard, Prune, Close, To
    <3>2. CASE Reuse(r) \/ Insert(r)
      BY <1>0, <3>2, Answered DEF Reuse, Insert
    <3>3. CASE CloseFails(r)
      BY <3>3, CloseFailed
    <3>4. CASE \/ NoneFree(r) \/ ConnectFails(r) \/ Record(r) \/ Erase(r)
               \/ (GiveUp(r) /\ req[r].pc \notin OnWorker)
      BY <1>0, <3>4, Ended DEF NoneFree, ConnectFails
    <3> QED
      BY <1>1, <3>1, <3>2, <3>3, <3>4
  <2>2. req[r].pc # "probe"
    BY <1>1 DEF Lock, Reuse, Discard, NoneFree, ConnectFails, Insert, Prune, Record, Close,
       CloseFails, Erase, OnWorker
  <2>3. \A c \in Processes : Older(c)
    BY <1>1, NoNewProcess DEF Lock, Reuse, NoneFree, ConnectFails, Prune, Record, CloseFails,
       Erase, GiveUp
  <2> QED
    BY <2>1, <2>2, <2>3, EarlyFrame DEF OthersStay
<1>2. ASSUME NEW r \in Requests, GiveUp(r), req[r].pc \in OnWorker PROVE EarlyInv'
  <2>1. OthersStay(r) /\ To(r, req[r].pc) /\ \A c \in Processes : Older(c)
    BY <1>2, NotHeard, NoNewProcess DEF GiveUp
  <2> QED
    BY <2>1, EarlyFrame DEF OthersStay, To
<1>3. ASSUME NEW r \in Requests, Probe(r) PROVE EarlyInv'
  <2>1. OthersStay(r) /\ req'[r].pc = "insert" /\ \A c \in Processes : Older(c)
    BY <1>3, Went, NoNewProcess DEF Probe, To
  <2>2. ASSUME NEW c \in Processes, req[r].ssh = c, ssh'[c].state = "starting" PROVE ssh'[c].early
    <3> DEFINE early == ssh[c].early \/ ssh[c].state = "starting"
    <3>1. ssh' = [ssh EXCEPT ![c] = [ssh[c] EXCEPT !.early = early]] /\ ssh[c] \in ProcessRow
      BY <1>3, <2>2 DEF Probe, TypeOK
    <3>2. ssh[c].state = "starting" => early
      OBVIOUS
    <3> HIDE DEF early
    <3>3. ssh'[c].early = early /\ ssh'[c].state = ssh[c].state
      BY <3>1 DEF TypeOK, ProcessRow
    <3> QED
      BY <2>2, <3>2, <3>3
  <2> QED
    BY <2>1, <2>2, EarlyFrame DEF OthersStay
<1>4. ASSUME NEW r \in Requests, ProbeFails(r) \/ DropHandler(r) PROVE EarlyInv'
  <2>1. OthersStay(r) /\ req'[r].pc = "idle" /\ \A c \in Processes : Older(c)
    BY <1>0, <1>4, Ended, NoNewProcess DEF ProbeFails, DropHandler
  <2>2. ASSUME NEW c \in Processes, req[r].ssh = c, ssh'[c].state = "starting" PROVE ssh'[c].early
    BY <1>4, <2>2 DEF ProbeFails, DropHandler, TypeOK, ProcessRow, NoProcess
  <2> QED
    BY <2>1, <2>2, EarlyFrame DEF OthersStay
<1>5. ASSUME NEW r \in Requests, Reserve(r) PROVE EarlyInv'
  <2>1. PICK p \in Ports : /\ p \notin reserved /\ Bindable(p)
                         /\ req' = [req EXCEPT ![r].pc = "connect", ![r].port = p]
    BY <1>5 DEF Reserve, Unmarked
  <2>2. /\ OthersStay(r) /\ req'[r].pc = "connect" /\ req'[r].port = p /\ req[r].pc = "reserve"
        /\ ssh' = ssh
    BY <1>5, <2>1, Reserved DEF Reserve
  <2>3. ASSUME NEW c \in Processes, Running(c), ssh[c].port = p PROVE ssh[c].early
    <3>1. ssh[c].state = "starting"
      BY <2>1, <2>3 DEF Running, Bindable, Listened
    <3>2. \A s \in Requests : req[s].pc = "probe" => req[s].port # p
      BY <2>1 DEF PortsExclusive, HoldsPort
    <3> QED
      BY <2>3, <3>1, <3>2 DEF EarlyInv
  <2>4. ASSUME NEW c \in Processes, ssh[c].state = "starting", ~ssh[c].early
        PROVE  \E s \in Requests :
                 req'[s].pc = "probe" /\ req'[s].ssh = c /\ req'[s].port = ssh[c].port
    BY <2>2, <2>4 DEF EarlyInv, OthersStay
  <2>5. \A s \in Requests : req'[s].pc = "connect" =>
          \A c \in Processes : Running(c) /\ ssh[c].port = req'[s].port => ssh[c].early
    BY <2>2, <2>3 DEF EarlyInv, OthersStay
  <2> QED
    BY <2>2, <2>4, <2>5 DEF EarlyInv, ClashNeedsEarlyRelease, Running
<1>6. ASSUME NEW r \in Requests, ForwardDashboard(r) PROVE EarlyInv'
  <2>1. PICK c \in Processes : Spawn(r, c, FALSE)
                         /\ req' = [req EXCEPT ![r].pc = "probe", ![r].ssh = c]
    BY <1>6 DEF ForwardDashboard
  <2>2. req[r].pc = "connect"
    BY <1>6 DEF ForwardDashboard
  <2> QED
    BY <2>1, <2>2, Forwarded, EarlySpawn
<1>7. ASSUME NEW r \in Requests, ForwardPreview(r) PROVE EarlyInv'
  <2>1. PICK c \in Processes : Spawn(r, c, TRUE)
    BY <1>7 DEF ForwardPreview
  <2>2. req[r].pc = "connect" /\ OthersStay(r) /\ req'[r].pc # "connect"
    BY <1>0, <1>7, Answered DEF ForwardPreview
  <2> QED
    BY <2>1, <2>2, EarlySpawn
<1>8. ASSUME NEW r \in Requests, NEW k \in Services, NEW kind \in {"open", "peek", "remove"},
             Ask(r, k, kind)
      PROVE  EarlyInv'
  <2>1. req[r].pc = "idle" /\ req'[r].pc # "connect"
    BY <1>8, Asked
  <2>2. \A s \in Requests \ {r} :
          req'[s].pc = req[s].pc /\ req'[s].port = req[s].port /\ req'[s].ssh = req[s].ssh
    BY <1>8, Asked DEF SameBut
  <2>3. \A c \in Processes : Older(c)
    BY <1>8, NoNewProcess DEF Ask
  <2> QED
    BY <2>1, <2>2, <2>3, EarlyFrame
<1>9. CASE WorkerRestarts
  <2>1. \A c \in Processes : ssh'[c].state = "none"
    BY <1>9 DEF WorkerRestarts, NoProcess
  <2> QED
    BY <2>1 DEF EarlyInv, ClashNeedsEarlyRelease, Running
<1>10. CASE (HostStep /\ ~WorkerRestarts) \/ UNCHANGED vars
  <2>1. req' = req /\ \A c \in Processes : Older(c)
    BY <1>10, NoNewProcess DEF HostStep, Listen, Exit, VmStops, vars
  <2> QED
    BY <2>1, EarlyFrame
<1> QED
  BY <1>1, <1>2, <1>3, <1>4, <1>5, <1>6, <1>7, <1>8, <1>9, <1>10
     DEF Next, WorkerStep, ApiStep

-----------------------------------------------------------------------------
(* Together. *)

LEMMA TunnelStart == Init => TunnelInv
<1> SUFFICES ASSUME Init PROVE TunnelInv
  OBVIOUS
<1> USE NoneIsNothing DEF Init
<1>1. TypeOK
  BY DEF TypeOK
<1>2. RequestInv
  BY NoRequestInv DEF RequestInv
<1>3. PortsExclusive
  BY DEF PortsExclusive, HoldsPort, NoRequest
<1>4. LockInv
  BY DEF LockInv, Holder, NoRequest
<1>5. TableInv
  BY DEF TableInv, PreviewsTracked, Running, NoProcess, NoRequest
<1>6. GoneInv
  BY DEF GoneInv, NoRequest, Services
<1>7. EarlyInv
  BY DEF EarlyInv, ClashNeedsEarlyRelease, Running, NoProcess, NoRequest
<1> QED
  BY <1>1, <1>2, <1>3, <1>4, <1>5, <1>6, <1>7 DEF TunnelInv

LEMMA TunnelKept == TunnelInv /\ [Next]_vars => TunnelInv'
BY TypeKept, RequestsKept, PortsKept, LocksKept, TableKept, GoneKept, EarlyKept DEF TunnelInv

LEMMA TunnelAlways == Spec => []TunnelInv
BY TunnelStart, TunnelKept, PTL DEF Spec

\* Tables, processes, requests and rows stay within their types.
THEOREM TunnelsTypeCorrect == Spec => []TypeOK
<1>1. TunnelInv => TypeOK
  BY DEF TunnelInv
<1> QED
  BY <1>1, TunnelAlways, PTL

\* The reservations are the ports of the requests under way, one each: PortReservation and
\* its Drop neither lose a port nor give it twice.
THEOREM NoPortLost == Spec => []PortsExclusive
<1>1. TunnelInv => PortsExclusive
  BY DEF TunnelInv
<1> QED
  BY <1>1, TunnelAlways, PTL

\* The lock of a workspace is held by a request that is under way past it, for one of the
\* services of that workspace.
THEOREM NoLockLost == Spec => []LockHolders
<1>1. TunnelInv => LockHolders
  BY DEF TunnelInv, LockInv, LockHolders, Holder, TypeOK
<1> QED
  BY <1>1, TunnelAlways, PTL

\* No process forwards to a preview without being in the table.
THEOREM NoPreviewLost == Spec => []PreviewsTracked
<1>1. TunnelInv => PreviewsTracked
  BY DEF TunnelInv, TableInv
<1> QED
  BY <1>1, TunnelAlways, PTL

\* A preview removed while nothing else was asked of it leaves no entry, process or row.
THEOREM RemovedPreviewStaysClosed == Spec => []ClosedStaysClosed
<1>1. TunnelInv => ClosedStaysClosed
  BY NoneIsNothing DEF TunnelInv, TableInv, GoneInv, PreviewsTracked, ClosedStaysClosed
<1> QED
  BY <1>1, TunnelAlways, PTL

\* Of two processes that are after one port, one had lost its reservation before it listened.
THEOREM ReservationsPreventClashes == Spec => []ClashNeedsEarlyRelease
<1>1. TunnelInv => ClashNeedsEarlyRelease
  BY DEF TunnelInv, EarlyInv
<1> QED
  BY <1>1, TunnelAlways, PTL

=============================================================================
