-------------------------- MODULE ChatBridgeProofs --------------------------
(***************************************************************************)
(* Theorems about ChatBridge, for any tabs, any number of connections and  *)
(* of messages on their way, and whatever accidents and jobs there are.    *)
(***************************************************************************)
EXTENDS ChatBridge, TLAPS

\* A connection belongs to the one proxy that has not hung up on it.
ProxyInv ==
  /\ \A p \in Chats : chat[p].at \in {"connecting", "attached"} <=> chat[p].conn # None
  /\ \A p, q \in Chats : chat[p].conn = chat[q].conn /\ chat[p].conn # None => p = q
  /\ \A p \in Chats : chat[p].conn # None =>
       conn[chat[p].conn].at # "unused" /\ ~conn[chat[p].conn].hungUp
  /\ \A p \in Chats : chat[p].at = "attached" => Upgraded(chat[p].conn)
  /\ \A c \in Conns : conn[c].at = "unused" => ~conn[c].hungUp

\* Who is at the VM holds the lock, and no job does.
LockInv ==
  /\ \A c \in Conns : conn[c].at \in {"vm", "report"} <=> lock = c
  /\ lock # None => job = "none"

\* What the row has not heard of: a VM that runs under a row, or a report to come, that
\* says it is down.
Reporting == \E c \in Conns : conn[c].at = "report"

RowInv ==
  vm = "on" /\ job # "woken" /\ (row = "down" \/ job = "slept") => Reporting \/ unreported

\* A row, or a report to come, that says the VM is down: it was taken down under every
\* connection that is through, or nobody knows who started it.
DownInv ==
  /\ job = "slept" => \A c \in Conns : Upgraded(c) => c \in slept
  /\ row = "down" => \A c \in Conns : Upgraded(c) => c \in slept \/ unreported

\* Two bridges that start at the same time have met; the entry is of somebody who has
\* met everybody that starts; a live process without the entry has met somebody.
TableInv ==
  /\ EntryIsServed
  /\ \A c, d \in Conns : c # d /\ Starting(c) /\ Starting(d) => c \in raced
  /\ \A c \in Conns : Starting(c) /\ sessions # None => sessions \in raced
  /\ \A c \in Conns :
       conn[c].at = "pipe" /\ proc[c] = "live" => sessions = c \/ c \in raced

BridgeInv == TypeOK /\ ProxyInv /\ LockInv /\ RowInv /\ DownInv /\ TableInv

-----------------------------------------------------------------------------
(* What a step does to the connections and the tabs. *)

ConnRow == [at : Bridge, queued : 0..MaxQueued, hungUp : BOOLEAN]
ChatRow ==
  [at : {"away", "connecting", "attached", "detached", "gone"},
   conn : Conns \cup {None}, held : BOOLEAN]

LEMMA NoneIsNoConn == None \notin Conns
BY DEF None, Conns

\* Connection c gets to a stage, the others stay where they are.
Reaches(c, at) ==
  /\ conn' \in [Conns -> ConnRow]
  /\ \A d \in Conns : conn'[d].at = IF d = c THEN at ELSE conn[d].at
  /\ \A d \in Conns : conn'[d].hungUp = conn[d].hungUp

\* A proxy at most asks for a new connection.
AtMostAsked ==
  \A d \in Conns :
    conn'[d].at = conn[d].at \/ (conn[d].at = "unused" /\ conn'[d].at = "asked")

OthersStay(p) == \A q \in Chats \ {p} : chat'[q] = chat[q]

LEMMA Went ==
  ASSUME TypeOK, NEW c \in Conns, NEW at \in Bridge, Goto(c, at)
  PROVE  Reaches(c, at)
<1>1. conn \in [Conns -> ConnRow]
  BY DEF TypeOK, ConnRow
<1>2. conn' = [conn EXCEPT ![c] = [conn[c] EXCEPT !.at = at]]
  BY DEF Goto
<1>3. /\ [conn[c] EXCEPT !.at = at] \in ConnRow
      /\ [conn[c] EXCEPT !.at = at].at = at
      /\ [conn[c] EXCEPT !.at = at].hungUp = conn[c].hungUp
  BY <1>1 DEF ConnRow
<1> QED
  BY <1>1, <1>2, <1>3 DEF Reaches

LEMMA Fed ==
  ASSUME TypeOK, NEW c \in Conns, Feed(c)
  PROVE  Reaches(c, IF proc[c] = "live" THEN "pipe" ELSE "end")
<1> DEFINE at == IF proc[c] = "live" THEN "pipe" ELSE "end"
           fed == [conn[c] EXCEPT !.queued = conn[c].queued - 1, !.at = at]
<1>1. conn \in [Conns -> ConnRow] /\ conn[c].at = "pipe" /\ conn[c].queued > 0
  BY DEF TypeOK, ConnRow, Feed
<1>2. conn' = [conn EXCEPT ![c] = fed]
  BY <1>1 DEF Feed
<1>3. at \in Bridge
  BY DEF Bridge
<1> HIDE DEF at
<1>4. conn[c].queued - 1 \in 0..MaxQueued
  BY <1>1, ConstantsAssumption DEF ConnRow
<1>5. fed \in ConnRow /\ fed.at = at /\ fed.hungUp = conn[c].hungUp
  BY <1>1, <1>3, <1>4 DEF ConnRow
<1> HIDE DEF fed
<1>6. Reaches(c, at)
  BY <1>1, <1>2, <1>5 DEF Reaches
<1> QED
  BY <1>6 DEF at

\* A new connection; the one the tab had, if any, is hung up on.
LEMMA Asked ==
  ASSUME TypeOK, NEW p \in Chats, NEW c \in Conns, OpenChat(p, c) \/ SendAnew(p, c)
  PROVE  /\ conn' \in [Conns -> ConnRow]
         /\ conn[c].at = "unused" /\ conn'[c].at = "asked"
         /\ \A d \in Conns \ {c} : conn'[d].at = conn[d].at
         /\ \A d \in Conns : conn'[d].hungUp => conn[d].hungUp \/ d = chat[p].conn
         /\ OthersStay(p) /\ chat' \in [Chats -> ChatRow]
         /\ chat'[p].at = "connecting" /\ chat'[p].conn = c
<1>1. conn \in [Conns -> ConnRow] /\ chat \in [Chats -> ChatRow]
  BY DEF TypeOK, ConnRow, ChatRow
<1>2. conn[c].at = "unused"
  BY DEF OpenChat, SendAnew, IsNext
<1>3. PICK held \in BOOLEAN : Connecting(p, c, held)
  BY DEF OpenChat, SendAnew
<1>4. OthersStay(p) /\ chat' \in [Chats -> ChatRow] /\ chat'[p].at = "connecting" /\ chat'[p].conn = c
  BY <1>1, <1>3 DEF Connecting, OthersStay, ChatRow
<1>5. \A d \in Conns : /\ [conn[d] EXCEPT !.at = "asked"] \in ConnRow
                       /\ [conn[d] EXCEPT !.at = "asked"].at = "asked"
                       /\ [conn[d] EXCEPT !.at = "asked"].hungUp = conn[d].hungUp
  BY <1>1 DEF ConnRow, Bridge
<1>6. \A d \in Conns, b \in BOOLEAN :
        /\ [conn[d] EXCEPT !.hungUp = b] \in ConnRow
        /\ [conn[d] EXCEPT !.hungUp = b].at = conn[d].at
        /\ [conn[d] EXCEPT !.hungUp = b].hungUp = b
  BY <1>1 DEF ConnRow
<1>7. CASE OpenChat(p, c)
  <2>1. conn' = [conn EXCEPT ![c] = [conn[c] EXCEPT !.at = "asked"]]
    BY <1>7 DEF OpenChat
  <2> QED
    BY <1>1, <1>2, <1>4, <1>5, <2>1
<1>8. CASE SendAnew(p, c)
  <2> DEFINE b(d) == conn[d].hungUp \/ d = chat[p].conn
  <2>1. conn' = [d \in Conns |-> IF d = c THEN [conn[c] EXCEPT !.at = "asked"]
                                 ELSE [conn[d] EXCEPT !.hungUp = b(d)]]
    BY <1>8 DEF SendAnew
  <2>2. \A d \in Conns : b(d) \in BOOLEAN /\ (b(d) => conn[d].hungUp \/ d = chat[p].conn)
    BY <1>1 DEF ConnRow
  <2> HIDE DEF b
  <2>3. conn' \in [Conns -> ConnRow] /\ conn'[c].at = "asked" /\ conn'[c].hungUp = conn[c].hungUp
    BY <1>5, <1>6, <2>1, <2>2
  <2>4. \A d \in Conns \ {c} : conn'[d].at = conn[d].at /\ conn'[d].hungUp = b(d)
    BY <1>6, <2>1, <2>2
  <2> QED
    BY <1>2, <1>4, <2>2, <2>3, <2>4
<1> QED
  BY <1>7, <1>8

\* A tab that lets go of its connection.
LEMMA LetGo ==
  ASSUME TypeOK, NEW p \in Chats,
         ConnectionFails(p) \/ Tick(p) \/ WorkerGone(p) \/ CloseChat(p)
  PROVE  /\ conn' \in [Conns -> ConnRow]
         /\ \A d \in Conns : conn'[d].at = conn[d].at
         /\ \A d \in Conns : conn'[d].hungUp => conn[d].hungUp \/ d = chat[p].conn
         /\ OthersStay(p) /\ chat' \in [Chats -> ChatRow]
         /\ chat'[p].at \in {"detached", "gone"} /\ chat'[p].conn = None
<1>1. conn \in [Conns -> ConnRow] /\ chat \in [Chats -> ChatRow]
  BY DEF TypeOK, ConnRow, ChatRow
<1>2. \E served \in ChatRow :
        chat' = [chat EXCEPT ![p] = served] /\ served.at \in {"detached", "gone"} /\ served.conn = None
  <2>1. /\ Detached \in ChatRow /\ Detached.at = "detached" /\ Detached.conn = None
        /\ [at |-> "gone", conn |-> None, held |-> FALSE] \in ChatRow
    BY DEF Detached, ChatRow
  <2>2. /\ [Detached EXCEPT !.at = "gone"] \in ChatRow
        /\ [Detached EXCEPT !.at = "gone"].at = "gone"
        /\ [Detached EXCEPT !.at = "gone"].conn = None
    BY DEF Detached, ChatRow
  <2> QED
    BY <2>1, <2>2 DEF ConnectionFails, Tick, WorkerGone, CloseChat
<1>3. /\ OthersStay(p) /\ chat' \in [Chats -> ChatRow]
      /\ chat'[p].at \in {"detached", "gone"} /\ chat'[p].conn = None
  BY <1>1, <1>2 DEF OthersStay
<1>4. \A d \in Conns, b \in BOOLEAN :
        /\ [conn[d] EXCEPT !.hungUp = b] \in ConnRow
        /\ [conn[d] EXCEPT !.hungUp = b].at = conn[d].at
        /\ [conn[d] EXCEPT !.hungUp = b].hungUp = b
  BY <1>1 DEF ConnRow
<1>5. CASE ConnectionFails(p) \/ WorkerGone(p)
  BY <1>1, <1>3, <1>5 DEF ConnectionFails, WorkerGone
<1>6. CASE Tick(p)
  <2>1. conn' = [conn EXCEPT ![chat[p].conn] = [conn[chat[p].conn] EXCEPT !.hungUp = TRUE]]
    BY <1>6 DEF Tick
  <2>2. \A d \in Conns : conn'[d] = IF d = chat[p].conn THEN [conn[d] EXCEPT !.hungUp = TRUE] ELSE conn[d]
    BY <1>1, <2>1
  <2>3. conn' = [d \in Conns |-> conn'[d]]
    BY <1>1, <2>1
  <2> QED
    BY <1>1, <1>3, <1>4, <2>2, <2>3
<1>7. CASE CloseChat(p)
  <2> DEFINE b(d) == conn[d].hungUp \/ d = chat[p].conn
  <2>1. conn' = [d \in Conns |-> [conn[d] EXCEPT !.hungUp = b(d)]]
    BY <1>7 DEF CloseChat
  <2>2. \A d \in Conns : b(d) \in BOOLEAN /\ (b(d) => conn[d].hungUp \/ d = chat[p].conn)
    BY <1>1 DEF ConnRow
  <2> HIDE DEF b
  <2> QED
    BY <1>3, <1>4, <2>1, <2>2
<1> QED
  BY <1>3, <1>5, <1>6, <1>7

\* A message goes out on a connection.
LEMMA Wrote ==
  ASSUME TypeOK, NEW p \in Chats, Connected(p) \/ Send(p)
  PROVE  /\ conn' \in [Conns -> ConnRow]
         /\ \A d \in Conns : conn'[d].at = conn[d].at /\ conn'[d].hungUp = conn[d].hungUp
         /\ OthersStay(p) /\ chat' \in [Chats -> ChatRow]
         /\ chat'[p].at = "attached" /\ chat'[p].conn = chat[p].conn
<1>1. conn \in [Conns -> ConnRow] /\ chat \in [Chats -> ChatRow]
  BY DEF TypeOK, ConnRow, ChatRow
<1>2. OthersStay(p) /\ chat' \in [Chats -> ChatRow] /\ chat'[p].at = "attached" /\ chat'[p].conn = chat[p].conn
  <2>1. CASE Send(p)
    BY <1>1, <2>1 DEF Send, OthersStay
  <2>2. CASE Connected(p)
    <3>1. chat' = [chat EXCEPT ![p] = [chat[p] EXCEPT !.at = "attached", !.held = FALSE]]
      BY <1>1, <2>2 DEF Connected
    <3>2. /\ [chat[p] EXCEPT !.at = "attached", !.held = FALSE] \in ChatRow
          /\ [chat[p] EXCEPT !.at = "attached", !.held = FALSE].at = "attached"
          /\ [chat[p] EXCEPT !.at = "attached", !.held = FALSE].conn = chat[p].conn
      BY <1>1 DEF ChatRow
    <3> QED
      BY <1>1, <3>1, <3>2 DEF OthersStay
  <2> QED
    BY <2>1, <2>2
<1>3. \E n : /\ conn' = [conn EXCEPT ![chat[p].conn].queued = n]
             /\ chat[p].conn \in Conns => n \in 0..MaxQueued
  <2>1. CASE Send(p)
    <3>1. chat[p].conn \in Conns => conn[chat[p].conn].queued \in 0..MaxQueued
      BY <1>1 DEF ConnRow
    <3>2. conn' = [conn EXCEPT ![chat[p].conn].queued = conn[chat[p].conn].queued + 1]
      BY <2>1 DEF Send
    <3>3. chat[p].conn \in Conns => conn[chat[p].conn].queued + 1 \in 0..MaxQueued
      BY <2>1, <3>1, ConstantsAssumption DEF Send
    <3> QED
      BY <3>2, <3>3
  <2>2. CASE Connected(p)
    <3> DEFINE n == IF chat[p].held THEN 1 ELSE conn[chat[p].conn].queued
    <3>1. conn' = [conn EXCEPT ![chat[p].conn].queued = n]
      BY <2>2 DEF Connected
    <3>2. 1 \in 0..MaxQueued
      BY ConstantsAssumption
    <3>3. chat[p].conn \in Conns => n \in 0..MaxQueued
      BY <1>1, <3>2 DEF ConnRow
    <3> QED
      BY <3>1, <3>3
  <2> QED
    BY <2>1, <2>2
<1>4. PICK n : /\ conn' = [conn EXCEPT ![chat[p].conn] = [conn[chat[p].conn] EXCEPT !.queued = n]]
               /\ chat[p].conn \in Conns => n \in 0..MaxQueued
  BY <1>3
<1>5. chat[p].conn \in Conns =>
        /\ [conn[chat[p].conn] EXCEPT !.queued = n] \in ConnRow
        /\ [conn[chat[p].conn] EXCEPT !.queued = n].at = conn[chat[p].conn].at
        /\ [conn[chat[p].conn] EXCEPT !.queued = n].hungUp = conn[chat[p].conn].hungUp
  BY <1>1, <1>4 DEF ConnRow
<1> QED
  BY <1>1, <1>2, <1>4, <1>5

\* All that proxies and users do in one: it is between the proxy and the worker.
ProxyMoves(p) ==
  \/ Connected(p) \/ Send(p)
  \/ ConnectionFails(p) \/ Tick(p) \/ WorkerGone(p) \/ CloseChat(p)
  \/ \E c \in Conns : OpenChat(p, c) \/ SendAnew(p, c)

LEMMA ProxyOnly ==
  ASSUME TypeOK, NEW p \in Chats, ProxyMoves(p)
  PROVE  /\ UNCHANGED <<hostVars, bridgeVars, historyVars>>
         /\ AtMostAsked
         /\ conn' \in [Conns -> ConnRow] /\ chat' \in [Chats -> ChatRow]
<1>1. CASE Connected(p) \/ Send(p)
  BY <1>1, Wrote DEF Connected, Send, AtMostAsked
<1>2. CASE ConnectionFails(p) \/ Tick(p) \/ WorkerGone(p) \/ CloseChat(p)
  BY <1>2, LetGo DEF ConnectionFails, Tick, WorkerGone, CloseChat, AtMostAsked
<1>3. CASE \E c \in Conns : OpenChat(p, c) \/ SendAnew(p, c)
  <2>1. PICK c \in Conns : OpenChat(p, c) \/ SendAnew(p, c)
    BY <1>3
  <2>2. UNCHANGED <<hostVars, bridgeVars, historyVars>>
    BY <2>1 DEF OpenChat, SendAnew
  <2>3. AtMostAsked
    BY <2>1, Asked DEF AtMostAsked
  <2> QED
    BY <2>1, <2>2, <2>3, Asked
<1> QED
  BY <1>1, <1>2, <1>3 DEF ProxyMoves

\* Where each step of a handler or a bridge gets to.
LEMMA Reached ==
  ASSUME TypeOK, NEW c \in Conns
  PROVE  /\ TakeLock(c) => Reaches(c, "vm")
         /\ FindsRunning(c) \/ ReportsVm(c) => Reaches(c, "clean")
         /\ StartsVm(c) => Reaches(c, "report")
         /\ Refused(c) => Reaches(c, "refused")
         /\ CleanFirst(c) => Reaches(c, "spawn")
         /\ Spawn(c) => Reaches(c, "insert")
         /\ StartFails(c) \/ PipeEnds(c) => Reaches(c, "end")
         /\ Insert(c) => Reaches(c, "pipe")
         /\ End(c) => Reaches(c, "over")
<1> \A at \in Bridge : Goto(c, at) => Reaches(c, at)
  BY Went
<1> QED
  BY DEF TakeLock, FindsRunning, ReportsVm, StartsVm, Refused, CleanFirst, Spawn, StartFails,
         PipeEnds, Insert, End, Bridge

\* The steps of connection c, and the others.
ConnMoves(c) ==
  \/ TakeLock(c) \/ FindsRunning(c) \/ StartsVm(c) \/ ReportsVm(c) \/ Refused(c)
  \/ CleanFirst(c) \/ Spawn(c) \/ StartFails(c) \/ Insert(c)
  \/ Feed(c) \/ PipeEnds(c) \/ End(c)

JobMoves == (\E s \in VmState : Sleep(s)) \/ Wake \/ JobReports

LEMMA Moves ==
  ASSUME [Next]_vars
  PROVE  \/ \E p \in Chats : ProxyMoves(p)
         \/ \E c \in Conns : ConnMoves(c) \/ ProcessEnds(c)
         \/ JobMoves \/ DashboardStarts \/ UNCHANGED vars
BY DEF Next, System, Users, ProxyStep, BridgeStep, ProxyMoves, ConnMoves, JobMoves

\* A connection stays what it was for its proxy: it is never unused again, and what is
\* through is not undone.
LEMMA ConnOnly ==
  ASSUME TypeOK, NEW c \in Conns, ConnMoves(c)
  PROVE  /\ chat' = chat /\ conn' \in [Conns -> ConnRow]
         /\ \A d \in Conns :
              /\ conn'[d].at = "unused" <=> conn[d].at = "unused"
              /\ Upgraded(d) => Upgraded(d)'
              /\ conn'[d].hungUp = conn[d].hungUp
         /\ \A d \in Conns \ {c} : conn'[d].at = conn[d].at
<1>1. PICK at \in Bridge \ {"unused"} :
        /\ Reaches(c, at)
        /\ conn[c].at # "unused"
        /\ Upgraded(c) => at \in {"clean", "spawn", "insert", "pipe", "end", "over"}
  <2>1. CASE Feed(c)
    BY <2>1, Fed DEF Feed, Bridge
  <2>2. CASE ~Feed(c)
    <3> USE Reached DEF Bridge, Upgraded
    <3>1. CASE TakeLock(c) \/ FindsRunning(c) \/ StartsVm(c) \/ ReportsVm(c) \/ Refused(c)
      BY <3>1 DEF TakeLock, FindsRunning, StartsVm, ReportsVm, Refused
    <3>2. CASE CleanFirst(c) \/ Spawn(c) \/ StartFails(c) \/ Insert(c)
      BY <3>2 DEF CleanFirst, Spawn, StartFails, Insert
    <3>3. CASE PipeEnds(c) \/ End(c)
      BY <3>3 DEF PipeEnds, End
    <3> QED
      BY <2>2, <3>1, <3>2, <3>3 DEF ConnMoves
  <2> QED
    BY <2>1, <2>2
<1>2. chat' = chat
  BY DEF ConnMoves, TakeLock, FindsRunning, StartsVm, ReportsVm, Refused, CleanFirst, Spawn,
         StartFails, Insert, Feed, PipeEnds, End
<1> QED
  BY <1>1, <1>2 DEF Reaches, Upgraded

-----------------------------------------------------------------------------
(* Each part of the invariant is kept. *)

LEMMA TypeKept == TypeOK /\ [Next]_vars => TypeOK'
<1> SUFFICES ASSUME TypeOK, [Next]_vars PROVE TypeOK'
  OBVIOUS
<1>1. ASSUME NEW p \in Chats, ProxyMoves(p) PROVE TypeOK'
  BY <1>1, ProxyOnly DEF TypeOK, ConnRow, ChatRow, hostVars, bridgeVars, historyVars
<1>2. ASSUME NEW c \in Conns, ConnMoves(c) PROVE TypeOK'
  <2>1. conn' \in [Conns -> ConnRow] /\ chat' = chat
    BY <1>2, ConnOnly
  <2>2. vm' \in VmState /\ row' \in Row /\ lock' \in Conns \cup {None} /\ job' = job
    BY <1>2 DEF ConnMoves, TakeLock, FindsRunning, StartsVm, ReportsVm, Refused, CleanFirst, Spawn,
                StartFails, Insert, Feed, PipeEnds, End, hostVars, TypeOK, VmState, Row
  <2>3. proc' \in [Conns -> {"none", "live", "dead"}] /\ sessions' \in Conns \cup {None}
    BY <1>2 DEF ConnMoves, TakeLock, FindsRunning, StartsVm, ReportsVm, Refused, CleanFirst, Spawn,
                StartFails, Insert, Feed, PipeEnds, End, bridgeVars, Cleanup, TypeOK
  <2>4. raced' \subseteq Conns
    BY <1>2 DEF ConnMoves, TakeLock, FindsRunning, StartsVm, ReportsVm, Refused, CleanFirst, Spawn,
                StartFails, Insert, Feed, PipeEnds, End, bridgeVars, TypeOK
  <2>5. slept' = slept
    BY <1>2 DEF ConnMoves, TakeLock, FindsRunning, StartsVm, ReportsVm, Refused, CleanFirst, Spawn,
                StartFails, Insert, Feed, PipeEnds, End, historyVars
  <2>6. unreported' \in BOOLEAN
    BY <1>2 DEF ConnMoves, TakeLock, FindsRunning, StartsVm, ReportsVm, Refused, CleanFirst, Spawn,
                StartFails, Insert, Feed, PipeEnds, End, historyVars, TypeOK
  <2> QED
    BY <2>1, <2>2, <2>3, <2>4, <2>5, <2>6 DEF TypeOK, ConnRow
<1>3. ASSUME NEW c \in Conns, ProcessEnds(c) PROVE TypeOK'
  BY <1>3 DEF ProcessEnds, TypeOK, hostVars, historyVars
<1>4. CASE JobMoves
  <2>1. CASE \E s \in VmState : Sleep(s)
    BY <2>1 DEF Sleep, TypeOK, bridgeVars
  <2>2. CASE Wake
    BY <2>2 DEF Wake, TypeOK, bridgeVars, historyVars, VmState
  <2>3. CASE JobReports
    BY <2>3 DEF JobReports, TypeOK, bridgeVars, Row
  <2> QED
    BY <1>4, <2>1, <2>2, <2>3 DEF JobMoves
<1>5. CASE DashboardStarts
  BY <1>5 DEF DashboardStarts, TypeOK, bridgeVars, VmState
<1>6. CASE UNCHANGED vars
  BY <1>6 DEF vars, hostVars, bridgeVars, historyVars, TypeOK
<1> QED
  BY <1>1, <1>2, <1>3, <1>4, <1>5, <1>6, Moves

LEMMA ProxyKept == TypeOK /\ ProxyInv /\ [Next]_vars => ProxyInv'
<1> SUFFICES ASSUME TypeOK, ProxyInv, [Next]_vars PROVE ProxyInv'
  OBVIOUS
<1>0. \A p \in Chats : chat[p].conn # None => chat[p].conn \in Conns
  BY DEF TypeOK
<1>1. ASSUME NEW p \in Chats, ProxyMoves(p) PROVE ProxyInv'
  <2>1. CASE Connected(p) \/ Send(p)
    <3>1. Upgraded(chat[p].conn) /\ chat[p].conn # None
      BY <2>1 DEF Connected, Send, ProxyInv
    <3>2. \A d \in Conns : Upgraded(d)' <=> Upgraded(d)
      BY <2>1, Wrote DEF Upgraded
    <3>3. \A q \in Chats : chat'[q].conn = chat[q].conn
      BY <2>1, Wrote DEF OthersStay
    <3> QED
      BY <1>0, <2>1, <3>1, <3>2, <3>3, Wrote DEF OthersStay, ProxyInv, Upgraded
  <2>2. CASE ConnectionFails(p) \/ Tick(p) \/ WorkerGone(p) \/ CloseChat(p)
    <3>1. \A d \in Conns : conn'[d].hungUp => conn[d].hungUp \/ d = chat[p].conn
      BY <2>2, LetGo
    <3>2. \A q \in Chats : q # p => chat'[q] = chat[q]
      BY <2>2, LetGo DEF OthersStay
    <3> QED
      <4>1. \A d \in Conns : conn'[d].at = conn[d].at
        BY <2>2, LetGo
      <4>2. chat'[p].at \notin {"connecting", "attached"} /\ chat'[p].conn = None
        BY <2>2, LetGo
      <4>3. \A q \in Chats : chat'[q].conn # None =>
              /\ q # p /\ chat[q].conn \in Conns /\ chat'[q] = chat[q] /\ chat[q].conn # chat[p].conn
        BY <1>0, <3>2, <4>2 DEF ProxyInv
      <4>4. \A q \in Chats : chat'[q].conn # None =>
              conn'[chat'[q].conn].at # "unused" /\ ~conn'[chat'[q].conn].hungUp
        BY <3>1, <4>1, <4>3 DEF ProxyInv
      <4>5. \A q \in Chats : chat'[q].at = "attached" =>
              conn'[chat'[q].conn].at \in {"clean", "spawn", "insert", "pipe", "end", "over"}
        <5> SUFFICES ASSUME NEW q \in Chats, chat'[q].at = "attached"
                     PROVE  conn'[chat'[q].conn].at
                              \in {"clean", "spawn", "insert", "pipe", "end", "over"}
          OBVIOUS
        <5>1. q # p /\ chat'[q] = chat[q] /\ chat[q].conn \in Conns /\ Upgraded(chat[q].conn)
          BY <1>0, <3>2, <4>2 DEF ProxyInv
        <5> QED
          BY <4>1, <5>1 DEF Upgraded
      <4>6. \A d \in Conns : conn'[d].at = "unused" => ~conn'[d].hungUp
        BY <3>1, <4>1, NoneIsNoConn DEF ProxyInv
      <4>7. \A q \in Chats : chat'[q].at \in {"connecting", "attached"} <=> chat'[q].conn # None
        BY <3>2, <4>2 DEF ProxyInv
      <4>8. \A q, t \in Chats : chat'[q].conn = chat'[t].conn /\ chat'[q].conn # None => q = t
        BY <4>3 DEF ProxyInv
      <4> QED
        BY <4>4, <4>5, <4>6, <4>7, <4>8 DEF ProxyInv, Upgraded
  <2>3. ASSUME NEW c \in Conns, OpenChat(p, c) \/ SendAnew(p, c) PROVE ProxyInv'
    <3>1. \A d \in Conns : conn'[d].hungUp => conn[d].hungUp \/ d = chat[p].conn
      BY <2>3, Asked
    <3>2. \A q \in Chats : q # p => chat'[q] = chat[q]
      BY <2>3, Asked DEF OthersStay
    <3>3. \A q \in Chats : chat[q].conn # c
      BY <2>3, Asked, NoneIsNoConn DEF ProxyInv
    <3>4. chat'[p].at = "connecting" /\ chat'[p].conn = c
      BY <2>3, Asked
    <3>5. conn[c].at = "unused" /\ conn'[c].at = "asked" /\ \A d \in Conns : d # c => conn'[d].at = conn[d].at
      BY <2>3, Asked
    <3>6. ~conn'[c].hungUp
      BY <3>1, <3>3, <3>5 DEF ProxyInv
    <3> QED
      BY <1>0, <3>1, <3>2, <3>3, <3>4, <3>5, <3>6, NoneIsNoConn DEF ProxyInv, Upgraded
  <2> QED
    BY <1>1, <2>1, <2>2, <2>3 DEF ProxyMoves
<1>2. ASSUME NEW c \in Conns, ConnMoves(c) PROVE ProxyInv'
  BY <1>0, <1>2, ConnOnly DEF ProxyInv
<1>3. CASE UNCHANGED <<chat, conn>>
  BY <1>3 DEF ProxyInv, Upgraded
<1>4. CASE (\E c \in Conns : ProcessEnds(c)) \/ JobMoves \/ DashboardStarts \/ UNCHANGED vars
  BY <1>3, <1>4 DEF ProcessEnds, JobMoves, Sleep, Wake, JobReports, DashboardStarts, vars
<1> QED
  BY <1>1, <1>2, <1>4, Moves

LEMMA LockKept == TypeOK /\ LockInv /\ [Next]_vars => LockInv'
<1> SUFFICES ASSUME TypeOK, LockInv, [Next]_vars PROVE LockInv'
  OBVIOUS
<1>1. ASSUME NEW p \in Chats, ProxyMoves(p) PROVE LockInv'
  BY <1>1, ProxyOnly DEF AtMostAsked, LockInv, hostVars
<1>2. ASSUME NEW c \in Conns, ConnMoves(c) PROVE LockInv'
  <2>1. CASE TakeLock(c)
    BY <2>1, Reached, NoneIsNoConn DEF TakeLock, Free, Reaches, LockInv
  <2>2. CASE FindsRunning(c) \/ ReportsVm(c)
    <3>1. Reaches(c, "clean") /\ lock' = None /\ job' = job /\ conn[c].at \in {"vm", "report"}
      BY <2>2, Reached DEF FindsRunning, ReportsVm
    <3>2. lock = c
      BY <3>1 DEF LockInv
    <3> QED
      BY <3>1, <3>2, NoneIsNoConn DEF Reaches, LockInv
  <2>3. CASE StartsVm(c)
    BY <2>3, Reached DEF StartsVm, Reaches, LockInv
  <2>4. CASE Refused(c)
    BY <2>4, Reached, NoneIsNoConn DEF Refused, Reaches, LockInv
  <2>5. CASE CleanFirst(c) \/ Spawn(c) \/ StartFails(c) \/ Insert(c) \/ PipeEnds(c) \/ End(c)
    BY <2>5, Reached DEF CleanFirst, Spawn, StartFails, Insert, PipeEnds, End, hostVars, Reaches, LockInv
  <2>6. CASE Feed(c)
    <3>1. conn[c].at = "pipe" /\ conn'[c].at \in {"pipe", "end"} /\ UNCHANGED <<lock, job>>
      BY <2>6, Fed DEF Feed, Reaches
    <3> QED
      BY <1>2, <3>1, ConnOnly DEF LockInv
  <2> QED
    BY <1>2, <2>1, <2>2, <2>3, <2>4, <2>5, <2>6 DEF ConnMoves
<1>3. ASSUME NEW c \in Conns, ProcessEnds(c) PROVE LockInv'
  BY <1>3 DEF ProcessEnds, hostVars, LockInv
<1>4. CASE JobMoves
  BY <1>4 DEF JobMoves, Sleep, Wake, JobReports, Free, LockInv
<1>5. CASE DashboardStarts \/ UNCHANGED vars
  BY <1>5 DEF DashboardStarts, vars, hostVars, LockInv
<1> QED
  BY <1>1, <1>2, <1>3, <1>4, <1>5, Moves

LEMMA RowKept == TypeOK /\ LockInv /\ RowInv /\ [Next]_vars => RowInv'
<1> SUFFICES ASSUME TypeOK, LockInv, RowInv, [Next]_vars PROVE RowInv'
  OBVIOUS
<1>1. ASSUME NEW p \in Chats, ProxyMoves(p) PROVE RowInv'
  <2>1. Reporting => Reporting'
    BY <1>1, ProxyOnly DEF AtMostAsked, Reporting
  <2> QED
    BY <1>1, <2>1, ProxyOnly DEF RowInv, hostVars, historyVars
<1>2. ASSUME NEW c \in Conns, ConnMoves(c) PROVE RowInv'
  <2>1. conn[c].at # "report" /\ Reporting => Reporting'
    BY <1>2, ConnOnly DEF Reporting
  <2>2. CASE TakeLock(c) \/ FindsRunning(c)
    BY <2>1, <2>2 DEF TakeLock, FindsRunning, RowInv, historyVars
  <2>3. CASE StartsVm(c)
    BY <2>3, Reached DEF Reaches, Reporting, RowInv
  <2>4. CASE ReportsVm(c)
    <3>1. job # "slept"
      BY <2>4, NoneIsNoConn DEF ReportsVm, LockInv
    <3> QED
      BY <2>4, <3>1 DEF ReportsVm, RowInv
  <2>5. CASE Refused(c)
    BY <2>1, <2>5 DEF Refused, RowInv
  <2>6. CASE CleanFirst(c) \/ Spawn(c) \/ StartFails(c) \/ Insert(c) \/ PipeEnds(c) \/ End(c)
    BY <2>1, <2>6 DEF CleanFirst, Spawn, StartFails, Insert, PipeEnds, End, hostVars, historyVars, RowInv
  <2>7. CASE Feed(c)
    BY <2>1, <2>7 DEF Feed, RowInv
  <2> QED
    BY <1>2, <2>2, <2>3, <2>4, <2>5, <2>6, <2>7 DEF ConnMoves
<1>3. ASSUME UNCHANGED <<vm, row, job, conn, unreported>> PROVE RowInv'
  BY <1>3 DEF RowInv, Reporting
<1>4. CASE (\E c \in Conns : ProcessEnds(c)) \/ UNCHANGED vars
  BY <1>3, <1>4 DEF ProcessEnds, vars, hostVars, historyVars
<1>5. CASE JobMoves
  <2>1. Free => ~Reporting
    BY NoneIsNoConn DEF Free, LockInv, Reporting
  <2>2. CASE \E s \in VmState : Sleep(s)
    <3>1. vm' # "on"
      BY <2>2, ConstantsAssumption DEF Sleep
    <3> QED
      BY <3>1 DEF RowInv
  <2>3. CASE Wake
    BY <2>3 DEF Wake, RowInv
  <2>4. CASE JobReports
    BY <2>4 DEF JobReports, RowInv, Reporting, TypeOK
  <2> QED
    BY <1>5, <2>2, <2>3, <2>4 DEF JobMoves
<1>6. CASE DashboardStarts
  BY <1>6 DEF DashboardStarts, RowInv
<1> QED
  BY <1>1, <1>2, <1>4, <1>5, <1>6, Moves

LEMMA DownKept == TypeOK /\ LockInv /\ RowInv /\ DownInv /\ [Next]_vars => DownInv'
<1> SUFFICES ASSUME TypeOK, LockInv, RowInv, DownInv, [Next]_vars PROVE DownInv'
  OBVIOUS
<1>0. ASSUME \A d \in Conns : Upgraded(d)' => Upgraded(d),
             UNCHANGED <<row, job, slept>>, unreported => unreported'
      PROVE  DownInv'
  BY <1>0 DEF DownInv
<1>1. ASSUME NEW p \in Chats, ProxyMoves(p) PROVE DownInv'
  <2>1. \A d \in Conns : Upgraded(d)' => Upgraded(d)
    BY <1>1, ProxyOnly DEF AtMostAsked, Upgraded
  <2> QED
    BY <1>0, <1>1, <2>1, ProxyOnly DEF hostVars, historyVars
<1>2. ASSUME NEW c \in Conns, ConnMoves(c) PROVE DownInv'
  <2>1. CASE TakeLock(c) \/ StartsVm(c) \/ Refused(c)
    <3>1. \A d \in Conns : Upgraded(d)' => Upgraded(d)
      BY <2>1, Reached DEF Reaches, Upgraded
    <3> QED
      BY <1>0, <2>1, <3>1 DEF TakeLock, StartsVm, Refused, historyVars
  <2>2. CASE FindsRunning(c)
    <3>1. lock = c /\ job = "none"
      BY <2>2, NoneIsNoConn DEF FindsRunning, LockInv
    <3>2. ~Reporting
      BY <2>2, <3>1 DEF FindsRunning, LockInv, Reporting
    <3>3. row = "down" => unreported
      BY <2>2, <3>1, <3>2 DEF FindsRunning, RowInv
    <3> QED
      BY <2>2, <3>1, <3>3 DEF FindsRunning, DownInv, historyVars
  <2>3. CASE ReportsVm(c)
    <3>1. job = "none"
      BY <2>3, NoneIsNoConn DEF ReportsVm, LockInv
    <3> QED
      BY <2>3, <3>1 DEF ReportsVm, DownInv
  <2>4. CASE CleanFirst(c) \/ Spawn(c) \/ StartFails(c) \/ Insert(c) \/ PipeEnds(c) \/ End(c)
    <3>1. \A d \in Conns : Upgraded(d)' => Upgraded(d)
      BY <2>4, Reached DEF CleanFirst, Spawn, StartFails, Insert, PipeEnds, End, Reaches, Upgraded
    <3> QED
      BY <1>0, <2>4, <3>1 DEF CleanFirst, Spawn, StartFails, Insert, PipeEnds, End, hostVars, historyVars
  <2>5. CASE Feed(c)
    <3>1. \A d \in Conns : Upgraded(d)' => Upgraded(d)
      BY <2>5, Fed DEF Feed, Reaches, Upgraded
    <3> QED
      BY <1>0, <2>5, <3>1 DEF Feed
  <2> QED
    BY <1>2, <2>1, <2>2, <2>3, <2>4, <2>5 DEF ConnMoves
<1>3. CASE (\E c \in Conns : ProcessEnds(c)) \/ DashboardStarts \/ UNCHANGED vars
  <2>1. \A d \in Conns : Upgraded(d)' => Upgraded(d)
    BY <1>3 DEF ProcessEnds, DashboardStarts, vars, Upgraded
  <2> QED
    BY <1>0, <1>3, <2>1 DEF ProcessEnds, DashboardStarts, vars, hostVars, historyVars
<1>4. CASE JobMoves
  <2>1. \A d \in Conns : Upgraded(d)' <=> Upgraded(d)
    BY <1>4 DEF JobMoves, Sleep, Wake, JobReports, Upgraded
  <2>2. CASE \E s \in VmState : Sleep(s)
    BY <2>1, <2>2 DEF Sleep, DownInv, Upgraded
  <2>3. CASE Wake
    BY <2>1, <2>3 DEF Wake, DownInv, historyVars
  <2>4. CASE JobReports
    BY <2>1, <2>4 DEF JobReports, DownInv
  <2> QED
    BY <1>4, <2>2, <2>3, <2>4 DEF JobMoves
<1> QED
  BY <1>1, <1>2, <1>3, <1>4, Moves

LEMMA TableKept == TypeOK /\ TableInv /\ [Next]_vars => TableInv'
<1> SUFFICES ASSUME TypeOK, TableInv, [Next]_vars PROVE TableInv'
  OBVIOUS
<1>0. sessions # None => sessions \in Conns
  BY DEF TypeOK
<1>1. ASSUME NEW p \in Chats, ProxyMoves(p) PROVE TableInv'
  BY <1>0, <1>1, ProxyOnly DEF AtMostAsked, TableInv, EntryIsServed, Starting, bridgeVars
<1>2. ASSUME NEW c \in Conns, ConnMoves(c) PROVE TableInv'
  <2>1. CASE TakeLock(c) \/ FindsRunning(c) \/ StartsVm(c) \/ ReportsVm(c) \/ Refused(c)
    <3>1. \A d \in Conns : Starting(d)' <=> Starting(d)
      BY <2>1, Reached DEF TakeLock, FindsRunning, StartsVm, ReportsVm, Refused, Reaches, Starting
    <3>2. UNCHANGED <<proc, sessions, raced>>
      BY <2>1 DEF TakeLock, FindsRunning, StartsVm, ReportsVm, Refused, bridgeVars
    <3>3. \A d \in Conns : conn'[d].at \in {"pipe", "end"} <=> conn[d].at \in {"pipe", "end"}
      BY <2>1, Reached DEF TakeLock, FindsRunning, StartsVm, ReportsVm, Refused, Reaches
    <3>4. \A d \in Conns : conn'[d].at = "pipe" => conn[d].at = "pipe"
      BY <2>1, Reached DEF TakeLock, FindsRunning, StartsVm, ReportsVm, Refused, Reaches
    <3> QED
      BY <1>0, <3>1, <3>2, <3>3, <3>4 DEF TableInv, EntryIsServed
  <2>2. CASE CleanFirst(c)
    <3> DEFINE met == {d \in Conns : Starting(d)}
    <3>1. Reaches(c, "spawn") /\ conn[c].at = "clean" /\ sessions' = None
      BY <2>2, Reached DEF CleanFirst, Cleanup
    <3>2. raced' = raced \cup met \cup (IF met = {} THEN {} ELSE {c})
      BY <2>2 DEF CleanFirst
    <3>3. \A d \in Conns : Starting(d) => d \in raced' /\ c \in raced'
      BY <3>2
    <3>4. \A d \in Conns : Starting(d)' => Starting(d) \/ d = c
      BY <3>1 DEF Reaches, Starting
    <3>5. \A d, e \in Conns : d # e /\ Starting(d)' /\ Starting(e)' => d \in raced'
      BY <3>2, <3>3, <3>4 DEF TableInv
    <3>6. \A d \in Conns : conn'[d].at = "pipe" /\ proc'[d] = "live" => d \in raced'
      <4>1. \A d \in Conns : conn'[d].at = "pipe" => conn[d].at = "pipe"
        BY <3>1 DEF Reaches
      <4>2. \A d \in Conns : proc'[d] = "live" => proc[d] = "live" /\ d # sessions
        BY <2>2 DEF CleanFirst, Cleanup
      <4> QED
        BY <3>2, <4>1, <4>2 DEF TableInv
    <3> QED
      BY <3>1, <3>5, <3>6 DEF TableInv, EntryIsServed
  <2>3. CASE Spawn(c)
    <3>1. Reaches(c, "insert") /\ conn[c].at = "spawn" /\ sessions' = sessions /\ raced' = raced
      BY <2>3, Reached DEF Spawn
    <3>2. \A d \in Conns : Starting(d)' <=> Starting(d)
      BY <3>1 DEF Reaches, Starting
    <3>3. \A d \in Conns : conn'[d].at = "pipe" => conn[d].at = "pipe" /\ proc'[d] = proc[d]
      BY <2>3, <3>1 DEF Spawn, Reaches, TypeOK
    <3> QED
      BY <1>0, <3>1, <3>2, <3>3 DEF TableInv, EntryIsServed, Reaches
  <2>4. CASE StartFails(c)
    BY <1>0, <2>4, Reached DEF StartFails, bridgeVars, Reaches, TableInv, EntryIsServed, Starting
  <2>5. CASE Insert(c)
    <3>1. Reaches(c, "pipe") /\ conn[c].at = "insert" /\ sessions' = c
      BY <2>5, Reached DEF Insert
    <3>2. UNCHANGED <<proc, raced>>
      BY <2>5 DEF Insert
    <3>3. \A d \in Conns : Starting(d)' => Starting(d) /\ d # c
      BY <3>1 DEF Reaches, Starting
    <3>4. \A d \in Conns : Starting(d)' => c \in raced
      BY <3>1, <3>3 DEF TableInv, Starting
    <3>5. sessions # None => sessions \in raced
      BY <3>1 DEF TableInv, Starting
    <3>6. \A d \in Conns : d # c /\ conn'[d].at = "pipe" => conn[d].at = "pipe"
      BY <3>1 DEF Reaches
    <3>7. \A d \in Conns : d # c /\ conn'[d].at = "pipe" /\ proc[d] = "live" => d \in raced
      BY <3>5, <3>6, NoneIsNoConn DEF TableInv
    <3> QED
      BY <3>1, <3>2, <3>3, <3>4, <3>7 DEF TableInv, EntryIsServed, Reaches
  <2>6. CASE Feed(c) \/ PipeEnds(c)
    <3>1. conn[c].at = "pipe" /\ conn'[c].at \in {"pipe", "end"} /\ UNCHANGED <<proc, sessions, raced>>
      BY <2>6, Fed, Reached DEF Feed, PipeEnds, Reaches, bridgeVars
    <3>2. \A d \in Conns \ {c} : conn'[d].at = conn[d].at
      BY <1>2, ConnOnly
    <3> QED
      BY <1>0, <3>1, <3>2 DEF TableInv, EntryIsServed, Starting
  <2>7. CASE End(c)
    <3>1. Reaches(c, "over") /\ sessions' = None /\ raced' = raced
      BY <2>7, Reached DEF End, Cleanup
    <3>2. \A d \in Conns : Starting(d)' => Starting(d)
      BY <3>1 DEF Reaches, Starting
    <3>3. \A d \in Conns : conn'[d].at = "pipe" => conn[d].at = "pipe"
      BY <3>1 DEF Reaches
    <3>4. \A d \in Conns : proc'[d] = "live" => proc[d] = "live" /\ d # sessions
      BY <2>7 DEF End, Cleanup
    <3> QED
      BY <3>1, <3>2, <3>3, <3>4 DEF TableInv, EntryIsServed
  <2> QED
    BY <1>2, <2>1, <2>2, <2>3, <2>4, <2>5, <2>6, <2>7 DEF ConnMoves
<1>3. ASSUME NEW c \in Conns, ProcessEnds(c) PROVE TableInv'
  <2>1. \A d \in Conns : proc'[d] = "live" => proc[d] = "live"
    BY <1>3 DEF ProcessEnds, TypeOK
  <2> QED
    BY <1>3, <2>1 DEF ProcessEnds, TableInv, EntryIsServed, Starting
<1>4. CASE JobMoves \/ DashboardStarts \/ UNCHANGED vars
  <2>1. UNCHANGED <<conn, proc, sessions, raced>>
    BY <1>4 DEF JobMoves, Sleep, Wake, JobReports, DashboardStarts, vars, bridgeVars
  <2> QED
    BY <2>1 DEF TableInv, EntryIsServed, Starting
<1> QED
  BY <1>1, <1>2, <1>3, <1>4, Moves

-----------------------------------------------------------------------------
LEMMA BridgeStart == Init => BridgeInv
<1> SUFFICES ASSUME Init PROVE BridgeInv
  OBVIOUS
<1>1. TypeOK
  <2>1. conn \in [Conns -> ConnRow]
    BY ConstantsAssumption DEF Init, ConnRow, Bridge
  <2>2. chat \in [Chats -> ChatRow]
    BY DEF Init, ChatRow
  <2>3. proc \in [Conns -> {"none", "live", "dead"}]
    BY DEF Init
  <2> QED
    BY <2>1, <2>2, <2>3 DEF Init, TypeOK, ConnRow, ChatRow, VmState, Row
<1>2. ProxyInv /\ LockInv
  BY NoneIsNoConn DEF Init, ProxyInv, LockInv
<1>3. RowInv /\ DownInv /\ TableInv
  BY DEF Init, RowInv, DownInv, TableInv, EntryIsServed, Starting
<1> QED
  BY <1>1, <1>2, <1>3 DEF BridgeInv

LEMMA BridgeKept == BridgeInv /\ [Next]_vars => BridgeInv'
BY TypeKept, ProxyKept, LockKept, RowKept, DownKept, TableKept DEF BridgeInv

LEMMA BridgeAlways == Spec => []BridgeInv
BY BridgeStart, BridgeKept, PTL DEF Spec

\* Proxies, connections, processes and the table stay within their types.
THEOREM ChatTypeCorrect == Spec => []TypeOK
<1>1. BridgeInv => TypeOK
  BY DEF BridgeInv
<1> QED
  BY <1>1, BridgeAlways, PTL

\* Two agents of a workspace run side by side only after two chats started at a time,
\* although the table has one entry and insertions do not look at it.
THEOREM OneAgent == Spec => []NewReplacesOld
<1>1. BridgeInv => NewReplacesOld
  <2> SUFFICES ASSUME BridgeInv, NEW c \in Conns, NEW d \in Conns, c # d,
                      proc[c] = "live", proc[d] = "live",
                      conn[c].at \in {"insert", "pipe"}, conn[d].at \in {"insert", "pipe"}
               PROVE  c \in raced \/ d \in raced
    BY DEF NewReplacesOld
  <2>1. CASE conn[c].at = "insert" /\ conn[d].at = "insert"
    BY <2>1 DEF BridgeInv, TableInv, Starting
  <2>2. CASE conn[c].at = "pipe" /\ conn[d].at = "pipe"
    BY <2>2 DEF BridgeInv, TableInv
  <2>3. CASE conn[c].at = "insert" /\ conn[d].at = "pipe"
    BY <2>3, NoneIsNoConn DEF BridgeInv, TableInv, Starting
  <2>4. CASE conn[c].at = "pipe" /\ conn[d].at = "insert"
    BY <2>4, NoneIsNoConn DEF BridgeInv, TableInv, Starting
  <2> QED
    BY <2>1, <2>2, <2>3, <2>4
<1> QED
  BY <1>1, BridgeAlways, PTL

\* An entry of the table never outlives the bridge that made it.
THEOREM EntryHasItsBridge == Spec => []EntryIsServed
<1>1. BridgeInv => EntryIsServed
  BY DEF BridgeInv, TableInv
<1> QED
  BY <1>1, BridgeAlways, PTL

\* The step of DropIsExplained.
Explained == \A p \in Chats : LetsGo(p) => chat[p].conn \in slept \/ unreported

\* A proxy gives up a worker side only when the VM was taken down under it, or was
\* started by somebody who did not report it.
THEOREM NoDropWithoutReason == Spec => DropIsExplained
<1>1. BridgeInv /\ [Next]_vars => [Explained]_vars
  <2> SUFFICES ASSUME BridgeInv, [Next]_vars, NEW p \in Chats, LetsGo(p)
               PROVE  chat[p].conn \in slept \/ unreported
    BY DEF Explained
  <2>1. chat[p].conn \in Conns /\ Upgraded(chat[p].conn) /\ ~conn[chat[p].conn].hungUp
    BY DEF LetsGo, BridgeInv, ProxyInv, TypeOK
  <2>2. row = "down" => chat[p].conn \in slept \/ unreported
    BY <2>1 DEF BridgeInv, DownInv
  <2>3. chat'[p] # chat[p] /\ chat'[p].at \in {"detached", "connecting"} /\ chat[p].at = "attached"
    BY DEF LetsGo
  <2>4. TypeOK
    BY DEF BridgeInv
  <2>5. PICK q \in Chats : ProxyMoves(q)
    <3>1. \A c \in Conns : ConnMoves(c) => chat' = chat
      BY <2>4, ConnOnly
    <3>2. (\E c \in Conns : ProcessEnds(c)) \/ JobMoves \/ DashboardStarts \/ UNCHANGED vars => chat' = chat
      BY DEF ProcessEnds, JobMoves, Sleep, Wake, JobReports, DashboardStarts, vars
    <3> QED
      BY <2>3, <3>1, <3>2, Moves
  <2>6. OthersStay(q)
    BY <2>4, <2>5, Wrote, LetGo, Asked DEF ProxyMoves
  <2>7. q = p
    BY <2>3, <2>6 DEF OthersStay
  <2>8. CASE Connected(p) \/ Send(p)
    BY <2>3, <2>4, <2>8, Wrote
  <2>9. CASE ConnectionFails(p) \/ CloseChat(p)
    BY <2>3, <2>4, <2>9 DEF ConnectionFails, CloseChat, TypeOK, Detached
  <2>10. CASE Tick(p)
    BY <2>2, <2>10 DEF Tick, NeedsReconnect
  <2>11. CASE WorkerGone(p)
    BY <2>1, <2>11 DEF WorkerGone, LetsGo
  <2>12. CASE \E c \in Conns : OpenChat(p, c) \/ SendAnew(p, c)
    BY <2>2, <2>3, <2>12 DEF OpenChat, SendAnew, NeedsReconnect
  <2> QED
    BY <2>5, <2>7, <2>8, <2>9, <2>10, <2>11, <2>12 DEF ProxyMoves
<1> QED
  BY <1>1, BridgeAlways, PTL DEF Spec, DropIsExplained, Explained
=============================================================================
