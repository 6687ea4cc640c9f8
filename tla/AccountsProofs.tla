--------------------------- MODULE AccountsProofs ---------------------------
(***************************************************************************)
(* Theorems about Accounts, for any addresses, workspaces, invites, users  *)
(* and requests under way.                                                 *)
(***************************************************************************)
EXTENDS Accounts, FiniteSetTheorems, TLAPS

(* What the rows and the requests have in common at any moment. *)

Born(u) == user[u].is # "unborn"

\* A request that is under way is about a user there has been, and about a workspace
\* of that user from the moment it has one in hand.
RequestsInv ==
  \A r \in Requests :
    /\ req[r].at # "idle" => req[r].target \in Users /\ Born(req[r].target)
    /\ req[r].at \in {"create job", "desire", "remove job"} =>
         req[r].ws \in Names /\ Exists(req[r].ws) /\ ws[req[r].ws].owner = req[r].target

\* Rows belong to users there have been, under the address these have signed up with.
RowsInv ==
  /\ \A s \in sessions : Born(s.user) /\ user[s.user].email = s.email
  /\ \A n \in Names :
       /\ Exists(n) => ws[n].owner \in Users
       /\ ws[n].owner \in Users =>
            Exists(n) /\ Born(ws[n].owner) /\ user[ws[n].owner].email = ws[n].email
       /\ jobs[n] # << >> => Exists(n)

\* The index on owner_user_id.
UniqueInv ==
  \A m, n \in Names : Exists(m) /\ Exists(n) /\ ws[m].owner = ws[n].owner => m = n

\* As long as no two admins have been deleting at a time, deletions are the work of one
\* of them, who is not deleted by any.
DeletersInv ==
  ~crossed =>
    \A r \in Requests : req[r].at \in Deleting =>
      /\ req[r].by \in Admins /\ req[r].by # req[r].target
      /\ \A s \in Requests : req[s].at \in Deleting => req[s].by = req[r].by

\* The workspace n will go: a job to remove it has no job to create it behind it.
Going(n) ==
  \/ n \in lost \/ ws[n].owner \in met
  \/ /\ ws[n].desired = "removed"
     /\ \A i \in DOMAIN jobs[n] : jobs[n][i] # "create"
  \/ \E i \in DOMAIN jobs[n] :
       /\ jobs[n][i] = "remove"
       /\ \A j \in DOMAIN jobs[n] : j > i => jobs[n][j] # "create"

\* Who is deleted has met every setup that is under way.
MetInv ==
  \A r \in Requests : req[r].at \in SettingUp =>
    \/ req[r].target \in met
    \/ user[req[r].target].is = "live" /\ Under(req[r].target, Deleting) = {}

\* The workspace goes from the moment that the deletion has queued its job.
GoingInv ==
  \A n \in Names : Exists(n) =>
    /\ user[ws[n].owner].is = "deleted" => Going(n)
    /\ \A r \in Requests :
         req[r].at \in {"sessions", "user"} /\ req[r].target = ws[n].owner => Going(n)

AccountsInv ==
  /\ TypeOK /\ RequestsInv /\ RowsInv /\ UniqueInv
  /\ DeletersInv /\ AnAdminRemains /\ MetInv /\ GoingInv

-----------------------------------------------------------------------------
(* Types. *)

LEMMA InitIsTyped == Init => TypeOK
<1> SUFFICES ASSUME Init PROVE TypeOK
  OBVIOUS
<1>1. /\ used \in [Invites -> 0..MaxUses] /\ failures \in 0..MaxFailures
      /\ jobs \in [Names -> Seq({"create", "remove"})]
  BY ConstantsAssumption DEF Init
<1>2. user \in [Users -> UserRow]
  BY DEF Init, UserRow, Roles
<1>3. req \in [Requests -> RequestRow] /\ ws \in [Names -> WsRow]
  BY DEF Init, NoRequest, RequestRow, WsRow
<1> QED
  BY <1>1, <1>2, <1>3 DEF Init, TypeOK

LEMMA UsersKeepType ==
  ASSUME TypeOK, NEW u \in Users
  PROVE  /\ \A e \in Emails : SignUpFirst(u, e) => TypeOK'
         /\ \A e \in Emails, i \in Invites : SignUp(u, e, i) => TypeOK'
         /\ LogIn(u) => TypeOK'
<1>1. ASSUME NEW e \in Emails, SignUpFirst(u, e) PROVE TypeOK'
  <2>1. user' \in [Users -> UserRow]
    BY <1>1 DEF TypeOK, UserRow, Roles, SignUpFirst, SignsUp
  <2>2. sessions' \subseteq SessionRow
    BY <1>1 DEF TypeOK, SessionRow, SignUpFirst, SignsUp
  <2> QED
    BY <1>1, <2>1, <2>2 DEF TypeOK, SignUpFirst, SignsUp, wsVars, history
<1>2. ASSUME NEW e \in Emails, NEW i \in Invites, SignUp(u, e, i) PROVE TypeOK'
  <2>1. RoleOf[i] \in Roles
    BY ConstantsAssumption DEF Roles
  <2>2. user' \in [Users -> UserRow]
    BY <1>2, <2>1 DEF TypeOK, UserRow, SignUp, SignsUp
  <2>3. sessions' \subseteq SessionRow
    BY <1>2 DEF TypeOK, SessionRow, SignUp, SignsUp
  <2>4. used[i] + 1 \in 0..MaxUses
    BY <1>2, ConstantsAssumption DEF TypeOK, SignUp
  <2>5. used' \in [Invites -> 0..MaxUses]
    BY <1>2, <2>4 DEF TypeOK, SignUp
  <2> QED
    BY <1>2, <2>2, <2>3, <2>5 DEF TypeOK, SignUp, SignsUp, wsVars, history
<1>3. ASSUME LogIn(u) PROVE TypeOK'
  <2>1. sessions' \subseteq SessionRow
    BY <1>3 DEF TypeOK, SessionRow, UserRow, LogIn
  <2> QED
    BY <1>3, <2>1 DEF TypeOK, LogIn, wsVars, history
<1> QED
  BY <1>1, <1>2, <1>3

LEMMA RequestsKeepType ==
  ASSUME TypeOK, RequestsInv, NEW r \in Requests
  PROVE  /\ \A u \in Users : Setup(r, u) => TypeOK'
         /\ \A a, u \in Users : Delete(r, a, u) => TypeOK'
         /\ Step(r) => TypeOK'
         /\ Dies(r) => TypeOK'
<1>1. ASSUME NEW u \in Users, Setup(r, u) PROVE TypeOK'
  <2>1. req' \in [Requests -> RequestRow]
    BY <1>1 DEF TypeOK, RequestRow, NoRequest, Setup
  <2>2. met' \subseteq Users
    BY <1>1 DEF TypeOK, Setup
  <2> QED
    BY <1>1, <2>1, <2>2 DEF TypeOK, Setup, accountVars, wsVars
<1>2. ASSUME NEW a \in Users, NEW u \in Users, Delete(r, a, u) PROVE TypeOK'
  <2>1. PICK n \in Owned(u) \cup (IF Owned(u) = {} THEN {None} ELSE {}) :
          req' = [req EXCEPT ![r] = [at |-> IF n = None THEN "sessions" ELSE "desire",
                                     by |-> a, target |-> u, ws |-> n]]
    BY <1>2 DEF Delete, Starts
  <2>2. n \in Names \cup {None}
    BY DEF Owned
  <2>3. req' \in [Requests -> RequestRow]
    <3>1. [at |-> IF n = None THEN "sessions" ELSE "desire", by |-> a, target |-> u, ws |-> n]
            \in RequestRow
      BY <2>2 DEF RequestRow
    <3> QED
      BY <2>1, <3>1 DEF TypeOK
  <2>4. met' \subseteq Users /\ crossed' \in BOOLEAN
    BY <1>2 DEF TypeOK, Delete, Starts
  <2> QED
    BY <1>2, <2>3, <2>4 DEF TypeOK, Delete, Starts, accountVars, wsVars
<1>3. ASSUME NEW n \in Names, SetupInserts(r, n) PROVE TypeOK'
  <2>1. req[r].target \in Users
    BY <1>3 DEF SetupInserts, RequestsInv
  <2>2. ws' \in [Names -> WsRow]
    BY <1>3, <2>1 DEF TypeOK, WsRow, UserRow, SetupInserts
  <2>3. req' \in [Requests -> RequestRow]
    <3>1. [req[r] EXCEPT !.at = "create job", !.ws = n] \in RequestRow
      BY DEF TypeOK, RequestRow
    <3> QED
      BY <1>3, <3>1 DEF TypeOK, SetupInserts
  <2> QED
    BY <1>3, <2>2, <2>3 DEF TypeOK, SetupInserts, accountVars, history
<1>4. [req EXCEPT ![r] = NoRequest] \in [Requests -> RequestRow]
  BY DEF TypeOK, NoRequest, RequestRow
<1>5. \A at \in {"remove job", "sessions", "user"} :
        [req EXCEPT ![r].at = at] \in [Requests -> RequestRow]
  BY DEF TypeOK, RequestRow
<1>6. CASE SetupIsRefused(r)
  BY <1>4, <1>6 DEF TypeOK, SetupIsRefused, Done, accountVars, wsVars, history
<1>7. \A kind \in {"create", "remove"}, n \in Names :
        [jobs EXCEPT ![n] = Append(@, kind)] \in [Names -> Seq({"create", "remove"})]
  BY DEF TypeOK
<1>8. CASE SetupQueues(r)
  <2>1. jobs' \in [Names -> Seq({"create", "remove"})]
    BY <1>7, <1>8 DEF SetupQueues, Queue, RequestsInv
  <2> QED
    BY <1>4, <1>8, <2>1 DEF TypeOK, SetupQueues, Done, accountVars, history
<1>9. CASE DeleteDesires(r)
  <2>1. ws' \in [Names -> WsRow]
    BY <1>9 DEF TypeOK, WsRow, DeleteDesires
  <2> QED
    BY <1>5, <1>9, <2>1 DEF TypeOK, DeleteDesires, Goto, accountVars, history
<1>10. CASE DeleteQueues(r)
  <2>1. jobs' \in [Names -> Seq({"create", "remove"})]
    BY <1>7, <1>10 DEF DeleteQueues, Queue, RequestsInv
  <2> QED
    BY <1>5, <1>10, <2>1 DEF TypeOK, DeleteQueues, Goto, accountVars, history
<1>11. CASE DeleteSessions(r)
  BY <1>5, <1>11 DEF TypeOK, DeleteSessions, Goto, wsVars, history
<1>12. CASE DeleteUser(r)
  <2>1. user' \in [Users -> UserRow]
    BY <1>12 DEF TypeOK, UserRow, DeleteUser
  <2> QED
    BY <1>4, <1>12, <2>1 DEF TypeOK, DeleteUser, Done, wsVars, history
<1>13. CASE Dies(r)
  <2>1. failures' \in 0..MaxFailures
    BY <1>13, ConstantsAssumption DEF TypeOK, Dies, Fails
  <2> QED
    BY <1>4, <1>13, <2>1 DEF TypeOK, Dies, Done, accountVars, wsVars
<1> QED
  BY <1>1, <1>2, <1>3, <1>6, <1>8, <1>9, <1>10, <1>11, <1>12, <1>13 DEF Step

LEMMA JobsKeepType ==
  ASSUME TypeOK, NEW n \in Names
  PROVE  (RunJob(n) => TypeOK') /\ (JobFails(n) => TypeOK')
<1>1. jobs[n] # << >> =>
        [jobs EXCEPT ![n] = Tail(@)] \in [Names -> Seq({"create", "remove"})]
  <2>1. jobs[n] \in Seq({"create", "remove"})
    BY DEF TypeOK
  <2>2. jobs[n] # << >> => Tail(jobs[n]) \in Seq({"create", "remove"})
    BY <2>1
  <2> QED
    BY <2>2 DEF TypeOK
<1>2. CASE RunJob(n)
  <2>1. ws' \in [Names -> WsRow]
    BY <1>2 DEF TypeOK, WsRow, RunJob
  <2> QED
    BY <1>1, <1>2, <2>1 DEF TypeOK, RunJob, accountVars, history
<1>3. CASE JobFails(n)
  <2>1. failures' \in 0..MaxFailures /\ lost' \subseteq Names
    BY <1>3, ConstantsAssumption DEF TypeOK, JobFails, Fails
  <2> QED
    BY <1>1, <1>3, <2>1 DEF TypeOK, JobFails, accountVars
<1> QED
  BY <1>2, <1>3

LEMMA StepKeepsType == TypeOK /\ RequestsInv /\ [Next]_vars => TypeOK'
<1> SUFFICES ASSUME TypeOK, RequestsInv, [Next]_vars PROVE TypeOK'
  OBVIOUS
<1>1. CASE UNCHANGED vars
  BY <1>1 DEF TypeOK, vars, accountVars, wsVars, history
<1> QED
  BY <1>1, UsersKeepType, RequestsKeepType, JobsKeepType DEF Next

-----------------------------------------------------------------------------
(* Rows stay: a user who was born has been born, under the same address, and a        *)
(* workspace that exists keeps its owner.                                             *)

LEMMA UsersStay ==
  ASSUME TypeOK, [Next]_vars, NEW u \in Users, Born(u)
  PROVE  Born(u)' /\ user'[u].email = user[u].email /\ user'[u].role = user[u].role
<1> USE DEF Born, accountVars, wsVars, history
<1>1. ASSUME NEW v \in Users, NEW e \in Emails, NEW i, NEW role, SignsUp(v, e, i, role)
      PROVE  user'[u] = user[u]
  BY <1>1 DEF SignsUp, IsNewId, TypeOK
<1>2. ASSUME NEW r \in Requests, DeleteUser(r)
      PROVE  Born(u)' /\ user'[u].email = user[u].email /\ user'[u].role = user[u].role
  BY <1>2 DEF DeleteUser, TypeOK, UserRow
<1>3. ASSUME NEW r \in Requests, Step(r), ~DeleteUser(r) PROVE user' = user
  BY <1>3 DEF Step, SetupIsRefused, SetupQueues, SetupInserts, DeleteDesires, DeleteQueues,
     DeleteSessions
<1>4. ASSUME NEW v \in Users, LogIn(v) PROVE user' = user
  BY <1>4 DEF LogIn
<1>5. ASSUME NEW r \in Requests,
             (\E v \in Users : Setup(r, v) \/ \E a \in Users : Delete(r, a, v)) \/ Dies(r)
      PROVE  user' = user
  BY <1>5 DEF Setup, Delete, Starts, Dies
<1>6. ASSUME NEW n \in Names, RunJob(n) \/ JobFails(n) PROVE user' = user
  BY <1>6 DEF RunJob, JobFails
<1>7. CASE UNCHANGED vars
  BY <1>7 DEF vars
<1> QED
  BY <1>1, <1>2, <1>3, <1>4, <1>5, <1>6, <1>7 DEF Next, SignUpFirst, SignUp

LEMMA WorkspacesStay ==
  ASSUME TypeOK, RequestsInv, [Next]_vars, NEW n \in Names, Exists(n)
  PROVE  Exists(n)' /\ ws'[n].owner = ws[n].owner /\ ws'[n].email = ws[n].email
<1> USE DEF Exists, accountVars, wsVars, history
<1>1. ASSUME NEW r \in Requests, NEW m \in Names, SetupInserts(r, m)
      PROVE  ws'[n] = ws[n]
  BY <1>1 DEF SetupInserts, MayInsert, TypeOK
<1>2. ASSUME NEW r \in Requests, DeleteDesires(r)
      PROVE  Exists(n)' /\ ws'[n].owner = ws[n].owner /\ ws'[n].email = ws[n].email
  BY <1>2 DEF DeleteDesires, TypeOK, WsRow
<1>3. ASSUME NEW m \in Names, RunJob(m)
      PROVE  Exists(n)' /\ ws'[n].owner = ws[n].owner /\ ws'[n].email = ws[n].email
  BY <1>3 DEF RunJob, TypeOK, WsRow
<1>4. ASSUME NEW r \in Requests, SetupIsRefused(r) \/ SetupQueues(r) \/ DeleteQueues(r)
                                   \/ DeleteSessions(r) \/ DeleteUser(r) \/ Dies(r)
      PROVE  ws' = ws
  BY <1>4 DEF SetupIsRefused, SetupQueues, DeleteQueues, DeleteSessions, DeleteUser, Dies
<1>5. ASSUME NEW r \in Requests, NEW v \in Users,
             Setup(r, v) \/ \E a \in Users : Delete(r, a, v)
      PROVE  ws' = ws
  BY <1>5 DEF Setup, Delete, Starts
<1>6. ASSUME NEW v \in Users,
             \/ LogIn(v)
             \/ \E e \in Emails : SignUpFirst(v, e) \/ \E i \in Invites : SignUp(v, e, i)
      PROVE  ws' = ws
  BY <1>6 DEF LogIn, SignUpFirst, SignUp, SignsUp
<1>7. ASSUME NEW m \in Names, JobFails(m) PROVE ws' = ws
  BY <1>7 DEF JobFails
<1>8. CASE UNCHANGED vars
  BY <1>8 DEF vars
<1> QED
  BY <1>1, <1>2, <1>3, <1>4, <1>5, <1>6, <1>7, <1>8 DEF Next, Step

-----------------------------------------------------------------------------
(* Requests and rows. *)

\* What a step may do to a request.
LEMMA RequestSteps ==
  ASSUME TypeOK, [Next]_vars, NEW r \in Requests
  PROVE  \/ req'[r] = req[r] \/ req'[r] = NoRequest
         \/ \E u \in Users : Setup(r, u) \/ \E a \in Users : Delete(r, a, u)
         \/ \E n \in Names : SetupInserts(r, n)
         \/ DeleteDesires(r) \/ DeleteQueues(r) \/ DeleteSessions(r)
<1> USE DEF accountVars, wsVars, history, TypeOK
<1>1. ASSUME NEW q \in Requests, Step(q) \/ Dies(q) PROVE
         \/ req'[r] = req[r] \/ req'[r] = NoRequest
         \/ \E n \in Names : SetupInserts(r, n)
         \/ DeleteDesires(r) \/ DeleteQueues(r) \/ DeleteSessions(r)
  BY <1>1 DEF Step, SetupIsRefused, SetupQueues, SetupInserts, DeleteDesires, DeleteQueues,
     DeleteSessions, DeleteUser, Dies, Done, Goto
<1>2. ASSUME NEW q \in Requests, NEW v \in Users,
             Setup(q, v) \/ \E a \in Users : Delete(q, a, v)
      PROVE  q = r \/ req'[r] = req[r]
  BY <1>2 DEF Setup, Delete, Starts
<1>3. ASSUME NEW v \in Users,
             \/ LogIn(v)
             \/ \E e \in Emails : SignUpFirst(v, e) \/ \E i \in Invites : SignUp(v, e, i)
      PROVE  req' = req
  BY <1>3 DEF LogIn, SignUpFirst, SignUp, SignsUp
<1>4. ASSUME NEW m \in Names, RunJob(m) \/ JobFails(m) PROVE req' = req
  BY <1>4 DEF RunJob, JobFails
<1>5. CASE UNCHANGED vars
  BY <1>5 DEF vars
<1> QED
  BY <1>1, <1>2, <1>3, <1>4, <1>5 DEF Next

LEMMA RequestsKept ==
  ASSUME TypeOK, RequestsInv, RowsInv, [Next]_vars
  PROVE  RequestsInv'
<1> DEFINE Fine(q) ==
      /\ q.at # "idle" => q.target \in Users /\ user'[q.target].is # "unborn"
      /\ q.at \in {"create job", "desire", "remove job"} =>
           /\ q.ws \in Names /\ ws'[q.ws].desired # "none"
           /\ ws'[q.ws].owner = q.target
<1> SUFFICES ASSUME NEW r \in Requests PROVE Fine(req'[r])
  BY DEF RequestsInv, Born, Exists
<1>1. ASSUME NEW q, q.target = req[r].target, q.ws = req[r].ws, req[r].at # "idle",
             q.at \in {req[r].at, "sessions", "user"}
               \/ (q.at = "remove job" /\ req[r].at = "desire")
      PROVE  Fine(q)
  <2>1. req[r].target \in Users /\ user[req[r].target].is # "unborn"
    BY <1>1 DEF RequestsInv, Born
  <2>2. user'[req[r].target].is # "unborn"
    BY <2>1, UsersStay DEF Born
  <2>3. ASSUME q.at \in {"create job", "desire", "remove job"}
        PROVE  /\ req[r].ws \in Names /\ ws'[req[r].ws].desired # "none"
               /\ ws'[req[r].ws].owner = req[r].target
    <3>1. /\ req[r].ws \in Names /\ ws[req[r].ws].desired # "none"
          /\ ws[req[r].ws].owner = req[r].target
      BY <1>1, <2>3 DEF RequestsInv, Exists
    <3> QED
      BY <3>1, WorkspacesStay DEF Exists
  <2> QED
    BY <1>1, <2>1, <2>2, <2>3
<1>2. CASE req'[r] = req[r]
  <2>1. CASE req[r].at = "idle"
    BY <1>2, <2>1
  <2>2. CASE req[r].at # "idle"
    BY <1>1, <1>2, <2>2
  <2> QED
    BY <2>1, <2>2
<1>3. CASE req'[r] = NoRequest
  BY <1>3 DEF NoRequest
<1>4. ASSUME NEW u \in Users, Setup(r, u) PROVE Fine(req'[r])
  BY <1>4 DEF Setup, TypeOK, NoRequest, LoggedIn, Live, accountVars
<1>5. ASSUME NEW u \in Users, NEW a \in Users, Delete(r, a, u) PROVE Fine(req'[r])
  <2>1. PICK n \in Owned(u) \cup (IF Owned(u) = {} THEN {None} ELSE {}) :
          req' = [req EXCEPT ![r] = [at |-> IF n = None THEN "sessions" ELSE "desire",
                                     by |-> a, target |-> u, ws |-> n]]
    BY <1>5 DEF Delete, Starts
  <2>2. user' = user /\ ws' = ws
    BY <1>5 DEF Delete, Starts, accountVars, wsVars
  <2>3. user[u].is # "unborn"
    BY <1>5 DEF Delete, Starts, Live, Owned, RowsInv, Born
  <2>4. n # None => n \in Names /\ ws[n].desired # "none" /\ ws[n].owner = u
    BY DEF Owned, Exists
  <2>5. req'[r] = [at |-> IF n = None THEN "sessions" ELSE "desire",
                   by |-> a, target |-> u, ws |-> n]
    BY <2>1 DEF TypeOK
  <2> QED
    BY <2>2, <2>3, <2>4, <2>5
<1>6. ASSUME NEW n \in Names, SetupInserts(r, n) PROVE Fine(req'[r])
  <2>1. req[r].target \in Users /\ user[req[r].target].is # "unborn"
    BY <1>6 DEF SetupInserts, RequestsInv, Born
  <2>2. req'[r] = [req[r] EXCEPT !.at = "create job", !.ws = n]
    BY <1>6 DEF SetupInserts, TypeOK
  <2>3. req[r] \in RequestRow
    BY DEF TypeOK
  <2>4. req'[r].target = req[r].target /\ req'[r].ws = n
    BY <2>2, <2>3 DEF RequestRow
  <2>5. user' = user /\ ws'[n].desired = "running" /\ ws'[n].owner = req[r].target
    BY <1>6 DEF SetupInserts, TypeOK, accountVars
  <2> QED
    BY <2>1, <2>4, <2>5
<1>7. CASE DeleteDesires(r) \/ DeleteQueues(r) \/ DeleteSessions(r)
  <2>1. /\ req'[r].target = req[r].target /\ req'[r].ws = req[r].ws /\ req[r].at # "idle"
        /\ \/ req'[r].at \in {"sessions", "user"}
           \/ req'[r].at = "remove job" /\ req[r].at = "desire"
    <3>1. req[r] \in RequestRow /\ r \in DOMAIN req
      BY DEF TypeOK
    <3>2. CASE DeleteDesires(r)
      BY <3>1, <3>2 DEF DeleteDesires, Goto, RequestRow
    <3>3. CASE DeleteQueues(r)
      BY <3>1, <3>3 DEF DeleteQueues, Goto, RequestRow
    <3>4. CASE DeleteSessions(r)
      BY <3>1, <3>4 DEF DeleteSessions, Goto, RequestRow
    <3> QED
      BY <1>7, <3>2, <3>3, <3>4
  <2> QED
    BY <1>1, <2>1
<1> QED
  BY <1>2, <1>3, <1>4, <1>5, <1>6, <1>7, RequestSteps


\* Rows and sessions.
LEMMA RowsKept ==
  ASSUME TypeOK, RequestsInv, RowsInv, [Next]_vars
  PROVE  RowsInv'
<1> DEFINE SessionFine(s) == user'[s.user].is # "unborn" /\ user'[s.user].email = s.email
           Fine(n) ==
             /\ ws'[n].desired # "none" => ws'[n].owner \in Users
             /\ ws'[n].owner \in Users =>
                  /\ ws'[n].desired # "none"
                  /\ user'[ws'[n].owner].is # "unborn"
                  /\ user'[ws'[n].owner].email = ws'[n].email
             /\ jobs'[n] # << >> => ws'[n].desired # "none"
<1>1. ASSUME NEW s \in sessions PROVE SessionFine(s)
  <2>1. s.user \in Users
    BY DEF TypeOK, SessionRow
  <2> QED
    BY <2>1, UsersStay DEF RowsInv, Born
<1>2. ASSUME NEW s \in sessions', s \notin sessions PROVE SessionFine(s)
  <2>1. ASSUME NEW u \in Users, NEW e \in Emails, NEW i, NEW role, SignsUp(u, e, i, role)
        PROVE  SessionFine(s)
    BY <1>2, <2>1 DEF SignsUp, TypeOK
  <2>2. ASSUME NEW u \in Users, LogIn(u) PROVE SessionFine(s)
    BY <1>2, <2>2 DEF LogIn, Live, TypeOK
  <2>3. ASSUME NEW r \in Requests, Step(r) \/ Dies(r) PROVE sessions' \subseteq sessions
    BY <2>3 DEF Step, SetupIsRefused, SetupQueues, SetupInserts, DeleteDesires, DeleteQueues,
       DeleteSessions, DeleteUser, Dies, accountVars
  <2>4. ASSUME NEW r \in Requests, NEW u \in Users,
               Setup(r, u) \/ \E a \in Users : Delete(r, a, u)
        PROVE  sessions' \subseteq sessions
    BY <2>4 DEF Setup, Delete, Starts, accountVars
  <2>5. ASSUME NEW m \in Names, RunJob(m) \/ JobFails(m) PROVE sessions' \subseteq sessions
    BY <2>5 DEF RunJob, JobFails, accountVars
  <2>6. CASE UNCHANGED vars
    BY <1>2, <2>6 DEF vars, accountVars
  <2> QED
    BY <1>2, <2>1, <2>2, <2>3, <2>4, <2>5, <2>6 DEF Next, SignUpFirst, SignUp
<1>3. ASSUME NEW n \in Names PROVE Fine(n)
  <2>1. ASSUME Exists(n) PROVE Fine(n)
    <3>1. Exists(n)' /\ ws'[n].owner = ws[n].owner /\ ws'[n].email = ws[n].email
      BY <2>1, WorkspacesStay
    <3>2. ws[n].owner \in Users /\ Born(ws[n].owner) /\ user[ws[n].owner].email = ws[n].email
      BY <2>1 DEF RowsInv
    <3>3. user'[ws[n].owner].is # "unborn" /\ user'[ws[n].owner].email = ws[n].email
      BY <3>2, UsersStay DEF Born
    <3> QED
      BY <3>1, <3>2, <3>3 DEF Exists
  <2>2. ASSUME ~Exists(n), ws'[n] = ws[n], jobs'[n] = jobs[n] PROVE Fine(n)
    BY <2>2 DEF RowsInv, Exists
  <2>3. ASSUME ~Exists(n), NEW r \in Requests, SetupInserts(r, n) PROVE Fine(n)
    <3>1. req[r].target \in Users /\ user[req[r].target].is # "unborn"
      BY <2>3 DEF SetupInserts, RequestsInv, Born
    <3>2. /\ ws'[n] = [owner |-> req[r].target, email |-> user[req[r].target].email,
                       desired |-> "running"]
          /\ user' = user
      BY <2>3 DEF SetupInserts, TypeOK, accountVars
    <3> QED
      BY <3>1, <3>2
  <2>4. ASSUME ~Exists(n), NEW r \in Requests, Step(r)
        PROVE  SetupInserts(r, n) \/ (ws'[n] = ws[n] /\ jobs'[n] = jobs[n])
    <3>1. req[r].at \in {"create job", "desire", "remove job"} => req[r].ws # n
      BY <2>4 DEF RequestsInv
    <3> QED
      BY <2>4, <3>1 DEF Step, SetupIsRefused, SetupQueues, SetupInserts, DeleteDesires,
         DeleteQueues, DeleteSessions, DeleteUser, Queue, TypeOK, accountVars, wsVars, history
  <2>5. ASSUME ~Exists(n), NEW m \in Names, RunJob(m) \/ JobFails(m)
        PROVE  ws'[n] = ws[n] /\ jobs'[n] = jobs[n]
    <3>1. jobs[n] = << >>
      BY <2>5 DEF RowsInv
    <3> QED
      BY <2>5, <3>1 DEF RunJob, JobFails, TypeOK
  <2>6. ASSUME NEW u \in Users,
               \/ LogIn(u)
               \/ \E e \in Emails : SignUpFirst(u, e) \/ \E i \in Invites : SignUp(u, e, i)
        PROVE  ws' = ws /\ jobs' = jobs
    BY <2>6 DEF LogIn, SignUpFirst, SignUp, SignsUp, wsVars
  <2>7. ASSUME NEW r \in Requests,
               Dies(r) \/ \E u \in Users : Setup(r, u) \/ \E a \in Users : Delete(r, a, u)
        PROVE  ws' = ws /\ jobs' = jobs
    BY <2>7 DEF Dies, Setup, Delete, Starts, wsVars
  <2>8. CASE UNCHANGED vars
    BY <2>1, <2>2, <2>8 DEF vars, wsVars
  <2> QED
    BY <2>1, <2>2, <2>3, <2>4, <2>5, <2>6, <2>7, <2>8 DEF Next
<1> QED
  BY <1>1, <1>2, <1>3 DEF RowsInv, Born, Exists

\* Where a workspace comes from.
LEMMA NewWorkspaces ==
  ASSUME TypeOK, RequestsInv, RowsInv, [Next]_vars, NEW n \in Names, Exists(n)', ~Exists(n)
  PROVE  \E r \in Requests : SetupInserts(r, n)
<1>1. ASSUME NEW r \in Requests, Step(r) PROVE SetupInserts(r, n)
  <2>1. req[r].at = "desire" => Exists(req[r].ws)
    BY DEF RequestsInv
  <2>2. \A k \in Names : SetupInserts(r, k) => k = n
    BY DEF SetupInserts, Exists, TypeOK
  <2>3. ~DeleteDesires(r)
    BY <2>1 DEF DeleteDesires, Exists, TypeOK
  <2> QED
    BY <1>1, <2>2, <2>3 DEF Step, SetupIsRefused, SetupQueues, DeleteQueues,
       DeleteSessions, DeleteUser, Exists, wsVars
<1>2. ASSUME NEW m \in Names, RunJob(m) \/ JobFails(m) PROVE FALSE
  BY <1>2 DEF RunJob, JobFails, RowsInv, Exists, TypeOK
<1>3. ASSUME NEW u \in Users,
             \/ LogIn(u)
             \/ \E e \in Emails : SignUpFirst(u, e) \/ \E i \in Invites : SignUp(u, e, i)
      PROVE  ws' = ws
  BY <1>3 DEF LogIn, SignUpFirst, SignUp, SignsUp, wsVars
<1>4. ASSUME NEW r \in Requests,
             Dies(r) \/ \E u \in Users : Setup(r, u) \/ \E a \in Users : Delete(r, a, u)
      PROVE  ws' = ws
  BY <1>4 DEF Dies, Setup, Delete, Starts, wsVars
<1>5. ASSUME UNCHANGED vars PROVE ws' = ws
  BY <1>5 DEF vars, wsVars
<1>6. ws' # ws
  BY DEF Exists
<1> QED
  BY <1>1, <1>2, <1>3, <1>4, <1>5, <1>6 DEF Next

LEMMA UniqueKept ==
  ASSUME TypeOK, RequestsInv, RowsInv, UniqueInv, [Next]_vars
  PROVE  UniqueInv'
<1>1. ASSUME NEW r \in Requests, NEW k \in Names, SetupInserts(r, k) PROVE UniqueInv'
  <2>1. /\ \A n \in Names \ {k} : ws'[n] = ws[n]
        /\ ws'[k].owner = req[r].target /\ Owned(req[r].target) = {}
    BY <1>1 DEF SetupInserts, MayInsert, TypeOK
  <2> QED
    BY <2>1 DEF UniqueInv, Owned, Exists
<1>2. ASSUME \A n \in Names : Exists(n)' => Exists(n) PROVE UniqueInv'
  <2>1. \A n \in Names : Exists(n)' => Exists(n) /\ ws'[n].owner = ws[n].owner
    BY <1>2, WorkspacesStay
  <2> QED
    BY <2>1 DEF UniqueInv, Exists
<1> QED
  BY <1>1, <1>2, NewWorkspaces

-----------------------------------------------------------------------------
(* Admins. *)

\* Steps of requests that do not start or end a deletion.
LEMMA DeletionsStay ==
  ASSUME TypeOK, [Next]_vars, NEW r \in Requests, req'[r].at \in Deleting,
         ~\E a, u \in Users : Delete(r, a, u)
  PROVE  req[r].at \in Deleting /\ req'[r].by = req[r].by /\ req'[r].target = req[r].target
<1> USE DEF Deleting
<1>1. req[r] \in RequestRow /\ r \in DOMAIN req
  BY DEF TypeOK
<1>2. req'[r] # NoRequest
  <2>1. NoRequest.at \notin {"desire", "remove job", "sessions", "user"}
    BY DEF NoRequest
  <2> QED
    BY <2>1
<1>3. ASSUME NEW u \in Users, Setup(r, u) PROVE req'[r].at = "insert"
  BY <1>1, <1>3 DEF Setup, NoRequest
<1>4. ASSUME NEW n \in Names, SetupInserts(r, n) PROVE req'[r].at = "create job"
  BY <1>1, <1>4 DEF SetupInserts, RequestRow
<1>5. CASE DeleteDesires(r)
  BY <1>1, <1>5 DEF DeleteDesires, Goto, RequestRow
<1>6. CASE DeleteQueues(r)
  BY <1>1, <1>6 DEF DeleteQueues, Goto, RequestRow
<1>7. CASE DeleteSessions(r)
  BY <1>1, <1>7 DEF DeleteSessions, Goto, RequestRow
<1>8. CASE req'[r] = req[r]
  BY <1>8
<1>9. /\ ~\E u \in Users : Setup(r, u) \/ \E a \in Users : Delete(r, a, u)
      /\ ~\E n \in Names : SetupInserts(r, n)
  <2>1. req'[r].at \notin {"insert", "create job"}
    OBVIOUS
  <2> QED
    BY <1>3, <1>4, <2>1
<1>10. \/ req'[r] = req[r] \/ req'[r] = NoRequest
       \/ DeleteDesires(r) \/ DeleteQueues(r) \/ DeleteSessions(r)
  BY <1>9, RequestSteps
<1> QED
  BY <1>2, <1>5, <1>6, <1>7, <1>8, <1>10

\* Who writes the users and the history of deletions.
LEMMA UserWrites ==
  ASSUME TypeOK, [Next]_vars
  PROVE  \/ user' = user
         \/ \E u \in Users, e \in Emails : SignUpFirst(u, e) \/ \E i \in Invites : SignUp(u, e, i)
         \/ \E r \in Requests : DeleteUser(r)
<1> USE DEF accountVars
<1>1. ASSUME NEW r \in Requests, Step(r), ~DeleteUser(r) PROVE user' = user
  BY <1>1 DEF Step, SetupIsRefused, SetupQueues, SetupInserts, DeleteDesires, DeleteQueues,
     DeleteSessions
<1>2. ASSUME NEW r \in Requests,
             Dies(r) \/ \E u \in Users : Setup(r, u) \/ \E a \in Users : Delete(r, a, u)
      PROVE  user' = user
  BY <1>2 DEF Dies, Setup, Delete, Starts
<1>3. ASSUME NEW n \in Names, RunJob(n) \/ JobFails(n) PROVE user' = user
  BY <1>3 DEF RunJob, JobFails
<1>4. ASSUME NEW u \in Users, LogIn(u) PROVE user' = user
  BY <1>4 DEF LogIn
<1>5. CASE UNCHANGED vars
  BY <1>5 DEF vars
<1> QED
  BY <1>1, <1>2, <1>3, <1>4, <1>5 DEF Next

LEMMA LiveStays ==
  ASSUME TypeOK, [Next]_vars, NEW u \in Users, user[u].is = "live",
         ~\E r \in Requests : DeleteUser(r) /\ req[r].target = u
  PROVE  user'[u] = user[u]
<1>1. ASSUME NEW v \in Users, NEW e \in Emails, NEW i, NEW role, SignsUp(v, e, i, role)
      PROVE  user'[u] = user[u]
  BY <1>1 DEF SignsUp, IsNewId, TypeOK
<1>2. ASSUME NEW r \in Requests, DeleteUser(r) PROVE user'[u] = user[u]
  BY <1>2 DEF DeleteUser, TypeOK
<1> QED
  BY <1>1, <1>2, UserWrites DEF SignUpFirst, SignUp

LEMMA HistoryGrows ==
  ASSUME TypeOK, [Next]_vars
  PROVE  /\ crossed => crossed'
         /\ met \subseteq met' /\ lost \subseteq lost'
         /\ ~crossed' => \A r \in Requests, a, u \in Users : Delete(r, a, u) => Crossing(a) = {}
<1> USE DEF history
<1>1. ASSUME NEW r \in Requests, NEW a \in Users, NEW u \in Users, Delete(r, a, u)
      PROVE  crossed' = (crossed \/ Crossing(a) # {}) /\ met \subseteq met' /\ lost' = lost
  BY <1>1 DEF Delete, Starts
<1>2. ASSUME NEW r \in Requests, NEW u \in Users, Setup(r, u)
      PROVE  crossed' = crossed /\ met \subseteq met' /\ lost' = lost
  BY <1>2 DEF Setup
<1>3. ASSUME NEW r \in Requests, Step(r) \/ Dies(r)
      PROVE  crossed' = crossed /\ met' = met /\ lost' = lost
  BY <1>3 DEF Step, SetupIsRefused, SetupQueues, SetupInserts, DeleteDesires, DeleteQueues,
     DeleteSessions, DeleteUser, Dies
<1>4. ASSUME NEW n \in Names, RunJob(n) \/ JobFails(n)
      PROVE  crossed' = crossed /\ met' = met /\ lost \subseteq lost'
  BY <1>4 DEF RunJob, JobFails
<1>5. ASSUME NEW u \in Users,
             \/ LogIn(u)
             \/ \E e \in Emails : SignUpFirst(u, e) \/ \E i \in Invites : SignUp(u, e, i)
      PROVE  crossed' = crossed /\ met' = met /\ lost' = lost
  BY <1>5 DEF LogIn, SignUpFirst, SignUp, SignsUp
<1>6. ASSUME UNCHANGED vars PROVE crossed' = crossed /\ met' = met /\ lost' = lost
  BY <1>6 DEF vars
<1>7. (crossed => crossed') /\ met \subseteq met' /\ lost \subseteq lost'
  <2>1. (\E r \in Requests, a, u \in Users : Delete(r, a, u))
          => (crossed => crossed') /\ met \subseteq met' /\ lost \subseteq lost'
    BY <1>1
  <2> QED
    BY <2>1, <1>2, <1>3, <1>4, <1>5, <1>6 DEF Next
<1>8. ~crossed' => \A r \in Requests, a, u \in Users : Delete(r, a, u) => Crossing(a) = {}
  <2> SUFFICES ASSUME ~crossed', NEW r \in Requests, NEW a \in Users, NEW u \in Users,
                      Delete(r, a, u)
               PROVE  Crossing(a) = {}
    OBVIOUS
  <2>1. crossed' = (crossed \/ Crossing(a) # {})
    BY <1>1
  <2> QED
    BY <2>1
<1> QED
  BY <1>7, <1>8

LEMMA AdminsKept ==
  ASSUME TypeOK, DeletersInv, AnAdminRemains, [Next]_vars
  PROVE  DeletersInv' /\ AnAdminRemains'
<1>1. ASSUME NEW u \in Users, u \in Admins, ~\E r \in Requests : DeleteUser(r) /\ req[r].target = u
      PROVE  u \in Admins'
  <2>1. user[u].is = "live" /\ user[u].role = "admin"
    BY <1>1 DEF Admins, Live
  <2>2. user'[u] = user[u]
    BY <1>1, <2>1, LiveStays
  <2> QED
    BY <2>1, <2>2 DEF Admins, Live
<1>2. DeletersInv'
  <2> SUFFICES ASSUME ~crossed', NEW r \in Requests, req'[r].at \in Deleting
               PROVE  /\ req'[r].by \in Admins' /\ req'[r].by # req'[r].target
                      /\ \A s \in Requests : req'[s].at \in Deleting => req'[s].by = req'[r].by
    BY DEF DeletersInv
  <2>1. ~crossed
    BY HistoryGrows
  <2>2. ASSUME NEW q \in Requests, NEW a \in Users, NEW u \in Users, Delete(q, a, u)
        PROVE  /\ req'[r].by \in Admins' /\ req'[r].by # req'[r].target
               /\ \A s \in Requests : req'[s].at \in Deleting => req'[s].by = req'[r].by
    <3>1. /\ a \in Admins /\ a # u /\ user' = user
          /\ \A s \in Requests \ {q} : req'[s] = req[s]
          /\ req'[q].by = a /\ req'[q].target = u
      BY <2>2 DEF Delete, Starts, TypeOK, accountVars
    <3>2. \A s \in Requests : req[s].at \in Deleting => req[s].by = a
      BY <2>2, HistoryGrows DEF Crossing
    <3>3. \A s \in Requests : req'[s].at \in Deleting => req'[s].by = a
      BY <3>1, <3>2
    <3>4. req'[r].by # req'[r].target
      BY <2>1, <3>1 DEF DeletersInv
    <3>5. a \in Admins'
      BY <3>1 DEF Admins, Live
    <3> QED
      BY <3>3, <3>4, <3>5
  <2>3. ASSUME ~\E q \in Requests, a, u \in Users : Delete(q, a, u)
        PROVE  /\ req'[r].by \in Admins' /\ req'[r].by # req'[r].target
               /\ \A s \in Requests : req'[s].at \in Deleting => req'[s].by = req'[r].by
    <3>1. \A s \in Requests : req'[s].at \in Deleting =>
            /\ req[s].at \in Deleting /\ req'[s].by = req[s].by
            /\ req'[s].target = req[s].target
      BY <2>3, DeletionsStay
    <3>2. \A s \in Requests : req[s].at \in Deleting =>
            /\ req[s].by = req[r].by /\ req[s].by # req[s].target
      BY <2>1, <3>1 DEF DeletersInv
    <3>3. req[r].by \in Admins /\ req[r].by \in Users
      BY <2>1, <3>1 DEF DeletersInv, Admins, Live
    <3>4. ASSUME NEW q \in Requests, DeleteUser(q) PROVE req[q].target # req[r].by
      BY <3>2, <3>4 DEF DeleteUser, Deleting
    <3>5. req[r].by \in Admins'
      BY <1>1, <3>3, <3>4
    <3> QED
      BY <3>1, <3>2, <3>5
  <2> QED
    BY <2>2, <2>3
<1>3. AnAdminRemains'
  <2> SUFFICES ASSUME ~crossed', NEW v \in Users, user'[v].is # "unborn"
               PROVE  Admins' # {}
    BY DEF AnAdminRemains
  <2>1. ~crossed
    BY HistoryGrows
  <2>2. ASSUME NEW u \in Users, NEW e \in Emails, SignUpFirst(u, e) PROVE u \in Admins'
    BY <2>2 DEF SignUpFirst, SignsUp, TypeOK, Admins, Live
  <2>3. ASSUME NEW u \in Users, NEW e \in Emails, NEW i \in Invites, SignUp(u, e, i)
        PROVE  Admins' # {}
    <3>1. PICK a \in Users : a \in Admins
      BY <2>1, <2>3 DEF SignUp, AnAdminRemains, Live, Admins
    <3>2. user'[a] = user[a]
      BY <2>3, <3>1 DEF SignUp, SignsUp, IsNewId, Admins, Live, TypeOK
    <3> QED
      BY <3>1, <3>2 DEF Admins, Live
  <2>4. ASSUME NEW r \in Requests, DeleteUser(r) PROVE Admins' # {}
    <3>1. /\ req[r].by \in Admins /\ req[r].by # req[r].target /\ req[r].by \in Users
      BY <2>1, <2>4 DEF DeletersInv, DeleteUser, Deleting, Admins, Live
    <3>2. user'[req[r].by] = user[req[r].by]
      BY <2>4, <3>1 DEF DeleteUser, TypeOK
    <3> QED
      BY <3>1, <3>2 DEF Admins, Live
  <2>5. CASE user' = user
    BY <2>1, <2>5 DEF AnAdminRemains, Admins, Live
  <2> QED
    BY <2>2, <2>3, <2>4, <2>5, UserWrites
<1> QED
  BY <1>2, <1>3

-----------------------------------------------------------------------------
(* The workspace of a deleted user. *)

LEMMA SetupsStay ==
  ASSUME TypeOK, [Next]_vars, NEW r \in Requests, req'[r].at \in SettingUp,
         ~\E u \in Users : Setup(r, u)
  PROVE  req[r].at \in SettingUp /\ req'[r].target = req[r].target
<1> USE DEF SettingUp
<1>1. req[r] \in RequestRow /\ r \in DOMAIN req
  BY DEF TypeOK
<1>2. req'[r] # NoRequest
  <2>1. NoRequest.at \notin {"insert", "create job"}
    BY DEF NoRequest
  <2> QED
    BY <2>1
<1>3. ASSUME NEW a \in Users, NEW u \in Users, Delete(r, a, u)
      PROVE  req'[r].at \in {"sessions", "desire"}
  <2>1. PICK n : req' = [req EXCEPT ![r] = [at |-> IF n = None THEN "sessions" ELSE "desire",
                                            by |-> a, target |-> u, ws |-> n]]
    BY <1>3 DEF Delete, Starts
  <2>2. req'[r] = [at |-> IF n = None THEN "sessions" ELSE "desire",
                   by |-> a, target |-> u, ws |-> n]
    BY <1>1, <2>1
  <2> QED
    BY <2>2
<1>4. ASSUME NEW n \in Names, SetupInserts(r, n)
      PROVE  req[r].at = "insert" /\ req'[r].target = req[r].target
  <2>1. req'[r] = [req[r] EXCEPT !.at = "create job", !.ws = n]
    BY <1>1, <1>4 DEF SetupInserts
  <2> QED
    BY <1>1, <1>4, <2>1 DEF SetupInserts, RequestRow
<1>5. CASE DeleteDesires(r)
  BY <1>1, <1>5 DEF DeleteDesires, Goto, RequestRow
<1>6. CASE DeleteQueues(r)
  BY <1>1, <1>6 DEF DeleteQueues, Goto, RequestRow
<1>7. CASE DeleteSessions(r)
  BY <1>1, <1>7 DEF DeleteSessions, Goto, RequestRow
<1>8. CASE req'[r] = req[r]
  BY <1>8
<1>9. ~\E a, u \in Users : Delete(r, a, u)
  BY <1>3
<1>10. CASE \E n \in Names : SetupInserts(r, n)
  BY <1>4, <1>10
<1> QED
  BY <1>2, <1>5, <1>6, <1>7, <1>8, <1>9, <1>10, RequestSteps

LEMMA MetKept ==
  ASSUME TypeOK, RequestsInv, MetInv, [Next]_vars
  PROVE  MetInv'
<1> SUFFICES ASSUME NEW r \in Requests, req'[r].at \in SettingUp
             PROVE  \/ req'[r].target \in met'
                    \/ /\ user'[req'[r].target].is = "live"
                       /\ \A s \in Requests :
                            ~(req'[s].target = req'[r].target /\ req'[s].at \in Deleting)
  BY DEF MetInv, Under
<1>1. ASSUME NEW u \in Users, Setup(r, u)
      PROVE  \/ u \in met'
             \/ /\ user'[u].is = "live"
                /\ \A s \in Requests : ~(req'[s].target = u /\ req'[s].at \in Deleting)
  <2>1. CASE Under(u, Deleting) # {}
    BY <1>1, <2>1 DEF Setup
  <2>2. CASE Under(u, Deleting) = {}
    <3>1. user' = user /\ user[u].is = "live"
      BY <1>1 DEF Setup, LoggedIn, Live, accountVars
    <3>2. \A s \in Requests \ {r} : req'[s] = req[s]
      BY <1>1 DEF Setup, TypeOK
    <3>3. req'[r].at \notin Deleting
      BY DEF SettingUp, Deleting
    <3> QED
      BY <2>2, <3>1, <3>2, <3>3 DEF Under
  <2> QED
    BY <2>1, <2>2
<1>2. ASSUME NEW u \in Users, Setup(r, u) PROVE req'[r].target = u
  BY <1>2 DEF Setup, NoRequest, TypeOK
<1>3. ASSUME ~\E u \in Users : Setup(r, u), req[r].target \notin met'
      PROVE  /\ req'[r].target = req[r].target /\ user'[req[r].target].is = "live"
             /\ \A s \in Requests :
                  ~(req'[s].target = req[r].target /\ req'[s].at \in Deleting)
  <2>1. req[r].at \in SettingUp /\ req'[r].target = req[r].target
    BY <1>3, SetupsStay
  <2>2. req[r].target \in Users
    BY <2>1 DEF RequestsInv, SettingUp
  <2>3. user[req[r].target].is = "live" /\ Under(req[r].target, Deleting) = {}
    BY <1>3, <2>1, HistoryGrows DEF MetInv
  <2>4. user'[req[r].target] = user[req[r].target]
    <3>1. ~\E s \in Requests : DeleteUser(s) /\ req[s].target = req[r].target
      BY <2>3 DEF DeleteUser, Under, Deleting
    <3> QED
      BY <2>2, <2>3, <3>1, LiveStays
  <2>5. ASSUME NEW s \in Requests, req'[s].target = req[r].target, req'[s].at \in Deleting
        PROVE  FALSE
    <3>1. ASSUME NEW a \in Users, NEW u \in Users, Delete(s, a, u) PROVE FALSE
      <4>1. req'[s].target = u /\ met' = IF Under(u, SettingUp) = {} THEN met ELSE met \cup {u}
        BY <3>1 DEF Delete, Starts, TypeOK
      <4>2. r \in Under(u, SettingUp)
        BY <2>1, <2>5, <4>1 DEF Under
      <4> QED
        BY <1>3, <2>5, <4>1, <4>2
    <3>2. req[s].at \in Deleting /\ req'[s].target = req[s].target
      BY <2>5, <3>1, DeletionsStay
    <3> QED
      BY <2>3, <2>5, <3>2 DEF Under
  <2> QED
    BY <2>1, <2>3, <2>4, <2>5
<1> QED
  BY <1>1, <1>2, <1>3, SetupsStay

\* Who writes the rows and the jobs of a workspace that exists.
LEMMA WorkspaceWrites ==
  ASSUME TypeOK, [Next]_vars, NEW n \in Names, Exists(n)
  PROVE  \/ ws'[n].desired = ws[n].desired /\ jobs'[n] = jobs[n]
         \/ ws'[n].desired = "removed" /\ jobs'[n] = jobs[n]
         \/ \E r \in Requests : SetupQueues(r) /\ req[r].ws = n
         \/ /\ ws'[n].desired = ws[n].desired
            /\ jobs'[n] = Append(jobs[n], "remove")
         \/ RunJob(n) \/ JobFails(n)
<1> USE DEF TypeOK, accountVars, wsVars, history
<1>1. ASSUME NEW r \in Requests, NEW m \in Names, SetupInserts(r, m)
      PROVE  ws'[n] = ws[n] /\ jobs' = jobs
  BY <1>1 DEF SetupInserts, MayInsert, Exists
<1>2. ASSUME NEW r \in Requests, DeleteDesires(r)
      PROVE  /\ ws'[n].desired = ws[n].desired \/ ws'[n].desired = "removed"
             /\ jobs' = jobs
  BY <1>2 DEF DeleteDesires, WsRow
<1>3. ASSUME NEW r \in Requests, DeleteQueues(r)
      PROVE  ws' = ws /\ (jobs'[n] = jobs[n] \/ jobs'[n] = Append(jobs[n], "remove"))
  BY <1>3 DEF DeleteQueues, Queue
<1>4. ASSUME NEW r \in Requests, SetupQueues(r), req[r].ws # n
      PROVE  ws' = ws /\ jobs'[n] = jobs[n]
  BY <1>4 DEF SetupQueues, Queue
<1>5. ASSUME NEW r \in Requests,
             SetupIsRefused(r) \/ DeleteSessions(r) \/ DeleteUser(r) \/ Dies(r)
      PROVE  ws' = ws /\ jobs' = jobs
  BY <1>5 DEF SetupIsRefused, DeleteSessions, DeleteUser, Dies
<1>6. ASSUME NEW r \in Requests, NEW u \in Users,
             Setup(r, u) \/ \E a \in Users : Delete(r, a, u)
      PROVE  ws' = ws /\ jobs' = jobs
  BY <1>6 DEF Setup, Delete, Starts
<1>7. ASSUME NEW u \in Users,
             \/ LogIn(u)
             \/ \E e \in Emails : SignUpFirst(u, e) \/ \E i \in Invites : SignUp(u, e, i)
      PROVE  ws' = ws /\ jobs' = jobs
  BY <1>7 DEF LogIn, SignUpFirst, SignUp, SignsUp
<1>8. ASSUME NEW m \in Names, m # n, RunJob(m) \/ JobFails(m)
      PROVE  ws'[n] = ws[n] /\ jobs'[n] = jobs[n]
  BY <1>8 DEF RunJob, JobFails
<1>9. ASSUME UNCHANGED vars PROVE ws' = ws /\ jobs' = jobs
  BY <1>9 DEF vars
<1> QED
  BY <1>1, <1>2, <1>3, <1>4, <1>5, <1>6, <1>7, <1>8, <1>9 DEF Next, Step

\* A workspace that will go still will after a step, unless that is a setup that puts a
\* job to create it behind.
LEMMA GoingStays ==
  ASSUME TypeOK, RequestsInv, [Next]_vars, NEW n \in Names, Exists(n), Going(n),
         \A r \in Requests : SetupQueues(r) /\ req[r].ws = n => ws[n].owner \in met
  PROVE  Going(n)'
<1> DEFINE Last(js, d) ==
      \/ d = "removed" /\ \A i \in DOMAIN js : js[i] # "create"
      \/ \E i \in DOMAIN js :
           js[i] = "remove" /\ \A j \in DOMAIN js : j > i => js[j] # "create"
<1>1. ws'[n].owner = ws[n].owner /\ met \subseteq met' /\ lost \subseteq lost'
  BY WorkspacesStay, HistoryGrows
<1>2. CASE n \in lost \/ ws[n].owner \in met
  BY <1>1, <1>2 DEF Going
<1>3. CASE n \notin lost /\ ws[n].owner \notin met
  <2>1. Last(jobs[n], ws[n].desired)
    BY <1>3 DEF Going
  <2>2. Last(jobs'[n], ws'[n].desired) => Going(n)'
    BY DEF Going
  <2>3. jobs[n] \in Seq({"create", "remove"})
    BY DEF TypeOK
  <2>4. CASE jobs'[n] = jobs[n] /\ (ws'[n].desired = ws[n].desired \/ ws'[n].desired = "removed")
    BY <2>1, <2>2, <2>4
  <2>5. CASE jobs'[n] = Append(jobs[n], "remove")
    <3>1. /\ jobs'[n] \in Seq({"create", "remove"}) /\ Len(jobs'[n]) = Len(jobs[n]) + 1
          /\ jobs'[n][Len(jobs[n]) + 1] = "remove"
      BY <2>3, <2>5
    <3>2. /\ Len(jobs[n]) + 1 \in DOMAIN jobs'[n]
          /\ \A j \in DOMAIN jobs'[n] : ~(j > Len(jobs[n]) + 1)
      BY <2>3, <3>1
    <3> QED
      BY <2>2, <3>1, <3>2
  <2>6. ASSUME RunJob(n) \/ JobFails(n) PROVE Going(n)'
    <3>1. /\ jobs[n] # << >> /\ jobs'[n] = Tail(jobs[n])
          /\ Head(jobs[n]) = jobs[n][1]
      BY <2>3, <2>6 DEF RunJob, JobFails, TypeOK
    <3>2. /\ jobs'[n] \in Seq({"create", "remove"}) /\ Len(jobs'[n]) = Len(jobs[n]) - 1
          /\ \A i \in 1..Len(jobs'[n]) : jobs'[n][i] = jobs[n][i + 1] /\ i + 1 \in 1..Len(jobs[n])
          /\ DOMAIN jobs'[n] = 1..Len(jobs'[n]) /\ DOMAIN jobs[n] = 1..Len(jobs[n])
          /\ Len(jobs[n]) \in Nat /\ 1 \in DOMAIN jobs[n]
      BY <2>3, <3>1
    <3>3. ASSUME \A j \in DOMAIN jobs[n] : j > 1 => jobs[n][j] # "create",
                 ws'[n].desired = "removed"
          PROVE  Going(n)'
      <4>1. ASSUME NEW i \in DOMAIN jobs'[n] PROVE jobs'[n][i] # "create"
        <5>1. /\ jobs'[n][i] = jobs[n][i + 1] /\ i + 1 \in DOMAIN jobs[n]
              /\ i + 1 > 1
          BY <3>2
        <5> QED
          BY <3>3, <5>1
      <4> QED
        BY <2>2, <3>3, <4>1
    <3>4. ASSUME \A j \in DOMAIN jobs[n] : j > 1 => jobs[n][j] # "create",
                 ws'[n].desired # "removed", jobs[n][1] # "create"
          PROVE  n \in lost'
      <4>1. jobs[n][1] = "remove"
        BY <2>3, <3>2, <3>4
      <4>2. JobFails(n) /\ ws'[n].desired = ws[n].desired
        BY <2>6, <3>1, <3>4, <4>1 DEF RunJob, JobFails, TypeOK, WsRow
      <4>3. ws[n].desired = "running"
        BY <3>4, <4>2 DEF Exists, TypeOK, WsRow
      <4> QED
        BY <3>1, <4>1, <4>2, <4>3 DEF JobFails
    <3>5. CASE ws[n].desired = "removed" /\ \A i \in DOMAIN jobs[n] : jobs[n][i] # "create"
      <4>1. /\ jobs[n][1] # "create"
            /\ \A j \in DOMAIN jobs[n] : j > 1 => jobs[n][j] # "create"
        BY <3>2, <3>5
      <4> QED
        BY <3>3, <3>4, <4>1 DEF Going
    <3>6. ASSUME NEW i \in DOMAIN jobs[n], jobs[n][i] = "remove",
                 \A j \in DOMAIN jobs[n] : j > i => jobs[n][j] # "create"
          PROVE  Going(n)'
      <4>1. CASE i = 1
        <5>1. jobs[n][1] # "create"
          BY <3>6, <4>1
        <5> QED
          BY <3>3, <3>4, <3>6, <4>1, <5>1 DEF Going
      <4>2. CASE i # 1
        <5>1. /\ i \in Nat /\ i - 1 \in DOMAIN jobs'[n] /\ jobs'[n][i - 1] = "remove"
          <6>1. i \in 2..Len(jobs[n])
            BY <3>2, <3>6, <4>2
          <6>2. i - 1 \in 1..Len(jobs'[n]) /\ (i - 1) + 1 = i
            BY <3>2, <6>1
          <6> QED
            BY <3>2, <3>6, <6>1, <6>2
        <5>2. ASSUME NEW j \in DOMAIN jobs'[n], j > i - 1 PROVE jobs'[n][j] # "create"
          <6>1. /\ jobs'[n][j] = jobs[n][j + 1] /\ j + 1 \in DOMAIN jobs[n]
                /\ j + 1 > i
            BY <3>2, <5>1, <5>2
          <6> QED
            BY <3>6, <6>1
        <5> QED
          BY <2>2, <5>1, <5>2
      <4> QED
        BY <4>1, <4>2
    <3> QED
      BY <2>1, <3>5, <3>6
  <2> QED
    BY <1>3, <2>4, <2>5, <2>6, WorkspaceWrites
<1> QED
  BY <1>2, <1>3

LEMMA GoingKept ==
  ASSUME TypeOK, RequestsInv, RowsInv, UniqueInv, MetInv, GoingInv, [Next]_vars
  PROVE  GoingInv'
<1> DEFINE Deleted(o) == \/ user'[o].is = "deleted"
                         \/ \E r \in Requests : /\ req'[r].at \in {"sessions", "user"}
                                                /\ req'[r].target = o
<1> SUFFICES ASSUME NEW n \in Names, ws'[n].desired # "none", Deleted(ws'[n].owner)
             PROVE  Going(n)'
  BY DEF GoingInv, Exists
<1>1. ASSUME ~Exists(n) PROVE Going(n)'
  <2>1. PICK r \in Requests : SetupInserts(r, n)
    BY <1>1, NewWorkspaces DEF Exists
  <2>2. /\ req[r].at = "insert" /\ ws'[n].owner = req[r].target /\ user' = user
        /\ met' = met /\ \A s \in Requests \ {r} : req'[s] = req[s]
    BY <2>1 DEF SetupInserts, TypeOK, accountVars, history
  <2>3. req'[r].at = "create job"
    BY <2>1 DEF SetupInserts, TypeOK, RequestRow
  <2>4. ASSUME req[r].target \notin met PROVE FALSE
    <3>1. user[req[r].target].is = "live" /\ Under(req[r].target, Deleting) = {}
      BY <2>2, <2>4 DEF MetInv, SettingUp
    <3>2. ASSUME NEW s \in Requests, req'[s].at \in {"sessions", "user"},
                 req'[s].target = req[r].target
          PROVE  FALSE
      <4>1. s # r
        BY <2>3, <3>2
      <4>2. req[s].at \in {"sessions", "user"} /\ req[s].target = req[r].target
        BY <2>2, <3>2, <4>1
      <4> QED
        BY <3>1, <4>2 DEF Under, Deleting
    <3> QED
      BY <2>2, <3>1, <3>2
  <2> QED
    BY <2>2, <2>4 DEF Going
<1>2. ASSUME Exists(n) PROVE Going(n)'
  <2> DEFINE o == ws[n].owner
  <2>1. ws'[n].owner = o /\ o \in Users /\ Born(o)
    BY <1>2, WorkspacesStay DEF RowsInv
  <2>2. ASSUME user[o].is # "live" \/ Under(o, Deleting) # {},
               Going(n)
        PROVE  Going(n)'
    <3>1. ASSUME NEW r \in Requests, SetupQueues(r), req[r].ws = n PROVE o \in met
      <4>1. req[r].at \in SettingUp /\ req[r].target = o
        BY <3>1 DEF SetupQueues, SettingUp, RequestsInv
      <4> QED
        BY <2>2, <4>1 DEF MetInv
    <3> QED
      BY <1>2, <2>2, <3>1, GoingStays
  <2>3. ASSUME NEW r \in Requests, req[r].at \in {"sessions", "user"}, req[r].target = o
        PROVE  Going(n)'
    <3>1. Going(n)
      BY <1>2, <2>3 DEF GoingInv
    <3>2. r \in Under(o, Deleting)
      BY <2>3 DEF Under, Deleting
    <3> QED
      BY <2>2, <3>1, <3>2
  <2>4. CASE user'[o].is = "deleted"
    <3>1. CASE user[o].is = "deleted"
      BY <1>2, <2>2, <3>1 DEF GoingInv
    <3>2. CASE user[o].is # "deleted"
      <4>1. user[o].is = "live"
        BY <2>1, <3>2 DEF Born, TypeOK, UserRow
      <4>2. PICK r \in Requests : DeleteUser(r) /\ req[r].target = o
        BY <2>1, <2>4, <4>1, LiveStays
      <4> QED
        BY <2>3, <4>2 DEF DeleteUser
    <3> QED
      BY <3>1, <3>2
  <2>5. ASSUME NEW r \in Requests, req'[r].at \in {"sessions", "user"}, req'[r].target = o
        PROVE  Going(n)'
    <3>1. req[r] \in RequestRow /\ r \in DOMAIN req
      BY DEF TypeOK
    <3>2. CASE req'[r] = req[r]
      BY <2>3, <2>5, <3>2
    <3>3. req'[r] # NoRequest
      <4>1. NoRequest.at \notin {"sessions", "user"}
        BY DEF NoRequest
      <4> QED
        BY <2>5, <4>1
    <3>4. ASSUME NEW u \in Users, Setup(r, u) PROVE FALSE
      BY <2>5, <3>1, <3>4 DEF Setup, NoRequest
    <3>5. ASSUME NEW m \in Names, SetupInserts(r, m) PROVE FALSE
      BY <2>5, <3>1, <3>5 DEF SetupInserts, RequestRow
    <3>6. ASSUME NEW a \in Users, NEW u \in Users, Delete(r, a, u) PROVE FALSE
      <4>1. PICK m \in Owned(u) \cup (IF Owned(u) = {} THEN {None} ELSE {}) :
              req' = [req EXCEPT ![r] = [at |-> IF m = None THEN "sessions" ELSE "desire",
                                         by |-> a, target |-> u, ws |-> m]]
        BY <3>6 DEF Delete, Starts
      <4>2. req'[r] = [at |-> IF m = None THEN "sessions" ELSE "desire",
                       by |-> a, target |-> u, ws |-> m]
        BY <3>1, <4>1
      <4>3. u = o /\ m = None
        BY <2>5, <4>2
      <4>4. n \in Owned(u)
        BY <1>2, <4>3 DEF Owned
      <4> QED
        BY <4>1, <4>3, <4>4, ConstantsAssumption DEF Owned
    <3>7. CASE DeleteDesires(r)
      BY <2>5, <3>1, <3>7 DEF DeleteDesires, Goto, RequestRow
    <3>8. CASE DeleteQueues(r)
      <4>1. req[r].at = "remove job" /\ req[r].target = o
        BY <2>5, <3>1, <3>8 DEF DeleteQueues, Goto, RequestRow
      <4>2. req[r].ws = n
        BY <1>2, <4>1 DEF RequestsInv, UniqueInv
      <4>3. jobs'[n] = Append(jobs[n], "remove") /\ jobs[n] \in Seq({"create", "remove"})
        BY <3>8, <4>2 DEF DeleteQueues, Queue, TypeOK
      <4>4. /\ Len(jobs[n]) + 1 \in DOMAIN jobs'[n]
            /\ jobs'[n][Len(jobs[n]) + 1] = "remove"
            /\ \A j \in DOMAIN jobs'[n] : ~(j > Len(jobs[n]) + 1)
        BY <4>3
      <4> QED
        BY <4>4 DEF Going
    <3>9. CASE DeleteSessions(r)
      <4>1. req[r].at = "sessions" /\ req[r].target = o
        BY <2>5, <3>1, <3>9 DEF DeleteSessions, Goto, RequestRow
      <4> QED
        BY <2>3, <4>1
    <3>10. /\ ~\E u \in Users : Setup(r, u) \/ \E a \in Users : Delete(r, a, u)
           /\ ~\E m \in Names : SetupInserts(r, m)
      BY <3>4, <3>5, <3>6
    <3> QED
      BY <3>2, <3>3, <3>7, <3>8, <3>9, <3>10, RequestSteps
  <2> QED
    BY <2>1, <2>4, <2>5
<1> QED
  BY <1>1, <1>2

-----------------------------------------------------------------------------
(* The invariant, and what follows from it. *)

LEMMA InvariantHolds == Spec => []AccountsInv
<1>1. Init => AccountsInv
  <2> SUFFICES ASSUME Init PROVE AccountsInv
    OBVIOUS
  <2>1. TypeOK
    BY InitIsTyped
  <2>2. RequestsInv /\ MetInv
    BY DEF Init, NoRequest, RequestsInv, MetInv, SettingUp
  <2>3. RowsInv
    BY DEF Init, RowsInv, Exists, Users, None
  <2>4. UniqueInv /\ GoingInv
    BY DEF Init, UniqueInv, GoingInv, Exists
  <2>5. DeletersInv
    BY DEF Init, NoRequest, DeletersInv, Deleting
  <2>6. AnAdminRemains
    BY DEF Init, AnAdminRemains
  <2> QED
    BY <2>1, <2>2, <2>3, <2>4, <2>5, <2>6 DEF AccountsInv
<1>2. AccountsInv /\ [Next]_vars => AccountsInv'
  <2> SUFFICES ASSUME AccountsInv, [Next]_vars PROVE AccountsInv'
    OBVIOUS
  <2>1. TypeOK'
    BY StepKeepsType DEF AccountsInv
  <2>2. RequestsInv' /\ RowsInv' /\ UniqueInv'
    BY RequestsKept, RowsKept, UniqueKept DEF AccountsInv
  <2>3. DeletersInv' /\ AnAdminRemains'
    BY AdminsKept DEF AccountsInv
  <2>4. MetInv' /\ GoingInv'
    BY MetKept, GoingKept DEF AccountsInv
  <2> QED
    BY <2>1, <2>2, <2>3, <2>4 DEF AccountsInv
<1> QED
  BY <1>1, <1>2, PTL DEF Spec

\* Rows, requests and jobs are always of their types: the tables of ensure_auth_schema,
\* and the requests of setup_me and delete_user_and_workspace.
THEOREM AccountsTypeCorrect == Spec => []TypeOK
<1>1. AccountsInv => TypeOK
  BY DEF AccountsInv
<1> QED
  BY <1>1, InvariantHolds, PTL

\* No account comes by the session or the workspace of one that was deleted, although
\* nothing in the database ties them to the row of the user: ids are not used twice.
THEOREM NothingPasses == Spec => []NothingIsInherited
<1>1. AccountsInv => NothingIsInherited
  <2> SUFFICES ASSUME AccountsInv PROVE NothingIsInherited
    OBVIOUS
  <2>1. \A s \in sessions : user[s.user].email = s.email
    BY DEF AccountsInv, RowsInv
  <2>2. \A n \in Names : ws[n].owner \in Users => user[ws[n].owner].email = ws[n].email
    BY DEF AccountsInv, RowsInv
  <2> QED
    BY <2>1, <2>2 DEF NothingIsInherited, Live
<1> QED
  BY <1>1, InvariantHolds, PTL

\* However many setups of a user are under way, one workspace comes of them: setup_me
\* decides on what it has read, and the index on owner_user_id holds at the insertion.
THEOREM OneWorkspace == Spec => []OneWorkspaceEach
<1>1. AccountsInv => OneWorkspaceEach
  <2> SUFFICES ASSUME AccountsInv, NEW u \in Users PROVE Cardinality(Owned(u)) <= 1
    BY DEF OneWorkspaceEach
  <2>1. CASE Owned(u) = {}
    BY <2>1, FS_EmptySet
  <2>2. ASSUME NEW n \in Owned(u) PROVE Cardinality(Owned(u)) <= 1
    <3>1. Owned(u) = {n}
      BY <2>2 DEF AccountsInv, UniqueInv, Owned
    <3> QED
      BY <3>1, FS_Singleton
  <2> QED
    BY <2>1, <2>2
<1> QED
  BY <1>1, InvariantHolds, PTL

\* An admin remains once there has been a user, unless two admins were deleting at a
\* time: who deletes is an admin, and nobody else's deletion is about that admin.
THEOREM SomeAdminRemains == Spec => []AnAdminRemains
<1>1. AccountsInv => AnAdminRemains
  BY DEF AccountsInv
<1> QED
  BY <1>1, InvariantHolds, PTL

\* The workspace of a deleted user goes, in the cases that GoesWithItsUser tells: from
\* the moment the job to remove it is queued, no job to create it comes behind.
THEOREM WorkspaceGoes == Spec => []GoesWithItsUser
<1>1. AccountsInv => GoesWithItsUser
  <2> SUFFICES ASSUME AccountsInv, NEW n \in Names, Exists(n),
                      user[ws[n].owner].is = "deleted"
               PROVE  \/ ws[n].desired = "removed"
                      \/ \E i \in DOMAIN jobs[n] : jobs[n][i] = "remove"
                      \/ n \in lost \/ ws[n].owner \in met
    BY DEF GoesWithItsUser
  <2>1. Going(n)
    BY DEF AccountsInv, GoingInv
  <2> QED
    BY <2>1 DEF Going
<1> QED
  BY <1>1, InvariantHolds, PTL

=============================================================================
