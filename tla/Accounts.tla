------------------------------ MODULE Accounts ------------------------------
(***************************************************************************)
(* Users, their sessions and invites, and the one workspace each of them   *)
(* may own (src/auth.rs): signing up, logging in and out, setting up the   *)
(* workspace, and the deletion of a user with it.                          *)
(*                                                                         *)
(* Signing up and logging in are one transaction each.  Setting up and     *)
(* deleting are several statements, and between two of them comes another  *)
(* request or the death of the API.  A workspace is known by its desired   *)
(* state, to which reconciliation takes it (WorkerLoop); the worker runs   *)
(* its jobs in order, and a job says what is desired.                      *)
(***************************************************************************)
EXTENDS Naturals, FiniteSets, Sequences

CONSTANTS
  Emails,
  Names,      \* of workspaces: workspace_slug_from_name of an address and an agent
  MaxUsers,   \* bound on the users ever created
  Invites,
  RoleOf,     \* RoleOf[i]: the role that invite i is for
  MaxUses,    \* max_uses of every invite
  Requests,   \* requests under way at a time
  MaxJobs,    \* bound on the queued jobs of a workspace
  MaxFailures \* bound on the requests that die and the jobs that fail

Users == 1..MaxUsers
None  == 0

ASSUME ConstantsAssumption ==
  /\ MaxUsers \in Nat /\ MaxUses \in Nat \ {0} /\ MaxJobs \in Nat
  /\ MaxFailures \in Nat
  /\ RoleOf \in [Invites -> {"admin", "user"}]
  /\ None \notin Names

VARIABLES
  user,      \* user[u]: the row of u in users
  sessions,  \* the users with a row in sessions, and as whom they had logged in
  used,      \* used[i]: used_count of the invite
  req,       \* req[r]: how far a request to set up or to delete is
  ws,        \* ws[n]: the row of workspace n
  jobs,      \* jobs[n]: its queued jobs
  met,       \* history: users whose setup and deletion were under way together
  crossed,   \* history: two admins have been deleting at the same time
  lost,      \* history: the workspaces a job to remove failed for
  failures   \* how many requests and jobs have failed

accountVars == <<user, sessions, used>>
wsVars      == <<ws, jobs>>
history     == <<met, crossed, lost, failures>>
vars        == <<accountVars, req, wsVars, history>>

-----------------------------------------------------------------------------
Roles == {"admin", "user"}

UserRow    == [is : {"unborn", "live", "deleted"}, email : Emails \cup {None},
               role : Roles, invite : Invites \cup {None}]
SessionRow == [user : Users, email : Emails \cup {None}]
RequestRow == [at : {"idle", "insert", "create job", "desire", "remove job", "sessions", "user"},
               by : Users \cup {None}, target : Users \cup {None}, ws : Names \cup {None}]
WsRow      == [owner : Users \cup {None}, email : Emails \cup {None},
               desired : {"none", "running", "removed"}]

TypeOK ==
  /\ user \in [Users -> UserRow]
  /\ sessions \subseteq SessionRow
  /\ used \in [Invites -> 0..MaxUses]
  /\ req \in [Requests -> RequestRow]
  /\ ws \in [Names -> WsRow]
  /\ jobs \in [Names -> Seq({"create", "remove"})]
  /\ met \subseteq Users /\ crossed \in BOOLEAN /\ lost \subseteq Names
  /\ failures \in 0..MaxFailures

NoRequest == [at |-> "idle", by |-> None, target |-> None, ws |-> None]

Init ==
  /\ user \in [Users -> {[is |-> "unborn", email |-> None,
                          role |-> "user", invite |-> None]}]
  /\ sessions = {}
  /\ used = [i \in Invites |-> 0]
  /\ req = [r \in Requests |-> NoRequest]
  /\ ws = [n \in Names |-> [owner |-> None, email |-> None, desired |-> "none"]]
  /\ jobs = [n \in Names |-> << >>]
  /\ met = {} /\ crossed = FALSE /\ lost = {} /\ failures = 0

Live    == {u \in Users : user[u].is = "live"}
Admins  == {u \in Live : user[u].role = "admin"}
Exists(n) == ws[n].desired # "none"
Owned(u)  == {n \in Names : Exists(n) /\ ws[n].owner = u}

\* current_user: a session counts as long as its user is there.
LoggedIn(u) == u \in Live /\ \E s \in sessions : s.user = u

-----------------------------------------------------------------------------
(* Users, sessions, invites: create_user_session, authenticate_session. *)

\* Mutant: the key of users is not AUTOINCREMENT.
MutIsNewId(u) == u \notin Live /\ \A v \in Users : v \in Live <=> v < u

IsNewId(u) ==
  /\ user[u].is = "unborn"
  /\ \A v \in Users : user[v].is = "unborn" => u <= v

\* The first user is the admin; for the others an invite decides.
SignsUp(u, e, i, role) ==
  /\ IsNewId(u)
  /\ \A v \in Live : user[v].email # e
  /\ user' = [user EXCEPT ![u] = [is |-> "live", email |-> e, role |-> role, invite |-> i]]
  /\ sessions' = sessions \cup {[user |-> u, email |-> e]}
  /\ UNCHANGED <<req, wsVars, history>>

SignUpFirst(u, e) ==
  /\ Live = {}
  /\ SignsUp(u, e, None, "admin")
  /\ UNCHANGED used

\* Mutant: the limit of the invite is off by one.
MutSignUp(u, e, i) ==
  /\ Live # {}
  /\ used[i] <= MaxUses
  /\ used' = [used EXCEPT ![i] = @ + 1]
  /\ SignsUp(u, e, i, RoleOf[i])

\* An invite that an admin has disabled only refuses, so that is left out.
SignUp(u, e, i) ==
  /\ Live # {}
  /\ used[i] < MaxUses
  /\ used' = [used EXCEPT ![i] = @ + 1]
  /\ SignsUp(u, e, i, RoleOf[i])

\* Logging out is left out likewise: a user who has logged out asks for nothing.
LogIn(u) ==
  /\ u \in Live
  /\ sessions' = sessions \cup {[user |-> u, email |-> user[u].email]}
  /\ UNCHANGED <<user, used, req, wsVars, history>>

-----------------------------------------------------------------------------
(* Setting up a workspace: setup_me. *)

Under(u, stages) == {r \in Requests : req[r].target = u /\ req[r].at \in stages}

SettingUp == {"insert", "create job"}
Deleting  == {"desire", "remove job", "sessions", "user"}

Goto(r, at) == req' = [req EXCEPT ![r].at = at]
Done(r)     == req' = [req EXCEPT ![r] = NoRequest]

\* A user who has a workspace keeps it, whatever has become of it.
Setup(r, u) ==
  /\ req[r].at = "idle"
  /\ LoggedIn(u)
  /\ Owned(u) = {}
  /\ req' = [req EXCEPT ![r] = [NoRequest EXCEPT !.at = "insert", !.target = u]]
  /\ met' = IF Under(u, Deleting) = {} THEN met ELSE met \cup {u}
  /\ UNCHANGED <<accountVars, wsVars, crossed, lost, failures>>

\* Mutant: nothing but the look before it keeps a user from a second workspace.
MutMayInsert(u, n) == ~Exists(n)

\* The row is inserted in one transaction, which finds it a node; a name that is
\* taken, the index on owner_user_id or a fleet without room refuses it.
MayInsert(u, n) == ~Exists(n) /\ Owned(u) = {}

SetupInserts(r, n) ==
  /\ req[r].at = "insert"
  /\ MayInsert(req[r].target, n)
  /\ ws' = [ws EXCEPT ![n] = [owner |-> req[r].target, email |-> user[req[r].target].email,
                              desired |-> "running"]]
  /\ req' = [req EXCEPT ![r] = [@ EXCEPT !.at = "create job", !.ws = n]]
  /\ UNCHANGED <<accountVars, jobs, history>>

SetupIsRefused(r) ==
  /\ req[r].at = "insert"
  /\ Done(r)
  /\ UNCHANGED <<accountVars, wsVars, history>>

Queue(n, kind) == jobs' = [jobs EXCEPT ![n] = Append(@, kind)]

SetupQueues(r) ==
  /\ req[r].at = "create job"
  /\ Len(jobs[req[r].ws]) < MaxJobs
  /\ Queue(req[r].ws, "create")
  /\ Done(r)
  /\ UNCHANGED <<accountVars, ws, history>>

-----------------------------------------------------------------------------
(* Deleting a user: admin_delete_user, delete_user_and_workspace. *)

Crossing(a) == {r \in Requests : req[r].at \in Deleting /\ req[r].by # a}

\* Who deletes has been authorized and has read which workspace there is; of a user
\* who is gone nothing but a workspace may be left.
Starts(r, a, u) ==
  /\ req[r].at = "idle"
  /\ a \in Admins /\ LoggedIn(a)
  /\ u \in Live \/ Owned(u) # {}
  /\ \E n \in Owned(u) \cup (IF Owned(u) = {} THEN {None} ELSE {}) :
       req' = [req EXCEPT ![r] = [at |-> IF n = None THEN "sessions" ELSE "desire",
                                  by |-> a, target |-> u, ws |-> n]]
  /\ met' = IF Under(u, SettingUp) = {} THEN met ELSE met \cup {u}
  /\ crossed' = (crossed \/ Crossing(a) # {})
  /\ UNCHANGED <<accountVars, wsVars, lost, failures>>

\* Mutant: an admin may delete itself.
MutDelete(r, a, u) == Starts(r, a, u)

Delete(r, a, u) == a # u /\ Starts(r, a, u)

\* workspace_set_desired, and the status with it.
DeleteDesires(r) ==
  /\ req[r].at = "desire"
  /\ ws' = [ws EXCEPT ![req[r].ws].desired = "removed"]
  /\ Goto(r, "remove job")
  /\ UNCHANGED <<accountVars, jobs, history>>

\* Mutant: the desired state is enough.
MutDeleteQueues(r) ==
  /\ req[r].at = "remove job"
  /\ Goto(r, "sessions")
  /\ UNCHANGED <<accountVars, wsVars, history>>

DeleteQueues(r) ==
  /\ req[r].at = "remove job"
  /\ Len(jobs[req[r].ws]) < MaxJobs
  /\ Queue(req[r].ws, "remove")
  /\ Goto(r, "sessions")
  /\ UNCHANGED <<accountVars, ws, history>>

DeleteSessions(r) ==
  /\ req[r].at = "sessions"
  /\ sessions' = {s \in sessions : s.user # req[r].target}
  /\ Goto(r, "user")
  /\ UNCHANGED <<user, used, wsVars, history>>

\* A user who is gone already is not found, which is an error and changes nothing.
DeleteUser(r) ==
  /\ req[r].at = "user"
  /\ user' = [user EXCEPT ![req[r].target].is = "deleted"]
  /\ Done(r)
  /\ UNCHANGED <<sessions, used, wsVars, history>>

Fails == failures < MaxFailures /\ failures' = failures + 1

\* A request that dies with the API, or by an error of the database.
Dies(r) ==
  /\ Fails
  /\ req[r].at # "idle"
  /\ Done(r)
  /\ UNCHANGED <<accountVars, wsVars, met, crossed, lost>>

-----------------------------------------------------------------------------
(* The worker. *)

RunJob(n) ==
  /\ jobs[n] # << >>
  /\ jobs' = [jobs EXCEPT ![n] = Tail(@)]
  /\ ws' = [ws EXCEPT ![n].desired =
               IF Head(jobs[n]) = "create" THEN "running" ELSE "removed"]
  /\ UNCHANGED <<accountVars, req, history>>

\* A job that fails or expires before it has said what is desired.
JobFails(n) ==
  /\ Fails
  /\ jobs[n] # << >>
  /\ jobs' = [jobs EXCEPT ![n] = Tail(@)]
  /\ lost' = IF Head(jobs[n]) = "remove" /\ ws[n].desired = "running"
             THEN lost \cup {n} ELSE lost
  /\ UNCHANGED <<accountVars, req, ws, met, crossed>>

-----------------------------------------------------------------------------
Step(r) ==
  \/ SetupIsRefused(r) \/ SetupQueues(r)
  \/ \E n \in Names : SetupInserts(r, n)
  \/ DeleteDesires(r) \/ DeleteQueues(r)
  \/ DeleteSessions(r) \/ DeleteUser(r)

Next ==
  \/ \E u \in Users, e \in Emails :
       \/ SignUpFirst(u, e)
       \/ \E i \in Invites : SignUp(u, e, i)
  \/ \E u \in Users : LogIn(u)
  \/ \E r \in Requests :
       \/ \E u \in Users : Setup(r, u) \/ \E a \in Users : Delete(r, a, u)
       \/ Step(r) \/ Dies(r)
  \/ \E n \in Names : RunJob(n) \/ JobFails(n)

Spec == Init /\ [][Next]_vars

-----------------------------------------------------------------------------
(* Properties. *)

\* What a deleted user leaves behind, a session that was made between the two DELETEs
\* or the row of a workspace, never passes to another account.
NothingIsInherited ==
  /\ \A s \in sessions : s.user \in Live => user[s.user].email = s.email
  /\ \A n \in Names : ws[n].owner \in Live => user[ws[n].owner].email = ws[n].email

\* A user never owns two workspaces, however many setups run at once.
OneWorkspaceEach == \A u \in Users : Cardinality(Owned(u)) <= 1

\* There is an admin from the first user on, unless two admins were deleting at the
\* same time (each the other, say): an admin cannot delete itself.
AnAdminRemains ==
  (\E u \in Users : user[u].is # "unborn") => Admins # {} \/ crossed

\* The workspace of a deleted user is to go, or a job to remove it is still to come,
\* unless a setup of the same user was under way with the deletion, or a job to remove
\* failed after an older one to create had put the desired state back.
GoesWithItsUser ==
  \A n \in Names :
    Exists(n) /\ user[ws[n].owner].is = "deleted" =>
      \/ ws[n].desired = "removed"
      \/ \E i \in DOMAIN jobs[n] : jobs[n][i] = "remove"
      \/ n \in lost \/ ws[n].owner \in met

=============================================================================
