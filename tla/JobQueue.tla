------------------------------ MODULE JobQueue ------------------------------
(***************************************************************************)
(* What the jobs table of Agent Mom promises to those who put work in it,  *)
(* whatever nodes, leases and recoveries do to it.  A job is a lock on its *)
(* workspace while it is claimed or running, it is begun at most once, and *)
(* once it is over it is over.                                             *)
(*                                                                         *)
(* One step of the table may move several jobs: a claim expires old leases *)
(* before it claims, a recovery ends every job of its workspaces and adds  *)
(* new ones.                                                               *)
(***************************************************************************)
EXTENDS Naturals

CONSTANTS Jobs, Owners

VARIABLES
  stage,   \* where each job is
  owner,   \* the workspace each job is for
  begun    \* how often a worker has begun each job

vars == <<stage, owner, begun>>

Stages == {"absent", "queued", "claimed", "running", "over"}
Locks  == {"claimed", "running"}

\* The moves of a job.  A claim that nobody began may be taken back, a job that
\* may have been begun is never queued again.
Moves == {<<"absent", "queued">>,
          <<"queued", "claimed">>, <<"queued", "over">>,
          <<"claimed", "queued">>, <<"claimed", "running">>, <<"claimed", "over">>,
          <<"running", "over">>}

Init ==
  /\ stage = [j \in Jobs |-> "absent"]
  /\ owner \in [Jobs -> Owners]
  /\ begun = [j \in Jobs |-> 0]

\* Every job stays where it is or makes one move.
Move ==
  /\ stage' \in [Jobs -> Stages]
  /\ \A j \in Jobs : stage'[j] = stage[j] \/ <<stage[j], stage'[j]>> \in Moves

\* Whom a job is for is settled when it is queued.
Keep ==
  /\ owner' \in [Jobs -> Owners]
  /\ \A j \in Jobs : stage[j] # "absent" => owner'[j] = owner[j]

\* A job is claimed when no other job holds its workspace.
Exclude ==
  \A i, j \in Jobs :
    /\ stage[j] = "queued" /\ stage'[j] = "claimed"
    /\ i # j /\ owner[i] = owner[j]
    => stage'[i] \notin Locks

\* A job is begun by the step that makes or finds it running, and only once.
Begin ==
  /\ begun' \in [Jobs -> Nat]
  /\ \A j \in Jobs : \/ begun'[j] = begun[j]
                     \/ begun[j] = 0 /\ begun'[j] = 1 /\ stage'[j] = "running"

Next == Move /\ Keep /\ Exclude /\ Begin

Spec == Init /\ [][Next]_vars
=============================================================================
