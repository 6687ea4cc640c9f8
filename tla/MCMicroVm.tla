----------------------------- MODULE MCMicroVm -----------------------------
(***************************************************************************)
(* Instances of MicroVm for TLC.  A run names in its configuration what    *)
(* the holders of the lock do and what is done without it.                 *)
(***************************************************************************)
EXTENDS MicroVm

\* All that is done to a VM under the lock.
AllJobs == JobNames
=============================================================================
