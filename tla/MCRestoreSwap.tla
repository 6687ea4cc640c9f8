--------------------------- MODULE MCRestoreSwap ---------------------------
(***************************************************************************)
(* Instances of RestoreSwap for TLC: two backups, so that an attempt can   *)
(* start from what one of another backup left behind.                      *)
(***************************************************************************)
EXTENDS RestoreSwap, TLC

BackupSymmetry == Permutations(Backups)
=============================================================================
