----------------------------- MODULE MCAccounts -----------------------------
(* Instances of Accounts for TLC. *)
EXTENDS Accounts, TLC

CONSTANTS i1, i2

OneOfEach == [i \in {i1, i2} |-> IF i = i1 THEN "admin" ELSE "user"]
Sym == Permutations(Requests) \cup Permutations(Emails) \cup Permutations(Names)
=============================================================================
