-------------------------- MODULE MCServiceTunnels --------------------------
(***************************************************************************)
(* An instance of ServiceTunnels for TLC: one workspace with a dashboard   *)
(* and one preview.                                                        *)
(***************************************************************************)
EXTENDS ServiceTunnels, TLC

CONSTANTS dash, web, w1

OneHome == [k \in {dash, web} |-> w1]
Sym == Permutations(Ports) \cup Permutations(Processes) \cup Permutations(Requests)
=============================================================================
