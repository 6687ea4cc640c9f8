--------------------------- MODULE MCFleetCatalog ---------------------------
(***************************************************************************)
(* Instances of FleetCatalog for TLC.  A node has room for two units or    *)
(* for any number; a workspace takes one unit, or one of them takes two.   *)
(***************************************************************************)
EXTENDS FleetCatalog, TLC

Unlimited == [n \in Nodes |-> 0]
TwoSlots  == [n \in Nodes |-> 2]
OneUnit   == [w \in Workspaces |-> 1]
OneIsBig  == LET big == CHOOSE w \in Workspaces : TRUE
             IN  [w \in Workspaces |-> IF w = big THEN 2 ELSE 1]

NodeSymmetry == Permutations(Nodes)

Nothing      == {}
LiveState    == {<<"live", "keep">>}
RemovedState == {<<"removed", "removed">>}
=============================================================================
