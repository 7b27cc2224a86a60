------------------------------ MODULE MCGossip ------------------------------
(* Two instances: n2 has n1, and itself, as seeds; the operator of n1 may   *)
(* register n2 as well.                                                     *)
EXTENDS Gossip, TLC
CONSTANTS n1, n2

MCRegionOf == [n \in Nodes |-> CHOOSE r \in Regions : TRUE]
MCSeeds == (n1 :> {}) @@ (n2 :> {n1, n2})
MCPeers == (n1 :> {n2}) @@ (n2 :> {})
=============================================================================
