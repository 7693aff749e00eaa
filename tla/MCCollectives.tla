---------------------------- MODULE MCCollectives ----------------------------
(* Collectives on the trees the topology module builds. *)
EXTENDS OneCollective

CONSTANTS Tree, Radix
T == INSTANCE Topology
Topo == [tree |-> Tree, radix |-> Radix, n |-> N]
MCParent == [r \in 1..(N - 1) |-> T!parent(Topo, r)]
MCRelatives == [r \in 0..(N - 1) |-> T!relatives(Topo, r)]
=============================================================================
