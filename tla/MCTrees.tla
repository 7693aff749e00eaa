------------------------------- MODULE MCTrees -------------------------------
(* One collective on a tree that the topology module builds, or (part is   *)
(* "routing") a message or an xcast on any of the trees. The part that is  *)
(* not run stays in an initial state.                                      *)
EXTENDS TreeCollective, Routing

CONSTANTS Tree, Radix, MaxN, Radices
Topo == [tree |-> Tree, radix |-> Radix, n |-> N]
MCParent == [r \in 1..(N - 1) |-> parent(Topo, r)]
MCRelatives == [r \in 0..(N - 1) |-> relatives(Topo, r)]

MCTopologies == [tree : {"radix"}, radix : Radices, n : 1..MaxN]
                \cup [tree : {"binom"}, radix : {0}, n : 1..MaxN]

VARIABLE part
treesVars == <<part, vars, routingVars>>

TreesInit ==
    /\ part \in {"collective", "routing"}
    /\ Init /\ RoutingInit
    /\ part = "collective" => topo.n = 1 /\ topo.tree = "binom" /\ target = 0
    /\ part = "routing" => kind = "barrier"
TreesNext == \/ part = "collective" /\ Next /\ UNCHANGED <<part, routingVars>>
             \/ part = "routing" /\ RoutingNext /\ UNCHANGED <<part, vars>>
\* The fairness of the FairSpec of either.
Collective(A) == part = "collective" /\ A /\ UNCHANGED <<part, routingVars>>
TreesSpec ==
    /\ TreesInit /\ [][TreesNext]_treesVars
    /\ \A p \in Proc : /\ WF_treesVars(Collective(Call(p)))
                       /\ WF_treesVars(Collective(DirectRecv(p)))
                       /\ WF_treesVars(Collective(XcastRecv(p)))
                       /\ WF_treesVars(Collective(ReleaseRecv(p)))
    /\ WF_treesVars(part = "routing" /\ Forward /\ UNCHANGED <<part, vars>>)

\* The members all answer, and what is sent arrives. The other properties keep
\* the names that TreeCollective and Routing give them.
EverythingArrives == /\ part = "collective" => EveryoneReleased
                     /\ part = "routing" => Arrives
=============================================================================
