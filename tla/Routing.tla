------------------------------ MODULE Routing ------------------------------
(***************************************************************************)
(* Messages on the routing tree of a SCON: a routed message, handed from   *)
(* member to member by get_nexthop, and an xcast, relayed by every member  *)
(* to the list get_routing_list gives. A link to a child can be reported   *)
(* lost meanwhile (route_lost, called by the TCP component when a hop is   *)
(* unknown): the child leaves the list of peers and nothing else happens.  *)
(*                                                                         *)
(* Either one message or one xcast is on its way in a behaviour.           *)
(***************************************************************************)
EXTENDS Topology

CONSTANTS
    Topologies,      \* the topologies tried, records [tree, radix, n]
    MaxLost          \* links that may be lost

\* A radix of 0 leaves the loop of radix_tree running forever.
ASSUME RoutingAssumption ==
    /\ Topologies \subseteq [tree : {"radix", "binom"}, radix : Nat, n : Nat \ {0}]
    /\ \A t \in Topologies : t.tree = "radix" => t.radix > 0

VARIABLES
    topo,            \* the topology
    myparent_id,     \* myparent_id[p]: what p computed for its parent
    my_peers,        \* my_peers[p]: the children p still has a link to
    below,           \* below[c]: the relatives bitmap a parent keeps for c
    target,          \* whom the message is for, or Everyone
    at,              \* the member that has the message
    visited,         \* the members that had it before
    sent,            \* relayed copies of the xcast not yet handled
    copies           \* copies[p]: copies of the xcast p has handled

computed == <<topo, myparent_id, below>>
message == <<target, at, visited>>
xcast == <<sent, copies>>
routingVars == <<computed, my_peers, message, xcast>>

Everyone == -2                   \* the message is an xcast
Member == Ranks(topo.n)
NonRoot == Member \ {0}

\* radix_update_topology / binom_update_topology at every member, then a send or
\* an xcast.
RoutingInit ==
    /\ topo \in Topologies
    /\ myparent_id = [p \in Member |-> parent(topo, p)]
    /\ my_peers = [p \in Member |-> children(topo, p)]
    /\ below = [c \in NonRoot |-> relatives(topo, c)]
    /\ target \in Member \cup {Everyone}
    /\ at \in (IF target = Everyone THEN {Invalid} ELSE Member)
    /\ visited = {}
    /\ sent = IF target = Everyone THEN {0} ELSE {}
    /\ copies = [p \in Member |-> 0]

\* pt2pt_base_process_send at the member that has the message. The parent of
\* the root is not a process (radix), or the root itself (binomial): the send
\* fails there for want of contact information.
Forward ==
    /\ at \notin {target, Invalid}
    /\ LET hop == get_nexthop(topo, myparent_id[at], my_peers[at], below, at, target)
       IN at' = IF hop = at THEN Invalid ELSE hop
    /\ visited' = visited \cup {at}
    /\ UNCHANGED <<computed, my_peers, target, xcast>>

Relay(p) ==
    /\ p \in sent
    /\ sent' = (sent \ {p}) \cup my_peers[p]
    /\ copies' = [copies EXCEPT ![p] = @ + 1]
    /\ UNCHANGED <<computed, my_peers, message>>

\* radix_route_lost / binom_route_lost: forget the child; losing anyone else is
\* nobody's concern.
route_lost(p, route) ==
    /\ my_peers' = [my_peers EXCEPT ![p] = @ \ {route}]
    /\ UNCHANGED <<computed, message, xcast>>

\* The links lost so far, named by their lower end.
Lost == {c \in NonRoot : c \notin my_peers[myparent_id[c]]}

RoutingNext ==
    \/ Forward
    \/ \E p \in Member : Relay(p)
    \/ \E p \in Member : \E c \in my_peers[p] :
          Cardinality(Lost) < MaxLost /\ route_lost(p, c)

RoutingSpec == RoutingInit /\ [][RoutingNext]_routingVars

\* Fairness: the event loop of the member that has the message runs; links need
\* not be lost.
RoutingFairSpec == RoutingSpec /\ WF_routingVars(Forward)
-----------------------------------------------------------------------------
RoutingTypeOK ==
    /\ topo \in Topologies
    /\ myparent_id \in [Member -> Member \cup {Invalid}]
    /\ my_peers \in [Member -> SUBSET Member]
    /\ below \in [NonRoot -> SUBSET Member]
    /\ target \in Member \cup {Everyone}
    /\ at \in Member \cup {Invalid}
    /\ visited \subseteq Member
    /\ sent \subseteq Member
    /\ copies \in [Member -> Nat]

Branch(p) == IF p = 0 THEN NonRoot ELSE below[p]

\* Every member computes its parent, its children and their branches from its
\* rank alone. The answers fit: they are the edges of one tree rooted at rank 0,
\* and a branch is the ranks from which parents lead to its top (this is the
\* tree that TreeCollective and its proofs assume).
OneTree == \A p \in Member :
    LET kids == {c \in NonRoot : myparent_id[c] = p}
    IN /\ my_peers[p] = kids \ Lost
       /\ Branch(p) = UNION {{c} \cup Branch(c) : c \in kids}
       /\ p \notin Branch(p)
       /\ \A r \in Branch(p) : myparent_id[r] \in {p} \cup Branch(p)
       /\ \A c, d \in kids : c # d => ({c} \cup Branch(c)) \cap ({d} \cup Branch(d)) = {}

\* The lower ends of the links on the way down from the root to `p`.
WayDown(p) == {c \in NonRoot : c = p \/ p \in below[c]}

\* No link has been lost on the way down to `to` from where it leaves the way
\* to `from`.
Intact(from, to) == (WayDown(to) \ WayDown(from)) \cap Lost = {}

\* A message that meets no lost link visits nobody twice and never leaves the
\* tree, though each hop is chosen by a different member.
NeverBack == (target # Everyone /\ \A p \in visited : Intact(p, target)) =>
    at \in Member \ visited

\* An xcast comes to a member at most once, and when it is over it has come to
\* every member that no lost link cuts off.
XcastOnce ==
    /\ \A p \in Member : copies[p] <= 1
    /\ (target = Everyone /\ sent = {}) =>
          \A p \in Member : Intact(0, p) => copies[p] = 1

\* A message arrives, unless it meets a lost link.
Arrives == <>(\/ target = Everyone
              \/ at = target
              \/ ~\A p \in visited : Intact(p, target))

\* Whatever is routed goes along one tree, never back, and an xcast everywhere once.
RoutedOnOneTree == RoutingTypeOK /\ OneTree /\ NeverBack /\ XcastOnce
=============================================================================
