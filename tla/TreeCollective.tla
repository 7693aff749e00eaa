--------------------------- MODULE TreeCollective ---------------------------
(***************************************************************************)
(* One collective (an allgather or a barrier) of the "default" module,     *)
(* mca/collectives/default/collectives_default.c, on a SCON whose topology *)
(* is a tree rooted at the master, rank 0:                                 *)
(*                                                                         *)
(*   - a member that calls the collective attaches its request to the      *)
(*     tracker of the collective's signature (creating it when a child     *)
(*     reported first) and sends its contribution to itself;               *)
(*   - a member that has heard from itself and from each direct child      *)
(*     sends what it collected to its parent;                              *)
(*   - the master, instead, broadcasts the release down the same tree with *)
(*     xcast; a member that gets the release runs its callback and drops   *)
(*     the tracker.                                                        *)
(*                                                                         *)
(* Messages are delivered in any order; each is sent at most once in one   *)
(* collective, so `net` is a set. The event queues, the threads and the    *)
(* sequence numbers that separate consecutive collectives are the subject  *)
(* of module Collectives.                                                  *)
(***************************************************************************)
EXTENDS Integers, FiniteSets

CONSTANTS
    N,               \* number of members; ranks are 0..N-1
    Parent,          \* Parent[r]: parent of rank r > 0 in the topology
    Relatives        \* Relatives[r]: the ranks of the branch below r

Master == 0
Proc == 0..(N - 1)

ASSUME NAssumption == N \in Nat \ {0}
ASSUME ParentAssumption == Parent \in [1..(N - 1) -> Proc]

\* my_peers of the topology module: the direct downward links.
Children(p) == {c \in 1..(N - 1) : Parent[c] = p}

\* The routing tree is a tree: a branch is its children's branches, which are
\* disjoint; who is below p has its parent at or below p; everyone is below the
\* master (topology_radix.c:224-269).
ASSUME TreeAssumption ==
    /\ Relatives \in [Proc -> SUBSET Proc]
    /\ Relatives[Master] = Proc \ {Master}
    /\ \A p \in Proc :
        /\ Relatives[p] = UNION {{c} \cup Relatives[c] : c \in Children(p)}
        /\ p \notin Relatives[p]
        /\ \A r \in Relatives[p] : r > 0 /\ Parent[r] \in {p} \cup Relatives[p]
        /\ \A c, d \in Children(p) :
            c # d => ({c} \cup Relatives[c]) \cap ({d} \cup Relatives[d]) = {}

VARIABLES
    kind,            \* which of the two operations this collective is
    called,          \* called[p]: p's request was processed
    ncallbacks,      \* ncallbacks[p]: times p's callback ran
    result,          \* result[p]: the buffer the callback of p got
    tracker,         \* tracker[p]: p's entry in the list of ongoing collectives
    net              \* messages sent and not yet handled

vars == <<kind, called, ncallbacks, result, tracker, net>>

\* A buffer is abstracted to how often each member's contribution is in it.
Buffer == [Proc -> Nat]
Empty == [x \in Proc |-> 0]
Only(S) == [x \in Proc |-> IF x \in S THEN 1 ELSE 0]
\* Mutant: a report replaces what was collected before it.
copy_payload_overwrite(dst, src) == src
copy_payload(dst, src) == [x \in Proc |-> dst[x] + src[x]]

\* The payload with which p enters: its data, or nothing for a barrier.
Contribution(p) == IF kind = "allgather" THEN Only({p}) ELSE Empty

\* scon_collectives_tracker_t; `there` tells whether p has one.
Tracker == [there : BOOLEAN, req : BOOLEAN, nreported : Nat, bucket : Buffer]
\* Mutant: the constructor leaves nreported alone.
NoTracker_uninitialised == [there |-> FALSE, req |-> FALSE, nreported |-> -1, bucket |-> Empty]
NoTracker == [there |-> FALSE, req |-> FALSE, nreported |-> 0, bucket |-> Empty]

\* scon_collectives_base_get_tracker(sig, true): the tracker, made if absent.
get_tracker(p) == [tracker[p] EXCEPT !.there = TRUE]

\* Mutant: we are counted only where nobody is under us.
nexpected_below(p) == IF Children(p) = {} THEN 1 ELSE Cardinality(Children(p))
\* Ourselves and the procs directly under us (num_routes).
nexpected(p) == 1 + Cardinality(Children(p))

Tag == {"DIRECT", "XCAST", "RELEASE"}
Message == [src : Proc, dst : Proc, tag : Tag, buf : Buffer]
Msg(s, d, t, b) == [src |-> s, dst |-> d, tag |-> t, buf |-> b]

Init ==
    /\ kind \in {"barrier", "allgather"}
    /\ called = [p \in Proc |-> FALSE]
    /\ ncallbacks = [p \in Proc |-> 0]
    /\ result = [p \in Proc |-> Empty]
    /\ tracker = [p \in Proc |-> NoTracker]
    /\ net = {}

(***************************************************************************)
(* process_allgather / process_barrier followed by the module's allgather  *)
(* or barrier: attach the request, send the contribution to ourselves.     *)
(***************************************************************************)
Call(p) ==
    /\ ~called[p]
    /\ called' = [called EXCEPT ![p] = TRUE]
    /\ tracker' = [tracker EXCEPT ![p] = [get_tracker(p) EXCEPT !.req = TRUE]]
    /\ net' = net \cup {Msg(p, p, "DIRECT", Contribution(p))}
    /\ UNCHANGED <<kind, ncallbacks, result>>

\* What a member sends once everyone under it, and itself, has reported.
Rollup(p, bucket) ==
    IF p = Master THEN Msg(p, p, "XCAST", bucket)
                  ELSE Msg(p, Parent[p], "DIRECT", bucket)

(***************************************************************************)
(* allgather_recv / barrier_recv: count the report, collect its contents,  *)
(* and when everyone has reported pass the bucket up, or release.          *)
(***************************************************************************)
DirectRecv(p) == \E m \in net :
    /\ m.dst = p /\ m.tag = "DIRECT"
    /\ LET coll == get_tracker(p)
           nreported == coll.nreported + 1
           bucket == copy_payload(coll.bucket, m.buf)
       IN /\ tracker' = [tracker EXCEPT ![p] =
                [there |-> TRUE, req |-> coll.req,
                 nreported |-> nreported, bucket |-> bucket]]
          /\ net' = (net \ {m}) \cup
                (IF nreported = nexpected(p) THEN {Rollup(p, bucket)} ELSE {})
    /\ UNCHANGED <<kind, called, ncallbacks, result>>

(***************************************************************************)
(* xcast_recv: relay to every direct child, then hand the contents to      *)
(* ourselves under the inner tag.                                          *)
(***************************************************************************)
XcastRecv(p) == \E m \in net :
    /\ m.dst = p /\ m.tag = "XCAST"
    /\ net' = (net \ {m})
              \cup {Msg(p, c, "XCAST", m.buf) : c \in Children(p)}
              \cup {Msg(p, p, "RELEASE", m.buf)}
    /\ UNCHANGED <<kind, called, ncallbacks, result, tracker>>

(***************************************************************************)
(* allgather_release / barrier_release: not an error when there is no      *)
(* tracker; otherwise run the callback if there is one and drop the        *)
(* tracker. (Without a request the code then releases a NULL pointer: see  *)
(* Collectives. ReleaseFindsRequest says that this does not happen here.)  *)
(***************************************************************************)
ReleaseRecv(p) == \E m \in net :
    /\ m.dst = p /\ m.tag = "RELEASE"
    /\ net' = net \ {m}
    /\ IF tracker[p].there
       THEN /\ tracker' = [tracker EXCEPT ![p] = NoTracker]
            /\ IF tracker[p].req
               THEN /\ ncallbacks' = [ncallbacks EXCEPT ![p] = @ + 1]
                    /\ result' = [result EXCEPT ![p] = m.buf]
               ELSE UNCHANGED <<ncallbacks, result>>
       ELSE UNCHANGED <<tracker, ncallbacks, result>>
    /\ UNCHANGED <<kind, called>>

Next == \E p \in Proc :
    Call(p) \/ DirectRecv(p) \/ XcastRecv(p) \/ ReleaseRecv(p)

Spec == Init /\ [][Next]_vars

(***************************************************************************)
(* Fairness: the event loop of a live member keeps running its handlers,   *)
(* and every member calls the collective (what a collective requires).     *)
(***************************************************************************)
FairSpec ==
    /\ Spec
    /\ \A p \in Proc : /\ WF_vars(Call(p))
                       /\ WF_vars(DirectRecv(p))
                       /\ WF_vars(XcastRecv(p))
                       /\ WF_vars(ReleaseRecv(p))
-----------------------------------------------------------------------------
TypeOK ==
    /\ kind \in {"barrier", "allgather"}
    /\ called \in [Proc -> BOOLEAN]
    /\ ncallbacks \in [Proc -> Nat]
    /\ result \in [Proc -> Buffer]
    /\ tracker \in [Proc -> Tracker]
    /\ net \subseteq Message

Abstract == INSTANCE Gather
\* The tree implements the abstract collective: no callback before everyone has
\* called, at most one callback each, and an allgather delivers every member's
\* contribution exactly once (allgather_recv, xcast_recv, allgather_release).
ImplementsGather == Abstract!Spec

\* A member's tracker goes away only with its own request in it: a release can
\* never overtake the call and destroy a tracker that has no request attached
\* (the `NULL != coll->req` branch of allgather_release/barrier_release).
ReleaseFindsRequest == \A p \in Proc :
    (\E m \in net : m.dst = p /\ m.tag = "RELEASE") =>
        tracker[p].there /\ tracker[p].req

\* Nobody counts more reports than it expects, so the `==` test that triggers
\* the roll-up cannot be stepped over (nreported == nexpected).
NoOvercount == \A p \in Proc : tracker[p].nreported <= nexpected(p)

\* When every member has its callback nothing is left behind: no tracker and no
\* message that would start a stale tracker for the same signature.
CleanAtEnd ==
    (\A p \in Proc : ncallbacks[p] = 1) =>
        /\ net = {}
        /\ \A p \in Proc : tracker[p] = NoTracker

\* If everyone calls, everyone gets the callback.
EveryoneReleased == <>(\A p \in Proc : ncallbacks[p] = 1)
=============================================================================
