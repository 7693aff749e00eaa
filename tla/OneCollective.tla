--------------------------- MODULE OneCollective ---------------------------
(***************************************************************************)
(* One collective on one SCON, seen as a TreeCollective: the queues, the   *)
(* connections and the order of delivery are forgotten, and so are the     *)
(* signatures and the xcasts of users.                                     *)
(***************************************************************************)
EXTENDS Collectives

Scon == CHOOSE s \in Scons : TRUE

\* How often the contribution of each member to round 1 is in a buffer.
Buf(c) == [x \in Proc |-> IF prog[Scon][1] = "allgather" /\ <<x, 1>> \in c THEN 1 ELSE 0]

OneCalled == [p \in Proc |-> \/ log[p][Scon] # <<>>
                             \/ \E i \in DOMAIN ongoing[p] : ongoing[p][i].req # NoReq]
OneCallbacks == [p \in Proc |-> Len(log[p][Scon])]
OneResult == [p \in Proc |->
    IF log[p][Scon] = <<>> THEN Buf({}) ELSE Buf(log[p][Scon][1].contents)]
TrackerOf(list) ==
    IF list = <<>> THEN [there |-> FALSE, req |-> FALSE, nreported |-> 0, bucket |-> Buf({})]
    ELSE [there |-> TRUE, req |-> list[1].req # NoReq, nreported |-> list[1].nreported,
          bucket |-> Buf(list[1].bucket)]
OneTracker == [p \in Proc |-> TrackerOf(ongoing[p])]
OneMessage(m) == [src |-> m.src, dst |-> m.dst, tag |-> m.tag, buf |-> Buf(m.buf)]
OneNet == {OneMessage(m) : m \in {x \in InFlight : x.kind # "user"}}

OneRound == INSTANCE TreeCollective WITH
    kind <- prog[Scon][1], called <- OneCalled, ncallbacks <- OneCallbacks,
    result <- OneResult, tracker <- OneTracker, net <- OneNet

\* With queues, connections and event loops under it, one collective still is a
\* TreeCollective (allgather, allgather_recv, xcast_recv, allgather_release and
\* the same of a barrier), so what is proved of that module holds of it.
ImplementsTree == OneRound!Spec
=============================================================================
