----------------------------- MODULE EventLoops -----------------------------
(***************************************************************************)
(* The plumbing under every SCON operation: the event queues of each       *)
(* member, and the connections between members that are linked in the      *)
(* topology.                                                               *)
(*                                                                         *)
(* A member has two event bases. API calls and sends run on                *)
(* scon_globals.evbase ("ev"); received messages run on                    *)
(* scon_pt2pt_base.pt2pt_evbase. The two are the same base, run by one     *)
(* thread, except at the master (rank 0), where the second is a base of    *)
(* its own ("pt") with its own thread, and the TCP module has a third      *)
(* (pt2pt_base_component.c:42-57, pt2pt_tcp.c:100-113). MasterThreads      *)
(* chooses between that and a master with one base like the others.        *)
(*                                                                         *)
(* Events of a base run in the order they were activated: all have         *)
(* priority SCON_MSG_PRI. A base polls its sockets only when no event is   *)
(* active, and an event activated by a handler runs before the next poll.  *)
(***************************************************************************)
EXTENDS Integers, Sequences

CONSTANTS
    N,               \* number of members; ranks are 0..N-1
    Parent,          \* Parent[r]: parent of rank r > 0
    Relatives,       \* Relatives[r]: the ranks below r
    MasterThreads    \* the master has its own receive thread, as built

VARIABLES
    queue,           \* queue[p][b]: active events of base b of member p
    draining,        \* draining[p]: p's only base has not polled since an event
    channel          \* channel[p][q]: messages written by p, not yet read by q

Master == 0
Proc == 0..(N - 1)
Base == {"ev", "pt"}
Children(p) == {c \in 1..(N - 1) : Parent[c] = p}

ASSUME NAssumption == N \in Nat \ {0}
\* Both topologies number a member after its parent (topology_radix.c:224-269,
\* topology_binomtree.c:299-343).
ASSUME ParentAssumption ==
    Parent \in [1..(N - 1) -> Proc] /\ \A c \in 1..(N - 1) : Parent[c] < c
\* Who is below r: its children and who is below them; nobody is below two
\* children of the same member.
ASSUME TreeAssumption ==
    /\ Relatives \in [Proc -> SUBSET Proc]
    /\ Relatives[Master] = Proc \ {Master}
    /\ \A p \in Proc :
        /\ Relatives[p] = UNION {{c} \cup Relatives[c] : c \in Children(p)}
        /\ \A r \in Relatives[p] : r > p /\ Parent[r] \in {p} \cup Relatives[p]
        /\ \A c, d \in Children(p) :
            c # d => ({c} \cup Relatives[c]) \cap ({d} \cup Relatives[d]) = {}
ASSUME ThreadsAssumption == MasterThreads \in BOOLEAN

\* Where received messages, and forwarded ones, are handled.
pt2pt_evbase(p) == IF p = Master /\ MasterThreads THEN "pt" ELSE "ev"

Send(m) == [op |-> "send", msg |-> m]
Recv(m) == [op |-> "recv", msg |-> m]

EventLoopsInit ==
    /\ queue = [p \in Proc |-> [b \in Base |-> <<>>]]
    /\ draining = [p \in Proc |-> FALSE]
    /\ channel = [p \in Proc |-> [q \in Proc |-> <<>>]]

\* The next event of base b of p, and whether it is of kind `op`.
NextEvent(p, b) == Head(queue[p][b])
Ready(p, b, op) == queue[p][b] # <<>> /\ NextEvent(p, b).op = op

\* The handler of the head of base b of p returned, having activated `evs` on
\* scon_globals.evbase and `pts` on pt2pt_evbase.
Handled(p, b, evs, pts) ==
    LET popped == [queue[p] EXCEPT ![b] = Tail(@)]
        posted == [popped EXCEPT !["ev"] = @ \o evs]
        final == [posted EXCEPT ![pt2pt_evbase(p)] = @ \o pts]
    IN /\ queue' = [queue EXCEPT ![p] = final]
       /\ draining' = [draining EXCEPT ![p] =
             pt2pt_evbase(p) = "ev" /\ final["ev"] # <<>>]

\* An event activated from the user's thread.
Activate(p, e) == queue' = [queue EXCEPT ![p]["ev"] = Append(@, e)]

\* The topology's get_nexthop for a member all of whose links are up.
NextHop(p, dst) ==
    LET below == {c \in Children(p) : dst = c \/ dst \in Relatives[c]}
    IN IF below = {} THEN Parent[p] ELSE CHOOSE c \in below : TRUE

(***************************************************************************)
(* pt2pt_base_process_send and the TCP module's process_send: a message to *)
(* ourselves is posted for receipt, any other is queued on the connection  *)
(* to the next hop.                                                        *)
(***************************************************************************)
ProcessSend(p, b) ==
    /\ Ready(p, b, "send")
    /\ LET m == NextEvent(p, b).msg
       IN IF m.dst = p
          THEN /\ Handled(p, b, <<>>, <<Recv(m)>>)
               /\ UNCHANGED channel
          ELSE /\ Handled(p, b, <<>>, <<>>)
               /\ channel' = [channel EXCEPT ![p][NextHop(p, m.dst)] = Append(@, m)]

(***************************************************************************)
(* scon_pt2pt_tcp_recv_handler: a message for us is posted for receipt, a  *)
(* message for someone else is sent on. At a member with one base this is  *)
(* the poll, which happens only between drains of the queue.               *)
(***************************************************************************)
Deliver(q, p) ==
    /\ channel[q][p] # <<>>
    /\ ~draining[p]
    /\ LET m == Head(channel[q][p])
           e == IF m.dst = p THEN Recv(m) ELSE Send(m)
       IN queue' = [queue EXCEPT ![p][pt2pt_evbase(p)] = Append(@, e)]
    /\ channel' = [channel EXCEPT ![q][p] = Tail(@)]
    /\ UNCHANGED draining

\* Everything sent and not yet handled by a receive callback.
InFlight ==
    (UNION {UNION {{queue[p][b][i].msg : i \in {j \in DOMAIN queue[p][b] :
                                                  queue[p][b][j].op \in {"send", "recv"}}}
                    : b \in Base} : p \in Proc})
    \cup (UNION {UNION {{channel[p][q][i] : i \in DOMAIN channel[p][q]} : q \in Proc} : p \in Proc})
=============================================================================
