--------------------------- MODULE TcpConnection ---------------------------
(***************************************************************************)
(* The TCP connection between two members, each of which may send to the   *)
(* other at any time: set-up from either end, the handshake, the choice    *)
(* between two simultaneous connections, and the send queue that waits     *)
(* meanwhile (mca/pt2pt/tcp: pt2pt_tcp_connection.c, pt2pt_tcp_sendrecv.c, *)
(* pt2pt_tcp.c, pt2pt_tcp_component.c).                                    *)
(*                                                                         *)
(* Every handler runs on the event base of the TCP module. A base polls    *)
(* its sockets, appends an event for each that is ready to its queue, and  *)
(* runs the queue, with what handlers and other threads add to it, until   *)
(* it is empty. A threaded member (the master, as built) has a thread for  *)
(* that base and runs base_process_send on another one.                    *)
(*                                                                         *)
(* A connection is a pair of streams of whole items: a connect-ack (Ident) *)
(* or a user's message, a number. connect() on a non-blocking TCP socket   *)
(* never completes at once, writes to a socket that is up do not fail, and *)
(* retry_delay has its default 0.                                          *)
(***************************************************************************)
EXTENDS Integers, SequencesExt, Picking

CONSTANTS
    Settings,        \* threaded: the members whose TCP module has its own thread;
                     \* refusals: bound on connection attempts the other host refuses;
                     \* resets: a close with data unread is seen as ECONNRESET
    Messages,        \* Messages[p]: how many messages p sends
    MaxConn          \* bound: sockets created

Proc == {0, 1}
Other(p) == 1 - p

ASSUME TcpAssumption ==
    /\ Settings \subseteq [threaded : SUBSET Proc, refusals : Nat, resets : BOOLEAN]
    /\ Messages \in [Proc -> Nat] /\ MaxConn \in Nat

MaxRetries == 2                  \* mca_pt2pt_tcp_component.max_retries
Ident == 0
NoSock == 0                      \* peer->sd < 0

VARIABLES
    setting,         \* which of the settings it is
    peer,            \* peer[p]: p's scon_pt2pt_tcp_peer_t for the other
    known,           \* known[p]: the other is in scon_pt2pt_base.peers
    queue,           \* queue[p]: active events of the TCP module's base
    draining,        \* draining[p]: that base has not polled since an event
    conns,           \* the sockets made by connecting, and who accepts them
    issued,          \* issued[p]: messages p's user has sent
    received,        \* received[p]: messages posted to p's base
    completed,       \* completed[p]: p's sends reported complete
    broken           \* broken[p]: p has aborted

net == <<conns, known, queue, draining>>
users == <<issued, received, completed>>
vars == <<setting, peer, net, users, broken>>

\* addrs: per address the number of retries, and whether its state is FAILED;
\* active: active_addr, 0 for NULL; sd: an index of conns; outq: send_msg, then
\* send_queue.
Address == [retries |-> 0, failed |-> FALSE]
NoPeer == [state |-> "NONE", sd |-> NoSock, send_ev |-> FALSE, recv_ev |-> FALSE,
           addrs |-> <<>>, active |-> 0, outq |-> <<>>]
Socket(p) == [from |-> p, est |-> "no", closed |-> [q \in Proc |-> FALSE],
              reset |-> FALSE, pending |-> TRUE, stream |-> [q \in Proc |-> <<>>]]
Ev(op, x) == [op |-> op, x |-> x]
Try == Ev("try", 0)
Lost == Ev("lost", 0)
SetModule == Ev("set_module", 0)

Init ==
    /\ setting \in Settings
    /\ peer = [p \in Proc |-> NoPeer]
    /\ known = [p \in Proc |-> FALSE]
    /\ queue = [p \in Proc |-> <<>>]
    /\ draining = [p \in Proc |-> FALSE]
    /\ conns = <<>>
    /\ issued = [p \in Proc |-> 0]
    /\ received = [p \in Proc |-> <<>>]
    /\ completed = [p \in Proc |-> <<>>]
    /\ broken = [p \in Proc |-> FALSE]

-----------------------------------------------------------------------------
(* Sockets. *)

\* p closes its end (close, CLOSE_THE_SOCKET); closing twice is harmless.
Closed(cs, c, p) ==
    IF c = NoSock THEN cs
    ELSE [cs EXCEPT ![c].closed[p] = TRUE,
                    ![c].reset = @ \/ (~cs[c].closed[p] /\ cs[c].stream[p] # <<>>)]

Written(cs, c, p, item) == [cs EXCEPT ![c].stream[Other(p)] = Append(@, item)]

\* What a read by p returns: the next item, the end of the stream, or an error.
ReadResults(c, p) ==
    IF setting.resets /\ conns[c].reset THEN {"error"} \cup (IF conns[c].stream[p] # <<>> THEN {"item"} ELSE {"end"})
    ELSE IF conns[c].stream[p] # <<>> THEN {"item"}
    ELSE IF conns[c].closed[Other(p)] THEN {"end"} ELSE {"none"}

\* The other host's listener answers a connection attempt, or refuses it.
Establish(c) ==
    /\ conns[c].est = "syn" /\ ~conns[c].closed[conns[c].from]
    /\ ~broken[Other(conns[c].from)]
    /\ \/ conns' = [conns EXCEPT ![c].est = "up"]
       \/ /\ Cardinality({d \in DOMAIN conns : conns[d].est = "refused"}) < setting.refusals
          /\ conns' = [conns EXCEPT ![c].est = "refused"]
    /\ UNCHANGED <<setting, peer, known, queue, draining, users, broken>>

-----------------------------------------------------------------------------
(* The event base. *)

\* The socket events that are ready at p.
ReadyEvents(p) ==
    LET pr == peer[p]
        mine == pr.sd # NoSock /\ ~conns[pr.sd].closed[p]
    IN (IF mine /\ pr.recv_ev /\ ReadResults(pr.sd, p) # {"none"}
        THEN {Ev("read", pr.sd)} ELSE {})
       \cup (IF mine /\ pr.send_ev /\ conns[pr.sd].est \in {"up", "refused"}
             THEN {Ev("write", pr.sd)} ELSE {})
       \cup {Ev("accept", c) : c \in {d \in DOMAIN conns :
                /\ conns[d].from # p /\ conns[d].est = "up" /\ conns[d].pending
                /\ ReadResults(d, p) # {"none"}}}

Poll(p) ==
    /\ ~broken[p] /\ ~draining[p] /\ ReadyEvents(p) # {}
    /\ \E evs \in SetToSeqs(ReadyEvents(p)) : queue' = [queue EXCEPT ![p] = @ \o evs]
    /\ draining' = [draining EXCEPT ![p] = TRUE]
    /\ conns' = [c \in DOMAIN conns |->
                    IF Ev("accept", c) \in ReadyEvents(p)
                    THEN [conns[c] EXCEPT !.pending = FALSE] ELSE conns[c]]
    /\ UNCHANGED <<setting, peer, known, users, broken>>

Runs(p, op) == ~broken[p] /\ queue[p] # <<>> /\ Head(queue[p]).op = op

\* An event that is no longer registered is no longer active.
Registered(pr, e) ==
    /\ e.op = "read" => pr.recv_ev /\ e.x = pr.sd
    /\ e.op = "write" => pr.send_ev /\ e.x = pr.sd
Active(pr, evs) == Picked(evs, {i \in DOMAIN evs : Registered(pr, evs[i])})

\* A handler returned, leaving the peer object `pr`, the sockets `cs` and the
\* events `evs` behind those that were active.
Returns(p, pr, cs, evs) ==
    LET left == Active(pr, Tail(queue[p])) \o evs
    IN /\ peer' = [peer EXCEPT ![p] = pr]
       /\ conns' = cs
       /\ queue' = [queue EXCEPT ![p] = left]
       /\ draining' = [draining EXCEPT ![p] = left # <<>>]

\* p follows a wild pointer; its kernel closes its sockets.
Aborts(p) ==
    /\ broken' = [broken EXCEPT ![p] = TRUE]
    /\ conns' = [c \in DOMAIN conns |-> Closed(conns, c, p)[c]]
    /\ UNCHANGED <<setting, peer, known, queue, draining, users>>

EventsOff(pr) == [pr EXCEPT !.send_ev = FALSE, !.recv_ev = FALSE]
EventsActive(pr) == pr.send_ev \/ pr.recv_ev
\* Mutant: the result of the comparison is not looked at.
OtherGreater_either(p) == TRUE
OtherGreater(p) == p = 0         \* the two differ in their rank only

-----------------------------------------------------------------------------
(* Sending. *)

\* What pt2pt_base_process_send and send_nb post to the TCP module: the contact
\* information of a hop that the base does not know, then the message.
Posts(p, m) ==
    IF known[p] THEN <<Ev("send", m)>> ELSE <<Ev("set_peer", 0), Ev("send", m)>>

\* scon_send_nb from the user's thread. The request waits in the queue of the
\* only base, or base_process_send runs on another one, among the TCP handlers.
UserSend(p) ==
    /\ ~broken[p] /\ issued[p] < Messages[p]
    /\ issued' = [issued EXCEPT ![p] = @ + 1]
    /\ IF p \in setting.threaded
       THEN /\ queue' = [queue EXCEPT ![p] = @ \o Posts(p, issued[p] + 1)]
            /\ known' = [known EXCEPT ![p] = TRUE]
       ELSE /\ queue' = [queue EXCEPT ![p] = Append(@, Ev("base_send", issued[p] + 1))]
            /\ UNCHANGED known
    /\ UNCHANGED <<setting, peer, conns, draining, received, completed, broken>>

BaseProcessSend(p) ==
    /\ Runs(p, "base_send")
    /\ Returns(p, peer[p], conns, Posts(p, Head(queue[p]).x))
    /\ known' = [known EXCEPT ![p] = TRUE]
    /\ UNCHANGED <<setting, users, broken>>

\* process_set_peer: a new peer is connected to at once; the address is added.
ProcessSetPeer(p) ==
    /\ Runs(p, "set_peer")
    /\ LET pr == [peer[p] EXCEPT !.addrs = Append(@, Address)]
       IN IF pr.state = "NONE"
          THEN Returns(p, [pr EXCEPT !.state = "CONNECTING"], conns, <<Try>>)
          ELSE Returns(p, pr, conns, <<>>)
    /\ UNCHANGED <<setting, known, users, broken>>

\* A connection is being made. Mutant: or rather, waits for its ack.
Waiting_ack(pr) == pr.state = "CONNECT_ACK"
Waiting(pr) == pr.state \in {"CONNECTING", "CONNECT_ACK"}

\* Mutant: it goes before the messages that wait.
Queued_first(pr, m) == [pr EXCEPT !.outq = <<m>> \o @]
\* SCON_PT2PT_TCP_QUEUE_MSG: a message goes behind those that wait.
Queued(pr, m) == [pr EXCEPT !.outq = Append(@, m)]

\* process_send: queue the message, and make sure something will send it. (The
\* peer exists: its set_peer is ahead in the queue, and it is never removed.)
ProcessSend(p) ==
    /\ Runs(p, "send")
    /\ LET pr == Queued(peer[p], Head(queue[p]).x)
       IN IF pr.state = "CONNECTED"
          THEN Returns(p, [pr EXCEPT !.send_ev = TRUE], conns, <<>>)
          ELSE IF Waiting(pr)
          THEN Returns(p, pr, conns, <<>>)
          ELSE Returns(p, [pr EXCEPT !.state = "CONNECTING"], conns, <<Try>>)
    /\ UNCHANGED <<setting, known, users, broken>>

-----------------------------------------------------------------------------
(* Connecting. *)

\* The active address, if there is one, is FAILED or not.
Marked(pr, failed) ==
    IF pr.active = 0 THEN pr.addrs ELSE [pr.addrs EXCEPT ![pr.active].failed = failed]

\* scon_pt2pt_tcp_peer_close: the next address is tried if we were CONNECTING;
\* otherwise the address is CLOSED, which lets it be tried again.
PeerClose(pr) ==
    IF pr.state = "CONNECTING"
    THEN [pr EXCEPT !.sd = NoSock, !.addrs = Marked(pr, TRUE)]
    ELSE [EventsOff(pr) EXCEPT !.sd = NoSock, !.addrs = Marked(pr, FALSE), !.state = "CLOSED"]

\* The first address that is neither down nor out of retries.
Usable(pr) == {a \in DOMAIN pr.addrs : ~pr.addrs[a].failed /\ pr.addrs[a].retries <= MaxRetries}

\* connect() starts on a new socket. On any other it fails, and so does every
\* address: the socket is connecting, connected or closed already.
Starts(cs, sd, p) == cs[sd].est = "no" /\ ~cs[sd].closed[p]

\* scon_pt2pt_tcp_peer_try_connect, after tcp_peer_create_socket and event_init:
\* connect to the first usable address, or give up and drop the queue.
TryConnect(p) ==
    /\ Runs(p, "try")
    /\ LET fresh == peer[p].sd = NoSock
           cs == IF fresh THEN Append(conns, Socket(p)) ELSE conns
           pr == IF fresh THEN [EventsOff(peer[p]) EXCEPT !.sd = Len(cs)] ELSE peer[p]
           usable == Usable(pr)
           tried(S) == [a \in DOMAIN pr.addrs |->
                           [pr.addrs[a] EXCEPT !.retries = @ + (IF a \in S THEN 1 ELSE 0)]]
       IN /\ Len(cs) <= MaxConn
          /\ IF usable # {} /\ Starts(cs, pr.sd, p)
             THEN Returns(p, [pr EXCEPT !.send_ev = TRUE, !.active = Min(usable),
                                        !.addrs = tried({Min(usable)})],
                          [cs EXCEPT ![pr.sd].est = "syn"], <<>>)
             ELSE Returns(p, [pr EXCEPT !.state = "FAILED", !.addrs = tried(usable),
                                        !.active = IF usable = {} THEN @ ELSE Max(usable),
                                        !.outq = SubSeq(@, 1, Min({1, Len(@)}))],
                          cs, <<Ev("failed", 0)>>)
    /\ UNCHANGED <<setting, known, users, broken>>

\* scon_pt2pt_tcp_send_handler, while connecting: complete_connect.
CompleteConnect(p) ==
    /\ Runs(p, "write") /\ peer[p].state \in {"CONNECTING", "CLOSED"}
    /\ LET pr == peer[p]
       IN IF conns[pr.sd].est = "up"
          THEN Returns(p, [pr EXCEPT !.state = "CONNECT_ACK", !.send_ev = FALSE, !.recv_ev = TRUE],
                       Written(conns, pr.sd, p, Ident), <<>>)
          ELSE Returns(p, [PeerClose(pr) EXCEPT !.send_ev = FALSE], Closed(conns, pr.sd, p),
                       IF pr.state = "CONNECTING" THEN <<Try>> ELSE <<Lost>>)
    /\ UNCHANGED <<setting, known, users, broken>>

\* scon_pt2pt_tcp_send_handler, connected: the message on deck is written.
WriteMessage(p) ==
    /\ Runs(p, "write") /\ peer[p].state = "CONNECTED"
    /\ LET pr == peer[p]
           m == Head(pr.outq)
       IN /\ Returns(p, [pr EXCEPT !.outq = Tail(@), !.send_ev = Len(pr.outq) > 1],
                     Written(conns, pr.sd, p, m), <<>>)
          /\ completed' = [completed EXCEPT ![p] = Append(@, m)]
    /\ UNCHANGED <<setting, known, issued, received, broken>>

\* ... and in any other state: the event is turned off.
WriteInvalid(p) ==
    /\ Runs(p, "write") /\ peer[p].state \notin {"CONNECTING", "CLOSED", "CONNECTED"}
    /\ Returns(p, [peer[p] EXCEPT !.send_ev = FALSE], conns, <<>>)
    /\ UNCHANGED <<setting, known, users, broken>>

\* Mutant: what was read is not consumed.
Taken_peeked(cs, c, p) == cs
Taken(cs, c, p) == [cs EXCEPT ![c].stream[p] = Tail(@)]

\* Mutant: nothing is sent before the next send.
Connected_idle(pr) == [pr EXCEPT !.state = "CONNECTED", !.recv_ev = TRUE]
\* tcp_peer_connected: pending messages can be written.
Connected(pr) ==
    [pr EXCEPT !.state = "CONNECTED", !.recv_ev = TRUE, !.send_ev = @ \/ pr.outq # <<>>,
               !.addrs = IF pr.active = 0 THEN @ ELSE [@ EXCEPT ![pr.active].retries = 0]]

(***************************************************************************)
(* scon_pt2pt_tcp_recv_handler, waiting for the connect-ack: the other     *)
(* side's identity, a header of another type, or its refusal (retry, not   *)
(* fatal): the lower rank steps aside, the higher one is left as it is.    *)
(* After an error, instead of the end of the stream, the socket is closed  *)
(* and peer->sd kept.                                                      *)
(***************************************************************************)
ReadConnectAck(p) ==
    /\ Runs(p, "read") /\ peer[p].state = "CONNECT_ACK"
    /\ LET pr == peer[p]
           aside(x) == IF OtherGreater(p) THEN [EventsOff(x) EXCEPT !.state = "UNCONNECTED"] ELSE x
       IN \E res \in ReadResults(pr.sd, p) :
            \/ /\ res = "item" /\ Head(conns[pr.sd].stream[p]) = Ident
               /\ Returns(p, Connected(pr), Taken(conns, pr.sd, p), <<SetModule>>)
            \/ /\ res = "item" /\ Head(conns[pr.sd].stream[p]) # Ident
               /\ Returns(p, PeerClose(pr), Closed(conns, pr.sd, p), <<Lost>>)
            \/ /\ res = "end"
               /\ Returns(p, aside(PeerClose(pr)), Closed(conns, pr.sd, p), <<Lost>>)
            \/ /\ res = "error"
               /\ Returns(p, aside(pr), Closed(conns, pr.sd, p), <<>>)
    /\ UNCHANGED <<setting, known, users, broken>>

\* ... connected: a message is posted to the base (whatever its type, so a
\* connect-ack is too), or the connection is over.
ReadMessage(p) ==
    /\ Runs(p, "read") /\ peer[p].state = "CONNECTED"
    /\ LET pr == peer[p]
       IN \E res \in ReadResults(pr.sd, p) :
            \/ /\ res = "item"
               /\ Returns(p, pr, Taken(conns, pr.sd, p), <<>>)
               /\ received' = [received EXCEPT ![p] = Append(@, Head(conns[pr.sd].stream[p]))]
            \/ /\ res \in {"end", "error"}
               /\ Returns(p, PeerClose(pr), Closed(conns, pr.sd, p), <<Lost>>)
               /\ UNCHANGED received
    /\ UNCHANGED <<setting, known, issued, completed, broken>>

\* ... and in any other state: nothing, so that the event fires again.
ReadInvalid(p) ==
    /\ Runs(p, "read") /\ peer[p].state \notin {"CONNECT_ACK", "CONNECTED"}
    /\ Returns(p, peer[p], conns, <<>>)
    /\ UNCHANGED <<setting, known, users, broken>>

(***************************************************************************)
(* recv_handler of pt2pt_tcp.c on an accepted socket, with                 *)
(* recv_connect_ack and peer_accept. When we are connected or connecting   *)
(* ourselves, the higher rank rejects the socket (retry, not fatal) and    *)
(* the lower rank gives up its own for it.                                 *)
(***************************************************************************)
Busy(pr) == pr.state \in {"CONNECTED", "CONNECTING", "CONNECT_ACK"}

\* The peer object to which an accepted socket is given.
Willing(p) ==
    LET pr == peer[p]
    IN IF pr.state = "NONE" THEN [pr EXCEPT !.state = "ACCEPTING"]
       ELSE IF Busy(pr) THEN [EventsOff(pr) EXCEPT !.state = "UNCONNECTED"] ELSE pr

Accept(p) ==
    /\ Runs(p, "accept")
    /\ LET c == Head(queue[p]).x
           rejected == Busy(peer[p]) /\ ~OtherGreater(p)
           given == IF Busy(peer[p]) THEN Closed(conns, peer[p].sd, p) ELSE conns
       IN \E res \in ReadResults(c, p) :
            \/ /\ res \in {"end", "error"} \/ rejected
               /\ Returns(p, peer[p], Closed(conns, c, p), <<>>)
            \/ /\ res = "item" /\ ~rejected
               /\ Returns(p, Connected([EventsOff(Willing(p)) EXCEPT !.sd = c]),
                          Written(Taken(given, c, p), c, p, Ident), <<SetModule>>)
    /\ UNCHANGED <<setting, known, users, broken>>

-----------------------------------------------------------------------------
(* The component's bookkeeping. *)

\* component_set_module, component_lost_connection.
ComponentKnows(p) ==
    /\ Runs(p, "set_module") \/ Runs(p, "lost")
    /\ known' = [known EXCEPT ![p] = Runs(p, "set_module")]
    /\ Returns(p, peer[p], conns, <<>>)
    /\ UNCHANGED <<setting, users, broken>>

\* component_failed_to_connect follows pop->scon, which nothing has set.
FailedToConnect(p) ==
    /\ Runs(p, "failed")
    /\ \/ Aborts(p)
       \/ /\ Returns(p, peer[p], conns, <<>>)
          /\ UNCHANGED <<setting, known, users, broken>>

Handler(p) ==
    \/ BaseProcessSend(p) \/ ProcessSetPeer(p) \/ ProcessSend(p)
    \/ TryConnect(p) \/ CompleteConnect(p) \/ WriteMessage(p) \/ WriteInvalid(p)
    \/ ReadConnectAck(p) \/ ReadMessage(p) \/ ReadInvalid(p) \/ Accept(p)
    \/ ComponentKnows(p) \/ FailedToConnect(p)

Next ==
    \/ \E p \in Proc : UserSend(p) \/ Poll(p) \/ Handler(p)
    \/ \E c \in DOMAIN conns : Establish(c)

Spec == Init /\ [][Next]_vars

\* Fairness: event bases run, and hosts answer connection attempts.
FairSpec ==
    /\ Spec
    /\ \A p \in Proc : WF_vars(UserSend(p)) /\ WF_vars(Poll(p)) /\ WF_vars(Handler(p))
    /\ \A c \in 1..MaxConn : WF_vars(c \in DOMAIN conns /\ Establish(c))
-----------------------------------------------------------------------------
States == {"NONE", "UNCONNECTED", "CONNECTING", "CONNECT_ACK", "ACCEPTING",
           "CONNECTED", "CLOSED", "FAILED"}
Addresses == [retries : 0..(MaxRetries + 1), failed : BOOLEAN]
Peers == [state : States, sd : Nat, send_ev : BOOLEAN, recv_ev : BOOLEAN,
          addrs : Seq(Addresses), active : Nat, outq : Seq(Nat)]
Sockets == [from : Proc, est : {"no", "syn", "up", "refused"}, closed : [Proc -> BOOLEAN],
            reset : BOOLEAN, pending : BOOLEAN, stream : [Proc -> Seq(Nat)]]
Events == [op : {"base_send", "set_peer", "send", "try", "read", "write", "accept",
                 "set_module", "lost", "failed"}, x : Nat]

TypeOK ==
    /\ setting \in Settings
    /\ peer \in [Proc -> Peers] /\ conns \in Seq(Sockets) /\ Len(conns) <= MaxConn
    /\ \A p \in Proc : peer[p].sd <= Len(conns) /\ peer[p].active <= Len(peer[p].addrs)
    /\ queue \in [Proc -> Seq(Events)] /\ received \in [Proc -> Seq(Nat)]
    /\ issued \in [Proc -> Nat] /\ completed \in [Proc -> Seq(Nat)]
    /\ \A p \in Proc : issued[p] <= Messages[p]
    /\ known \in [Proc -> BOOLEAN] /\ draining \in [Proc -> BOOLEAN]
    /\ broken \in [Proc -> BOOLEAN]

\* Two members that both believe themselves connected use the same connection,
\* whatever was refused, reset or given up before, and whoever has a thread.
ConnectionHolds ==
    /\ TypeOK
    /\ (\A p \in Proc : peer[p].state = "CONNECTED") => peer[0].sd = peer[1].sd

\* Even if connections are refused or reset and queues are dropped, what arrives
\* arrives once and in order: gaps, but no message twice and none overtaken,
\* whichever of the connections that were tried carries them. (A connect-ack may
\* be posted as if it were a message.)
NeverTwice == \A p \in Proc : \A i, j \in DOMAIN received[p] :
    i < j /\ received[p][i] # Ident /\ received[p][j] # Ident
        => received[p][i] < received[p][j]

\* Every attempt is answered, a close is read as the end of the stream, and
\* neither end has a thread of its own.
Calm == setting = [threaded |-> {}, refusals |-> 0, resets |-> FALSE]

\* All messages, and nothing else, are delivered in the order they were sent in.
InOrder == \A p \in Proc : \A i \in DOMAIN received[p] : received[p][i] = i

\* The places of message m of p: a queued send, the send queue, a connection, or
\* the base of the other.
Places(p, m) ==
    {<<"queue", i>> : i \in {j \in DOMAIN queue[p] : queue[p][j].op \in {"base_send", "send"}
                                                     /\ queue[p][j].x = m}}
    \cup {<<"outq", i>> : i \in {j \in DOMAIN peer[p].outq : peer[p].outq[j] = m}}
    \cup {<<"conn", c>> : c \in {d \in DOMAIN conns : m \in ToSet(conns[d].stream[Other(p)])}}
    \cup {<<"received", i>> : i \in {j \in DOMAIN received[Other(p)] : received[Other(p)][j] = m}}

\* No message is lost or doubled on the way, however often connections are
\* closed; one that is reported complete has left for good.
NothingLost == \A p \in Proc : \A m \in 1..issued[p] :
    /\ Cardinality(Places(p, m)) = 1
    /\ m \in ToSet(completed[p]) <=> \A pl \in Places(p, m) : pl[1] \in {"conn", "received"}

\* The assertion of tcp_peer_event_init, which a build may leave out, and the
\* active address that try_connect names when it gives up: a socket is set up
\* only when no event of an earlier one is registered, and never on an error
\* path without an address.
AssertionsHold == \A p \in Proc : ~broken[p] =>
    /\ Runs(p, "try") => \/ peer[p].sd # NoSock /\ Starts(conns, peer[p].sd, p)
                        \/ peer[p].active # 0 \/ Usable(peer[p]) # {}
    /\ Runs(p, "try") /\ peer[p].sd = NoSock => ~EventsActive(peer[p])
    /\ Runs(p, "accept") => Busy(peer[p]) \/ ~EventsActive(peer[p])

\* No member gives up on the other or aborts: every race of two connections is
\* settled between them ("We will let the higher ranked process retry - if I'm
\* the lower ranked process, I'll simply defer until I receive the request",
\* pt2pt_tcp_connection.c:736).
NobodyGivesUp == \A p \in Proc : peer[p].state # "FAILED" /\ ~broken[p]

\* Where nothing fails, messages are delivered in order and none is lost, no
\* assertion fails, and nobody gives up.
NothingGoesWrong == Calm => InOrder /\ NothingLost /\ AssertionsHold /\ NobodyGivesUp

\* ... and every message arrives.
EveryMessageArrives ==
    Calm => <>(\A p \in Proc : Len(received[Other(p)]) = Messages[p])
=============================================================================
