------------------------ MODULE TcpConnectionProofs ------------------------
(***************************************************************************)
(* However many sockets, messages, refusals and resets there are, and      *)
(* whoever has a thread: two members that are both connected share one     *)
(* socket, and no message arrives twice or overtakes another.              *)
(***************************************************************************)
EXTENDS TcpConnection, PickingProofs, SequenceTheorems, FiniteSetTheorems, TLAPS

-----------------------------------------------------------------------------
(* The operators of the model. *)

LEMMA OtherIs == \A p \in Proc : /\ Other(p) \in Proc /\ Other(p) # p /\ Other(Other(p)) = p
                                 /\ \A q \in Proc : q = p \/ q = Other(p)
BY DEF Proc, Other

\* The sockets ds are cs after p has closed c.
IsClosed(cs, c, p, ds) ==
    /\ ds \in Seq(Sockets) /\ Len(ds) = Len(cs)
    /\ \A d \in 1..Len(cs) :
        /\ ds[d].from = cs[d].from /\ ds[d].est = cs[d].est
        /\ ds[d].pending = cs[d].pending /\ ds[d].stream = cs[d].stream
        /\ ds[d].reset => cs[d].reset \/ d = c
        /\ \A q \in Proc : ds[d].closed[q] <=> cs[d].closed[q] \/ (d = c /\ q = p)
LEMMA ClosedIs ==
    ASSUME NEW cs \in Seq(Sockets), NEW c \in 0..Len(cs), NEW p \in Proc
    PROVE IsClosed(cs, c, p, Closed(cs, c, p))
<1>1. CASE c = 0
  BY <1>1 DEF Closed, NoSock, IsClosed
<1>2. CASE c # 0
  <2> DEFINE s == [cs[c] EXCEPT !.closed = [@ EXCEPT ![p] = TRUE],
                                !.reset = @ \/ (~cs[c].closed[p] /\ cs[c].stream[p] # <<>>)]
             ds == [cs EXCEPT ![c] = s]
  <2>1. c \in 1..Len(cs) /\ cs[c] \in Sockets
    BY <1>2
  <2>2. Closed(cs, c, p) = ds
    BY <1>2 DEF Closed, NoSock
  <2>3. s \in Sockets
    BY <2>1 DEF Sockets
  <2>4. /\ s.from = cs[c].from /\ s.est = cs[c].est /\ s.pending = cs[c].pending
        /\ s.stream = cs[c].stream
        /\ \A q \in Proc : s.closed[q] <=> cs[c].closed[q] \/ q = p
    BY <2>1 DEF Sockets
  <2> HIDE DEF s
  <2>5. ds \in Seq(Sockets) /\ Len(ds) = Len(cs) /\ \A d \in 1..Len(cs) : ds[d] = IF d = c THEN s ELSE cs[d]
    BY <2>1, <2>3
  <2> HIDE DEF ds
  <2> QED
    BY <2>1, <2>2, <2>4, <2>5 DEF IsClosed
<1> QED
  BY <1>1, <1>2

\* ... has written an item to c.
IsWritten(cs, c, p, item, ds) ==
    /\ ds \in Seq(Sockets) /\ Len(ds) = Len(cs)
    /\ \A d \in 1..Len(cs) :
        /\ ds[d].from = cs[d].from /\ ds[d].est = cs[d].est
        /\ ds[d].pending = cs[d].pending /\ ds[d].reset = cs[d].reset /\ ds[d].closed = cs[d].closed
        /\ \A q \in Proc : ds[d].stream[q] =
                IF d = c /\ q # p THEN Append(cs[d].stream[q], item) ELSE cs[d].stream[q]
LEMMA WrittenIs ==
    ASSUME NEW cs \in Seq(Sockets), NEW c \in 1..Len(cs), NEW p \in Proc, NEW item \in Nat
    PROVE IsWritten(cs, c, p, item, Written(cs, c, p, item))
<1> DEFINE q == Other(p)
           x == Append(cs[c].stream[q], item)
           s == [cs[c] EXCEPT !.stream = [@ EXCEPT ![q] = x]]
           ds == [cs EXCEPT ![c] = s]
<1>0. cs[c] \in Sockets /\ q \in Proc /\ \A r \in Proc : r = q <=> r # p
  BY OtherIs
<1>1. cs[c] \in Sockets /\ q \in Proc /\ (\A r \in Proc : r = q <=> r # p) /\ x \in Seq(Nat)
  <2>1. cs[c].stream[q] \in Seq(Nat)
    BY <1>0 DEF Sockets
  <2> QED
    BY <1>0, <2>1
<1>2. Written(cs, c, p, item) = ds
  BY DEF Written
<1>x. x = Append(cs[c].stream[q], item)
  OBVIOUS
<1> HIDE DEF x
<1>3. s \in Sockets
  BY <1>1 DEF Sockets
<1>4. /\ s.from = cs[c].from /\ s.est = cs[c].est /\ s.pending = cs[c].pending
      /\ s.closed = cs[c].closed /\ s.reset = cs[c].reset
      /\ \A r \in Proc : s.stream[r] = IF r # p THEN Append(cs[c].stream[r], item) ELSE cs[c].stream[r]
  BY <1>1, <1>x DEF Sockets
<1> HIDE DEF s
<1>5. ds \in Seq(Sockets) /\ Len(ds) = Len(cs) /\ \A d \in 1..Len(cs) : ds[d] = IF d = c THEN s ELSE cs[d]
  BY <1>1, <1>3
<1> HIDE DEF ds
<1> QED
  BY <1>1, <1>2, <1>4, <1>5 DEF IsWritten

\* ... has taken an item from c.
IsTaken(cs, c, p, ds) ==
    /\ ds \in Seq(Sockets) /\ Len(ds) = Len(cs)
    /\ \A d \in 1..Len(cs) :
        /\ ds[d].from = cs[d].from /\ ds[d].est = cs[d].est
        /\ ds[d].pending = cs[d].pending /\ ds[d].reset = cs[d].reset /\ ds[d].closed = cs[d].closed
        /\ \A q \in Proc : ds[d].stream[q] =
                IF d = c /\ q = p THEN Tail(cs[d].stream[q]) ELSE cs[d].stream[q]
LEMMA TakenIs ==
    ASSUME NEW cs \in Seq(Sockets), NEW c \in 1..Len(cs), NEW p \in Proc, cs[c].stream[p] # <<>>
    PROVE IsTaken(cs, c, p, Taken(cs, c, p))
<1> DEFINE x == Tail(cs[c].stream[p])
           s == [cs[c] EXCEPT !.stream = [@ EXCEPT ![p] = x]]
           ds == [cs EXCEPT ![c] = s]
<1>0. cs[c] \in Sockets
  OBVIOUS
<1>1. cs[c] \in Sockets /\ x \in Seq(Nat)
  <2>1. cs[c].stream[p] \in Seq(Nat)
    BY <1>0 DEF Sockets
  <2> QED
    BY <1>0, <2>1
<1>2. Taken(cs, c, p) = ds
  BY DEF Taken
<1>x. x = Tail(cs[c].stream[p])
  OBVIOUS
<1> HIDE DEF x
<1>3. s \in Sockets
  BY <1>1 DEF Sockets
<1>4. /\ s.from = cs[c].from /\ s.est = cs[c].est /\ s.pending = cs[c].pending
      /\ s.closed = cs[c].closed /\ s.reset = cs[c].reset
      /\ \A r \in Proc : s.stream[r] = IF r = p THEN Tail(cs[c].stream[r]) ELSE cs[c].stream[r]
  BY <1>1, <1>x DEF Sockets
<1> HIDE DEF s
<1>5. ds \in Seq(Sockets) /\ Len(ds) = Len(cs) /\ \A d \in 1..Len(cs) : ds[d] = IF d = c THEN s ELSE cs[d]
  BY <1>1, <1>3
<1> HIDE DEF ds
<1> QED
  BY <1>1, <1>2, <1>4, <1>5 DEF IsTaken

\* The queue that a handler leaves: e gives the places of those events that were
\* active, n of them, and stay so; behind them are the new ones.
IsLeft(q, pr, evs, left, n, e) ==
    /\ n \in Nat /\ Len(left) = n + Len(evs)
    /\ e \in [1..n -> 2..Len(q)]
    /\ \A i \in 1..n : left[i] = q[e[i]] /\ Registered(pr, left[i])
    /\ \A i, j \in 1..n : i < j => e[i] < e[j]
    /\ \A j \in 2..Len(q) : Registered(pr, q[j]) => \E i \in 1..n : e[i] = j
    /\ \A i \in 1..Len(evs) : left[n + i] = evs[i]

LEMMA LeftIs ==
    ASSUME NEW q \in Seq(Events), q # <<>>, NEW pr, NEW evs \in Seq(Events)
    PROVE LET left == Active(pr, Tail(q)) \o evs IN
          left \in Seq(Events) /\ \E n, e : IsLeft(q, pr, evs, left, n, e)
<1> DEFINE t == Tail(q)
           set == {i \in DOMAIN t : Registered(pr, t[i])}
           P == Active(pr, t)
           left == P \o evs
<1>1. t \in Seq(Events) /\ Len(t) = Len(q) - 1 /\ \A i \in 1..Len(t) : t[i] = q[i + 1]
  OBVIOUS
<1>2. Len(q) \in Nat /\ Len(t) \in Nat /\ DOMAIN t = 1..Len(t)
  BY <1>1
<1>3. P \in Seq(Events) /\ \E d : IsChoice(t, set, P, Len(t), d)
  <2> HIDE DEF set
  <2>1. P = Picked(t, set)
    BY DEF Active, set
  <2> HIDE DEF P
  <2> QED
    BY <1>1, <2>1, PickedPlaces
<1>4. PICK d : IsChoice(t, set, P, Len(t), d)
  BY <1>3
<1> DEFINE n == Len(P)
           e == [i \in 1..n |-> d[i] + 1]
<1> HIDE DEF P, t
<1>5. n \in Nat /\ d \in [1..n -> set \cap (1..Len(t))]
  BY <1>3, <1>4 DEF IsChoice
<1>6. e \in [1..n -> 2..Len(q)]
  BY <1>1, <1>2, <1>5
<1>7. left \in Seq(Events) /\ Len(left) = n + Len(evs)
      /\ (\A i \in 1..n : left[i] = P[i]) /\ \A i \in 1..Len(evs) : left[n + i] = evs[i]
  BY <1>3
<1>8. \A i \in 1..n : left[i] = q[e[i]] /\ Registered(pr, left[i])
  <2> TAKE i \in 1..n
  <2>1. P[i] = t[d[i]] /\ d[i] \in set /\ d[i] \in 1..Len(t)
    BY <1>4, <1>5 DEF IsChoice
  <2> QED
    BY <2>1, <1>1, <1>7
<1>9. \A i, j \in 1..n : i < j => e[i] < e[j]
  <2>1. \A i, j \in 1..n : i < j => d[i] < d[j]
    BY <1>4 DEF IsChoice
  <2>2. \A i \in 1..n : d[i] \in Int
    BY <1>2, <1>5
  <2> QED
    BY <2>1, <2>2
<1>10. \A j \in 2..Len(q) : Registered(pr, q[j]) => \E i \in 1..n : e[i] = j
  <2> SUFFICES ASSUME NEW j \in 2..Len(q), Registered(pr, q[j]) PROVE \E i \in 1..n : e[i] = j
    OBVIOUS
  <2>1. j - 1 \in 1..Len(t) /\ t[j - 1] = q[j]
    BY <1>1, <1>2
  <2>2. j - 1 \in set \cap (1..Len(t))
    BY <1>2, <2>1
  <2>3. PICK i \in 1..n : d[i] = j - 1
    BY <1>4, <2>2 DEF IsChoice
  <2> QED
    BY <2>3, <2>1, <1>2
<1>11. IsLeft(q, pr, evs, left, n, e)
  BY <1>5, <1>6, <1>7, <1>8, <1>9, <1>10 DEF IsLeft
<1> QED
  BY <1>7, <1>11 DEF P, t

-----------------------------------------------------------------------------
(* The inductive invariant. *)

SocketOps == {"read", "write", "accept"}
Has(p, op) == \E i \in DOMAIN queue[p] : queue[p][i].op = op

\* An event that is active is so of a socket that p uses and has not closed; an
\* accept event is of a socket that the other has made, up, and nobody has yet.
EventInv(p, e) ==
    /\ e.op \in SocketOps \cup {"try", "failed"} => draining[p]
    /\ e.op \in {"read", "write"} => /\ e.x # NoSock /\ Registered(peer[p], e)
                                     /\ ~broken[p] => ~conns[e.x].closed[p]
    /\ e.op = "write" => conns[e.x].est \in {"up", "refused"}
    /\ e.op = "accept" => /\ e.x \in DOMAIN conns /\ conns[e.x].from # p
                          /\ conns[e.x].est = "up" /\ ~conns[e.x].pending

\* A base has one event of a kind of a socket, and polls again only when the
\* attempts to connect are over, so that no socket event is behind one.
QueueAt(p) ==
    /\ \A i \in DOMAIN queue[p] : EventInv(p, queue[p][i])
    /\ \A i, j \in DOMAIN queue[p] :
        /\ queue[p][i].op \in SocketOps /\ queue[p][i] = queue[p][j] => i = j
        /\ queue[p][i].op \in {"try", "failed"} /\ queue[p][j].op \in SocketOps
              => queue[p][i].op = "try" /\ j < i
QueueInv == \A p \in Proc : QueueAt(p)

PeerAt(p) ==
    /\ peer[p].state \in {"CONNECTED", "CONNECT_ACK"}
          => peer[p].sd # NoSock /\ conns[peer[p].sd].est = "up"
    /\ peer[p].state = "CONNECT_ACK" => ~peer[p].send_ev
    /\ peer[p].state = "CONNECTED" /\ peer[p].send_ev => peer[p].outq # <<>>
PeerInv == \A p \in Proc : PeerAt(p)

\* The lower rank may find itself connected, and its attempt fail; but then it is
\* no longer connected when it aborts.
LowerInv ==
    /\ peer[0].state = "CONNECTED" => ~conns[peer[0].sd].closed[0]
    /\ Has(0, "failed") => peer[0].state \in {"FAILED", "CONNECTING"}

\* The higher rank never steps aside: what it has begun it brings to an end.
HigherInv ==
    /\ peer[1].state \notin {"UNCONNECTED", "ACCEPTING"}
    /\ peer[1].state \in {"NONE", "CLOSED"} => peer[1].sd = NoSock
    /\ peer[1].state = "FAILED" => peer[1].sd # NoSock /\ conns[peer[1].sd].est = "no"
    /\ peer[1].state \in {"FAILED", "CONNECTING", "CONNECT_ACK"} /\ peer[1].sd # NoSock
          => conns[peer[1].sd].from = 1
    /\ Has(1, "try") => /\ peer[1].state = "CONNECTING"
                        /\ peer[1].sd = NoSock \/ conns[peer[1].sd].est = "no"
    /\ peer[1].state = "CONNECTING" /\ ~Has(1, "try") => peer[1].sd # NoSock
    /\ \A i, j \in DOMAIN queue[1] : queue[1][i].op = "try" /\ queue[1][j].op = "try" => i = j

\* A socket that the side that did not make it has not accepted yet.
Waits(c) ==
    \/ conns[c].pending
    \/ \E i \in DOMAIN queue[Other(conns[c].from)] :
            queue[Other(conns[c].from)][i] = Ev("accept", c)

\* That side does not use it, and has written nothing to it; its maker is not
\* connected, and has written connect-acks only.
SocketAt(c) ==
    /\ conns[c].reset => conns[c].closed[0] \/ conns[c].closed[1]
    /\ conns[c].est # "up" => conns[c].pending /\ \A p \in Proc : conns[c].stream[p] = <<>>
    /\ Waits(c) =>
        LET f == conns[c].from
            o == Other(f)
        IN /\ peer[o].sd # c /\ conns[c].stream[f] = <<>>
           /\ ~broken[o] => ~conns[c].closed[o]
           /\ \A i \in DOMAIN conns[c].stream[o] : conns[c].stream[o][i] = Ident
           /\ ~(peer[f].state = "CONNECTED" /\ peer[f].sd = c)
SocketInv == \A c \in DOMAIN conns : SocketAt(c)

\* A socket that the higher rank has made stays its own until the lower has
\* closed it; on one that the lower has made, the higher is connected before the
\* lower can know. The higher rank's ack comes first.
ChoiceAt(c) ==
    /\ conns[c].from = 1 /\ conns[c].est = "syn" /\ ~conns[c].closed[1] => peer[1].sd = c
    /\ conns[c].from = 1 /\ conns[c].est = "up" /\ ~conns[c].closed[0] => peer[1].sd = c
    /\ conns[c].from = 0 /\ ~conns[c].closed[0]
       /\ (conns[c].stream[0] # <<>> \/ (peer[0].state = "CONNECTED" /\ peer[0].sd = c))
          => peer[1].state = "CONNECTED" /\ peer[1].sd = c
    /\ peer[1].state \in {"CONNECTING", "CONNECT_ACK"} /\ peer[1].sd = c
          => IF conns[c].stream[1] = <<>> THEN peer[0].sd # c ELSE Head(conns[c].stream[1]) = Ident
ChoiceInv == \A c \in DOMAIN conns : ChoiceAt(c)

ConnInv == TypeOK /\ QueueInv /\ PeerInv /\ LowerInv /\ HigherInv /\ SocketInv /\ ChoiceInv

\* Two members that are connected are so by one socket.
LEMMA OneSocket == ConnInv => ConnectionHolds
<1> SUFFICES ASSUME ConnInv, \A p \in Proc : peer[p].state = "CONNECTED"
             PROVE peer[0].sd = peer[1].sd
  BY DEF ConnInv, ConnectionHolds
<1>1. 0 \in Proc /\ 1 \in Proc
  BY DEF Proc
<1> DEFINE c == peer[0].sd
<1>2. c \in DOMAIN conns /\ conns[c].from \in {0, 1}
  <2>1. c # 0 /\ c \in Nat /\ c <= Len(conns) /\ conns \in Seq(Sockets)
    BY <1>1 DEF ConnInv, PeerInv, PeerAt, TypeOK, Peers, NoSock
  <2>2. c \in 1..Len(conns) /\ Len(conns) \in Nat
    BY <2>1
  <2>3. conns[c] \in Sockets /\ c \in DOMAIN conns
    BY <2>1, <2>2
  <2> QED
    BY <2>3 DEF Sockets, Proc
<1>3. conns[c].est = "up" /\ ~conns[c].closed[0]
  BY <1>1 DEF ConnInv, PeerInv, PeerAt, LowerInv
<1>4. CASE conns[c].from = 1
  BY <1>2, <1>3, <1>4 DEF ConnInv, ChoiceInv, ChoiceAt
<1>5. CASE conns[c].from = 0
  BY <1>1, <1>2, <1>3, <1>5 DEF ConnInv, ChoiceInv, ChoiceAt
<1> QED
  BY <1>2, <1>4, <1>5 DEF Proc

-----------------------------------------------------------------------------
(* What a handler does, for each part of the invariant. *)

\* No handler of p makes the sockets fewer, or opens one again, and the other's
\* ends are as they were.
Grows(p) ==
    /\ conns' \in Seq(Sockets) /\ Len(conns) <= Len(conns')
    /\ \A c \in 1..Len(conns) :
        /\ conns'[c].from = conns[c].from
        /\ conns[c].est \in {"up", "refused"} \/ conns[c].from # p
              => conns'[c].est = conns[c].est
        /\ conns'[c].pending => conns[c].pending
        /\ conns'[c].closed[Other(p)] = conns[c].closed[Other(p)]
        /\ conns[c].closed[p] => conns'[c].closed[p]

\* A handler of p leaves its peer object and new events.
Handles(p, pr, evs) ==
    /\ Returns(p, pr, conns', evs) /\ Grows(p)
    /\ queue[p] # <<>> /\ ~broken[p] /\ broken' = broken /\ setting' = setting
    /\ pr \in Peers /\ evs \in Seq(Events) /\ \A i \in DOMAIN evs : evs[i].op \notin SocketOps

\* The queue after the handler.
LEMMA Queues ==
    ASSUME TypeOK, NEW p \in Proc, NEW pr, NEW evs, Handles(p, pr, evs)
    PROVE /\ queue' \in [Proc -> Seq(Events)] /\ queue'[Other(p)] = queue[Other(p)]
          /\ draining' \in [Proc -> BOOLEAN] /\ draining'[Other(p)] = draining[Other(p)]
          /\ draining'[p] = (queue'[p] # <<>>)
          /\ peer' \in [Proc -> Peers] /\ peer'[p] = pr /\ peer'[Other(p)] = peer[Other(p)]
          /\ queue[p] = <<Head(queue[p])>> \o Tail(queue[p]) /\ queue[p][1] = Head(queue[p])
          /\ \E n, e : IsLeft(queue[p], pr, evs, queue'[p], n, e)
<1> DEFINE left == Active(pr, Tail(queue[p])) \o evs
<1>1. queue[p] \in Seq(Events) /\ queue[p] # <<>> /\ evs \in Seq(Events) /\ pr \in Peers
  BY DEF TypeOK, Handles
<1>2. left \in Seq(Events) /\ \E n, e : IsLeft(queue[p], pr, evs, left, n, e)
  BY <1>1, LeftIs
<1>3. /\ peer' = [peer EXCEPT ![p] = pr] /\ queue' = [queue EXCEPT ![p] = left]
      /\ draining' = [draining EXCEPT ![p] = left # <<>>]
  BY DEF Handles, Returns
<1> HIDE DEF left
<1>4. Other(p) \in Proc /\ Other(p) # p
  BY OtherIs
<1>5. queue'[p] = left /\ queue'[Other(p)] = queue[Other(p)] /\ queue' \in [Proc -> Seq(Events)]
  BY <1>2, <1>3, <1>4 DEF TypeOK
<1>6. /\ draining' \in [Proc -> BOOLEAN] /\ draining'[Other(p)] = draining[Other(p)]
      /\ draining'[p] = (left # <<>>)
  BY <1>3, <1>4 DEF TypeOK
<1>7. peer' \in [Proc -> Peers] /\ peer'[p] = pr /\ peer'[Other(p)] = peer[Other(p)]
  BY <1>1, <1>3, <1>4 DEF TypeOK
<1> QED
  BY <1>1, <1>2, <1>5, <1>6, <1>7

\* The events that were active stay sound if the socket of those that still are
\* registered is open; p fails to connect only when it has tried.
LEMMA QueueStep ==
    ASSUME TypeOK, QueueInv, NEW p \in Proc, NEW pr, NEW evs, Handles(p, pr, evs),
           \A i \in DOMAIN evs : evs[i].op = "failed" => Head(queue[p]).op = "try",
           \A j \in 2..Len(queue[p]) :
              queue[p][j].op \in {"read", "write"} /\ Registered(pr, queue[p][j])
                 => ~conns'[pr.sd].closed[p]
    PROVE QueueInv'
<1> DEFINE q == Other(p)
<1>1. /\ q \in Proc /\ q # p /\ \A r \in Proc : r = p \/ r = q
      /\ queue[p] \in Seq(Events) /\ queue[q] \in Seq(Events) /\ queue[p] # <<>>
      /\ conns \in Seq(Sockets) /\ conns' \in Seq(Sockets) /\ Len(conns) <= Len(conns')
      /\ evs \in Seq(Events) /\ \A i \in DOMAIN evs : evs[i].op \notin SocketOps
  BY OtherIs DEF TypeOK, Handles, Grows
<1>2. \A c \in 1..Len(conns) :
        /\ c \in 1..Len(conns')
        /\ conns'[c].from = conns[c].from
        /\ conns[c].est \in {"up", "refused"} => conns'[c].est = conns[c].est
        /\ conns'[c].pending => conns[c].pending
        /\ conns'[c].closed[q] = conns[c].closed[q]
  BY <1>1 DEF Handles, Grows
<1>3. PICK n, e : IsLeft(queue[p], pr, evs, queue'[p], n, e)
  BY Queues
<1>4. /\ queue'[q] = queue[q] /\ draining'[q] = draining[q] /\ peer'[q] = peer[q]
      /\ draining'[p] = (queue'[p] # <<>>) /\ peer'[p] = pr /\ queue'[p] \in Seq(Events)
      /\ broken' = broken
  BY Queues, <1>1 DEF Handles
<1>5. \A r \in Proc : \A i \in DOMAIN queue[r] :
        queue[r][i].op \in SocketOps => queue[r][i].x \in 1..Len(conns)
  <2> SUFFICES ASSUME NEW r \in Proc, NEW i \in DOMAIN queue[r], queue[r][i].op \in SocketOps
               PROVE queue[r][i].x \in 1..Len(conns)
    OBVIOUS
  <2>1. EventInv(r, queue[r][i]) /\ peer[r].sd \in Nat /\ peer[r].sd <= Len(conns)
    BY DEF QueueInv, QueueAt, TypeOK, Peers
  <2>2. CASE queue[r][i].op = "accept"
    BY <2>1, <2>2, <1>1 DEF EventInv
  <2>3. CASE queue[r][i].op \in {"read", "write"}
    BY <2>1, <2>3, <1>1 DEF EventInv, Registered, NoSock
  <2> QED
    BY <2>2, <2>3 DEF SocketOps
<1>6. QueueAt(q)'
  <2> SUFFICES ASSUME NEW i \in DOMAIN queue[q] PROVE EventInv(q, queue[q][i])'
    BY <1>1, <1>4 DEF QueueInv, QueueAt
  <2>1. EventInv(q, queue[q][i])
    BY <1>1 DEF QueueInv, QueueAt
  <2>2. queue[q][i].op \in SocketOps => queue[q][i].x \in 1..Len(conns)
    BY <1>1, <1>5
  <2>3. DOMAIN conns = 1..Len(conns) /\ DOMAIN conns' = 1..Len(conns')
    BY <1>1
  <2> QED
    BY <2>1, <2>2, <2>3, <1>2, <1>4 DEF EventInv, SocketOps
<1>7. \A i \in DOMAIN queue'[p] :
        \/ i \in 1..n /\ e[i] \in 2..Len(queue[p]) /\ e[i] \in DOMAIN queue[p]
              /\ queue'[p][i] = queue[p][e[i]] /\ Registered(pr, queue'[p][i])
        \/ i > n /\ i - n \in DOMAIN evs /\ queue'[p][i] = evs[i - n]
  <2> TAKE i \in DOMAIN queue'[p]
  <2>1. n \in Nat /\ Len(evs) \in Nat /\ Len(queue[p]) \in Nat
    BY <1>1, <1>3 DEF IsLeft
  <2>2. i \in 1..(n + Len(evs))
    BY <1>4, <1>3 DEF IsLeft
  <2>3. CASE i \in 1..n
    <3>1. e[i] \in 2..Len(queue[p]) /\ queue'[p][i] = queue[p][e[i]] /\ Registered(pr, queue'[p][i])
      BY <2>3, <1>3 DEF IsLeft
    <3> QED
      BY <2>1, <2>3, <3>1, <1>1
  <2>4. CASE i \notin 1..n
    <3>1. i > n /\ i - n \in 1..Len(evs) /\ i = n + (i - n)
      BY <2>1, <2>2, <2>4
    <3>2. queue'[p][n + (i - n)] = evs[i - n]
      BY <3>1, <1>3 DEF IsLeft
    <3> QED
      BY <3>1, <3>2, <1>1
  <2> QED
    BY <2>3, <2>4
<1>8. \A i \in DOMAIN queue'[p] : EventInv(p, queue[p][i])'
  <2> TAKE i \in DOMAIN queue'[p]
  <2>0. draining'[p]
    <3>1. queue'[p] # <<>>
      BY <1>4
    <3> QED
      BY <3>1, <1>4
  <2>1. CASE i > n /\ i - n \in DOMAIN evs /\ queue'[p][i] = evs[i - n]
    BY <2>0, <2>1, <1>1 DEF EventInv, SocketOps
  <2>2. CASE i \in 1..n /\ e[i] \in 2..Len(queue[p]) /\ e[i] \in DOMAIN queue[p]
              /\ queue'[p][i] = queue[p][e[i]] /\ Registered(pr, queue'[p][i])
    <3>1. EventInv(p, queue[p][e[i]])
      BY <2>2 DEF QueueInv, QueueAt
    <3>2. queue'[p][i].op \in SocketOps => queue'[p][i].x \in 1..Len(conns)
      BY <2>2, <1>5
    <3>3. DOMAIN conns = 1..Len(conns) /\ DOMAIN conns' = 1..Len(conns')
      BY <1>1
    <3>4. queue'[p][i].op \in {"read", "write"} => queue'[p][i].x = pr.sd /\ ~conns'[pr.sd].closed[p]
      BY <2>2 DEF Registered
    <3> DEFINE ev == queue[p][e[i]]
    <3>5. queue'[p][i] = ev
      BY SMTT(60), <2>2
    <3> HIDE DEF ev
    <3>6. ev.op \in {"read", "write"} => /\ ev.x # NoSock /\ Registered(peer'[p], ev)
                                        /\ ~conns'[ev.x].closed[p]
      BY <2>2, <3>1, <3>4, <3>5, <1>4 DEF EventInv, ev
    <3>7. ev.op = "write" => conns'[ev.x].est \in {"up", "refused"}
      BY <3>1, <3>2, <3>5, <1>2 DEF EventInv, SocketOps, ev
    <3>8. ev.op = "accept" => /\ ev.x \in DOMAIN conns' /\ conns'[ev.x].from # p
                              /\ conns'[ev.x].est = "up" /\ ~conns'[ev.x].pending
      BY <3>1, <3>2, <3>3, <3>5, <1>2 DEF EventInv, SocketOps, ev
    <3> QED
      BY <2>0, <3>5, <3>6, <3>7, <3>8 DEF EventInv
  <2> QED
    BY <2>1, <2>2, <1>7
<1>9. \A i, j \in DOMAIN queue'[p] :
        queue'[p][i].op \in SocketOps /\ queue'[p][i] = queue'[p][j] => i = j
  <2> SUFFICES ASSUME NEW i \in DOMAIN queue'[p], NEW j \in DOMAIN queue'[p],
                      queue'[p][i].op \in SocketOps, queue'[p][i] = queue'[p][j]
               PROVE i = j
    OBVIOUS
  <2>1. i \in 1..n /\ j \in 1..n /\ e[i] = e[j]
    <3>1. /\ i \in 1..n /\ e[i] \in DOMAIN queue[p] /\ queue'[p][i] = queue[p][e[i]]
          /\ j \in 1..n /\ e[j] \in DOMAIN queue[p] /\ queue'[p][j] = queue[p][e[j]]
      BY <1>1, <1>7
    <3> QED
      BY <3>1 DEF QueueInv, QueueAt
  <2>2. n \in Nat /\ e[i] \in 2..Len(queue[p]) /\ \A k, l \in 1..n : k < l => e[k] < e[l]
    BY <2>1, <1>3 DEF IsLeft
  <2>3. ~(i < j) /\ ~(j < i)
    BY <2>1, <2>2
  <2> QED
    BY <2>1, <2>2, <2>3
<1>10. \A i, j \in DOMAIN queue'[p] :
        queue'[p][i].op \in {"try", "failed"} /\ queue'[p][j].op \in SocketOps
          => queue'[p][i].op = "try" /\ j < i
  <2> SUFFICES ASSUME NEW i \in DOMAIN queue'[p], NEW j \in DOMAIN queue'[p],
                      queue'[p][i].op \in {"try", "failed"}, queue'[p][j].op \in SocketOps
               PROVE queue'[p][i].op = "try" /\ j < i
    OBVIOUS
  <2>1. /\ j \in 1..n /\ e[j] \in DOMAIN queue[p] /\ e[j] \in 2..Len(queue[p])
        /\ queue'[p][j] = queue[p][e[j]]
    BY <1>1, <1>7
  <2>2. CASE i \in 1..n /\ e[i] \in DOMAIN queue[p] /\ queue'[p][i] = queue[p][e[i]]
    <3>1. queue'[p][i].op = "try" /\ e[j] < e[i]
      BY <2>1, <2>2 DEF QueueInv, QueueAt
    <3>2. i # j /\ (i < j => e[i] < e[j]) /\ n \in Nat /\ e[i] \in Int /\ e[j] \in Int
      BY <2>1, <2>2, <3>1, <1>3 DEF IsLeft
    <3> QED
      BY <2>1, <2>2, <3>1, <3>2
  <2>3. CASE i > n /\ i - n \in DOMAIN evs /\ queue'[p][i] = evs[i - n]
    <3>1. queue'[p][i].op = "failed" => Head(queue[p]).op = "try" /\ 1 \in DOMAIN queue[p] /\ Head(queue[p]) = queue[p][1]
      BY <2>3, <1>1
    <3>2. queue'[p][i].op # "failed"
      <4> SUFFICES ASSUME queue'[p][i].op = "failed" PROVE FALSE
        OBVIOUS
      <4>1. e[j] < 1
        BY <2>1, <3>1 DEF QueueInv, QueueAt
      <4> QED
        BY <4>1, <2>1
    <3>3. n \in Nat /\ i \in Nat
      BY <1>3, <1>4 DEF IsLeft
    <3> QED
      BY <2>1, <2>3, <3>2, <3>3
  <2> QED
    BY <2>2, <2>3, <1>7
<1>11. QueueAt(p)'
  BY <1>8, <1>9, <1>10 DEF QueueAt
<1> QED
  BY <1>1, <1>6, <1>11 DEF QueueInv

LEMMA TypeStep ==
    ASSUME TypeOK, NEW p \in Proc, NEW pr, NEW evs, Handles(p, pr, evs), Len(conns') <= MaxConn,
           pr.sd <= Len(conns'), pr.active <= Len(pr.addrs), known' \in [Proc -> BOOLEAN],
           received' \in [Proc -> Seq(Nat)], completed' \in [Proc -> Seq(Nat)], issued' = issued
    PROVE TypeOK'
<1>1. /\ queue' \in [Proc -> Seq(Events)] /\ draining' \in [Proc -> BOOLEAN]
      /\ peer' \in [Proc -> Peers] /\ peer'[p] = pr /\ peer'[Other(p)] = peer[Other(p)]
  BY Queues
<1>2. conns \in Seq(Sockets) /\ conns' \in Seq(Sockets) /\ Len(conns) <= Len(conns')
  BY DEF TypeOK, Handles, Grows
<1>3. \A r \in Proc : peer'[r].sd <= Len(conns') /\ peer'[r].active <= Len(peer'[r].addrs)
  <2> TAKE r \in Proc
  <2>1. CASE r = p
    BY <2>1, <1>1
  <2>2. CASE r = Other(p)
    <3>1. peer'[r] = peer[r]
      BY <2>2, <1>1
    <3>2. peer[r] \in Peers /\ peer[r].sd <= Len(conns) /\ peer[r].active <= Len(peer[r].addrs)
      BY DEF TypeOK
    <3>3. peer[r].sd \in Nat /\ Len(conns) \in Nat /\ Len(conns') \in Nat
      BY <3>2, <1>2 DEF Peers
    <3> QED
      BY <3>1, <3>2, <3>3, <1>2
  <2> QED
    BY <2>1, <2>2, OtherIs
<1> QED
  BY <1>1, <1>2, <1>3 DEF TypeOK, Handles

\* Which events other than those of sockets there are: those behind the head, and
\* the new ones.
LEMMA HasStep ==
    ASSUME TypeOK, NEW p \in Proc, NEW pr, NEW evs, Handles(p, pr, evs),
           NEW op, op \notin {"read", "write"}
    PROVE /\ Has(p, op)' <=> \/ \E j \in 2..Len(queue[p]) : queue[p][j].op = op
                             \/ \E k \in DOMAIN evs : evs[k].op = op
          /\ Has(Other(p), op)' <=> Has(Other(p), op)
<1>1. queue'[Other(p)] = queue[Other(p)] /\ queue' \in [Proc -> Seq(Events)]
  BY Queues
<1>2. PICK n, e : IsLeft(queue[p], pr, evs, queue'[p], n, e)
  BY Queues
<1>3. queue'[p] \in Seq(Events) /\ evs \in Seq(Events) /\ n \in Nat /\ Len(queue'[p]) = n + Len(evs)
  BY <1>1, <1>2 DEF Handles, IsLeft
<1>4. ASSUME NEW i \in DOMAIN queue'[p], queue'[p][i].op = op
      PROVE \/ \E j \in 2..Len(queue[p]) : queue[p][j].op = op
            \/ \E k \in DOMAIN evs : evs[k].op = op
  <2>1. CASE i \in 1..n
    <3>1. e[i] \in 2..Len(queue[p]) /\ queue'[p][i] = queue[p][e[i]]
      BY <2>1, <1>2 DEF IsLeft
    <3> QED
      BY <3>1, <1>4
  <2>2. CASE i \notin 1..n
    <3>1. i - n \in 1..Len(evs) /\ i = n + (i - n)
      BY <2>2, <1>3
    <3>2. queue'[p][n + (i - n)] = evs[i - n]
      BY <3>1, <1>2 DEF IsLeft
    <3> QED
      BY <3>1, <3>2, <1>3, <1>4
  <2> QED
    BY <2>1, <2>2
<1>5. ASSUME NEW j \in 2..Len(queue[p]), queue[p][j].op = op PROVE Has(p, op)'
  <2>1. Registered(pr, queue[p][j])
    BY <1>5 DEF Registered
  <2>2. PICK i \in 1..n : e[i] = j
    BY <2>1, <1>2 DEF IsLeft
  <2>3. queue'[p][i] = queue[p][j]
    BY <2>2, <1>2 DEF IsLeft
  <2>4. i \in DOMAIN queue'[p]
    BY <1>3
  <2> QED
    BY <2>3, <2>4, <1>5 DEF Has
<1>6. ASSUME NEW k \in DOMAIN evs, evs[k].op = op PROVE Has(p, op)'
  <2>1. k \in 1..Len(evs) /\ Len(evs) \in Nat
    BY <1>3
  <2>2. queue'[p][n + k] = evs[k]
    BY <2>1, <1>2 DEF IsLeft
  <2>3. n + k \in DOMAIN queue'[p]
    BY <2>1, <1>3
  <2> QED
    BY <2>2, <2>3, <1>6 DEF Has
<1>7. Has(Other(p), op)' <=> Has(Other(p), op)
  BY <1>1 DEF Has
<1>8. Has(p, op)' => \/ \E j \in 2..Len(queue[p]) : queue[p][j].op = op
                     \/ \E k \in DOMAIN evs : evs[k].op = op
  BY <1>4 DEF Has
<1> QED
  BY <1>5, <1>6, <1>7, <1>8

\* No socket begins to wait to be accepted, and the one at the head of the queue
\* no longer does.
LEMMA WaitsStep ==
    ASSUME TypeOK, QueueInv, NEW p \in Proc, NEW pr, NEW evs, Handles(p, pr, evs),
           NEW c \in DOMAIN conns, Waits(c)'
    PROVE Waits(c) /\ Head(queue[p]) # Ev("accept", c)
<1> DEFINE o == Other(conns[c].from)
           a == Ev("accept", c)
<1>1. conns \in Seq(Sockets) /\ conns[c] \in Sockets /\ c \in 1..Len(conns)
  BY DEF TypeOK
<1>2. conns[c].from \in Proc /\ o \in Proc /\ conns'[c].from = conns[c].from
      /\ (conns'[c].pending => conns[c].pending)
  BY <1>1, OtherIs DEF Sockets, Handles, Grows
<1>3. queue[p] \in Seq(Events) /\ queue[p] # <<>> /\ Head(queue[p]) = queue[p][1] /\ 1 \in DOMAIN queue[p]
  BY DEF TypeOK, Handles
<1>4. a.op = "accept" /\ a.x = c
  BY DEF Ev
<1>5. CASE conns[c].pending
  BY <1>1, <1>3, <1>4, <1>5 DEF Waits, QueueInv, QueueAt, EventInv
<1>6. CASE ~conns[c].pending
  <2>1. PICK i \in DOMAIN queue'[o] : queue'[o][i] = a
    BY <1>2, <1>6 DEF Waits
  <2>2. CASE o = p
    <3>1. PICK n, e : IsLeft(queue[p], pr, evs, queue'[p], n, e)
      BY Queues
    <3>2. /\ queue'[p] \in Seq(Events) /\ evs \in Seq(Events) /\ n \in Nat
          /\ Len(queue'[p]) = n + Len(evs) /\ Len(queue[p]) \in Nat
      <4>1. queue' \in [Proc -> Seq(Events)]
        BY Queues
      <4>2. evs \in Seq(Events)
        BY DEF Handles
      <4> QED
        BY <4>1, <4>2, <3>1, <1>3 DEF IsLeft
    <3>3. i \in 1..n
      <4> SUFFICES ASSUME i \notin 1..n PROVE FALSE
        OBVIOUS
      <4>1. i - n \in 1..Len(evs) /\ i = n + (i - n) /\ i - n \in DOMAIN evs
        BY <2>1, <2>2, <3>2
      <4>2. queue'[p][n + (i - n)] = evs[i - n]
        BY <4>1, <3>1 DEF IsLeft
      <4> QED
        BY <4>1, <4>2, <2>1, <2>2, <1>4 DEF Handles, SocketOps
    <3>4. e[i] \in 2..Len(queue[p]) /\ queue[p][e[i]] = a
      BY <3>1, <3>3, <2>1, <2>2 DEF IsLeft
    <3>5. e[i] \in DOMAIN queue[p] /\ e[i] # 1
      BY <3>2, <3>4, <1>3
    <3>6. Waits(c)
      BY <3>4, <3>5, <2>2 DEF Waits
    <3>7. queue[p][1] # a
      BY <3>4, <3>5, <1>3, <1>4 DEF QueueInv, QueueAt, SocketOps
    <3> QED
      BY <3>6, <3>7, <1>3
  <2>3. CASE o # p
    <3>1. queue'[o] = queue[o]
      <4>1. o = Other(p)
        BY <2>3, <1>2, OtherIs
      <4>2. queue'[Other(p)] = queue[Other(p)]
        BY Queues
      <4> HIDE DEF o
      <4> QED
        BY <4>1, <4>2
    <3>2. Waits(c)
      BY <2>1, <3>1 DEF Waits
    <3>3. Head(queue[p]) # a
      <4> SUFFICES ASSUME queue[p][1] = a PROVE FALSE
        BY <1>3
      <4>1. conns[c].from # p
        BY <1>3, <1>4 DEF QueueInv, QueueAt, EventInv
      <4> QED
        BY <4>1, <1>2, <2>3, OtherIs
    <3> QED
      BY <3>2, <3>3
  <2> QED
    BY <2>2, <2>3
<1> QED
  BY <1>5, <1>6

\* What a handler of p leaves of the other member.
LEMMA OtherStep ==
    ASSUME ConnInv, NEW p \in Proc, NEW pr, NEW evs, Handles(p, pr, evs)
    PROVE PeerAt(Other(p))' /\ (p = 0 => HigherInv') /\ (p = 1 => LowerInv')
<1> DEFINE q == Other(p)
<1>1. q \in Proc /\ q # p /\ peer'[q] = peer[q] /\ queue'[q] = queue[q]
  BY Queues, OtherIs DEF ConnInv
<1>2. /\ conns \in Seq(Sockets) /\ peer[q].sd \in Nat /\ peer[q].sd <= Len(conns)
      /\ peer[q].sd # NoSock => peer[q].sd \in 1..Len(conns)
  <2>1. conns \in Seq(Sockets) /\ peer[q] \in Peers /\ peer[q].sd <= Len(conns)
    BY <1>1 DEF ConnInv, TypeOK
  <2>2. peer[q].sd \in Nat
    BY <2>1 DEF Peers
  <2> QED
    BY <2>1, <2>2 DEF NoSock
<1>3. \A c \in 1..Len(conns) :
        /\ conns'[c].from = conns[c].from
        /\ conns[c].est = "up" \/ conns[c].from # p => conns'[c].est = conns[c].est
        /\ conns'[c].closed[q] = conns[c].closed[q]
  BY DEF Handles, Grows
<1>4. PeerAt(q)'
  BY <1>1, <1>2, <1>3 DEF ConnInv, PeerInv, PeerAt
<1>5. ASSUME p = 0 PROVE HigherInv'
  <2>1. q = 1
    BY <1>5 DEF Other
  <2> HIDE DEF q
  <2>2. Has(1, "try")' <=> Has(1, "try")
    BY <1>1, <2>1 DEF Has
  <2>3. peer[1].sd # NoSock /\ peer[1].state \in {"FAILED", "CONNECTING", "CONNECT_ACK"}
          => conns'[peer[1].sd].from = 1 /\ conns'[peer[1].sd].est = conns[peer[1].sd].est
    BY <1>1, <1>2, <1>3, <1>5, <2>1 DEF ConnInv, HigherInv
  <2> QED
    BY <1>1, <2>1, <2>2, <2>3 DEF ConnInv, HigherInv
<1>6. ASSUME p = 1 PROVE LowerInv'
  <2>1. q = 0
    BY <1>6 DEF Other
  <2> HIDE DEF q
  <2>2. Has(0, "failed")' <=> Has(0, "failed")
    BY <1>1, <2>1 DEF Has
  <2>3. peer[0].state = "CONNECTED" => peer[0].sd \in 1..Len(conns)
    BY <1>1, <1>2, <2>1 DEF ConnInv, PeerInv, PeerAt
  <2> QED
    BY <1>1, <1>3, <2>1, <2>2, <2>3 DEF ConnInv, LowerInv
<1> QED
  BY <1>4, <1>5, <1>6

\* There is still one attempt at most if there was and p makes none, or if there
\* was none behind the head.
OneTry(p) == \A i, j \in DOMAIN queue[p] : queue[p][i].op = "try" /\ queue[p][j].op = "try" => i = j
LEMMA OneTryStep ==
    ASSUME TypeOK, NEW p \in Proc, NEW pr, NEW evs, Handles(p, pr, evs), OneTry(p),
           \/ \A k \in DOMAIN evs : evs[k].op # "try"
           \/ Len(evs) <= 1 /\ \A j \in 2..Len(queue[p]) : queue[p][j].op # "try"
    PROVE OneTry(p)'
<1>1. PICK n, e : IsLeft(queue[p], pr, evs, queue'[p], n, e)
  BY Queues
<1>2. queue' \in [Proc -> Seq(Events)] /\ evs \in Seq(Events) /\ queue[p] \in Seq(Events)
  BY Queues DEF Handles, TypeOK
<1>3. n \in Nat /\ Len(queue'[p]) = n + Len(evs) /\ Len(evs) \in Nat
  BY <1>1, <1>2 DEF IsLeft
<1> SUFFICES ASSUME NEW i \in DOMAIN queue'[p], NEW j \in DOMAIN queue'[p],
                    queue'[p][i].op = "try", queue'[p][j].op = "try"
             PROVE i = j
  BY DEF OneTry
<1>4. \A k \in DOMAIN queue'[p] :
         \/ k \in 1..n /\ e[k] \in 2..Len(queue[p]) /\ e[k] \in DOMAIN queue[p]
               /\ queue'[p][k] = queue[p][e[k]]
         \/ k > n /\ k \in Nat /\ k - n \in DOMAIN evs /\ k - n <= Len(evs) /\ queue'[p][k] = evs[k - n]
  <2> TAKE k \in DOMAIN queue'[p]
  <2>1. CASE k \in 1..n
    <3>1. e[k] \in 2..Len(queue[p]) /\ queue'[p][k] = queue[p][e[k]]
      BY <2>1, <1>1 DEF IsLeft
    <3> QED
      BY <2>1, <3>1, <1>2
  <2>2. CASE k \notin 1..n
    <3>1. k > n /\ k \in Nat /\ k - n \in 1..Len(evs) /\ k = n + (k - n)
      BY <2>2, <1>2, <1>3
    <3>2. queue'[p][n + (k - n)] = evs[k - n]
      BY <3>1, <1>1 DEF IsLeft
    <3> QED
      BY <3>1, <3>2, <1>2
  <2> QED
    BY <2>1, <2>2
<1>5. CASE \A k \in DOMAIN evs : evs[k].op # "try"
  <2>1. i \in 1..n /\ j \in 1..n /\ e[i] = e[j]
    BY <1>4, <1>5 DEF OneTry
  <2>2. e[i] \in 2..Len(queue[p]) /\ \A k, l \in 1..n : k < l => e[k] < e[l]
    BY <1>1, <2>1 DEF IsLeft
  <2>3. ~(i < j) /\ ~(j < i)
    BY <2>1, <2>2
  <2> QED
    BY <2>1, <2>3, <1>3
<1>6. CASE Len(evs) <= 1 /\ \A k \in 2..Len(queue[p]) : queue[p][k].op # "try"
  <2>1. i > n /\ j > n /\ i \in Nat /\ j \in Nat /\ i - n <= 1 /\ j - n <= 1
    <3>1. \A k \in DOMAIN queue'[p] : queue'[p][k].op = "try"
              => k > n /\ k \in Nat /\ k - n <= Len(evs)
      BY <1>4, <1>6
    <3> QED
      BY SMTT(60), <3>1, <1>3, <1>6
  <2> QED
    BY <2>1, <1>3
<1> QED
  BY <1>5, <1>6

\* A handler that leaves the sockets alone, and at most begins to connect.
LEMMA IdleStep ==
    ASSUME ConnInv, NEW p \in Proc, NEW pr, NEW evs, Handles(p, pr, evs), conns' = conns,
           pr.sd = peer[p].sd, Head(queue[p]).op # "try",
           pr.state = "CONNECT_ACK" => ~pr.send_ev,
           pr.state = "CONNECTED" /\ pr.send_ev => pr.outq # <<>>,
           \A i \in DOMAIN evs : evs[i].op # "failed",
           \/ pr.state = peer[p].state /\ \A i \in DOMAIN evs : evs[i].op # "try"
           \/ peer[p].state \notin {"CONNECTED", "CONNECTING", "CONNECT_ACK"}
              /\ pr.state = "CONNECTING" /\ evs = <<Try>>
    PROVE QueueInv' /\ PeerInv' /\ LowerInv' /\ HigherInv' /\ SocketInv' /\ ChoiceInv'
<1> DEFINE q == Other(p)
<1>1. /\ q \in Proc /\ q # p /\ peer'[q] = peer[q] /\ peer'[p] = pr /\ \A r \in Proc : r = p \/ r = q
      /\ queue[p] \in Seq(Events) /\ queue[p] # <<>> /\ ~broken[p] /\ broken' = broken
      /\ conns \in Seq(Sockets)
  <2>1. peer'[q] = peer[q] /\ peer'[p] = pr
    BY Queues DEF ConnInv
  <2>2. queue[p] \in Seq(Events) /\ queue[p] # <<>> /\ ~broken[p] /\ broken' = broken
        /\ conns \in Seq(Sockets)
    BY DEF ConnInv, TypeOK, Handles
  <2> QED
    BY <2>1, <2>2, OtherIs
<1>2. QueueInv'
  <2>1. ASSUME NEW j \in 2..Len(queue[p]), queue[p][j].op \in {"read", "write"}
        PROVE ~conns'[pr.sd].closed[p]
    <3>1. EventInv(p, queue[p][j])
      BY <1>1 DEF ConnInv, QueueInv, QueueAt
    <3> QED
      BY <3>1, <2>1, <1>1 DEF EventInv, Registered
  <2> QED
    BY <2>1, QueueStep DEF ConnInv
<1>3. PeerInv'
  <2>1. PeerAt(q)'
    BY OtherStep
  <2>2. PeerAt(p)'
    BY <1>1 DEF ConnInv, PeerInv, PeerAt
  <2> QED
    BY <1>1, <2>1, <2>2 DEF PeerInv
<1>4. LowerInv'
  <2>1. CASE p = 1
    BY <2>1, OtherStep
  <2>2. CASE p = 0
    <3>1. Has(0, "failed")' => Has(0, "failed")
      <4>1. Has(0, "failed")' => \E j \in 2..Len(queue[0]) : queue[0][j].op = "failed"
        BY <2>2, HasStep DEF ConnInv
      <4> QED
        BY <4>1, <2>2, <1>1 DEF Has
    <3> QED
      BY <3>1, <2>2, <1>1 DEF ConnInv, LowerInv
  <2> QED
    BY <2>1, <2>2 DEF Proc
<1>5. HigherInv'
  <2>1. CASE p = 0
    BY <2>1, OtherStep
  <2>2. CASE p = 1
    <3>1. Has(1, "try")' <=> Has(1, "try") \/ \E k \in DOMAIN evs : evs[k].op = "try"
      <4>1. Has(1, "try")' <=> \/ \E j \in 2..Len(queue[1]) : queue[1][j].op = "try"
                               \/ \E k \in DOMAIN evs : evs[k].op = "try"
        BY <2>2, HasStep DEF ConnInv
      <4>2. (\E j \in 2..Len(queue[1]) : queue[1][j].op = "try") <=> Has(1, "try")
        <5>1. Head(queue[1]) = queue[1][1] /\ DOMAIN queue[1] = 1..Len(queue[1]) /\ Len(queue[1]) \in Nat
          BY <2>2, <1>1
        <5> QED
          BY <2>2, <5>1 DEF Has
      <4> QED
        BY <4>1, <4>2
    <3>2. CASE pr.state = peer[1].state /\ \A i \in DOMAIN evs : evs[i].op # "try"
      <4>1. OneTry(1)'
        BY <2>2, <3>2, OneTryStep DEF ConnInv, HigherInv, OneTry
      <4> QED
        BY <2>2, <3>1, <3>2, <4>1, <1>1 DEF ConnInv, HigherInv, OneTry
    <3>3. CASE /\ peer[1].state \notin {"CONNECTED", "CONNECTING", "CONNECT_ACK"}
               /\ pr.state = "CONNECTING" /\ evs = <<Try>>
      <4>1. ~Has(1, "try") /\ OneTry(1)
        BY <3>3 DEF ConnInv, HigherInv, OneTry
      <4>2. Len(evs) <= 1 /\ 1 \in DOMAIN evs /\ evs[1].op = "try"
        BY <3>3 DEF Try, Ev
      <4>3. OneTry(1)'
        <5>1. \A j \in 2..Len(queue[1]) : queue[1][j].op # "try"
          BY <4>1, <1>1, <2>2 DEF Has
        <5> QED
          BY <2>2, <4>1, <4>2, <5>1, OneTryStep DEF ConnInv
      <4>4. peer[1] \in Peers
        BY <1>1, <2>2 DEF ConnInv, TypeOK
      <4> QED
        BY <2>2, <3>1, <3>3, <4>1, <4>2, <4>3, <4>4, <1>1 DEF ConnInv, HigherInv, OneTry, Peers, States
    <3> QED
      BY <2>2, <3>2, <3>3
  <2> QED
    BY <2>1, <2>2 DEF Proc
<1>6. \A r \in Proc : /\ peer'[r].sd = peer[r].sd
                      /\ peer'[r].state = "CONNECTED" <=> peer[r].state = "CONNECTED"
  BY <1>1
<1>7. SocketInv'
  <2> SUFFICES ASSUME NEW c \in DOMAIN conns PROVE SocketAt(c)'
    BY DEF SocketInv
  <2>1. Waits(c)' => Waits(c)
    BY WaitsStep DEF ConnInv
  <2>2. SocketAt(c)
    BY DEF ConnInv, SocketInv
  <2>3. conns[c] \in Sockets
    BY <1>1
  <2>4. conns[c].from \in Proc /\ Other(conns[c].from) \in Proc
    BY <2>3, OtherIs DEF Sockets
  <2> QED
    BY <2>1, <2>2, <2>4, <1>1, <1>6 DEF SocketAt
<1>8. ChoiceInv'
  <2> SUFFICES ASSUME NEW c \in DOMAIN conns PROVE ChoiceAt(c)'
    BY DEF ChoiceInv
  <2>1. 0 \in Proc /\ 1 \in Proc
    BY DEF Proc
  <2>2. ASSUME peer'[1].state \in {"CONNECTING", "CONNECT_ACK"},
               peer[1].state \notin {"CONNECTING", "CONNECT_ACK"}, peer[1].sd = c
        PROVE conns[c].stream[1] = <<>> /\ peer[0].sd # c
    <3>1. c # NoSock
      BY <1>1 DEF NoSock
    <3>2. peer[1].state \in States /\ peer[1].state # "CONNECTED"
      BY <2>1, <2>2, <1>6 DEF ConnInv, TypeOK, Peers
    <3>3. peer[1].state = "FAILED" /\ conns[c].est = "no" /\ conns[c].from = 1
      BY <2>2, <3>1, <3>2 DEF ConnInv, HigherInv, States
    <3>4. conns[c].pending /\ conns[c].stream[1] = <<>> /\ Waits(c)
      BY <3>3, <2>1 DEF ConnInv, SocketInv, SocketAt, Waits
    <3> QED
      BY <3>3, <3>4 DEF ConnInv, SocketInv, SocketAt, Other
  <2>3. ChoiceAt(c)
    BY DEF ConnInv, ChoiceInv
  <2> QED
    BY <2>1, <2>2, <2>3, <1>6 DEF ChoiceAt
<1> QED
  BY <1>2, <1>3, <1>4, <1>5, <1>7, <1>8
-----------------------------------------------------------------------------
(* The handlers, one by one. *)

LEMMA SameGrows == ASSUME TypeOK, conns' = conns, NEW p \in Proc PROVE Grows(p)
BY DEF TypeOK, Grows

\* The event that a handler runs on.
LEMMA Heads ==
    ASSUME TypeOK, NEW p \in Proc, queue[p] # <<>>
    PROVE /\ Head(queue[p]) \in Events /\ Head(queue[p]).x \in Nat /\ peer[p] \in Peers
          /\ Head(queue[p]) = queue[p][1] /\ 1 \in DOMAIN queue[p]
<1>1. queue[p] \in Seq(Events) /\ peer[p] \in Peers
  BY DEF TypeOK
<1>2. Head(queue[p]) \in Events /\ Head(queue[p]) = queue[p][1] /\ 1 \in DOMAIN queue[p]
  BY <1>1
<1> QED
  BY <1>1, <1>2 DEF Events

\* The events that handlers make.
LEMMA NewEvents ==
    /\ \A op \in {"try", "lost", "set_module", "failed"} :
          <<Ev(op, 0)>> \in Seq(Events) /\ Len(<<Ev(op, 0)>>) = 1
          /\ \A i \in DOMAIN <<Ev(op, 0)>> : <<Ev(op, 0)>>[i] = Ev(op, 0) /\ <<Ev(op, 0)>>[i].op = op
    /\ \A p \in Proc, m \in Nat :
          Posts(p, m) \in Seq(Events) /\ \A i \in DOMAIN Posts(p, m) : Posts(p, m)[i].op \in {"set_peer", "send"}
<1>1. ASSUME NEW op \in {"try", "lost", "set_module", "failed", "set_peer", "send"}, NEW m \in Nat
      PROVE Ev(op, m) \in Events /\ Ev(op, m).op = op
  BY DEF Ev, Events
<1>2. ASSUME NEW op \in {"try", "lost", "set_module", "failed"}
      PROVE <<Ev(op, 0)>> \in Seq(Events) /\ Len(<<Ev(op, 0)>>) = 1
          /\ \A i \in DOMAIN <<Ev(op, 0)>> : <<Ev(op, 0)>>[i] = Ev(op, 0) /\ <<Ev(op, 0)>>[i].op = op
  <2>1. Ev(op, 0) \in Events /\ Ev(op, 0).op = op
    BY <1>1
  <2> QED
    BY <2>1
<1>3. ASSUME NEW p \in Proc, NEW m \in Nat
      PROVE Posts(p, m) \in Seq(Events) /\ \A i \in DOMAIN Posts(p, m) : Posts(p, m)[i].op \in {"set_peer", "send"}
  <2> DEFINE a == Ev("set_peer", 0)
             b == Ev("send", m)
  <2>1. a \in Events /\ b \in Events /\ a.op = "set_peer" /\ b.op = "send"
    BY <1>1
  <2>2. Posts(p, m) = <<b>> \/ Posts(p, m) = <<a, b>>
    BY DEF Posts
  <2> HIDE DEF a, b
  <2>3. <<b>> \in Seq(Events) /\ \A i \in DOMAIN <<b>> : <<b>>[i].op = "send"
    BY <2>1
  <2>4. <<a, b>> \in Seq(Events) /\ <<a, b>>[1] = a /\ <<a, b>>[2] = b /\ DOMAIN <<a, b>> = 1..2
    BY <2>1
  <2>5. \A i \in DOMAIN <<a, b>> : <<a, b>>[i] \in {a, b}
    BY <2>4
  <2> QED
    BY <2>1, <2>2, <2>3, <2>4, <2>5
<1> QED
  BY <1>2, <1>3

LEMMA BaseProcessSendStep ==
    ASSUME ConnInv, NEW p \in Proc, BaseProcessSend(p)
    PROVE ConnInv'
<1> DEFINE pr == peer[p]
           evs == Posts(p, Head(queue[p]).x)
<1>1. Returns(p, pr, conns, evs) /\ queue[p] # <<>> /\ Head(queue[p]).op = "base_send" /\ ~broken[p]
  BY DEF BaseProcessSend, Runs
<1>2. TypeOK /\ Head(queue[p]).x \in Nat /\ pr \in Peers
  BY <1>1, Heads DEF ConnInv
<1>3. evs \in Seq(Events) /\ \A i \in DOMAIN evs : evs[i].op \in {"set_peer", "send"}
  BY <1>2, NewEvents
<1>4. conns' = conns /\ Grows(p)
  BY <1>1, <1>2, SameGrows DEF Returns
<1> HIDE DEF evs
<1>5. Handles(p, pr, evs)
  BY <1>1, <1>2, <1>3, <1>4 DEF Handles, BaseProcessSend, SocketOps
<1>6. QueueInv' /\ PeerInv' /\ LowerInv' /\ HigherInv' /\ SocketInv' /\ ChoiceInv'
  BY <1>1, <1>3, <1>4, <1>5, IdleStep DEF ConnInv, PeerInv, PeerAt
<1>7. TypeOK'
  BY <1>2, <1>4, <1>5, TypeStep DEF TypeOK, BaseProcessSend, users
<1> QED
  BY <1>6, <1>7 DEF ConnInv

LEMMA ProcessSetPeerStep ==
    ASSUME ConnInv, NEW p \in Proc, ProcessSetPeer(p)
    PROVE ConnInv'
<1> DEFINE pa == [peer[p] EXCEPT !.addrs = Append(@, Address)]
           new == pa.state = "NONE"
           pr == IF new THEN [pa EXCEPT !.state = "CONNECTING"] ELSE pa
           evs == IF new THEN <<Try>> ELSE <<>>
<1>1. Returns(p, pr, conns, evs) /\ queue[p] # <<>> /\ Head(queue[p]).op = "set_peer" /\ ~broken[p]
  BY DEF ProcessSetPeer, Runs
<1>2. TypeOK /\ peer[p] \in Peers
  BY <1>1, Heads DEF ConnInv
<1>3. /\ pa \in Peers /\ pa.state = peer[p].state /\ pa.sd = peer[p].sd /\ pa.outq = peer[p].outq
      /\ pa.send_ev = peer[p].send_ev /\ pa.active = peer[p].active
      /\ Len(pa.addrs) = Len(peer[p].addrs) + 1
  <2> DEFINE as == Append(peer[p].addrs, Address)
  <2>1. peer[p].addrs \in Seq(Addresses) /\ Address \in Addresses
    BY <1>2 DEF Peers, Address, Addresses, MaxRetries
  <2>2. as \in Seq(Addresses) /\ Len(as) = Len(peer[p].addrs) + 1
    BY <2>1
  <2>3. pa = [peer[p] EXCEPT !.addrs = as]
    OBVIOUS
  <2> HIDE DEF pa, as
  <2> QED
    BY <1>2, <2>2, <2>3 DEF Peers
<1>4. /\ pr \in Peers /\ pr.sd = peer[p].sd /\ pr.active = pa.active /\ pr.addrs = pa.addrs
      /\ ~new => pr = pa /\ evs = <<>>
      /\ new => pr.state = "CONNECTING" /\ evs = <<Try>>
  BY <1>3 DEF Peers, States
<1>5. evs \in Seq(Events) /\ \A i \in DOMAIN evs : evs[i].op = "try"
  BY NewEvents DEF Try
<1>6. conns' = conns /\ Grows(p)
  BY <1>1, <1>2, SameGrows DEF Returns
<1> HIDE DEF pr, evs, new, pa
<1>7. Handles(p, pr, evs)
  BY <1>1, <1>4, <1>5, <1>6 DEF Handles, ProcessSetPeer, SocketOps
<1>8. QueueInv' /\ PeerInv' /\ LowerInv' /\ HigherInv' /\ SocketInv' /\ ChoiceInv'
  <2>0. new <=> peer[p].state = "NONE"
    BY <1>3 DEF new
  <2>1. CASE new
    BY <2>0, <2>1, <1>1, <1>3, <1>4, <1>5, <1>6, <1>7, IdleStep
  <2>2. CASE ~new
    BY <2>2, <1>1, <1>3, <1>4, <1>5, <1>6, <1>7, IdleStep DEF ConnInv, PeerInv, PeerAt
  <2> QED
    BY <2>1, <2>2
<1>9. TypeOK'
  <2>1. peer[p].sd <= Len(conns) /\ peer[p].active <= Len(peer[p].addrs) /\ Len(peer[p].addrs) \in Nat
        /\ peer[p].active \in Nat
    BY <1>2 DEF TypeOK, Peers
  <2>2. pr.active <= Len(pr.addrs)
    BY <2>1, <1>3, <1>4
  <2> QED
    BY <2>1, <2>2, <1>2, <1>4, <1>6, <1>7, TypeStep DEF TypeOK, ProcessSetPeer, users
<1> QED
  BY <1>8, <1>9 DEF ConnInv

LEMMA ProcessSendStep ==
    ASSUME ConnInv, NEW p \in Proc, ProcessSend(p)
    PROVE ConnInv'
<1> DEFINE m == Head(queue[p]).x
           pa == Queued(peer[p], m)
           begins == pa.state # "CONNECTED" /\ ~Waiting(pa)
           pr == IF pa.state = "CONNECTED" THEN [pa EXCEPT !.send_ev = TRUE]
                 ELSE IF Waiting(pa) THEN pa ELSE [pa EXCEPT !.state = "CONNECTING"]
           evs == IF begins THEN <<Try>> ELSE <<>>
<1>1. Returns(p, pr, conns, evs) /\ queue[p] # <<>> /\ Head(queue[p]).op = "send" /\ ~broken[p]
  BY DEF ProcessSend, Runs
<1>2. TypeOK /\ peer[p] \in Peers /\ m \in Nat
  BY <1>1, Heads DEF ConnInv
<1>3. /\ pa \in Peers /\ pa.state = peer[p].state /\ pa.sd = peer[p].sd /\ pa.outq # <<>>
      /\ pa.send_ev = peer[p].send_ev /\ pa.active = peer[p].active /\ pa.addrs = peer[p].addrs
  <2> DEFINE out == Append(peer[p].outq, m)
  <2>1. out \in Seq(Nat) /\ out # <<>>
    BY SMTT(60), <1>2 DEF Peers
  <2>2. pa = [peer[p] EXCEPT !.outq = out]
    BY DEF Queued
  <2> HIDE DEF pa, out
  <2> QED
    BY <1>2, <2>1, <2>2 DEF Peers
<1> HIDE DEF pa
<1>4. /\ pr \in Peers /\ pr.sd = peer[p].sd /\ pr.active = peer[p].active
      /\ pr.addrs = peer[p].addrs /\ pr.outq # <<>>
      /\ ~begins => pr.state = peer[p].state /\ evs = <<>>
      /\ pr.state = "CONNECT_ACK" => pr.send_ev = peer[p].send_ev /\ peer[p].state = "CONNECT_ACK"
      /\ begins => /\ pr.state = "CONNECTING" /\ evs = <<Try>>
                   /\ peer[p].state \notin {"CONNECTED", "CONNECTING", "CONNECT_ACK"}
  BY <1>3 DEF Peers, States, Waiting
<1>5. evs \in Seq(Events) /\ \A i \in DOMAIN evs : evs[i].op = "try"
  BY NewEvents DEF Try
<1>6. conns' = conns /\ Grows(p)
  BY <1>1, <1>2, SameGrows DEF Returns
<1> HIDE DEF pr, evs, begins
<1>7. Handles(p, pr, evs)
  BY <1>1, <1>4, <1>5, <1>6 DEF Handles, ProcessSend, SocketOps
<1>8. QueueInv' /\ PeerInv' /\ LowerInv' /\ HigherInv' /\ SocketInv' /\ ChoiceInv'
  <2>0. pr.state = "CONNECT_ACK" => ~pr.send_ev
    BY <1>4 DEF ConnInv, PeerInv, PeerAt
  <2>1. CASE begins
    BY <2>0, <2>1, <1>1, <1>4, <1>5, <1>6, <1>7, IdleStep
  <2>2. CASE ~begins
    BY <2>0, <2>2, <1>1, <1>4, <1>5, <1>6, <1>7, IdleStep
  <2> QED
    BY <2>1, <2>2
<1>9. TypeOK'
  BY <1>2, <1>4, <1>6, <1>7, TypeStep DEF TypeOK, ProcessSend, users
<1> QED
  BY <1>8, <1>9 DEF ConnInv

\* The handlers that turn an event off, or do nothing.
LEMMA NothingStep ==
    ASSUME ConnInv, NEW p \in Proc,
           WriteInvalid(p) \/ ReadInvalid(p) \/ ComponentKnows(p) \/ (FailedToConnect(p) /\ ~Aborts(p))
    PROVE ConnInv'
<1> DEFINE pr == IF WriteInvalid(p) THEN [peer[p] EXCEPT !.send_ev = FALSE] ELSE peer[p]
<1>1. /\ Returns(p, pr, conns, <<>>) /\ queue[p] # <<>> /\ Head(queue[p]).op # "try" /\ ~broken[p]
      /\ broken' = broken /\ users' = users /\ setting' = setting
      /\ known' = known \/ \E b \in BOOLEAN : known' = [known EXCEPT ![p] = b]
  <2>1. CASE WriteInvalid(p)
    BY <2>1 DEF WriteInvalid, Runs
  <2>2. CASE ~WriteInvalid(p) /\ ReadInvalid(p)
    BY <2>2 DEF ReadInvalid, Runs
  <2>3. CASE ~WriteInvalid(p) /\ ComponentKnows(p)
    BY <2>3 DEF ComponentKnows, Runs
  <2>4. CASE ~WriteInvalid(p) /\ FailedToConnect(p) /\ ~Aborts(p)
    BY <2>4 DEF FailedToConnect, Runs
  <2> QED
    BY <2>1, <2>2, <2>3, <2>4
<1>2. TypeOK /\ peer[p] \in Peers
  BY <1>1, Heads DEF ConnInv
<1>3. /\ pr \in Peers /\ pr.sd = peer[p].sd /\ pr.active = peer[p].active /\ pr.state = peer[p].state
      /\ pr.addrs = peer[p].addrs /\ pr.outq = peer[p].outq /\ (pr.send_ev => peer[p].send_ev)
  BY <1>2 DEF Peers
<1>4. conns' = conns /\ Grows(p)
  BY <1>1, <1>2, SameGrows DEF Returns
<1> HIDE DEF pr
<1>5. Handles(p, pr, <<>>)
  BY <1>1, <1>3, <1>4 DEF Handles
<1>6. QueueInv' /\ PeerInv' /\ LowerInv' /\ HigherInv' /\ SocketInv' /\ ChoiceInv'
  BY <1>1, <1>3, <1>4, <1>5, IdleStep DEF ConnInv, PeerInv, PeerAt
<1>7. TypeOK'
  <2>1. known' \in [Proc -> BOOLEAN]
    BY <1>1, <1>2 DEF TypeOK
  <2> QED
    BY <2>1, <1>1, <1>2, <1>3, <1>4, <1>5, TypeStep DEF TypeOK, users
<1> QED
  BY <1>6, <1>7 DEF ConnInv

LEMMA SendingStep == ASSUME ConnInv, NEW p \in Proc, UserSend(p) PROVE ConnInv'
<1> DEFINE q == Other(p)
           m == issued[p] + 1
           evs == IF p \in setting.threaded THEN Posts(p, m) ELSE <<Ev("base_send", m)>>
<1>1. /\ TypeOK /\ ~broken[p] /\ q \in Proc /\ q # p /\ \A r \in Proc : r = p \/ r = q
      /\ conns' = conns /\ peer' = peer /\ draining' = draining /\ broken' = broken
      /\ queue' = [queue EXCEPT ![p] = @ \o evs] /\ m \in Nat
  <2>1. TypeOK /\ ~broken[p] /\ conns' = conns /\ peer' = peer /\ draining' = draining /\ broken' = broken
    BY DEF UserSend, ConnInv
  <2>2. q \in Proc /\ q # p /\ (\A r \in Proc : r = p \/ r = q) /\ m \in Nat
    BY <2>1, OtherIs DEF TypeOK
  <2>3. queue' = [queue EXCEPT ![p] = @ \o evs]
    <3>1. CASE p \in setting.threaded
      BY <3>1 DEF UserSend
    <3>2. CASE p \notin setting.threaded
      <4>1. queue[p] \in Seq(Events) /\ queue \in [Proc -> Seq(Events)]
        BY <2>1 DEF TypeOK
      <4>2. queue' = [queue EXCEPT ![p] = Append(@, Ev("base_send", m))]
        BY <3>2 DEF UserSend
      <4>3. Append(queue[p], Ev("base_send", m)) = queue[p] \o <<Ev("base_send", m)>>
        BY <4>1, AppendIsConcat
      <4> QED
        BY <3>2, <4>2, <4>3
    <3> QED
      BY <3>1, <3>2
  <2> QED
    BY <2>1, <2>2, <2>3
<1>2. evs \in Seq(Events) /\ \A i \in DOMAIN evs : evs[i].op \in {"set_peer", "send", "base_send"}
  <2>1. Ev("base_send", m) \in Events /\ Ev("base_send", m).op = "base_send"
    BY <1>1 DEF Ev, Events
  <2>2. <<Ev("base_send", m)>> \in Seq(Events)
        /\ \A i \in DOMAIN <<Ev("base_send", m)>> : <<Ev("base_send", m)>>[i].op = "base_send"
    BY <2>1
  <2>3. Posts(p, m) \in Seq(Events)
        /\ \A i \in DOMAIN Posts(p, m) : Posts(p, m)[i].op \in {"set_peer", "send"}
    BY <1>1, NewEvents
  <2>4. CASE p \in setting.threaded
    BY <2>3, <2>4
  <2>5. CASE p \notin setting.threaded
    BY <2>2, <2>5
  <2> QED
    BY <2>4, <2>5
<1> HIDE DEF evs
<1>3. /\ queue[p] \in Seq(Events) /\ queue' \in [Proc -> Seq(Events)] /\ queue'[q] = queue[q]
      /\ queue'[p] = queue[p] \o evs
  <2>1. queue[p] \in Seq(Events) /\ queue[p] \o evs \in Seq(Events)
    BY <1>1, <1>2 DEF TypeOK
  <2> QED
    BY <2>1, <1>1 DEF TypeOK
<1>4. \A i \in DOMAIN queue'[p] :
        \/ i \in DOMAIN queue[p] /\ queue'[p][i] = queue[p][i]
        \/ queue'[p][i].op \in {"set_peer", "send", "base_send"}
  BY <1>2, <1>3
<1>5. \A i \in DOMAIN queue[p] : i \in DOMAIN queue'[p] /\ queue'[p][i] = queue[p][i]
  BY <1>2, <1>3
<1>6. TypeOK'
  <2>1. issued' = [issued EXCEPT ![p] = @ + 1] /\ issued[p] < Messages[p]
        /\ received' = received /\ completed' = completed /\ setting' = setting
        /\ (known' = known \/ known' = [known EXCEPT ![p] = TRUE])
    BY DEF UserSend
  <2>2. issued' \in [Proc -> Nat] /\ \A r \in Proc : issued'[r] <= Messages[r]
    <3>1. Messages \in [Proc -> Nat] /\ issued \in [Proc -> Nat] /\ \A r \in Proc : issued[r] <= Messages[r]
      BY <1>1, TcpAssumption DEF TypeOK
    <3> QED
      BY <3>1, <2>1
  <2>3. known' \in [Proc -> BOOLEAN]
    BY <2>1, <1>1 DEF TypeOK
  <2> QED
    BY <2>1, <2>2, <2>3, <1>1, <1>3 DEF TypeOK
<1>7. QueueInv'
  <2>1. QueueAt(p)'
    <3>1. QueueAt(p)
      BY SMTT(60) DEF ConnInv, QueueInv
    <3>2. \A i \in DOMAIN queue[p] : EventInv(p, queue[p][i])'
      BY <3>1, <1>1, <1>5 DEF QueueAt, EventInv
    <3>3. \A i \in DOMAIN queue'[p] : EventInv(p, queue[p][i])'
      <4> TAKE i \in DOMAIN queue'[p]
      <4>1. CASE i \in DOMAIN queue[p] /\ queue'[p][i] = queue[p][i]
        BY <4>1, <3>2
      <4>2. CASE queue'[p][i].op \in {"set_peer", "send", "base_send"}
        BY <4>2 DEF EventInv, SocketOps
      <4> QED
        BY <4>1, <4>2, <1>4
    <3>4. \A i \in DOMAIN queue'[p] : queue'[p][i].op \in SocketOps \cup {"try", "failed"}
            => i \in DOMAIN queue[p] /\ queue'[p][i] = queue[p][i]
      BY <1>4 DEF SocketOps
    <3> QED
      BY <3>1, <3>3, <3>4 DEF QueueAt
  <2>2. QueueAt(q)'
    BY <1>1, <1>3 DEF ConnInv, QueueInv, QueueAt, EventInv
  <2> QED
    BY <2>1, <2>2, <1>1 DEF QueueInv
<1>8. \A r \in Proc, op \in {"try", "failed"} : Has(r, op)' <=> Has(r, op)
  <2>1. \A op \in {"try", "failed"} : Has(p, op)' <=> Has(p, op)
    BY <1>4, <1>5 DEF Has
  <2>2. \A op \in {"try", "failed"} : Has(q, op)' <=> Has(q, op)
    BY <1>3 DEF Has
  <2> QED
    BY <2>1, <2>2, <1>1
<1>9. PeerInv' /\ LowerInv' /\ HigherInv'
  <2>1. 0 \in Proc /\ 1 \in Proc
    BY DEF Proc
  <2>2. OneTry(1)'
    <3>1. OneTry(1)
      BY DEF ConnInv, HigherInv, OneTry
    <3>2. CASE p = 1
      BY <3>1, <3>2, <1>4 DEF OneTry
    <3>3. CASE q = 1
      BY <3>1, <3>3, <1>3 DEF OneTry
    <3> QED
      BY <2>1, <3>2, <3>3, <1>1
  <2>3. PeerInv' /\ LowerInv'
    BY <1>1, <1>8, <2>1 DEF ConnInv, PeerInv, PeerAt, LowerInv
  <2>4. HigherInv'
    BY <1>1, <1>8, <2>1, <2>2 DEF ConnInv, HigherInv, OneTry
  <2> QED
    BY <2>3, <2>4
<1>10. SocketInv'
  <2> SUFFICES ASSUME NEW c \in DOMAIN conns PROVE SocketAt(c)'
    BY <1>1 DEF SocketInv
  <2>1. Other(conns[c].from) \in Proc
    <3>1. conns[c] \in Sockets
      BY <1>1 DEF TypeOK
    <3> QED
      BY <3>1, OtherIs DEF Sockets
  <2>2. Ev("accept", c).op = "accept"
    BY DEF Ev
  <2>3. Waits(c)' => Waits(c)
    BY <1>1, <1>3, <1>4, <2>1, <2>2 DEF Waits
  <2>4. SocketAt(c)
    BY DEF ConnInv, SocketInv
  <2> QED
    BY <1>1, <2>3, <2>4 DEF SocketAt
<1>11. ChoiceInv'
  BY <1>1 DEF ConnInv, ChoiceInv, ChoiceAt
<1> QED
  BY <1>6, <1>7, <1>9, <1>10, <1>11 DEF ConnInv

\* A function on the places of the sockets is a sequence of as many.
LEMMA SameLength ==
    \A cs \in Seq(Sockets) : \A f \in [DOMAIN cs -> Sockets] :
        f \in Seq(Sockets) /\ Len(f) = Len(cs) /\ DOMAIN f = DOMAIN cs
<1> TAKE cs \in Seq(Sockets)
<1> TAKE f \in [DOMAIN cs -> Sockets]
<1>1. DOMAIN cs = 1..Len(cs) /\ Len(cs) \in Nat
  OBVIOUS
<1> QED
  BY <1>1

\* The sockets of the events, and those that the members use, exist.
LEMMA UsedSockets ==
    ASSUME TypeOK PROVE \A r \in Proc : peer[r].sd # NoSock => peer[r].sd \in DOMAIN conns
<1> SUFFICES ASSUME NEW r \in Proc, peer[r].sd # 0 PROVE peer[r].sd \in DOMAIN conns
  BY DEF NoSock
<1>1. peer[r] \in Peers /\ peer[r].sd <= Len(conns) /\ conns \in Seq(Sockets)
  BY DEF TypeOK
<1>2. peer[r].sd \in 1..Len(conns) /\ DOMAIN conns = 1..Len(conns)
  BY <1>1 DEF Peers
<1> QED
  BY <1>2

LEMMA SocketEvents ==
    ASSUME TypeOK, QueueInv
    PROVE \A r \in Proc : \A i \in DOMAIN queue[r] :
              queue[r][i].op \in SocketOps => queue[r][i].x \in DOMAIN conns
<1> SUFFICES ASSUME NEW r \in Proc, NEW i \in DOMAIN queue[r], queue[r][i].op \in SocketOps
             PROVE queue[r][i].x \in DOMAIN conns
  OBVIOUS
<1>1. EventInv(r, queue[r][i])
  BY DEF QueueInv, QueueAt
<1>2. CASE queue[r][i].op = "accept"
  BY <1>1, <1>2 DEF EventInv
<1>3. CASE queue[r][i].op \in {"read", "write"}
  BY <1>1, <1>3, UsedSockets DEF EventInv, Registered
<1> QED
  BY <1>2, <1>3 DEF SocketOps

\* The events that are ready.
IsReady(p, e) ==
    /\ e \in Events /\ e.op \in SocketOps /\ e.x \in DOMAIN conns
    /\ e.op \in {"read", "write"} =>
          /\ Registered(peer[p], e) /\ e.x # NoSock /\ ~conns[e.x].closed[p]
          /\ e.op = "write" => conns[e.x].est \in {"up", "refused"}
    /\ e.op = "accept" =>
          /\ e = Ev("accept", e.x) /\ conns[e.x].from # p
          /\ conns[e.x].est = "up" /\ conns[e.x].pending
LEMMA ReadyIs ==
    ASSUME TypeOK, NEW p \in Proc
    PROVE IsFiniteSet(ReadyEvents(p)) /\ \A e \in ReadyEvents(p) : IsReady(p, e)
<1>1. conns \in Seq(Sockets) /\ peer[p] \in Peers /\ peer[p].sd \in Nat /\ DOMAIN conns = 1..Len(conns)
  <2>1. conns \in Seq(Sockets) /\ peer[p] \in Peers
    BY DEF TypeOK
  <2> QED
    BY <2>1 DEF Peers
<1> DEFINE pr == peer[p]
           mine == pr.sd # NoSock /\ ~conns[pr.sd].closed[p]
           R == IF mine /\ pr.recv_ev /\ ReadResults(pr.sd, p) # {"none"}
                THEN {Ev("read", pr.sd)} ELSE {}
           W == IF mine /\ pr.send_ev /\ conns[pr.sd].est \in {"up", "refused"}
                THEN {Ev("write", pr.sd)} ELSE {}
           D == {d \in DOMAIN conns : /\ conns[d].from # p /\ conns[d].est = "up" /\ conns[d].pending
                                      /\ ReadResults(d, p) # {"none"}}
           A == {Ev("accept", c) : c \in D}
<1>2. ReadyEvents(p) = R \cup W \cup A
  BY DEF ReadyEvents
<1>3. IsFiniteSet(R) /\ IsFiniteSet(W)
  BY FS_EmptySet, FS_Singleton
<1>4. IsFiniteSet(A)
  <2>1. IsFiniteSet(D)
    <3>1. IsFiniteSet(1..Len(conns))
      BY <1>1, FS_Interval
    <3> QED
      BY <1>1, <3>1, FS_Subset
  <2> DEFINE f == [c \in D |-> Ev("accept", c)]
  <2>2. f \in Surjection(D, A)
    BY DEF Surjection
  <2> HIDE DEF D, A, f
  <2> QED
    BY <2>1, <2>2, FS_Surjection
<1>5. \A x \in Nat, op \in SocketOps : Ev(op, x) \in Events /\ Ev(op, x).op = op /\ Ev(op, x).x = x
  BY DEF Ev, Events, SocketOps
<1>6. \A e \in R : e.op = "read" /\ e.x = pr.sd /\ mine /\ pr.recv_ev /\ e \in Events
  BY <1>1, <1>5 DEF SocketOps
<1>7. \A e \in W : e.op = "write" /\ e.x = pr.sd /\ mine /\ pr.send_ev /\ e \in Events
                   /\ conns[pr.sd].est \in {"up", "refused"}
  BY <1>1, <1>5 DEF SocketOps
<1>8. \A e \in A : e.op = "accept" /\ e.x \in D /\ e = Ev("accept", e.x) /\ e \in Events
  BY <1>1, <1>5 DEF SocketOps
<1> HIDE DEF R, W, A
<1>9. IsFiniteSet(ReadyEvents(p))
  BY <1>2, <1>3, <1>4, FS_Union
<1>10. pr.sd # NoSock => pr.sd \in DOMAIN conns
  BY UsedSockets
<1>11. \A e \in ReadyEvents(p) : IsReady(p, e)
  BY <1>2, <1>6, <1>7, <1>8, <1>10 DEF Registered, SocketOps, IsReady
<1> QED
  BY <1>9, <1>11

LEMMA PollStep == ASSUME ConnInv, NEW p \in Proc, Poll(p) PROVE ConnInv'
<1> DEFINE q == Other(p)
           S == ReadyEvents(p)
<1>1. /\ TypeOK /\ ~broken[p] /\ ~draining[p] /\ q \in Proc /\ q # p /\ \A r \in Proc : r = p \/ r = q
      /\ peer' = peer /\ draining' = [draining EXCEPT ![p] = TRUE] /\ broken' = broken
      /\ conns \in Seq(Sockets)
  BY OtherIs DEF Poll, ConnInv, TypeOK
<1>0. IsFiniteSet(S) /\ \A e \in S : IsReady(p, e)
  BY <1>1, ReadyIs
<1>2. PICK evs \in SetToSeqs(S) : queue' = [queue EXCEPT ![p] = @ \o evs]
  BY DEF Poll
<1>3. /\ evs \in Seq(Events) /\ \A i \in DOMAIN evs : evs[i] \in S
      /\ \A i, j \in DOMAIN evs : evs[i] = evs[j] => i = j
  <2>1. Cardinality(S) \in Nat /\ \A e \in S : e \in Events
    <3> HIDE DEF S
    <3> QED
      BY <1>0, FS_CardinalityType DEF IsReady
  <2>2. evs \in [1..Cardinality(S) -> S] /\ \A i, j \in 1..Cardinality(S) : evs[i] = evs[j] => i = j
    <3> HIDE DEF S
    <3> QED
      BY <1>2 DEF SetToSeqs
  <2> HIDE DEF S
  <2> QED
    BY <2>1, <2>2
<1>4. /\ conns' \in Seq(Sockets) /\ Len(conns') = Len(conns) /\ DOMAIN conns' = DOMAIN conns
      /\ \A c \in DOMAIN conns :
           /\ conns'[c].from = conns[c].from /\ conns'[c].est = conns[c].est
           /\ conns'[c].closed = conns[c].closed /\ conns'[c].reset = conns[c].reset
           /\ conns'[c].stream = conns[c].stream
           /\ conns'[c].pending <=> conns[c].pending /\ Ev("accept", c) \notin S
  <2> DEFINE s(c) == IF Ev("accept", c) \in S THEN [conns[c] EXCEPT !.pending = FALSE] ELSE conns[c]
  <2>1. conns' = [c \in DOMAIN conns |-> s(c)]
    BY DEF Poll
  <2>2. \A c \in DOMAIN conns :
           /\ s(c) \in Sockets
           /\ s(c).from = conns[c].from /\ s(c).est = conns[c].est
           /\ s(c).closed = conns[c].closed /\ s(c).reset = conns[c].reset
           /\ s(c).stream = conns[c].stream
           /\ s(c).pending <=> conns[c].pending /\ Ev("accept", c) \notin S
    <3> TAKE c \in DOMAIN conns
    <3>1. conns[c] \in Sockets
      BY <1>1
    <3> HIDE DEF S
    <3> QED
      BY <3>1 DEF Sockets
  <2> HIDE DEF s
  <2>3. conns' \in [DOMAIN conns -> Sockets]
    BY <2>1, <2>2
  <2>4. conns' \in Seq(Sockets) /\ Len(conns') = Len(conns) /\ DOMAIN conns' = DOMAIN conns
    <3>1. conns \in Seq(Sockets)
      BY <1>1
    <3> QED
      BY <2>3, <3>1, SameLength
  <2> QED
    BY <2>1, <2>2, <2>4
<1>5. /\ queue[p] \in Seq(Events) /\ queue' \in [Proc -> Seq(Events)] /\ queue'[q] = queue[q]
      /\ queue'[p] = queue[p] \o evs
  <2>1. queue[p] \in Seq(Events) /\ queue[p] \o evs \in Seq(Events)
    BY <1>1, <1>3 DEF TypeOK
  <2> QED
    BY <2>1, <1>1, <1>2 DEF TypeOK
<1>6. \A i \in DOMAIN queue[p] : /\ queue[p][i].op \notin SocketOps \cup {"try", "failed"}
                                 /\ i \in DOMAIN queue'[p] /\ queue'[p][i] = queue[p][i]
  BY SMTT(60), <1>1, <1>3, <1>5 DEF ConnInv, QueueInv, QueueAt, EventInv
<1>7. \A i \in DOMAIN queue'[p] :
        \/ i \in DOMAIN queue[p] /\ queue'[p][i] = queue[p][i]
        \/ i - Len(queue[p]) \in DOMAIN evs /\ i \in Nat /\ queue'[p][i] = evs[i - Len(queue[p])]
              /\ queue'[p][i] \in S
  BY SMTT(60), <1>3, <1>5
<1>8. \A e \in S : e.op \in SocketOps
  BY <1>0 DEF IsReady
<1>9. \A r \in Proc : draining'[r] <=> (draining[r] \/ r = p)
  BY <1>1 DEF TypeOK
<1>10. TypeOK'
  BY <1>1, <1>4, <1>5 DEF TypeOK, Poll, users
<1>11. QueueInv'
  <2>1. QueueAt(q)'
    <3>1. QueueAt(q) /\ \A i \in DOMAIN queue[q] :
                queue[q][i].op \in SocketOps => queue[q][i].x \in DOMAIN conns
      BY SMTT(60), <1>1, SocketEvents DEF ConnInv, QueueInv
    <3>2. ASSUME NEW i \in DOMAIN queue[q] PROVE EventInv(q, queue[q][i])'
      <4>1. EventInv(q, queue[q][i]) /\ (queue[q][i].op \in SocketOps => queue[q][i].x \in DOMAIN conns)
        BY <3>1 DEF QueueAt
      <4> QED
        BY SMTT(60), <4>1, <1>1, <1>4, <1>5, <1>9 DEF EventInv, SocketOps
    <3> QED
      BY <3>1, <3>2, <1>5 DEF QueueAt
  <2>2. \A e \in S : EventInv(p, e)'
    <3> TAKE e \in S
    <3>1. IsReady(p, e)
      BY <1>0
    <3>2. e.op = "accept" => ~conns'[e.x].pending
      BY <3>1, <1>4 DEF IsReady
    <3> HIDE DEF S
    <3> QED
      BY <3>1, <3>2, <1>1, <1>4, <1>9 DEF EventInv, IsReady
  <2> HIDE DEF S
  <2>3. \A i \in DOMAIN queue'[p] : EventInv(p, queue[p][i])'
    <3> TAKE i \in DOMAIN queue'[p]
    <3>1. CASE queue'[p][i] \in S
      BY <3>1, <2>2
    <3>2. CASE i \in DOMAIN queue[p] /\ queue'[p][i] = queue[p][i]
      BY <3>2, <1>6 DEF EventInv, SocketOps
    <3> QED
      BY <3>1, <3>2, <1>7
  <2>4. \A i, j \in DOMAIN queue'[p] :
          queue'[p][i].op \in SocketOps /\ queue'[p][i] = queue'[p][j] => i = j
    <3> SUFFICES ASSUME NEW i \in DOMAIN queue'[p], NEW j \in DOMAIN queue'[p],
                        queue'[p][i].op \in SocketOps, queue'[p][i] = queue'[p][j]
                 PROVE i = j
      OBVIOUS
    <3>1. \A k \in DOMAIN queue'[p] : queue'[p][k].op \in SocketOps =>
              /\ k - Len(queue[p]) \in DOMAIN evs /\ k \in Nat
              /\ queue'[p][k] = evs[k - Len(queue[p])]
      BY <1>6, <1>7
    <3>2. Len(queue[p]) \in Nat
      BY <1>5
    <3>3. /\ i - Len(queue[p]) \in DOMAIN evs /\ i \in Nat
          /\ queue'[p][i] = evs[i - Len(queue[p])]
      BY <3>1
    <3>4. /\ j - Len(queue[p]) \in DOMAIN evs /\ j \in Nat
          /\ queue'[p][j] = evs[j - Len(queue[p])]
      BY <3>1
    <3>5. \A k, l \in DOMAIN evs : evs[k] = evs[l] => k = l
      BY <1>3
    <3>6. i - Len(queue[p]) = j - Len(queue[p])
      BY <3>3, <3>4, <3>5
    <3> QED
      BY <3>2, <3>3, <3>4, <3>6
  <2>5. \A i \in DOMAIN queue'[p] : queue'[p][i].op \notin {"try", "failed"}
    BY <1>6, <1>7, <1>8 DEF SocketOps
  <2>6. QueueAt(p)'
    BY <2>3, <2>4, <2>5 DEF QueueAt
  <2> QED
    BY <2>1, <2>6, <1>1 DEF QueueInv
<1>12. \A r \in Proc, op \in {"try", "failed"} : Has(r, op)' <=> Has(r, op)
  <2>1. \A op \in {"try", "failed"} : Has(p, op)' <=> Has(p, op)
    BY <1>6, <1>7, <1>8 DEF Has, SocketOps
  <2>2. \A op \in {"try", "failed"} : Has(q, op)' <=> Has(q, op)
    BY <1>5 DEF Has
  <2> QED
    BY <2>1, <2>2, <1>1
<1>13. \A r \in Proc : peer[r].sd # NoSock => peer[r].sd \in DOMAIN conns
  BY <1>1, UsedSockets
<1>14. 0 \in Proc /\ 1 \in Proc
  BY DEF Proc
<1>15. OneTry(1)'
  <2>1. OneTry(1)
    BY DEF ConnInv, HigherInv, OneTry
  <2>2. CASE p = 1
    BY <2>2, <1>6, <1>7, <1>8 DEF OneTry, SocketOps
  <2>3. CASE q = 1
    BY <2>1, <2>3, <1>5 DEF OneTry
  <2> QED
    BY <2>2, <2>3, <1>1, <1>14
<1>16. PeerInv' /\ LowerInv'
  <2>1. PeerInv'
    BY <1>1, <1>4, <1>13 DEF ConnInv, PeerInv, PeerAt
  <2>2. peer[0].state = "CONNECTED" => peer[0].sd \in DOMAIN conns
    BY <1>13, <1>14 DEF ConnInv, PeerInv, PeerAt
  <2> QED
    BY <2>1, <2>2, <1>1, <1>4, <1>12, <1>14 DEF ConnInv, LowerInv
<1>17. HigherInv'
  BY <1>1, <1>4, <1>12, <1>13, <1>14, <1>15 DEF ConnInv, HigherInv, OneTry
<1>18. SocketInv'
  <2> SUFFICES ASSUME NEW c \in DOMAIN conns PROVE SocketAt(c)'
    BY <1>4 DEF SocketInv
  <2>1. Other(conns[c].from) \in Proc
    <3>1. conns[c] \in Sockets
      BY <1>1
    <3> QED
      BY <3>1, OtherIs DEF Sockets
  <2>2. Ev("accept", c).op = "accept" /\ Ev("accept", c).x = c
    BY DEF Ev
  <2>3. ASSUME conns[c].pending /\ ~conns'[c].pending PROVE conns[c].est = "up"
    <3>1. Ev("accept", c) \in S
      BY <2>3, <1>4
    <3> QED
      BY <3>1, <2>2, <1>0 DEF IsReady
  <2>4. Waits(c)' => Waits(c)
    <3> SUFFICES ASSUME Waits(c)', ~conns[c].pending PROVE Waits(c)
      BY DEF Waits
    <3> DEFINE o == Other(conns[c].from)
    <3>1. PICK i \in DOMAIN queue'[o] : queue'[o][i] = Ev("accept", c)
      BY <1>4 DEF Waits
    <3>2. Ev("accept", c) \notin S
      BY <2>2, <1>0 DEF IsReady
    <3>3. i \in DOMAIN queue[o] /\ queue[o][i] = Ev("accept", c)
      BY <3>1, <3>2, <2>1, <1>1, <1>5, <1>7
    <3> QED
      BY <3>3 DEF Waits
  <2>5. SocketAt(c)
    BY DEF ConnInv, SocketInv
  <2> HIDE DEF S
  <2> QED
    BY <1>1, <1>4, <2>3, <2>4, <2>5 DEF SocketAt
<1>19. ChoiceInv'
  <2> SUFFICES ASSUME NEW c \in DOMAIN conns PROVE ChoiceAt(c)'
    BY <1>4 DEF ChoiceInv
  <2>1. ChoiceAt(c)
    BY DEF ConnInv, ChoiceInv
  <2> QED
    BY <2>1, <1>1, <1>4 DEF ChoiceAt
<1> QED
  BY <1>10, <1>11, <1>16, <1>17, <1>18, <1>19 DEF ConnInv

LEMMA EstablishStep == ASSUME ConnInv, NEW d \in DOMAIN conns, Establish(d) PROVE ConnInv'
<1>1. /\ TypeOK /\ conns \in Seq(Sockets) /\ conns[d] \in Sockets /\ conns[d].est = "syn"
      /\ ~conns[d].closed[conns[d].from]
      /\ peer' = peer /\ queue' = queue /\ draining' = draining /\ broken' = broken
  BY DEF ConnInv, TypeOK, Establish
<1>2. /\ conns' \in Seq(Sockets) /\ Len(conns') = Len(conns) /\ DOMAIN conns' = DOMAIN conns
      /\ \A c \in DOMAIN conns :
           /\ conns'[c].from = conns[c].from
           /\ conns'[c].est = conns[c].est \/ (c = d /\ conns'[c].est \in {"up", "refused"})
           /\ conns'[c].closed = conns[c].closed /\ conns'[c].reset = conns[c].reset
           /\ conns'[c].stream = conns[c].stream /\ conns'[c].pending = conns[c].pending
  <2>1. PICK e \in {"up", "refused"} : conns' = [conns EXCEPT ![d].est = e]
    BY DEF Establish
  <2> DEFINE s == [conns[d] EXCEPT !.est = e]
  <2>2. s \in Sockets /\ s.from = conns[d].from /\ s.est = e /\ s.closed = conns[d].closed
        /\ s.reset = conns[d].reset /\ s.stream = conns[d].stream /\ s.pending = conns[d].pending
    BY <1>1 DEF Sockets
  <2>3. conns' = [conns EXCEPT ![d] = s]
    BY <2>1
  <2> HIDE DEF s
  <2> QED
    BY <2>2, <2>3, <1>1
<1>3. \A r \in Proc : peer[r].sd # NoSock => peer[r].sd \in DOMAIN conns
  BY <1>1, UsedSockets
<1>4. 0 \in Proc /\ 1 \in Proc
  BY DEF Proc
<1>5. TypeOK'
  BY <1>1, <1>2 DEF TypeOK, Establish, users
<1>6. QueueInv'
  <2> SUFFICES ASSUME NEW r \in Proc PROVE QueueAt(r)'
    BY DEF QueueInv
  <2>1. QueueAt(r) /\ \A i \in DOMAIN queue[r] :
                queue[r][i].op \in SocketOps => queue[r][i].x \in DOMAIN conns
    BY <1>1, SocketEvents DEF ConnInv, QueueInv
  <2>2. ASSUME NEW i \in DOMAIN queue[r] PROVE EventInv(r, queue[r][i])'
    <3>1. EventInv(r, queue[r][i]) /\ (queue[r][i].op \in SocketOps => queue[r][i].x \in DOMAIN conns)
      BY <2>1 DEF QueueAt
    <3> QED
      BY <3>1, <1>1, <1>2 DEF EventInv, SocketOps
  <2> QED
    BY <2>1, <2>2, <1>1 DEF QueueAt
<1>7. PeerInv'
  BY ZenonT(60), <1>1, <1>2, <1>3 DEF ConnInv, PeerInv, PeerAt
<1>8. LowerInv'
  <2>1. peer[0].state = "CONNECTED" => peer[0].sd \in DOMAIN conns
    BY <1>3, <1>4 DEF ConnInv, PeerInv, PeerAt
  <2> QED
    BY <2>1, <1>1, <1>2 DEF ConnInv, LowerInv, Has
<1>9. HigherInv'
  BY <1>1, <1>2, <1>3, <1>4 DEF ConnInv, HigherInv, Has
<1>10. SocketInv'
  <2> SUFFICES ASSUME NEW c \in DOMAIN conns PROVE SocketAt(c)'
    BY <1>2 DEF SocketInv
  <2>1. SocketAt(c) /\ (Waits(c)' <=> Waits(c))
    BY <1>1, <1>2 DEF ConnInv, SocketInv, Waits
  <2> QED
    BY <2>1, <1>1, <1>2 DEF SocketAt
<1>11. ChoiceInv'
  <2> SUFFICES ASSUME NEW c \in DOMAIN conns PROVE ChoiceAt(c)'
    BY <1>2 DEF ChoiceInv
  <2>1. ChoiceAt(c)
    BY DEF ConnInv, ChoiceInv
  <2> QED
    BY <2>1, <1>1, <1>2 DEF ChoiceAt
<1> QED
  BY <1>5, <1>6, <1>7, <1>8, <1>9, <1>10, <1>11 DEF ConnInv

\* A member that aborts was not connected.
LEMMA AbortsStep ==
    ASSUME ConnInv, NEW p \in Proc, FailedToConnect(p), Aborts(p)
    PROVE ConnInv'
<1> DEFINE q == Other(p)
<1>1. /\ TypeOK /\ conns \in Seq(Sockets) /\ ~broken[p] /\ q \in Proc /\ q # p
      /\ \A r \in Proc : r = p \/ r = q
      /\ peer' = peer /\ queue' = queue /\ draining' = draining
      /\ broken' = [broken EXCEPT ![p] = TRUE] /\ broken \in [Proc -> BOOLEAN]
  BY OtherIs DEF ConnInv, TypeOK, Aborts, FailedToConnect, Runs
<1>2. /\ conns' \in Seq(Sockets) /\ Len(conns') = Len(conns) /\ DOMAIN conns' = DOMAIN conns
      /\ \A c \in DOMAIN conns :
           /\ conns'[c].from = conns[c].from /\ conns'[c].est = conns[c].est
           /\ \A r \in Proc : conns'[c].closed[r] <=> (conns[c].closed[r] \/ r = p)
           /\ conns'[c].stream = conns[c].stream /\ conns'[c].pending = conns[c].pending
  <2> DEFINE s(c) == Closed(conns, c, p)[c]
  <2>1. conns' = [c \in DOMAIN conns |-> s(c)]
    BY DEF Aborts
  <2>2. \A c \in DOMAIN conns :
           /\ s(c) \in Sockets
           /\ s(c).from = conns[c].from /\ s(c).est = conns[c].est
           /\ \A r \in Proc : s(c).closed[r] <=> (conns[c].closed[r] \/ r = p)
           /\ s(c).stream = conns[c].stream /\ s(c).pending = conns[c].pending
    <3> TAKE c \in DOMAIN conns
    <3> DEFINE ds == Closed(conns, c, p)
    <3>1. c \in 1..Len(conns) /\ c \in 0..Len(conns)
      BY <1>1
    <3>2. IsClosed(conns, c, p, ds)
      BY <3>1, <1>1, ClosedIs
    <3> HIDE DEF ds
    <3>3. ds[c] \in Sockets
      BY <3>1, <3>2 DEF IsClosed
    <3>4. s(c) = ds[c]
      BY DEF ds
    <3> HIDE DEF s
    <3> QED
      BY <3>1, <3>2, <3>3, <3>4 DEF IsClosed
  <2> HIDE DEF s
  <2>3. conns' \in [DOMAIN conns -> Sockets]
    BY <2>1, <2>2
  <2>4. conns' \in Seq(Sockets) /\ Len(conns') = Len(conns) /\ DOMAIN conns' = DOMAIN conns
    <3>1. conns \in Seq(Sockets)
      BY <1>1
    <3> QED
      BY <2>3, <3>1, SameLength
  <2> QED
    BY <2>1, <2>2, <2>4
<1>3. \A r \in Proc : peer[r].sd # NoSock => peer[r].sd \in DOMAIN conns
  BY <1>1, UsedSockets
<1>4. 0 \in Proc /\ 1 \in Proc
  BY DEF Proc
<1>5. TypeOK'
  BY <1>1, <1>2 DEF TypeOK, Aborts, users
<1>6. QueueInv'
  <2> SUFFICES ASSUME NEW r \in Proc PROVE QueueAt(r)'
    BY DEF QueueInv
  <2>1. QueueAt(r) /\ \A i \in DOMAIN queue[r] :
                queue[r][i].op \in SocketOps => queue[r][i].x \in DOMAIN conns
    BY <1>1, SocketEvents DEF ConnInv, QueueInv
  <2>2. ASSUME NEW i \in DOMAIN queue[r] PROVE EventInv(r, queue[r][i])'
    <3>1. EventInv(r, queue[r][i]) /\ (queue[r][i].op \in SocketOps => queue[r][i].x \in DOMAIN conns)
      BY <2>1 DEF QueueAt
    <3> QED
      BY <3>1, <1>1, <1>2 DEF EventInv, SocketOps
  <2> QED
    BY <2>1, <2>2, <1>1 DEF QueueAt
<1>7. PeerInv'
  BY <1>1, <1>2, <1>3 DEF ConnInv, PeerInv, PeerAt
<1>8. LowerInv'
  <2>1. peer[0].state = "CONNECTED" => peer[0].sd \in DOMAIN conns
    BY <1>3, <1>4 DEF ConnInv, PeerInv, PeerAt
  <2>2. p = 0 => peer[0].state # "CONNECTED"
    <3>1. Head(queue[p]).op = "failed" /\ queue[p] # <<>>
      BY DEF FailedToConnect, Runs
    <3>2. Has(p, "failed")
      BY <3>1, <1>1, Heads DEF Has
    <3> QED
      BY <3>2 DEF ConnInv, LowerInv
  <2> QED
    BY <2>1, <2>2, <1>1, <1>2, <1>4 DEF ConnInv, LowerInv, Has
<1>9. HigherInv'
  BY <1>1, <1>2, <1>3, <1>4 DEF ConnInv, HigherInv, Has
<1>10. SocketInv'
  <2> SUFFICES ASSUME NEW c \in DOMAIN conns PROVE SocketAt(c)'
    BY <1>2 DEF SocketInv
  <2>1. SocketAt(c) /\ (Waits(c)' <=> Waits(c))
    BY <1>1, <1>2 DEF ConnInv, SocketInv, Waits
  <2>2. conns[c].from \in Proc /\ Other(conns[c].from) \in Proc
    <3>1. conns[c] \in Sockets
      BY <1>1
    <3> QED
      BY <3>1, OtherIs DEF Sockets
  <2>3. conns'[c].closed[0] \/ conns'[c].closed[1]
    BY <1>2, <1>4 DEF Proc
  <2> QED
    BY <2>1, <2>2, <2>3, <1>1, <1>2 DEF SocketAt
<1>11. ChoiceInv'
  <2> SUFFICES ASSUME NEW c \in DOMAIN conns PROVE ChoiceAt(c)'
    BY <1>2 DEF ChoiceInv
  <2>1. ChoiceAt(c)
    BY DEF ConnInv, ChoiceInv
  <2> QED
    BY <2>1, <1>1, <1>2, <1>4 DEF ChoiceAt
<1> QED
  BY <1>5, <1>6, <1>7, <1>8, <1>9, <1>10, <1>11 DEF ConnInv

-----------------------------------------------------------------------------
(* Reading, writing, closing and accepting. *)

\* What has to be shown of a handler, besides what the lemmas above say.
LEMMA HandlerStep ==
    ASSUME ConnInv, NEW p \in Proc, NEW pr, NEW evs, Handles(p, pr, evs),
           Len(conns') <= MaxConn, pr.sd <= Len(conns'), pr.active <= Len(pr.addrs),
           known' \in [Proc -> BOOLEAN], received' \in [Proc -> Seq(Nat)],
           completed' \in [Proc -> Seq(Nat)], issued' = issued,
           \A i \in DOMAIN evs : evs[i].op = "failed" => Head(queue[p]).op = "try",
           \A j \in 2..Len(queue[p]) :
              queue[p][j].op \in {"read", "write"} /\ Registered(pr, queue[p][j])
                 => ~conns'[pr.sd].closed[p],
           PeerAt(p)', p = 0 => LowerInv', p = 1 => HigherInv', SocketInv', ChoiceInv'
    PROVE ConnInv'
<1>1. TypeOK'
  BY TypeStep DEF ConnInv
<1>2. QueueInv'
  BY QueueStep DEF ConnInv
<1>3. PeerAt(Other(p))' /\ (p = 0 => HigherInv') /\ (p = 1 => LowerInv')
  BY OtherStep
<1>4. PeerInv'
  <2>1. \A r \in Proc : r = p \/ r = Other(p)
    BY OtherIs
  <2> QED
    BY <2>1, <1>3 DEF PeerInv
<1>5. LowerInv' /\ HigherInv'
  BY <1>3 DEF Proc
<1> QED
  BY <1>1, <1>2, <1>4, <1>5 DEF ConnInv

\* A socket that p has let go of does not wait for it.
LEMMA NotWaiting ==
    ASSUME ConnInv, NEW p \in Proc, NEW c \in DOMAIN conns, Waits(c), peer[p].sd = c
    PROVE /\ conns[c].from = p /\ conns[c].stream[p] = <<>> /\ peer[p].state # "CONNECTED"
          /\ peer[Other(p)].sd # c
<1>1. conns[c] \in Sockets
  BY DEF ConnInv, TypeOK
<1>2. conns[c].from \in Proc
  BY <1>1 DEF Sockets
<1> QED
  BY <1>2, OtherIs DEF ConnInv, SocketInv, SocketAt

\* A socket event at the head of the queue: p is not failing, and the higher rank
\* is not trying to connect on a socket that is set up.
LEMMA SocketHead ==
    ASSUME ConnInv, NEW p \in Proc, queue[p] # <<>>, Head(queue[p]).op \in SocketOps
    PROVE /\ EventInv(p, Head(queue[p])) /\ ~Has(p, "failed")
          /\ \A j \in 2..Len(queue[p]) : queue[p][j] # Head(queue[p])
<1>1. Head(queue[p]) = queue[p][1] /\ 1 \in DOMAIN queue[p] /\ queue[p] \in Seq(Events)
  BY Heads DEF ConnInv, TypeOK
<1>2. QueueAt(p)
  BY DEF ConnInv, QueueInv
<1>3. \A j \in 2..Len(queue[p]) : j \in DOMAIN queue[p] /\ j # 1
  BY <1>1
<1> QED
  BY <1>1, <1>2, <1>3 DEF QueueAt, Has

\* The events that p leaves.
LEMMA NoneAdded ==
    ASSUME ConnInv, NEW p \in Proc, NEW pr, NEW evs, Handles(p, pr, evs),
           NEW op \in {"try", "failed"}, ~Has(p, op)
    PROVE Has(p, op)' <=> \E k \in DOMAIN evs : evs[k].op = op
<1>1. queue[p] \in Seq(Events)
  BY DEF ConnInv, TypeOK
<1>2. \A j \in 2..Len(queue[p]) : queue[p][j].op # op
  <2>1. \A j \in 2..Len(queue[p]) : j \in DOMAIN queue[p]
    BY <1>1
  <2> QED
    BY <2>1 DEF Has
<1> QED
  BY <1>2, HasStep DEF ConnInv

\* A handler that closes the socket of p, and keeps it or not.
LEMMA CloseStep ==
    ASSUME ConnInv, NEW p \in Proc, NEW pr, NEW evs, Handles(p, pr, evs),
           peer[p].sd # NoSock, IsClosed(conns, peer[p].sd, p, conns'),
           pr.sd \in {NoSock, peer[p].sd}, pr.state # "CONNECTED",
           pr.state = "CONNECT_ACK" => pr.sd = peer[p].sd /\ peer[p].state = "CONNECT_ACK" /\ ~pr.send_ev,
           pr.sd # NoSock => \A j \in 2..Len(queue[p]) :
              queue[p][j].op \in {"read", "write"} => ~Registered(pr, queue[p][j]),
           ~Has(p, "failed"), Len(evs) <= 1, \A i \in DOMAIN evs : evs[i].op # "failed",
           p = 1 => /\ ~Has(1, "try")
                    /\ conns[peer[1].sd].closed[0] \/ conns[peer[1].sd].est # "up"
                    /\ \/ pr.state = "CLOSED" /\ pr.sd = NoSock /\ \A i \in DOMAIN evs : evs[i].op # "try"
                       \/ pr.state = "CONNECTING" /\ pr.sd = NoSock /\ \E i \in DOMAIN evs : evs[i].op = "try"
                       \/ /\ pr.state = "CONNECT_ACK" /\ pr.sd = peer[1].sd
                          /\ \A i \in DOMAIN evs : evs[i].op # "try",
           pr.active <= Len(pr.addrs), known' \in [Proc -> BOOLEAN],
           received' = received, completed' = completed, issued' = issued
    PROVE ConnInv'
<1> DEFINE sd == peer[p].sd
           q == Other(p)
<1>1. /\ TypeOK /\ q \in Proc /\ q # p /\ (\A r \in Proc : r = p \/ r = q) /\ 0 \in Proc /\ 1 \in Proc
      /\ peer'[p] = pr /\ peer'[q] = peer[q] /\ broken' = broken /\ ~broken[p]
  BY Queues, OtherIs DEF ConnInv, Handles, Proc
<1>2. /\ conns \in Seq(Sockets) /\ conns' \in Seq(Sockets) /\ Len(conns') = Len(conns)
      /\ DOMAIN conns' = DOMAIN conns /\ sd \in DOMAIN conns
      /\ \A c \in DOMAIN conns :
          /\ conns'[c].from = conns[c].from /\ conns'[c].est = conns[c].est
          /\ conns'[c].pending = conns[c].pending /\ conns'[c].stream = conns[c].stream
          /\ conns'[c].reset => conns[c].reset \/ c = sd
          /\ \A r \in Proc : conns'[c].closed[r] <=> conns[c].closed[r] \/ (c = sd /\ r = p)
  <2>1. conns \in Seq(Sockets) /\ sd \in DOMAIN conns
    BY <1>1, UsedSockets DEF TypeOK
  <2>2. DOMAIN conns = 1..Len(conns) /\ conns' \in Seq(Sockets) /\ Len(conns') = Len(conns)
    BY <2>1 DEF IsClosed
  <2>3. DOMAIN conns' = DOMAIN conns
    BY <2>2
  <2> HIDE DEF sd
  <2>4. IsClosed(conns, sd, p, conns')
    BY DEF sd
  <2> QED
    BY <2>1, <2>2, <2>3, <2>4 DEF IsClosed
<1>3. PeerAt(p)'
  BY <1>1, <1>2 DEF PeerAt, ConnInv, PeerInv
<1>4. ASSUME p = 0 PROVE LowerInv'
  <2>1. ~Has(0, "failed")'
    BY <1>4, NoneAdded
  <2> QED
    BY <2>1, <1>1, <1>4 DEF LowerInv
<1>5. ASSUME p = 1 PROVE HigherInv'
  <2>1. Has(1, "try")' <=> \E i \in DOMAIN evs : evs[i].op = "try"
    BY <1>5, NoneAdded
  <2>2. OneTry(1)'
    <3>1. OneTry(1)
      BY DEF ConnInv, HigherInv, OneTry
    <3>2. \A j \in 2..Len(queue[1]) : queue[1][j].op # "try"
      <4>1. queue[1] \in Seq(Events)
        BY <1>1, <1>5 DEF TypeOK
      <4>2. \A j \in 2..Len(queue[1]) : j \in DOMAIN queue[1]
        BY <4>1
      <4> QED
        BY <4>2, <1>5 DEF Has
    <3> QED
      BY <3>1, <3>2, <1>1, <1>5, OneTryStep
  <2> QED
    BY <2>1, <2>2, <1>1, <1>2, <1>5 DEF ConnInv, HigherInv, OneTry
<1>6. SocketInv'
  <2> SUFFICES ASSUME NEW c \in DOMAIN conns PROVE SocketAt(c)'
    BY <1>2 DEF SocketInv
  <2>1. Waits(c)' => Waits(c)
    BY WaitsStep DEF ConnInv
  <2>2. SocketAt(c) /\ (Waits(c) /\ c = sd => conns[c].from = p)
    BY NotWaiting DEF ConnInv, SocketInv
  <2>3. conns[c].from \in Proc /\ Other(conns[c].from) \in Proc /\ Other(conns[c].from) # conns[c].from
    <3>1. conns[c] \in Sockets
      BY <1>2
    <3> QED
      BY <3>1, OtherIs DEF Sockets
  <2>4. conns'[c].reset => conns'[c].closed[0] \/ conns'[c].closed[1]
    BY <2>2, <1>1, <1>2 DEF SocketAt, Proc
  <2>5. c # NoSock
    BY <1>2 DEF NoSock
  <2> QED
    BY <2>1, <2>2, <2>3, <2>4, <2>5, <1>1, <1>2 DEF SocketAt
<1>7. ChoiceInv'
  <2> SUFFICES ASSUME NEW c \in DOMAIN conns PROVE ChoiceAt(c)'
    BY <1>2 DEF ChoiceInv
  <2>1. ChoiceAt(c) /\ c # NoSock
    BY <1>2 DEF ConnInv, ChoiceInv, NoSock
  <2>2. CASE p = 0
    <3>1. peer'[0] = pr /\ peer'[1] = peer[1]
      BY <2>2, <1>1 DEF Other
    <3> QED
      BY <2>1, <2>2, <3>1, <1>1, <1>2 DEF ChoiceAt
  <2>3. CASE p = 1
    <3>1. peer'[1] = pr /\ peer'[0] = peer[0]
      BY <2>3, <1>1 DEF Other
    <3>2. peer[1].state = "CONNECTED" => conns[sd].closed[0]
      BY <2>3, <1>1 DEF ConnInv, PeerInv, PeerAt
    <3> QED
      BY <2>1, <2>3, <3>1, <3>2, <1>1, <1>2 DEF ChoiceAt
  <2> QED
    BY <2>2, <2>3 DEF Proc
<1>8. pr.sd <= Len(conns')
  <2>1. peer[p] \in Peers /\ peer[p].sd <= Len(conns) /\ Len(conns) \in Nat
    BY <1>1, <1>2 DEF TypeOK
  <2> QED
    BY <2>1, <1>2 DEF NoSock
<1>9. ASSUME NEW j \in 2..Len(queue[p]), queue[p][j].op \in {"read", "write"}, Registered(pr, queue[p][j])
      PROVE FALSE
  <2>1. EventInv(p, queue[p][j])
    <3>0. queue[p] \in Seq(Events)
      BY <1>1 DEF TypeOK
    <3>1. j \in DOMAIN queue[p]
      BY <3>0
    <3> QED
      BY <3>1 DEF ConnInv, QueueInv, QueueAt
  <2> QED
    BY <2>1, <1>9 DEF EventInv, Registered
<1>10. Len(conns') <= MaxConn /\ received' \in [Proc -> Seq(Nat)] /\ completed' \in [Proc -> Seq(Nat)]
  BY <1>1, <1>2 DEF TypeOK
<1> QED
  BY <1>3, <1>4, <1>5, <1>6, <1>7, <1>8, <1>9, <1>10, HandlerStep

\* The head of a sequence that an item is appended to.
LEMMA HeadOfAppend ==
    \A s \in Seq(Nat), m \in Nat : /\ Append(s, m) # <<>>
                                   /\ s # <<>> => Head(Append(s, m)) = Head(s)
                                   /\ s = <<>> => Head(Append(s, m)) = m
OBVIOUS

\* A handler that writes to the socket of p: a connect-ack, or a message when p is
\* connected.
LEMMA WriteStep ==
    ASSUME ConnInv, NEW p \in Proc, NEW pr, Handles(p, pr, <<>>), NEW m \in Nat,
           peer[p].sd # NoSock, IsWritten(conns, peer[p].sd, p, m, conns'),
           conns[peer[p].sd].est = "up", ~conns[peer[p].sd].closed[p],
           pr.sd = peer[p].sd,
           \/ /\ pr.state = "CONNECTED" /\ peer[p].state = "CONNECTED"
              /\ pr.send_ev => pr.outq # <<>>
           \/ /\ pr.state = "CONNECT_ACK" /\ peer[p].state # "CONNECTED" /\ m = Ident /\ ~pr.send_ev
              /\ p = 1 => peer[1].state = "CONNECTING",
           ~Has(p, "failed"), p = 1 => ~Has(1, "try"), pr.active <= Len(pr.addrs),
           known' \in [Proc -> BOOLEAN], received' = received,
           completed' \in [Proc -> Seq(Nat)], issued' = issued
    PROVE ConnInv'
<1> DEFINE sd == peer[p].sd
           q == Other(p)
<1>1. /\ TypeOK /\ q \in Proc /\ q # p /\ (\A r \in Proc : r = p \/ r = q) /\ 0 \in Proc /\ 1 \in Proc
      /\ peer'[p] = pr /\ peer'[q] = peer[q] /\ broken' = broken /\ ~broken[p]
  BY Queues, OtherIs DEF ConnInv, Handles, Proc
<1>2. /\ conns \in Seq(Sockets) /\ conns' \in Seq(Sockets) /\ Len(conns') = Len(conns)
      /\ DOMAIN conns' = DOMAIN conns /\ sd \in DOMAIN conns
      /\ \A c \in DOMAIN conns :
          /\ conns'[c].from = conns[c].from /\ conns'[c].est = conns[c].est
          /\ conns'[c].pending = conns[c].pending /\ conns'[c].closed = conns[c].closed
          /\ conns'[c].reset = conns[c].reset /\ conns'[c].stream[p] = conns[c].stream[p]
          /\ conns'[c].stream[q] = IF c = sd THEN Append(conns[c].stream[q], m) ELSE conns[c].stream[q]
  <2>1. conns \in Seq(Sockets) /\ sd \in DOMAIN conns
    BY <1>1, UsedSockets DEF TypeOK
  <2>2. DOMAIN conns = 1..Len(conns) /\ conns' \in Seq(Sockets) /\ Len(conns') = Len(conns)
    BY <2>1 DEF IsWritten
  <2>3. DOMAIN conns' = DOMAIN conns
    BY <2>2
  <2> HIDE DEF sd, q
  <2>4. IsWritten(conns, sd, p, m, conns')
    BY DEF sd
  <2>5. \A c \in DOMAIN conns :
          /\ conns'[c].from = conns[c].from /\ conns'[c].est = conns[c].est
          /\ conns'[c].pending = conns[c].pending /\ conns'[c].closed = conns[c].closed
          /\ conns'[c].reset = conns[c].reset
    BY <2>2, <2>4 DEF IsWritten
  <2>6. \A c \in DOMAIN conns :
          /\ conns'[c].stream[p] = conns[c].stream[p]
          /\ conns'[c].stream[q] = IF c = sd THEN Append(conns[c].stream[q], m) ELSE conns[c].stream[q]
    <3> TAKE c \in DOMAIN conns
    <3>1. \A r \in Proc : conns'[c].stream[r] =
              IF c = sd /\ r # p THEN Append(conns[c].stream[r], m) ELSE conns[c].stream[r]
      BY <2>2, <2>4 DEF IsWritten
    <3> QED
      BY <3>1, <1>1
  <2> QED
    BY <2>1, <2>2, <2>3, <2>5, <2>6
<1>3. PeerAt(p)'
  BY <1>1, <1>2 DEF PeerAt, ConnInv, PeerInv
<1>4. ASSUME p = 0 PROVE LowerInv'
  <2>1. ~Has(0, "failed")'
    BY <1>4, NoneAdded
  <2> QED
    BY <2>1, <1>1, <1>2, <1>4 DEF LowerInv, ConnInv
<1>5. ASSUME p = 1 PROVE HigherInv'
  <2>1. ~Has(1, "try")'
    BY <1>5, NoneAdded
  <2>2. OneTry(1)'
    <3>1. OneTry(1)
      BY DEF ConnInv, HigherInv, OneTry
    <3> QED
      BY <3>1, <1>1, <1>5, OneTryStep
  <2> QED
    BY <2>1, <2>2, <1>1, <1>2, <1>5 DEF ConnInv, HigherInv, OneTry
<1>6. \A c \in DOMAIN conns : /\ conns[c] \in Sockets /\ conns[c].from \in Proc /\ c # NoSock
                              /\ conns[c].stream[p] \in Seq(Nat) /\ conns[c].stream[q] \in Seq(Nat)
  <2>1. \A c \in DOMAIN conns : conns[c] \in Sockets /\ c # NoSock
    BY <1>2 DEF NoSock
  <2> QED
    BY <2>1, <1>1 DEF Sockets
<1>7. SocketInv'
  <2> SUFFICES ASSUME NEW c \in DOMAIN conns PROVE SocketAt(c)'
    BY <1>2 DEF SocketInv
  <2>1. Waits(c)' => Waits(c)
    BY WaitsStep DEF ConnInv
  <2>2. SocketAt(c) /\ (Waits(c) /\ c = sd => conns[c].from = p /\ peer[p].state # "CONNECTED")
    BY NotWaiting DEF ConnInv, SocketInv
  <2>3. conns[c].from \in Proc /\ Other(conns[c].from) \in Proc /\ Other(conns[c].from) # conns[c].from
    BY <1>6, OtherIs
  <2>4. CASE c # sd
    <3>1. \A r \in Proc : conns'[c].stream[r] = conns[c].stream[r]
      <4>1. conns'[c].stream[p] = conns[c].stream[p]
        BY <1>2
      <4>2. conns'[c].stream[q] = conns[c].stream[q]
        BY <2>4, <1>2
      <4>3. \A r \in Proc : r = p \/ r = q
        BY <1>1
      <4> HIDE DEF q, sd
      <4> QED
        BY <4>1, <4>2, <4>3
    <3>2. ~(peer'[conns[c].from].state = "CONNECTED" /\ peer'[conns[c].from].sd = c)
          \/ (peer[conns[c].from].state = "CONNECTED" /\ peer[conns[c].from].sd = c)
      BY <2>3, <2>4, <1>1
    <3>3. \A r \in Proc : peer'[r].sd = c => peer[r].sd = c
      BY <2>4, <1>1
    <3>4. /\ conns'[c].from = conns[c].from /\ conns'[c].est = conns[c].est
          /\ conns'[c].pending = conns[c].pending /\ conns'[c].closed = conns[c].closed
          /\ conns'[c].reset = conns[c].reset
      BY <1>2
    <3> HIDE DEF sd, q
    <3>5. ASSUME Waits(c)'
          PROVE LET f == conns[c].from
                    o == Other(f)
                IN /\ peer'[o].sd # c /\ conns'[c].stream[f] = <<>>
                   /\ ~broken'[o] => ~conns'[c].closed[o]
                   /\ \A i \in DOMAIN conns'[c].stream[o] : conns'[c].stream[o][i] = Ident
                   /\ ~(peer'[f].state = "CONNECTED" /\ peer'[f].sd = c)
      <4>1. conns'[c].stream[conns[c].from] = conns[c].stream[conns[c].from]
            /\ conns'[c].stream[Other(conns[c].from)] = conns[c].stream[Other(conns[c].from)]
            /\ broken' = broken
        BY <2>3, <3>1, <1>1
      <4> QED
        BY <2>1, <2>2, <2>3, <3>2, <3>3, <3>4, <3>5, <4>1 DEF SocketAt
    <3>6. conns'[c].est # "up" => conns'[c].pending /\ \A r \in Proc : conns'[c].stream[r] = <<>>
      BY <2>2, <3>1, <3>4 DEF SocketAt
    <3>7. conns'[c].reset => conns'[c].closed[0] \/ conns'[c].closed[1]
      BY <2>2, <3>4 DEF SocketAt
    <3> QED
      BY <3>4, <3>5, <3>6, <3>7 DEF SocketAt
  <2>5. CASE c = sd
    <3>1. ASSUME Waits(c)
          PROVE /\ conns[c].from = p /\ Other(conns[c].from) = q /\ pr.state # "CONNECTED" /\ m = Ident
                /\ peer[q].sd # c /\ conns[c].stream[p] = <<>> /\ (~broken[q] => ~conns[c].closed[q])
                /\ \A i \in DOMAIN conns[c].stream[q] : conns[c].stream[q][i] = Ident
      BY <3>1, <2>2, <2>5 DEF SocketAt
    <3>2. ASSUME Waits(c) PROVE \A i \in DOMAIN conns'[c].stream[q] : conns'[c].stream[q][i] = Ident
      <4>1. conns'[c].stream[q] = Append(conns[c].stream[q], m) /\ conns[c].stream[q] \in Seq(Nat)
        BY <2>5, <1>2, <1>6
      <4> QED
        BY SMTT(60), <4>1, <3>1, <3>2
    <3>3. conns[c].est = "up" /\ conns'[c].est = "up" /\ conns'[c].from = conns[c].from
      BY <2>5, <1>2
    <3>4. conns'[c].reset => conns'[c].closed[0] \/ conns'[c].closed[1]
      BY <2>2, <2>5, <1>2 DEF SocketAt
    <3>5. conns'[c].closed = conns[c].closed /\ conns'[c].stream[p] = conns[c].stream[p]
          /\ peer'[q] = peer[q] /\ peer'[p] = pr /\ broken' = broken
      BY <1>1, <1>2
    <3> HIDE DEF sd, q
    <3>6. ASSUME Waits(c)'
          PROVE LET f == conns[c].from
                    o == Other(f)
                IN /\ peer'[o].sd # c /\ conns'[c].stream[f] = <<>>
                   /\ ~broken'[o] => ~conns'[c].closed[o]
                   /\ \A i \in DOMAIN conns'[c].stream[o] : conns'[c].stream[o][i] = Ident
                   /\ ~(peer'[f].state = "CONNECTED" /\ peer'[f].sd = c)
      BY <2>1, <3>1, <3>2, <3>5, <3>6
    <3> QED
      BY SMTT(60), <3>3, <3>4, <3>6 DEF SocketAt
  <2> QED
    BY <2>4, <2>5
<1>8. ChoiceInv'
  <2> SUFFICES ASSUME NEW c \in DOMAIN conns PROVE ChoiceAt(c)'
    BY <1>2 DEF ChoiceInv
  <2>1. ChoiceAt(c) /\ c # NoSock
    BY <1>2 DEF ConnInv, ChoiceInv, NoSock
  <2>2. CASE p = 0
    <3>1. peer'[0] = pr /\ peer'[1] = peer[1] /\ q = 1
      BY <2>2, <1>1 DEF Other
    <3>2. /\ conns'[c].from = conns[c].from /\ conns'[c].est = conns[c].est
          /\ conns'[c].closed = conns[c].closed /\ conns'[c].stream[0] = conns[c].stream[0]
          /\ conns'[c].stream[1] = IF c = sd THEN Append(conns[c].stream[1], m) ELSE conns[c].stream[1]
      BY <2>2, <3>1, <1>2
    <3>3. /\ conns[c].stream[1] = <<>> => m = Ident \/ c # sd \/ peer[1].state \notin {"CONNECTING", "CONNECT_ACK"} \/ peer[1].sd # c
      BY <2>1, <2>2 DEF ChoiceAt
    <3>4. IF c = sd THEN /\ conns'[c].stream[1] # <<>>
                         /\ IF conns[c].stream[1] = <<>> THEN Head(conns'[c].stream[1]) = m
                            ELSE Head(conns'[c].stream[1]) = Head(conns[c].stream[1])
                    ELSE conns'[c].stream[1] = conns[c].stream[1]
      BY ZenonT(60), <3>1, <3>2, <1>6, HeadOfAppend
    <3>5. peer'[0].sd = sd /\ (peer'[0].state = "CONNECTED" => peer[0].state = "CONNECTED")
          /\ peer[0].sd = sd
      BY <2>2, <3>1
    <3> HIDE DEF sd
    <3> QED
      BY <2>1, <3>1, <3>2, <3>3, <3>4, <3>5 DEF ChoiceAt
  <2>3. CASE p = 1
    <3>1. peer'[1] = pr /\ peer'[0] = peer[0] /\ q = 0
      BY <2>3, <1>1 DEF Other
    <3>2. /\ conns'[c].from = conns[c].from /\ conns'[c].est = conns[c].est
          /\ conns'[c].closed = conns[c].closed /\ conns'[c].stream[1] = conns[c].stream[1]
          /\ c # sd => conns'[c].stream[0] = conns[c].stream[0]
      BY <2>3, <3>1, <1>2
    <3>3. pr.state = "CONNECT_ACK" => peer[1].state = "CONNECTING" /\ conns[sd].from = 1
      BY <2>3 DEF ConnInv, HigherInv
    <3>4. peer'[1].sd = sd /\ peer[1].sd = sd
      BY <2>3, <3>1
    <3>5. \/ peer'[1].state = "CONNECTED" /\ peer[1].state = "CONNECTED"
          \/ peer'[1].state = "CONNECT_ACK" /\ peer[1].state = "CONNECTING"
      BY <2>3, <3>1, <3>3
    <3> HIDE DEF sd
    <3> QED
      BY <2>1, <3>1, <3>2, <3>3, <3>4, <3>5 DEF ChoiceAt
  <2> QED
    BY <2>2, <2>3 DEF Proc
<1>9. pr.sd <= Len(conns')
  BY <1>1, <1>2 DEF TypeOK
<1>10. Len(conns') <= MaxConn /\ received' \in [Proc -> Seq(Nat)]
  BY <1>1, <1>2 DEF TypeOK
<1>11. \A i \in DOMAIN <<>> : FALSE
  OBVIOUS
<1>12. ~conns'[pr.sd].closed[p]
  BY <1>2
<1> QED
  BY <1>3, <1>4, <1>5, <1>7, <1>8, <1>9, <1>10, <1>11, <1>12, HandlerStep

\* A handler that takes an item from the socket of p, which is connected then.
LEMMA TakeStep ==
    ASSUME ConnInv, NEW p \in Proc, NEW pr, NEW evs, Handles(p, pr, evs),
           peer[p].sd # NoSock, conns[peer[p].sd].stream[p] # <<>>,
           IsTaken(conns, peer[p].sd, p, conns'), ~conns[peer[p].sd].closed[p],
           pr.sd = peer[p].sd, pr.state = "CONNECTED", pr.send_ev => pr.outq # <<>>,
           peer[p].state \in {"CONNECTED", "CONNECT_ACK"},
           ~Has(p, "failed"), \A i \in DOMAIN evs : evs[i].op \notin {"try", "failed"},
           pr.active <= Len(pr.addrs), known' \in [Proc -> BOOLEAN],
           received' \in [Proc -> Seq(Nat)], completed' = completed, issued' = issued
    PROVE ConnInv'
<1> DEFINE sd == peer[p].sd
           q == Other(p)
<1>1. /\ TypeOK /\ q \in Proc /\ q # p /\ (\A r \in Proc : r = p \/ r = q) /\ 0 \in Proc /\ 1 \in Proc
      /\ peer'[p] = pr /\ peer'[q] = peer[q] /\ broken' = broken /\ ~broken[p]
  BY Queues, OtherIs DEF ConnInv, Handles, Proc
<1>2. /\ conns \in Seq(Sockets) /\ conns' \in Seq(Sockets) /\ Len(conns') = Len(conns)
      /\ DOMAIN conns' = DOMAIN conns /\ sd \in DOMAIN conns
      /\ \A c \in DOMAIN conns :
          /\ conns'[c].from = conns[c].from /\ conns'[c].est = conns[c].est
          /\ conns'[c].pending = conns[c].pending /\ conns'[c].closed = conns[c].closed
          /\ conns'[c].reset = conns[c].reset /\ conns'[c].stream[q] = conns[c].stream[q]
          /\ c # sd => conns'[c].stream[p] = conns[c].stream[p]
  <2>1. conns \in Seq(Sockets) /\ sd \in DOMAIN conns
    BY <1>1, UsedSockets DEF TypeOK
  <2>2. DOMAIN conns = 1..Len(conns) /\ conns' \in Seq(Sockets) /\ Len(conns') = Len(conns)
    BY <2>1 DEF IsTaken
  <2>3. DOMAIN conns' = DOMAIN conns
    BY <2>2
  <2> HIDE DEF sd, q
  <2>4. IsTaken(conns, sd, p, conns')
    BY DEF sd
  <2>5. \A c \in DOMAIN conns :
          /\ conns'[c].from = conns[c].from /\ conns'[c].est = conns[c].est
          /\ conns'[c].pending = conns[c].pending /\ conns'[c].closed = conns[c].closed
          /\ conns'[c].reset = conns[c].reset
    BY <2>2, <2>4 DEF IsTaken
  <2>6. \A c \in DOMAIN conns :
          /\ conns'[c].stream[q] = conns[c].stream[q]
          /\ c # sd => conns'[c].stream[p] = conns[c].stream[p]
    <3> TAKE c \in DOMAIN conns
    <3>1. \A r \in Proc : conns'[c].stream[r] =
              IF c = sd /\ r = p THEN Tail(conns[c].stream[r]) ELSE conns[c].stream[r]
      BY <2>2, <2>4 DEF IsTaken
    <3> QED
      BY <3>1, <1>1
  <2> QED
    BY <2>1, <2>2, <2>3, <2>5, <2>6
<1>3. conns[sd].est = "up" /\ (p = 1 => ~Has(1, "try"))
  BY DEF ConnInv, PeerInv, PeerAt, HigherInv
<1>4. PeerAt(p)'
  BY <1>1, <1>2, <1>3 DEF PeerAt
<1>5. ASSUME p = 0 PROVE LowerInv'
  <2>1. ~Has(0, "failed")'
    BY <1>5, NoneAdded
  <2> QED
    BY <2>1, <1>1, <1>2, <1>5 DEF LowerInv
<1>6. ASSUME p = 1 PROVE HigherInv'
  <2>1. ~Has(1, "try")'
    BY <1>3, <1>6, NoneAdded
  <2>2. OneTry(1)'
    <3>1. OneTry(1)
      BY DEF ConnInv, HigherInv, OneTry
    <3> QED
      BY <3>1, <1>1, <1>6, OneTryStep
  <2> QED
    BY <2>1, <2>2, <1>1, <1>2, <1>6 DEF HigherInv, OneTry
<1>7. SocketInv'
  <2> SUFFICES ASSUME NEW c \in DOMAIN conns PROVE SocketAt(c)'
    BY <1>2 DEF SocketInv
  <2>1. Waits(c)' => Waits(c) /\ c # sd
    <3>1. Waits(c)' => Waits(c)
      BY WaitsStep DEF ConnInv
    <3>2. Waits(c) => c # sd
      BY NotWaiting
    <3> QED
      BY <3>1, <3>2
  <2>2. SocketAt(c)
    BY DEF ConnInv, SocketInv
  <2>3. conns[c].from \in Proc /\ Other(conns[c].from) \in Proc
    <3>1. conns[c] \in Sockets
      BY <1>2
    <3> QED
      BY <3>1, OtherIs DEF Sockets
  <2>4. /\ conns'[c].from = conns[c].from /\ conns'[c].est = conns[c].est
        /\ conns'[c].pending = conns[c].pending /\ conns'[c].closed = conns[c].closed
        /\ conns'[c].reset = conns[c].reset
    BY <1>2
  <2>5. c # sd => \A r \in Proc : /\ conns'[c].stream[r] = conns[c].stream[r]
                                  /\ peer'[r].sd = c <=> peer[r].sd = c
                                  /\ peer'[r].sd = c => peer'[r].state = peer[r].state
    BY <1>1, <1>2
  <2> HIDE DEF sd, q
  <2>6. ASSUME Waits(c)'
        PROVE LET f == conns[c].from
                  o == Other(f)
              IN /\ peer'[o].sd # c /\ conns'[c].stream[f] = <<>>
                 /\ ~broken'[o] => ~conns'[c].closed[o]
                 /\ \A i \in DOMAIN conns'[c].stream[o] : conns'[c].stream[o][i] = Ident
                 /\ ~(peer'[f].state = "CONNECTED" /\ peer'[f].sd = c)
    <3>1. Waits(c) /\ c # sd
      BY <2>1, <2>6
    <3>2. /\ conns'[c].stream[conns[c].from] = conns[c].stream[conns[c].from]
          /\ conns'[c].stream[Other(conns[c].from)] = conns[c].stream[Other(conns[c].from)]
          /\ peer'[Other(conns[c].from)].sd = c => peer[Other(conns[c].from)].sd = c
          /\ peer'[conns[c].from].sd = c => /\ peer[conns[c].from].sd = c
                                            /\ peer'[conns[c].from].state = peer[conns[c].from].state
      BY <3>1, <2>3, <2>5
    <3> QED
      BY <3>1, <3>2, <2>2, <2>4, <1>1 DEF SocketAt
  <2>7. conns'[c].est # "up" => conns'[c].pending /\ \A r \in Proc : conns'[c].stream[r] = <<>>
    <3>1. conns'[c].est # "up" => c # sd
      BY <1>3, <2>4 DEF sd
    <3> QED
      BY <3>1, <2>2, <2>4, <2>5 DEF SocketAt
  <2>8. conns'[c].reset => conns'[c].closed[0] \/ conns'[c].closed[1]
    BY <2>2, <2>4 DEF SocketAt
  <2> QED
    BY <2>4, <2>6, <2>7, <2>8 DEF SocketAt
<1>8. ChoiceInv'
  <2> SUFFICES ASSUME NEW c \in DOMAIN conns PROVE ChoiceAt(c)'
    BY <1>2 DEF ChoiceInv
  <2>1. ChoiceAt(c)
    BY DEF ConnInv, ChoiceInv
  <2>2. /\ conns'[c].from = conns[c].from /\ conns'[c].est = conns[c].est
        /\ conns'[c].closed = conns[c].closed
        /\ c # sd => conns'[c].stream[p] = conns[c].stream[p]
        /\ c = sd => conns[c].stream[p] # <<>>
        /\ conns'[c].stream[q] = conns[c].stream[q]
    BY <1>2
  <2>3. CASE p = 0
    <3>1. peer'[0] = pr /\ peer'[1] = peer[1] /\ q = 1
      BY <2>3, <1>1 DEF Other
    <3>2. peer'[0].sd = sd /\ peer[0].sd = sd /\ peer'[0].state = "CONNECTED"
      BY <2>3, <3>1
    <3> HIDE DEF sd, q
    <3> QED
      BY <2>1, <2>2, <2>3, <3>1, <3>2 DEF ChoiceAt
  <2>4. CASE p = 1
    <3>1. peer'[1] = pr /\ peer'[0] = peer[0] /\ q = 0
      BY <2>4, <1>1 DEF Other
    <3>2. peer'[1].sd = sd /\ peer[1].sd = sd /\ peer'[1].state = "CONNECTED"
      BY <2>4, <3>1
    <3> HIDE DEF sd, q
    <3> QED
      BY <2>1, <2>2, <2>4, <3>1, <3>2 DEF ChoiceAt
  <2> QED
    BY <2>3, <2>4 DEF Proc
<1>9. pr.sd <= Len(conns') /\ Len(conns') <= MaxConn /\ completed' \in [Proc -> Seq(Nat)]
  BY <1>1, <1>2 DEF TypeOK
<1>10. ~conns'[pr.sd].closed[p]
  BY <1>2
<1> QED
  BY <1>4, <1>5, <1>6, <1>7, <1>8, <1>9, <1>10, HandlerStep

\* A handler that closes a socket it does not take.
LEMMA RejectStep ==
    ASSUME ConnInv, NEW p \in Proc, Handles(p, peer[p], <<>>), NEW c \in DOMAIN conns,
           Head(queue[p]) = Ev("accept", c), IsClosed(conns, c, p, conns'),
           conns[c].from # p, known' \in [Proc -> BOOLEAN],
           received' = received, completed' = completed, issued' = issued
    PROVE ConnInv'
<1> DEFINE q == Other(p)
<1>1. /\ TypeOK /\ q \in Proc /\ q # p /\ (\A r \in Proc : r = p \/ r = q) /\ 0 \in Proc /\ 1 \in Proc
      /\ peer'[p] = peer[p] /\ peer'[q] = peer[q] /\ broken' = broken /\ ~broken[p]
      /\ queue[p] # <<>> /\ Head(queue[p]).op = "accept" /\ queue[p] \in Seq(Events)
  <2>1. peer'[p] = peer[p] /\ peer'[q] = peer[q]
    BY Queues DEF ConnInv
  <2> QED
    BY <2>1, OtherIs DEF ConnInv, Handles, Proc, Ev, TypeOK
<1>2. /\ conns \in Seq(Sockets) /\ conns' \in Seq(Sockets) /\ Len(conns') = Len(conns)
      /\ DOMAIN conns' = DOMAIN conns
      /\ \A d \in DOMAIN conns :
          /\ conns'[d].from = conns[d].from /\ conns'[d].est = conns[d].est
          /\ conns'[d].pending = conns[d].pending /\ conns'[d].stream = conns[d].stream
          /\ conns'[d].reset => conns[d].reset \/ d = c
          /\ \A r \in Proc : conns'[d].closed[r] <=> conns[d].closed[r] \/ (d = c /\ r = p)
  <2>1. conns \in Seq(Sockets)
    BY <1>1 DEF TypeOK
  <2>2. DOMAIN conns = 1..Len(conns) /\ conns' \in Seq(Sockets) /\ Len(conns') = Len(conns)
    BY <2>1 DEF IsClosed
  <2> QED
    BY <2>1, <2>2 DEF IsClosed
<1>3. Waits(c) /\ p = Other(conns[c].from) /\ peer[p].sd # c
  <2>1. conns[c] \in Sockets
    BY <1>2
  <2>2. p = Other(conns[c].from)
    BY <2>1, OtherIs DEF Sockets
  <2>3. Head(queue[p]) = queue[p][1] /\ 1 \in DOMAIN queue[p]
    BY <1>1
  <2>4. Waits(c)
    BY <2>2, <2>3 DEF Waits
  <2> QED
    BY <2>2, <2>4 DEF ConnInv, SocketInv, SocketAt
<1>4. \A r \in Proc : peer'[r] = peer[r]
  BY <1>1
<1>5. \A r \in Proc : peer[r].sd # NoSock => peer[r].sd \in DOMAIN conns
  BY <1>1, UsedSockets
<1>6. PeerAt(p)'
  BY <1>1, <1>2, <1>4, <1>5 DEF PeerAt, ConnInv, PeerInv
<1>7. ~Has(p, "failed")
  BY <1>1, SocketHead DEF SocketOps
<1>8. ASSUME p = 0 PROVE LowerInv'
  <2>1. ~Has(0, "failed")'
    BY <1>7, <1>8, NoneAdded
  <2>2. peer[0].state = "CONNECTED" => peer[0].sd \in DOMAIN conns
    BY <1>1, <1>5 DEF ConnInv, PeerInv, PeerAt
  <2>3. peer'[0] = peer[0] /\ peer[0].sd # c
    BY <1>8, <1>1, <1>3
  <2> QED
    BY <2>1, <2>2, <2>3, <1>1, <1>2 DEF ConnInv, LowerInv
<1>9. ASSUME p = 1 PROVE HigherInv'
  <2>1. Has(1, "try")' <=> Has(1, "try")
    <3>1. Has(1, "try")' <=> \E j \in 2..Len(queue[1]) : queue[1][j].op = "try"
      BY <1>1, <1>9, HasStep
    <3>2. Head(queue[1]) = queue[1][1] /\ DOMAIN queue[1] = 1..Len(queue[1]) /\ Len(queue[1]) \in Nat
      BY <1>1, <1>9
    <3>3. queue[1][1].op # "try"
      BY <3>2, <1>1, <1>9
    <3> QED
      BY <3>1, <3>2, <3>3 DEF Has
  <2>2. OneTry(1)'
    <3>1. OneTry(1)
      BY DEF ConnInv, HigherInv, OneTry
    <3> QED
      BY <3>1, <1>1, <1>9, OneTryStep
  <2>3. peer'[1] = peer[1]
    BY <1>1, <1>9
  <2> QED
    BY <2>1, <2>2, <2>3, <1>1, <1>2, <1>5 DEF ConnInv, HigherInv, OneTry
<1>10. SocketInv'
  <2> SUFFICES ASSUME NEW d \in DOMAIN conns PROVE SocketAt(d)'
    BY <1>2 DEF SocketInv
  <2>1. Waits(d)' => Waits(d) /\ d # c
    BY WaitsStep DEF ConnInv
  <2>2. SocketAt(d)
    BY DEF ConnInv, SocketInv
  <2>3. conns[d].from \in Proc /\ Other(conns[d].from) \in Proc
    <3>1. conns[d] \in Sockets
      BY <1>2
    <3> QED
      BY <3>1, OtherIs DEF Sockets
  <2>4. conns'[d].reset => conns'[d].closed[0] \/ conns'[d].closed[1]
    BY <2>2, <1>1, <1>2 DEF SocketAt, Proc
  <2> QED
    BY <2>1, <2>2, <2>3, <2>4, <1>1, <1>2, <1>4 DEF SocketAt
<1>11. ChoiceInv'
  <2> SUFFICES ASSUME NEW d \in DOMAIN conns PROVE ChoiceAt(d)'
    BY <1>2 DEF ChoiceInv
  <2>1. ChoiceAt(d)
    BY SMTT(60) DEF ConnInv, ChoiceInv
  <2> QED
    BY <2>1, <1>1, <1>2, <1>4 DEF ChoiceAt
<1>12. ASSUME NEW j \in 2..Len(queue[p]), queue[p][j].op \in {"read", "write"}
       PROVE ~conns'[peer[p].sd].closed[p]
  <2>1. j \in DOMAIN queue[p]
    BY <1>1
  <2>2. EventInv(p, queue[p][j])
    BY <2>1 DEF ConnInv, QueueInv, QueueAt
  <2> QED
    BY <2>2, <1>12, <1>1, <1>2, <1>3, <1>5 DEF EventInv, Registered
<1>13. /\ peer[p].sd <= Len(conns') /\ Len(conns') <= MaxConn /\ peer[p].active <= Len(peer[p].addrs)
       /\ received' \in [Proc -> Seq(Nat)] /\ completed' \in [Proc -> Seq(Nat)]
  BY <1>1, <1>2 DEF TypeOK
<1>14. \A i \in DOMAIN <<>> : FALSE
  OBVIOUS
<1> QED
  BY <1>6, <1>8, <1>9, <1>10, <1>11, <1>12, <1>13, <1>14, HandlerStep

-----------------------------------------------------------------------------
(* The handlers of a socket that is in use. *)

LEMMA ChangeGrows ==
    ASSUME TypeOK, NEW p \in Proc, NEW c \in DOMAIN conns,
           \/ IsClosed(conns, c, p, conns') \/ IsTaken(conns, c, p, conns')
           \/ \E m \in Nat : IsWritten(conns, c, p, m, conns')
    PROVE Grows(p)
<1>1. conns \in Seq(Sockets) /\ Other(p) \in Proc /\ Other(p) # p
  BY OtherIs DEF TypeOK
<1>0. \A s \in Sockets : \A r \in Proc : s.closed[r] \in BOOLEAN
  BY DEF Sockets
<1>2. \A d \in 1..Len(conns) : conns[d].closed[Other(p)] \in BOOLEAN
  <2>1. \A d \in 1..Len(conns) : conns[d] \in Sockets
    BY <1>1
  <2> QED
    BY <2>1, <1>0, <1>1
<1>3. CASE IsClosed(conns, c, p, conns')
  <2>0. \A d \in 1..Len(conns) : conns'[d] \in Sockets
    BY <1>3, <1>1 DEF IsClosed
  <2>1. \A d \in 1..Len(conns) : conns'[d].closed[Other(p)] \in BOOLEAN
    BY <2>0, <1>0, <1>1
  <2> QED
    BY <2>1, <1>1, <1>2, <1>3 DEF IsClosed, Grows
<1>4. CASE IsTaken(conns, c, p, conns')
  BY <1>1, <1>4 DEF IsTaken, Grows
<1>5. CASE \E m \in Nat : IsWritten(conns, c, p, m, conns')
  BY <1>1, <1>5 DEF IsWritten, Grows
<1> QED
  BY <1>3, <1>4, <1>5

\* One address is replaced.
LEMMA ReplacedIs ==
    ASSUME NEW x \in Peers, x.active <= Len(x.addrs), x.active # 0, NEW v \in Addresses
    PROVE /\ [x.addrs EXCEPT ![x.active] = v] \in Seq(Addresses)
          /\ Len([x.addrs EXCEPT ![x.active] = v]) = Len(x.addrs)
<1>1. x.addrs \in Seq(Addresses) /\ x.active \in Nat
  BY DEF Peers
<1>2. x.active \in 1..Len(x.addrs)
  BY <1>1
<1> QED
  BY <1>1, <1>2, ExceptSeq

\* The active address is in the list.
LEMMA ActiveIs ==
    ASSUME NEW x \in Peers, x.active <= Len(x.addrs), x.active # 0
    PROVE x.addrs[x.active] \in Addresses
<1>1. x.addrs \in Seq(Addresses) /\ x.active \in Nat
  BY DEF Peers
<1>2. x.active \in 1..Len(x.addrs)
  BY <1>1
<1> HIDE DEF Addresses
<1> QED
  BY <1>1, <1>2

LEMMA ConnectedIs ==
    ASSUME NEW x \in Peers, x.active <= Len(x.addrs)
    PROVE /\ Connected(x) \in Peers /\ Connected(x).state = "CONNECTED"
          /\ Connected(x).sd = x.sd /\ Connected(x).outq = x.outq
          /\ Connected(x).active = x.active /\ Len(Connected(x).addrs) = Len(x.addrs)
          /\ Connected(x).send_ev => x.send_ev \/ x.outq # <<>>
<1> DEFINE v == [x.addrs[x.active] EXCEPT !.retries = 0]
           as == IF x.active = 0 THEN x.addrs ELSE [x.addrs EXCEPT ![x.active] = v]
           on == x.send_ev \/ x.outq # <<>>
<1>1. x.addrs \in Seq(Addresses) /\ x.active \in Nat /\ on \in BOOLEAN
  BY DEF Peers
<1>2. as \in Seq(Addresses) /\ Len(as) = Len(x.addrs)
  <2>1. CASE x.active = 0
    BY <1>1, <2>1
  <2>2. CASE x.active # 0
    <3>1. v \in Addresses
      BY <2>2, ActiveIs DEF Addresses, MaxRetries
    <3> HIDE DEF v
    <3> QED
      BY <2>2, <3>1, ReplacedIs
  <2> QED
    BY <2>1, <2>2
<1>3. Connected(x) = [x EXCEPT !.state = "CONNECTED", !.recv_ev = TRUE, !.send_ev = on, !.addrs = as]
  BY DEF Connected
<1>4. on => x.send_ev \/ x.outq # <<>>
  OBVIOUS
<1> HIDE DEF as, on
<1> QED
  BY <1>1, <1>2, <1>3, <1>4 DEF Peers, States

LEMMA MarkedIs ==
    ASSUME NEW x \in Peers, x.active <= Len(x.addrs), NEW failed \in BOOLEAN
    PROVE Marked(x, failed) \in Seq(Addresses) /\ Len(Marked(x, failed)) = Len(x.addrs)
<1> DEFINE v == [x.addrs[x.active] EXCEPT !.failed = failed]
<1>1. CASE x.active = 0
  BY <1>1 DEF Marked, Peers
<1>2. CASE x.active # 0
  <2>1. v \in Addresses
    BY <1>2, ActiveIs DEF Addresses
  <2>2. Marked(x, failed) = [x.addrs EXCEPT ![x.active] = v]
    BY <1>2 DEF Marked
  <2> HIDE DEF v
  <2> QED
    BY <1>2, <2>1, <2>2, ReplacedIs
<1> QED
  BY <1>1, <1>2

LEMMA PeerCloseIs ==
    ASSUME NEW x \in Peers, x.active <= Len(x.addrs)
    PROVE /\ PeerClose(x) \in Peers /\ PeerClose(x).sd = NoSock
          /\ PeerClose(x).state = (IF x.state = "CONNECTING" THEN "CONNECTING" ELSE "CLOSED")
          /\ PeerClose(x).active = x.active /\ Len(PeerClose(x).addrs) = Len(x.addrs)
<1>1. NoSock \in Nat
  BY DEF NoSock
<1>2. CASE x.state = "CONNECTING"
  <2> DEFINE as == Marked(x, TRUE)
  <2>1. PeerClose(x) = [x EXCEPT !.sd = NoSock, !.addrs = as]
    BY <1>2 DEF PeerClose
  <2>2. as \in Seq(Addresses) /\ Len(as) = Len(x.addrs)
    BY MarkedIs
  <2> HIDE DEF as
  <2> QED
    BY <1>1, <1>2, <2>1, <2>2 DEF Peers
<1>3. CASE x.state # "CONNECTING"
  <2> DEFINE as == Marked(x, FALSE)
  <2>1. PeerClose(x) = [x EXCEPT !.send_ev = FALSE, !.recv_ev = FALSE, !.sd = NoSock,
                                 !.addrs = as, !.state = "CLOSED"]
    BY <1>3 DEF PeerClose, EventsOff, Peers
  <2>2. as \in Seq(Addresses) /\ Len(as) = Len(x.addrs)
    BY MarkedIs
  <2> HIDE DEF as
  <2> QED
    BY <1>1, <1>3, <2>1, <2>2 DEF Peers, States
<1> QED
  BY <1>2, <1>3

LEMMA EventsOffIs ==
    \A x \in Peers :
        /\ EventsOff(x) \in Peers /\ ~EventsOff(x).send_ev /\ ~EventsOff(x).recv_ev
        /\ EventsOff(x).sd = x.sd /\ EventsOff(x).outq = x.outq /\ EventsOff(x).state = x.state
        /\ EventsOff(x).active = x.active /\ EventsOff(x).addrs = x.addrs
BY DEF EventsOff, Peers

\* Stepping aside for the other's connection.
LEMMA AsideIs ==
    ASSUME NEW x \in Peers
    PROVE LET y == [EventsOff(x) EXCEPT !.state = "UNCONNECTED"] IN
          /\ y \in Peers /\ y.sd = x.sd /\ y.active = x.active /\ y.addrs = x.addrs /\ y.outq = x.outq
          /\ y.state = "UNCONNECTED" /\ ~y.send_ev /\ ~y.recv_ev
<1> DEFINE z == EventsOff(x)
           y == [z EXCEPT !.state = "UNCONNECTED"]
<1>1. /\ z \in Peers /\ z.sd = x.sd /\ z.active = x.active /\ z.addrs = x.addrs /\ z.outq = x.outq
      /\ ~z.send_ev /\ ~z.recv_ev
  BY EventsOffIs
<1> HIDE DEF z
<1>2. "UNCONNECTED" \in States
  BY DEF States
<1>3. y \in Peers
  BY <1>1, <1>2 DEF Peers
<1>4. /\ y.sd = z.sd /\ y.active = z.active /\ y.addrs = z.addrs /\ y.outq = z.outq
      /\ y.state = "UNCONNECTED" /\ y.send_ev = z.send_ev /\ y.recv_ev = z.recv_ev
  BY <1>1 DEF Peers
<1> QED
  BY <1>1, <1>3, <1>4 DEF z

LEMMA ResultsAre ==
    ASSUME NEW c, NEW p, NEW res \in ReadResults(c, p)
    PROVE /\ res = "item" => conns[c].stream[p] # <<>>
          /\ res \in {"end", "error"} => conns[c].closed[Other(p)] \/ conns[c].reset
BY DEF ReadResults

\* What is so when p runs on an event of its socket.
LEMMA UseStarts ==
    ASSUME ConnInv, NEW p \in Proc, Runs(p, "read") \/ Runs(p, "write")
    PROVE /\ queue[p] # <<>> /\ ~broken[p] /\ peer[p].sd # NoSock /\ peer[p].sd \in DOMAIN conns
          /\ peer[p].sd \in 1..Len(conns) /\ peer[p].sd \in 0..Len(conns)
          /\ ~conns[peer[p].sd].closed[p] /\ ~Has(p, "failed")
          /\ Runs(p, "write") => peer[p].send_ev /\ conns[peer[p].sd].est \in {"up", "refused"}
          /\ TypeOK /\ peer[p] \in Peers /\ peer[p].active <= Len(peer[p].addrs)
          /\ conns \in Seq(Sockets)
<1>1. queue[p] # <<>> /\ ~broken[p] /\ Head(queue[p]).op \in {"read", "write"}
      /\ (Runs(p, "write") => Head(queue[p]).op = "write")
  BY DEF Runs
<1>2. EventInv(p, Head(queue[p])) /\ ~Has(p, "failed")
  BY <1>1, SocketHead DEF SocketOps
<1>3. peer[p].sd # NoSock /\ Head(queue[p]).x = peer[p].sd /\ ~conns[peer[p].sd].closed[p]
      /\ (Runs(p, "write") => peer[p].send_ev /\ conns[peer[p].sd].est \in {"up", "refused"})
  BY <1>1, <1>2 DEF EventInv, Registered
<1>4. TypeOK /\ peer[p] \in Peers /\ peer[p].active <= Len(peer[p].addrs) /\ conns \in Seq(Sockets)
  BY DEF ConnInv, TypeOK
<1>5. peer[p].sd \in DOMAIN conns
  BY <1>3, <1>4, UsedSockets
<1>6. peer[p].sd \in 1..Len(conns) /\ peer[p].sd \in 0..Len(conns)
  BY <1>4, <1>5
<1> QED
  BY <1>1, <1>2, <1>3, <1>4, <1>5, <1>6

LEMMA WriteMessageStep ==
    ASSUME ConnInv, NEW p \in Proc, WriteMessage(p) PROVE ConnInv'
<1> DEFINE sd == peer[p].sd
           x == peer[p]
           m == Head(x.outq)
           pr == [x EXCEPT !.outq = Tail(@), !.send_ev = Len(x.outq) > 1]
<1>1. /\ Runs(p, "write") /\ peer[p].state = "CONNECTED" /\ Returns(p, pr, Written(conns, sd, p, m), <<>>)
      /\ completed' = [completed EXCEPT ![p] = Append(@, m)]
      /\ setting' = setting /\ known' = known /\ issued' = issued /\ received' = received /\ broken' = broken
  BY DEF WriteMessage
<1>2. /\ queue[p] # <<>> /\ ~broken[p] /\ sd # NoSock /\ sd \in DOMAIN conns /\ sd \in 1..Len(conns)
      /\ ~conns[sd].closed[p] /\ ~Has(p, "failed") /\ x.send_ev
      /\ TypeOK /\ x \in Peers /\ x.active <= Len(x.addrs) /\ conns \in Seq(Sockets)
  BY <1>1, UseStarts
<1>3. conns[sd].est = "up" /\ x.outq # <<>> /\ x.outq \in Seq(Nat) /\ (p = 1 => ~Has(1, "try"))
  BY <1>1, <1>2 DEF ConnInv, PeerInv, PeerAt, Peers, HigherInv
<1>4. m \in Nat /\ Tail(x.outq) \in Seq(Nat) /\ (Len(x.outq) > 1 => Tail(x.outq) # <<>>)
  <2> DEFINE o == x.outq
  <2>1. o \in Seq(Nat) /\ o # <<>>
    BY <1>3
  <2> HIDE DEF o
  <2>2. Head(o) \in Nat /\ Tail(o) \in Seq(Nat) /\ Len(Tail(o)) = Len(o) - 1 /\ Len(o) \in Nat
    BY <2>1
  <2>3. Len(o) > 1 => Tail(o) # <<>>
    <3> DEFINE tl == Tail(o)
    <3>1. Len(tl) = Len(o) - 1 /\ Len(o) \in Nat
      BY <2>2
    <3> HIDE DEF tl
    <3>2. Len(o) > 1 => tl # <<>>
      BY <3>1
    <3> QED
      BY <3>2 DEF tl
  <2> QED
    BY <2>2, <2>3 DEF o
<1>5. /\ pr \in Peers /\ pr.sd = sd /\ pr.state = "CONNECTED" /\ (pr.send_ev => pr.outq # <<>>)
      /\ pr.active = x.active /\ pr.addrs = x.addrs
  <2> DEFINE tl == Tail(x.outq)
             on == Len(x.outq) > 1
  <2>1. tl \in Seq(Nat) /\ on \in BOOLEAN /\ (on => tl # <<>>) /\ pr = [x EXCEPT !.outq = tl, !.send_ev = on]
    BY <1>4
  <2> HIDE DEF tl, on, pr
  <2> QED
    BY <2>1, <1>1, <1>2 DEF Peers
<1>6. conns' = Written(conns, sd, p, m)
  BY <1>1 DEF Returns
<1>7. IsWritten(conns, sd, p, m, conns')
  BY <1>2, <1>4, <1>6, WrittenIs
<1>8. Grows(p)
  BY <1>2, <1>4, <1>7, ChangeGrows
<1> HIDE DEF pr, m
<1>9. Handles(p, pr, <<>>)
  <2>1. <<>> \in Seq(Events) /\ \A i \in DOMAIN <<>> : FALSE
    OBVIOUS
  <2> QED
    BY <2>1, <1>1, <1>2, <1>5, <1>6, <1>8 DEF Handles
<1>10. completed' \in [Proc -> Seq(Nat)] /\ known' \in [Proc -> BOOLEAN] /\ issued' = issued
  <2>1. completed \in [Proc -> Seq(Nat)] /\ completed[p] \in Seq(Nat) /\ known \in [Proc -> BOOLEAN]
    BY <1>2 DEF TypeOK
  <2>2. Append(completed[p], m) \in Seq(Nat)
    BY <2>1, <1>4
  <2> QED
    BY <2>1, <2>2, <1>1
<1> QED
  BY <1>1, <1>2, <1>3, <1>4, <1>5, <1>7, <1>9, <1>10, WriteStep

LEMMA CompleteConnectStep ==
    ASSUME ConnInv, NEW p \in Proc, CompleteConnect(p) PROVE ConnInv'
<1> DEFINE sd == peer[p].sd
           x == peer[p]
<1>1. /\ Runs(p, "write") /\ x.state \in {"CONNECTING", "CLOSED"}
      /\ setting' = setting /\ known' = known /\ broken' = broken
      /\ issued' = issued /\ received' = received /\ completed' = completed
  BY DEF CompleteConnect, users
<1>2. /\ queue[p] # <<>> /\ ~broken[p] /\ sd # NoSock /\ sd \in DOMAIN conns /\ sd \in 1..Len(conns)
      /\ sd \in 0..Len(conns) /\ ~conns[sd].closed[p] /\ ~Has(p, "failed") /\ x.send_ev
      /\ conns[sd].est \in {"up", "refused"}
      /\ TypeOK /\ x \in Peers /\ x.active <= Len(x.addrs) /\ conns \in Seq(Sockets)
  BY <1>1, UseStarts
<1>3. p = 1 => x.state = "CONNECTING" /\ ~Has(1, "try")
  BY <1>1, <1>2 DEF ConnInv, HigherInv
<1>4. known' \in [Proc -> BOOLEAN] /\ completed' \in [Proc -> Seq(Nat)]
  BY <1>1, <1>2 DEF TypeOK
<1>5. CASE conns[sd].est = "up"
  <2> DEFINE pr == [x EXCEPT !.state = "CONNECT_ACK", !.send_ev = FALSE, !.recv_ev = TRUE]
  <2>1. Returns(p, pr, Written(conns, sd, p, Ident), <<>>)
    BY <1>5 DEF CompleteConnect
  <2>2. /\ pr \in Peers /\ pr.sd = sd /\ pr.state = "CONNECT_ACK" /\ ~pr.send_ev
        /\ pr.active = x.active /\ pr.addrs = x.addrs
    BY <1>2 DEF Peers, States
  <2>3. Ident \in Nat
    BY DEF Ident
  <2>4. conns' = Written(conns, sd, p, Ident)
    BY <2>1 DEF Returns
  <2>5. IsWritten(conns, sd, p, Ident, conns')
    BY <1>2, <2>3, <2>4, WrittenIs
  <2>6. Grows(p)
    BY <1>2, <2>3, <2>5, ChangeGrows
  <2> HIDE DEF pr
  <2>7. Handles(p, pr, <<>>)
    <3>1. <<>> \in Seq(Events) /\ \A i \in DOMAIN <<>> : FALSE
      OBVIOUS
    <3> QED
      BY <3>1, <1>1, <1>2, <2>1, <2>2, <2>4, <2>6 DEF Handles
  <2>8. peer[p].state # "CONNECTED" /\ pr.active <= Len(pr.addrs)
    BY <1>1, <1>2, <2>2
  <2> QED
    BY <1>1, <1>2, <1>3, <1>4, <1>5, <2>2, <2>3, <2>5, <2>7, <2>8, WriteStep
<1>6. CASE conns[sd].est # "up"
  <2> DEFINE pr == [PeerClose(x) EXCEPT !.send_ev = FALSE]
             evs == IF x.state = "CONNECTING" THEN <<Try>> ELSE <<Lost>>
  <2>1. Returns(p, pr, Closed(conns, sd, p), evs)
    BY <1>6 DEF CompleteConnect
  <2>2. /\ pr \in Peers /\ pr.sd = NoSock /\ pr.state = (IF x.state = "CONNECTING" THEN "CONNECTING" ELSE "CLOSED")
        /\ pr.active <= Len(pr.addrs)
    <3> DEFINE y == PeerClose(x)
    <3>1. /\ y \in Peers /\ y.sd = NoSock /\ y.state = (IF x.state = "CONNECTING" THEN "CONNECTING" ELSE "CLOSED")
          /\ y.active <= Len(y.addrs)
      BY <1>2, PeerCloseIs
    <3> HIDE DEF y
    <3>2. pr = [y EXCEPT !.send_ev = FALSE]
      BY DEF y
    <3> QED
      BY <3>1, <3>2 DEF Peers
  <2>3. conns' = Closed(conns, sd, p)
    BY <2>1 DEF Returns
  <2>4. IsClosed(conns, sd, p, conns')
    BY <1>2, <2>3, ClosedIs
  <2>5. Grows(p)
    BY <1>2, <2>4, ChangeGrows
  <2>6. /\ evs \in Seq(Events) /\ Len(evs) = 1 /\ \A i \in DOMAIN evs : evs[i].op \in {"try", "lost"}
        /\ (\E i \in DOMAIN evs : evs[i].op = "try") <=> x.state = "CONNECTING"
    <3>1. /\ <<Try>> \in Seq(Events) /\ Len(<<Try>>) = 1 /\ DOMAIN <<Try>> = {1} /\ <<Try>>[1].op = "try"
          /\ <<Lost>> \in Seq(Events) /\ Len(<<Lost>>) = 1 /\ DOMAIN <<Lost>> = {1} /\ <<Lost>>[1].op = "lost"
      BY NewEvents DEF Try, Lost, Ev
    <3> QED
      BY <3>1
  <2> HIDE DEF pr, evs
  <2>7. Handles(p, pr, evs)
    BY <1>1, <1>2, <2>1, <2>2, <2>3, <2>5, <2>6 DEF Handles, SocketOps
  <2>8. /\ pr.state \notin {"CONNECTED", "CONNECT_ACK"} /\ pr.sd = NoSock /\ Len(evs) <= 1
        /\ \A i \in DOMAIN evs : evs[i].op # "failed"
        /\ pr.sd \in {NoSock, peer[p].sd}
    BY <2>2, <2>6
  <2>9. p = 1 => /\ ~Has(1, "try")
                 /\ conns[peer[1].sd].closed[0] \/ conns[peer[1].sd].est # "up"
                 /\ pr.state = "CONNECTING" /\ pr.sd = NoSock /\ \E i \in DOMAIN evs : evs[i].op = "try"
    BY <1>3, <1>6, <2>2, <2>6
  <2> QED
    BY <1>1, <1>2, <1>4, <2>2, <2>4, <2>7, <2>8, <2>9, CloseStep
<1> QED
  BY <1>5, <1>6

\* The end of the stream, or an error, on the socket of p: the other has closed it.
LEMMA StreamEnds ==
    ASSUME ConnInv, NEW p \in Proc, peer[p].sd \in DOMAIN conns, ~conns[peer[p].sd].closed[p],
           NEW res \in ReadResults(peer[p].sd, p), res \in {"end", "error"}
    PROVE p = 1 => conns[peer[1].sd].closed[0]
<1>1. conns[peer[p].sd].closed[Other(p)] \/ conns[peer[p].sd].reset
  BY ResultsAre
<1>2. SocketAt(peer[p].sd)
  BY DEF ConnInv, SocketInv
<1> QED
  BY <1>1, <1>2 DEF SocketAt, Proc, Other

LEMMA ReadMessageStep ==
    ASSUME ConnInv, NEW p \in Proc, ReadMessage(p) PROVE ConnInv'
<1> DEFINE sd == peer[p].sd
           x == peer[p]
<1>1. /\ Runs(p, "read") /\ x.state = "CONNECTED"
      /\ setting' = setting /\ known' = known /\ broken' = broken
      /\ issued' = issued /\ completed' = completed
  BY DEF ReadMessage
<1>2. /\ queue[p] # <<>> /\ ~broken[p] /\ sd # NoSock /\ sd \in DOMAIN conns /\ sd \in 1..Len(conns)
      /\ sd \in 0..Len(conns) /\ ~conns[sd].closed[p] /\ ~Has(p, "failed")
      /\ TypeOK /\ x \in Peers /\ x.active <= Len(x.addrs) /\ conns \in Seq(Sockets)
  BY <1>1, UseStarts
<1>3. p = 1 => ~Has(1, "try")
  BY <1>1 DEF ConnInv, HigherInv
<1>4. known' \in [Proc -> BOOLEAN] /\ received \in [Proc -> Seq(Nat)]
  BY <1>1, <1>2 DEF TypeOK
<1>5. ASSUME Returns(p, x, Taken(conns, sd, p), <<>>), conns[sd].stream[p] # <<>>,
             received' = [received EXCEPT ![p] = Append(@, Head(conns[sd].stream[p]))]
      PROVE ConnInv'
  <2>1. conns' = Taken(conns, sd, p)
    BY <1>5 DEF Returns
  <2>2. IsTaken(conns, sd, p, conns')
    BY <1>2, <1>5, <2>1, TakenIs
  <2>3. Grows(p)
    BY <1>2, <2>2, ChangeGrows
  <2>4. Handles(p, x, <<>>)
    <3>1. <<>> \in Seq(Events) /\ \A i \in DOMAIN <<>> : FALSE
      OBVIOUS
    <3> QED
      BY <3>1, <1>1, <1>2, <1>5, <2>1, <2>3 DEF Handles
  <2>5. received' \in [Proc -> Seq(Nat)]
    <3>1. conns[sd] \in Sockets
      BY <1>2
    <3>2. conns[sd].stream[p] \in Seq(Nat)
      BY <3>1 DEF Sockets
    <3>3. Head(conns[sd].stream[p]) \in Nat
      BY <3>2, <1>5, HeadTailProperties
    <3>4. received[p] \in Seq(Nat)
      BY <1>4
    <3> DEFINE h == Head(conns[sd].stream[p])
               r == Append(received[p], h)
    <3>5. r \in Seq(Nat)
      BY <3>3, <3>4, AppendProperties
    <3>6. received' = [received EXCEPT ![p] = r]
      BY <1>5
    <3> HIDE DEF r
    <3> QED
      BY <3>5, <3>6, <1>4
  <2>6. x.send_ev => x.outq # <<>>
    BY <1>1 DEF ConnInv, PeerInv, PeerAt
  <2>7. \A i \in DOMAIN <<>> : FALSE
    OBVIOUS
  <2> QED
    BY <1>1, <1>2, <1>4, <1>5, <2>2, <2>4, <2>5, <2>6, <2>7, TakeStep
<1>6. ASSUME NEW res \in ReadResults(sd, p), res \in {"end", "error"},
             Returns(p, PeerClose(x), Closed(conns, sd, p), <<Lost>>), received' = received
      PROVE ConnInv'
  <2> DEFINE pr == PeerClose(x)
             evs == <<Lost>>
  <2>1. pr \in Peers /\ pr.sd = NoSock /\ pr.state = "CLOSED" /\ pr.active <= Len(pr.addrs)
    BY <1>1, <1>2, PeerCloseIs
  <2>2. conns' = Closed(conns, sd, p)
    BY <1>6 DEF Returns
  <2>3. IsClosed(conns, sd, p, conns')
    BY <1>2, <2>2, ClosedIs
  <2>4. Grows(p)
    BY <1>2, <2>3, ChangeGrows
  <2>5. evs \in Seq(Events) /\ Len(evs) <= 1 /\ \A i \in DOMAIN evs : evs[i].op = "lost"
    BY NewEvents DEF Lost, Ev
  <2>6. Returns(p, pr, conns', evs)
    BY <1>6, <2>2
  <2> HIDE DEF pr, evs
  <2>7. Handles(p, pr, evs)
    BY <1>1, <1>2, <2>1, <2>4, <2>5, <2>6 DEF Handles, SocketOps
  <2>8. p = 1 => conns[peer[1].sd].closed[0]
    BY <1>2, <1>6, StreamEnds
  <2>9. /\ pr.sd \in {NoSock, peer[p].sd} /\ pr.state \notin {"CONNECTED", "CONNECT_ACK"} /\ pr.sd = NoSock
        /\ \A i \in DOMAIN evs : evs[i].op \notin {"try", "failed"}
    BY <2>1, <2>5
  <2> QED
    BY <1>1, <1>2, <1>3, <1>4, <1>6, <2>1, <2>3, <2>5, <2>7, <2>8, <2>9, CloseStep
<1> QED
  BY <1>5, <1>6, ResultsAre DEF ReadMessage

LEMMA ReadConnectAckStep ==
    ASSUME ConnInv, NEW p \in Proc, ReadConnectAck(p) PROVE ConnInv'
<1> DEFINE sd == peer[p].sd
           x == peer[p]
           aside(y) == IF OtherGreater(p) THEN [EventsOff(y) EXCEPT !.state = "UNCONNECTED"] ELSE y
<1>1. /\ Runs(p, "read") /\ x.state = "CONNECT_ACK"
      /\ setting' = setting /\ known' = known /\ broken' = broken
      /\ issued' = issued /\ completed' = completed /\ received' = received
  BY DEF ReadConnectAck, users
<1>2. /\ queue[p] # <<>> /\ ~broken[p] /\ sd # NoSock /\ sd \in DOMAIN conns /\ sd \in 1..Len(conns)
      /\ sd \in 0..Len(conns) /\ ~conns[sd].closed[p] /\ ~Has(p, "failed")
      /\ TypeOK /\ x \in Peers /\ x.active <= Len(x.addrs) /\ conns \in Seq(Sockets)
  BY <1>1, UseStarts
<1>3. (p = 1 => ~Has(1, "try")) /\ ~x.send_ev /\ queue[p] \in Seq(Events) /\ Head(queue[p]).op = "read"
  BY <1>1, <1>2 DEF ConnInv, HigherInv, PeerInv, PeerAt, Runs, TypeOK
<1>4. known' \in [Proc -> BOOLEAN] /\ received' \in [Proc -> Seq(Nat)]
  BY <1>1, <1>2 DEF TypeOK
<1>5. ASSUME Returns(p, Connected(x), Taken(conns, sd, p), <<SetModule>>), conns[sd].stream[p] # <<>>
      PROVE ConnInv'
  <2> DEFINE pr == Connected(x)
             evs == <<SetModule>>
  <2>1. /\ pr \in Peers /\ pr.state = "CONNECTED" /\ pr.sd = sd /\ pr.active <= Len(pr.addrs)
        /\ pr.send_ev => pr.outq # <<>>
    BY <1>2, <1>3, ConnectedIs
  <2>2. conns' = Taken(conns, sd, p)
    BY <1>5 DEF Returns
  <2>3. IsTaken(conns, sd, p, conns')
    BY <1>2, <1>5, <2>2, TakenIs
  <2>4. Grows(p)
    BY <1>2, <2>3, ChangeGrows
  <2>5. evs \in Seq(Events) /\ \A i \in DOMAIN evs : evs[i].op = "set_module"
    BY NewEvents DEF SetModule, Ev
  <2>6. Returns(p, pr, conns', evs)
    BY <1>5, <2>2
  <2> HIDE DEF pr, evs
  <2>7. Handles(p, pr, evs)
    BY <1>1, <1>2, <2>1, <2>4, <2>5, <2>6 DEF Handles, SocketOps
  <2>8. \A i \in DOMAIN evs : evs[i].op \notin {"try", "failed"}
    BY <2>5
  <2> QED
    BY <1>1, <1>2, <1>4, <1>5, <2>1, <2>3, <2>7, <2>8, TakeStep
<1>6. ASSUME NEW res \in ReadResults(sd, p), NEW pr \in {PeerClose(x), aside(PeerClose(x))},
             res \in {"end", "error"} \/ p = 0,
             pr = aside(PeerClose(x)) \/ p = 0,
             Returns(p, pr, Closed(conns, sd, p), <<Lost>>)
      PROVE ConnInv'
  <2> DEFINE y == PeerClose(x)
             evs == <<Lost>>
  <2>1. y \in Peers /\ y.sd = NoSock /\ y.state = "CLOSED" /\ y.active <= Len(y.addrs)
    BY <1>1, <1>2, PeerCloseIs
  <2>2. conns' = Closed(conns, sd, p)
    BY <1>6 DEF Returns
  <2>3. IsClosed(conns, sd, p, conns')
    BY <1>2, <2>2, ClosedIs
  <2>4. Grows(p)
    BY <1>2, <2>3, ChangeGrows
  <2>5. evs \in Seq(Events) /\ Len(evs) <= 1 /\ \A i \in DOMAIN evs : evs[i].op = "lost"
    BY NewEvents DEF Lost, Ev
  <2>6. Returns(p, pr, conns', evs)
    BY <1>6, <2>2
  <2>7. /\ pr \in Peers /\ pr.sd = NoSock /\ pr.state \in {"CLOSED", "UNCONNECTED"}
        /\ pr.active <= Len(pr.addrs) /\ (p = 1 => pr.state = "CLOSED")
    <3>1. pr = y \/ (p = 0 /\ pr = [EventsOff(y) EXCEPT !.state = "UNCONNECTED"])
      BY <1>6 DEF OtherGreater
    <3> HIDE DEF y
    <3>2. CASE pr = y
      BY <2>1, <3>1, <3>2
    <3>3. CASE p = 0 /\ pr = [EventsOff(y) EXCEPT !.state = "UNCONNECTED"]
      <4> DEFINE z == [EventsOff(y) EXCEPT !.state = "UNCONNECTED"]
      <4>1. /\ z \in Peers /\ z.sd = NoSock /\ z.active = y.active /\ z.addrs = y.addrs
            /\ z.state = "UNCONNECTED" /\ pr = z
        BY <2>1, <3>3, AsideIs
      <4> HIDE DEF z
      <4> QED
        BY <4>1, <3>3, <2>1
    <3> QED
      BY <3>1, <3>2, <3>3
  <2> HIDE DEF y, evs
  <2>8. Handles(p, pr, evs)
    BY <1>1, <1>2, <2>4, <2>5, <2>6, <2>7 DEF Handles, SocketOps
  <2>9. p = 1 => conns[peer[1].sd].closed[0]
    <3> SUFFICES ASSUME p = 1 PROVE conns[peer[1].sd].closed[0]
      OBVIOUS
    <3>1. res \in {"end", "error"}
      BY <1>6
    <3> QED
      BY <3>1, <1>2, <1>6, StreamEnds
  <2>10. /\ pr.sd \in {NoSock, peer[p].sd} /\ pr.state \notin {"CONNECTED", "CONNECT_ACK"} /\ pr.sd = NoSock
         /\ \A i \in DOMAIN evs : evs[i].op \notin {"try", "failed"}
    BY <2>5, <2>7
  <2> QED
    BY <1>1, <1>2, <1>3, <1>4, <2>3, <2>5, <2>7, <2>8, <2>9, <2>10, CloseStep
<1>7. ASSUME NEW res \in ReadResults(sd, p), res = "error",
             Returns(p, aside(x), Closed(conns, sd, p), <<>>)
      PROVE ConnInv'
  <2> DEFINE pr == aside(x)
  <2>1. conns' = Closed(conns, sd, p)
    BY <1>7 DEF Returns
  <2>2. IsClosed(conns, sd, p, conns')
    BY <1>2, <2>1, ClosedIs
  <2>3. Grows(p)
    BY <1>2, <2>2, ChangeGrows
  <2>4. Returns(p, pr, conns', <<>>)
    BY <1>7, <2>1
  <2>5. /\ pr \in Peers /\ pr.sd = sd /\ pr.active <= Len(pr.addrs) /\ ~pr.send_ev
        /\ p = 0 => pr.state = "UNCONNECTED" /\ ~pr.recv_ev
        /\ p = 1 => pr = x
    <3>1. CASE p = 0
      <4> DEFINE z == [EventsOff(x) EXCEPT !.state = "UNCONNECTED"]
      <4>1. /\ z \in Peers /\ z.sd = sd /\ z.active = x.active /\ z.addrs = x.addrs
            /\ z.state = "UNCONNECTED" /\ ~z.send_ev /\ ~z.recv_ev /\ pr = z
        BY <1>2, <3>1, AsideIs DEF OtherGreater
      <4> HIDE DEF z, pr
      <4> QED
        BY <4>1, <3>1, <1>2
    <3>2. CASE p = 1
      BY <1>2, <1>3, <3>2 DEF OtherGreater
    <3> QED
      BY <3>1, <3>2 DEF Proc
  <2> HIDE DEF pr
  <2>6. Handles(p, pr, <<>>)
    <3>1. <<>> \in Seq(Events) /\ \A i \in DOMAIN <<>> : FALSE
      OBVIOUS
    <3> QED
      BY <3>1, <1>1, <1>2, <2>3, <2>4, <2>5 DEF Handles
  <2>7. p = 1 => conns[peer[1].sd].closed[0]
    BY <1>2, <1>7, StreamEnds
  <2>8. ASSUME NEW j \in 2..Len(queue[p]), queue[p][j].op \in {"read", "write"},
               Registered(pr, queue[p][j])
        PROVE FALSE
    <3>1. j \in DOMAIN queue[p] /\ queue[p][j] \in Events /\ Head(queue[p]) \in Events
      BY <1>2, <1>3
    <3>2. queue[p][j].op = "read" /\ queue[p][j].x = sd
      BY <2>5, <2>8 DEF Registered
    <3>3. Head(queue[p]).x = sd
      BY <1>2, <1>3, SocketHead DEF SocketOps, EventInv, Registered
    <3>4. queue[p][j] = Head(queue[p])
      BY <3>1, <3>2, <3>3, <1>3 DEF Events
    <3> QED
      BY <3>4, <1>2, <1>3, SocketHead DEF SocketOps
  <2>9. \A i \in DOMAIN <<>> : FALSE
    OBVIOUS
  <2>10. pr.sd \in {NoSock, peer[p].sd} /\ pr.state # "CONNECTED" /\ Len(<<>>) <= 1
         /\ (p = 1 => pr.state = "CONNECT_ACK")
         /\ (pr.state = "CONNECT_ACK" => pr.sd = peer[p].sd /\ peer[p].state = "CONNECT_ACK" /\ ~pr.send_ev)
    BY <1>1, <2>5 DEF Proc
  <2> QED
    BY <1>1, <1>2, <1>3, <1>4, <2>2, <2>5, <2>6, <2>7, <2>8, <2>9, <2>10, CloseStep
<1>8. p = 1 /\ conns[sd].stream[p] # <<>> => Head(conns[sd].stream[p]) = Ident
  BY <1>1, <1>2 DEF ConnInv, ChoiceInv, ChoiceAt
<1>9. p = 0 \/ p = 1
  BY DEF Proc
<1> QED
  BY <1>5, <1>6, <1>7, <1>8, <1>9, ResultsAre DEF ReadConnectAck

\* A handler that takes an accepted socket, for that of p if it has one, reads the
\* connect-ack and answers it.
LEMMA AdoptStep ==
    ASSUME ConnInv, NEW p \in Proc, NEW pr, NEW evs, Handles(p, pr, evs),
           NEW c \in DOMAIN conns, Head(queue[p]) = Ev("accept", c),
           conns[c].stream[p] # <<>>, conns[c].est = "up", conns[c].from # p,
           NEW g \in 0..Len(conns), g \in {NoSock, peer[p].sd},
           NEW given, IsClosed(conns, g, p, given), NEW taken, IsTaken(given, c, p, taken),
           IsWritten(taken, c, p, Ident, conns'),
           pr.sd = c, pr.state = "CONNECTED", pr.send_ev => pr.outq # <<>>,
           p = 1 => g = NoSock /\ peer[1].state \notin {"CONNECTED", "CONNECTING", "CONNECT_ACK"},
           \A i \in DOMAIN evs : evs[i].op \notin {"try", "failed"},
           pr.active <= Len(pr.addrs), known' \in [Proc -> BOOLEAN],
           received' = received, completed' = completed, issued' = issued
    PROVE ConnInv'
<1> DEFINE q == Other(p)
<1>1. /\ TypeOK /\ q \in Proc /\ q # p /\ (\A r \in Proc : r = p \/ r = q) /\ 0 \in Proc /\ 1 \in Proc
      /\ peer'[p] = pr /\ peer'[q] = peer[q] /\ broken' = broken /\ ~broken[p]
      /\ queue[p] # <<>> /\ Head(queue[p]).op = "accept" /\ queue[p] \in Seq(Events)
  <2>1. peer'[p] = pr /\ peer'[q] = peer[q]
    BY Queues DEF ConnInv
  <2> QED
    BY <2>1, OtherIs DEF ConnInv, Handles, Proc, Ev, TypeOK
<1>2. conns \in Seq(Sockets) /\ DOMAIN conns = 1..Len(conns) /\ c \in 1..Len(conns) /\ c # NoSock
      /\ Len(given) = Len(conns) /\ Len(taken) = Len(conns) /\ Len(conns') = Len(conns)
      /\ conns' \in Seq(Sockets) /\ DOMAIN conns' = DOMAIN conns
      /\ conns[c] \in Sockets
  <2>1. conns \in Seq(Sockets)
    BY <1>1 DEF TypeOK
  <2>2. DOMAIN conns = 1..Len(conns) /\ c \in 1..Len(conns) /\ c # NoSock /\ conns[c] \in Sockets
    BY <2>1 DEF NoSock
  <2>3. /\ Len(given) = Len(conns) /\ Len(taken) = Len(conns) /\ Len(conns') = Len(conns)
        /\ conns' \in Seq(Sockets)
    BY DEF IsClosed, IsTaken, IsWritten
  <2>4. DOMAIN conns' = DOMAIN conns
    BY <2>1, <2>3
  <2> QED
    BY <2>1, <2>2, <2>3, <2>4
<1>3. conns[c].from = q /\ Waits(c) /\ peer[p].sd # c /\ g # c /\ conns[c].stream[q] = <<>>
      /\ ~conns[c].closed[p]
  <2>1. conns[c].from = q /\ Other(conns[c].from) = p
    BY <1>2, OtherIs DEF Sockets
  <2>2. Head(queue[p]) = queue[p][1] /\ 1 \in DOMAIN queue[p]
    BY <1>1
  <2>3. Waits(c)
    BY <2>1, <2>2 DEF Waits
  <2> QED
    BY <2>1, <2>3, <1>1, <1>2 DEF ConnInv, SocketInv, SocketAt
<1>4. \A d \in DOMAIN conns :
          /\ conns'[d].from = conns[d].from /\ conns'[d].est = conns[d].est
          /\ conns'[d].pending = conns[d].pending
          /\ conns'[d].reset => conns[d].reset \/ d = g
          /\ \A r \in Proc : conns'[d].closed[r] <=> conns[d].closed[r] \/ (d = g /\ r = p)
          /\ d # c => \A r \in Proc : conns'[d].stream[r] = conns[d].stream[r]
  <2> TAKE d \in DOMAIN conns
  <2>1. /\ given[d].from = conns[d].from /\ given[d].est = conns[d].est
        /\ given[d].pending = conns[d].pending /\ given[d].stream = conns[d].stream
        /\ given[d].reset => conns[d].reset \/ d = g
        /\ \A r \in Proc : given[d].closed[r] <=> conns[d].closed[r] \/ (d = g /\ r = p)
    BY <1>2 DEF IsClosed
  <2>2. /\ taken[d].from = given[d].from /\ taken[d].est = given[d].est
        /\ taken[d].pending = given[d].pending /\ taken[d].reset = given[d].reset
        /\ taken[d].closed = given[d].closed
        /\ d # c => \A r \in Proc : taken[d].stream[r] = given[d].stream[r]
    BY <1>2 DEF IsTaken
  <2>3. /\ conns'[d].from = taken[d].from /\ conns'[d].est = taken[d].est
        /\ conns'[d].pending = taken[d].pending /\ conns'[d].reset = taken[d].reset
        /\ conns'[d].closed = taken[d].closed
        /\ d # c => \A r \in Proc : conns'[d].stream[r] = taken[d].stream[r]
    BY <1>2 DEF IsWritten
  <2> QED
    BY <2>1, <2>2, <2>3
<1>5. conns'[c].stream[q] = <<Ident>>
  <2>1. given[c].stream = conns[c].stream
    BY <1>2 DEF IsClosed
  <2>2. taken[c].stream[q] = given[c].stream[q]
    BY <1>1, <1>2 DEF IsTaken
  <2>3. conns'[c].stream[q] = Append(taken[c].stream[q], Ident)
    BY <1>1, <1>2 DEF IsWritten
  <2>4. Append(<<>>, Ident) = <<Ident>>
    OBVIOUS
  <2> QED
    BY <2>1, <2>2, <2>3, <2>4, <1>3
<1>6. PeerAt(p)'
  BY <1>1, <1>2, <1>4 DEF PeerAt
<1>7. ~Has(p, "failed")
  BY <1>1, SocketHead DEF SocketOps
<1>8. ASSUME p = 0 PROVE LowerInv'
  <2>1. ~Has(0, "failed")'
    BY <1>7, <1>8, NoneAdded
  <2> QED
    BY <2>1, <1>1, <1>3, <1>4, <1>8 DEF LowerInv
<1>9. ASSUME p = 1 PROVE HigherInv'
  <2>1. ~Has(1, "try")
    BY <1>9 DEF ConnInv, HigherInv
  <2>2. ~Has(1, "try")'
    BY <2>1, <1>9, NoneAdded
  <2>3. OneTry(1)'
    <3>1. OneTry(1)
      BY DEF ConnInv, HigherInv, OneTry
    <3> QED
      BY <3>1, <1>1, <1>9, OneTryStep
  <2> QED
    BY <2>2, <2>3, <1>1, <1>9 DEF HigherInv, OneTry
<1>10. SocketInv'
  <2> SUFFICES ASSUME NEW d \in DOMAIN conns PROVE SocketAt(d)'
    BY <1>2 DEF SocketInv
  <2>1. Waits(d)' => Waits(d) /\ d # c
    BY WaitsStep DEF ConnInv
  <2>2. SocketAt(d)
    BY DEF ConnInv, SocketInv
  <2>3. /\ conns[d].from \in Proc /\ Other(conns[d].from) \in Proc
        /\ Other(conns[d].from) # conns[d].from
    <3>1. conns[d] \in Sockets
      BY <1>2
    <3> QED
      BY <3>1, OtherIs DEF Sockets
  <2>4. conns'[d].reset => conns'[d].closed[0] \/ conns'[d].closed[1]
    BY <2>2, <1>1, <1>4 DEF SocketAt, Proc
  <2>5. conns'[d].est # "up" => conns'[d].pending /\ \A r \in Proc : conns'[d].stream[r] = <<>>
    <3>1. conns'[d].est # "up" => d # c
      BY <1>4
    <3> QED
      BY <3>1, <2>2, <1>4 DEF SocketAt
  <2>6. ASSUME Waits(d)'
        PROVE LET f == conns[d].from
                  o == Other(f)
              IN /\ peer'[o].sd # d /\ conns'[d].stream[f] = <<>>
                 /\ ~broken'[o] => ~conns'[d].closed[o]
                 /\ \A i \in DOMAIN conns'[d].stream[o] : conns'[d].stream[o][i] = Ident
                 /\ ~(peer'[f].state = "CONNECTED" /\ peer'[f].sd = d)
    <3> DEFINE f == conns[d].from
               o == Other(f)
    <3>1. Waits(d) /\ d # c /\ d # NoSock
      BY <2>1, <2>6, <1>2 DEF NoSock
    <3>2. /\ peer[o].sd # d /\ conns[d].stream[f] = <<>> /\ (~broken[o] => ~conns[d].closed[o])
          /\ \A i \in DOMAIN conns[d].stream[o] : conns[d].stream[o][i] = Ident
          /\ ~(peer[f].state = "CONNECTED" /\ peer[f].sd = d)
      BY <3>1, <2>2 DEF SocketAt
    <3>3. f \in Proc /\ o \in Proc /\ f # o
      BY <2>3
    <3> HIDE DEF f, o
    <3>4. /\ conns'[d].stream[f] = conns[d].stream[f] /\ conns'[d].stream[o] = conns[d].stream[o]
          /\ conns'[d].closed[o] <=> conns[d].closed[o] \/ (d = g /\ o = p)
      BY <3>1, <3>3, <1>4
    <3>5. ~(d = g /\ o = p)
      BY <3>1, <3>2
    <3>6. peer'[o].sd # d /\ ~(peer'[f].state = "CONNECTED" /\ peer'[f].sd = d)
      BY <3>1, <3>2, <3>3, <1>1
    <3> QED
      BY <3>2, <3>4, <3>5, <3>6, <1>1 DEF f, o
  <2>7. conns'[d].from = conns[d].from
    BY <1>4
  <2> QED
    BY <2>4, <2>5, <2>6, <2>7 DEF SocketAt
<1>11. ChoiceInv'
  <2> SUFFICES ASSUME NEW d \in DOMAIN conns PROVE ChoiceAt(d)'
    BY <1>2 DEF ChoiceInv
  <2>1. ChoiceAt(d) /\ d # NoSock
    BY <1>2 DEF ConnInv, ChoiceInv, NoSock
  <2>2. /\ conns'[d].from = conns[d].from /\ conns'[d].est = conns[d].est
        /\ \A r \in Proc : conns'[d].closed[r] <=> conns[d].closed[r] \/ (d = g /\ r = p)
        /\ d # c => \A r \in Proc : conns'[d].stream[r] = conns[d].stream[r]
    BY <1>4
  <2>3. CASE p = 0
    <3>1. peer'[0] = pr /\ peer'[1] = peer[1] /\ q = 1
      BY <2>3, <1>1 DEF Other
    <3>2. /\ conns[c].from = 1 /\ conns'[c].stream[1] # <<>> /\ Head(conns'[c].stream[1]) = Ident
      BY <3>1, <1>3, <1>5
    <3> HIDE DEF q
    <3> QED
      BY <2>1, <2>2, <2>3, <3>1, <3>2, <1>1 DEF ChoiceAt
  <2>4. CASE p = 1
    <3>1. peer'[1] = pr /\ peer'[0] = peer[0] /\ q = 0 /\ conns[c].from = 0
      BY <2>4, <1>1, <1>3 DEF Other
    <3>2. conns[d].from = 1 => ~(conns[d].est \in {"syn", "up"} /\ peer[1].sd = d)
      <4>1. peer[1] \in Peers
        BY <1>1 DEF TypeOK
      <4> QED
        BY <4>1, <2>1, <2>4 DEF ConnInv, HigherInv, Peers, States
    <3> HIDE DEF q
    <3> QED
      BY <2>1, <2>2, <2>4, <3>1, <3>2, <1>1 DEF ChoiceAt
  <2> QED
    BY <2>3, <2>4 DEF Proc
<1>12. ~conns'[pr.sd].closed[p]
  BY <1>3, <1>4
<1>13. /\ pr.sd <= Len(conns') /\ Len(conns') <= MaxConn
       /\ received' \in [Proc -> Seq(Nat)] /\ completed' \in [Proc -> Seq(Nat)]
  <2>1. /\ Len(conns) <= MaxConn
        /\ received' \in [Proc -> Seq(Nat)] /\ completed' \in [Proc -> Seq(Nat)]
    BY <1>1 DEF TypeOK
  <2>2. c <= Len(conns)
    BY <1>2
  <2> QED
    BY <2>1, <2>2, <1>2
<1> QED
  BY <1>6, <1>8, <1>9, <1>10, <1>11, <1>12, <1>13, HandlerStep

LEMMA AcceptStep ==
    ASSUME ConnInv, NEW p \in Proc, Accept(p) PROVE ConnInv'
<1> DEFINE x == peer[p]
           c == Head(queue[p]).x
           rejected == Busy(x) /\ ~OtherGreater(p)
           given == IF Busy(x) THEN Closed(conns, x.sd, p) ELSE conns
           w == Willing(p)
           y == [EventsOff(w) EXCEPT !.sd = c]
<1>1. /\ queue[p] # <<>> /\ ~broken[p] /\ Head(queue[p]).op = "accept"
      /\ setting' = setting /\ known' = known /\ broken' = broken
      /\ issued' = issued /\ completed' = completed /\ received' = received
  BY DEF Accept, Runs, users
<1>2. /\ TypeOK /\ x \in Peers /\ x.active <= Len(x.addrs) /\ conns \in Seq(Sockets)
      /\ x.sd \in 0..Len(conns)
  BY SMTT(60) DEF ConnInv, TypeOK, Peers
<1>3. c \in DOMAIN conns /\ c \in 1..Len(conns) /\ c \in 0..Len(conns) /\ conns[c].from # p
      /\ conns[c].est = "up" /\ Head(queue[p]) = Ev("accept", c)
  <2>1. EventInv(p, Head(queue[p])) /\ Head(queue[p]) \in Events
    BY <1>1, <1>2, SocketHead, Heads DEF SocketOps
  <2>2. Head(queue[p]) = Ev("accept", c)
    BY <2>1, <1>1 DEF Events, Ev
  <2>3. c \in DOMAIN conns /\ conns[c].from # p /\ conns[c].est = "up"
    BY <2>1, <1>1 DEF EventInv
  <2> QED
    BY <2>2, <2>3, <1>2
<1>4. known' \in [Proc -> BOOLEAN]
  BY <1>1, <1>2 DEF TypeOK
<1>5. ASSUME Returns(p, x, Closed(conns, c, p), <<>>) PROVE ConnInv'
  <2>1. conns' = Closed(conns, c, p)
    BY <1>5 DEF Returns
  <2>2. IsClosed(conns, c, p, conns')
    BY <1>2, <1>3, <2>1, ClosedIs
  <2>3. Grows(p)
    BY <1>2, <1>3, <2>2, ChangeGrows
  <2>4. Handles(p, x, <<>>)
    <3>1. <<>> \in Seq(Events) /\ \A i \in DOMAIN <<>> : FALSE
      OBVIOUS
    <3> QED
      BY <3>1, <1>1, <1>2, <1>5, <2>1, <2>3 DEF Handles
  <2> QED
    BY <1>1, <1>3, <1>4, <2>2, <2>4, RejectStep
<1>6. ASSUME ~rejected, conns[c].stream[p] # <<>>,
             Returns(p, Connected(y), Written(Taken(given, c, p), c, p, Ident), <<SetModule>>)
      PROVE ConnInv'
  <2> DEFINE g == IF Busy(x) THEN x.sd ELSE NoSock
             taken == Taken(given, c, p)
             pr == Connected(y)
             evs == <<SetModule>>
  <2>1. g \in 0..Len(conns) /\ g \in {NoSock, peer[p].sd} /\ given = Closed(conns, g, p)
    <3>1. CASE Busy(x)
      BY <1>2, <3>1
    <3>2. CASE ~Busy(x)
      BY <1>2, <3>2 DEF Closed, NoSock
    <3> QED
      BY <3>1, <3>2
  <2>2. p = 1 => g = NoSock /\ peer[1].state \notin {"CONNECTED", "CONNECTING", "CONNECT_ACK"}
    BY <1>6 DEF OtherGreater, Busy
  <2> HIDE DEF g, given
  <2>3. IsClosed(conns, g, p, given)
    BY <2>1, <1>2, ClosedIs
  <2>4. given \in Seq(Sockets) /\ c \in 1..Len(given) /\ given[c].stream[p] # <<>>
    BY <2>3, <1>3, <1>6 DEF IsClosed
  <2>5. IsTaken(given, c, p, taken)
    BY <2>4, TakenIs
  <2>6. taken \in Seq(Sockets) /\ c \in 1..Len(taken) /\ Ident \in Nat
    BY <2>4, <2>5 DEF IsTaken, Ident
  <2>7. conns' = Written(taken, c, p, Ident)
    BY <1>6 DEF Returns
  <2> HIDE DEF taken
  <2>8. IsWritten(taken, c, p, Ident, conns')
    BY <2>6, <2>7, WrittenIs
  <2>9. w \in Peers /\ w.active = x.active /\ w.addrs = x.addrs
    BY <1>2, AsideIs DEF Willing, Peers, States
  <2> HIDE DEF w
  <2>10. EventsOff(w) \in Peers /\ EventsOff(w).active <= Len(EventsOff(w).addrs) /\ ~EventsOff(w).send_ev
    BY <2>9, <1>2, EventsOffIs
  <2>11. y \in Peers /\ y.active <= Len(y.addrs) /\ ~y.send_ev /\ y.sd = c
    <3> DEFINE z == EventsOff(w)
    <3>1. z \in Peers /\ z.active <= Len(z.addrs) /\ ~z.send_ev
      BY <2>10
    <3> HIDE DEF z
    <3>2. y = [z EXCEPT !.sd = c]
      BY DEF z
    <3>3. c \in Nat
      BY <1>3
    <3> HIDE DEF c, y
    <3> QED
      BY <3>1, <3>2, <3>3 DEF Peers
  <2> HIDE DEF y
  <2>12. /\ pr \in Peers /\ pr.state = "CONNECTED" /\ pr.sd = c /\ pr.active <= Len(pr.addrs)
         /\ pr.send_ev => pr.outq # <<>>
    BY <2>11, ConnectedIs
  <2>13. evs \in Seq(Events) /\ \A i \in DOMAIN evs : evs[i].op = "set_module"
    BY NewEvents DEF SetModule, Ev
  <2>14. Returns(p, pr, conns', evs)
    BY <1>6, <2>7 DEF taken
  <2>15. Grows(p)
    <3>1. /\ Len(conns') = Len(conns) /\ conns' \in Seq(Sockets) /\ Other(p) \in Proc /\ Other(p) # p
          /\ \A d \in 1..Len(conns) :
              /\ conns'[d].from = conns[d].from /\ conns'[d].est = conns[d].est
              /\ conns'[d].pending = conns[d].pending
              /\ \A r \in Proc : conns'[d].closed[r] <=> conns[d].closed[r] \/ (d = g /\ r = p)
      BY <2>3, <2>5, <2>8, OtherIs DEF IsClosed, IsTaken, IsWritten
    <3>2. \A s \in Sockets : \A r \in Proc : s.closed[r] \in BOOLEAN
      BY DEF Sockets
    <3>3. \A d \in 1..Len(conns) : /\ conns[d].closed[Other(p)] \in BOOLEAN
                                   /\ conns'[d].closed[Other(p)] \in BOOLEAN
      <4>1. \A d \in 1..Len(conns) : conns[d] \in Sockets /\ conns'[d] \in Sockets
        BY <3>1, <1>2
      <4> QED
        BY <4>1, <3>1, <3>2
    <3> QED
      BY <3>1, <3>3 DEF Grows
  <2> HIDE DEF pr, evs, c
  <2>16. Handles(p, pr, evs)
    BY <1>1, <2>12, <2>13, <2>14, <2>15 DEF Handles, SocketOps
  <2>17. \A i \in DOMAIN evs : evs[i].op \notin {"try", "failed"}
    BY <2>13
  <2> QED
    BY <1>1, <1>3, <1>4, <1>6, <2>1, <2>2, <2>3, <2>5, <2>8, <2>12, <2>16, <2>17, AdoptStep
<1> QED
  BY <1>5, <1>6, ResultsAre DEF Accept

-----------------------------------------------------------------------------
(* Trying to connect. *)

\* A handler that begins to connect on the socket of p, or on a new one, or fails.
Tries(p, n) ==
    /\ \A c \in DOMAIN conns :
        /\ conns'[c].from = conns[c].from /\ conns'[c].pending = conns[c].pending
        /\ conns'[c].closed = conns[c].closed /\ conns'[c].reset = conns[c].reset
        /\ conns'[c].stream = conns[c].stream
        /\ c # peer[p].sd => conns'[c].est = conns[c].est
    /\ \/ /\ peer[p].sd = NoSock /\ Len(conns') = Len(conns) + 1 /\ n = Len(conns')
          /\ conns'[n] = Socket(p) \/ conns'[n] = [Socket(p) EXCEPT !.est = "syn"]
       \/ /\ peer[p].sd # NoSock /\ Len(conns') = Len(conns) /\ n = peer[p].sd
          /\ conns'[n].est = conns[n].est \/ conns[n].est = "no"
LEMMA TryStep ==
    ASSUME ConnInv, NEW p \in Proc, NEW pr, NEW evs, Handles(p, pr, evs), Head(queue[p]).op = "try",
           NEW n, n = pr.sd, Tries(p, n),
           \/ /\ pr.state = peer[p].state /\ \A i \in DOMAIN evs : evs[i].op # "failed"
              /\ conns'[n].est = "syn" /\ (n = peer[p].sd => conns[n].est = "no")
           \/ pr.state = "FAILED" /\ conns'[n].est = IF n = peer[p].sd THEN conns[n].est ELSE "no",
           \A i \in DOMAIN evs : evs[i].op # "try",
           Len(conns') <= MaxConn, pr.active <= Len(pr.addrs), known' \in [Proc -> BOOLEAN],
           received' = received, completed' = completed, issued' = issued
    PROVE ConnInv'
<1> DEFINE q == Other(p)
<1>1. /\ TypeOK /\ q \in Proc /\ q # p /\ (\A r \in Proc : r = p \/ r = q) /\ 0 \in Proc /\ 1 \in Proc
      /\ peer'[p] = pr /\ peer'[q] = peer[q] /\ broken' = broken /\ ~broken[p]
      /\ queue[p] # <<>> /\ queue[p] \in Seq(Events) /\ conns \in Seq(Sockets) /\ conns' \in Seq(Sockets)
  <2>1. peer'[p] = pr /\ peer'[q] = peer[q] /\ TypeOK
    BY Queues DEF ConnInv
  <2>2. queue[p] # <<>> /\ conns' \in Seq(Sockets) /\ broken' = broken /\ ~broken[p]
    BY DEF Handles, Grows
  <2>3. queue[p] \in Seq(Events) /\ conns \in Seq(Sockets)
    BY <2>1 DEF TypeOK
  <2> QED
    BY <2>1, <2>2, <2>3, OtherIs DEF Proc
<1>2. /\ DOMAIN conns = 1..Len(conns) /\ DOMAIN conns' = 1..Len(conns') /\ Len(conns) \in Nat
      /\ n \in DOMAIN conns' /\ n # NoSock /\ n <= Len(conns')
      /\ (n = peer[p].sd /\ n \in DOMAIN conns) \/ (peer[p].sd = NoSock /\ n \notin DOMAIN conns)
      /\ \A c \in DOMAIN conns' : c \in DOMAIN conns \/ c = n
  <2>1. DOMAIN conns = 1..Len(conns) /\ DOMAIN conns' = 1..Len(conns') /\ Len(conns) \in Nat
    BY <1>1
  <2>2. peer[p].sd # NoSock => peer[p].sd \in 1..Len(conns)
    BY <1>1, <2>1, UsedSockets
  <2>3. \/ peer[p].sd = NoSock /\ Len(conns') = Len(conns) + 1 /\ n = Len(conns')
        \/ peer[p].sd # NoSock /\ Len(conns') = Len(conns) /\ n = peer[p].sd
    BY DEF Tries
  <2>4. CASE peer[p].sd = NoSock /\ Len(conns') = Len(conns) + 1 /\ n = Len(conns')
    BY <2>1, <2>4 DEF NoSock
  <2>5. CASE peer[p].sd # NoSock /\ Len(conns') = Len(conns) /\ n = peer[p].sd
    <3>1. n \in 1..Len(conns)
      BY <2>2, <2>5
    <3> QED
      BY <2>1, <2>5, <3>1 DEF NoSock
  <2> QED
    BY <2>3, <2>4, <2>5
<1>s. \A c \in DOMAIN conns :
        /\ conns'[c].from = conns[c].from /\ conns'[c].pending = conns[c].pending
        /\ conns'[c].closed = conns[c].closed /\ conns'[c].reset = conns[c].reset
        /\ conns'[c].stream = conns[c].stream
        /\ c # peer[p].sd => conns'[c].est = conns[c].est
  BY DEF Tries
<1>c. \A c \in DOMAIN conns : c # NoSock /\ (conns'[c].est # conns[c].est => c = peer[p].sd /\ n = c /\ conns[c].est = "no")
  <2>1. peer[p].sd # NoSock => n = peer[p].sd /\ (conns'[n].est = conns[n].est \/ conns[n].est = "no")
    BY DEF Tries
  <2>2. \A c \in DOMAIN conns : c # NoSock /\ (c # peer[p].sd => conns'[c].est = conns[c].est)
    <3>1. \A c \in DOMAIN conns : c # NoSock
      BY <1>2 DEF NoSock
    <3> QED
      BY <3>1, <1>s
  <2> QED
    BY <2>1, <2>2
<1>3. Head(queue[p]) = queue[p][1] /\ 1 \in DOMAIN queue[p] /\ DOMAIN queue[p] = 1..Len(queue[p])
      /\ Len(queue[p]) \in Nat /\ Has(p, "try")
  <2>1. Head(queue[p]) = queue[p][1] /\ 1 \in DOMAIN queue[p] /\ DOMAIN queue[p] = 1..Len(queue[p])
        /\ Len(queue[p]) \in Nat
    BY <1>1
  <2> QED
    BY <2>1 DEF Has
<1>4. \A r \in Proc : peer[r].sd # NoSock => peer[r].sd \in DOMAIN conns
  BY <1>1, UsedSockets
<1>5. /\ p = 1 => /\ peer[1].state = "CONNECTING"
                  /\ peer[1].sd = NoSock \/ (conns[peer[1].sd].est = "no" /\ conns[peer[1].sd].from = 1)
      /\ peer[p].sd = NoSock => peer[p].state \notin {"CONNECTED", "CONNECT_ACK"}
  BY <1>3 DEF ConnInv, HigherInv, PeerInv, PeerAt
<1>6. n \notin DOMAIN conns =>
        /\ conns'[n].from = p /\ conns'[n].pending /\ ~conns'[n].reset
        /\ conns'[n].est \in {"no", "syn"}
        /\ \A r \in Proc : ~conns'[n].closed[r] /\ conns'[n].stream[r] = <<>>
  <2>1. n \notin DOMAIN conns => conns'[n] = Socket(p) \/ conns'[n] = [Socket(p) EXCEPT !.est = "syn"]
    BY <1>2 DEF Tries
  <2>2. ASSUME NEW s, s = Socket(p) \/ s = [Socket(p) EXCEPT !.est = "syn"]
        PROVE /\ s.from = p /\ s.pending /\ ~s.reset /\ s.est \in {"no", "syn"}
              /\ \A r \in Proc : ~s.closed[r] /\ s.stream[r] = <<>>
    BY <2>2 DEF Socket
  <2> QED
    BY SMTT(60), <2>1, <2>2
<1>h. \A op \in {"try", "failed"} :
        Has(p, op)' <=> \/ \E j \in 2..Len(queue[p]) : queue[p][j].op = op
                        \/ \E k \in DOMAIN evs : evs[k].op = op
  <2> TAKE op \in {"try", "failed"}
  <2>1. op \notin {"read", "write"} /\ TypeOK
    BY <1>1
  <2> QED
    BY <2>1, HasStep
<1>7. PeerAt(p)'
  BY <1>1, <1>2, <1>5, <1>c DEF ConnInv, PeerInv, PeerAt
<1>8. ASSUME p = 0 PROVE LowerInv'
  <2>1. Has(0, "failed")' => Has(0, "failed") \/ \E k \in DOMAIN evs : evs[k].op = "failed"
    <3>1. Has(0, "failed")' => \/ \E j \in 2..Len(queue[0]) : queue[0][j].op = "failed"
                               \/ \E k \in DOMAIN evs : evs[k].op = "failed"
      <4>1. Has(p, "failed")' <=> \/ \E j \in 2..Len(queue[p]) : queue[p][j].op = "failed"
                                  \/ \E k \in DOMAIN evs : evs[k].op = "failed"
        BY <1>h
      <4> QED
        BY <4>1, <1>8
    <3> QED
      BY <3>1, <1>3, <1>8 DEF Has
  <2>2. pr.state = "CONNECTED" => pr.sd = peer[0].sd /\ peer[0].state = "CONNECTED" /\ pr.sd \in DOMAIN conns
    BY <1>2, <1>5, <1>8
  <2>3. peer'[0] = pr
    BY <1>1, <1>8
  <2> QED
    BY <2>1, <2>2, <2>3, <1>8, <1>s DEF ConnInv, LowerInv
<1>9. ASSUME p = 1 PROVE HigherInv'
  <2>1. OneTry(1)
    BY DEF ConnInv, HigherInv, OneTry
  <2>2. \A j \in 2..Len(queue[1]) : queue[1][j].op # "try"
    <3> SUFFICES ASSUME NEW j \in 2..Len(queue[1]), queue[1][j].op = "try" PROVE FALSE
      OBVIOUS
    <3>1. j \in DOMAIN queue[1] /\ j # 1
      BY <1>3, <1>9
    <3> QED
      BY <3>1, <2>1, <1>3, <1>9 DEF OneTry
  <2>3. ~Has(1, "try")'
    <3>1. Has(1, "try")' <=> \/ \E j \in 2..Len(queue[1]) : queue[1][j].op = "try"
                             \/ \E k \in DOMAIN evs : evs[k].op = "try"
      <4>1. Has(p, "try")' <=> \/ \E j \in 2..Len(queue[p]) : queue[p][j].op = "try"
                                  \/ \E k \in DOMAIN evs : evs[k].op = "try"
        BY <1>h
      <4> QED
        BY <4>1, <1>9
    <3> QED
      BY <3>1, <2>2
  <2>4. OneTry(1)'
    BY <2>3 DEF OneTry, Has
  <2>5. conns'[n].from = 1 /\ (pr.state = "FAILED" => conns'[n].est = "no")
    BY <1>2, <1>5, <1>6, <1>9, <1>s
  <2>6. peer'[1] = pr /\ pr.state \in {"CONNECTING", "FAILED"}
    BY <1>1, <1>5, <1>9
  <2> QED
    BY <2>3, <2>4, <2>5, <2>6, <1>2 DEF HigherInv, OneTry
<1>10. ASSUME NEW c \in DOMAIN conns PROVE SocketAt(c)'
  <2>1. Waits(c)' => Waits(c)
    BY <1>1, WaitsStep DEF ConnInv
  <2>2. SocketAt(c)
    BY DEF ConnInv, SocketInv
  <2>3. conns[c].from \in Proc /\ Other(conns[c].from) \in Proc
    <3>1. conns[c] \in Sockets
      BY <1>1
    <3> QED
      BY <3>1, OtherIs DEF Sockets
  <2>4. conns'[c].est # "up" => conns[c].est # "up"
    BY <1>c
  <2>5. \A r \in Proc : peer'[r].sd = c => /\ peer[r].sd = c
                                           /\ peer'[r].state = "CONNECTED" => peer[r].state = "CONNECTED"
    BY <1>1, <1>2
  <2> QED
    BY <2>1, <2>2, <2>3, <2>4, <2>5, <1>1, <1>s DEF SocketAt
<1>11. ASSUME n \notin DOMAIN conns PROVE SocketAt(n)'
  <2>1. Other(conns'[n].from) = q
    BY <1>6, <1>11
  <2>2. peer'[q].sd # n
    BY <1>1, <1>2, <1>4, <1>11
  <2>3. peer'[p].state # "CONNECTED"
    BY <1>1, <1>2, <1>5, <1>11
  <2> QED
    BY <2>1, <2>2, <2>3, <1>1, <1>6, <1>11 DEF SocketAt
<1>12. SocketInv'
  BY <1>2, <1>10, <1>11 DEF SocketInv
<1>13. ASSUME NEW c \in DOMAIN conns PROVE ChoiceAt(c)'
  <2>1. ChoiceAt(c) /\ c # NoSock
    BY <1>c DEF ConnInv, ChoiceInv
  <2>2. /\ conns'[c].from = conns[c].from /\ conns'[c].closed = conns[c].closed
        /\ conns'[c].stream = conns[c].stream
        /\ c # peer[p].sd => conns'[c].est = conns[c].est
        /\ (peer[p].sd = c \/ pr.sd = c) => c = n /\ pr.sd = c /\ peer[p].sd = c
    <3>1. peer[p].sd = c => n = c
      BY <1>2, <1>c
    <3>2. n = c => peer[p].sd = c
      BY <1>2
    <3> QED
      BY <3>1, <3>2, <1>c, <1>s
  <2>3. CASE p = 0
    <3>1. peer'[0] = pr /\ peer'[1] = peer[1]
      BY <2>3, <1>1 DEF Other
    <3>2. pr.state = "CONNECTED" => peer[0].state = "CONNECTED"
      BY <2>3
    <3>3. c = peer[0].sd /\ conns'[c].est # conns[c].est => conns[c].est = "no" /\ conns[c].from = 0
      <4> SUFFICES ASSUME c = peer[0].sd, conns'[c].est # conns[c].est
                   PROVE conns[c].est = "no" /\ conns[c].from = 0
        OBVIOUS
      <4>1. conns[c].est = "no"
        BY <1>2, <2>2, <2>3
      <4>2. Waits(c)
        BY <4>1 DEF ConnInv, SocketInv, SocketAt, Waits
      <4> QED
        BY <4>1, <4>2, <2>3, NotWaiting
    <3> QED
      BY <2>1, <2>2, <2>3, <3>1, <3>2, <3>3 DEF ChoiceAt
  <2>4. CASE p = 1
    <3>1. peer'[1] = pr /\ peer'[0] = peer[0] /\ pr.state \in {"CONNECTING", "FAILED"}
          /\ peer[1].state = "CONNECTING"
      BY <2>4, <1>1, <1>5 DEF Other
    <3>2. c = peer[1].sd => conns[c].from = 1 /\ conns[c].est = "no" /\ conns'[c].est \in {"no", "syn"}
      BY <2>1, <2>2, <2>4, <1>2, <1>5
    <3> QED
      BY <2>1, <2>2, <2>4, <3>1, <3>2 DEF ChoiceAt
  <2> QED
    BY <2>3, <2>4 DEF Proc
<1>14. ASSUME n \notin DOMAIN conns PROVE ChoiceAt(n)'
  <2>1. peer[0].sd # n /\ peer[1].sd # n
    BY <1>1, <1>2, <1>4, <1>14
  <2>2. pr.state # "CONNECTED" /\ pr.sd = n
    BY <1>2, <1>5, <1>14
  <2>3. CASE p = 0
    <3>1. peer'[0] = pr /\ peer'[1] = peer[1]
      BY <2>3, <1>1 DEF Other
    <3> QED
      BY <2>1, <2>2, <2>3, <3>1, <1>1, <1>6, <1>14 DEF ChoiceAt
  <2>4. CASE p = 1
    <3>1. peer'[1] = pr /\ peer'[0] = peer[0]
      BY <2>4, <1>1 DEF Other
    <3> QED
      BY <2>1, <2>2, <2>4, <3>1, <1>1, <1>6, <1>14 DEF ChoiceAt
  <2> QED
    BY <2>3, <2>4 DEF Proc
<1>15. ChoiceInv'
  BY <1>2, <1>13, <1>14 DEF ChoiceInv
<1>16. ASSUME NEW j \in 2..Len(queue[p]), queue[p][j].op \in {"read", "write"} PROVE FALSE
  <2>1. j \in DOMAIN queue[p] /\ queue[p][1].op = "try" /\ queue[p][j].op \in SocketOps
    BY <1>3, <1>16 DEF SocketOps
  <2>2. j < 1
    BY <2>1, <1>3 DEF ConnInv, QueueInv, QueueAt
  <2> QED
    BY <2>2
<1>17. received' \in [Proc -> Seq(Nat)] /\ completed' \in [Proc -> Seq(Nat)]
  BY <1>1 DEF TypeOK
<1> QED
  BY <1>2, <1>7, <1>8, <1>9, <1>12, <1>15, <1>16, <1>17, HandlerStep

\* The first and the last of some addresses.
LEMMA Extremes ==
    ASSUME NEW n \in Nat, NEW S, S # {}, S \subseteq 1..n
    PROVE Min(S) \in S /\ Max(S) \in S
<1>1. \E m \in S : \A k \in S : m <= k
  <2>1. S \in SUBSET Nat
    OBVIOUS
  <2> QED
    BY <2>1, Least
<1>2. \E m \in S : \A k \in S : m >= k
  <2> DEFINE R == {n - k : k \in S}
  <2>1. R \in SUBSET Nat /\ R # {}
    <3>1. \A k \in S : n - k \in Nat
      OBVIOUS
    <3> QED
      BY <3>1
  <2>2. PICK r \in R : \A t \in R : r <= t
    BY <2>1, Least
  <2>3. PICK m \in S : r = n - m
    OBVIOUS
  <2>4. \A k \in S : n - m <= n - k
    BY <2>2, <2>3
  <2>5. \A k \in S : k \in Int
    OBVIOUS
  <2> QED
    BY <2>3, <2>4, <2>5
<1> QED
  BY <1>1, <1>2 DEF Min, Max

\* An address that can be used has tries left.
Tried(list, S) == [a \in DOMAIN list |->
                      [list[a] EXCEPT !.retries = @ + (IF a \in S THEN 1 ELSE 0)]]
LEMMA TriedIs ==
    ASSUME NEW x \in Peers, NEW S, S \subseteq Usable(x)
    PROVE Tried(x.addrs, S) \in Seq(Addresses) /\ Len(Tried(x.addrs, S)) = Len(x.addrs)
<1> DEFINE list == x.addrs
           n == Len(list)
           more(a) == [list[a] EXCEPT !.retries = @ + (IF a \in S THEN 1 ELSE 0)]
           t == Tried(list, S)
<1>1. list \in Seq(Addresses) /\ \A a \in S : list[a].retries <= MaxRetries
  BY DEF Peers, Usable
<1>2. n \in Nat /\ DOMAIN list = 1..n /\ \A a \in 1..n : list[a] \in Addresses
  BY <1>1
<1>3. ASSUME NEW a \in 1..n PROVE more(a) \in Addresses
  <2>1. list[a] \in Addresses /\ (a \in S => list[a].retries <= MaxRetries)
    BY <1>1, <1>2
  <2> QED
    BY <2>1 DEF Addresses, MaxRetries
<1>4. t = [a \in 1..n |-> more(a)]
  BY <1>2 DEF Tried
<1> HIDE DEF more, list
<1>5. t \in [1..n -> Addresses]
  BY <1>3, <1>4
<1> HIDE DEF t, n
<1> QED
  BY <1>2, <1>5 DEF t, n, list

\* What stays of a queue that is dropped: the message on deck.
LEMMA DeckIs == ASSUME NEW o \in Seq(Nat) PROVE SubSeq(o, 1, Min({1, Len(o)})) \in Seq(Nat)
<1> DEFINE h == Min({1, Len(o)})
<1>1. Len(o) \in Nat
  OBVIOUS
<1>2. h = IF Len(o) = 0 THEN 0 ELSE 1
  BY <1>1 DEF Min
<1> HIDE DEF h
<1>3. h \in Int /\ \A i \in 1..h : o[i] \in Nat
  BY <1>1, <1>2
<1>4. SubSeq(o, 1, h) \in Seq(Nat)
  BY <1>3, SubSeqProperties
<1> QED
  BY <1>4 DEF h

LEMMA TryConnectStep ==
    ASSUME ConnInv, NEW p \in Proc, TryConnect(p) PROVE ConnInv'
<1> DEFINE x == peer[p]
           fresh == x.sd = NoSock
           cs == IF fresh THEN Append(conns, Socket(p)) ELSE conns
           pr == IF fresh THEN [EventsOff(x) EXCEPT !.sd = Len(cs)] ELSE x
           usable == Usable(pr)
           least == Min(usable)
           last == IF usable = {} THEN pr.active ELSE Max(usable)
           deck == SubSeq(pr.outq, 1, Min({1, Len(pr.outq)}))
           good == [pr EXCEPT !.send_ev = TRUE, !.active = least, !.addrs = Tried(pr.addrs, {least})]
           bad == [pr EXCEPT !.state = "FAILED", !.addrs = Tried(pr.addrs, usable),
                             !.active = last, !.outq = deck]
           ds == [cs EXCEPT ![pr.sd].est = "syn"]
           failure == <<Ev("failed", 0)>>
<1>1. /\ queue[p] # <<>> /\ ~broken[p] /\ Head(queue[p]).op = "try" /\ Len(cs) <= MaxConn
      /\ \/ usable # {} /\ Starts(cs, pr.sd, p) /\ Returns(p, good, ds, <<>>)
         \/ Returns(p, bad, cs, failure)
      /\ setting' = setting /\ known' = known /\ broken' = broken
      /\ issued' = issued /\ completed' = completed /\ received' = received
  BY DEF TryConnect, Runs, users, Tried
<1>2. /\ TypeOK /\ x \in Peers /\ x.active <= Len(x.addrs) /\ conns \in Seq(Sockets)
      /\ x.sd \in 0..Len(conns) /\ known' \in [Proc -> BOOLEAN]
  BY <1>1 DEF ConnInv, TypeOK, Peers
<1>s. Socket(p) \in Sockets /\ Socket(p).est = "no" /\ Socket(p).from = p
  <2>1. [q \in Proc |-> <<>>] \in [Proc -> Seq(Nat)]
    OBVIOUS
  <2> QED
    BY <2>1 DEF Socket, Sockets
<1>3. /\ cs \in Seq(Sockets) /\ (fresh => Len(cs) = Len(conns) + 1 /\ cs[Len(cs)] = Socket(p))
      /\ (\A c \in 1..Len(conns) : cs[c] = conns[c]) /\ (~fresh => cs = conns)
  BY <1>2, <1>s
<1> HIDE DEF cs
<1>4. /\ pr \in Peers /\ pr.sd = IF fresh THEN Len(cs) ELSE x.sd
      /\ pr.state = x.state /\ pr.active = x.active /\ pr.addrs = x.addrs /\ pr.outq = x.outq
  <2>1. Len(cs) \in Nat
    BY <1>3
  <2> DEFINE y == EventsOff(x)
  <2>2. /\ y \in Peers /\ y.state = x.state /\ y.active = x.active /\ y.addrs = x.addrs
        /\ y.outq = x.outq
    BY <1>2, EventsOffIs
  <2> HIDE DEF y
  <2> DEFINE z == [y EXCEPT !.sd = Len(cs)]
  <2>3. /\ z \in Peers /\ z.sd = Len(cs) /\ z.state = x.state /\ z.active = x.active
        /\ z.addrs = x.addrs /\ z.outq = x.outq
    BY <2>1, <2>2 DEF Peers
  <2>4. pr = IF fresh THEN z ELSE x
    BY DEF y
  <2> HIDE DEF z, pr
  <2> QED
    BY <1>2, <2>3, <2>4
<1> HIDE DEF pr
<1>5. /\ pr.sd \in 1..Len(cs) /\ cs[pr.sd] \in Sockets
      /\ fresh => pr.sd = Len(cs) /\ pr.sd = Len(conns) + 1
      /\ ~fresh => pr.sd = x.sd /\ pr.sd \in 1..Len(conns)
  BY <1>2, <1>3, <1>4 DEF NoSock
<1>6. pr.addrs \in Seq(Addresses) /\ usable \subseteq 1..Len(pr.addrs) /\ Len(pr.addrs) \in Nat
      /\ pr.outq \in Seq(Nat) /\ pr.active \in Nat /\ pr.active <= Len(pr.addrs)
  <2>1. pr.addrs \in Seq(Addresses) /\ pr.outq \in Seq(Nat) /\ pr.active \in Nat
    BY <1>4 DEF Peers
  <2>2. usable \subseteq DOMAIN pr.addrs
    BY DEF Usable
  <2> QED
    BY <2>1, <2>2, <1>2, <1>4
<1>7. usable # {} => least \in usable /\ Max(usable) \in usable
  BY <1>6, Extremes
<1>8. ASSUME usable # {}, Starts(cs, pr.sd, p), Returns(p, good, ds, <<>>) PROVE ConnInv'
  <2> DEFINE s == [cs[pr.sd] EXCEPT !.est = "syn"]
             as == Tried(pr.addrs, {least})
  <2>1. /\ s \in Sockets /\ s.from = cs[pr.sd].from /\ s.closed = cs[pr.sd].closed
        /\ s.reset = cs[pr.sd].reset /\ s.stream = cs[pr.sd].stream /\ s.est = "syn"
        /\ s.pending = cs[pr.sd].pending /\ cs[pr.sd].est = "no"
    BY <1>5, <1>8 DEF Sockets, Starts
  <2>2. ds = [cs EXCEPT ![pr.sd] = s]
    OBVIOUS
  <2> HIDE DEF ds
  <2>3. fresh => s = [Socket(p) EXCEPT !.est = "syn"]
    BY <1>3, <1>5
  <2> HIDE DEF s
  <2>4. ds \in Seq(Sockets) /\ Len(ds) = Len(cs) /\ \A c \in 1..Len(cs) : ds[c] = IF c = pr.sd THEN s ELSE cs[c]
    BY <2>1, <2>2, <1>3, <1>5
  <2>5. conns' = ds
    BY <1>8 DEF Returns
  <2>6. as \in Seq(Addresses) /\ Len(as) = Len(pr.addrs) /\ least \in Nat /\ least <= Len(as)
    <3>1. least \in usable /\ {least} \subseteq Usable(pr)
      BY <1>7, <1>8
    <3>2. as \in Seq(Addresses) /\ Len(as) = Len(pr.addrs)
      BY <3>1, <1>4, TriedIs
    <3>3. least \in 1..Len(pr.addrs)
      BY <3>1, <1>6
    <3> HIDE DEF least
    <3>4. least \in Nat /\ least <= Len(pr.addrs)
      BY <3>3, <1>6
    <3> HIDE DEF as
    <3> QED
      BY <3>2, <3>4
  <2> HIDE DEF as, least, usable
  <2>7. /\ good \in Peers /\ good.sd = pr.sd /\ good.state = x.state /\ good.active = least
        /\ good.addrs = as
    BY <2>6, <1>4 DEF Peers, as
  <2> HIDE DEF good
  <2>8. ~fresh => conns[x.sd].est = "no" /\ conns[x.sd].from = p
    <3> SUFFICES ASSUME ~fresh PROVE conns[x.sd].est = "no" /\ conns[x.sd].from = p
      OBVIOUS
    <3>1. x.sd \in DOMAIN conns /\ conns[x.sd].est = "no"
      BY <1>2, <1>3, <1>5, <2>1
    <3>2. Waits(x.sd)
      BY <3>1 DEF ConnInv, SocketInv, SocketAt, Waits
    <3> QED
      BY <3>1, <3>2, NotWaiting
  <2>9. Tries(p, pr.sd)
    <3>1. DOMAIN conns = 1..Len(conns) /\ Len(conns) \in Nat /\ Len(cs) \in Nat /\ Len(conns) <= Len(cs)
      BY <1>2, <1>3
    <3>2. \A c \in 1..Len(conns) : c # pr.sd => ds[c] = conns[c]
      BY <3>1, <2>4, <1>3
    <3>3. \A c \in 1..Len(conns) :
            /\ ds[c].from = conns[c].from /\ ds[c].pending = conns[c].pending
            /\ ds[c].closed = conns[c].closed /\ ds[c].reset = conns[c].reset
            /\ ds[c].stream = conns[c].stream
            /\ c # peer[p].sd => ds[c].est = conns[c].est
      <4> TAKE c \in 1..Len(conns)
      <4>1. CASE c # pr.sd
        BY <4>1, <3>2
      <4>2. CASE c = pr.sd
        <5>1. ~fresh /\ c = x.sd /\ cs[c] = conns[c] /\ ds[c] = s
          BY <4>2, <1>3, <1>5, <2>4, <3>1
        <5> QED
          BY <4>2, <5>1, <2>1
      <4> QED
        BY <4>1, <4>2
    <3>4. ds[pr.sd] = s
      BY <1>5, <2>4
    <3> QED
      BY <3>1, <3>3, <3>4, <2>3, <2>4, <2>5, <2>8, <1>3, <1>5 DEF Tries
  <2>10. Grows(p)
    <3>2. DOMAIN conns = 1..Len(conns) /\ Len(conns) <= Len(ds) /\ x.sd \in Nat /\ \A c \in 1..Len(conns) : c # NoSock
      BY <1>2, <1>3, <2>4 DEF NoSock
    <3>3. \A c \in DOMAIN conns :
            /\ conns'[c].from = conns[c].from /\ conns'[c].pending = conns[c].pending
            /\ conns'[c].closed = conns[c].closed
            /\ c # x.sd => conns'[c].est = conns[c].est
      BY <2>9 DEF Tries
    <3>4. \A c \in DOMAIN conns : c = x.sd => ~fresh
      BY <3>2
    <3> QED
      BY <2>4, <2>5, <2>8, <3>2, <3>3, <3>4 DEF Grows
  <2>11. Handles(p, good, <<>>) /\ \A i \in DOMAIN <<>> : FALSE
    <3>1. <<>> \in Seq(Events) /\ \A i \in DOMAIN <<>> : FALSE
      OBVIOUS
    <3> QED
      BY <3>1, <1>1, <1>8, <2>5, <2>7, <2>10 DEF Handles
  <2>12. conns'[pr.sd].est = "syn" /\ (pr.sd = x.sd => conns[pr.sd].est = "no")
    <3>1. pr.sd = x.sd => ~fresh
      BY <1>5 DEF NoSock
    <3> QED
      BY <3>1, <2>1, <2>4, <2>5, <2>8, <1>5
  <2>13. Len(conns') <= MaxConn /\ good.active <= Len(good.addrs)
    BY <1>1, <2>4, <2>5, <2>6, <2>7
  <2> QED
    BY <1>1, <1>2, <2>7, <2>9, <2>11, <2>12, <2>13, TryStep
<1>9. ASSUME Returns(p, bad, cs, failure) PROVE ConnInv'
  <2> DEFINE as == Tried(pr.addrs, usable)
  <2>1. conns' = cs
    BY <1>9 DEF Returns
  <2>2. as \in Seq(Addresses) /\ Len(as) = Len(pr.addrs)
    BY <1>4, TriedIs
  <2>3. last \in Nat /\ last <= Len(as) /\ deck \in Seq(Nat)
    <3>1. deck \in Seq(Nat)
      BY <1>6, DeckIs
    <3>2. CASE usable = {}
      BY <3>1, <3>2, <2>2, <1>6
    <3>3. CASE usable # {}
      <4>1. last \in 1..Len(pr.addrs)
        BY <3>3, <1>6, <1>7
      <4> HIDE DEF last, deck, as
      <4> QED
        BY <4>1, <3>1, <2>2, <1>6
    <3> QED
      BY <3>2, <3>3
  <2> HIDE DEF as, last, deck, usable
  <2>4. /\ bad \in Peers /\ bad.sd = pr.sd /\ bad.state = "FAILED" /\ bad.active = last
        /\ bad.addrs = as
    BY <2>2, <2>3, <1>4 DEF Peers, States, as
  <2> HIDE DEF bad
  <2>5. DOMAIN conns = 1..Len(conns) /\ Len(conns) \in Nat /\ Len(conns) <= Len(cs)
    BY <1>2, <1>3
  <2>6. Tries(p, pr.sd)
    BY <2>1, <2>5, <1>3, <1>5 DEF Tries
  <2>7. Grows(p)
    BY <2>1, <2>5, <1>3 DEF Grows
  <2>8. failure \in Seq(Events) /\ \A i \in DOMAIN failure : failure[i].op = "failed"
    BY NewEvents
  <2> HIDE DEF failure
  <2>9. Handles(p, bad, failure)
    BY <1>1, <1>9, <2>1, <2>4, <2>7, <2>8 DEF Handles, SocketOps
  <2>10. conns'[pr.sd].est = IF pr.sd = x.sd THEN conns[pr.sd].est ELSE "no"
    <3>1. fresh => pr.sd # x.sd
      BY <1>5 DEF NoSock
    <3> QED
      BY <3>1, <2>1, <1>3, <1>5, <1>s
  <2>11. Len(conns') <= MaxConn /\ bad.active <= Len(bad.addrs)
    BY <1>1, <2>1, <2>2, <2>3, <2>4
  <2>12. \A i \in DOMAIN failure : failure[i].op # "try"
    BY <2>8
  <2> QED
    BY <1>1, <1>2, <2>4, <2>6, <2>9, <2>10, <2>11, <2>12, TryStep
<1> QED
  BY <1>1, <1>8, <1>9

-----------------------------------------------------------------------------
(* The invariant, and what it implies. *)

LEMMA InitConn == Init => ConnInv
<1> SUFFICES ASSUME Init PROVE ConnInv
  OBVIOUS
<1>1. conns = <<>> /\ \A p \in Proc : queue[p] = <<>> /\ peer[p] = NoPeer /\ received[p] = <<>>
  BY DEF Init
<1>2. /\ conns \in Seq(Sockets) /\ DOMAIN conns = {} /\ Len(conns) = 0
      /\ \A p \in Proc : DOMAIN queue[p] = {}
  BY <1>1
<1>3. NoPeer \in Peers /\ NoPeer.sd = NoSock /\ NoPeer.state = "NONE"
      /\ NoPeer.sd = 0 /\ NoPeer.active = 0 /\ Len(NoPeer.addrs) = 0
  <2>1. <<>> \in Seq(Addresses) /\ <<>> \in Seq(Nat) /\ Len(<<>>) = 0
    OBVIOUS
  <2> QED
    BY <2>1 DEF NoPeer, Peers, States, NoSock
<1>4. TypeOK
  <2>1. queue \in [Proc -> Seq(Events)] /\ received \in [Proc -> Seq(Nat)] /\ completed \in [Proc -> Seq(Nat)]
    <3>1. <<>> \in Seq(Events) /\ <<>> \in Seq(Nat)
      OBVIOUS
    <3> QED
      BY <3>1 DEF Init
  <2>2. peer \in [Proc -> Peers] /\ \A p \in Proc : peer[p].sd <= 0 /\ peer[p].active <= Len(peer[p].addrs)
    BY <1>3 DEF Init
  <2>3. issued \in [Proc -> Nat] /\ \A p \in Proc : issued[p] <= Messages[p]
    BY TcpAssumption DEF Init
  <2>4. setting \in Settings /\ known \in [Proc -> BOOLEAN] /\ draining \in [Proc -> BOOLEAN]
        /\ broken \in [Proc -> BOOLEAN]
    BY DEF Init
  <2>5. Len(conns) <= MaxConn
    BY <1>2, TcpAssumption
  <2> QED
    BY <1>2, <2>1, <2>2, <2>3, <2>4, <2>5 DEF TypeOK
<1>5. QueueInv /\ \A p \in Proc, op \in {"try", "failed"} : ~Has(p, op)
  BY <1>2 DEF QueueInv, QueueAt, Has
<1>6. 0 \in Proc /\ 1 \in Proc
  BY DEF Proc
<1>7. PeerInv /\ LowerInv
  BY <1>1, <1>3, <1>5, <1>6 DEF PeerInv, PeerAt, LowerInv
<1>8. HigherInv
  BY <1>1, <1>2, <1>3, <1>5, <1>6 DEF HigherInv
<1>9. SocketInv /\ ChoiceInv
  BY <1>2 DEF SocketInv, ChoiceInv
<1> QED
  BY <1>4, <1>5, <1>7, <1>8, <1>9 DEF ConnInv

LEMMA StutterConn == ConnInv /\ UNCHANGED vars => ConnInv'
<1> SUFFICES ASSUME ConnInv, UNCHANGED vars PROVE ConnInv'
  OBVIOUS
<1>1. /\ setting' = setting /\ peer' = peer /\ conns' = conns /\ known' = known /\ queue' = queue
      /\ draining' = draining /\ issued' = issued /\ received' = received
      /\ completed' = completed /\ broken' = broken
  BY DEF vars, net, users
<1>2. TypeOK'
  BY <1>1 DEF ConnInv, TypeOK
<1>3. QueueInv'
  BY <1>1 DEF ConnInv, QueueInv, QueueAt, EventInv
<1>4. PeerInv' /\ LowerInv' /\ HigherInv'
  BY <1>1 DEF ConnInv, PeerInv, PeerAt, LowerInv, HigherInv, Has
<1>5. SocketInv' /\ ChoiceInv'
  BY <1>1 DEF ConnInv, SocketInv, SocketAt, Waits, ChoiceInv, ChoiceAt
<1> QED
  BY <1>2, <1>3, <1>4, <1>5 DEF ConnInv

LEMMA NextConn == ConnInv /\ [Next]_vars => ConnInv'
<1> SUFFICES ASSUME ConnInv, [Next]_vars PROVE ConnInv'
  OBVIOUS
<1>1. ASSUME NEW p \in Proc, UserSend(p) PROVE ConnInv'
  BY <1>1, SendingStep
<1>2. ASSUME NEW p \in Proc, Poll(p) PROVE ConnInv'
  BY <1>2, PollStep
<1>3. ASSUME NEW p \in Proc, Handler(p) PROVE ConnInv'
  <2>1. CASE BaseProcessSend(p)
    BY <2>1, BaseProcessSendStep
  <2>2. CASE ProcessSetPeer(p)
    BY <2>2, ProcessSetPeerStep
  <2>3. CASE ProcessSend(p)
    BY <2>3, ProcessSendStep
  <2>4. CASE TryConnect(p)
    BY <2>4, TryConnectStep
  <2>5. CASE CompleteConnect(p)
    BY <2>5, CompleteConnectStep
  <2>6. CASE WriteMessage(p)
    BY <2>6, WriteMessageStep
  <2>7. CASE WriteInvalid(p) \/ ReadInvalid(p) \/ ComponentKnows(p)
    BY <2>7, NothingStep
  <2>8. CASE ReadConnectAck(p)
    BY <2>8, ReadConnectAckStep
  <2>9. CASE ReadMessage(p)
    BY <2>9, ReadMessageStep
  <2>10. CASE Accept(p)
    BY <2>10, AcceptStep
  <2>11. CASE FailedToConnect(p)
    BY <2>11, NothingStep, AbortsStep
  <2> QED
    BY <1>3, <2>1, <2>2, <2>3, <2>4, <2>5, <2>6, <2>7, <2>8, <2>9, <2>10, <2>11 DEF Handler
<1>4. ASSUME NEW c \in DOMAIN conns, Establish(c) PROVE ConnInv'
  BY <1>4, EstablishStep
<1>5. CASE UNCHANGED vars
  BY <1>5, StutterConn
<1> QED
  BY <1>1, <1>2, <1>3, <1>4, <1>5 DEF Next

\* The inductive invariant of the two members and their sockets always holds,
\* however many sockets there are, and whatever is refused, reset or given up.
THEOREM ConnectionInvariance == Spec => []ConnInv
<1>1. Init => ConnInv
  BY InitConn
<1>2. ConnInv /\ [Next]_vars => ConnInv'
  BY NextConn
<1> QED
  BY <1>1, <1>2, PTL DEF Spec

\* Two members that both believe themselves connected (tcp_peer_connected, from
\* either end) always use the same socket: recv_connect_ack and peer_accept settle
\* every race of two connections the same way on both sides.
THEOREM ConnectionHoldsAlways == Spec => []ConnectionHolds
<1>1. ConnInv => ConnectionHolds
  BY OneSocket
<1> QED
  BY <1>1, ConnectionInvariance, PTL

-----------------------------------------------------------------------------
(***************************************************************************)
(* No message arrives twice or overtakes another, whatever is refused,     *)
(* reset or given up, and whichever sockets carry the messages. Those that *)
(* a member still has wait in the order they were issued in, all behind    *)
(* the ones it has written; a reader leaves a socket for good, and takes   *)
(* one on which nothing but connect-acks has been written.                 *)
(***************************************************************************)

-----------------------------------------------------------------------------
(* The inductive invariant. *)

Sends == {"send", "base_send"}

\* A send on the base of the TCP module is ahead of one that is still to get there.
Before(q, i, j) ==
    /\ q[i].op \in Sends /\ q[j].op \in Sends
    /\ \/ q[i].op = q[j].op /\ i < j
       \/ q[i].op = "send" /\ q[j].op = "base_send"
QueueOrder(q, n) ==
    /\ \A i \in DOMAIN q : q[i].op \in Sends => q[i].x \in 1..n
    /\ \A i, j \in DOMAIN q : Before(q, i, j) => q[i].x < q[j].x
OutOrder(o, q, n) ==
    /\ \A i \in DOMAIN o : o[i] \in 1..n /\ \A j \in DOMAIN q : q[j].op \in Sends => o[i] < q[j].x
    /\ \A i, j \in DOMAIN o : i < j => o[i] < o[j]

\* The messages that p still has wait in the order of their numbers.
SendAt(p) ==
    /\ p \in setting.threaded => ~Has(p, "base_send")
    /\ QueueOrder(queue[p], issued[p]) /\ OutOrder(peer[p].outq, queue[p], issued[p])

QueuedSend(p, m) == \E i \in DOMAIN queue[p] : queue[p][i].op \in Sends /\ queue[p][i].x = m
IsUnsent(p, m) == (\E i \in DOMAIN peer[p].outq : peer[p].outq[i] = m) \/ QueuedSend(p, m)
IsSent(p, w) ==
    \/ \E c \in DOMAIN conns : \E i \in DOMAIN conns[c].stream[Other(p)] : conns[c].stream[Other(p)][i] = w
    \/ \E i \in DOMAIN received[Other(p)] : received[Other(p)][i] = w

\* They are behind everything that p has written.
SentAt(p) == \A w \in Nat : IsSent(p, w) =>
                 w <= issued[p] /\ \A m \in Nat : IsUnsent(p, m) => w < m

Rising(s) == \A i, j \in DOMAIN s : i < j /\ s[i] # Ident /\ s[j] # Ident => s[i] < s[j]
Below(s, t) == \A i \in DOMAIN s, j \in DOMAIN t : s[i] # Ident /\ t[j] # Ident => s[i] < t[j]

\* What q has received rises, and so does what it can still read.
StreamAt(q) ==
    /\ Rising(received[q])
    /\ peer[q].sd # NoSock => /\ Rising(conns[peer[q].sd].stream[q])
                              /\ Below(received[q], conns[peer[q].sd].stream[q])

OrderInv == \A p \in Proc : SendAt(p) /\ SentAt(p) /\ StreamAt(p)

-----------------------------------------------------------------------------
(* Sequences. *)

LEMMA TailIs ==
    ASSUME NEW S, NEW s \in Seq(S), s # <<>>
    PROVE /\ Head(s) \in S /\ Head(s) = s[1] /\ 1 \in DOMAIN s
          /\ Tail(s) \in Seq(S) /\ \A i \in DOMAIN Tail(s) : i + 1 \in DOMAIN s /\ i + 1 > 1 /\ Tail(s)[i] = s[i + 1]
OBVIOUS

LEMMA AppendIs ==
    ASSUME NEW S, NEW s \in Seq(S), NEW x \in S
    PROVE /\ Append(s, x) \in Seq(S)
          /\ \A i \in DOMAIN Append(s, x) : \/ i \in DOMAIN s /\ Append(s, x)[i] = s[i]
                                            \/ i = Len(s) + 1 /\ Append(s, x)[i] = x
          /\ \A i \in DOMAIN s : i \in Nat /\ i < Len(s) + 1
OBVIOUS

\* A part of a list.
IsPart(s, o) == \E k \in Nat : \A i \in DOMAIN s : i + k \in DOMAIN o /\ s[i] = o[i + k]

LEMMA RisingTail ==
    ASSUME NEW s \in Seq(Nat), s # <<>>, Rising(s), NEW r \in Seq(Nat), Below(r, s), Rising(r)
    PROVE /\ Rising(Tail(s)) /\ Below(r, Tail(s))
          /\ Rising(Append(r, Head(s))) /\ Below(Append(r, Head(s)), Tail(s))
<1> DEFINE t == Tail(s)
           h == Head(s)
           a == Append(r, h)
<1>1. /\ h \in Nat /\ h = s[1] /\ 1 \in DOMAIN s
      /\ t \in Seq(Nat) /\ \A i \in DOMAIN t : i + 1 \in DOMAIN s /\ i + 1 > 1 /\ t[i] = s[i + 1]
  BY TailIs
<1>2. \A i \in DOMAIN t : i \in Nat
  BY <1>1
<1>h. h \in Nat
  BY <1>1
<1> HIDE DEF t, h
<1>3. /\ \A i \in DOMAIN a : \/ i \in DOMAIN r /\ a[i] = r[i]
                             \/ i = Len(r) + 1 /\ a[i] = h
      /\ \A i \in DOMAIN r : i \in Nat /\ i < Len(r) + 1
  BY <1>h, AppendIs
<1>4. Len(r) \in Nat
  OBVIOUS
<1> HIDE DEF a
<1>5. Rising(t)
  <2>1. ASSUME NEW i \in DOMAIN t, NEW j \in DOMAIN t, i < j, t[i] # Ident, t[j] # Ident
        PROVE t[i] < t[j]
    <3>1. i + 1 \in DOMAIN s /\ j + 1 \in DOMAIN s /\ i + 1 < j + 1
      BY <2>1, <1>1, <1>2
    <3> QED
      BY <2>1, <3>1, <1>1 DEF Rising
  <2> QED
    BY <2>1 DEF Rising
<1>6. Below(r, t)
  BY <1>1 DEF Below
<1>7. Rising(a)
  BY SMTT(60), <1>1, <1>3, <1>4 DEF Rising, Below
<1>8. Below(a, t)
  BY <1>1, <1>3 DEF Below, Rising
<1> QED
  BY <1>5, <1>6, <1>7, <1>8 DEF t, h, a

LEMMA RisingAppend ==
    ASSUME NEW s \in Seq(Nat), NEW w \in Nat, Rising(s), NEW r \in Seq(Nat), Below(r, s),
           \/ w = Ident
           \/ (\A i \in DOMAIN s : s[i] < w) /\ \A i \in DOMAIN r : r[i] < w
    PROVE Rising(Append(s, w)) /\ Below(r, Append(s, w))
<1> DEFINE a == Append(s, w)
<1>1. /\ \A i \in DOMAIN a : \/ i \in DOMAIN s /\ a[i] = s[i]
                             \/ i = Len(s) + 1 /\ a[i] = w
      /\ \A i \in DOMAIN s : i \in Nat /\ i < Len(s) + 1
  BY AppendIs
<1>2. Len(s) \in Nat
  OBVIOUS
<1> HIDE DEF a
<1>3. Rising(a)
  BY <1>1, <1>2 DEF Rising
<1>4. Below(r, a)
  BY <1>1 DEF Below
<1> QED
  BY <1>3, <1>4 DEF a

-----------------------------------------------------------------------------
(* The messages that wait. *)

\* A handler adds no send but the one that it runs on, which gets to the base of
\* the TCP module.
Moved(q, evs) ==
    /\ \A k \in DOMAIN evs : evs[k].op \in Sends =>
          q[1].op = "base_send" /\ evs[k].op = "send" /\ evs[k].x = q[1].x
    /\ \A k, l \in DOMAIN evs : evs[k].op \in Sends /\ evs[l].op \in Sends => k = l

LEMMA LeftOrder ==
    ASSUME NEW q \in Seq(Events), q # <<>>, NEW evs \in Seq(Events), NEW left \in Seq(Events),
           NEW pr, NEW n, NEW e, IsLeft(q, pr, evs, left, n, e), NEW m \in Nat, QueueOrder(q, m),
           Moved(q, evs)
    PROVE /\ QueueOrder(left, m)
          /\ \A j \in DOMAIN left : left[j].op \in Sends =>
                \E i \in DOMAIN q : /\ q[i].op \in Sends /\ left[j].x = q[i].x
                                    /\ \/ i # 1 /\ left[j] = q[i]
                                       \/ i = 1 /\ left[j].op = "send" /\ q[1].op = "base_send"
<1>1. /\ n \in Nat /\ Len(left) = n + Len(evs) /\ Len(evs) \in Nat /\ DOMAIN left = 1..Len(left)
      /\ DOMAIN q = 1..Len(q) /\ Len(q) \in Nat /\ 1 \in DOMAIN q /\ DOMAIN evs = 1..Len(evs)
      /\ \A i \in 1..n : left[i] = q[e[i]] /\ e[i] \in DOMAIN q /\ e[i] > 1 /\ e[i] \in Nat
      /\ \A i, j \in 1..n : i < j => e[i] < e[j]
      /\ \A i \in 1..Len(evs) : left[n + i] = evs[i]
  <2>1. n \in Nat /\ Len(left) = n + Len(evs) /\ e \in [1..n -> 2..Len(q)]
    BY DEF IsLeft
  <2>2. Len(evs) \in Nat /\ DOMAIN left = 1..Len(left) /\ DOMAIN q = 1..Len(q) /\ Len(q) \in Nat
        /\ 1 \in DOMAIN q /\ DOMAIN evs = 1..Len(evs)
    OBVIOUS
  <2>3. \A i \in 1..n : e[i] \in DOMAIN q /\ e[i] > 1 /\ e[i] \in Nat
    BY <2>1, <2>2
  <2> QED
    BY <2>1, <2>2, <2>3 DEF IsLeft
<1>2. \A j \in DOMAIN left :
          \/ j \in 1..n
          \/ /\ j > n /\ j - n \in DOMAIN evs /\ left[j] = evs[j - n]
             /\ left[j].op \in Sends => q[1].op = "base_send" /\ left[j].op = "send" /\ left[j].x = q[1].x
  <2> TAKE j \in DOMAIN left
  <2>1. CASE j \notin 1..n
    <3>1. j > n /\ j - n \in 1..Len(evs) /\ j = n + (j - n)
      BY <2>1, <1>1
    <3>2. left[n + (j - n)] = evs[j - n]
      BY <3>1, <1>1
    <3> QED
      BY <3>1, <3>2, <1>1 DEF Moved
  <2> QED
    BY <2>1
<1>3. \A i, j \in DOMAIN left : /\ left[i].op \in Sends /\ left[j].op \in Sends /\ i > n /\ j > n => i = j
                                /\ i \in Nat
  <2>1. \A i, j \in DOMAIN left : left[i].op \in Sends /\ left[j].op \in Sends /\ i > n /\ j > n => i - n = j - n
    BY <1>1, <1>2 DEF Moved
  <2> QED
    BY <2>1, <1>1
<1>4. \A j \in DOMAIN left : left[j].op \in Sends =>
                \E i \in DOMAIN q : /\ q[i].op \in Sends /\ left[j].x = q[i].x
                                    /\ \/ i # 1 /\ left[j] = q[i]
                                       \/ i = 1 /\ left[j].op = "send" /\ q[1].op = "base_send"
  <2> TAKE j \in DOMAIN left
  <2>1. CASE j \in 1..n
    <3> DEFINE i == e[j]
    <3>1. i \in DOMAIN q /\ i # 1 /\ left[j] = q[i]
      BY <2>1, <1>1
    <3> HIDE DEF i
    <3> QED
      BY <3>1
  <2>2. CASE j \notin 1..n
    BY <2>2, <1>1, <1>2 DEF Sends
  <2> QED
    BY <2>1, <2>2
<1>5. \A j \in DOMAIN left : left[j].op \in Sends => left[j].x \in 1..m
  BY <1>4 DEF QueueOrder
<1>6. ASSUME NEW i \in DOMAIN left, NEW j \in DOMAIN left, Before(left, i, j)
      PROVE left[i].x < left[j].x
  <2>0. left[i].op \in Sends /\ left[j].op \in Sends
    BY <1>6 DEF Before
  <2>1. CASE i \in 1..n /\ j \in 1..n
    <3>1. Before(q, e[i], e[j])
      BY <2>1, <1>1, <1>6 DEF Before
    <3> QED
      BY <3>1, <2>1, <1>1 DEF QueueOrder
  <2>2. CASE i \in 1..n /\ j \notin 1..n
    <3>1. q[1].op = "base_send" /\ left[j].op = "send" /\ left[j].x = q[1].x
      BY <2>0, <2>2, <1>2
    <3>2. Before(q, e[i], 1)
      BY <3>1, <2>2, <1>1, <1>6 DEF Before, Sends
    <3> QED
      BY <3>1, <3>2, <2>2, <1>1 DEF QueueOrder
  <2>3. CASE i \notin 1..n /\ j \in 1..n
    <3>1. q[1].op = "base_send" /\ left[i].op = "send" /\ left[i].x = q[1].x /\ i > n
      BY <2>0, <2>3, <1>2
    <3>2. ~(i < j)
      BY <3>1, <2>3, <1>1
    <3>3. Before(q, 1, e[j])
      BY <3>1, <3>2, <2>3, <1>1, <1>6 DEF Before, Sends
    <3> QED
      BY <3>1, <3>3, <2>3, <1>1 DEF QueueOrder
  <2>4. CASE i \notin 1..n /\ j \notin 1..n
    <3>1. i > n /\ j > n /\ i = j /\ i \in Nat
      BY <2>0, <2>4, <1>2, <1>3
    <3> QED
      BY <3>1, <1>6 DEF Before
  <2> QED
    BY <2>1, <2>2, <2>3, <2>4
<1> QED
  BY <1>4, <1>5, <1>6 DEF QueueOrder

\* What a handler leaves.
LEMMA ReturnsIs ==
    ASSUME TypeOK, NEW p \in Proc, queue[p] # <<>>, NEW pr, NEW cs, NEW evs \in Seq(Events),
           Returns(p, pr, cs, evs)
    PROVE /\ queue[p] \in Seq(Events) /\ queue'[p] \in Seq(Events)
          /\ queue'[Other(p)] = queue[Other(p)]
          /\ peer'[p] = pr /\ peer'[Other(p)] = peer[Other(p)] /\ conns' = cs
          /\ \E n, e : IsLeft(queue[p], pr, evs, queue'[p], n, e)
<1> DEFINE left == Active(pr, Tail(queue[p])) \o evs
<1>1. queue[p] \in Seq(Events) /\ queue[p] # <<>> /\ Other(p) \in Proc /\ Other(p) # p
  BY OtherIs DEF TypeOK
<1>2. left \in Seq(Events) /\ \E n, e : IsLeft(queue[p], pr, evs, left, n, e)
  BY <1>1, LeftIs
<1>3. peer' = [peer EXCEPT ![p] = pr] /\ queue' = [queue EXCEPT ![p] = left] /\ conns' = cs
  BY DEF Returns
<1> HIDE DEF left
<1>4. queue'[p] = left /\ queue'[Other(p)] = queue[Other(p)]
  BY <1>1, <1>3 DEF TypeOK
<1>5. peer'[p] = pr /\ peer'[Other(p)] = peer[Other(p)]
  BY <1>1, <1>3 DEF TypeOK
<1> QED
  BY <1>1, <1>2, <1>3, <1>4, <1>5

\* A handler that queues no message.
LEMMA SendsStep ==
    ASSUME TypeOK, NEW p \in Proc, queue[p] # <<>>, NEW pr, NEW cs, NEW evs \in Seq(Events),
           Returns(p, pr, cs, evs), Moved(queue[p], evs), IsPart(pr.outq, peer[p].outq), pr.outq \in Seq(Nat),
           SendAt(p), issued' = issued, setting' = setting
    PROVE /\ SendAt(p)'
          /\ \A m \in Nat : IsUnsent(p, m)' => (\E i \in DOMAIN pr.outq : pr.outq[i] = m) \/ QueuedSend(p, m)
          /\ \A m \in Nat : IsUnsent(p, m)' => IsUnsent(p, m)
<1> DEFINE q == queue[p]
           o == peer[p].outq
           left == queue'[p]
<1>1. q \in Seq(Events) /\ left \in Seq(Events) /\ peer'[p] = pr /\ issued[p] \in Nat
      /\ \E n, e : IsLeft(q, pr, evs, left, n, e)
  BY ReturnsIs DEF TypeOK
<1>2. /\ QueueOrder(left, issued[p])
      /\ \A j \in DOMAIN left : left[j].op \in Sends =>
            \E i \in DOMAIN q : /\ q[i].op \in Sends /\ left[j].x = q[i].x
                                /\ left[j] = q[i] \/ left[j].op = "send"
  <2>1. QueueOrder(q, issued[p]) /\ q # <<>> /\ Moved(q, evs)
    BY DEF SendAt
  <2>2. PICK n, e : IsLeft(q, pr, evs, left, n, e)
    BY <1>1
  <2> HIDE DEF q, left
  <2>3. /\ QueueOrder(left, issued[p])
        /\ \A j \in DOMAIN left : left[j].op \in Sends =>
              \E i \in DOMAIN q : /\ q[i].op \in Sends /\ left[j].x = q[i].x
                                  /\ \/ i # 1 /\ left[j] = q[i]
                                     \/ i = 1 /\ left[j].op = "send" /\ q[1].op = "base_send"
    BY <1>1, <2>1, <2>2, LeftOrder
  <2> QED
    BY <2>3
<1>3. OutOrder(o, q, issued[p])
  BY DEF SendAt
<1>4. PICK k \in Nat : \A i \in DOMAIN pr.outq : i + k \in DOMAIN o /\ pr.outq[i] = o[i + k]
  BY DEF IsPart
<1> HIDE DEF o, q, left
<1>5. OutOrder(pr.outq, left, issued[p])
  <2>1. \A i \in DOMAIN pr.outq : /\ pr.outq[i] \in 1..issued[p]
                                  /\ \A j \in DOMAIN left : left[j].op \in Sends => pr.outq[i] < left[j].x
    BY <1>2, <1>3, <1>4 DEF OutOrder
  <2>2. ASSUME NEW i \in DOMAIN pr.outq, NEW j \in DOMAIN pr.outq, i < j PROVE pr.outq[i] < pr.outq[j]
    <3>1. DOMAIN pr.outq \subseteq Nat
      OBVIOUS
    <3>2. i + k < j + k /\ i + k \in DOMAIN o /\ j + k \in DOMAIN o
      BY <2>2, <3>1, <1>4
    <3> QED
      BY <3>2, <1>3, <1>4 DEF OutOrder
  <2> QED
    BY <2>1, <2>2 DEF OutOrder
<1>6. p \in setting'.threaded => ~Has(p, "base_send")'
  <2>1. ASSUME NEW j \in DOMAIN left, left[j].op = "base_send" PROVE \E i \in DOMAIN q : q[i].op = "base_send"
    BY <2>1, <1>2 DEF Sends
  <2> QED
    BY <2>1 DEF SendAt, Has, q, left
<1>7. SendAt(p)'
  BY <1>1, <1>2, <1>5, <1>6 DEF SendAt, left
<1>8. \A m \in Nat : IsUnsent(p, m)' => (\E i \in DOMAIN pr.outq : pr.outq[i] = m) \/ QueuedSend(p, m)
  BY <1>1, <1>2 DEF IsUnsent, QueuedSend, left, q
<1>9. \A m \in Nat : (\E i \in DOMAIN pr.outq : pr.outq[i] = m) => IsUnsent(p, m)
  BY <1>4 DEF IsUnsent, o
<1> QED
  BY <1>7, <1>8, <1>9 DEF IsUnsent

\* A message that reaches the base of the TCP module goes behind those that wait.
LEMMA QueuedStep ==
    ASSUME TypeOK, NEW p \in Proc, queue[p] # <<>>, NEW pr, NEW cs, NEW evs \in Seq(Events),
           Returns(p, pr, cs, evs), \A i \in DOMAIN evs : evs[i].op \notin Sends,
           Head(queue[p]).op = "send", pr.outq = Append(peer[p].outq, Head(queue[p]).x),
           SendAt(p), issued' = issued, setting' = setting
    PROVE SendAt(p)' /\ \A m \in Nat : IsUnsent(p, m)' => IsUnsent(p, m)
<1> DEFINE q == queue[p]
           o == peer[p].outq
           left == queue'[p]
           x == Head(q).x
<1>1. q \in Seq(Events) /\ left \in Seq(Events) /\ peer'[p] = pr /\ issued[p] \in Nat
      /\ \E n, e : IsLeft(q, pr, evs, left, n, e)
  BY ReturnsIs DEF TypeOK
<1>2. Head(q) = q[1] /\ 1 \in DOMAIN q /\ x \in Nat /\ DOMAIN q \subseteq Nat \ {0}
  <2>1. Head(q) = q[1] /\ 1 \in DOMAIN q /\ q[1] \in Events /\ DOMAIN q \subseteq Nat \ {0}
    BY <1>1
  <2> QED
    BY <2>1 DEF Events
<1>3. /\ QueueOrder(left, issued[p])
      /\ \A j \in DOMAIN left : left[j].op \in Sends =>
            \E i \in DOMAIN q : q[i].op \in Sends /\ i # 1 /\ left[j] = q[i]
  <2>1. QueueOrder(q, issued[p]) /\ q[1].op = "send"
    BY <1>2 DEF SendAt
  <2>2. Moved(q, evs)
    BY DEF Moved
  <2> HIDE DEF q, left
  <2> QED
    BY <1>1, <2>1, <2>2, LeftOrder DEF q
<1>4. OutOrder(o, q, issued[p]) /\ QueueOrder(q, issued[p]) /\ q[1].op = "send" /\ q[1].op \in Sends
  BY <1>2 DEF SendAt, Sends
<1>5. o \in Seq(Nat)
  <2>1. peer[p] \in Peers
    BY DEF TypeOK
  <2> QED
    BY <2>1 DEF Peers
<1>6. /\ \A i \in DOMAIN pr.outq : \/ i \in DOMAIN o /\ pr.outq[i] = o[i]
                                   \/ i = Len(o) + 1 /\ pr.outq[i] = x
      /\ \A i \in DOMAIN o : i \in Nat /\ i < Len(o) + 1
      /\ Len(o) \in Nat
  BY <1>2, <1>5, AppendIs
<1>x. x = q[1].x
  BY <1>2
<1>q. q # <<>> /\ q = queue[p]
  OBVIOUS
<1> HIDE DEF o, q, left, x
<1>7. x \in 1..issued[p] /\ \A j \in DOMAIN left : left[j].op \in Sends => x < left[j].x
  <2>1. x \in 1..issued[p]
    BY <1>2, <1>4, <1>x DEF QueueOrder
  <2>2. ASSUME NEW i \in DOMAIN q, q[i].op \in Sends, i # 1 PROVE x < q[i].x
    <3>1. i \in Nat /\ 1 < i
      BY <2>2, <1>2
    <3>2. q[i].op = "send" \/ q[i].op = "base_send"
      BY <2>2 DEF Sends
    <3>3. Before(q, 1, i)
      BY <2>2, <3>1, <3>2, <1>4 DEF Before
    <3> QED
      BY <3>3, <1>2, <1>4, <1>x DEF QueueOrder
  <2> QED
    BY <2>1, <2>2, <1>3
<1>8. OutOrder(pr.outq, left, issued[p])
  <2>1. \A i \in DOMAIN o : o[i] < x /\ \A j \in DOMAIN left : left[j].op \in Sends => o[i] < left[j].x
    BY <1>2, <1>3, <1>4, <1>x DEF OutOrder
  <2>2. \A i \in DOMAIN pr.outq : /\ pr.outq[i] \in 1..issued[p]
                                  /\ \A j \in DOMAIN left : left[j].op \in Sends => pr.outq[i] < left[j].x
    BY <2>1, <1>4, <1>6, <1>7 DEF OutOrder
  <2>3. ASSUME NEW i \in DOMAIN pr.outq, NEW j \in DOMAIN pr.outq, i < j PROVE pr.outq[i] < pr.outq[j]
    <3>1. CASE i \in DOMAIN o /\ j \in DOMAIN o /\ pr.outq[i] = o[i] /\ pr.outq[j] = o[j]
      <4>1. o[i] < o[j]
        BY <2>3, <3>1, <1>4 DEF OutOrder
      <4> QED
        BY <3>1, <4>1
    <3>2. CASE i \in DOMAIN o /\ pr.outq[i] = o[i] /\ pr.outq[j] = x
      BY <3>2, <2>1
    <3>3. CASE i = Len(o) + 1 /\ j \in DOMAIN o
      BY <3>3, <2>3, <1>6
    <3>4. CASE i = Len(o) + 1 /\ j = Len(o) + 1
      BY <3>4, <2>3, <1>6
    <3> QED
      BY <3>1, <3>2, <3>3, <3>4, <1>6
  <2> QED
    BY <2>2, <2>3 DEF OutOrder
<1>9. p \in setting'.threaded => ~Has(p, "base_send")'
  <2>1. ASSUME NEW j \in DOMAIN left, left[j].op = "base_send" PROVE \E i \in DOMAIN q : q[i].op = "base_send"
    BY <2>1, <1>3 DEF Sends
  <2>2. p \in setting.threaded => \A i \in DOMAIN q : q[i].op # "base_send"
    BY DEF SendAt, Has, q
  <2>3. p \in setting.threaded => \A j \in DOMAIN left : left[j].op # "base_send"
    BY <2>1, <2>2
  <2> QED
    BY <2>3 DEF Has, left
<1>10. SendAt(p)'
  BY <1>1, <1>3, <1>8, <1>9 DEF SendAt, left
<1>11. \A m \in Nat : IsUnsent(p, m)' => IsUnsent(p, m)
  <2>1. QueuedSend(p, x)
    BY <1>2, <1>4, <1>x DEF QueuedSend, q
  <2>2. ASSUME NEW m \in Nat, NEW j \in DOMAIN left, left[j].op \in Sends, left[j].x = m
        PROVE QueuedSend(p, m)
    BY <2>2, <1>3 DEF QueuedSend, q
  <2>3. ASSUME NEW m \in Nat, NEW i \in DOMAIN pr.outq, pr.outq[i] = m
        PROVE IsUnsent(p, m)
    BY <2>1, <2>3, <1>6 DEF IsUnsent, o
  <2> QED
    BY <2>2, <2>3, <1>1 DEF IsUnsent, QueuedSend, left
<1> QED
  BY <1>10, <1>11

-----------------------------------------------------------------------------
(* The messages on their way. *)

\* Nothing of what q can read changes: ... an item w is written to c; ... taken
\* from it.
Still(q) == \A d \in DOMAIN conns' :
    conns'[d].stream[q] = IF d \in DOMAIN conns THEN conns[d].stream[q] ELSE <<>>
Writes(q, c, w) ==
    /\ c \in DOMAIN conns
    /\ \A d \in DOMAIN conns' : d \in DOMAIN conns
    /\ \A d \in DOMAIN conns' : conns'[d].stream[q] =
          IF d = c THEN Append(conns[c].stream[q], w) ELSE conns[d].stream[q]
Takes(q, c) ==
    /\ c \in DOMAIN conns /\ conns[c].stream[q] # <<>>
    /\ \A d \in DOMAIN conns' : d \in DOMAIN conns
    /\ \A d \in DOMAIN conns' : conns'[d].stream[q] =
          IF d = c THEN Tail(conns[c].stream[q]) ELSE conns[d].stream[q]

\* Streams are lists of numbers.
LEMMA StreamIs ==
    ASSUME TypeOK, NEW q \in Proc
    PROVE /\ received[q] \in Seq(Nat)
          /\ \A d \in DOMAIN conns : conns[d].stream[q] \in Seq(Nat)
          /\ peer[q].sd # NoSock => peer[q].sd \in DOMAIN conns
<1>1. \A d \in DOMAIN conns : conns[d] \in Sockets
  BY DEF TypeOK
<1>2. \A s \in Sockets : s.stream[q] \in Seq(Nat)
  BY DEF Sockets
<1> QED
  BY <1>1, <1>2, UsedSockets DEF TypeOK

\* What p sends stays behind what it still has, and what the other can read
\* rises, if p at most writes a connect-ack or the first message that it has.
LEMMA OutStep ==
    ASSUME TypeOK, TypeOK', NEW p \in Proc, SendAt(p)', SentAt(p), StreamAt(Other(p)),
           issued[p] <= issued'[p],
           \A m \in Nat : IsUnsent(p, m)' => IsUnsent(p, m) \/ m > issued[p],
           received'[Other(p)] = received[Other(p)], peer'[Other(p)].sd = peer[Other(p)].sd,
           \/ Still(Other(p))
           \/ \E c : Writes(Other(p), c, Ident)
           \/ \E c : \E w \in Nat : /\ Writes(Other(p), c, w) /\ IsUnsent(p, w) /\ w <= issued[p]
                                    /\ \A m \in Nat : IsUnsent(p, m)' => w < m
    PROVE SentAt(p)' /\ StreamAt(Other(p))'
<1> DEFINE q == Other(p)
<1>1. q \in Proc /\ q # p
  BY OtherIs
<1>2. /\ received[q] \in Seq(Nat) /\ \A d \in DOMAIN conns : conns[d].stream[q] \in Seq(Nat)
      /\ peer[q].sd # NoSock => peer[q].sd \in DOMAIN conns
      /\ peer'[q].sd # NoSock => peer'[q].sd \in DOMAIN conns'
      /\ issued[p] \in Nat /\ issued'[p] \in Nat
  <2>1. peer'[q].sd # NoSock => peer'[q].sd \in DOMAIN conns'
    <3>1. peer'[q].sd \in Nat /\ peer'[q].sd <= Len(conns') /\ conns' \in Seq(Sockets)
      <4>1. peer'[q] \in Peers
        BY <1>1 DEF TypeOK
      <4> QED
        BY <4>1, <1>1 DEF TypeOK, Peers
    <3> QED
      BY <3>1 DEF NoSock
  <2> QED
    BY <2>1, <1>1, StreamIs DEF TypeOK
<1>c. PICK c : \E w \in Nat :
         /\ \/ Still(q)
            \/ Writes(q, c, w)
         /\ \/ w = Ident
            \/ IsUnsent(p, w) /\ w <= issued[p] /\ \A m \in Nat : IsUnsent(p, m)' => w < m
  <2>0. Ident \in Nat /\ 0 \in Nat
    BY DEF Ident
  <2> HIDE DEF q
  <2>1. CASE Still(q)
    BY <2>0, <2>1
  <2>2. CASE \E c : Writes(q, c, Ident)
    BY <2>0, <2>2
  <2>3. CASE \E c : \E w \in Nat : /\ Writes(q, c, w) /\ IsUnsent(p, w) /\ w <= issued[p]
                                   /\ \A m \in Nat : IsUnsent(p, m)' => w < m
    BY <2>3
  <2> QED
    BY <2>1, <2>2, <2>3 DEF q
<1>3. PICK w \in Nat :
         /\ \/ Still(q)
            \/ Writes(q, c, w)
         /\ \/ w = Ident
            \/ IsUnsent(p, w) /\ w <= issued[p] /\ \A m \in Nat : IsUnsent(p, m)' => w < m
  BY <1>c
<1>4. \A d \in DOMAIN conns' :
         \/ conns'[d].stream[q] = <<>> \/ (d \in DOMAIN conns /\ conns'[d].stream[q] = conns[d].stream[q])
         \/ d \in DOMAIN conns /\ conns'[d].stream[q] = Append(conns[d].stream[q], w)
  BY <1>3 DEF Still, Writes
<1>5. \A v \in Nat : IsSent(p, v)' => IsSent(p, v) \/ v = w
  <2> SUFFICES ASSUME NEW v \in Nat, IsSent(p, v)' PROVE IsSent(p, v) \/ v = w
    OBVIOUS
  <2>1. CASE \E i \in DOMAIN received'[q] : received'[q][i] = v
    BY <2>1 DEF IsSent
  <2>2. CASE \E d \in DOMAIN conns' : \E i \in DOMAIN conns'[d].stream[q] : conns'[d].stream[q][i] = v
    <3>1. PICK d \in DOMAIN conns' : \E i \in DOMAIN conns'[d].stream[q] : conns'[d].stream[q][i] = v
      BY <2>2
    <3>2. PICK i \in DOMAIN conns'[d].stream[q] : conns'[d].stream[q][i] = v
      BY <3>1
    <3>3. conns'[d].stream[q] # <<>>
      <4>1. DOMAIN <<>> = {}
        OBVIOUS
      <4> QED
        BY <3>2, <4>1
    <3>4. CASE d \in DOMAIN conns /\ conns'[d].stream[q] = conns[d].stream[q]
      BY <3>2, <3>4 DEF IsSent
    <3>5. CASE d \in DOMAIN conns /\ conns'[d].stream[q] = Append(conns[d].stream[q], w)
      <4> DEFINE s == conns[d].stream[q]
      <4>1. s \in Seq(Nat) /\ i \in DOMAIN Append(s, w) /\ Append(s, w)[i] = v
        BY <3>2, <3>5, <1>2
      <4> HIDE DEF s
      <4>2. v = w \/ (i \in DOMAIN s /\ s[i] = v)
        BY <4>1, AppendIs
      <4> QED
        BY <4>2, <3>5 DEF s, IsSent
    <3> QED
      BY <3>3, <3>4, <3>5, <1>4
  <2> QED
    BY <2>1, <2>2 DEF IsSent
<1>6. \A m \in Nat : IsUnsent(p, m)' => m > 0 /\ (IsUnsent(p, m) \/ m > issued[p])
  <2>1. \A m \in Nat : IsUnsent(p, m)' => m \in 1..issued'[p]
    BY DEF SendAt, QueueOrder, OutOrder, IsUnsent, QueuedSend
  <2> QED
    BY <2>1, <1>2
<1>7. SentAt(p)'
  <2> SUFFICES ASSUME NEW v \in Nat, IsSent(p, v)'
               PROVE v <= issued'[p] /\ \A m \in Nat : IsUnsent(p, m)' => v < m
    BY DEF SentAt
  <2>1. CASE IsSent(p, v)
    BY <2>1, <1>2, <1>6 DEF SentAt
  <2>2. CASE v = w
    BY SMTT(60), <2>2, <1>2, <1>3, <1>6 DEF Ident
  <2> QED
    BY <2>1, <2>2, <1>5
<1>8. StreamAt(q)'
  <2>1. Rising(received'[q])
    BY DEF StreamAt
  <2> SUFFICES ASSUME peer'[q].sd # NoSock
               PROVE /\ Rising(conns'[peer'[q].sd].stream[q])
                     /\ Below(received'[q], conns'[peer'[q].sd].stream[q])
    BY <2>1 DEF StreamAt
  <2> DEFINE d == peer[q].sd
             s == conns[d].stream[q]
             r == received[q]
  <2>2. peer'[q].sd = d /\ d \in DOMAIN conns /\ d \in DOMAIN conns' /\ received'[q] = r
    BY <1>2
  <2>3. Rising(s) /\ Below(r, s) /\ s \in Seq(Nat) /\ r \in Seq(Nat)
    BY <2>2, <1>2 DEF StreamAt
  <2>4. conns'[d].stream[q] = s \/ conns'[d].stream[q] = Append(s, w)
    <3>1. Still(q) => conns'[d].stream[q] = s
      BY <2>2 DEF Still
    <3> QED
      BY <3>1, <2>2, <1>3 DEF Writes
  <2>5. CASE conns'[d].stream[q] = s
    BY <2>2, <2>3, <2>5
  <2>6. CASE conns'[d].stream[q] = Append(s, w)
    <3>1. \/ w = Ident
          \/ (\A i \in DOMAIN s : s[i] < w) /\ \A i \in DOMAIN r : r[i] < w
      <4>1. w = Ident \/ IsUnsent(p, w)
        BY <1>3
      <4>2. \A i \in DOMAIN s : s[i] \in Nat /\ IsSent(p, s[i])
        BY SMTT(60), <2>2, <2>3 DEF IsSent
      <4>3. \A i \in DOMAIN r : r[i] \in Nat /\ IsSent(p, r[i])
        <5>1. \A i \in DOMAIN r : IsSent(p, r[i])
          BY DEF IsSent
        <5>2. \A i \in DOMAIN r : r[i] \in Nat
          BY <2>3
        <5> QED
          BY <5>1, <5>2
      <4> QED
        BY <4>1, <4>2, <4>3 DEF SentAt
    <3> HIDE DEF s, r, d
    <3>2. Rising(Append(s, w)) /\ Below(r, Append(s, w))
      BY <3>1, <2>3, RisingAppend
    <3> QED
      BY <3>2, <2>2, <2>6
  <2> QED
    BY <2>4, <2>5, <2>6
<1> QED
  BY <1>7, <1>8

\* What p can read still rises if it reads the next item of its socket, and posts
\* it or not, or leaves the socket for a new one, or for one with nothing but
\* connect-acks; and the other still has what comes after.
LEMMA InStep ==
    ASSUME TypeOK, TypeOK', NEW p \in Proc, SendAt(Other(p)), SentAt(Other(p)), StreamAt(p),
           queue'[Other(p)] = queue[Other(p)], peer'[Other(p)] = peer[Other(p)],
           issued' = issued, setting' = setting,
           \/ /\ Still(p) /\ received'[p] = received[p]
              /\ peer'[p].sd \in {NoSock, peer[p].sd} \/ peer'[p].sd \notin DOMAIN conns
           \/ \E c : /\ Takes(p, c) /\ peer'[p].sd = c
                     /\ \/ received'[p] = received[p]
                        \/ received'[p] = Append(received[p], Head(conns[c].stream[p])) /\ peer[p].sd = c
                     /\ \/ peer[p].sd = c
                        \/ \A i \in DOMAIN conns[c].stream[p] : conns[c].stream[p][i] = Ident
    PROVE SendAt(Other(p))' /\ SentAt(Other(p))' /\ StreamAt(p)'
<1> DEFINE q == Other(p)
<1>1. q \in Proc /\ q # p /\ Other(q) = p
  BY OtherIs
<1>2. /\ received[p] \in Seq(Nat) /\ \A d \in DOMAIN conns : conns[d].stream[p] \in Seq(Nat)
      /\ peer[p].sd # NoSock => peer[p].sd \in DOMAIN conns
  BY StreamIs
<1>3. peer'[p].sd # NoSock => peer'[p].sd \in DOMAIN conns'
  <2>1. peer'[p].sd \in Nat /\ peer'[p].sd <= Len(conns') /\ conns' \in Seq(Sockets)
    <3>1. peer'[p] \in Peers
      BY DEF TypeOK
    <3> QED
      BY <3>1 DEF TypeOK, Peers
  <2> QED
    BY <2>1 DEF NoSock
<1>4. SendAt(q)' /\ \A m : IsUnsent(q, m)' <=> IsUnsent(q, m)
  BY DEF SendAt, QueueOrder, OutOrder, Before, Has, IsUnsent, QueuedSend
<1>5. CASE /\ Still(p) /\ received'[p] = received[p]
           /\ peer'[p].sd \in {NoSock, peer[p].sd} \/ peer'[p].sd \notin DOMAIN conns
  <2>1. DOMAIN <<>> = {}
    OBVIOUS
  <2>2. \A w \in Nat : IsSent(q, w)' => IsSent(q, w)
    BY <2>1, <1>1, <1>5 DEF IsSent, Still
  <2>3. SentAt(q)'
    BY <2>2, <1>4 DEF SentAt
  <2>4. peer'[p].sd # NoSock => \/ peer'[p].sd = peer[p].sd /\ conns'[peer'[p].sd].stream[p] = conns[peer[p].sd].stream[p]
                                \/ conns'[peer'[p].sd].stream[p] = <<>>
    BY SMTT(60), <1>2, <1>3, <1>5 DEF Still
  <2>5. StreamAt(p)'
    BY <2>1, <2>4, <1>5 DEF StreamAt, Rising, Below
  <2> QED
    BY <2>3, <2>5, <1>4
<1>6. ASSUME NEW c, Takes(p, c), peer'[p].sd = c,
             \/ received'[p] = received[p]
             \/ received'[p] = Append(received[p], Head(conns[c].stream[p])) /\ peer[p].sd = c,
             \/ peer[p].sd = c
             \/ \A i \in DOMAIN conns[c].stream[p] : conns[c].stream[p][i] = Ident
      PROVE SentAt(q)' /\ StreamAt(p)'
  <2> DEFINE s == conns[c].stream[p]
             t == Tail(s)
             h == Head(s)
             r == received[p]
             a == Append(r, h)
  <2>1. /\ c \in DOMAIN conns /\ s # <<>>
        /\ \A d \in DOMAIN conns' : d \in DOMAIN conns /\ conns'[d].stream[p] = IF d = c THEN t ELSE conns[d].stream[p]
    BY <1>6 DEF Takes
  <2>2. s \in Seq(Nat) /\ r \in Seq(Nat) /\ received'[p] \in {r, a}
    BY <2>1, <1>2, <1>6
  <2>3. /\ h \in Nat /\ h = s[1] /\ 1 \in DOMAIN s
        /\ \A i \in DOMAIN t : i + 1 \in DOMAIN s /\ t[i] = s[i + 1]
    <3> HIDE DEF s
    <3> QED
      BY <2>1, <2>2, TailIs
  <2> HIDE DEF h, t
  <2>4. /\ \A i \in DOMAIN a : \/ i \in DOMAIN r /\ a[i] = r[i]
                               \/ i = Len(r) + 1 /\ a[i] = h
    BY <2>2, <2>3, AppendIs
  <2> HIDE DEF a
  <2>5. \A w \in Nat : IsSent(q, w)' => IsSent(q, w)
    <3> SUFFICES ASSUME NEW w \in Nat, IsSent(q, w)' PROVE IsSent(q, w)
      OBVIOUS
    <3>0. \A i \in DOMAIN s : s[i] = w => IsSent(q, w)
      BY <2>1, <1>1 DEF IsSent
    <3>1. CASE \E i \in DOMAIN received'[p] : received'[p][i] = w
      <4>1. (\E i \in DOMAIN r : r[i] = w) \/ h = w
        BY <2>2, <2>4, <3>1
      <4> QED
        BY <4>1, <3>0, <2>3, <1>1 DEF IsSent
    <3>2. CASE \E d \in DOMAIN conns' : \E i \in DOMAIN conns'[d].stream[p] : conns'[d].stream[p][i] = w
      <4>1. PICK d \in DOMAIN conns' : \E i \in DOMAIN conns'[d].stream[p] : conns'[d].stream[p][i] = w
        BY <3>2
      <4>2. CASE d = c
        BY <4>1, <4>2, <3>0, <2>1, <2>3
      <4>3. CASE d # c
        BY <4>1, <4>3, <2>1, <1>1 DEF IsSent
      <4> QED
        BY <4>2, <4>3
    <3> QED
      BY <3>1, <3>2, <1>1 DEF IsSent
  <2>6. SentAt(q)'
    BY <2>5, <1>4 DEF SentAt
  <2>7. conns'[peer'[p].sd].stream[p] = t
    <3>1. c # NoSock
      BY <2>1 DEF NoSock, TypeOK
    <3> QED
      BY <3>1, <2>1, <1>3, <1>6
  <2>8. Rising(r)
    BY DEF StreamAt
  <2>9. CASE peer[p].sd = c
    <3>1. c # NoSock
      BY <2>1 DEF NoSock, TypeOK
    <3>2. Rising(s) /\ Below(r, s)
      BY <3>1, <2>9 DEF StreamAt
    <3> HIDE DEF s, r
    <3>3. Rising(t) /\ Below(r, t) /\ Rising(a) /\ Below(a, t)
      BY <3>2, <2>1, <2>2, <2>8, RisingTail DEF t, a, h
    <3> QED
      BY <3>3, <2>2, <2>6, <2>7, <2>8 DEF StreamAt, r
  <2>10. CASE peer[p].sd # c /\ \A i \in DOMAIN s : s[i] = Ident
    <3>1. \A i \in DOMAIN t : t[i] = Ident
      BY <2>3, <2>10
    <3>2. received'[p] = r
      BY <2>10, <1>6
    <3>3. Rising(t) /\ Below(r, t)
      BY <3>1 DEF Rising, Below
    <3> QED
      BY <3>2, <3>3, <2>6, <2>7, <2>8 DEF StreamAt
  <2> QED
    BY <2>9, <2>10, <1>6
<1> QED
  BY <1>4, <1>5, <1>6

-----------------------------------------------------------------------------
(* The handlers. *)

\* What a handler of p may write and read.
MayWrite(p, pr) ==
    \/ Still(Other(p))
    \/ \E c : Writes(Other(p), c, Ident)
    \/ \E c : /\ peer[p].outq # <<>> /\ pr.outq = Tail(peer[p].outq)
              /\ Writes(Other(p), c, Head(peer[p].outq))
MayRead(p, pr) ==
    \/ /\ Still(p) /\ received'[p] = received[p]
       /\ pr.sd \in {NoSock, peer[p].sd} \/ pr.sd \notin DOMAIN conns
    \/ \E c : /\ Takes(p, c) /\ pr.sd = c
              /\ \/ received'[p] = received[p]
                 \/ received'[p] = Append(received[p], Head(conns[c].stream[p])) /\ peer[p].sd = c
              /\ \/ peer[p].sd = c
                 \/ \A i \in DOMAIN conns[c].stream[p] : conns[c].stream[p][i] = Ident

LEMMA PartIs ==
    ASSUME NEW o \in Seq(Nat)
    PROVE IsPart(o, o) /\ (o # <<>> => IsPart(Tail(o), o)) /\ IsPart(SubSeq(o, 1, Min({1, Len(o)})), o)
<1>1. IsPart(o, o)
  <2>1. \A i \in DOMAIN o : i + 0 \in DOMAIN o /\ o[i] = o[i + 0]
    OBVIOUS
  <2> QED
    BY <2>1 DEF IsPart
<1>2. o # <<>> => IsPart(Tail(o), o)
  <2> SUFFICES ASSUME o # <<>> PROVE IsPart(Tail(o), o)
    OBVIOUS
  <2> DEFINE t == Tail(o)
  <2>1. \A i \in DOMAIN t : i + 1 \in DOMAIN o /\ t[i] = o[i + 1]
    BY TailIs
  <2> HIDE DEF t
  <2>2. IsPart(t, o)
    BY <2>1 DEF IsPart
  <2> QED
    BY <2>2 DEF t
<1>3. IsPart(SubSeq(o, 1, Min({1, Len(o)})), o)
  <2> DEFINE h == Min({1, Len(o)})
             s == SubSeq(o, 1, h)
  <2>1. Len(o) \in Nat /\ DOMAIN o = 1..Len(o)
    OBVIOUS
  <2>2. h = IF Len(o) = 0 THEN 0 ELSE 1
    BY <2>1 DEF Min
  <2> HIDE DEF h
  <2>3. h \in Int /\ h <= Len(o) /\ \A i \in 1..h : o[i] \in Nat
    BY <2>1, <2>2
  <2>4. s \in Seq(Nat) /\ Len(s) = (IF 1 <= h THEN h ELSE 0) /\ \A i \in 1..h : s[i] = o[i]
    <3>1. /\ s \in Seq(Nat) /\ Len(s) = (IF 1 <= h THEN h - 1 + 1 ELSE 0)
          /\ \A i \in 1..(h - 1 + 1) : s[i] = o[1 + i - 1]
      BY <2>3, SubSeqProperties
    <3> HIDE DEF s
    <3>2. h - 1 + 1 = h /\ \A i \in 1..h : 1 + i - 1 = i
      BY <2>3
    <3> QED
      BY <3>1, <3>2
  <2> HIDE DEF s
  <2>5. \A i \in DOMAIN s : i + 0 \in DOMAIN o /\ s[i] = o[i + 0]
    BY <2>1, <2>3, <2>4
  <2>6. IsPart(s, o)
    BY <2>5 DEF IsPart
  <2> QED
    BY <2>6 DEF s, h
<1> QED
  BY <1>1, <1>2, <1>3

LEMMA HandlerOrder ==
    ASSUME TypeOK, TypeOK', OrderInv, NEW p \in Proc, queue[p] # <<>>, NEW pr, NEW cs,
           NEW evs \in Seq(Events), Returns(p, pr, cs, evs), issued' = issued, setting' = setting,
           \/ IsPart(pr.outq, peer[p].outq) /\ pr.outq \in Seq(Nat) /\ Moved(queue[p], evs)
           \/ /\ Head(queue[p]).op = "send" /\ pr.outq = Append(peer[p].outq, Head(queue[p]).x)
              /\ Still(Other(p)) /\ \A i \in DOMAIN evs : evs[i].op \notin Sends,
           received'[Other(p)] = received[Other(p)], MayWrite(p, pr), MayRead(p, pr)
    PROVE OrderInv'
<1> DEFINE q == Other(p)
           o == peer[p].outq
<1>1. /\ q \in Proc /\ queue'[q] = queue[q] /\ peer'[q] = peer[q] /\ peer'[p] = pr
      /\ \A r \in Proc : r = p \/ r = q
  BY ReturnsIs, OtherIs
<1>2. SendAt(p) /\ SentAt(p) /\ StreamAt(p) /\ SendAt(q) /\ SentAt(q) /\ StreamAt(q)
  BY <1>1 DEF OrderInv
<1>3. /\ SendAt(p)' /\ \A m \in Nat : IsUnsent(p, m)' => IsUnsent(p, m)
      /\ \/ Still(q)
         \/ \A m \in Nat : IsUnsent(p, m)' => (\E i \in DOMAIN pr.outq : pr.outq[i] = m) \/ QueuedSend(p, m)
  BY <1>2, SendsStep, QueuedStep
<1>4. \/ Still(q)
      \/ \E c : Writes(q, c, Ident)
      \/ \E c : \E w \in Nat : /\ Writes(q, c, w) /\ IsUnsent(p, w) /\ w <= issued[p]
                               /\ \A m \in Nat : IsUnsent(p, m)' => w < m
  <2> SUFFICES ASSUME ~Still(q), NEW c, o # <<>>, pr.outq = Tail(o), Writes(q, c, Head(o))
               PROVE \E w \in Nat : /\ Writes(q, c, w) /\ IsUnsent(p, w) /\ w <= issued[p]
                                    /\ \A m \in Nat : IsUnsent(p, m)' => w < m
    BY DEF MayWrite
  <2> DEFINE w == Head(o)
             t == Tail(o)
  <2>1. o \in Seq(Nat) /\ issued[p] \in Nat
    <3>1. peer[p] \in Peers /\ issued[p] \in Nat
      BY DEF TypeOK
    <3> QED
      BY <3>1 DEF Peers
  <2>2. OutOrder(o, queue[p], issued[p])
    BY <1>2 DEF SendAt
  <2>3. IsUnsent(p, o[1]) \/ 1 \notin DOMAIN o
    BY DEF IsUnsent
  <2> HIDE DEF o
  <2>4. /\ w \in Nat /\ w = o[1] /\ 1 \in DOMAIN o
        /\ \A i \in DOMAIN t : i + 1 \in DOMAIN o /\ i + 1 > 1 /\ t[i] = o[i + 1]
    BY <2>1, TailIs
  <2>5. pr.outq = t
    OBVIOUS
  <2>6. Writes(q, c, w)
    OBVIOUS
  <2> HIDE DEF w, t
  <2>7. IsUnsent(p, w) /\ w <= issued[p]
    BY <2>1, <2>2, <2>3, <2>4 DEF OutOrder
  <2>8. \A m \in Nat : IsUnsent(p, m)' => w < m
    BY <1>3, <2>2, <2>4, <2>5 DEF OutOrder, QueuedSend
  <2> QED
    BY <2>4, <2>6, <2>7, <2>8
<1>5. SentAt(p)' /\ StreamAt(q)'
  <2>1. issued[p] <= issued'[p]
    BY DEF TypeOK
  <2>2. peer'[q].sd = peer[q].sd
    BY <1>1
  <2> QED
    BY <1>2, <1>3, <1>4, <2>1, <2>2, OutStep
<1>6. SendAt(q)' /\ SentAt(q)' /\ StreamAt(p)'
  BY <1>1, <1>2, InStep DEF MayRead
<1> QED
  BY <1>1, <1>3, <1>5, <1>6 DEF OrderInv

LEMMA StillIs ==
    ASSUME TypeOK, NEW p \in Proc
    PROVE /\ conns' = conns => Still(p)
          /\ \A q \in Proc, c \in 0..Len(conns) : conns' = Closed(conns, c, q) => Still(p)
          /\ \A c \in DOMAIN conns, w \in Nat :
                conns' = Written(conns, c, Other(p), w) => Writes(p, c, w) /\ Still(Other(p))
          /\ \A c \in DOMAIN conns :
                conns[c].stream[p] # <<>> /\ conns' = Taken(conns, c, p) => Takes(p, c) /\ Still(Other(p))
<1>1. conns \in Seq(Sockets) /\ DOMAIN conns = 1..Len(conns) /\ Other(p) \in Proc /\ Other(p) # p
      /\ Other(Other(p)) = p
  BY OtherIs DEF TypeOK
<1>2. conns' = conns => Still(p)
  BY DEF Still
<1>3. ASSUME NEW q \in Proc, NEW c \in 0..Len(conns), conns' = Closed(conns, c, q) PROVE Still(p)
  <2>1. IsClosed(conns, c, q, conns')
    BY <1>1, <1>3, ClosedIs
  <2>2. DOMAIN conns' = DOMAIN conns
    BY <2>1, <1>1 DEF IsClosed
  <2> QED
    BY <2>1, <2>2, <1>1 DEF IsClosed, Still
<1>4. ASSUME NEW c \in DOMAIN conns, NEW w \in Nat, conns' = Written(conns, c, Other(p), w)
      PROVE Writes(p, c, w) /\ Still(Other(p))
  <2>1. IsWritten(conns, c, Other(p), w, conns')
    BY <1>1, <1>4, WrittenIs
  <2>2. DOMAIN conns' = DOMAIN conns
    BY <2>1, <1>1 DEF IsWritten
  <2> QED
    BY <2>1, <2>2, <1>1 DEF IsWritten, Still, Writes
<1>5. ASSUME NEW c \in DOMAIN conns, conns[c].stream[p] # <<>>, conns' = Taken(conns, c, p)
      PROVE Takes(p, c) /\ Still(Other(p))
  <2>1. IsTaken(conns, c, p, conns')
    BY <1>1, <1>5, TakenIs
  <2>2. DOMAIN conns' = DOMAIN conns
    BY <2>1, <1>1 DEF IsTaken
  <2> QED
    BY <2>1, <2>2, <1>1, <1>5 DEF IsTaken, Still, Takes
<1> QED
  BY <1>2, <1>3, <1>4, <1>5

\* Events that are no sends.
LEMMA NoSends ==
    /\ \A q : Moved(q, <<>>) /\ <<>> \in Seq(Events) /\ \A i \in DOMAIN <<>> : FALSE
    /\ \A op \in {"try", "lost", "set_module", "failed"} :
          <<Ev(op, 0)>> \in Seq(Events) /\ \A i \in DOMAIN <<Ev(op, 0)>> : <<Ev(op, 0)>>[i].op \notin Sends
    /\ \A q, evs : (\A i \in DOMAIN evs : evs[i].op \notin Sends) => Moved(q, evs)
<1>1. <<>> \in Seq(Events) /\ \A i \in DOMAIN <<>> : FALSE
  OBVIOUS
<1>2. \A q, evs : (\A i \in DOMAIN evs : evs[i].op \notin Sends) => Moved(q, evs)
  BY DEF Moved
<1>3. ASSUME NEW op \in {"try", "lost", "set_module", "failed"}
      PROVE <<Ev(op, 0)>> \in Seq(Events) /\ \A i \in DOMAIN <<Ev(op, 0)>> : <<Ev(op, 0)>>[i].op \notin Sends
  <2>1. <<Ev(op, 0)>> \in Seq(Events) /\ \A i \in DOMAIN <<Ev(op, 0)>> : <<Ev(op, 0)>>[i].op = op
    BY NewEvents
  <2>2. op \notin Sends
    BY DEF Sends
  <2> QED
    BY <2>1, <2>2
<1> QED
  BY <1>1, <1>2, <1>3

\* A handler that neither writes nor reads, and at most leaves its socket.
LEMMA QuietOrder ==
    ASSUME TypeOK, TypeOK', OrderInv, NEW p \in Proc, queue[p] # <<>>, NEW pr, NEW cs,
           NEW evs \in Seq(Events), Returns(p, pr, cs, evs), issued' = issued, setting' = setting,
           IsPart(pr.outq, peer[p].outq) \/ pr.outq = peer[p].outq, pr.outq \in Seq(Nat),
           Moved(queue[p], evs), received' = received, Still(p), Still(Other(p)),
           pr.sd \in {NoSock, peer[p].sd} \/ pr.sd \notin DOMAIN conns
    PROVE OrderInv'
<1>1. IsPart(pr.outq, peer[p].outq)
  BY PartIs
<1>2. MayWrite(p, pr) /\ MayRead(p, pr)
  BY DEF MayWrite, MayRead
<1> QED
  BY <1>1, <1>2, HandlerOrder

LEMMA SendHandlersOrder ==
    ASSUME TypeOK, TypeOK', OrderInv, NEW p \in Proc,
           BaseProcessSend(p) \/ ProcessSetPeer(p) \/ ProcessSend(p)
    PROVE OrderInv'
<1> DEFINE x == peer[p]
<1>1. x \in Peers /\ x.outq \in Seq(Nat) /\ \A q \in Proc : conns' = conns => Still(q)
  BY StillIs DEF TypeOK, Peers
<1>2. p \in Proc /\ Other(p) \in Proc
  BY OtherIs
<1>3. CASE BaseProcessSend(p)
  <2> DEFINE m == Head(queue[p]).x
             evs == Posts(p, m)
  <2>1. /\ queue[p] # <<>> /\ Head(queue[p]).op = "base_send" /\ Returns(p, x, conns, evs)
        /\ received' = received /\ issued' = issued /\ setting' = setting
    BY <1>3 DEF BaseProcessSend, Runs, users
  <2>2. Head(queue[p]) = queue[p][1] /\ m \in Nat
    BY <2>1, Heads
  <2>3. evs \in Seq(Events)
    BY <2>2, NewEvents
  <2>4. Moved(queue[p], evs)
    <3> DEFINE a == Ev("set_peer", 0)
               b == Ev("send", m)
    <3>1. a.op = "set_peer" /\ b.op = "send" /\ b.x = m /\ "set_peer" \notin Sends
      BY DEF Ev, Sends
    <3>2. evs = <<b>> \/ evs = <<a, b>>
      BY DEF Posts
    <3> HIDE DEF a, b, evs
    <3>3. DOMAIN evs \in {1..1, 1..2} /\ \A k \in DOMAIN evs : evs[k].op \in Sends => evs[k] = b /\ k = Len(evs)
      <4>1. CASE evs = <<b>>
        <5>1. DOMAIN evs = 1..1 /\ Len(evs) = 1 /\ evs[1] = b
          BY <4>1
        <5> QED
          BY <5>1
      <4>2. CASE evs = <<a, b>>
        <5>1. DOMAIN evs = 1..2 /\ Len(evs) = 2 /\ evs[1] = a /\ evs[2] = b
          BY <4>2
        <5>2. \A k \in 1..2 : k = 1 \/ k = 2
          OBVIOUS
        <5> QED
          BY <5>1, <5>2, <3>1
      <4> QED
        BY <3>2, <4>1, <4>2
    <3> QED
      BY <3>1, <3>3, <2>1, <2>2 DEF Moved
  <2>5. conns' = conns
    BY <2>1 DEF Returns
  <2> HIDE DEF evs
  <2> QED
    BY <2>1, <2>3, <2>4, <2>5, <1>1, <1>2, QuietOrder
<1>4. CASE ProcessSetPeer(p)
  <2> DEFINE pa == [x EXCEPT !.addrs = Append(@, Address)]
             pr == IF pa.state = "NONE" THEN [pa EXCEPT !.state = "CONNECTING"] ELSE pa
             evs == IF pa.state = "NONE" THEN <<Try>> ELSE <<>>
  <2>1. /\ queue[p] # <<>> /\ Returns(p, pr, conns, evs)
        /\ received' = received /\ issued' = issued /\ setting' = setting
    BY <1>4 DEF ProcessSetPeer, Runs, users
  <2>2. pr.outq = x.outq /\ pr.sd = x.sd
    BY <1>1 DEF Peers
  <2>3. evs \in Seq(Events) /\ Moved(queue[p], evs)
    BY NoSends DEF Try
  <2>4. conns' = conns
    BY <2>1 DEF Returns
  <2> HIDE DEF pr, evs
  <2> QED
    BY <2>1, <2>2, <2>3, <2>4, <1>1, <1>2, QuietOrder
<1>5. CASE ProcessSend(p)
  <2> DEFINE m == Head(queue[p]).x
             pa == Queued(x, m)
             pr == IF pa.state = "CONNECTED" THEN [pa EXCEPT !.send_ev = TRUE]
                   ELSE IF Waiting(pa) THEN pa ELSE [pa EXCEPT !.state = "CONNECTING"]
             evs == IF pa.state = "CONNECTED" \/ Waiting(pa) THEN <<>> ELSE <<Try>>
  <2>1. /\ queue[p] # <<>> /\ Head(queue[p]).op = "send" /\ Returns(p, pr, conns, evs)
        /\ received' = received /\ issued' = issued /\ setting' = setting
    BY <1>5 DEF ProcessSend, Runs, users
  <2>2. pr.outq = Append(x.outq, m) /\ pr.sd = x.sd
    <3> DEFINE o == Append(x.outq, m)
    <3>1. pa = [x EXCEPT !.outq = o]
      BY DEF Queued
    <3> HIDE DEF o
    <3>2. pa.outq = o /\ pa.sd = x.sd /\ pa = [x EXCEPT !.outq = o]
      BY <3>1, <1>1 DEF Peers
    <3>3. pr.outq = pa.outq /\ pr.sd = pa.sd
      BY <3>1, <1>1 DEF Peers
    <3> QED
      BY <3>2, <3>3 DEF o
  <2>3. evs \in Seq(Events) /\ \A i \in DOMAIN evs : evs[i].op \notin Sends
    <3>1. <<>> \in Seq(Events) /\ \A i \in DOMAIN <<>> : FALSE
      OBVIOUS
    <3>2. <<Try>> \in Seq(Events) /\ \A i \in DOMAIN <<Try>> : <<Try>>[i].op \notin Sends
      BY SMTT(60), NoSends DEF Try
    <3> QED
      BY <3>1, <3>2
  <2>4. conns' = conns
    BY <2>1 DEF Returns
  <2> HIDE DEF pr, evs, pa
  <2>5. MayWrite(p, pr) /\ MayRead(p, pr) /\ Still(Other(p))
    BY <2>1, <2>2, <2>4, <1>1, <1>2 DEF MayWrite, MayRead
  <2> QED
    BY <2>1, <2>2, <2>3, <2>5, HandlerOrder
<1> QED
  BY <1>3, <1>4, <1>5

LEMMA TryConnectOrder ==
    ASSUME TypeOK, TypeOK', OrderInv, NEW p \in Proc, TryConnect(p) PROVE OrderInv'
<1> DEFINE x == peer[p]
           fresh == x.sd = NoSock
           cs == IF fresh THEN Append(conns, Socket(p)) ELSE conns
           pr == IF fresh THEN [EventsOff(x) EXCEPT !.sd = Len(cs)] ELSE x
           usable == Usable(pr)
           least == Min(usable)
           last == IF usable = {} THEN pr.active ELSE Max(usable)
           deck == SubSeq(pr.outq, 1, Min({1, Len(pr.outq)}))
           few == Tried(pr.addrs, {least})
           all == Tried(pr.addrs, usable)
           good == [pr EXCEPT !.send_ev = TRUE, !.active = least, !.addrs = few]
           bad == [pr EXCEPT !.state = "FAILED", !.addrs = all, !.active = last, !.outq = deck]
           ds == [cs EXCEPT ![pr.sd].est = "syn"]
           failure == <<Ev("failed", 0)>>
<1>1. /\ queue[p] # <<>>
      /\ \/ Returns(p, good, ds, <<>>)
         \/ Returns(p, bad, cs, failure)
      /\ setting' = setting /\ issued' = issued /\ received' = received
  BY DEF TryConnect, Runs, users, Tried
<1>2. /\ x \in Peers /\ x.outq \in Seq(Nat) /\ conns \in Seq(Sockets) /\ x.sd \in 0..Len(conns)
      /\ Len(conns) \in Nat /\ DOMAIN conns = 1..Len(conns)
  <2>1. x \in Peers /\ conns \in Seq(Sockets) /\ x.sd <= Len(conns)
    BY DEF TypeOK
  <2>2. x.outq \in Seq(Nat) /\ x.sd \in Nat
    BY <2>1 DEF Peers
  <2> QED
    BY <2>1, <2>2
<1>s. Socket(p) \in Sockets /\ \A q \in Proc : Socket(p).stream[q] = <<>>
  <2>1. [q \in Proc |-> <<>>] \in [Proc -> Seq(Nat)]
    OBVIOUS
  <2> QED
    BY <2>1 DEF Socket, Sockets
<1>3. /\ cs \in Seq(Sockets) /\ (fresh => Len(cs) = Len(conns) + 1 /\ cs[Len(cs)] = Socket(p))
      /\ (\A c \in 1..Len(conns) : cs[c] = conns[c]) /\ (~fresh => cs = conns)
  <2>1. conns \in Seq(Sockets) /\ Socket(p) \in Sockets
    BY <1>2, <1>s
  <2> QED
    BY <2>1
<1> HIDE DEF cs
<1>4. pr \in Peers /\ pr.outq = x.outq /\ pr.sd = IF fresh THEN Len(cs) ELSE x.sd
  <2> DEFINE y == EventsOff(x)
             l == Len(cs)
  <2>1. y \in Peers /\ y.outq = x.outq /\ l \in Nat
    BY <1>2, <1>3, EventsOffIs
  <2> HIDE DEF y, l
  <2> DEFINE z == [y EXCEPT !.sd = l]
  <2>2. z \in Peers /\ z.outq = y.outq /\ z.sd = l
    BY <2>1 DEF Peers
  <2>3. pr = IF fresh THEN z ELSE x
    BY DEF y, l
  <2> HIDE DEF z, pr
  <2> QED
    BY <2>1, <2>2, <2>3, <1>2 DEF l
<1> HIDE DEF pr, least, last, usable, few, all
<1>5. \A r \in Proc : \A d \in DOMAIN cs :
          cs[d].stream[r] = IF d \in DOMAIN conns THEN conns[d].stream[r] ELSE <<>>
  <2>1. \A d \in DOMAIN cs : d \in 1..Len(conns) \/ (fresh /\ d = Len(cs))
    BY <1>2, <1>3
  <2> QED
    BY <2>1, <1>2, <1>3, <1>s
<1>6. /\ DOMAIN ds = DOMAIN cs
      /\ \A d \in DOMAIN cs : ds[d].stream = cs[d].stream
  <2>1. \A s \in Sockets : [s EXCEPT !.est = "syn"].stream = s.stream
    BY DEF Sockets
  <2>2. \A d \in DOMAIN cs : cs[d] \in Sockets
    BY <1>3
  <2> QED
    BY <2>1, <2>2
<1>7. \A r \in Proc : Still(r)
  <2>1. conns' = ds \/ conns' = cs
    BY <1>1 DEF Returns
  <2> HIDE DEF ds
  <2> SUFFICES ASSUME NEW r \in Proc PROVE Still(r)
    OBVIOUS
  <2>2. DOMAIN conns' = DOMAIN cs /\ \A d \in DOMAIN cs : conns'[d].stream = cs[d].stream
    BY <2>1, <1>6
  <2> QED
    BY <2>2, <1>5 DEF Still
<1>8. pr.sd = x.sd \/ pr.sd \notin DOMAIN conns
  BY <1>2, <1>3, <1>4
<1>9. good.outq = x.outq /\ good.sd = pr.sd
  BY <1>4 DEF Peers
<1>10. bad.outq = SubSeq(x.outq, 1, Min({1, Len(x.outq)})) /\ bad.sd = pr.sd
  <2> HIDE DEF deck
  <2>1. bad.outq = deck /\ bad.sd = pr.sd
    BY <1>4 DEF Peers
  <2> QED
    BY <2>1, <1>4 DEF deck
<1>11. /\ IsPart(bad.outq, x.outq) /\ bad.outq \in Seq(Nat)
  BY <1>2, <1>10, PartIs, DeckIs
<1>12. failure \in Seq(Events) /\ Moved(queue[p], failure) /\ <<>> \in Seq(Events) /\ Moved(queue[p], <<>>)
  BY NoSends
<1> HIDE DEF good, bad, ds, failure
<1>13. Other(p) \in Proc
  BY OtherIs
<1>14. CASE Returns(p, good, ds, <<>>)
  BY <1>1, <1>2, <1>7, <1>8, <1>9, <1>12, <1>13, <1>14, QuietOrder
<1>15. CASE Returns(p, bad, cs, failure)
  BY <1>1, <1>2, <1>7, <1>8, <1>10, <1>11, <1>12, <1>13, <1>15, QuietOrder
<1> QED
  BY SMTT(60), <1>1, <1>14, <1>15

LEMMA WriteHandlersOrder ==
    ASSUME ConnInv, TypeOK', OrderInv, NEW p \in Proc,
           CompleteConnect(p) \/ WriteMessage(p)
    PROVE OrderInv'
<1> DEFINE x == peer[p]
           sd == peer[p].sd
           q == Other(p)
<1>1. /\ TypeOK /\ x \in Peers /\ x.outq \in Seq(Nat) /\ sd \in DOMAIN conns /\ sd \in 0..Len(conns)
      /\ queue[p] # <<>> /\ x.active <= Len(x.addrs)
      /\ (WriteMessage(p) => x.outq # <<>>)
  <2>1. Runs(p, "write")
    BY DEF CompleteConnect, WriteMessage
  <2>2. /\ TypeOK /\ x \in Peers /\ sd \in DOMAIN conns /\ sd \in 0..Len(conns)
        /\ queue[p] # <<>> /\ x.send_ev /\ x.active <= Len(x.addrs)
    BY <2>1, UseStarts
  <2>3. WriteMessage(p) => x.outq # <<>>
    BY <2>2 DEF ConnInv, PeerInv, PeerAt, WriteMessage
  <2> QED
    BY <2>2, <2>3 DEF Peers
<1>2. q \in Proc /\ Other(q) = p /\ <<>> \in Seq(Events) /\ Moved(queue[p], <<>>) /\ IsPart(x.outq, x.outq)
      /\ (x.outq # <<>> => IsPart(Tail(x.outq), x.outq))
  BY <1>1, OtherIs, NoSends, PartIs
<1>3. ASSUME NEW w \in Nat, conns' = Written(conns, sd, p, w)
      PROVE Writes(q, sd, w) /\ Still(p)
  BY <1>1, <1>2, <1>3, StillIs
<1>4. CASE CompleteConnect(p)
  <2> DEFINE up == [x EXCEPT !.state = "CONNECT_ACK", !.send_ev = FALSE, !.recv_ev = TRUE]
             down == [PeerClose(x) EXCEPT !.send_ev = FALSE]
             evs == IF x.state = "CONNECTING" THEN <<Try>> ELSE <<Lost>>
  <2>1. /\ received' = received /\ issued' = issued /\ setting' = setting
        /\ \/ Returns(p, up, Written(conns, sd, p, Ident), <<>>)
           \/ Returns(p, down, Closed(conns, sd, p), evs)
    BY <1>4 DEF CompleteConnect, users
  <2>2. up.outq = x.outq /\ up.sd = sd
    BY <1>1 DEF Peers
  <2>3. down.outq = x.outq /\ down.sd = NoSock
    <3>1. PeerClose(x) \in Peers /\ PeerClose(x).sd = NoSock
      BY <1>1, PeerCloseIs
    <3>2. PeerClose(x).outq = x.outq
      BY <1>1 DEF PeerClose, EventsOff, Peers
    <3> DEFINE y == PeerClose(x)
    <3> HIDE DEF y
    <3>3. y \in Peers => [y EXCEPT !.send_ev = FALSE].outq = y.outq /\ [y EXCEPT !.send_ev = FALSE].sd = y.sd
      BY DEF Peers
    <3> QED
      BY <3>1, <3>2, <3>3 DEF y
  <2>4. evs \in Seq(Events) /\ Moved(queue[p], evs)
    BY NoSends DEF Try, Lost
  <2> HIDE DEF up, down, evs
  <2>5. CASE Returns(p, up, Written(conns, sd, p, Ident), <<>>)
    <3>1. conns' = Written(conns, sd, p, Ident) /\ Ident \in Nat
      BY <2>5 DEF Returns, Ident
    <3>2. Writes(q, sd, Ident) /\ Still(p)
      BY <3>1, <1>3
    <3>3. MayWrite(p, up) /\ MayRead(p, up)
      BY <3>2, <2>1, <2>2 DEF MayWrite, MayRead
    <3> QED
      BY <3>3, <2>1, <2>2, <2>5, <1>1, <1>2, HandlerOrder
  <2>6. CASE Returns(p, down, Closed(conns, sd, p), evs)
    <3>1. Still(p) /\ Still(q)
      BY <2>6, <1>1, <1>2, StillIs DEF Returns
    <3> QED
      BY <3>1, <2>1, <2>3, <2>4, <2>6, <1>1, <1>2, QuietOrder
  <2> QED
    BY <2>1, <2>5, <2>6
<1>5. CASE WriteMessage(p)
  <2> DEFINE m == Head(x.outq)
             tl == Tail(x.outq)
             on == Len(x.outq) > 1
             pr == [x EXCEPT !.outq = tl, !.send_ev = on]
  <2>1. /\ received' = received /\ issued' = issued /\ setting' = setting
        /\ Returns(p, pr, Written(conns, sd, p, m), <<>>)
    BY <1>5 DEF WriteMessage
  <2>2. m \in Nat /\ tl \in Seq(Nat)
    BY <1>1, <1>5, TailIs
  <2> HIDE DEF m, tl, on
  <2>3. pr.outq = tl /\ pr.sd = sd
    BY <1>1 DEF Peers
  <2> HIDE DEF pr
  <2>4. conns' = Written(conns, sd, p, m)
    BY <2>1 DEF Returns
  <2>5. Writes(q, sd, m) /\ Still(p)
    BY <2>2, <2>4, <1>3
  <2>6. MayWrite(p, pr) /\ MayRead(p, pr)
    BY <2>1, <2>3, <2>5, <1>1, <1>5 DEF MayWrite, MayRead, m, tl
  <2>7. IsPart(pr.outq, x.outq) /\ pr.outq \in Seq(Nat)
    BY <2>2, <2>3, <1>1, <1>2, <1>5 DEF tl
  <2> QED
    BY <2>1, <2>6, <2>7, <1>1, <1>2, HandlerOrder
<1> QED
  BY <1>4, <1>5

\* The handlers that turn an event off, or do nothing.
LEMMA NothingOrder ==
    ASSUME TypeOK, TypeOK', OrderInv, NEW p \in Proc,
           WriteInvalid(p) \/ ReadInvalid(p) \/ ComponentKnows(p) \/ (FailedToConnect(p) /\ ~Aborts(p))
    PROVE OrderInv'
<1> DEFINE x == peer[p]
           off == [x EXCEPT !.send_ev = FALSE]
<1>1. /\ queue[p] # <<>> /\ received' = received /\ issued' = issued /\ setting' = setting
      /\ Returns(p, x, conns, <<>>) \/ Returns(p, off, conns, <<>>)
  <2>1. CASE WriteInvalid(p)
    BY <2>1 DEF WriteInvalid, Runs, users
  <2>2. CASE ReadInvalid(p)
    BY <2>2 DEF ReadInvalid, Runs, users
  <2>3. CASE ComponentKnows(p)
    BY <2>3 DEF ComponentKnows, Runs, users
  <2>4. CASE FailedToConnect(p) /\ ~Aborts(p)
    BY <2>4 DEF FailedToConnect, Runs, users
  <2> QED
    BY <2>1, <2>2, <2>3, <2>4
<1>2. x \in Peers /\ x.outq \in Seq(Nat) /\ off.outq = x.outq /\ off.sd = x.sd
  BY DEF TypeOK, Peers
<1>3. conns' = conns /\ Other(p) \in Proc
  BY <1>1, OtherIs DEF Returns
<1>4. Still(p) /\ Still(Other(p)) /\ <<>> \in Seq(Events) /\ Moved(queue[p], <<>>)
  BY <1>3, StillIs, NoSends
<1> HIDE DEF off
<1> QED
  BY <1>1, <1>2, <1>4, QuietOrder

LEMMA ReadHandlersOrder ==
    ASSUME ConnInv, TypeOK', OrderInv, NEW p \in Proc, ReadConnectAck(p) \/ ReadMessage(p)
    PROVE OrderInv'
<1> DEFINE x == peer[p]
           sd == peer[p].sd
           q == Other(p)
           y == PeerClose(x)
           aside(z) == [EventsOff(z) EXCEPT !.state = "UNCONNECTED"]
           known1 == <<SetModule>>
           lost == <<Lost>>
<1>1. /\ TypeOK /\ x \in Peers /\ x.outq \in Seq(Nat) /\ sd \in DOMAIN conns /\ sd \in 0..Len(conns)
      /\ queue[p] # <<>> /\ x.active <= Len(x.addrs)
  <2>1. Runs(p, "read")
    BY DEF ReadConnectAck, ReadMessage
  <2>2. /\ TypeOK /\ x \in Peers /\ sd \in DOMAIN conns /\ sd \in 0..Len(conns)
        /\ queue[p] # <<>> /\ x.active <= Len(x.addrs)
    BY <2>1, UseStarts
  <2> QED
    BY SMTT(60), <2>2 DEF Peers
<1>2. q \in Proc /\ Other(q) = p /\ <<>> \in Seq(Events) /\ Moved(queue[p], <<>>) /\ IsPart(x.outq, x.outq)
  BY <1>1, OtherIs, NoSends, PartIs
<1>3. /\ known1 \in Seq(Events) /\ Moved(queue[p], known1)
      /\ lost \in Seq(Events) /\ Moved(queue[p], lost)
  BY NoSends DEF SetModule, Lost
<1>4. y \in Peers /\ y.outq = x.outq /\ y.sd = NoSock
  <2>1. y \in Peers /\ y.sd = NoSock
    BY <1>1, PeerCloseIs
  <2>2. y.outq = x.outq
    BY SMTT(60), <1>1 DEF PeerClose, EventsOff, Peers
  <2> QED
    BY <2>1, <2>2
<1>5. issued' = issued /\ setting' = setting
  BY DEF ReadConnectAck, ReadMessage, users
<1> HIDE DEF y, known1, lost
\* Closing the socket, and keeping it or not.
<1>6. ASSUME NEW pr, pr.outq = x.outq, pr.sd \in {NoSock, sd}, NEW evs \in {<<>>, lost},
             Returns(p, pr, Closed(conns, sd, p), evs), received' = received
      PROVE OrderInv'
  <2>1. Still(p) /\ Still(q)
    BY <1>1, <1>2, <1>6, StillIs DEF Returns
  <2>2. evs \in Seq(Events) /\ Moved(queue[p], evs)
    BY <1>2, <1>3
  <2> QED
    BY <2>1, <2>2, <1>1, <1>5, <1>6, QuietOrder
\* Taking an item from it.
<1>7. ASSUME NEW pr, pr.outq = x.outq, pr.sd = sd, NEW evs \in {<<>>, known1},
             Returns(p, pr, Taken(conns, sd, p), evs), conns[sd].stream[p] # <<>>,
             received'[q] = received[q],
             \/ received'[p] = received[p]
             \/ received'[p] = Append(received[p], Head(conns[sd].stream[p]))
      PROVE OrderInv'
  <2>1. Takes(p, sd) /\ Still(q)
    BY <1>1, <1>2, <1>7, StillIs DEF Returns
  <2>2. evs \in Seq(Events) /\ Moved(queue[p], evs)
    BY <1>2, <1>3
  <2>3. MayWrite(p, pr) /\ MayRead(p, pr)
    BY <2>1, <1>7 DEF MayWrite, MayRead
  <2> QED
    BY <2>2, <2>3, <1>1, <1>2, <1>5, <1>7, HandlerOrder
<1>8. CASE ReadConnectAck(p)
  <2> DEFINE on == Connected(x)
             away == IF OtherGreater(p) THEN aside(y) ELSE y
             apart == IF OtherGreater(p) THEN aside(x) ELSE x
  <2>1. received' = received /\ received'[q] = received[q]
    BY SMTT(60), <1>8 DEF ReadConnectAck, users
  <2>2. \/ Returns(p, on, Taken(conns, sd, p), known1) /\ conns[sd].stream[p] # <<>>
        \/ Returns(p, y, Closed(conns, sd, p), lost)
        \/ Returns(p, away, Closed(conns, sd, p), lost)
        \/ Returns(p, apart, Closed(conns, sd, p), <<>>)
    BY <1>8, ResultsAre DEF ReadConnectAck, y, known1, lost
  <2>3. on.outq = x.outq /\ on.sd = sd
    BY <1>1, ConnectedIs
  <2>4. \A z \in Peers : aside(z).outq = z.outq /\ aside(z).sd = z.sd
    BY AsideIs
  <2>5. /\ away.outq = x.outq /\ away.sd \in {NoSock, sd}
        /\ apart.outq = x.outq /\ apart.sd \in {NoSock, sd}
    BY <2>4, <1>1, <1>4
  <2> HIDE DEF on, away, apart
  <2>6. CASE Returns(p, on, Taken(conns, sd, p), known1) /\ conns[sd].stream[p] # <<>>
    BY <2>1, <2>3, <2>6, <1>7
  <2>7. CASE Returns(p, y, Closed(conns, sd, p), lost)
    BY <2>1, <2>7, <1>4, <1>6
  <2>8. CASE Returns(p, away, Closed(conns, sd, p), lost)
    BY <2>1, <2>5, <2>8, <1>6
  <2>9. CASE Returns(p, apart, Closed(conns, sd, p), <<>>)
    BY <2>1, <2>5, <2>9, <1>6
  <2> QED
    BY SMTT(60), <2>2, <2>6, <2>7, <2>8, <2>9
<1>9. CASE ReadMessage(p)
  <2>1. \/ /\ Returns(p, x, Taken(conns, sd, p), <<>>) /\ conns[sd].stream[p] # <<>>
           /\ received' = [received EXCEPT ![p] = Append(@, Head(conns[sd].stream[p]))]
        \/ Returns(p, y, Closed(conns, sd, p), lost) /\ received' = received
    BY SMTT(60), <1>9, ResultsAre DEF ReadMessage, y, lost
  <2>2. CASE /\ Returns(p, x, Taken(conns, sd, p), <<>>) /\ conns[sd].stream[p] # <<>>
             /\ received' = [received EXCEPT ![p] = Append(@, Head(conns[sd].stream[p]))]
    <3>1. received'[q] = received[q] /\ received'[p] = Append(received[p], Head(conns[sd].stream[p]))
      BY <2>2, <1>1, <1>2, OtherIs DEF TypeOK
    <3> QED
      BY <3>1, <2>2, <1>7
  <2>3. CASE Returns(p, y, Closed(conns, sd, p), lost) /\ received' = received
    BY <2>3, <1>4, <1>6
  <2> QED
    BY <2>1, <2>2, <2>3
<1> QED
  BY <1>8, <1>9

LEMMA AcceptOrder ==
    ASSUME ConnInv, TypeOK', OrderInv, NEW p \in Proc, Accept(p) PROVE OrderInv'
<1> DEFINE x == peer[p]
           c == Head(queue[p]).x
           q == Other(p)
           given == IF Busy(x) THEN Closed(conns, x.sd, p) ELSE conns
           w == Willing(p)
           y == [EventsOff(w) EXCEPT !.sd = c]
           pr == Connected(y)
           evs == <<SetModule>>
<1>1. /\ TypeOK /\ queue[p] # <<>> /\ Head(queue[p]).op = "accept" /\ received' = received
      /\ issued' = issued /\ setting' = setting
  BY DEF Accept, Runs, users, ConnInv
<1>2. /\ x \in Peers /\ x.active <= Len(x.addrs) /\ x.outq \in Seq(Nat) /\ conns \in Seq(Sockets)
      /\ x.sd \in 0..Len(conns) /\ q \in Proc /\ q # p /\ Other(q) = p
  <2>1. x \in Peers /\ x.active <= Len(x.addrs) /\ conns \in Seq(Sockets) /\ x.sd <= Len(conns)
    BY <1>1 DEF TypeOK
  <2>2. x.outq \in Seq(Nat) /\ x.sd \in Nat
    BY <2>1 DEF Peers
  <2> QED
    BY <2>1, <2>2, OtherIs
<1>3. c \in DOMAIN conns /\ c \in 1..Len(conns) /\ c \in 0..Len(conns) /\ c \in Nat /\ conns[c].from = q
      /\ \A i \in DOMAIN conns[c].stream[p] : conns[c].stream[p][i] = Ident
  <2>1. EventInv(p, Head(queue[p])) /\ Head(queue[p]) \in Events /\ Head(queue[p]) = queue[p][1]
        /\ 1 \in DOMAIN queue[p]
    BY <1>1, SocketHead, Heads DEF SocketOps
  <2>2. Head(queue[p]) = Ev("accept", c)
    BY <2>1, <1>1 DEF Events, Ev
  <2>3. c \in DOMAIN conns /\ conns[c].from # p
    BY <2>1, <1>1 DEF EventInv
  <2>4. conns[c].from = q
    <3> HIDE DEF c
    <3>0. conns[c] \in Sockets
      BY <2>3, <1>2
    <3>1. conns[c].from \in Proc
      BY <3>0 DEF Sockets
    <3> QED
      BY <3>1, <2>3, OtherIs
  <2>5. Waits(c)
    BY <2>1, <2>2, <2>4, <1>2 DEF Waits
  <2>6. \A i \in DOMAIN conns[c].stream[p] : conns[c].stream[p][i] = Ident
    <3> HIDE DEF c
    <3>1. SocketAt(c) /\ Other(conns[c].from) = p
      BY <2>3, <2>4, <1>2 DEF ConnInv, SocketInv
    <3> QED
      BY <3>1, <2>5 DEF SocketAt
  <2> QED
    BY <2>3, <2>4, <2>6, <1>2
<1>4. IsPart(x.outq, x.outq) /\ <<>> \in Seq(Events) /\ Moved(queue[p], <<>>)
      /\ evs \in Seq(Events) /\ Moved(queue[p], evs)
  BY <1>2, PartIs, NoSends DEF SetModule
<1>5. CASE Returns(p, x, Closed(conns, c, p), <<>>)
  <2>1. Still(p) /\ Still(q)
    BY <1>1, <1>2, <1>3, <1>5, StillIs DEF Returns
  <2> QED
    BY <2>1, <1>1, <1>2, <1>4, <1>5, QuietOrder
<1>6. CASE /\ conns[c].stream[p] # <<>>
           /\ Returns(p, pr, Written(Taken(given, c, p), c, p, Ident), evs)
  <2> DEFINE g == IF Busy(x) THEN x.sd ELSE NoSock
             taken == Taken(given, c, p)
  <2>1. g \in 0..Len(conns) /\ given = Closed(conns, g, p)
    <3>1. CASE Busy(x)
      BY <1>2, <3>1
    <3>2. CASE ~Busy(x)
      BY <1>2, <3>2 DEF Closed, NoSock
    <3> QED
      BY <3>1, <3>2
  <2> HIDE DEF g, given
  <2>2. IsClosed(conns, g, p, given)
    BY <2>1, <1>2, ClosedIs
  <2>3. given \in Seq(Sockets) /\ c \in 1..Len(given) /\ given[c].stream[p] # <<>>
    BY <2>2, <1>3, <1>6 DEF IsClosed
  <2>4. IsTaken(given, c, p, taken)
    BY <2>3, TakenIs
  <2>5. taken \in Seq(Sockets) /\ c \in 1..Len(taken) /\ Ident \in Nat
    BY <2>3, <2>4 DEF IsTaken, Ident
  <2>6. conns' = Written(taken, c, p, Ident)
    BY <1>6 DEF Returns
  <2> HIDE DEF taken
  <2>7. IsWritten(taken, c, p, Ident, conns')
    BY <2>5, <2>6, WrittenIs
  <2>8. /\ DOMAIN conns' = DOMAIN conns /\ DOMAIN conns = 1..Len(conns)
        /\ \A d \in 1..Len(conns) :
             /\ conns'[d].stream[p] = IF d = c THEN Tail(conns[d].stream[p]) ELSE conns[d].stream[p]
             /\ conns'[d].stream[q] = IF d = c THEN Append(conns[d].stream[q], Ident) ELSE conns[d].stream[q]
    <3>1. Len(given) = Len(conns) /\ Len(taken) = Len(conns) /\ Len(conns') = Len(conns) /\ conns' \in Seq(Sockets)
      BY <2>2, <2>4, <2>7 DEF IsClosed, IsTaken, IsWritten
    <3>2. \A d \in 1..Len(conns) : given[d].stream = conns[d].stream
      BY <2>2 DEF IsClosed
    <3>3. \A d \in 1..Len(conns) :
             /\ taken[d].stream[p] = IF d = c THEN Tail(conns[d].stream[p]) ELSE conns[d].stream[p]
             /\ taken[d].stream[q] = conns[d].stream[q]
      BY <2>4, <3>1, <3>2, <1>2 DEF IsTaken
    <3>4. \A d \in 1..Len(conns) :
             /\ conns'[d].stream[p] = taken[d].stream[p]
             /\ conns'[d].stream[q] = IF d = c THEN Append(taken[d].stream[q], Ident) ELSE taken[d].stream[q]
      BY <2>7, <3>1, <1>2 DEF IsWritten
    <3>5. DOMAIN conns' = DOMAIN conns /\ DOMAIN conns = 1..Len(conns)
      BY SMTT(60), <3>1, <1>2
    <3> QED
      BY <3>3, <3>4, <3>5
  <2>9. Takes(p, c) /\ Writes(q, c, Ident)
    BY <2>8, <1>3, <1>6 DEF Takes, Writes
  <2>10. pr.outq = x.outq /\ pr.sd = c
    <3>1. w \in Peers /\ w.active <= Len(w.addrs) /\ w.outq = x.outq
      <4>1. w \in Peers /\ w.outq = x.outq /\ w.active = x.active /\ w.addrs = x.addrs
        BY <1>2, AsideIs DEF Willing, Peers, States
      <4> QED
        BY <4>1, <1>2
    <3> DEFINE z == EventsOff(w)
    <3> HIDE DEF w
    <3>2. z \in Peers /\ z.active <= Len(z.addrs) /\ z.outq = x.outq
      BY <3>1, EventsOffIs
    <3>3. y = [z EXCEPT !.sd = c]
      OBVIOUS
    <3> HIDE DEF z, c, y
    <3>4. y \in Peers /\ y.active <= Len(y.addrs) /\ y.outq = x.outq /\ y.sd = c
      BY <3>2, <3>3, <1>3 DEF Peers
    <3> QED
      BY <3>4, ConnectedIs
  <2> HIDE DEF pr, evs
  <2>11. MayWrite(p, pr) /\ MayRead(p, pr)
    BY <2>9, <2>10, <1>1, <1>3 DEF MayWrite, MayRead
  <2> QED
    BY <2>10, <2>11, <1>1, <1>2, <1>4, <1>6, HandlerOrder
<1> QED
  BY <1>5, <1>6, ResultsAre DEF Accept

-----------------------------------------------------------------------------
(* What is not a handler. *)

\* Events come behind those that are active: at most one of them is a send, of
\* the message just issued, on the base that the user's thread hands it to.
LEMMA ExtendedStep ==
    ASSUME TypeOK, NEW p \in Proc, NEW evs \in Seq(Events), queue'[p] = queue[p] \o evs,
           peer'[p] = peer[p], issued'[p] \in Nat, issued[p] <= issued'[p], setting' = setting, SendAt(p),
           \A k \in DOMAIN evs : evs[k].op \in Sends =>
              /\ evs[k].x = issued'[p] /\ issued'[p] = issued[p] + 1
              /\ evs[k].op = "base_send" <=> p \notin setting.threaded,
           \A k, l \in DOMAIN evs : evs[k].op \in Sends /\ evs[l].op \in Sends => k = l
    PROVE SendAt(p)' /\ \A m \in Nat : IsUnsent(p, m)' => IsUnsent(p, m) \/ m > issued[p]
<1> DEFINE q == queue[p]
           left == queue'[p]
           n == issued[p]
           n1 == issued'[p]
           o == peer[p].outq
<1>1. q \in Seq(Events) /\ n \in Nat
  BY DEF TypeOK
<1>2. \A i \in DOMAIN left : /\ i \in Nat
                             /\ \/ i \in DOMAIN q /\ left[i] = q[i]
                                \/ i > Len(q) /\ i - Len(q) \in DOMAIN evs /\ left[i] = evs[i - Len(q)]
  BY <1>1
<1>l. Len(q) \in Nat /\ \A i \in DOMAIN q : i <= Len(q)
  BY <1>1
<1>3. /\ p \in setting.threaded => \A i \in DOMAIN q : q[i].op # "base_send"
      /\ QueueOrder(q, n) /\ OutOrder(o, q, n)
  BY DEF SendAt, Has
<1> HIDE DEF q, left, n, n1, o
<1>4. \A i \in DOMAIN left : left[i].op \in Sends =>
          \/ i \in DOMAIN q /\ left[i] = q[i]
          \/ /\ i > Len(q) /\ left[i].x = n1 /\ n1 = n + 1
             /\ left[i].op = "base_send" <=> p \notin setting.threaded
  BY <1>2 DEF n, n1
<1>5. \A i, j \in DOMAIN left : left[i].op \in Sends /\ left[j].op \in Sends /\ i > Len(q) /\ j > Len(q) => i = j
  <2>1. \A i \in DOMAIN left : i > Len(q) => i - Len(q) \in DOMAIN evs /\ left[i] = evs[i - Len(q)]
    BY <1>2, <1>l
  <2> SUFFICES ASSUME NEW i \in DOMAIN left, NEW j \in DOMAIN left, left[i].op \in Sends,
                      left[j].op \in Sends, i > Len(q), j > Len(q)
               PROVE i = j
    OBVIOUS
  <2> DEFINE k == i - Len(q)
             l == j - Len(q)
  <2>2. k \in DOMAIN evs /\ l \in DOMAIN evs /\ evs[k].op \in Sends /\ evs[l].op \in Sends
    BY <2>1
  <2> HIDE DEF k, l
  <2>3. k = l
    BY <2>2
  <2> QED
    BY <2>3, <1>2, <1>l DEF k, l
<1>6. n1 \in Nat /\ n <= n1 /\ 1..n \subseteq 1..n1
  BY <1>1 DEF n, n1
<1>7. QueueOrder(left, n1)
  <2>1. \A i \in DOMAIN left : left[i].op \in Sends => left[i].x \in 1..n1
    BY <1>1, <1>3, <1>4, <1>6 DEF QueueOrder
  <2>2. ASSUME NEW i \in DOMAIN left, NEW j \in DOMAIN left, Before(left, i, j)
        PROVE left[i].x < left[j].x
    <3>1. left[i].op \in Sends /\ left[j].op \in Sends
      BY <2>2 DEF Before
    <3>2. CASE i \in DOMAIN q /\ left[i] = q[i] /\ j \in DOMAIN q /\ left[j] = q[j]
      BY <2>2, <3>2, <1>3 DEF QueueOrder, Before
    <3>3. CASE i \in DOMAIN q /\ left[i] = q[i] /\ j > Len(q)
      <4>1. left[i].x \in 1..n /\ left[j].x = n + 1
        BY <3>1, <3>3, <1>3, <1>4, <1>l DEF QueueOrder
      <4> QED
        BY <4>1, <1>1
    <3>4. CASE i > Len(q) /\ j > Len(q)
      <4>1. i = j /\ i \in Nat
        BY <3>1, <3>4, <1>2, <1>5
      <4> QED
        BY <4>1, <2>2 DEF Before
    <3>5. CASE i > Len(q) /\ j \in DOMAIN q /\ left[j] = q[j]
      <4>1. ~(i < j)
        BY <3>5, <1>2, <1>l
      <4>2. left[i].op = "send" /\ q[j].op = "base_send"
        BY <4>1, <3>5, <2>2 DEF Before
      <4> QED
        BY <4>2, <3>1, <3>5, <1>3, <1>4, <1>l
    <3> QED
      BY <3>1, <3>2, <3>3, <3>4, <3>5, <1>4
  <2> QED
    BY <2>1, <2>2 DEF QueueOrder
<1>8. OutOrder(o, left, n1)
  <2>1. ASSUME NEW i \in DOMAIN o, NEW j \in DOMAIN left, left[j].op \in Sends PROVE o[i] < left[j].x
    <3>1. o[i] \in 1..n
      BY <1>3 DEF OutOrder
    <3> QED
      BY <2>1, <3>1, <1>1, <1>3, <1>4 DEF OutOrder
  <2> QED
    BY <2>1, <1>3, <1>6 DEF OutOrder
<1>9. p \in setting.threaded => \A i \in DOMAIN left : left[i].op # "base_send"
  BY <1>3, <1>4 DEF Sends
<1>10. SendAt(p)'
  BY <1>7, <1>8, <1>9 DEF SendAt, Has, left, n1, o
<1>11. \A m \in Nat : IsUnsent(p, m)' => IsUnsent(p, m) \/ m > n
  <2>1. ASSUME NEW m \in Nat, NEW i \in DOMAIN left, left[i].op \in Sends, left[i].x = m
        PROVE QueuedSend(p, m) \/ m > n
    BY <2>1, <1>1, <1>4 DEF QueuedSend, q
  <2> QED
    BY <2>1 DEF IsUnsent, QueuedSend, left
<1> QED
  BY <1>10, <1>11 DEF n

\* No step of a handler: nothing is written or read.
LEMMA StaysOrder ==
    ASSUME TypeOK, TypeOK', OrderInv, peer' = peer, received' = received,
           \A r \in Proc : /\ Still(r) /\ SendAt(r)' /\ issued[r] <= issued'[r]
                           /\ \A m \in Nat : IsUnsent(r, m)' => IsUnsent(r, m) \/ m > issued[r]
    PROVE OrderInv'
<1>1. ASSUME NEW p \in Proc PROVE SentAt(p)' /\ StreamAt(Other(p))'
  <2>1. Other(p) \in Proc
    BY OtherIs
  <2>2. SentAt(p) /\ StreamAt(Other(p))
    BY <2>1 DEF OrderInv
  <2>3. Still(Other(p)) /\ received'[Other(p)] = received[Other(p)] /\ peer'[Other(p)].sd = peer[Other(p)].sd
    BY <2>1
  <2> QED
    BY <2>2, <2>3, OutStep
<1>2. \A p \in Proc : \E r \in Proc : p = Other(r)
  BY OtherIs
<1> QED
  BY <1>1, <1>2 DEF OrderInv

\* A queue that nothing is added to.
LEMMA SameSends ==
    ASSUME NEW p \in Proc, peer'[p] = peer[p], queue'[p] = queue[p], issued'[p] = issued[p],
           setting' = setting, SendAt(p)
    PROVE SendAt(p)' /\ \A m \in Nat : IsUnsent(p, m)' => IsUnsent(p, m)
BY DEF SendAt, QueueOrder, OutOrder, Before, Has, IsUnsent, QueuedSend

LEMMA UserSendOrder ==
    ASSUME TypeOK, TypeOK', OrderInv, NEW p \in Proc, UserSend(p) PROVE OrderInv'
<1> DEFINE q == Other(p)
           m == issued[p] + 1
           b == Ev("base_send", m)
           a == Ev("set_peer", 0)
           s == Ev("send", m)
           evs == IF p \in setting.threaded THEN Posts(p, m) ELSE <<b>>
<1>1. /\ q \in Proc /\ q # p /\ (\A r \in Proc : r = p \/ r = q) /\ m \in Nat
      /\ queue \in [Proc -> Seq(Events)] /\ queue[p] \in Seq(Events) /\ issued \in [Proc -> Nat]
  BY SMTT(60), OtherIs DEF TypeOK
<1>2. /\ peer' = peer /\ received' = received /\ conns' = conns /\ setting' = setting
      /\ issued' = [issued EXCEPT ![p] = @ + 1]
  BY DEF UserSend
<1>3. /\ a \in Events /\ a.op \notin Sends /\ b \in Events /\ b.op = "base_send" /\ b.x = m
      /\ s \in Events /\ s.op = "send" /\ s.x = m
  BY <1>1 DEF Ev, Events, Sends
<1>4. queue' = [queue EXCEPT ![p] = @ \o evs]
  <2>1. CASE p \in setting.threaded
    BY <2>1 DEF UserSend
  <2>2. CASE p \notin setting.threaded
    <3>1. queue' = [queue EXCEPT ![p] = Append(@, b)]
      BY <2>2 DEF UserSend
    <3>2. Append(queue[p], b) = queue[p] \o <<b>>
      BY <1>1, <1>3, AppendIsConcat
    <3> QED
      BY <2>2, <3>1, <3>2
  <2> QED
    BY <2>1, <2>2
<1>5. \/ p \in setting.threaded /\ evs \in {<<s>>, <<a, s>>}
      \/ p \notin setting.threaded /\ evs = <<b>>
  BY DEF Posts
<1> HIDE DEF a, b, s, evs
<1>6. /\ evs \in Seq(Events)
      /\ \A k \in DOMAIN evs : evs[k].op \in Sends =>
            /\ k = Len(evs) /\ evs[k].x = m
            /\ evs[k].op = "base_send" <=> p \notin setting.threaded
  <2>1. CASE p \in setting.threaded /\ evs = <<s>>
    <3>1. evs \in Seq(Events) /\ DOMAIN evs = 1..1 /\ Len(evs) = 1 /\ evs[1] = s
      BY <2>1, <1>3
    <3> QED
      BY <2>1, <3>1, <1>3
  <2>2. CASE p \in setting.threaded /\ evs = <<a, s>>
    <3>1. evs \in Seq(Events) /\ DOMAIN evs = 1..2 /\ Len(evs) = 2 /\ evs[1] = a /\ evs[2] = s
      BY <2>2, <1>3
    <3>2. \A k \in 1..2 : k = 1 \/ k = 2
      OBVIOUS
    <3> QED
      BY <2>2, <3>1, <3>2, <1>3
  <2>3. CASE p \notin setting.threaded /\ evs = <<b>>
    <3>1. evs \in Seq(Events) /\ DOMAIN evs = 1..1 /\ Len(evs) = 1 /\ evs[1] = b
      BY <2>3, <1>3
    <3> QED
      BY <2>3, <3>1, <1>3
  <2> QED
    BY <1>5, <2>1, <2>2, <2>3
<1>7. /\ queue'[p] = queue[p] \o evs /\ queue'[q] = queue[q]
      /\ issued'[p] = m /\ issued[p] <= issued'[p] /\ issued'[q] = issued[q] /\ issued[q] <= issued'[q]
  BY <1>1, <1>2, <1>4
<1>8. SendAt(p)' /\ \A n \in Nat : IsUnsent(p, n)' => IsUnsent(p, n) \/ n > issued[p]
  <2>1. SendAt(p)
    BY DEF OrderInv
  <2>2. \A k \in DOMAIN evs : evs[k].op \in Sends =>
              /\ evs[k].x = issued'[p] /\ issued'[p] = issued[p] + 1
              /\ evs[k].op = "base_send" <=> p \notin setting.threaded
    BY <1>6, <1>7
  <2>3. \A k, l \in DOMAIN evs : evs[k].op \in Sends /\ evs[l].op \in Sends => k = l
    BY <1>6
  <2>4. peer'[p] = peer[p] /\ issued'[p] \in Nat
    BY <1>1, <1>2, <1>7
  <2> HIDE DEF m
  <2> QED
    BY <2>1, <2>2, <2>3, <2>4, <1>2, <1>6, <1>7, ExtendedStep
<1>9. SendAt(q)' /\ \A n \in Nat : IsUnsent(q, n)' => IsUnsent(q, n) \/ n > issued[q]
  BY <1>1, <1>2, <1>7, SameSends DEF OrderInv
<1>10. Still(p) /\ Still(q)
  BY <1>1, <1>2, StillIs
<1> QED
  BY <1>1, <1>2, <1>7, <1>8, <1>9, <1>10, StaysOrder

LEMMA PollOrder ==
    ASSUME TypeOK, TypeOK', OrderInv, NEW p \in Proc, Poll(p) PROVE OrderInv'
<1> DEFINE q == Other(p)
           S == ReadyEvents(p)
<1>1. /\ q \in Proc /\ q # p /\ (\A r \in Proc : r = p \/ r = q) /\ conns \in Seq(Sockets)
      /\ queue \in [Proc -> Seq(Events)] /\ queue[p] \in Seq(Events) /\ issued \in [Proc -> Nat]
  BY OtherIs DEF TypeOK
<1>2. /\ peer' = peer /\ received' = received /\ setting' = setting /\ issued' = issued
  BY DEF Poll, users
<1>3. PICK evs \in SetToSeqs(S) : queue' = [queue EXCEPT ![p] = @ \o evs]
  BY DEF Poll
<1>4. evs \in Seq(Events) /\ \A i \in DOMAIN evs : evs[i].op \notin Sends
  <2>1. IsFiniteSet(S) /\ \A e \in S : e \in Events /\ e.op \notin Sends
    <3>1. IsFiniteSet(S) /\ \A e \in S : IsReady(p, e)
      BY ReadyIs
    <3> HIDE DEF S
    <3> QED
      BY <3>1 DEF IsReady, SocketOps, Sends
  <2> HIDE DEF S
  <2>2. Cardinality(S) \in Nat
    BY <2>1, FS_CardinalityType
  <2>3. evs \in [1..Cardinality(S) -> S]
    BY <1>3 DEF SetToSeqs
  <2> QED
    BY <2>1, <2>2, <2>3
<1>5. queue'[p] = queue[p] \o evs /\ queue'[q] = queue[q]
  BY <1>1, <1>3
<1>6. SendAt(p)' /\ \A n \in Nat : IsUnsent(p, n)' => IsUnsent(p, n) \/ n > issued[p]
  <2>1. SendAt(p)
    BY DEF OrderInv
  <2>2. peer'[p] = peer[p] /\ issued'[p] \in Nat /\ issued[p] <= issued'[p]
    BY <1>1, <1>2
  <2> HIDE DEF S
  <2> QED
    BY <2>1, <2>2, <1>2, <1>4, <1>5, ExtendedStep
<1>7. SendAt(q)' /\ \A n \in Nat : IsUnsent(q, n)' => IsUnsent(q, n) \/ n > issued[q]
  BY <1>1, <1>2, <1>5, SameSends DEF OrderInv
<1>8. \A r \in Proc : Still(r)
  <2> DEFINE s(c) == IF Ev("accept", c) \in S THEN [conns[c] EXCEPT !.pending = FALSE] ELSE conns[c]
  <2>1. conns' = [c \in DOMAIN conns |-> s(c)]
    BY DEF Poll
  <2>2. \A c \in DOMAIN conns : s(c).stream = conns[c].stream
    <3> TAKE c \in DOMAIN conns
    <3>1. conns[c] \in Sockets
      BY <1>1
    <3> HIDE DEF S
    <3> QED
      BY <3>1 DEF Sockets
  <2> HIDE DEF s
  <2> QED
    BY <2>1, <2>2 DEF Still
<1>9. \A r \in Proc : issued[r] <= issued'[r]
  BY <1>1, <1>2
<1> QED
  BY <1>1, <1>2, <1>6, <1>7, <1>8, <1>9, StaysOrder

\* Sockets that are set up or closed.
LEMMA SocketsOrder ==
    ASSUME TypeOK, TypeOK', OrderInv,
           (\E c \in DOMAIN conns : Establish(c)) \/ (\E p \in Proc : Aborts(p)) \/ UNCHANGED vars
    PROVE OrderInv'
<1>1. peer' = peer /\ received' = received /\ setting' = setting /\ issued' = issued /\ queue' = queue
  BY DEF Establish, Aborts, vars, net, users
<1>2. conns \in Seq(Sockets) /\ DOMAIN conns = 1..Len(conns) /\ \A c \in DOMAIN conns : conns[c] \in Sockets
  BY DEF TypeOK
<1>3. DOMAIN conns' = DOMAIN conns /\ \A c \in DOMAIN conns : conns'[c].stream = conns[c].stream
  <2>1. ASSUME NEW d \in DOMAIN conns, Establish(d)
        PROVE DOMAIN conns' = DOMAIN conns /\ \A c \in DOMAIN conns : conns'[c].stream = conns[c].stream
    <3>1. PICK e : conns' = [conns EXCEPT ![d].est = e]
      BY <2>1 DEF Establish
    <3> QED
      BY <3>1, <1>2 DEF Sockets
  <2>2. ASSUME NEW p \in Proc, Aborts(p)
        PROVE DOMAIN conns' = DOMAIN conns /\ \A c \in DOMAIN conns : conns'[c].stream = conns[c].stream
    <3> DEFINE s(c) == Closed(conns, c, p)[c]
    <3>1. conns' = [c \in DOMAIN conns |-> s(c)]
      BY <2>2 DEF Aborts
    <3>2. \A c \in DOMAIN conns : s(c).stream = conns[c].stream
      <4> TAKE c \in DOMAIN conns
      <4> DEFINE ds == Closed(conns, c, p)
      <4>1. c \in 1..Len(conns) /\ c \in 0..Len(conns)
        BY <1>2
      <4>2. IsClosed(conns, c, p, ds)
        BY <4>1, <1>2, ClosedIs
      <4>3. s(c) = ds[c]
        OBVIOUS
      <4> HIDE DEF ds, s
      <4> QED
        BY <4>1, <4>2, <4>3 DEF IsClosed
    <3> HIDE DEF s
    <3> QED
      BY <3>1, <3>2
  <2>3. CASE UNCHANGED vars
    BY <2>3 DEF vars, net
  <2> QED
    BY <2>1, <2>2, <2>3
<1>4. \A r \in Proc : Still(r) /\ issued[r] <= issued'[r]
  BY <1>1, <1>3 DEF Still, TypeOK
<1>5. \A r \in Proc : SendAt(r)' /\ \A m \in Nat : IsUnsent(r, m)' => IsUnsent(r, m)
  BY <1>1, SameSends DEF OrderInv
<1> QED
  BY <1>1, <1>4, <1>5, StaysOrder

-----------------------------------------------------------------------------
(* The invariant. *)

LEMMA InitOrder == Init => OrderInv
<1> SUFFICES ASSUME Init, NEW p \in Proc PROVE SendAt(p) /\ SentAt(p) /\ StreamAt(p)
  BY DEF OrderInv
<1>0. DOMAIN <<>> = {}
  OBVIOUS
<1>1. /\ queue[p] = <<>> /\ peer[p].outq = <<>> /\ peer[p].sd = NoSock /\ received[p] = <<>>
      /\ received[Other(p)] = <<>> /\ conns = <<>>
  BY OtherIs DEF Init, NoPeer
<1>2. SendAt(p)
  BY <1>0, <1>1 DEF SendAt, Has, QueueOrder, OutOrder
<1>3. SentAt(p)
  BY <1>0, <1>1 DEF SentAt, IsSent
<1>4. StreamAt(p)
  BY <1>0, <1>1 DEF StreamAt, Rising
<1> QED
  BY <1>2, <1>3, <1>4

LEMMA NextOrder == ConnInv /\ OrderInv /\ [Next]_vars => OrderInv'
<1> SUFFICES ASSUME ConnInv, OrderInv, [Next]_vars PROVE OrderInv'
  OBVIOUS
<1>0. TypeOK /\ TypeOK'
  BY NextConn DEF ConnInv
<1>1. ASSUME NEW p \in Proc, UserSend(p) PROVE OrderInv'
  BY <1>0, <1>1, UserSendOrder
<1>2. ASSUME NEW p \in Proc, Poll(p) PROVE OrderInv'
  BY <1>0, <1>2, PollOrder
<1>3. ASSUME NEW p \in Proc, Handler(p) PROVE OrderInv'
  <2>1. CASE BaseProcessSend(p) \/ ProcessSetPeer(p) \/ ProcessSend(p)
    BY <2>1, <1>0, SendHandlersOrder
  <2>2. CASE TryConnect(p)
    BY <2>2, <1>0, TryConnectOrder
  <2>3. CASE CompleteConnect(p) \/ WriteMessage(p)
    BY <2>3, <1>0, WriteHandlersOrder
  <2>4. CASE WriteInvalid(p) \/ ReadInvalid(p) \/ ComponentKnows(p) \/ (FailedToConnect(p) /\ ~Aborts(p))
    BY <2>4, <1>0, NothingOrder
  <2>5. CASE ReadConnectAck(p) \/ ReadMessage(p)
    BY <2>5, <1>0, ReadHandlersOrder
  <2>6. CASE Accept(p)
    BY <2>6, <1>0, AcceptOrder
  <2>7. CASE FailedToConnect(p) /\ Aborts(p)
    BY <2>7, <1>0, SocketsOrder
  <2> QED
    BY <1>3, <2>1, <2>2, <2>3, <2>4, <2>5, <2>6, <2>7 DEF Handler
<1>4. ASSUME NEW c \in DOMAIN conns, Establish(c) PROVE OrderInv'
  BY <1>0, <1>4, SocketsOrder
<1>5. CASE UNCHANGED vars
  BY <1>0, <1>5, SocketsOrder
<1> QED
  BY <1>1, <1>2, <1>3, <1>4, <1>5 DEF Next

\* What a member still has to send is behind all that it has written, and what the
\* other can still read is behind all that it has received: from scon_send_nb
\* through the queue of the base, send_queue and the sockets.
THEOREM OrderInvariance == Spec => [](ConnInv /\ OrderInv)
<1>1. Init => ConnInv /\ OrderInv
  BY InitConn, InitOrder
<1>2. ConnInv /\ OrderInv /\ [Next]_vars => (ConnInv /\ OrderInv)'
  BY NextConn, NextOrder
<1> QED
  BY <1>1, <1>2, PTL DEF Spec

\* No message that a user sends is posted to the other's base twice
\* (scon_pt2pt_tcp_recv_handler) or after one sent later, however many sockets are
\* tried, refused, reset or given up, and whoever has a thread of its own.
THEOREM NeverTwiceAlways == Spec => []NeverTwice
<1>1. OrderInv => NeverTwice
  BY DEF OrderInv, StreamAt, Rising, NeverTwice
<1> QED
  BY <1>1, OrderInvariance, PTL
=============================================================================
