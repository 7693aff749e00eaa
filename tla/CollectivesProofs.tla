-------------------------- MODULE CollectivesProofs --------------------------
(***************************************************************************)
(* Proofs about Collectives, for every tree, number of SCONs, rounds and   *)
(* xcasts.                                                                 *)
(*                                                                         *)
(* A member's handlers take messages from their queues and post others; in *)
(* between a message is moved from a queue to a connection to a queue. The *)
(* invariants are about what is on its way from one handler to another, in *)
(* the order it will come: a link. The transport changes no link. The last *)
(* section says the same of the messages of one SCON.                      *)
(***************************************************************************)
EXTENDS Collectives, PickingProofs, FiniteSetTheorems

-----------------------------------------------------------------------------
(* The invariants. *)

\* The ways a message can go: to oneself, to the parent, to the master, to a child.
ToSelf(m) == m.src = m.dst /\ m.tag # "XCAST"
ToParent(m) == m.tag = "DIRECT" /\ m.src # Master /\ m.dst = Parent[m.src]
ToMaster(m) == /\ m.tag = "XCAST" /\ m.dst = Master
               /\ IF m.kind = "user" THEN \E k \in 1..Xcasts : m.buf = {<<m.src, k>>} ELSE m.src = Master
ToChild(m) == m.tag = "XCAST" /\ m.dst # Master /\ m.src = Parent[m.dst]
Routed(m) == ToSelf(m) \/ ToParent(m) \/ ToMaster(m) \/ ToChild(m)

\* Only an xcast goes through others, on its way up.
SendAt(p, m) == Routed(m) /\ (m.src = p \/ (ToMaster(m) /\ p # Master /\ m.src \in Relatives[p]))
CrossAt(a, b, m) == SendAt(a, m) /\ m.dst # a /\ b = NextHop(a, m.dst)
RecvAt(p, m) == Routed(m) /\ m.dst = p

\* An event is on the base where it belongs, a message on its way.
EventAt(p, b, e) ==
    /\ e.op = "recv" => b = pt2pt_evbase(p) /\ RecvAt(p, e.msg)
    /\ e.op = "send" => b = "ev" /\ SendAt(p, e.msg)
    /\ e.op \in {"call", "xcast"} => b = "ev"
EventsAt(p, b) == {e \in Events : EventAt(p, b, e)}
MessagesAt(a, b) == {m \in Messages : CrossAt(a, b, m)}
RouteInv ==
    /\ \A p \in Proc, b \in Base : queue[p][b] \in Seq(EventsAt(p, b))
    /\ \A a, b \in Proc : channel[a][b] \in Seq(MessagesAt(a, b))

\* What a function of messages gives for those that p has received, has sent,
\* are on the connection, and for what is on its way to oneself or to another.
OnRecv(f) == [e \in {Recv(m) : m \in DOMAIN f} |-> f[e.msg]]
OnSend(f) == [e \in {Send(m) : m \in DOMAIN f} |-> f[e.msg]]
Arriving(p, f) == Drawn(queue[p][pt2pt_evbase(p)], OnRecv(f))
Leaving(p, f) == Drawn(queue[p]["ev"], OnSend(f))
Across(a, b, f) == Drawn(channel[a][b], f)
Self(p, f) == Arriving(p, f) \o Leaving(p, f)
Link(a, b, f) == (Arriving(b, f) \o Across(a, b, f)) \o Leaving(a, f)

\* The xcasts on their way from a parent, and from a member to its user.
IdOf(m) == CHOOSE id \in m.buf : TRUE
Copies(src, dst, tag) == [m \in {Msg(src, dst, tag, "user", NoSig, {id}) : id \in Ids} |-> IdOf(m)]
Relay(c) == Copies(Parent[c], c, "XCAST")
Posted(p) == Copies(p, p, "USER")
Seen(p) == delivered[p] \o Self(p, Posted(p))

\* Parent and child see the same xcasts; the child has still to see what is on
\* its way.
DownInv == \A c \in 1..(N - 1) : Seen(Parent[c]) = Seen(c) \o Link(Parent[c], c, Relay(c))

\* The numbers of the xcasts of q on their way up: at the master, at a member
\* and on the connection to its parent, not yet processed at q (stop N).
Entering(q) == [m \in {Msg(q, Master, "XCAST", "user", NoSig, {<<q, k>>}) : k \in 1..Xcasts}
                    |-> IdOf(m)[2]]
Asked == [e \in {[op |-> "xcast", number |-> k] : k \in 1..Xcasts} |-> e.number]
Stop(x, q) == IF x = N THEN Drawn(queue[q]["ev"], Asked)
              ELSE IF x = Master THEN Self(Master, Entering(q))
              ELSE Across(x, Parent[x], Entering(q)) \o Leaving(x, Entering(q))
Stops(q) == [x \in 0..N |-> Stop(x, q)]
Ahead(x, y) == IF y = N THEN x # N ELSE x # N /\ y \in Relatives[x]
Past(q) == {k \in 1..Xcasts : \E j \in DOMAIN Seen(Master) : Seen(Master)[j] = <<q, k>>}

Ascending(s) == \A i, j \in DOMAIN s : i < j => s[i] < s[j]
Before(s, t) == \A i \in DOMAIN s, j \in DOMAIN t : s[i] < t[j]
Has(s, k) == \E i \in DOMAIN s : s[i] = k

\* They are numbered in the order they come to the master, none is missing.
Lined(st, n, past) ==
    /\ \A x \in 0..N : Ascending(st[x])
    /\ \A x, y \in 0..N : Ahead(x, y) => Before(st[x], st[y])
    /\ \A x \in 0..N : \A i \in DOMAIN st[x] : st[x][i] <= n /\ \A k \in past : k < st[x][i]
    /\ \A k \in past : k <= n
    /\ \A k \in 1..n : k \in past \/ \E x \in 0..N : Has(st[x], k)
UpInv == \A q \in Proc : Lined(Stops(q), nxcasts[q], Past(q))

\* Each comes once, after those that its origin sent before.
InOrder(s) == \A i \in DOMAIN s :
    LET before == {s[j] : j \in 1..(i - 1)}
    IN s[i] \notin before /\ \A k \in 1..(s[i][2] - 1) : <<s[i][1], k>> \in before

XcastInv == TypeOK /\ RouteInv /\ DownInv /\ UpInv /\ InOrder(Seen(Master))

-----------------------------------------------------------------------------
(* The tree. *)

LEMMA TreeFacts ==
    /\ N \in Nat \ {0} /\ Master \in Proc /\ Master = 0 /\ Proc = 0..(N - 1)
    /\ \A p \in Proc : p \in Nat /\ p # N /\ (p # Master => p \in 1..(N - 1))
    /\ \A c \in 1..(N - 1) : /\ c \in Proc /\ c # Master /\ c \in Nat
                             /\ Parent[c] \in Proc /\ Parent[c] # c /\ c \in Children(Parent[c])
    /\ \A p \in Proc : \A c \in Children(p) : c \in 1..(N - 1) /\ Parent[c] = p
    /\ "ev" \in Base /\ "pt" \in Base /\ \A p \in Proc : pt2pt_evbase(p) \in Base
<1>1. N \in Nat \ {0}
  BY NAssumption
<1>2. \A c \in 1..(N - 1) : c \in Proc /\ Parent[c] \in Proc /\ Parent[c] # c
  <2> SUFFICES ASSUME NEW c \in 1..(N - 1) PROVE c \in Proc /\ Parent[c] \in Proc /\ Parent[c] # c
    OBVIOUS
  <2>1. Parent[c] \in Proc /\ Parent[c] < c
    BY ParentAssumption
  <2> QED
    BY <1>1, <2>1 DEF Proc
<1> QED
  BY <1>1, <1>2 DEF Proc, Master, Children, Base, pt2pt_evbase

\* Who is below whom.
LEMMA BelowFacts ==
    /\ \A p \in Proc : /\ Relatives[p] \subseteq 1..(N - 1) /\ p \notin Relatives[p]
                       /\ \A r \in Relatives[p] : r > p /\ Parent[r] \in {p} \cup Relatives[p]
    /\ \A p \in Proc : \A c \in Children(p) : c \in Relatives[p] /\ Relatives[c] \subseteq Relatives[p]
    /\ \A p \in Proc : \A r \in Relatives[p] : \E c \in Children(p) : r \in {c} \cup Relatives[c]
    /\ \A c \in 1..(N - 1) : c \in Relatives[Master]
<1>1. ASSUME NEW p \in Proc
      PROVE  /\ Relatives[p] \subseteq 1..(N - 1) /\ p \notin Relatives[p]
             /\ \A r \in Relatives[p] : r > p /\ Parent[r] \in {p} \cup Relatives[p]
  <2>1. Relatives[p] \subseteq Proc /\ \A r \in Relatives[p] : r > p /\ Parent[r] \in {p} \cup Relatives[p]
    BY TreeAssumption
  <2>2. p \in Nat /\ \A r \in Proc : r > p => r \in 1..(N - 1) /\ r # p
    BY TreeFacts
  <2>3. \A r \in Relatives[p] : r \in 1..(N - 1) /\ r # p
    BY <2>1, <2>2
  <2> QED
    BY <2>1, <2>3
<1>2. ASSUME NEW p \in Proc
      PROVE  /\ \A c \in Children(p) : c \in Relatives[p] /\ Relatives[c] \subseteq Relatives[p]
             /\ \A r \in Relatives[p] : \E c \in Children(p) : r \in {c} \cup Relatives[c]
  <2>1. Relatives[p] = UNION {{c} \cup Relatives[c] : c \in Children(p)}
    BY TreeAssumption
  <2> QED
    BY <2>1
<1>3. \A c \in 1..(N - 1) : c \in Relatives[Master]
  <2>1. Relatives[Master] = Proc \ {Master}
    BY TreeAssumption
  <2> QED
    BY <2>1, TreeFacts
<1> QED
  BY <1>1, <1>2, <1>3

\* A message goes down to a child, and up when its goal is not below.
LEMMA HopDown == \A c \in 1..(N - 1) : NextHop(Parent[c], c) = c
<1> TAKE c \in 1..(N - 1)
<1> DEFINE p == Parent[c]
           under == {d \in Children(p) : c = d \/ c \in Relatives[d]}
<1>1. p \in Proc /\ c \in Children(p)
  BY TreeFacts
<1>2. \A d \in Children(p) : d # c => ({c} \cup Relatives[c]) \cap ({d} \cup Relatives[d]) = {}
  BY <1>1, TreeAssumption
<1>3. under = {c}
  BY <1>1, <1>2
<1>4. NextHop(p, c) = IF under = {} THEN Parent[p] ELSE CHOOSE d \in under : TRUE
  BY DEF NextHop
<1> HIDE DEF under, p
<1>5. NextHop(p, c) = c
  BY <1>3, <1>4
<1> QED
  BY <1>5 DEF p

LEMMA HopUp == \A p \in 1..(N - 1) : \A dst : dst \notin Relatives[p] => NextHop(p, dst) = Parent[p]
<1> TAKE p \in 1..(N - 1)
<1> TAKE dst
<1> HAVE dst \notin Relatives[p]
<1> DEFINE under == {d \in Children(p) : dst = d \/ dst \in Relatives[d]}
<1>1. under = {}
  BY TreeFacts, BelowFacts
<1>2. NextHop(p, dst) = IF under = {} THEN Parent[p] ELSE CHOOSE d \in under : TRUE
  BY DEF NextHop
<1> HIDE DEF under
<1> QED
  BY <1>1, <1>2

\* Who has its parent at or below p is below p, and so on down.
LEMMA BelowDown ==
    /\ \A p \in Proc : \A x \in 1..(N - 1) : Parent[x] \in {p} \cup Relatives[p] => x \in Relatives[p]
    /\ \A p \in Proc : \A y \in Relatives[p] : Relatives[y] \subseteq Relatives[p]
<1>1. \A p \in Proc : \A x \in 1..(N - 1) : Parent[x] \in {p} \cup Relatives[p] => x \in Relatives[p]
  <2> DEFINE Good(p) == \A x \in 1..(N - 1) : Parent[x] \in {p} \cup Relatives[p] => x \in Relatives[p]
             Bad == {k \in Nat : \E p \in Proc : k = N - p /\ ~Good(p)}
  <2> SUFFICES ASSUME Bad # {} PROVE FALSE
    <3> SUFFICES ASSUME NEW p \in Proc, ~Good(p) PROVE Bad # {}
      OBVIOUS
    <3>1. N - p \in Nat
      BY TreeFacts
    <3>2. N - p \in Bad
      BY <3>1
    <3> QED
      BY <3>2
  <2>1. PICK k \in Bad : \A l \in Bad : k <= l
    <3> Bad \in SUBSET Nat
      OBVIOUS
    <3> HIDE DEF Bad
    <3> QED
      BY Least
  <2>2. PICK p \in Proc : k = N - p /\ ~Good(p)
    BY <2>1
  <2>3. PICK x \in 1..(N - 1) : Parent[x] \in {p} \cup Relatives[p] /\ x \notin Relatives[p]
    BY <2>2
  <2>4. Parent[x] # p
    <3>1. ASSUME Parent[x] = p PROVE FALSE
      <4>1. x \in Children(p)
        BY <3>1, TreeFacts
      <4> QED
        BY <4>1, <2>3, BelowFacts
    <3> QED
      BY <3>1
  <2>5. PICK c \in Children(p) : Parent[x] \in {c} \cup Relatives[c]
    BY <2>3, <2>4, BelowFacts
  <2>6. c \in Proc /\ c > p /\ Relatives[c] \subseteq Relatives[p]
    BY TreeFacts, BelowFacts
  <2>7. Good(c)
    <3>1. N - c \in Nat /\ ~(k <= N - c)
      BY SMTT(60), <2>2, <2>6, TreeFacts
    <3>2. N - c \notin Bad
      <4> HIDE DEF Bad
      <4> QED
        BY <2>1, <3>1
    <3> HIDE DEF Good
    <3> QED
      BY <3>1, <3>2, <2>6
  <2> QED
    BY <2>3, <2>5, <2>6, <2>7
<1>2. ASSUME NEW p \in Proc, NEW y \in Relatives[p] PROVE Relatives[y] \subseteq Relatives[p]
  <2> DEFINE Bad == Relatives[y] \ Relatives[p]
  <2> SUFFICES ASSUME Bad # {} PROVE FALSE
    OBVIOUS
  <2>1. y \in Proc /\ y \in Nat
    BY BelowFacts, TreeFacts
  <2>2. Bad \in SUBSET Nat
    BY <2>1, BelowFacts, TreeFacts
  <2>3. PICK z \in Bad : \A l \in Bad : z <= l
    <3> HIDE DEF Bad
    <3> QED
      BY <2>2, Least
  <2>4. z \in 1..(N - 1) /\ Parent[z] \in {y} \cup Relatives[y] /\ z \notin Relatives[p] /\ z \in Nat
    BY <2>1, <2>3, BelowFacts, TreeFacts
  <2>5. Parent[z] \in Nat /\ Parent[z] < z
    BY <2>4, ParentAssumption, TreeFacts
  <2>6. Parent[z] \in Relatives[p]
    <3>1. ~(z <= Parent[z])
      BY <2>4, <2>5
    <3>2. Parent[z] \notin Bad
      <4> HIDE DEF Bad
      <4> QED
        BY <2>3, <3>1
    <3> QED
      BY <3>2, <2>4
  <2> QED
    BY <1>1, <2>4, <2>6
<1> QED
  BY <1>1, <1>2

\* Nobody is below two members of which neither is below the other.
LEMMA OneWayUp ==
    ASSUME NEW p \in Proc, NEW c \in Children(p), NEW y \in Relatives[p], NEW q,
           q \in {c} \cup Relatives[c], q \in {y} \cup Relatives[y]
    PROVE  y = c \/ y \in Relatives[c]
<1>1. PICK d \in Children(p) : y \in {d} \cup Relatives[d]
  BY BelowFacts
<1>2. d \in Proc
  BY TreeFacts
<1>3. q \in {d} \cup Relatives[d]
  BY <1>1, <1>2, BelowDown
<1>4. d # c => ({c} \cup Relatives[c]) \cap ({d} \cup Relatives[d]) = {}
  BY TreeAssumption
<1> QED
  BY <1>1, <1>3, <1>4

-----------------------------------------------------------------------------
(* Events and queues. *)

Only(x, y, s) == IF x = y THEN s ELSE <<>>

\* The types of what is posted.
LEMMA EventTypes ==
    /\ \A m \in Messages : Send(m) \in Events /\ Recv(m) \in Events
    /\ \A m : /\ Send(m).op = "send" /\ Send(m).msg = m /\ Recv(m).op = "recv" /\ Recv(m).msg = m
    /\ \A e \in Events : e.op \in {"send", "recv", "call", "xcast"}
    /\ \A e \in Events : e.op \in {"send", "recv"} => e.msg \in Messages
    /\ \A e \in Events : e.op = "send" => e = Send(e.msg)
    /\ \A e \in Events : e.op = "recv" => e = Recv(e.msg)
    /\ \A e \in Events : e.op = "call" => e.scon \in Scons /\ e.round \in 1..Rounds
    /\ \A e \in Events : e.op = "xcast" => e.number \in 1..Xcasts /\ e = [op |-> "xcast", number |-> e.number]
<1>1. \A m \in Messages : Send(m) \in Events /\ Recv(m) \in Events
  BY DEF Events, Send, Recv
<1>2. \A m : Send(m).op = "send" /\ Send(m).msg = m /\ Recv(m).op = "recv" /\ Recv(m).msg = m
  BY DEF Send, Recv
<1>3. ASSUME NEW e \in Events
      PROVE  /\ e.op \in {"send", "recv", "call", "xcast"}
             /\ e.op \in {"send", "recv"} => e.msg \in Messages
             /\ e.op = "send" => e = Send(e.msg)
             /\ e.op = "recv" => e = Recv(e.msg)
             /\ e.op = "call" => e.scon \in Scons /\ e.round \in 1..Rounds
             /\ e.op = "xcast" => e.number \in 1..Xcasts /\ e = [op |-> "xcast", number |-> e.number]
  <2>1. CASE e \in [op : {"send", "recv"}, msg : Messages]
    BY <2>1 DEF Send, Recv
  <2>2. CASE e \in [op : {"call"}, scon : Scons, round : 1..Rounds]
    BY <2>2
  <2>3. CASE e \in [op : {"xcast"}, number : 1..Xcasts]
    BY <2>3
  <2> QED
    BY <2>1, <2>2, <2>3 DEF Events
<1> QED
  BY <1>1, <1>2, <1>3

\* The fields of a message, and the types of the two kinds.
LEMMA MsgFields ==
    \A p, q, tag, kind, sig, buf :
        LET m == Msg(p, q, tag, kind, sig, buf)
        IN m.src = p /\ m.dst = q /\ m.tag = tag /\ m.kind = kind /\ m.sig = sig /\ m.buf = buf
BY DEF Msg

LEMMA MsgTypes ==
    /\ \A p, q \in Proc, tag \in {"DIRECT", "XCAST", "RELEASE"}, kind \in Kinds, sig \in Sigs, buf \in Contents :
          Msg(p, q, tag, kind, sig, buf) \in CollMessages
    /\ \A p, q \in Proc, tag \in {"XCAST", "USER"}, id \in Ids :
          Msg(p, q, tag, "user", NoSig, {id}) \in UserMessages
    /\ \A m \in Messages : /\ m.src \in Proc /\ m.dst \in Proc
                           /\ m = Msg(m.src, m.dst, m.tag, m.kind, m.sig, m.buf)
                           /\ m.kind = "user" <=> m \in UserMessages
                           /\ m.kind # "user" <=> m \in CollMessages
                           /\ m.tag \in {"DIRECT", "RELEASE"} => m \in CollMessages
                           /\ m.tag = "USER" => m \in UserMessages
    /\ \A m \in CollMessages : m \in Messages /\ m.kind \in Kinds /\ m.sig \in Sigs /\ m.buf \in Contents
                                  /\ m.tag \in {"DIRECT", "XCAST", "RELEASE"}
    /\ \A m \in UserMessages : /\ m \in Messages /\ m.sig = NoSig /\ m.tag \in {"XCAST", "USER"}
                               /\ m.kind = "user" /\ \E id \in Ids : m.buf = {id}
<1>1. /\ \A p, q \in Proc, tag \in {"DIRECT", "XCAST", "RELEASE"}, kind \in Kinds, sig \in Sigs, buf \in Contents :
            Msg(p, q, tag, kind, sig, buf) \in CollMessages
      /\ \A p, q \in Proc, tag \in {"XCAST", "USER"}, id \in Ids :
            Msg(p, q, tag, "user", NoSig, {id}) \in UserMessages
  BY DEF Msg, CollMessages, UserMessages
<1>2. ASSUME NEW m \in CollMessages
      PROVE  /\ m \in Messages /\ m.kind \in Kinds /\ m.sig \in Sigs /\ m.buf \in Contents
             /\ m.tag \in {"DIRECT", "XCAST", "RELEASE"} /\ m.kind # "user" /\ m.src \in Proc /\ m.dst \in Proc
             /\ m = Msg(m.src, m.dst, m.tag, m.kind, m.sig, m.buf) /\ m.tag # "USER"
  <2> HIDE DEF Sigs, Contents, Proc
  <2> QED
    BY DEF CollMessages, Messages, Msg, Kinds
<1>3. ASSUME NEW m \in UserMessages
      PROVE  /\ m \in Messages /\ m.sig = NoSig /\ m.tag \in {"XCAST", "USER"} /\ m.kind = "user"
             /\ \E id \in Ids : m.buf = {id}
             /\ m.src \in Proc /\ m.dst \in Proc
             /\ m = Msg(m.src, m.dst, m.tag, m.kind, m.sig, m.buf) /\ m.tag \notin {"DIRECT", "RELEASE"}
  BY DEF UserMessages, Messages, Msg
<1>4. \A m \in Messages : m \in CollMessages \/ m \in UserMessages
  BY DEF Messages
<1> QED
  BY <1>1, <1>2, <1>3, <1>4

\* What a handler does to the queues.
LEMMA HandledIs ==
    ASSUME queue \in [Proc -> [Base -> Seq(Events)]], draining \in [Proc -> BOOLEAN],
           NEW p \in Proc, NEW b \in Base, queue[p][b] # <<>>,
           NEW evs \in Seq(Events), NEW pts \in Seq(Events), Handled(p, b, evs, pts)
    PROVE  /\ queue' \in [Proc -> [Base -> Seq(Events)]] /\ draining' \in [Proc -> BOOLEAN]
           /\ \A r \in Proc \ {p} : queue'[r] = queue[r] /\ draining'[r] = draining[r]
           /\ \A x \in Base : queue'[p][x] =
                 ((IF x = b THEN Tail(queue[p][x]) ELSE queue[p][x])
                     \o Only(x, "ev", evs)) \o Only(x, pt2pt_evbase(p), pts)
<1> DEFINE pt == pt2pt_evbase(p)
           q0 == queue[p]
           popped == [q0 EXCEPT ![b] = Tail(q0[b])]
           posted == [popped EXCEPT !["ev"] = popped["ev"] \o evs]
           final == [posted EXCEPT ![pt] = posted[pt] \o pts]
           drained == pt = "ev" /\ final["ev"] # <<>>
<1>1. pt \in Base /\ "ev" \in Base /\ q0 \in [Base -> Seq(Events)]
  BY TreeFacts
<1>2. queue' = [queue EXCEPT ![p] = final] /\ draining' = [draining EXCEPT ![p] = drained]
  BY DEF Handled
<1> HIDE DEF pt
<1>3. popped \in [Base -> Seq(Events)] /\ \A x \in Base : popped[x] = IF x = b THEN Tail(q0[x]) ELSE q0[x]
  <2>1. q0[b] \in Seq(Events) /\ q0[b] # <<>>
    BY <1>1
  <2>2. Tail(q0[b]) \in Seq(Events)
    BY <2>1
  <2> HIDE DEF q0
  <2> QED
    BY <1>1, <2>2
<1> HIDE DEF popped
<1>4. posted \in [Base -> Seq(Events)] /\ \A x \in Base : posted[x] = popped[x] \o Only(x, "ev", evs)
  <2>1. popped["ev"] \o evs \in Seq(Events)
    BY <1>1, <1>3
  <2>2. \A x \in Base : posted[x] = IF x = "ev" THEN popped["ev"] \o evs ELSE popped[x]
    BY <1>1, <1>3
  <2>3. \A x \in Base : popped[x] \o <<>> = popped[x]
    BY <1>3
  <2> QED
    BY <1>1, <1>3, <2>1, <2>2, <2>3 DEF Only
<1> HIDE DEF posted
<1>5. final \in [Base -> Seq(Events)] /\ \A x \in Base : final[x] = posted[x] \o Only(x, pt, pts)
  <2>1. posted[pt] \o pts \in Seq(Events)
    BY <1>1, <1>4
  <2>2. \A x \in Base : final[x] = IF x = pt THEN posted[pt] \o pts ELSE posted[x]
    BY <1>1, <1>4
  <2>3. \A x \in Base : posted[x] \o <<>> = posted[x]
    BY <1>4
  <2> QED
    BY <1>1, <1>4, <2>1, <2>2, <2>3 DEF Only
<1> HIDE DEF final, drained
<1>6. queue' \in [Proc -> [Base -> Seq(Events)]] /\ queue'[p] = final /\ \A r \in Proc \ {p} : queue'[r] = queue[r]
  BY <1>2, <1>5
<1>7. drained \in BOOLEAN
  BY DEF drained
<1>8. draining' \in [Proc -> BOOLEAN] /\ \A r \in Proc \ {p} : draining'[r] = draining[r]
  BY <1>2, <1>7
<1>9. ASSUME NEW x \in Base
      PROVE  queue'[p][x] = ((IF x = b THEN Tail(q0[x]) ELSE q0[x]) \o Only(x, "ev", evs)) \o Only(x, pt, pts)
  <2>1. popped[x] = IF x = b THEN Tail(q0[x]) ELSE q0[x]
    BY <1>3
  <2>2. posted[x] = popped[x] \o Only(x, "ev", evs)
    BY <1>4
  <2>3. queue'[p][x] = posted[x] \o Only(x, pt, pts)
    BY <1>5, <1>6
  <2> QED
    BY <2>1, <2>2, <2>3
<1> QED
  BY <1>6, <1>8, <1>9 DEF pt, q0

\* What an activation and a delivery do to them.
LEMMA ActivateIs ==
    ASSUME queue \in [Proc -> [Base -> Seq(Events)]], NEW p \in Proc, NEW e \in Events, Activate(p, e)
    PROVE  /\ queue' \in [Proc -> [Base -> Seq(Events)]]
           /\ \A r \in Proc, x \in Base : queue'[r][x] =
                 IF r = p /\ x = "ev" THEN Append(queue[r][x], e) ELSE queue[r][x]
<1>1. "ev" \in Base /\ queue[p]["ev"] \in Seq(Events)
  BY TreeFacts
<1>2. Append(queue[p]["ev"], e) \in Seq(Events)
  BY <1>1
<1> QED
  BY <1>1, <1>2 DEF Activate

\* A sequence without its head.
LEMMA TailIs ==
    ASSUME NEW T, NEW s \in Seq(T), s # <<>>
    PROVE  /\ Head(s) \in T /\ Head(s) = s[1] /\ Tail(s) \in Seq(T)
           /\ DOMAIN s = 1..Len(s) /\ DOMAIN Tail(s) = 1..Len(Tail(s)) /\ 1 \in DOMAIN s
           /\ \A i \in DOMAIN Tail(s) : i + 1 \in DOMAIN s /\ Tail(s)[i] = s[i + 1]
  OBVIOUS

-----------------------------------------------------------------------------
(* What the steps do to what is on its way. *)

\* An event counts as received or as sent with its message, or not at all.
LEMMA PartFacts ==
    ASSUME NEW f, NEW S, Values(f, S)
    PROVE  /\ Values(OnRecv(f), S) /\ Values(OnSend(f), S)
           /\ \A m : /\ Part(Recv(m), OnRecv(f)) = Part(m, f) /\ Part(Send(m), OnSend(f)) = Part(m, f)
                     /\ Part(m, f) \in Seq(S)
           /\ \A e : /\ e.op # "recv" => e \notin DOMAIN OnRecv(f) /\ Part(e, OnRecv(f)) = <<>>
                     /\ e.op # "send" => e \notin DOMAIN OnSend(f) /\ Part(e, OnSend(f)) = <<>>
<1>1. /\ DOMAIN OnRecv(f) = {Recv(m) : m \in DOMAIN f}
      /\ DOMAIN OnSend(f) = {Send(m) : m \in DOMAIN f}
      /\ \A m \in DOMAIN f : OnRecv(f)[Recv(m)] = f[m] /\ OnSend(f)[Send(m)] = f[m]
  BY DEF OnRecv, OnSend, Recv, Send
<1>2. \A m : (Recv(m) \in DOMAIN OnRecv(f) <=> m \in DOMAIN f) /\ (Send(m) \in DOMAIN OnSend(f) <=> m \in DOMAIN f)
  BY <1>1 DEF Recv, Send
<1>3. \A e : (e \in DOMAIN OnRecv(f) => e.op = "recv") /\ (e \in DOMAIN OnSend(f) => e.op = "send")
  BY <1>1 DEF Recv, Send
<1>4. Values(OnRecv(f), S) /\ Values(OnSend(f), S)
  BY <1>1 DEF Values
<1>5. \A m : Part(m, f) \in Seq(S)
  BY DEF Part, Values
<1>6. \A m : Part(Recv(m), OnRecv(f)) = Part(m, f) /\ Part(Send(m), OnSend(f)) = Part(m, f)
  BY <1>1, <1>2 DEF Part
<1>7. \A e : /\ e.op # "recv" => e \notin DOMAIN OnRecv(f) /\ Part(e, OnRecv(f)) = <<>>
             /\ e.op # "send" => e \notin DOMAIN OnSend(f) /\ Part(e, OnSend(f)) = <<>>
  BY <1>3 DEF Part
<1> QED
  BY <1>4, <1>5, <1>6, <1>7

\* All that is drawn are sequences.
LEMMA LinkTypes ==
    ASSUME TypeOK, NEW f, NEW S, Values(f, S)
    PROVE  /\ \A p \in Proc : Arriving(p, f) \in Seq(S) /\ Leaving(p, f) \in Seq(S)
           /\ \A a, b \in Proc : Across(a, b, f) \in Seq(S)
<1>1. ASSUME NEW p \in Proc PROVE Arriving(p, f) \in Seq(S) /\ Leaving(p, f) \in Seq(S)
  <2>0. "ev" \in Base /\ pt2pt_evbase(p) \in Base
    BY TreeFacts
  <2>1. queue[p]["ev"] \in Seq(Events) /\ queue[p][pt2pt_evbase(p)] \in Seq(Events)
    BY <2>0 DEF TypeOK
  <2>2. Values(OnRecv(f), S) /\ Values(OnSend(f), S)
    BY PartFacts
  <2> QED
    BY <2>1, <2>2, DrawnType DEF Arriving, Leaving
<1>2. ASSUME NEW a \in Proc, NEW b \in Proc PROVE Across(a, b, f) \in Seq(S)
  <2>1. channel[a][b] \in Seq(Messages)
    BY DEF TypeOK
  <2> QED
    BY <2>1, DrawnType DEF Across
<1> QED
  BY <1>1, <1>2

\* The next event of a base: what is drawn from the base with and without it.
LEMMA NextIs ==
    ASSUME TypeOK, NEW p \in Proc, NEW b \in Base, queue[p][b] # <<>>
    PROVE  /\ NextEvent(p, b) \in Events /\ NextEvent(p, b) = queue[p][b][1] /\ 1 \in DOMAIN queue[p][b]
           /\ queue[p][b] \in Seq(Events) /\ Tail(queue[p][b]) \in Seq(Events)
           /\ \A g, S : Values(g, S) =>
                 /\ Drawn(queue[p][b], g) = Part(NextEvent(p, b), g) \o Drawn(Tail(queue[p][b]), g)
                 /\ Drawn(Tail(queue[p][b]), g) \in Seq(S) /\ Part(NextEvent(p, b), g) \in Seq(S)
<1> DEFINE s == queue[p][b]
<1>1. s \in Seq(Events)
  BY DEF TypeOK
<1>2. s # <<>>
  OBVIOUS
<1> HIDE DEF s
<1>3. Head(s) \in Events /\ Head(s) = s[1] /\ Tail(s) \in Seq(Events) /\ 1 \in DOMAIN s
  BY <1>1, <1>2, TailIs
<1>4. ASSUME NEW g, NEW S, Values(g, S)
      PROVE  /\ Drawn(s, g) = Part(Head(s), g) \o Drawn(Tail(s), g)
             /\ Drawn(Tail(s), g) \in Seq(S) /\ Part(Head(s), g) \in Seq(S)
  <2>1. Part(Head(s), g) \in Seq(S)
    BY <1>4 DEF Part, Values
  <2> QED
    BY <1>1, <1>2, <1>3, <1>4, <2>1, DrawnTail, DrawnType
<1> QED
  BY <1>1, <1>3, <1>4 DEF s, NextEvent

\* It belongs there.
LEMMA NextAt ==
    ASSUME RouteInv, NEW p \in Proc, NEW b \in Base, queue[p][b] # <<>>
    PROVE  NextEvent(p, b) \in Events /\ EventAt(p, b, NextEvent(p, b))
<1> DEFINE s == queue[p][b]
<1>1. s \in Seq(EventsAt(p, b)) /\ s # <<>>
  BY DEF RouteInv
<1>2. NextEvent(p, b) = Head(s)
  BY DEF NextEvent
<1> HIDE DEF s
<1>3. Head(s) \in EventsAt(p, b)
  BY <1>1
<1> QED
  BY <1>2, <1>3 DEF EventsAt

\* The function is defined only for events of base x.
Placed(p, b, evs, pts, x, g) ==
    /\ x # b => Part(NextEvent(p, b), g) = <<>>
    /\ x # "ev" => Drawn(evs, g) = <<>>
    /\ x # pt2pt_evbase(p) => Drawn(pts, g) = <<>>

\* The first leave at the front, two others come at the end.
Turned(old, first, new, last1, last2, S) == \E mid \in Seq(S) :
    old = first \o mid /\ new = (mid \o last1) \o last2

\* What is drawn from a base, once its next event has been handled.
LEMMA HandledDraws ==
    ASSUME TypeOK, NEW p \in Proc, NEW b \in Base, queue[p][b] # <<>>,
           NEW evs \in Seq(Events), NEW pts \in Seq(Events), Handled(p, b, evs, pts),
           NEW x \in Base, NEW g, NEW S, Values(g, S),
           Placed(p, b, evs, pts, x, g)
    PROVE  /\ Drawn(evs, g) \in Seq(S) /\ Drawn(pts, g) \in Seq(S) /\ Part(NextEvent(p, b), g) \in Seq(S)
           /\ Turned(Drawn(queue[p][x], g), Part(NextEvent(p, b), g),
                     Drawn(queue'[p][x], g), Drawn(evs, g), Drawn(pts, g), S)
<1>0. /\ \A l1, l2 \in Seq(Events) : Drawn(l1 \o l2, g) = Drawn(l1, g) \o Drawn(l2, g)
      /\ \A l \in Seq(Events) : Drawn(l, g) \in Seq(S)
  <2>1. ASSUME NEW l1 \in Seq(Events), NEW l2 \in Seq(Events)
        PROVE  Drawn(l1 \o l2, g) = Drawn(l1, g) \o Drawn(l2, g)
    BY DrawnConcat, SMTT(30)
  <2>2. ASSUME NEW l \in Seq(Events) PROVE Drawn(l, g) \in Seq(S)
    BY DrawnType
  <2> QED
    BY <2>1, <2>2
<1> DEFINE rest == IF x = b THEN Tail(queue[p][x]) ELSE queue[p][x]
           mid == Drawn(rest, g)
           o1 == Only(x, "ev", evs)
           o2 == Only(x, pt2pt_evbase(p), pts)
           first == Part(NextEvent(p, b), g)
<1>1. queue'[p][x] = (rest \o o1) \o o2
  <2>1. queue \in [Proc -> [Base -> Seq(Events)]] /\ draining \in [Proc -> BOOLEAN]
    BY DEF TypeOK
  <2>2. \A y \in Base : queue'[p][y] =
            ((IF y = b THEN Tail(queue[p][y]) ELSE queue[p][y])
                \o Only(y, "ev", evs)) \o Only(y, pt2pt_evbase(p), pts)
    BY <2>1, HandledIs, ZenonT(30)
  <2> QED
    BY <2>2
<1>2. rest \in Seq(Events) /\ o1 \in Seq(Events) /\ o2 \in Seq(Events)
  BY NextIs DEF TypeOK, Only
<1>3. Drawn(evs, g) \in Seq(S) /\ Drawn(pts, g) \in Seq(S) /\ first \in Seq(S)
  BY DrawnType, NextIs
<1>4. Drawn(o1, g) = Drawn(evs, g) /\ Drawn(o2, g) = Drawn(pts, g)
  BY DrawnEmpty DEF Only, Placed
<1>5. (queue[p][x] = rest /\ first = <<>>) \/ x = b
  BY DEF Placed
<1>6. x = b => Drawn(queue[p][x], g) = first \o mid
  BY NextIs
<1> HIDE DEF rest, o1, o2
<1>7. mid \in Seq(S)
  BY <1>2, DrawnType
<1> DEFINE h == rest \o o1
<1>8. rest \in Seq(Events) /\ o1 \in Seq(Events) /\ o2 \in Seq(Events) /\ h \in Seq(Events)
  BY <1>2
<1>12. Drawn(rest \o o1, g) = Drawn(rest, g) \o Drawn(o1, g)
  BY <1>0, <1>8
<1>9. queue'[p][x] = h \o o2 /\ Drawn(h, g) = mid \o Drawn(o1, g)
  BY <1>1, <1>12
<1> HIDE DEF h, mid
<1>10. Drawn(h \o o2, g) = Drawn(h, g) \o Drawn(o2, g)
  BY <1>0, <1>8
<1>11. Drawn(queue[p][x], g) = first \o mid
  <2>1. CASE x = b
    BY <1>6, <2>1
  <2>2. CASE queue[p][x] = rest /\ first = <<>>
    <3>1. Drawn(queue[p][x], g) = mid
      BY <2>2 DEF mid
    <3> HIDE DEF mid, first
    <3>2. <<>> \o mid = mid
      BY <1>7
    <3> QED
      BY <2>2, <3>1, <3>2
  <2> QED
    BY <1>5, <2>1, <2>2
<1> QED
  BY <1>3, <1>4, <1>7, <1>9, <1>10, <1>11 DEF Turned

\* The requests to xcast are not messages, and no other event is one.
LEMMA AskedFacts ==
    /\ Values(Asked, 1..Xcasts)
    /\ \A e : e.op # "xcast" => e \notin DOMAIN Asked /\ Part(e, Asked) = <<>>
    /\ \A k \in 1..Xcasts : Part([op |-> "xcast", number |-> k], Asked) = <<k>>
<1>1. /\ DOMAIN Asked = {[op |-> "xcast", number |-> k] : k \in 1..Xcasts}
      /\ \A e \in DOMAIN Asked : Asked[e] = e.number
  BY DEF Asked
<1>2. \A k \in 1..Xcasts : /\ [op |-> "xcast", number |-> k] \in DOMAIN Asked
                           /\ Asked[[op |-> "xcast", number |-> k]] = k
  BY <1>1
<1>3. \A e \in DOMAIN Asked : e.op = "xcast" /\ Asked[e] \in 1..Xcasts
  BY <1>1
<1> HIDE DEF Asked
<1>4. Values(Asked, 1..Xcasts)
  BY <1>3 DEF Values
<1> QED
  BY <1>2, <1>3, <1>4 DEF Part

\* A handler of an event that is not "send", which posts only sends.
LEMMA PostIs ==
    ASSUME TypeOK, RouteInv, NEW p \in Proc, NEW b \in Base, queue[p][b] # <<>>, NextEvent(p, b).op # "send",
           NEW evs \in Seq(Events), \A i \in DOMAIN evs : evs[i].op = "send", Handled(p, b, evs, <<>>)
    PROVE  /\ \A f, S : Values(f, S) =>
                 /\ Arriving(p, f) = Part(NextEvent(p, b), OnRecv(f)) \o Arriving(p, f)'
                 /\ Leaving(p, f)' = Leaving(p, f) \o Drawn(evs, OnSend(f))
                 /\ Arriving(p, f)' \in Seq(S) /\ Drawn(evs, OnSend(f)) \in Seq(S)
           /\ Drawn(queue[p]["ev"], Asked) = Part(NextEvent(p, b), Asked) \o Drawn(queue[p]["ev"], Asked)'
           /\ \A r \in Proc : r # p => queue'[r] = queue[r]
<1> DEFINE e == NextEvent(p, b)
           pt == pt2pt_evbase(p)
           none == <<>>
<1>1. e \in Events /\ EventAt(p, b, e)
  BY NextAt
<1>2. pt \in Base /\ "ev" \in Base /\ (e.op = "recv" => b = pt) /\ (e.op # "recv" => b = "ev")
  BY <1>1, EventTypes, TreeFacts DEF EventAt
<1>3. none \in Seq(Events) /\ Handled(p, b, evs, none) /\ \A g : Drawn(none, g) = <<>>
  BY DrawnEmpty
<1> HIDE DEF none, pt
<1>7. ASSUME NEW x \in Base, NEW g, NEW S, Values(g, S), Placed(p, b, evs, none, x, g)
      PROVE  /\ Drawn(evs, g) \in Seq(S)
             /\ Turned(Drawn(queue[p][x], g), Part(e, g), Drawn(queue'[p][x], g),
                       Drawn(evs, g), Drawn(none, g), S)
  BY <1>3, <1>7, HandledDraws
<1>4. ASSUME NEW f, NEW S, Values(f, S)
      PROVE  /\ Arriving(p, f) = Part(e, OnRecv(f)) \o Arriving(p, f)'
             /\ Leaving(p, f)' = Leaving(p, f) \o Drawn(evs, OnSend(f))
             /\ Arriving(p, f)' \in Seq(S) /\ Drawn(evs, OnSend(f)) \in Seq(S)
  <2> DEFINE R == OnRecv(f)
             D == OnSend(f)
  <2>1. Values(R, S) /\ Values(D, S) /\ (e.op # "recv" => Part(e, R) = <<>>) /\ Part(e, D) = <<>>
    BY <1>4, PartFacts
  <2>2. \A i \in DOMAIN evs : evs[i] \notin DOMAIN R
    BY <1>4, PartFacts
  <2> HIDE DEF R, D
  <2>3. Drawn(evs, R) = <<>>
    BY <2>2, DrawnNone
  <2>4. \E mid \in Seq(S) : /\ Drawn(queue[p][pt], R) = Part(e, R) \o mid
                            /\ Drawn(queue'[p][pt], R) = (mid \o Drawn(evs, R)) \o Drawn(none, R)
    <3>1. Placed(p, b, evs, none, pt, R)
      BY <1>2, <1>3, <2>1, <2>3 DEF e, Placed
    <3> QED
      BY <1>2, <1>7, <2>1, <3>1 DEF Turned
  <2>5. PICK mid \in Seq(S) : /\ Drawn(queue[p][pt], R) = Part(e, R) \o mid
                              /\ Drawn(queue'[p][pt], R) = (mid \o <<>>) \o <<>>
    BY <1>3, <2>3, <2>4
  <2>6. (mid \o <<>>) \o <<>> = mid
    OBVIOUS
  <2>7. Drawn(evs, D) \in Seq(S) /\ \E old \in Seq(S) :
            /\ Drawn(queue[p]["ev"], D) = Part(e, D) \o old
            /\ Drawn(queue'[p]["ev"], D) = (old \o Drawn(evs, D)) \o Drawn(none, D)
    <3>1. Placed(p, b, evs, none, "ev", D)
      BY <1>3, <2>1 DEF e, Placed
    <3> QED
      BY <1>2, <1>7, <2>1, <3>1 DEF Turned
  <2>8. PICK old \in Seq(S) : /\ Drawn(queue[p]["ev"], D) = <<>> \o old
                              /\ Drawn(queue'[p]["ev"], D) = (old \o Drawn(evs, D)) \o <<>>
    BY <1>3, <2>1, <2>7
  <2> DEFINE d == Drawn(evs, D)
  <2>9. d \in Seq(S)
    BY <2>7
  <2> HIDE DEF d
  <2>10. <<>> \o old = old /\ (old \o d) \o <<>> = old \o d
    BY <2>9
  <2>11. /\ Arriving(p, f) = Drawn(queue[p][pt], R) /\ Arriving(p, f)' = Drawn(queue'[p][pt], R)
         /\ Leaving(p, f) = Drawn(queue[p]["ev"], D) /\ Leaving(p, f)' = Drawn(queue'[p]["ev"], D)
    BY DEF Arriving, Leaving, R, D, pt
  <2> QED
    BY <2>5, <2>6, <2>7, <2>8, <2>10, <2>11 DEF d, R, D
<1>5. Drawn(queue[p]["ev"], Asked) = Part(e, Asked) \o Drawn(queue'[p]["ev"], Asked)
  <2>1. \A i \in DOMAIN evs : evs[i] \notin DOMAIN Asked
    BY AskedFacts
  <2>2. Drawn(evs, Asked) = <<>>
    BY <2>1, DrawnNone
  <2>3. \E mid \in Seq(1..Xcasts) :
            /\ Drawn(queue[p]["ev"], Asked) = Part(e, Asked) \o mid
            /\ Drawn(queue'[p]["ev"], Asked) = (mid \o Drawn(evs, Asked)) \o Drawn(none, Asked)
    <3>1. Placed(p, b, evs, none, "ev", Asked) /\ Values(Asked, 1..Xcasts)
      BY <1>2, <1>3, AskedFacts DEF Placed
    <3> QED
      BY <1>2, <1>7, <3>1 DEF Turned
  <2>4. PICK mid \in Seq(1..Xcasts) :
            /\ Drawn(queue[p]["ev"], Asked) = Part(e, Asked) \o mid
            /\ Drawn(queue'[p]["ev"], Asked) = (mid \o <<>>) \o <<>>
    BY <1>3, <2>2, <2>3
  <2>5. (mid \o <<>>) \o <<>> = mid
    OBVIOUS
  <2> QED
    BY <2>4, <2>5
<1>6. \A r \in Proc : r # p => queue'[r] = queue[r]
  <2>1. queue \in [Proc -> [Base -> Seq(Events)]] /\ draining \in [Proc -> BOOLEAN]
    BY DEF TypeOK
  <2> QED
    BY <2>1, <1>3, HandledIs
<1> QED
  BY <1>4, <1>5, <1>6 DEF Asked

LEMMA SeqSubset == ASSUME NEW A, NEW B, A \subseteq B, NEW s \in Seq(A) PROVE s \in Seq(B)
OBVIOUS

\* Who handles an event leaves every event where it belongs.
LEMMA HandledRoutes ==
    ASSUME TypeOK, RouteInv, NEW p \in Proc, NEW b \in Base, queue[p][b] # <<>>,
           NEW evs \in Seq(EventsAt(p, "ev")), NEW pts \in Seq(EventsAt(p, pt2pt_evbase(p))),
           Handled(p, b, evs, pts)
    PROVE  /\ queue' \in [Proc -> [Base -> Seq(Events)]] /\ draining' \in [Proc -> BOOLEAN]
           /\ \A r \in Proc, x \in Base : queue'[r][x] \in Seq(EventsAt(r, x))
<1>1. evs \in Seq(Events) /\ pts \in Seq(Events)
  <2>1. \A r, x : EventsAt(r, x) \subseteq Events
    BY DEF EventsAt
  <2> QED
    BY <2>1, SeqSubset
<1>2. queue \in [Proc -> [Base -> Seq(Events)]] /\ draining \in [Proc -> BOOLEAN]
  BY DEF TypeOK
<1>3. /\ queue' \in [Proc -> [Base -> Seq(Events)]] /\ draining' \in [Proc -> BOOLEAN]
      /\ \A r \in Proc \ {p} : queue'[r] = queue[r]
      /\ \A x \in Base : queue'[p][x] =
            ((IF x = b THEN Tail(queue[p][x]) ELSE queue[p][x])
                \o Only(x, "ev", evs)) \o Only(x, pt2pt_evbase(p), pts)
  BY <1>1, <1>2, HandledIs, ZenonT(30)
<1>4. ASSUME NEW x \in Base PROVE queue'[p][x] \in Seq(EventsAt(p, x))
  <2> DEFINE rest == IF x = b THEN Tail(queue[p][x]) ELSE queue[p][x]
             o1 == Only(x, "ev", evs)
             o2 == Only(x, pt2pt_evbase(p), pts)
             W == EventsAt(p, x)
  <2>1. queue[p][x] \in Seq(W)
    BY DEF RouteInv
  <2>2. o1 \in Seq(W) /\ o2 \in Seq(W)
    BY DEF Only
  <2>3. queue'[p][x] = (rest \o o1) \o o2
    BY <1>3
  <2>4. rest \in Seq(W)
    <3> HIDE DEF W
    <3> QED
      BY <2>1
  <2> HIDE DEF rest, o1, o2, W
  <2>5. (rest \o o1) \o o2 \in Seq(W)
    BY <2>2, <2>4
  <2> QED
    BY <2>3, <2>5 DEF W
<1>5. ASSUME NEW r \in Proc, NEW x \in Base PROVE queue'[r][x] \in Seq(EventsAt(r, x))
  <2>1. CASE r = p
    BY <1>4, <2>1
  <2>2. CASE r # p
    BY <1>3, <2>2 DEF RouteInv
  <2> QED
    BY <2>1, <2>2
<1> QED
  BY <1>3, <1>5

\* Messages are passed to a member.
LEMMA NextHopType == \A p, dst \in Proc : dst # p => NextHop(p, dst) \in Proc
<1> SUFFICES ASSUME NEW p \in Proc, NEW dst \in Proc, dst # p PROVE NextHop(p, dst) \in Proc
  OBVIOUS
<1> DEFINE under == {c \in Children(p) : dst = c \/ dst \in Relatives[c]}
<1>1. NextHop(p, dst) = IF under = {} THEN Parent[p] ELSE CHOOSE c \in under : TRUE
  BY DEF NextHop
<1>2. \A c \in under : c \in Proc
  BY TreeFacts
<1>3. ASSUME under = {} PROVE Parent[p] \in Proc
  <2>1. ASSUME p = Master PROVE FALSE
    <3>1. dst \in Relatives[p]
      BY <2>1, TreeFacts, BelowFacts
    <3>2. PICK c \in Children(p) : dst \in {c} \cup Relatives[c]
      BY <3>1, BelowFacts
    <3> QED
      BY <1>3, <3>2
  <2> QED
    BY <2>1, TreeFacts
<1> HIDE DEF under
<1> QED
  BY <1>1, <1>2, <1>3

\* The four ways a message m is moved by the transport, and what that does to
\* what f draws: from p's queue to p's receivers, from p's queue to the
\* connection to h, from the connection to p's receivers or to p's queue.
Quiet(f, leaving, arriving, across) ==
    /\ \A r \in Proc : r \notin leaving => Leaving(r, f)' = Leaving(r, f)
    /\ \A r \in Proc : r \notin arriving => Arriving(r, f)' = Arriving(r, f)
    /\ \A a, b \in Proc : <<a, b>> \notin across => Across(a, b, f)' = Across(a, b, f)
Home(p, m, f) ==
    /\ Leaving(p, f) = Part(m, f) \o Leaving(p, f)' /\ Arriving(p, f)' = Arriving(p, f) \o Part(m, f)
    /\ Quiet(f, {p}, {p}, {})
On(p, h, m, f) ==
    /\ Leaving(p, f) = Part(m, f) \o Leaving(p, f)' /\ Across(p, h, f)' = Across(p, h, f) \o Part(m, f)
    /\ Quiet(f, {p}, {}, {<<p, h>>})
In(q, p, m, f) ==
    /\ Across(q, p, f) = Part(m, f) \o Across(q, p, f)' /\ Arriving(p, f)' = Arriving(p, f) \o Part(m, f)
    /\ Quiet(f, {}, {p}, {<<q, p>>})
Through(q, p, m, f) ==
    /\ Across(q, p, f) = Part(m, f) \o Across(q, p, f)' /\ Leaving(p, f)' = Leaving(p, f) \o Part(m, f)
    /\ Quiet(f, {p}, {}, {<<q, p>>})

\* No request to xcast comes or goes.
NoneAsked == \A r \in Proc : Drawn(queue[r]["ev"], Asked)' = Drawn(queue[r]["ev"], Asked)

\* Nothing at the front, nothing at the end.
LEMMA TurnedFacts ==
    ASSUME NEW S, NEW old, NEW new, NEW x \in Seq(S)
    PROVE  /\ Turned(old, x, new, <<>>, <<>>, S) => old = x \o new /\ new \in Seq(S)
           /\ Turned(old, <<>>, new, <<>>, x, S) => new = old \o x /\ old \in Seq(S)
           /\ Turned(old, <<>>, new, x, <<>>, S) => new = old \o x /\ old \in Seq(S)
           /\ Turned(old, <<>>, new, <<>>, <<>>, S) => new = old /\ old \in Seq(S)
<1>1. \A mid \in Seq(S) : /\ <<>> \o mid = mid /\ (mid \o <<>>) \o <<>> = mid
                          /\ (mid \o <<>>) \o x = mid \o x /\ (mid \o x) \o <<>> = mid \o x
  OBVIOUS
<1> QED
  BY <1>1 DEF Turned

LEMMA TurnedSame ==
    ASSUME NEW S, NEW old, NEW new, Turned(old, <<>>, new, <<>>, <<>>, S)
    PROVE  new = old
<1>1. \A mid \in Seq(S) : <<>> \o mid = mid /\ (mid \o <<>>) \o <<>> = mid
  OBVIOUS
<1> QED
  BY <1>1 DEF Turned

\* What comes of the transport's steps: types, routes, and no other event moves.
TypedNext == /\ queue' \in [Proc -> [Base -> Seq(Events)]]
             /\ channel' \in [Proc -> [Proc -> Seq(Messages)]]
TransportOK == TypedNext /\ draining' \in [Proc -> BOOLEAN] /\ RouteInv' /\ NoneAsked

LEMMA SendIs ==
    ASSUME TypeOK, RouteInv, NEW p \in Proc, NEW b \in Base, ProcessSend(p, b)
    PROVE  /\ TransportOK
           /\ \E m \in Messages : /\ SendAt(p, m)
                                  /\ \/ m.dst = p /\ \A f, S : Values(f, S) => Home(p, m, f)
                                     \/ /\ m.dst # p /\ NextHop(p, m.dst) \in Proc
                                        /\ \A f, S : Values(f, S) => On(p, NextHop(p, m.dst), m, f)
<1>1. queue[p][b] # <<>> /\ NextEvent(p, b).op = "send"
  BY DEF ProcessSend, Ready
<1>2. NextEvent(p, b) \in Events /\ EventAt(p, b, NextEvent(p, b))
  BY <1>1, NextAt
<1>3. PICK m \in Messages : NextEvent(p, b) = Send(m) /\ SendAt(p, m) /\ b = "ev"
  BY <1>1, <1>2, EventTypes DEF EventAt
<1> DEFINE e == Send(m)
           pt == pt2pt_evbase(p)
           none == <<>>
           h == NextHop(p, m.dst)
           pts == IF m.dst = p THEN <<Recv(m)>> ELSE <<>>
<1>4. m.dst \in Proc
  BY <1>3, MsgTypes
<1>5. /\ Handled(p, "ev", none, pts)
      /\ m.dst = p => channel' = channel
      /\ m.dst # p => channel' = [channel EXCEPT ![p][h] = Append(channel[p][h], m)]
  BY <1>3, EventTypes DEF ProcessSend
<1>6. pt \in Base /\ "ev" \in Base /\ queue[p]["ev"] # <<>> /\ e = NextEvent(p, "ev")
  BY <1>1, <1>3, TreeFacts
<1>7. none \in Seq(Events) /\ pts \in Seq(Events)
      /\ none \in Seq(EventsAt(p, "ev")) /\ pts \in Seq(EventsAt(p, pt2pt_evbase(p)))
  <2>1. Recv(m) \in EventsAt(p, pt) \/ m.dst # p
    BY <1>3, EventTypes DEF EventsAt, EventAt, RecvAt, SendAt
  <2>2. Recv(m) \in Events
    BY <1>3, EventTypes
  <2> QED
    BY <2>1, <2>2
<1>8. ASSUME NEW g, NEW S, Values(g, S)
      PROVE  Drawn(none, g) = <<>> /\ Drawn(pts, g) = Only(m.dst, p, Part(Recv(m), g))
  <2>1. Recv(m) \in Events
    BY <1>3, EventTypes
  <2> QED
    BY <1>8, <2>1, DrawnEmpty, DrawnUnit DEF Only
<1> HIDE DEF none, pts, e, h, pt
<1>9. ASSUME NEW x \in Base, NEW g, NEW S, Values(g, S), Placed(p, "ev", none, pts, x, g)
      PROVE  /\ Turned(Drawn(queue[p][x], g), Part(e, g), Drawn(queue'[p][x], g),
                       Drawn(none, g), Drawn(pts, g), S)
  <2>1. Turned(Drawn(queue[p][x], g), Part(NextEvent(p, "ev"), g), Drawn(queue'[p][x], g),
               Drawn(none, g), Drawn(pts, g), S)
    BY <1>5, <1>6, <1>7, <1>9, HandledDraws
  <2> QED
    BY <2>1, <1>6
<1>10. /\ queue' \in [Proc -> [Base -> Seq(Events)]] /\ draining' \in [Proc -> BOOLEAN]
       /\ \A r \in Proc, x \in Base : queue'[r][x] \in Seq(EventsAt(r, x))
  BY <1>5, <1>6, <1>7, HandledRoutes
<1>11. \A r \in Proc : r # p => queue'[r] = queue[r]
  <2>1. queue \in [Proc -> [Base -> Seq(Events)]] /\ draining \in [Proc -> BOOLEAN]
    BY DEF TypeOK
  <2> QED
    BY <2>1, <1>5, <1>6, <1>7, HandledIs
<1>12. ASSUME NEW f, NEW S, Values(f, S)
       PROVE  /\ Leaving(p, f) = Part(m, f) \o Leaving(p, f)'
              /\ Arriving(p, f)' = Arriving(p, f) \o Only(m.dst, p, Part(m, f))
              /\ Arriving(p, f) \in Seq(S)
  <2> DEFINE R == OnRecv(f)
             D == OnSend(f)
             got == Part(m, f)
             o == Only(m.dst, p, got)
  <2>1. /\ Values(R, S) /\ Values(D, S) /\ got \in Seq(S)
        /\ Part(Recv(m), R) = got /\ Part(Send(m), D) = got /\ Part(Send(m), R) = <<>> /\ Part(Recv(m), D) = <<>>
    BY <1>12, PartFacts, EventTypes
  <2> HIDE DEF R, D, got
  <2>2. /\ Drawn(none, R) = <<>> /\ Drawn(pts, R) = o /\ Drawn(none, D) = <<>> /\ Drawn(pts, D) = <<>>
        /\ Part(e, R) = <<>> /\ Part(e, D) = got /\ o \in Seq(S)
    BY <1>3, <1>8, <2>1 DEF Only, e
  <2>3. Placed(p, "ev", none, pts, pt, R) /\ Placed(p, "ev", none, pts, "ev", D)
    BY <1>6, <2>2 DEF Placed, pt
  <2>4. Turned(Drawn(queue[p][pt], R), <<>>, Drawn(queue'[p][pt], R), <<>>, o, S)
    BY <1>6, <1>9, <2>1, <2>2, <2>3
  <2>5. Turned(Drawn(queue[p]["ev"], D), got, Drawn(queue'[p]["ev"], D), <<>>, <<>>, S)
    BY <1>6, <1>9, <2>1, <2>2, <2>3
  <2> HIDE DEF o
  <2>6. Drawn(queue'[p][pt], R) = Drawn(queue[p][pt], R) \o o /\ Drawn(queue[p][pt], R) \in Seq(S)
    BY <2>2, <2>4, TurnedFacts
  <2>7. Drawn(queue[p]["ev"], D) = got \o Drawn(queue'[p]["ev"], D)
    BY <2>1, <2>5, TurnedFacts
  <2> QED
    BY <2>6, <2>7 DEF Arriving, Leaving, R, D, pt, got, o
<1>13. NoneAsked
  <2>1. /\ Values(Asked, 1..Xcasts) /\ Drawn(none, Asked) = <<>> /\ Drawn(pts, Asked) = <<>>
        /\ Part(e, Asked) = <<>>
    BY <1>8, AskedFacts, EventTypes DEF Only, e
  <2>2. Placed(p, "ev", none, pts, "ev", Asked)
    BY <2>1 DEF Placed
  <2>3. Turned(Drawn(queue[p]["ev"], Asked), <<>>, Drawn(queue'[p]["ev"], Asked), <<>>, <<>>, 1..Xcasts)
    BY <1>6, <1>9, <2>1, <2>2
  <2>4. Drawn(queue'[p]["ev"], Asked) = Drawn(queue[p]["ev"], Asked)
    BY <2>3, TurnedSame
  <2>5. \A r \in Proc : Drawn(queue'[r]["ev"], Asked) = Drawn(queue[r]["ev"], Asked)
    BY <1>11, <2>4
  <2> QED
    BY <2>5 DEF NoneAsked, Asked
<1>14. m.dst # p => h \in Proc
  BY <1>4, NextHopType DEF h
<1> DEFINE long == Append(channel[p][h], m)
<1>20. channel \in [Proc -> [Proc -> Seq(Messages)]] /\ (m.dst # p => long \in Seq(Messages))
  <2>1. channel \in [Proc -> [Proc -> Seq(Messages)]]
    BY DEF TypeOK
  <2>2. m.dst # p => channel[p][h] \in Seq(Messages)
    BY <1>14, <2>1
  <2> QED
    BY <1>3, <2>1, <2>2
<1>21. m.dst # p => channel' = [channel EXCEPT ![p][h] = long]
  BY <1>5
<1>22. m.dst # p => long \in Seq(MessagesAt(p, h))
  <2>1. m.dst # p => m \in MessagesAt(p, h)
    BY <1>3 DEF MessagesAt, CrossAt, h
  <2>2. m.dst # p => channel[p][h] \in Seq(MessagesAt(p, h))
    BY <1>14 DEF RouteInv
  <2> QED
    BY <2>1, <2>2
<1> HIDE DEF long
<1>15. channel' \in [Proc -> [Proc -> Seq(Messages)]]
  <2>1. CASE m.dst = p
    BY <1>5, <1>20, <2>1
  <2>2. CASE m.dst # p
    <3> DEFINE row == [channel[p] EXCEPT ![h] = long]
    <3>1. channel' = [channel EXCEPT ![p] = row] /\ row \in [Proc -> Seq(Messages)]
      BY <1>20, <1>21, <2>2
    <3> HIDE DEF row
    <3> QED
      BY <1>20, <3>1
  <2> QED
    BY <2>1, <2>2
<1>16. /\ m.dst # p => channel'[p][h] = long
       /\ \A a, c \in Proc : <<a, c>> # <<p, h>> \/ m.dst = p => channel'[a][c] = channel[a][c]
  <2>1. CASE m.dst = p
    BY <1>5, <2>1
  <2>2. CASE m.dst # p
    <3> DEFINE row == [channel[p] EXCEPT ![h] = long]
    <3>1. channel' = [channel EXCEPT ![p] = row] /\ channel[p] \in [Proc -> Seq(Messages)]
      BY <1>20, <1>21, <2>2
    <3>2. row[h] = long /\ \A c \in Proc : c # h => row[c] = channel[p][c]
      BY <1>14, <2>2, <3>1
    <3> HIDE DEF row
    <3>3. channel'[p] = row /\ \A a \in Proc : a # p => channel'[a] = channel[a]
      BY <1>20, <3>1
    <3> QED
      BY <2>2, <3>2, <3>3
  <2> QED
    BY <2>1, <2>2
<1>17. \A a, c \in Proc : channel'[a][c] \in Seq(MessagesAt(a, c))
  <2> TAKE a, c \in Proc
  <2>1. channel[a][c] \in Seq(MessagesAt(a, c))
    BY DEF RouteInv
  <2>2. CASE <<a, c>> # <<p, h>> \/ m.dst = p
    BY <1>16, <2>1, <2>2
  <2>3. CASE a = p /\ c = h /\ m.dst # p
    BY <1>16, <1>22, <2>3
  <2> QED
    BY <2>2, <2>3
<1>18. TransportOK
  BY <1>10, <1>13, <1>15, <1>17 DEF TransportOK, TypedNext, RouteInv, EventsAt, MessagesAt, EventAt, RecvAt, SendAt, CrossAt
<1>19. ASSUME NEW f, NEW S, Values(f, S)
       PROVE  /\ m.dst = p => Home(p, m, f)
              /\ m.dst # p => On(p, h, m, f)
  <2>1. \A r \in Proc : r # p => Arriving(r, f)' = Arriving(r, f) /\ Leaving(r, f)' = Leaving(r, f)
    BY <1>11 DEF Arriving, Leaving
  <2>2. CASE m.dst = p
    <3>1. Arriving(p, f)' = Arriving(p, f) \o Part(m, f)
      BY <1>12, <1>19, <2>2 DEF Only
    <3>2. \A a, c \in Proc : Across(a, c, f)' = Across(a, c, f)
      BY <1>5, <2>2 DEF Across
    <3> QED
      BY <1>12, <1>19, <2>1, <2>2, <3>1, <3>2 DEF Home, Quiet
  <2>3. CASE m.dst # p
    <3>1. Arriving(p, f)' = Arriving(p, f)
      <4> DEFINE old == Arriving(p, f)
      <4>1. Arriving(p, f)' = old \o <<>> /\ old \in Seq(S)
        BY <1>12, <1>19, <2>3 DEF Only
      <4> HIDE DEF old
      <4>2. old \o <<>> = old
        BY <4>1
      <4> QED
        BY <4>1, <4>2 DEF old
    <3>2. \A a, c \in Proc : <<a, c>> \notin {<<p, h>>} => Across(a, c, f)' = Across(a, c, f)
      BY <1>16 DEF Across
    <3>3. Across(p, h, f)' = Across(p, h, f) \o Part(m, f)
      <4>1. channel[p][h] \in Seq(Messages) /\ channel'[p][h] = long
        BY <1>14, <1>16, <2>3 DEF TypeOK
      <4>2. Drawn(Append(channel[p][h], m), f) = Drawn(channel[p][h], f) \o Part(m, f)
        BY <1>3, <1>19, <4>1, DrawnAppend
      <4>3. Drawn(long, f) = Drawn(channel[p][h], f) \o Part(m, f)
        BY <4>2 DEF long
      <4>4. Drawn(channel'[p][h], f) = Drawn(channel[p][h], f) \o Part(m, f)
        BY <4>1, <4>3
      <4> QED
        BY <4>4 DEF Across
    <3> QED
      BY <1>12, <1>19, <2>1, <2>3, <3>1, <3>2, <3>3 DEF On, Quiet
  <2> QED
    BY <2>2, <2>3
<1> QED
  <2>1. /\ m.dst = p => \A f, S : Values(f, S) => Home(p, m, f)
        /\ m.dst # p => NextHop(p, m.dst) \in Proc /\ \A f, S : Values(f, S) => On(p, NextHop(p, m.dst), m, f)
    BY <1>14, <1>19 DEF h
  <2> QED
    BY <1>3, <1>18, <2>1

LEMMA DeliverIs ==
    ASSUME TypeOK, RouteInv, NEW q \in Proc, NEW p \in Proc, Deliver(q, p)
    PROVE  /\ TransportOK
           /\ \E m \in Messages : /\ CrossAt(q, p, m)
                                  /\ \/ m.dst = p /\ \A f, S : Values(f, S) => In(q, p, m, f)
                                     \/ m.dst # p /\ \A f, S : Values(f, S) => Through(q, p, m, f)
<1> DEFINE s == channel[q][p]
           pt == pt2pt_evbase(p)
<1>1. s \in Seq(MessagesAt(q, p)) /\ s \in Seq(Messages) /\ s # <<>>
  BY DEF RouteInv, TypeOK, Deliver
<1>2. /\ channel' = [channel EXCEPT ![q][p] = Tail(s)]
      /\ draining' = draining
      /\ queue' = [queue EXCEPT ![p][pt] =
            Append(queue[p][pt], IF Head(s).dst = p THEN Recv(Head(s)) ELSE Send(Head(s)))]
  BY DEF Deliver
<1>3. Head(s) \in MessagesAt(q, p) /\ Head(s) \in Messages /\ Tail(s) \in Seq(Messages)
      /\ Tail(s) \in Seq(MessagesAt(q, p))
  <2> HIDE DEF s
  <2> QED
    BY <1>1, TailIs
<1>4. PICK m \in Messages : m = Head(s) /\ CrossAt(q, p, m)
  BY <1>3 DEF MessagesAt
<1> DEFINE e == IF m.dst = p THEN Recv(m) ELSE Send(m)
           rest == Tail(s)
           long == Append(queue[p][pt], e)
<1>5. pt \in Base /\ "ev" \in Base /\ queue[p][pt] \in Seq(Events) /\ queue[p][pt] \in Seq(EventsAt(p, pt))
  <2>1. pt \in Base /\ "ev" \in Base
    BY TreeFacts
  <2> QED
    BY <2>1 DEF TypeOK, RouteInv
\* What is passed on is on its way up.
<1>6. m.dst # p => SendAt(p, m) /\ pt = "ev"
  <2> SUFFICES ASSUME m.dst # p PROVE SendAt(p, m) /\ pt = "ev"
    BY SMTT(60)
  <2>1. Routed(m) /\ (m.src = q \/ (ToMaster(m) /\ q # Master /\ m.src \in Relatives[q]))
        /\ m.dst # q /\ p = NextHop(q, m.dst) /\ m.src \in Proc /\ m.dst \in Proc
    BY <1>4, MsgTypes DEF CrossAt, SendAt
  <2>2. ToMaster(m)
    <3>1. CASE ToSelf(m)
      BY <2>1, <3>1 DEF ToSelf, ToMaster
    <3>2. CASE ToParent(m)
      <4>1. m.src = q /\ q # Master /\ m.dst = Parent[q]
        BY <2>1, <3>2 DEF ToParent, ToMaster
      <4>2. q \in 1..(N - 1)
        BY <4>1, TreeFacts
      <4>3. Parent[q] \notin Relatives[q]
        <5>1. Parent[q] < q /\ \A r \in Relatives[q] : r > q
          BY <4>2, ParentAssumption, BelowFacts
        <5>2. Parent[q] \in Nat /\ q \in Nat
          BY <4>2, TreeFacts
        <5> QED
          BY <5>1, <5>2
      <4> QED
        BY <2>1, <4>1, <4>2, <4>3, HopUp
    <3>3. CASE ToChild(m)
      <4>1. m.src = q /\ m.dst \in 1..(N - 1) /\ q = Parent[m.dst]
        BY <2>1, <3>3, TreeFacts DEF ToChild, ToMaster
      <4> QED
        BY <2>1, <4>1, HopDown
    <3> QED
      BY <2>1, <3>1, <3>2, <3>3 DEF Routed
  <2>3. q # Master /\ q \in 1..(N - 1) /\ m.dst = Master
    BY <2>1, <2>2, TreeFacts DEF ToMaster
  <2>4. p = Parent[q]
    BY <2>1, <2>3, HopUp, BelowFacts, TreeFacts
  <2>5. q \in Relatives[p] /\ p # Master
    BY <2>3, <2>4, TreeFacts, BelowFacts
  <2>6. m.src \in Relatives[p]
    BY <2>1, <2>2, <2>3, <2>5, BelowDown
  <2> QED
    BY <2>1, <2>2, <2>5, <2>6 DEF SendAt, pt2pt_evbase
<1>7. EventAt(p, pt, e) /\ e \in Events
  <2>1. Routed(m)
    BY <1>4 DEF CrossAt, SendAt
  <2>2. CASE m.dst = p
    BY <1>4, <2>1, <2>2, EventTypes DEF EventAt, RecvAt
  <2>3. CASE m.dst # p
    BY <1>4, <1>6, <2>3, EventTypes DEF EventAt
  <2> QED
    BY SMTT(60), <2>2, <2>3
<1>8. long \in Seq(Events) /\ long \in Seq(EventsAt(p, pt))
  <2>1. e \in EventsAt(p, pt)
    BY <1>7 DEF EventsAt
  <2> HIDE DEF e
  <2> QED
    BY <1>5, <1>7, <2>1
<1>9. channel' = [channel EXCEPT ![q][p] = rest] /\ rest \in Seq(Messages) /\ rest \in Seq(MessagesAt(q, p))
      /\ queue' = [queue EXCEPT ![p][pt] = long]
  BY SMTT(60), <1>2, <1>3, <1>4
<1>10. ASSUME NEW g, NEW S, Values(g, S)
       PROVE  /\ Drawn(long, g) = Drawn(queue[p][pt], g) \o Part(e, g)
              /\ Drawn(queue[p][pt], g) \in Seq(S)
              /\ Drawn(channel[q][p], g) = Part(m, g) \o Drawn(rest, g)
  <2>1. Drawn(long, g) = Drawn(queue[p][pt], g) \o Part(e, g)
    <3>1. e \in Events /\ queue[p][pt] \in Seq(Events)
      BY <1>5, <1>7
    <3> HIDE DEF e
    <3> QED
      BY <1>10, <3>1, DrawnAppend
  <2>2. Drawn(queue[p][pt], g) \in Seq(S)
    BY <1>5, <1>10, DrawnType
  <2>3. Drawn(s, g) = Part(Head(s), g) \o Drawn(Tail(s), g)
    <3> HIDE DEF s
    <3> QED
      BY <1>1, <1>10, DrawnTail
  <2> QED
    BY <1>4, <2>1, <2>2, <2>3
<1> HIDE DEF s, e, rest, long, pt
<1>11. /\ channel' \in [Proc -> [Proc -> Seq(Messages)]] /\ channel'[q][p] = rest
       /\ \A a, c \in Proc : <<a, c>> # <<q, p>> => channel'[a][c] = channel[a][c]
  <2>1. channel \in [Proc -> [Proc -> Seq(Messages)]]
    BY DEF TypeOK
  <2> QED
    BY <1>9, <2>1
<1>12. /\ queue' \in [Proc -> [Base -> Seq(Events)]] /\ queue'[p][pt] = long
       /\ \A r \in Proc, x \in Base : <<r, x>> # <<p, pt>> => queue'[r][x] = queue[r][x]
  <2>1. queue \in [Proc -> [Base -> Seq(Events)]]
    BY DEF TypeOK
  <2> QED
    BY <1>5, <1>8, <1>9, <2>1
<1>13. /\ \A r \in Proc, x \in Base : queue'[r][x] \in Seq(EventsAt(r, x))
       /\ \A a, c \in Proc : channel'[a][c] \in Seq(MessagesAt(a, c))
  <2>1. /\ \A r \in Proc, x \in Base : queue[r][x] \in Seq(EventsAt(r, x))
        /\ \A a, c \in Proc : channel[a][c] \in Seq(MessagesAt(a, c))
    BY DEF RouteInv
  <2>2. ASSUME NEW r \in Proc, NEW x \in Base PROVE queue'[r][x] \in Seq(EventsAt(r, x))
    <3>1. CASE <<r, x>> = <<p, pt>>
      BY <1>8, <1>12, <3>1
    <3>2. CASE <<r, x>> # <<p, pt>>
      BY <1>12, <2>1, <3>2
    <3> QED
      BY <3>1, <3>2
  <2>3. ASSUME NEW a \in Proc, NEW c \in Proc PROVE channel'[a][c] \in Seq(MessagesAt(a, c))
    <3>1. CASE <<a, c>> = <<q, p>>
      BY <1>9, <1>11, <3>1
    <3>2. CASE <<a, c>> # <<q, p>>
      BY <1>11, <2>1, <3>2
    <3> QED
      BY <3>1, <3>2
  <2> QED
    BY <2>2, <2>3
\* What each base of p draws.
<1>14. ASSUME NEW x \in Base, NEW g, NEW S, Values(g, S)
       PROVE  /\ x = pt => Drawn(queue'[p][x], g) = Drawn(queue[p][x], g) \o Part(e, g)
              /\ x # pt \/ Part(e, g) = <<>> => Drawn(queue'[p][x], g) = Drawn(queue[p][x], g)
  <2>1. x = pt => Drawn(queue'[p][x], g) = Drawn(queue[p][x], g) \o Part(e, g)
    BY <1>10, <1>12, <1>14
  <2>2. x # pt => Drawn(queue'[p][x], g) = Drawn(queue[p][x], g)
    BY <1>12
  <2>3. ASSUME x = pt, Part(e, g) = <<>> PROVE Drawn(queue'[p][x], g) = Drawn(queue[p][x], g)
    <3> DEFINE d == Drawn(queue[p][x], g)
    <3>1. d \in Seq(S) /\ Drawn(queue'[p][x], g) = d \o <<>>
      BY <1>10, <1>14, <2>1, <2>3
    <3> HIDE DEF d
    <3>2. d \o <<>> = d
      BY <3>1
    <3> QED
      BY <3>1, <3>2 DEF d
  <2> QED
    BY <2>1, <2>2, <2>3
<1>15. NoneAsked
  <2>1. Values(Asked, 1..Xcasts) /\ Part(e, Asked) = <<>>
    BY AskedFacts, EventTypes DEF e
  <2>2. Drawn(queue'[p]["ev"], Asked) = Drawn(queue[p]["ev"], Asked)
    BY <1>5, <1>14, <2>1
  <2>3. \A r \in Proc : Drawn(queue'[r]["ev"], Asked) = Drawn(queue[r]["ev"], Asked)
    BY <1>5, <1>12, <2>2
  <2> QED
    BY <2>3 DEF NoneAsked, Asked
<1>16. TransportOK
  <2>1. draining' \in [Proc -> BOOLEAN]
    BY <1>2 DEF TypeOK
  <2> QED
    BY <2>1, <1>11, <1>12, <1>13, <1>15
       DEF TransportOK, TypedNext, RouteInv, EventsAt, MessagesAt, EventAt, RecvAt, SendAt, CrossAt
<1>17. ASSUME NEW f, NEW S, Values(f, S)
       PROVE  /\ m.dst = p => In(q, p, m, f)
              /\ m.dst # p => Through(q, p, m, f)
  <2> DEFINE R == OnRecv(f)
             D == OnSend(f)
  <2>1. /\ Values(R, S) /\ Values(D, S)
        /\ m.dst = p => Part(e, R) = Part(m, f) /\ Part(e, D) = <<>>
        /\ m.dst # p => Part(e, R) = <<>> /\ Part(e, D) = Part(m, f)
    BY <1>17, PartFacts, EventTypes DEF e
  <2> HIDE DEF R, D
  <2>2. /\ m.dst = p => /\ Drawn(queue'[p][pt], R) = Drawn(queue[p][pt], R) \o Part(m, f)
                        /\ Drawn(queue'[p]["ev"], D) = Drawn(queue[p]["ev"], D)
        /\ m.dst # p => /\ Drawn(queue'[p][pt], R) = Drawn(queue[p][pt], R)
                        /\ Drawn(queue'[p]["ev"], D) = Drawn(queue[p]["ev"], D) \o Part(m, f)
    BY <1>5, <1>6, <1>14, <2>1
  <2>3. /\ Arriving(p, f) = Drawn(queue[p][pt], R) /\ Arriving(p, f)' = Drawn(queue'[p][pt], R)
        /\ Leaving(p, f) = Drawn(queue[p]["ev"], D) /\ Leaving(p, f)' = Drawn(queue'[p]["ev"], D)
    BY DEF Arriving, Leaving, R, D, pt
  <2>4. \A r \in Proc : r # p => Arriving(r, f)' = Arriving(r, f) /\ Leaving(r, f)' = Leaving(r, f)
    <3>1. \A r \in Proc : pt2pt_evbase(r) \in Base /\ "ev" \in Base
      BY TreeFacts
    <3> QED
      BY <1>12, <3>1 DEF Arriving, Leaving
  <2>5. \A a, c \in Proc : <<a, c>> # <<q, p>> => Across(a, c, f)' = Across(a, c, f)
    BY <1>11 DEF Across
  <2>6. Across(q, p, f) = Part(m, f) \o Across(q, p, f)'
    BY <1>10, <1>11, <1>17 DEF Across
  <2> QED
    BY <2>2, <2>3, <2>4, <2>5, <2>6 DEF In, Through, Quiet
<1> QED
  BY <1>4, <1>16, <1>17

LEMMA LinkTypesNext ==
    ASSUME TypedNext, NEW f, NEW S, Values(f, S)
    PROVE  /\ \A p \in Proc : Arriving(p, f)' \in Seq(S) /\ Leaving(p, f)' \in Seq(S)
           /\ \A a, b \in Proc : Across(a, b, f)' \in Seq(S)
<1>1. ASSUME NEW p \in Proc PROVE Arriving(p, f)' \in Seq(S) /\ Leaving(p, f)' \in Seq(S)
  <2>0. "ev" \in Base /\ pt2pt_evbase(p) \in Base
    BY TreeFacts
  <2>1. queue'[p]["ev"] \in Seq(Events) /\ queue'[p][pt2pt_evbase(p)] \in Seq(Events)
    BY <2>0 DEF TypedNext
  <2>2. Values(OnRecv(f), S) /\ Values(OnSend(f), S)
    BY PartFacts
  <2>3. Drawn(queue'[p]["ev"], OnSend(f)) \in Seq(S) /\ Drawn(queue'[p][pt2pt_evbase(p)], OnRecv(f)) \in Seq(S)
    BY <2>1, <2>2, DrawnType
  <2> QED
    BY <2>3 DEF Arriving, Leaving
<1>2. ASSUME NEW a \in Proc, NEW b \in Proc PROVE Across(a, b, f)' \in Seq(S)
  <2>1. channel'[a][b] \in Seq(Messages)
    BY DEF TypedNext
  <2>2. Drawn(channel'[a][b], f) \in Seq(S)
    BY <2>1, DrawnType
  <2> QED
    BY <2>2 DEF Across
<1> QED
  BY <1>1, <1>2

\* What is not drawn does not show.
Still(f) == Quiet(f, {}, {}, {})
LEMMA NotDrawn ==
    ASSUME TypeOK, TransportOK, NEW f, NEW S, Values(f, S), NEW m, m \notin DOMAIN f,
           NEW p \in Proc, NEW q \in Proc,
           Home(p, m, f) \/ On(p, q, m, f) \/ In(q, p, m, f) \/ Through(q, p, m, f)
    PROVE  Still(f)
<1>1. Part(m, f) = <<>> /\ \A s \in Seq(S) : <<>> \o s = s /\ s \o <<>> = s
  BY DEF Part
<1>2. /\ Arriving(p, f) \in Seq(S) /\ Leaving(p, f) \in Seq(S)
      /\ Across(p, q, f) \in Seq(S) /\ Across(q, p, f) \in Seq(S)
  BY LinkTypes
<1>3. /\ Arriving(p, f)' \in Seq(S) /\ Leaving(p, f)' \in Seq(S)
      /\ Across(p, q, f)' \in Seq(S) /\ Across(q, p, f)' \in Seq(S)
  BY LinkTypesNext DEF TransportOK
<1>4. CASE Home(p, m, f)
  <2>1. Leaving(p, f)' = Leaving(p, f) /\ Arriving(p, f)' = Arriving(p, f)
    BY <1>1, <1>2, <1>3, <1>4 DEF Home
  <2> QED
    BY <1>4, <2>1 DEF Home, Still, Quiet
<1>5. CASE On(p, q, m, f)
  <2>1. Leaving(p, f)' = Leaving(p, f) /\ Across(p, q, f)' = Across(p, q, f)
    BY <1>1, <1>2, <1>3, <1>5 DEF On
  <2> QED
    BY <1>5, <2>1 DEF On, Still, Quiet
<1>6. CASE In(q, p, m, f)
  <2>1. Across(q, p, f)' = Across(q, p, f) /\ Arriving(p, f)' = Arriving(p, f)
    BY <1>1, <1>2, <1>3, <1>6 DEF In
  <2> QED
    BY <1>6, <2>1 DEF In, Still, Quiet
<1>7. CASE Through(q, p, m, f)
  <2>1. Across(q, p, f)' = Across(q, p, f) /\ Leaving(p, f)' = Leaving(p, f)
    BY <1>1, <1>2, <1>3, <1>7 DEF Through
  <2> QED
    BY <1>7, <2>1 DEF Through, Still, Quiet
<1> QED
  BY <1>4, <1>5, <1>6, <1>7

\* A message to the parent or to a child goes straight there.
LEMMA Straight ==
    ASSUME NEW m \in Messages, ToChild(m) \/ ToParent(m)
    PROVE  /\ m.src \in Proc /\ m.dst \in Proc /\ m.src # m.dst
           /\ NextHop(m.src, m.dst) = m.dst /\ ~ToMaster(m) /\ ~ToSelf(m)
<1>1. m.src \in Proc /\ m.dst \in Proc
  BY MsgTypes
<1>2. CASE ToChild(m)
  <2>1. m.dst \in 1..(N - 1) /\ m.src = Parent[m.dst] /\ m.dst # Master /\ m.tag = "XCAST"
    BY <1>1, <1>2, TreeFacts DEF ToChild
  <2>2. NextHop(Parent[m.dst], m.dst) = m.dst /\ Parent[m.dst] # m.dst
    BY <2>1, HopDown, TreeFacts
  <2> QED
    BY <1>1, <2>1, <2>2 DEF ToMaster, ToSelf
<1>3. CASE ToParent(m)
  <2>1. m.src \in 1..(N - 1) /\ m.dst = Parent[m.src] /\ m.tag = "DIRECT"
    BY <1>1, <1>3, TreeFacts DEF ToParent
  <2>2. Parent[m.src] \notin Relatives[m.src] /\ Parent[m.src] # m.src
    <3>1. Parent[m.src] < m.src /\ \A r \in Relatives[m.src] : r > m.src
      BY <1>1, <2>1, ParentAssumption, BelowFacts
    <3>2. Parent[m.src] \in Nat /\ m.src \in Nat
      BY <2>1, TreeFacts
    <3> QED
      BY <3>1, <3>2
  <2>3. NextHop(m.src, Parent[m.src]) = Parent[m.src]
    BY <2>1, <2>2, HopUp
  <2> QED
    BY <1>1, <2>1, <2>2, <2>3 DEF ToMaster, ToSelf
<1> QED
  BY <1>2, <1>3

LEMMA Assoc ==
    ASSUME NEW S, NEW s \in Seq(S), NEW t \in Seq(S), NEW u \in Seq(S)
    PROVE  (s \o t) \o u = s \o (t \o u) /\ s \o t \in Seq(S)
OBVIOUS

\* The transport moves what is on a link along it, and nothing else.
Moving(p) == (\E b \in Base : ProcessSend(p, b)) \/ (\E q \in Proc : Deliver(q, p))

LEMMA SelfKept ==
    ASSUME TypeOK, RouteInv, NEW p \in Proc, Moving(p), NEW f, NEW S, Values(f, S),
           NEW r \in Proc, \A m \in DOMAIN f : m.src = r /\ m.dst = r
    PROVE  Self(r, f)' = Self(r, f)
<1>0. \A m \in DOMAIN f : \A q \in Proc : SendAt(q, m) => q = r
  <2> SUFFICES ASSUME NEW m \in DOMAIN f, NEW q \in Proc, SendAt(q, m) PROVE q = r
    OBVIOUS
  <2>1. m.src = r /\ m.dst = r
    OBVIOUS
  <2>2. r = q \/ (r = Master /\ q # Master /\ r \in Relatives[q])
    BY <2>1 DEF SendAt, ToMaster
  <2>3. r = Master /\ q # Master => r \notin Relatives[q]
    BY BelowFacts, TreeFacts
  <2> QED
    BY <2>2, <2>3
<1>1. Still(f) => Self(r, f)' = Self(r, f)
  BY DEF Still, Quiet, Self
<1>2. ASSUME NEW b \in Base, ProcessSend(p, b) PROVE Self(r, f)' = Self(r, f)
  <2>1. TransportOK
    BY <1>2, SendIs
  <2>2. PICK m \in Messages : /\ SendAt(p, m)
                              /\ \/ m.dst = p /\ \A g, T : Values(g, T) => Home(p, m, g)
                                 \/ /\ m.dst # p /\ NextHop(p, m.dst) \in Proc
                                    /\ \A g, T : Values(g, T) => On(p, NextHop(p, m.dst), m, g)
    BY <1>2, SendIs
  <2>3. CASE m \notin DOMAIN f
    <3>1. Home(p, m, f) \/ (NextHop(p, m.dst) \in Proc /\ On(p, NextHop(p, m.dst), m, f))
      BY <2>2
    <3>2. Still(f)
      BY <2>1, <2>3, <3>1, NotDrawn
    <3> QED
      BY <1>1, <3>2
  <2>4. CASE m \in DOMAIN f
    <3>1. m.src = r /\ m.dst = r /\ p = r
      BY <1>0, <2>2, <2>4
    <3>2. Home(r, m, f)
      BY <2>2, <3>1
    <3> DEFINE x == Part(m, f)
               a == Arriving(r, f)
               l == Leaving(r, f)'
    <3>3. a \in Seq(S) /\ l \in Seq(S) /\ x \in Seq(S)
      BY <2>1, LinkTypes, LinkTypesNext, PartFacts DEF TransportOK
    <3>4. Leaving(r, f) = x \o l /\ Arriving(r, f)' = a \o x
      BY <3>2 DEF Home
    <3> HIDE DEF x, a, l
    <3>5. (a \o x) \o l = a \o (x \o l)
      BY <3>3, Assoc
    <3> QED
      BY <3>4, <3>5 DEF Self, a, l
  <2> QED
    BY <2>3, <2>4
<1>3. ASSUME NEW q \in Proc, Deliver(q, p) PROVE Self(r, f)' = Self(r, f)
  <2>1. TransportOK
    BY <1>3, DeliverIs
  <2>2. PICK m \in Messages : /\ CrossAt(q, p, m)
                              /\ \/ m.dst = p /\ \A g, T : Values(g, T) => In(q, p, m, g)
                                 \/ m.dst # p /\ \A g, T : Values(g, T) => Through(q, p, m, g)
    BY <1>3, DeliverIs
  <2>3. m \notin DOMAIN f
    BY <1>0, <2>2 DEF CrossAt
  <2>4. In(q, p, m, f) \/ Through(q, p, m, f)
    BY <2>2
  <2>5. Still(f)
    BY <2>1, <2>3, <2>4, NotDrawn
  <2> QED
    BY <1>1, <2>5
<1> QED
  BY <1>2, <1>3 DEF Moving

LEMMA LinkKept ==
    ASSUME TypeOK, RouteInv, NEW p \in Proc, Moving(p), NEW f, NEW S, Values(f, S),
           NEW c \in Proc, NEW d \in Proc,
           \A m \in DOMAIN f : m \in Messages /\ (ToChild(m) \/ ToParent(m)) /\ m.src = c /\ m.dst = d
    PROVE  Link(c, d, f)' = Link(c, d, f)
<1>1. Still(f) => Link(c, d, f)' = Link(c, d, f)
  BY DEF Still, Quiet, Link
<1> DEFINE A == Arriving(d, f)
           X == Across(c, d, f)
           L == Leaving(c, f)
           A1 == Arriving(d, f)'
           X1 == Across(c, d, f)'
           L1 == Leaving(c, f)'
<1>2. A \in Seq(S) /\ X \in Seq(S) /\ L \in Seq(S)
  BY LinkTypes
<1>3. ASSUME NEW b \in Base, ProcessSend(p, b) PROVE Link(c, d, f)' = Link(c, d, f)
  <2>1. TransportOK
    BY <1>3, SendIs
  <2>2. PICK m \in Messages : /\ SendAt(p, m)
                              /\ \/ m.dst = p /\ \A g, T : Values(g, T) => Home(p, m, g)
                                 \/ /\ m.dst # p /\ NextHop(p, m.dst) \in Proc
                                    /\ \A g, T : Values(g, T) => On(p, NextHop(p, m.dst), m, g)
    BY <1>3, SendIs
  <2>3. CASE m \notin DOMAIN f
    <3>1. Home(p, m, f) \/ (NextHop(p, m.dst) \in Proc /\ On(p, NextHop(p, m.dst), m, f))
      BY <2>2
    <3>2. Still(f)
      BY <2>1, <2>3, <3>1, NotDrawn
    <3> QED
      BY <1>1, <3>2
  <2>4. CASE m \in DOMAIN f
    <3>1. m.src = c /\ m.dst = d /\ c # d /\ NextHop(c, d) = d /\ ~ToMaster(m)
      BY <2>4, Straight
    <3>2. p = c /\ On(c, d, m, f)
      BY <2>2, <3>1 DEF SendAt
    <3> DEFINE x == Part(m, f)
    <3>3. x \in Seq(S) /\ X1 \in Seq(S) /\ L1 \in Seq(S)
      BY <2>1, LinkTypesNext, PartFacts DEF TransportOK
    <3>4. L = x \o L1 /\ X1 = X \o x /\ A1 = A
      BY <3>2 DEF On, Quiet
    <3>5. Link(c, d, f) = (A \o X) \o L /\ Link(c, d, f)' = (A1 \o X1) \o L1
      BY DEF Link
    <3> HIDE DEF x, A, X, L, A1, X1, L1
    <3>6. (A \o (X \o x)) \o L1 = (A \o X) \o (x \o L1)
      <4>0. A \in Seq(S) /\ X \in Seq(S) /\ x \in Seq(S)
        BY <1>2, <3>3
      <4>1. (A \o X) \o x = A \o (X \o x) /\ A \o X \in Seq(S)
        BY <4>0, Assoc
      <4> DEFINE w == A \o X
      <4>2. w \in Seq(S) /\ w \o x = A \o (X \o x)
        BY <4>1
      <4> HIDE DEF w
      <4>4. w \in Seq(S) /\ x \in Seq(S) /\ L1 \in Seq(S)
        BY <3>3, <4>2
      <4>3. (w \o x) \o L1 = w \o (x \o L1)
        BY <4>4, Assoc
      <4> QED
        BY <4>2, <4>3 DEF w
    <3> QED
      BY <3>4, <3>5, <3>6
  <2> QED
    BY <2>3, <2>4
<1>4. ASSUME NEW q \in Proc, Deliver(q, p) PROVE Link(c, d, f)' = Link(c, d, f)
  <2>1. TransportOK
    BY <1>4, DeliverIs
  <2>2. PICK m \in Messages : /\ CrossAt(q, p, m)
                              /\ \/ m.dst = p /\ \A g, T : Values(g, T) => In(q, p, m, g)
                                 \/ m.dst # p /\ \A g, T : Values(g, T) => Through(q, p, m, g)
    BY <1>4, DeliverIs
  <2>3. CASE m \notin DOMAIN f
    <3>1. In(q, p, m, f) \/ Through(q, p, m, f)
      BY <2>2
    <3>2. Still(f)
      BY <2>1, <2>3, <3>1, NotDrawn
    <3> QED
      BY <1>1, <3>2
  <2>4. CASE m \in DOMAIN f
    <3>1. m.src = c /\ m.dst = d /\ c # d /\ NextHop(c, d) = d /\ ~ToMaster(m)
      BY <2>4, Straight
    <3>2. q = c /\ p = d
      BY <2>2, <3>1 DEF CrossAt, SendAt
    <3>7. In(c, d, m, f)
      BY <2>2, <3>1, <3>2
    <3> DEFINE x == Part(m, f)
    <3>3. x \in Seq(S) /\ X1 \in Seq(S)
      BY <2>1, LinkTypesNext, PartFacts DEF TransportOK
    <3>4. X = x \o X1 /\ A1 = A \o x /\ L1 = L
      BY <3>7 DEF In, Quiet
    <3>5. Link(c, d, f) = (A \o X) \o L /\ Link(c, d, f)' = (A1 \o X1) \o L1
      BY DEF Link
    <3> HIDE DEF x, A, X, L, A1, X1, L1
    <3>6. (A \o x) \o X1 = A \o (x \o X1)
      <4>1. A \in Seq(S) /\ x \in Seq(S) /\ X1 \in Seq(S)
        BY <1>2, <3>3
      <4> QED
        BY <4>1, Assoc
    <3> QED
      BY <3>4, <3>5, <3>6
  <2> QED
    BY <2>3, <2>4
<1> QED
  BY <1>3, <1>4 DEF Moving

-----------------------------------------------------------------------------
(* The xcasts on their way up. *)

\* An xcast of q on its way to the master.
LEMMA EnteringIs ==
    ASSUME NEW q \in Proc
    PROVE  /\ Values(Entering(q), 1..Xcasts)
           /\ \A m \in DOMAIN Entering(q) :
                 /\ m \in Messages /\ ToMaster(m) /\ m.src = q /\ m.dst = Master /\ m.tag = "XCAST"
                 /\ m.kind = "user" /\ Entering(q)[m] \in 1..Xcasts /\ IdOf(m) = <<q, Entering(q)[m]>>
           /\ \A k \in 1..Xcasts :
                 LET m == Msg(q, Master, "XCAST", "user", NoSig, {<<q, k>>})
                 IN m \in DOMAIN Entering(q) /\ Entering(q)[m] = k
<1> DEFINE M(k) == Msg(q, Master, "XCAST", "user", NoSig, {<<q, k>>})
<1>1. /\ DOMAIN Entering(q) = {M(k) : k \in 1..Xcasts}
      /\ \A m \in DOMAIN Entering(q) : Entering(q)[m] = IdOf(m)[2]
  BY DEF Entering
<1>2. ASSUME NEW k \in 1..Xcasts
      PROVE  /\ IdOf(M(k)) = <<q, k>> /\ M(k) \in Messages /\ ToMaster(M(k))
             /\ M(k).src = q /\ M(k).dst = Master /\ M(k).tag = "XCAST" /\ M(k).kind = "user"
  <2>1. M(k).src = q /\ M(k).dst = Master /\ M(k).tag = "XCAST" /\ M(k).kind = "user" /\ M(k).buf = {<<q, k>>}
    BY MsgFields
  <2>2. <<q, k>> \in Ids
    BY DEF Ids
  <2>3. M(k) \in UserMessages
    BY <2>2, MsgTypes, TreeFacts
  <2>4. M(k) \in Messages
    BY <2>3 DEF Messages
  <2>5. IdOf(M(k)) = <<q, k>>
    <3> HIDE DEF M
    <3> QED
      BY <2>1 DEF IdOf
  <2> QED
    BY <2>1, <2>4, <2>5 DEF ToMaster
<1> HIDE DEF M
<1>3. \A k \in 1..Xcasts : M(k) \in DOMAIN Entering(q) /\ Entering(q)[M(k)] = k
  BY <1>1, <1>2
<1>4. Values(Entering(q), 1..Xcasts)
  BY <1>1, <1>3 DEF Values
<1>5. ASSUME NEW m \in DOMAIN Entering(q)
      PROVE  /\ m \in Messages /\ ToMaster(m) /\ m.src = q /\ m.dst = Master /\ m.tag = "XCAST"
             /\ m.kind = "user" /\ Entering(q)[m] \in 1..Xcasts /\ IdOf(m) = <<q, Entering(q)[m]>>
  <2>1. PICK k \in 1..Xcasts : m = M(k)
    BY <1>1
  <2>2. Entering(q)[m] = k
    BY <1>3, <2>1
  <2> QED
    BY <1>2, <2>1, <2>2
<1> QED
  BY <1>3, <1>4, <1>5 DEF M

\* It is found only above its origin.
LEMMA OffPath ==
    ASSUME TypeOK, RouteInv, NEW x \in Proc, NEW q \in Proc, q # x, x = Master \/ q \notin Relatives[x]
    PROVE  /\ Leaving(x, Entering(q)) = <<>>
           /\ \A y \in Proc : Across(x, y, Entering(q)) = <<>>
<1> DEFINE f == Entering(q)
<1>1. \A m \in DOMAIN f : ~SendAt(x, m)
  BY EnteringIs DEF SendAt
<1>2. ASSUME NEW y \in Proc PROVE Across(x, y, f) = <<>>
  <2> DEFINE s == channel[x][y]
  <2>1. s \in Seq(MessagesAt(x, y))
    BY DEF RouteInv
  <2>2. \A i \in DOMAIN s : s[i] \in MessagesAt(x, y)
    <3> HIDE DEF s
    <3> QED
      BY <2>1
  <2>3. \A i \in DOMAIN s : s[i] \notin DOMAIN f
    BY <1>1, <2>2 DEF MessagesAt, CrossAt
  <2> HIDE DEF s, f
  <2>4. Drawn(s, f) = <<>>
    BY <2>1, <2>3, DrawnNone
  <2> QED
    BY <2>4 DEF Across, s
<1>3. Leaving(x, f) = <<>>
  <2> DEFINE s == queue[x]["ev"]
             D == OnSend(f)
  <2>1. s \in Seq(EventsAt(x, "ev"))
    BY TreeFacts DEF RouteInv
  <2>2. \A i \in DOMAIN s : s[i] \in EventsAt(x, "ev")
    <3> HIDE DEF s
    <3> QED
      BY <2>1
  <2>3. \A e \in DOMAIN D : e.op = "send" /\ e.msg \in DOMAIN f
    BY DEF OnSend, Send
  <2>4. \A i \in DOMAIN s : s[i] \notin DOMAIN D
    <3> HIDE DEF D, f
    <3> QED
      BY <1>1, <2>2, <2>3 DEF EventsAt, EventAt
  <2> HIDE DEF s, D
  <2>5. Drawn(s, D) = <<>>
    BY <2>1, <2>4, DrawnNone
  <2> QED
    BY <2>5 DEF Leaving, s, D
<1> QED
  BY <1>2, <1>3

\* The stops of an xcast, one by one.
LEMMA StopsAre ==
    ASSUME TypeOK, NEW q \in Proc
    PROVE  /\ Stops(q) \in [0..N -> Seq(1..Xcasts)]
           /\ Stops(q)[N] = Drawn(queue[q]["ev"], Asked)
           /\ Stops(q)[Master] = Self(Master, Entering(q))
           /\ \A x \in 1..(N - 1) : Stops(q)[x] = Across(x, Parent[x], Entering(q)) \o Leaving(x, Entering(q))
<1>1. \A x \in 0..N : Stops(q)[x] = Stop(x, q)
  BY DEF Stops
<1>2. N \in 0..N /\ Master \in 0..N /\ Master # N /\ \A x \in 1..(N - 1) : x \in 0..N /\ x # N /\ x # Master
  BY TreeFacts
<1>3. /\ Stop(N, q) = Drawn(queue[q]["ev"], Asked)
      /\ Stop(Master, q) = Self(Master, Entering(q))
      /\ \A x \in 1..(N - 1) : Stop(x, q) = Across(x, Parent[x], Entering(q)) \o Leaving(x, Entering(q))
  BY <1>2 DEF Stop
<1>4. \A x \in 0..N : x = N \/ x = Master \/ x \in 1..(N - 1)
  BY TreeFacts
<1>5. Drawn(queue[q]["ev"], Asked) \in Seq(1..Xcasts)
  <2>1. queue[q]["ev"] \in Seq(Events)
    BY TreeFacts DEF TypeOK
  <2> QED
    BY <2>1, AskedFacts, DrawnType
<1>6. Values(Entering(q), 1..Xcasts)
  BY EnteringIs
<1>7. /\ \A p \in Proc : Arriving(p, Entering(q)) \in Seq(1..Xcasts) /\ Leaving(p, Entering(q)) \in Seq(1..Xcasts)
      /\ \A a, b \in Proc : Across(a, b, Entering(q)) \in Seq(1..Xcasts)
  BY <1>6, LinkTypes
<1>8. \A s, t \in Seq(1..Xcasts) : s \o t \in Seq(1..Xcasts)
  OBVIOUS
<1>9. \A x \in 0..N : Stop(x, q) \in Seq(1..Xcasts)
  <2> TAKE x \in 0..N
  <2>1. CASE x = N
    BY <1>3, <1>5, <2>1
  <2>2. CASE x = Master
    <3>1. Arriving(Master, Entering(q)) \in Seq(1..Xcasts) /\ Leaving(Master, Entering(q)) \in Seq(1..Xcasts)
      BY <1>7, TreeFacts
    <3>2. Arriving(Master, Entering(q)) \o Leaving(Master, Entering(q)) \in Seq(1..Xcasts)
      BY <1>8, <3>1
    <3>3. Self(Master, Entering(q)) = Arriving(Master, Entering(q)) \o Leaving(Master, Entering(q))
      BY DEF Self
    <3> QED
      BY <1>3, <2>2, <3>2, <3>3
  <2>3. CASE x \in 1..(N - 1)
    <3>1. x \in Proc /\ Parent[x] \in Proc
      BY <2>3, TreeFacts
    <3>2. Across(x, Parent[x], Entering(q)) \in Seq(1..Xcasts) /\ Leaving(x, Entering(q)) \in Seq(1..Xcasts)
      BY <1>7, <3>1
    <3> QED
      BY <1>3, <1>8, <2>3, <3>2
  <2> QED
    BY <1>4, <2>1, <2>2, <2>3
<1> QED
  BY <1>1, <1>2, <1>3, <1>9 DEF Stops

LEMMA StopsNext ==
    ASSUME TypedNext, NEW q \in Proc
    PROVE  /\ Stops(q)' \in [0..N -> Seq(1..Xcasts)]
           /\ Stops(q)'[N] = Drawn(queue[q]["ev"], Asked)'
           /\ Stops(q)'[Master] = Self(Master, Entering(q))'
           /\ \A x \in 1..(N - 1) : Stops(q)'[x] =
                 Across(x, Parent[x], Entering(q))' \o Leaving(x, Entering(q))'
<1>1. \A x \in 0..N : Stops(q)'[x] = Stop(x, q)'
  BY DEF Stops
<1>2. N \in 0..N /\ Master \in 0..N /\ Master # N /\ \A x \in 1..(N - 1) : x \in 0..N /\ x # N /\ x # Master
  BY TreeFacts
<1>3. /\ Stop(N, q)' = Drawn(queue[q]["ev"], Asked)'
      /\ Stop(Master, q)' = Self(Master, Entering(q))'
      /\ \A x \in 1..(N - 1) : Stop(x, q)' = Across(x, Parent[x], Entering(q))' \o Leaving(x, Entering(q))'
  BY <1>2 DEF Stop
<1>4. \A x \in 0..N : x = N \/ x = Master \/ x \in 1..(N - 1)
  BY TreeFacts
<1>5. Drawn(queue[q]["ev"], Asked)' \in Seq(1..Xcasts)
  <2>1. queue'[q]["ev"] \in Seq(Events)
    BY TreeFacts DEF TypedNext
  <2>2. Drawn(queue'[q]["ev"], Asked) \in Seq(1..Xcasts)
    BY <2>1, AskedFacts, DrawnType
  <2> QED
    BY <2>2 DEF Asked
<1>6. Values(Entering(q), 1..Xcasts)
  BY EnteringIs
<1>7. /\ \A p \in Proc : Arriving(p, Entering(q))' \in Seq(1..Xcasts) /\ Leaving(p, Entering(q))' \in Seq(1..Xcasts)
      /\ \A a, b \in Proc : Across(a, b, Entering(q))' \in Seq(1..Xcasts)
  BY <1>6, LinkTypesNext
<1>8. \A s, t \in Seq(1..Xcasts) : s \o t \in Seq(1..Xcasts)
  OBVIOUS
<1>9. \A x \in 0..N : Stop(x, q)' \in Seq(1..Xcasts)
  <2> TAKE x \in 0..N
  <2>1. CASE x = N
    BY <1>3, <1>5, <2>1
  <2>2. CASE x = Master
    <3>1. Arriving(Master, Entering(q))' \in Seq(1..Xcasts) /\ Leaving(Master, Entering(q))' \in Seq(1..Xcasts)
      BY <1>7, TreeFacts
    <3>2. Arriving(Master, Entering(q))' \o Leaving(Master, Entering(q))' \in Seq(1..Xcasts)
      BY <1>8, <3>1
    <3>3. Self(Master, Entering(q))' = Arriving(Master, Entering(q))' \o Leaving(Master, Entering(q))'
      BY DEF Self
    <3> QED
      BY <1>3, <2>2, <3>2, <3>3
  <2>3. CASE x \in 1..(N - 1)
    <3>1. x \in Proc /\ Parent[x] \in Proc
      BY <2>3, TreeFacts
    <3>2. Across(x, Parent[x], Entering(q))' \in Seq(1..Xcasts) /\ Leaving(x, Entering(q))' \in Seq(1..Xcasts)
      BY <1>7, <3>1
    <3> QED
      BY <1>3, <1>8, <2>3, <3>2
  <2> QED
    BY <1>4, <2>1, <2>2, <2>3
<1> QED
  BY <1>1, <1>2, <1>3, <1>9 DEF Stops

\* The first of stop x becomes the last of stop y.
Advanced(st, st2, x, y, k) ==
    /\ st[x] = <<k>> \o st2[x] /\ st2[y] = st[y] \o <<k>>
    /\ \A z \in 0..N : z # x /\ z # y => st2[z] = st[z]

LEMMA StopsEqual ==
    ASSUME TypeOK, TypedNext, NEW q \in Proc, \A x \in 0..N : Stops(q)'[x] = Stops(q)[x]
    PROVE  Stops(q)' = Stops(q)
<1>1. PICK g, h : g = Stops(q) /\ h = Stops(q)'
  OBVIOUS
<1>2. g \in [0..N -> Seq(1..Xcasts)] /\ h \in [0..N -> Seq(1..Xcasts)]
  BY <1>1, StopsAre, StopsNext
<1>3. \A x \in 0..N : g[x] = h[x]
  BY <1>1
<1> DEFINE D == 0..N
           V == Seq(1..Xcasts)
<1>4. g \in [D -> V] /\ h \in [D -> V] /\ \A x \in D : g[x] = h[x]
  BY <1>2, <1>3
<1> HIDE DEF D, V
<1>5. g = h
  BY <1>4
<1> QED
  BY <1>1, <1>5

LEMMA StopsSame ==
    ASSUME TypeOK, TypedNext, NEW q \in Proc, Still(Entering(q)),
           Drawn(queue[q]["ev"], Asked)' = Drawn(queue[q]["ev"], Asked)
    PROVE  Stops(q)' = Stops(q)
<1> DEFINE f == Entering(q)
<1>1. /\ \A p \in Proc : Arriving(p, f)' = Arriving(p, f) /\ Leaving(p, f)' = Leaving(p, f)
      /\ \A a, b \in Proc : Across(a, b, f)' = Across(a, b, f)
  BY DEF Still, Quiet
<1>2. Self(Master, f)' = Self(Master, f)
  BY <1>1, TreeFacts DEF Self
<1>3. \A x \in 1..(N - 1) : Stops(q)'[x] = Stops(q)[x]
  <2> TAKE x \in 1..(N - 1)
  <2>1. x \in Proc /\ Parent[x] \in Proc
    BY TreeFacts
  <2>2. Across(x, Parent[x], f)' = Across(x, Parent[x], f) /\ Leaving(x, f)' = Leaving(x, f)
    BY <1>1, <2>1
  <2> QED
    BY <2>2, StopsAre, StopsNext
<1>4. Stops(q)'[N] = Stops(q)[N] /\ Stops(q)'[Master] = Stops(q)[Master]
  BY <1>2, StopsAre, StopsNext
<1>5. \A x \in 0..N : x = N \/ x = Master \/ x \in 1..(N - 1)
  BY TreeFacts
<1>6. \A x \in 0..N : Stops(q)'[x] = Stops(q)[x]
  BY <1>3, <1>4, <1>5
<1> QED
  BY <1>6, StopsEqual

\* The transport takes an xcast from a stop to the next.
LEMMA StopsMove ==
    ASSUME TypeOK, RouteInv, NEW p \in Proc, Moving(p), NEW q \in Proc
    PROVE  \/ Stops(q)' = Stops(q)
           \/ \E a \in 1..(N - 1), k \in 1..Xcasts :
                 q \in {a} \cup Relatives[a] /\ Advanced(Stops(q), Stops(q)', a, Parent[a], k)
<1> DEFINE f == Entering(q)
           X(a) == Across(a, Parent[a], f)
           L(a) == Leaving(a, f)
           S == 1..Xcasts
<1>1. Values(f, S)
  BY EnteringIs
<1>2. /\ \A r \in Proc : Arriving(r, f) \in Seq(S) /\ Leaving(r, f) \in Seq(S)
      /\ \A a, b \in Proc : Across(a, b, f) \in Seq(S)
  BY <1>1, LinkTypes
<1>3. ASSUME TypedNext
      PROVE  /\ \A r \in Proc : Arriving(r, f)' \in Seq(S) /\ Leaving(r, f)' \in Seq(S)
             /\ \A a, b \in Proc : Across(a, b, f)' \in Seq(S)
  BY <1>1, <1>3, LinkTypesNext
<1>4. \A x \in 0..N : x = N \/ x = Master \/ x \in 1..(N - 1)
  BY TreeFacts
<1>5. ASSUME NEW b \in Base, ProcessSend(p, b) PROVE Stops(q)' = Stops(q)
  <2>1. TypedNext /\ NoneAsked
    BY <1>5, SendIs DEF TransportOK
  <2>2. PICK m \in Messages : /\ SendAt(p, m)
                              /\ \/ m.dst = p /\ \A g, T : Values(g, T) => Home(p, m, g)
                                 \/ /\ m.dst # p /\ NextHop(p, m.dst) \in Proc
                                    /\ \A g, T : Values(g, T) => On(p, NextHop(p, m.dst), m, g)
    BY <1>5, SendIs
  <2>3. Drawn(queue[q]["ev"], Asked)' = Drawn(queue[q]["ev"], Asked)
    BY <2>1 DEF NoneAsked
  <2>4. CASE m \notin DOMAIN f
    <3>1. Home(p, m, f) \/ (NextHop(p, m.dst) \in Proc /\ On(p, NextHop(p, m.dst), m, f))
      BY <1>1, <2>2
    <3>2. TransportOK
      BY <1>5, SendIs
    <3>3. Still(f)
      BY <1>1, <2>4, <3>1, <3>2, NotDrawn
    <3> QED
      BY <2>1, <2>3, <3>3, StopsSame
  <2>5. CASE m \in DOMAIN f /\ p = Master
    <3>1. m.dst = Master
      BY <2>5, EnteringIs
    <3>2. Home(Master, m, f)
      BY <1>1, <2>2, <2>5, <3>1
    <3> DEFINE x == Part(m, f)
               A == Arriving(Master, f)
               L1 == Leaving(Master, f)'
    <3>3. A \in Seq(S) /\ L1 \in Seq(S) /\ x \in Seq(S)
      BY <1>1, <1>2, <1>3, <2>1, TreeFacts, PartFacts
    <3>4. Leaving(Master, f) = x \o L1 /\ Arriving(Master, f)' = A \o x
      BY <3>2 DEF Home
    <3> HIDE DEF x, A, L1
    <3>5. (A \o x) \o L1 = A \o (x \o L1)
      BY SMTT(60), <3>3, Assoc
    <3>6. Self(Master, f)' = Self(Master, f)
      BY <3>4, <3>5 DEF Self, A, L1
    <3>7. \A y \in 1..(N - 1) : Stops(q)'[y] = Stops(q)[y]
      <4> TAKE y \in 1..(N - 1)
      <4>1. y \in Proc /\ Parent[y] \in Proc /\ y # Master
        BY TreeFacts
      <4>2. Across(y, Parent[y], f)' = Across(y, Parent[y], f) /\ Leaving(y, f)' = Leaving(y, f)
        BY <3>2, <4>1 DEF Home, Quiet
      <4> QED
        BY ZenonT(60), <2>1, <4>2, StopsAre, StopsNext
    <3>8. \A y \in 0..N : Stops(q)'[y] = Stops(q)[y]
      BY <1>4, <2>1, <2>3, <3>6, <3>7, StopsAre, StopsNext
    <3> QED
      BY <2>1, <3>8, StopsEqual
  <2>6. CASE m \in DOMAIN f /\ p # Master
    <3>1. m.dst = Master /\ p \in 1..(N - 1)
      BY <2>6, EnteringIs, TreeFacts
    <3>2. NextHop(p, Master) = Parent[p] /\ Parent[p] \in Proc
      BY <3>1, HopUp, BelowFacts, TreeFacts
    <3>3. On(p, Parent[p], m, f)
      BY <1>1, <2>2, <2>6, <3>1, <3>2
    <3> DEFINE x == Part(m, f)
               C == Across(p, Parent[p], f)
               L1 == Leaving(p, f)'
    <3>4. C \in Seq(S) /\ L1 \in Seq(S) /\ x \in Seq(S)
      BY <1>1, <1>2, <1>3, <2>1, <3>2, PartFacts
    <3>5. Leaving(p, f) = x \o L1 /\ Across(p, Parent[p], f)' = C \o x
      BY <3>3 DEF On
    <3> HIDE DEF x, C, L1
    <3>6. (C \o x) \o L1 = C \o (x \o L1)
      BY SMTT(60), <3>4, Assoc
    <3>7. Across(p, Parent[p], f)' \o Leaving(p, f)' = Across(p, Parent[p], f) \o Leaving(p, f)
      BY <3>5, <3>6 DEF C, L1
    <3>8. \A y \in 1..(N - 1) : Stops(q)'[y] = Stops(q)[y]
      <4> TAKE y \in 1..(N - 1)
      <4>1. y \in Proc /\ Parent[y] \in Proc
        BY TreeFacts
      <4>2. y # p => Across(y, Parent[y], f)' = Across(y, Parent[y], f) /\ Leaving(y, f)' = Leaving(y, f)
        BY <3>3, <4>1 DEF On, Quiet
      <4>3. /\ Stops(q)[y] = Across(y, Parent[y], f) \o Leaving(y, f)
            /\ Stops(q)'[y] = Across(y, Parent[y], f)' \o Leaving(y, f)'
        BY <2>1, StopsAre, StopsNext
      <4>4. CASE y = p
        BY <3>7, <4>3, <4>4
      <4>5. CASE y # p
        BY <4>2, <4>3, <4>5
      <4> QED
        BY <4>4, <4>5
    <3>9. Self(Master, f)' = Self(Master, f)
      BY <2>6, <3>3, TreeFacts DEF On, Quiet, Self
    <3>10. \A y \in 0..N : Stops(q)'[y] = Stops(q)[y]
      BY <1>4, <2>1, <2>3, <3>8, <3>9, StopsAre, StopsNext
    <3> QED
      BY <2>1, <3>10, StopsEqual
  <2> QED
    BY <2>4, <2>5, <2>6
<1>6. ASSUME NEW a \in Proc, Deliver(a, p)
      PROVE  \/ Stops(q)' = Stops(q)
             \/ \E b \in 1..(N - 1), k \in 1..Xcasts :
                   q \in {b} \cup Relatives[b] /\ Advanced(Stops(q), Stops(q)', b, Parent[b], k)
  <2>1. TypedNext /\ NoneAsked
    BY <1>6, DeliverIs DEF TransportOK
  <2>2. PICK m \in Messages : /\ CrossAt(a, p, m)
                              /\ \/ m.dst = p /\ \A g, T : Values(g, T) => In(a, p, m, g)
                                 \/ m.dst # p /\ \A g, T : Values(g, T) => Through(a, p, m, g)
    BY <1>6, DeliverIs
  <2>3. Drawn(queue[q]["ev"], Asked)' = Drawn(queue[q]["ev"], Asked)
    BY <2>1 DEF NoneAsked
  <2>4. CASE m \notin DOMAIN f
    <3>1. In(a, p, m, f) \/ Through(a, p, m, f)
      BY <1>1, <2>2
    <3>2. TransportOK
      BY <1>6, DeliverIs
    <3>3. Still(f)
      BY <1>1, <2>4, <3>1, <3>2, NotDrawn
    <3> QED
      BY <2>1, <2>3, <3>3, StopsSame
  <2>5. CASE m \in DOMAIN f
    <3>1. /\ m.dst = Master /\ m.src = q /\ a # Master /\ a \in 1..(N - 1)
          /\ q \in {a} \cup Relatives[a] /\ q # Master
      BY <2>2, <2>5, EnteringIs, TreeFacts, BelowFacts DEF CrossAt, SendAt
    <3>2. p = Parent[a] /\ a # p
      BY <2>2, <3>1, HopUp, BelowFacts, TreeFacts DEF CrossAt
    <3> DEFINE k == f[m]
               u == <<k>>
               X1 == Across(a, p, f)'
               La == Leaving(a, f)
    <3>3. k \in S /\ Part(m, f) = u /\ u \in Seq(S)
      BY <2>5, EnteringIs DEF Part
    <3>4. X1 \in Seq(S) /\ La \in Seq(S)
      BY <1>2, <1>3, <2>1
    <3> HIDE DEF u, k
    <3>5. Across(a, p, f) = u \o X1 /\ Leaving(a, f)' = La
      BY <1>1, <2>2, <3>2, <3>3 DEF In, Through, Quiet
    <3>6. Stops(q)[a] = u \o Stops(q)'[a]
      <4>1. Stops(q)[a] = Across(a, p, f) \o La /\ Stops(q)'[a] = X1 \o Leaving(a, f)'
        BY <2>1, <3>1, <3>2, StopsAre, StopsNext
      <4> HIDE DEF X1, La
      <4>2. (u \o X1) \o La = u \o (X1 \o La)
        BY SMTT(60), <3>3, <3>4, Assoc
      <4> QED
        BY <3>5, <4>1, <4>2
    <3>7. Stops(q)'[p] = Stops(q)[p] \o u
      <4>1. CASE p = Master
        <5> DEFINE A == Arriving(Master, f)
        <5>1. A \in Seq(S) /\ Arriving(Master, f)' = A \o u /\ Leaving(Master, f)' = Leaving(Master, f)
          BY <1>1, <1>2, <2>2, <3>1, <3>3, <4>1, TreeFacts DEF In, Quiet
        <5>2. Leaving(Master, f) = <<>>
          BY <3>1, OffPath, TreeFacts
        <5>3. Stops(q)[p] = A \o <<>> /\ Stops(q)'[p] = Arriving(Master, f)' \o Leaving(Master, f)'
          BY <2>1, <4>1, <5>2, StopsAre, StopsNext DEF Self
        <5> HIDE DEF A
        <5>4. (A \o u) \o <<>> = A \o u /\ A \o <<>> = A
          BY <3>3, <5>1
        <5> QED
          BY <5>1, <5>2, <5>3, <5>4
      <4>2. CASE p # Master
        <5>1. p \in 1..(N - 1) /\ Parent[p] \in Proc
          BY <4>2, TreeFacts
        <5> DEFINE C == Across(p, Parent[p], f)
                   L0 == Leaving(p, f)
        <5>2. C \in Seq(S) /\ L0 \in Seq(S) /\ Leaving(p, f)' = L0 \o u /\ Across(p, Parent[p], f)' = C
          <6>1. Through(a, p, m, f)
            BY <1>1, <2>2, <3>1, <4>2
          <6>2. <<p, Parent[p]>> # <<a, p>>
            BY <3>2
          <6> QED
            BY <1>2, <3>3, <5>1, <6>1, <6>2 DEF Through, Quiet
        <5>3. Stops(q)[p] = C \o L0 /\ Stops(q)'[p] = Across(p, Parent[p], f)' \o Leaving(p, f)'
          BY <2>1, <5>1, StopsAre, StopsNext
        <5> HIDE DEF C, L0
        <5>5. C \in Seq(S) /\ L0 \in Seq(S) /\ u \in Seq(S)
          BY <3>3, <5>2
        <5>4. (C \o L0) \o u = C \o (L0 \o u)
          BY <5>5, Assoc
        <5> QED
          BY <5>2, <5>3, <5>4
      <4> QED
        BY <4>1, <4>2
    <3>8. ASSUME NEW z \in 0..N, z # a, z # p PROVE Stops(q)'[z] = Stops(q)[z]
      <4>0. In(a, p, m, f) \/ Through(a, p, m, f)
        BY <1>1, <2>2
      <4>1. CASE z = N
        BY <2>1, <2>3, <4>1, StopsAre, StopsNext
      <4>2. CASE z = Master
        <5>1. Arriving(Master, f)' = Arriving(Master, f) /\ Leaving(Master, f)' = Leaving(Master, f)
          BY <3>8, <4>0, <4>2, TreeFacts DEF In, Through, Quiet
        <5> QED
          BY <2>1, <4>2, <5>1, StopsAre, StopsNext DEF Self
      <4>3. CASE z \in 1..(N - 1)
        <5>1. z \in Proc /\ Parent[z] \in Proc /\ <<z, Parent[z]>> # <<a, p>>
          BY <3>8, <4>3, TreeFacts
        <5>2. Across(z, Parent[z], f)' = Across(z, Parent[z], f) /\ Leaving(z, f)' = Leaving(z, f)
          BY <3>8, <4>0, <5>1 DEF In, Through, Quiet
        <5>3. /\ Stops(q)[z] = Across(z, Parent[z], f) \o Leaving(z, f)
              /\ Stops(q)'[z] = Across(z, Parent[z], f)' \o Leaving(z, f)'
          BY <2>1, <4>3, StopsAre, StopsNext
        <5> HIDE DEF f
        <5> QED
          BY <5>2, <5>3
      <4> QED
        BY <1>4, <4>1, <4>2, <4>3
    <3>9. Advanced(Stops(q), Stops(q)', a, Parent[a], k)
      BY <3>2, <3>6, <3>7, <3>8 DEF Advanced, u
    <3> QED
      BY <3>1, <3>3, <3>9
  <2> QED
    BY <2>4, <2>5
<1> QED
  BY <1>5, <1>6 DEF Moving

-----------------------------------------------------------------------------
(* The xcasts on their way down. *)

UserOnly(f) == \A m \in DOMAIN f : m.kind = "user"

LEMMA UserMsg ==
    ASSUME NEW m \in Messages, m.kind = "user"
    PROVE  m.sig = NoSig /\ IdOf(m) \in Ids /\ m.buf = {IdOf(m)}
<1>1. m \in UserMessages
  BY MsgTypes
<1>2. m.sig = NoSig /\ \E id \in Ids : m.buf = {id}
  BY <1>1, MsgTypes
<1> QED
  BY <1>2 DEF IdOf

\* An xcast passed on by src with this tag.
LEMMA CopyIs ==
    ASSUME NEW src \in Proc, NEW dst \in Proc, NEW tag \in {"XCAST", "USER"}
    PROVE  LET f == Copies(src, dst, tag)
           IN  /\ Values(f, Ids) /\ UserOnly(f)
               /\ \A m \in DOMAIN f : /\ m \in Messages /\ m.src = src /\ m.dst = dst /\ m.tag = tag
                                       /\ f[m] = IdOf(m)
               /\ \A m \in Messages : m.kind = "user" /\ m.src = src /\ m.dst = dst /\ m.tag = tag =>
                     m \in DOMAIN f /\ f[m] = IdOf(m)
<1> DEFINE f == Copies(src, dst, tag)
<1> DEFINE M(id) == Msg(src, dst, tag, "user", NoSig, {id})
<1>1. DOMAIN f = {M(id) : id \in Ids} /\ \A m \in DOMAIN f : f[m] = IdOf(m)
  BY DEF Copies
<1> HIDE DEF f
<1>2. ASSUME NEW id \in Ids
      PROVE  /\ M(id) \in Messages /\ M(id).src = src /\ M(id).dst = dst /\ M(id).tag = tag
             /\ M(id).kind = "user" /\ IdOf(M(id)) = id
  <2>1. M(id).src = src /\ M(id).dst = dst /\ M(id).tag = tag /\ M(id).kind = "user" /\ M(id).buf = {id}
    BY MsgFields
  <2>2. M(id) \in UserMessages
    BY MsgTypes
  <2>3. M(id) \in Messages
    BY <2>2 DEF Messages
  <2> HIDE DEF M
  <2> QED
    BY <2>1, <2>3 DEF IdOf
<1>3. ASSUME NEW m \in Messages, m.kind = "user", m.src = src, m.dst = dst, m.tag = tag
      PROVE  m \in DOMAIN f /\ f[m] = IdOf(m)
  <2>1. m.sig = NoSig /\ IdOf(m) \in Ids /\ m.buf = {IdOf(m)} /\ m = Msg(m.src, m.dst, m.tag, m.kind, m.sig, m.buf)
    BY <1>3, UserMsg, MsgTypes
  <2>2. m = M(IdOf(m))
    BY <1>3, <2>1
  <2> HIDE DEF M
  <2> QED
    BY <1>1, <2>1, <2>2
<1> HIDE DEF M
<1>4. \A m \in DOMAIN f : m \in Messages /\ m.src = src /\ m.dst = dst /\ m.tag = tag /\ f[m] = IdOf(m)
                          /\ m.kind = "user" /\ f[m] \in Ids
  <2> TAKE m \in DOMAIN f
  <2>1. PICK id \in Ids : m = M(id)
    BY <1>1
  <2> QED
    BY <1>1, <1>2, <2>1
<1>5. Values(f, Ids) /\ UserOnly(f)
  BY <1>4 DEF Values, UserOnly
<1> QED
  BY <1>3, <1>4, <1>5 DEF f

LEMMA RelayIs ==
    ASSUME NEW c \in 1..(N - 1)
    PROVE  /\ Values(Relay(c), Ids) /\ UserOnly(Relay(c))
           /\ \A m \in DOMAIN Relay(c) : /\ m \in Messages /\ m.src = Parent[c] /\ m.dst = c /\ m.tag = "XCAST"
                                         /\ ToChild(m) /\ Relay(c)[m] = IdOf(m)
           /\ \A m \in Messages : m.kind = "user" /\ m.src = Parent[c] /\ m.dst = c /\ m.tag = "XCAST" =>
                 m \in DOMAIN Relay(c) /\ Relay(c)[m] = IdOf(m)
<1>1. Parent[c] \in Proc /\ c \in Proc /\ c # Master
  BY TreeFacts
<1>2. /\ Values(Relay(c), Ids) /\ UserOnly(Relay(c))
      /\ \A m \in DOMAIN Relay(c) : /\ m \in Messages /\ m.src = Parent[c] /\ m.dst = c /\ m.tag = "XCAST"
                                    /\ Relay(c)[m] = IdOf(m)
      /\ \A m \in Messages : m.kind = "user" /\ m.src = Parent[c] /\ m.dst = c /\ m.tag = "XCAST" =>
            m \in DOMAIN Relay(c) /\ Relay(c)[m] = IdOf(m)
  <2>1. PICK q \in Proc : q = Parent[c]
    BY <1>1
  <2> DEFINE F == Copies(q, c, "XCAST")
  <2>2. F = Relay(c)
    BY <2>1 DEF Relay
  <2>3. c \in Proc /\ "XCAST" \in {"XCAST", "USER"}
    BY <1>1
  <2>4. /\ Values(F, Ids) /\ UserOnly(F)
        /\ \A m \in DOMAIN F : m \in Messages /\ m.src = q /\ m.dst = c /\ m.tag = "XCAST" /\ F[m] = IdOf(m)
        /\ \A m \in Messages : m.kind = "user" /\ m.src = q /\ m.dst = c /\ m.tag = "XCAST" =>
              m \in DOMAIN F /\ F[m] = IdOf(m)
    BY <2>3, CopyIs
  <2> HIDE DEF F
  <2> QED
    BY <2>1, <2>2, <2>4
<1> QED
  BY <1>1, <1>2 DEF ToChild

LEMMA PostedIs ==
    ASSUME NEW p \in Proc
    PROVE  /\ Values(Posted(p), Ids) /\ UserOnly(Posted(p))
           /\ \A m \in DOMAIN Posted(p) : /\ m \in Messages /\ m.src = p /\ m.dst = p /\ m.tag = "USER"
                                          /\ ToSelf(m) /\ Posted(p)[m] = IdOf(m)
           /\ \A m \in Messages : m.kind = "user" /\ m.src = p /\ m.dst = p /\ m.tag = "USER" =>
                 m \in DOMAIN Posted(p) /\ Posted(p)[m] = IdOf(m)
<1>1. /\ Values(Posted(p), Ids) /\ UserOnly(Posted(p))
      /\ \A m \in DOMAIN Posted(p) : /\ m \in Messages /\ m.src = p /\ m.dst = p /\ m.tag = "USER"
                                     /\ Posted(p)[m] = IdOf(m)
      /\ \A m \in Messages : m.kind = "user" /\ m.src = p /\ m.dst = p /\ m.tag = "USER" =>
            m \in DOMAIN Posted(p) /\ Posted(p)[m] = IdOf(m)
  BY CopyIs DEF Posted
<1> QED
  BY <1>1 DEF ToSelf

\* The handler of the next event of base b of p posts evs to send.
Posts(p, b, evs) ==
    /\ queue[p][b] # <<>> /\ NextEvent(p, b).op # "send"
    /\ evs \in Seq(Events) /\ \A i \in DOMAIN evs : evs[i].op = "send"
    /\ Handled(p, b, evs, <<>>) /\ channel' = channel

\* What that does to what f draws.
Shifted(p, b, evs, f, S) ==
    /\ Arriving(p, f) = Part(NextEvent(p, b), OnRecv(f)) \o Arriving(p, f)'
    /\ Leaving(p, f)' = Leaving(p, f) \o Drawn(evs, OnSend(f))
    /\ Arriving(p, f)' \in Seq(S) /\ Drawn(evs, OnSend(f)) \in Seq(S)
    /\ \A r \in Proc : r # p => Arriving(r, f)' = Arriving(r, f) /\ Leaving(r, f)' = Leaving(r, f)
    /\ \A a, c \in Proc : Across(a, c, f)' = Across(a, c, f)

LEMMA PostedAll ==
    ASSUME TypeOK, RouteInv, NEW p \in Proc, NEW b \in Base, NEW evs, Posts(p, b, evs), NEW f, NEW S, Values(f, S)
    PROVE  Shifted(p, b, evs, f, S)
<1>0. /\ queue[p][b] # <<>> /\ NextEvent(p, b).op # "send"
      /\ evs \in Seq(Events) /\ \A i \in DOMAIN evs : evs[i].op = "send"
      /\ Handled(p, b, evs, <<>>) /\ channel' = channel
  BY DEF Posts
<1>1. /\ \A g, T : Values(g, T) =>
            /\ Arriving(p, g) = Part(NextEvent(p, b), OnRecv(g)) \o Arriving(p, g)'
            /\ Leaving(p, g)' = Leaving(p, g) \o Drawn(evs, OnSend(g))
            /\ Arriving(p, g)' \in Seq(T) /\ Drawn(evs, OnSend(g)) \in Seq(T)
      /\ \A r \in Proc : r # p => queue'[r] = queue[r]
  BY <1>0, PostIs
<1>2. \A r \in Proc : r # p => Arriving(r, f)' = Arriving(r, f) /\ Leaving(r, f)' = Leaving(r, f)
  BY <1>1 DEF Arriving, Leaving
<1>3. \A a, c \in Proc : Across(a, c, f)' = Across(a, c, f)
  BY <1>0 DEF Across
<1> QED
  BY <1>1, <1>2, <1>3 DEF Shifted

LEMMA PostedNoRequest ==
    ASSUME TypeOK, RouteInv, NEW p \in Proc, NEW b \in Base, NEW evs, Posts(p, b, evs), NextEvent(p, b).op # "xcast"
    PROVE  NoneAsked
<1> DEFINE e == NextEvent(p, b)
<1>0. /\ queue[p][b] # <<>> /\ e.op # "send" /\ evs \in Seq(Events) /\ \A i \in DOMAIN evs : evs[i].op = "send"
      /\ Handled(p, b, evs, <<>>) /\ channel' = channel
  BY DEF Posts
<1>1. /\ Drawn(queue[p]["ev"], Asked) = Part(e, Asked) \o Drawn(queue[p]["ev"], Asked)'
      /\ \A r \in Proc : r # p => queue'[r] = queue[r]
  BY <1>0, PostIs
<1>4. NoneAsked
  <2>1. Part(e, Asked) = <<>>
    BY AskedFacts
  <2>3. Drawn(queue[p]["ev"], Asked)' = Drawn(queue[p]["ev"], Asked)
    <3>1. PICK x : x = Drawn(queue[p]["ev"], Asked)'
      OBVIOUS
    <3>2. Drawn(queue[p]["ev"], Asked) = <<>> \o x
      BY <1>1, <2>1, <3>1
    <3>3. queue' \in [Proc -> [Base -> Seq(Events)]]
      <4>1. queue \in [Proc -> [Base -> Seq(Events)]] /\ draining \in [Proc -> BOOLEAN] /\ <<>> \in Seq(Events)
        BY DEF TypeOK
      <4> QED
        BY <1>0, <4>1, HandledIs
    <3>4. x \in Seq(1..Xcasts)
      <4>1. queue'[p]["ev"] \in Seq(Events)
        BY <3>3, TreeFacts
      <4>2. Drawn(queue'[p]["ev"], Asked) \in Seq(1..Xcasts)
        BY <4>1, AskedFacts, DrawnType
      <4> QED
        BY <3>1, <4>2 DEF Asked
    <3>5. <<>> \o x = x
      BY <3>4
    <3> QED
      BY <3>1, <3>2, <3>5
  <2> QED
    BY <1>1, <2>3 DEF NoneAsked
<1> QED
  BY <1>4

\* What a handler neither takes nor posts stays where it is.
LEMMA PostStill ==
    ASSUME TypeOK, RouteInv, NEW p \in Proc, NEW b \in Base, NEW evs, Posts(p, b, evs), NEW f, NEW S, Values(f, S),
           Part(NextEvent(p, b), OnRecv(f)) = <<>>, Drawn(evs, OnSend(f)) = <<>>
    PROVE  Still(f)
<1> DEFINE A1 == Arriving(p, f)'
           L == Leaving(p, f)
<1>0. Shifted(p, b, evs, f, S)
  BY PostedAll
<1>1. A1 \in Seq(S) /\ L \in Seq(S)
  BY <1>0, LinkTypes DEF Shifted
<1>6. /\ Arriving(p, f) = Part(NextEvent(p, b), OnRecv(f)) \o Arriving(p, f)'
      /\ Leaving(p, f)' = Leaving(p, f) \o Drawn(evs, OnSend(f))
  BY <1>0 DEF Shifted
<1>2. Arriving(p, f) = <<>> \o A1 /\ Leaving(p, f)' = L \o <<>>
  BY <1>6
<1> HIDE DEF A1, L
<1>3. <<>> \o A1 = A1 /\ L \o <<>> = L
  BY <1>1
<1>4. Arriving(p, f)' = Arriving(p, f) /\ Leaving(p, f)' = Leaving(p, f)
  BY <1>2, <1>3 DEF A1, L
<1>5. /\ \A r \in Proc : r # p => Arriving(r, f)' = Arriving(r, f) /\ Leaving(r, f)' = Leaving(r, f)
      /\ \A a, c \in Proc : Across(a, c, f)' = Across(a, c, f)
  BY <1>0 DEF Shifted
<1> QED
  BY <1>4, <1>5 DEF Still, Quiet

\* A handler that neither takes nor posts a user's message leaves them alone.
LEMMA QuietPost ==
    ASSUME TypeOK, RouteInv, NEW p \in Proc, NEW b \in Base, queue[p][b] # <<>>, NextEvent(p, b).op # "send",
           NEW evs \in Seq(Events), \A i \in DOMAIN evs : evs[i].op = "send", Handled(p, b, evs, <<>>),
           NextEvent(p, b).op = "recv" => NextEvent(p, b).msg.kind # "user",
           \A i \in DOMAIN evs : evs[i].msg.kind # "user", channel' = channel
    PROVE  /\ \A f, S : Values(f, S) /\ UserOnly(f) => Still(f)
           /\ NextEvent(p, b).op # "xcast" => NoneAsked
<1> DEFINE e == NextEvent(p, b)
<1>1. Posts(p, b, evs)
  BY DEF Posts
<1>2. e \in Events /\ (e.op = "recv" => e = Recv(e.msg))
  BY NextAt, EventTypes
<1>3. ASSUME NEW f, NEW S, Values(f, S), UserOnly(f) PROVE Still(f)
  <2>1. Part(e, OnRecv(f)) = <<>>
    <3>1. DOMAIN OnRecv(f) = {Recv(m) : m \in DOMAIN f}
      BY DEF OnRecv
    <3>2. e \notin DOMAIN OnRecv(f)
      BY <1>2, <1>3, <3>1, EventTypes DEF UserOnly
    <3> QED
      BY <3>2 DEF Part
  <2>2. Drawn(evs, OnSend(f)) = <<>>
    <3>1. DOMAIN OnSend(f) = {Send(m) : m \in DOMAIN f}
      BY DEF OnSend
    <3>2. \A i \in DOMAIN evs : evs[i] \notin DOMAIN OnSend(f)
      BY <1>3, <3>1, EventTypes DEF UserOnly
    <3> DEFINE D == OnSend(f)
    <3> HIDE DEF D
    <3>3. \A i \in DOMAIN evs : evs[i] \notin DOMAIN D
      BY <3>2 DEF D
    <3>4. Drawn(evs, D) = <<>>
      BY <3>3, DrawnNone
    <3> QED
      BY <3>4 DEF D
  <2> QED
    BY <1>1, <1>3, <2>1, <2>2, PostStill
<1>4. e.op # "xcast" => NoneAsked
  BY <1>1, PostedNoRequest
<1> QED
  BY <1>3, <1>4

-----------------------------------------------------------------------------
(* Numbers in line. *)

LEMMA FirstFacts ==
    ASSUME NEW s, NEW k \in 1..Xcasts, NEW t \in Seq(1..Xcasts), s = <<k>> \o t
    PROVE  /\ \A v : Has(s, v) <=> v = k \/ Has(t, v)
           /\ Ascending(s) => Ascending(t) /\ \A v : Has(t, v) => k < v
<1> DEFINE u == <<k>>
           S == 1..Xcasts
<1>1. u \in Seq(S) /\ t \in Seq(S) /\ Len(u) = 1 /\ u[1] = k /\ s = u \o t
  OBVIOUS
<1> HIDE DEF u, S
<1>2. /\ DOMAIN s = 1..(1 + Len(t)) /\ DOMAIN t = 1..Len(t) /\ Len(t) \in Nat
      /\ s[1] = k /\ \A i \in DOMAIN t : s[1 + i] = t[i]
  BY <1>1
<1>3. 1 \in DOMAIN s /\ s[1] = k
  BY <1>2
<1>6. \A i \in DOMAIN s : (i - 1 \in DOMAIN t /\ s[i] = t[i - 1]) \/ s[i] = k
  <2> TAKE i \in DOMAIN s
  <2>1. i = 1 \/ (i - 1 \in 1..Len(t) /\ 1 + (i - 1) = i)
    BY <1>2
  <2> QED
    BY <1>2, <2>1
<1>7. \A i \in DOMAIN t : 1 + i \in DOMAIN s /\ s[1 + i] = t[i]
  BY <1>2
<1>4. \A v : Has(s, v) <=> v = k \/ Has(t, v)
  <2>1. ASSUME NEW v, Has(s, v) PROVE v = k \/ Has(t, v)
    BY <1>6, <2>1 DEF Has
  <2>2. ASSUME NEW v, v = k \/ Has(t, v) PROVE Has(s, v)
    BY <1>3, <1>7, <2>2 DEF Has
  <2> QED
    BY <2>1, <2>2
<1>5. ASSUME Ascending(s) PROVE Ascending(t) /\ \A v : Has(t, v) => k < v
  <2>1. \A i, j \in DOMAIN t : i < j => t[i] < t[j]
    <3> TAKE i, j \in DOMAIN t
    <3> HAVE i < j
    <3>1. 1 + i \in DOMAIN s /\ 1 + j \in DOMAIN s /\ 1 + i < 1 + j /\ s[1 + i] = t[i] /\ s[1 + j] = t[j]
      BY <1>2
    <3> QED
      BY <1>5, <3>1 DEF Ascending
  <2>2. \A i \in DOMAIN t : k < t[i]
    <3> TAKE i \in DOMAIN t
    <3>1. 1 + i \in DOMAIN s /\ 1 < 1 + i /\ s[1 + i] = t[i]
      BY <1>2
    <3> QED
      BY <1>3, <1>5, <3>1 DEF Ascending
  <2> QED
    BY <2>1, <2>2 DEF Ascending, Has
<1> QED
  BY <1>4, <1>5

LEMMA LastFacts ==
    ASSUME NEW s, NEW k \in 1..Xcasts, NEW t \in Seq(1..Xcasts), s = t \o <<k>>
    PROVE  /\ \A v : Has(s, v) <=> v = k \/ Has(t, v)
           /\ Ascending(t) /\ (\A v : Has(t, v) => v < k) => Ascending(s)
<1> DEFINE u == <<k>>
           S == 1..Xcasts
<1>1. u \in Seq(S) /\ t \in Seq(S) /\ Len(u) = 1 /\ u[1] = k /\ s = t \o u
  OBVIOUS
<1> HIDE DEF u, S
<1>2. /\ DOMAIN s = 1..(Len(t) + 1) /\ DOMAIN t = 1..Len(t) /\ Len(t) \in Nat
      /\ s[Len(t) + 1] = k /\ \A i \in DOMAIN t : s[i] = t[i]
  BY <1>1
<1>3. Len(t) + 1 \in DOMAIN s /\ s[Len(t) + 1] = k
  BY <1>2
<1>4. \A i \in DOMAIN s : i \in Nat /\ ((i \in DOMAIN t /\ s[i] = t[i]) \/ (i = Len(t) + 1 /\ s[i] = k))
  BY <1>2
<1>7. \A i \in DOMAIN t : i \in DOMAIN s
  BY <1>2
<1>5. \A v : Has(s, v) <=> v = k \/ Has(t, v)
  BY <1>2, <1>3, <1>4, <1>7 DEF Has
<1>6. ASSUME Ascending(t), \A v : Has(t, v) => v < k PROVE Ascending(s)
  <2> SUFFICES ASSUME NEW i \in DOMAIN s, NEW j \in DOMAIN s, i < j PROVE s[i] < s[j]
    BY DEF Ascending
  <2>1. i \in DOMAIN t /\ s[i] = t[i]
    BY <1>2, <1>4
  <2> QED
    BY <1>4, <1>6, <2>1 DEF Ascending, Has
<1> QED
  BY <1>5, <1>6

\* The order between two stops is one of the numbers in them.
LEMMA BeforeHas == \A s, t : Before(s, t) <=> \A v, w : Has(s, v) /\ Has(t, w) => v < w
  BY DEF Before, Has

\* A step of one number to a stop further ahead.
LEMMA AdvanceLined ==
    ASSUME NEW st \in [0..N -> Seq(1..Xcasts)], NEW st2 \in [0..N -> Seq(1..Xcasts)],
           NEW n \in Nat, NEW past \in SUBSET (1..Xcasts), Lined(st, n, past),
           NEW x \in 0..N, NEW y \in 0..N, x # y, NEW k \in 1..Xcasts, Advanced(st, st2, x, y, k), Ahead(y, x),
           \A v \in 0..N : Ahead(y, v) => v = x \/ Ahead(x, v) \/ st[v] = <<>>,
           \A u \in 0..N : Ahead(u, y) => Ahead(u, x) /\ u # x /\ u # y
    PROVE  Lined(st2, n, past)
<1>1. st[x] = <<k>> \o st2[x] /\ st2[y] = st[y] \o <<k>> /\ \A z \in 0..N : z # x /\ z # y => st2[z] = st[z]
  BY DEF Advanced
<1>2. /\ \A z \in 0..N : Ascending(st[z])
      /\ \A z, v \in 0..N : Ahead(z, v) => Before(st[z], st[v])
      /\ \A z \in 0..N : \A i \in DOMAIN st[z] : st[z][i] <= n /\ \A l \in past : l < st[z][i]
      /\ \A l \in past : l <= n
      /\ \A l \in 1..n : l \in past \/ \E z \in 0..N : Has(st[z], l)
  BY DEF Lined
<1>3. 1..Xcasts \subseteq Nat
  OBVIOUS
<1>4. /\ \A v : Has(st[x], v) <=> v = k \/ Has(st2[x], v)
      /\ Ascending(st2[x]) /\ \A v : Has(st2[x], v) => k < v
  <2>1. st2[x] \in Seq(1..Xcasts) /\ Ascending(st[x])
    BY <1>2
  <2> QED
    BY <1>1, <2>1, FirstFacts
<1>5. \A v : Has(st[y], v) => v < k
  <2>1. Before(st[y], st[x])
    BY <1>2
  <2> QED
    BY <1>4, <2>1, BeforeHas
<1>6. /\ \A v : Has(st2[y], v) <=> v = k \/ Has(st[y], v)
      /\ Ascending(st2[y])
  <2>1. st[y] \in Seq(1..Xcasts) /\ Ascending(st[y])
    BY <1>2
  <2> QED
    BY <1>1, <1>5, <2>1, LastFacts
<1>7. \A z \in 0..N : /\ \A v : Has(st2[z], v) => Has(st[z], v) \/ (z = y /\ v = k)
                      /\ \A v : Has(st[z], v) => Has(st2[z], v) \/ (z = x /\ v = k)
  BY <1>1, <1>4, <1>6
<1>8. \A z \in 0..N : Ascending(st2[z])
  BY <1>1, <1>2, <1>4, <1>6
<1>9. ASSUME NEW u \in 0..N, NEW v \in 0..N, Ahead(u, v) PROVE Before(st2[u], st2[v])
  <2> SUFFICES ASSUME NEW a, NEW b, Has(st2[u], a), Has(st2[v], b) PROVE a < b
    BY BeforeHas
  <2>1. CASE u = y
    <3>1. CASE v = x
      BY <1>4, <1>5, <1>6, <1>9, <1>2, <1>7, <2>1, <3>1, BeforeHas
    <3>2. CASE v # x /\ Ahead(x, v)
      <4>1. v # y
        BY <1>9, <2>1
      <4>2. Has(st[v], b)
        BY <1>7, <4>1
      <4>3. k < b /\ (Has(st[y], a) => a < b)
        BY <1>2, <1>4, <1>9, <2>1, <3>2, <4>2, BeforeHas
      <4> QED
        BY <1>6, <2>1, <4>3
    <3>3. CASE v # x /\ st[v] = <<>>
      <4>1. v # y
        BY <1>9, <2>1
      <4>2. Has(<<>>, b)
        BY <1>7, <3>3, <4>1
      <4> QED
        BY <4>2 DEF Has
    <3> QED
      BY <1>9, <2>1, <3>1, <3>2, <3>3
  <2>2. CASE u # y /\ v = y
    <3>1. Ahead(u, x) /\ Has(st[u], a)
      BY <1>7, <1>9, <2>2
    <3>2. a < k /\ (Has(st[y], b) => a < b)
      BY <1>2, <1>4, <1>9, <2>2, <3>1, BeforeHas
    <3> QED
      BY <1>6, <2>2, <3>2
  <2>3. CASE u # y /\ v # y
    BY <1>2, <1>7, <1>9, <2>3, BeforeHas
  <2> QED
    BY <2>1, <2>2, <2>3
<1>10. \A z \in 0..N : \A v : Has(st[z], v) => v <= n /\ \A l \in past : l < v
  BY <1>2 DEF Has
<1>11. \A z \in 0..N : \A v : Has(st2[z], v) => v <= n /\ \A l \in past : l < v
  BY <1>4, <1>7, <1>10
<1>12. \A z \in 0..N : \A i \in DOMAIN st2[z] : st2[z][i] <= n /\ \A l \in past : l < st2[z][i]
  BY <1>11 DEF Has
<1>13. \A l \in 1..n : l \in past \/ \E z \in 0..N : Has(st2[z], l)
  BY <1>2, <1>6, <1>7
<1> QED
  BY <1>2, <1>8, <1>9, <1>12, <1>13 DEF Lined

\* A new number comes last.
LEMMA EnterLined ==
    ASSUME NEW st \in [0..N -> Seq(1..Xcasts)], NEW st2 \in [0..N -> Seq(1..Xcasts)],
           NEW n \in Nat, NEW past \in SUBSET (1..Xcasts), Lined(st, n, past), n + 1 \in 1..Xcasts,
           st2[N] = st[N] \o <<n + 1>>, \A z \in 0..N : z # N => st2[z] = st[z]
    PROVE  Lined(st2, n + 1, past)
<1>0. N \in 0..N
  BY TreeFacts
<1>1. /\ \A z \in 0..N : Ascending(st[z])
      /\ \A z, v \in 0..N : Ahead(z, v) => Before(st[z], st[v])
      /\ \A z \in 0..N : \A i \in DOMAIN st[z] : st[z][i] <= n /\ \A l \in past : l < st[z][i]
      /\ \A l \in past : l <= n
      /\ \A l \in 1..n : l \in past \/ \E z \in 0..N : Has(st[z], l)
  BY DEF Lined
<1>2. \A z \in 0..N : \A v : Has(st[z], v) => v \in Nat /\ v <= n /\ v < n + 1 /\ \A l \in past : l < v
  <2> TAKE z \in 0..N
  <2> TAKE v
  <2> HAVE Has(st[z], v)
  <2>1. PICK i \in DOMAIN st[z] : st[z][i] = v
    BY DEF Has
  <2>2. st[z] \in Seq(1..Xcasts)
    OBVIOUS
  <2> DEFINE T == 1..Xcasts
             s == st[z]
  <2>4. s \in Seq(T) /\ i \in DOMAIN s
    BY <2>1, <2>2
  <2> HIDE DEF T, s
  <2>5. s[i] \in T
    BY <2>4
  <2>3. st[z][i] \in 1..Xcasts
    BY <2>5 DEF T, s
  <2> QED
    BY <1>1, <2>1, <2>3
<1>3. /\ \A v : Has(st2[N], v) <=> v = n + 1 \/ Has(st[N], v)
      /\ Ascending(st2[N])
  <2>1. st[N] \in Seq(1..Xcasts) /\ Ascending(st[N]) /\ \A v : Has(st[N], v) => v < n + 1
    BY <1>0, <1>1, <1>2
  <2> QED
    BY <2>1, LastFacts
<1>4. \A z \in 0..N : /\ \A v : Has(st2[z], v) => Has(st[z], v) \/ (z = N /\ v = n + 1)
                      /\ \A v : Has(st[z], v) => Has(st2[z], v)
  BY <1>3
<1>5. \A z \in 0..N : Ascending(st2[z])
  BY <1>1, <1>3
<1>6. ASSUME NEW u \in 0..N, NEW v \in 0..N, Ahead(u, v) PROVE Before(st2[u], st2[v])
  <2> SUFFICES ASSUME NEW a, NEW b, Has(st2[u], a), Has(st2[v], b) PROVE a < b
    BY BeforeHas
  <2>1. u # N
    BY <1>6 DEF Ahead
  <2>2. Has(st[u], a)
    BY <1>4, <2>1
  <2>3. Has(st[v], b) => a < b
    BY <1>1, <1>6, <2>2, BeforeHas
  <2>4. a < n + 1
    BY <1>2, <2>2
  <2> QED
    BY <1>4, <2>3, <2>4
<1>7. \A z \in 0..N : \A v : Has(st2[z], v) => v <= n + 1 /\ \A l \in past : l < v
  <2>1. n + 1 <= n + 1 /\ \A l \in past : l < n + 1
    <3>1. \A l \in past : l \in Nat /\ l <= n
      BY <1>1
    <3> QED
      BY <3>1
  <2>2. \A v \in Nat : v <= n => v <= n + 1
    OBVIOUS
  <2> QED
    BY <1>2, <1>4, <2>1, <2>2
<1>8. \A z \in 0..N : \A i \in DOMAIN st2[z] : st2[z][i] <= n + 1 /\ \A l \in past : l < st2[z][i]
  BY <1>7 DEF Has
<1>9. \A l \in 1..(n + 1) : l \in past \/ \E z \in 0..N : Has(st2[z], l)
  <2> TAKE l \in 1..(n + 1)
  <2>1. CASE l \in 1..n
    BY <1>1, <1>4, <2>1
  <2>2. CASE l = n + 1
    BY <1>0, <1>3, <2>2
  <2> QED
    BY <2>1, <2>2
<1>10. \A l \in past : l <= n + 1
  <2> TAKE l \in past
  <2>1. l \in Nat /\ l <= n
    BY <1>1
  <2> QED
    BY <2>1
<1> QED
  BY <1>5, <1>6, <1>8, <1>9, <1>10 DEF Lined

\* The first at the master is the next to be passed on.
LEMMA LeaveLined ==
    ASSUME NEW st \in [0..N -> Seq(1..Xcasts)], NEW st2 \in [0..N -> Seq(1..Xcasts)],
           NEW n \in Nat, NEW past \in SUBSET (1..Xcasts), Lined(st, n, past), NEW k \in 1..Xcasts,
           st[Master] = <<k>> \o st2[Master], \A z \in 0..N : z # Master => st2[z] = st[z]
    PROVE  /\ Lined(st2, n, past \cup {k})
           /\ k \notin past /\ \A l \in 1..(k - 1) : l \in past
<1>0. Master \in 0..N /\ \A z \in 0..N : z # Master => Ahead(Master, z)
  BY TreeFacts, BelowFacts DEF Ahead
<1>1. /\ \A z \in 0..N : Ascending(st[z])
      /\ \A z, v \in 0..N : Ahead(z, v) => Before(st[z], st[v])
      /\ \A z \in 0..N : \A i \in DOMAIN st[z] : st[z][i] <= n /\ \A l \in past : l < st[z][i]
      /\ \A l \in past : l <= n
      /\ \A l \in 1..n : l \in past \/ \E z \in 0..N : Has(st[z], l)
  BY DEF Lined
<1>2. \A z \in 0..N : \A v : Has(st[z], v) => v <= n /\ \A l \in past : l < v
  BY <1>1 DEF Has
<1>3. /\ \A v : Has(st[Master], v) <=> v = k \/ Has(st2[Master], v)
      /\ Ascending(st2[Master]) /\ \A v : Has(st2[Master], v) => k < v
  <2>1. st2[Master] \in Seq(1..Xcasts)
    BY <1>0
  <2>2. Ascending(st[Master])
    BY <1>0, <1>1
  <2> QED
    BY <2>1, <2>2, FirstFacts
<1>4. \A z \in 0..N : /\ \A v : Has(st2[z], v) => Has(st[z], v) /\ k < v
                      /\ \A v : Has(st[z], v) => Has(st2[z], v) \/ (z = Master /\ v = k)
  <2> TAKE z \in 0..N
  <2>1. CASE z = Master
    BY <1>3, <2>1
  <2>2. CASE z # Master
    <3>1. Before(st[Master], st[z]) /\ st2[z] = st[z]
      BY <1>0, <1>1, <2>2
    <3> QED
      BY <1>3, <2>2, <3>1, BeforeHas
  <2> QED
    BY <2>1, <2>2
<1>5. \A z \in 0..N : Ascending(st2[z])
  BY <1>1, <1>3
<1>6. \A u, v \in 0..N : Ahead(u, v) => Before(st2[u], st2[v])
  BY <1>1, <1>4, BeforeHas
<1>7. \A z \in 0..N : \A v : Has(st2[z], v) => v <= n /\ \A l \in past \cup {k} : l < v
  BY <1>2, <1>4
<1>8. \A z \in 0..N : \A i \in DOMAIN st2[z] : st2[z][i] <= n /\ \A l \in past \cup {k} : l < st2[z][i]
  BY <1>7 DEF Has
<1>9. \A l \in 1..n : l \in past \cup {k} \/ \E z \in 0..N : Has(st2[z], l)
  BY <1>1, <1>4
<1>10. k <= n /\ k \notin past
  <2>1. Has(st[Master], k)
    BY <1>3
  <2>2. k <= n /\ \A l \in past : l < k
    BY <1>0, <1>2, <2>1
  <2>3. ~(k < k)
    OBVIOUS
  <2> QED
    BY <2>2, <2>3
<1>11. \A l \in 1..(k - 1) : l \in past
  <2> SUFFICES ASSUME NEW l \in 1..(k - 1) PROVE l \in past
    OBVIOUS
  <2>1. l \in 1..n /\ ~(k < l) /\ l # k
    BY <1>10
  <2> QED
    BY <1>1, <1>4, <2>1
<1>12. \A l \in past \cup {k} : l <= n
  BY <1>1, <1>10
<1> QED
  BY <1>5, <1>6, <1>8, <1>9, <1>10, <1>11, <1>12 DEF Lined

-----------------------------------------------------------------------------
(* What a step leaves as it is. *)

\* Queues and connections keep their types and hold only what belongs there.
Carried == TypedNext /\ draining' \in [Proc -> BOOLEAN] /\ RouteInv'
UsersOK ==
    /\ prog \in [Scons -> [1..Rounds -> Kinds]]
    /\ calls \in [Proc -> [Scons -> Seq(0..Xcasts)]]
    /\ nxcasts \in [Proc -> 0..Xcasts]
    /\ delivered \in [Proc -> Seq(Ids)]
    /\ log \in [Proc -> [Scons -> Seq([round : 1..Rounds, contents : Contents])]]
TrackersOK ==
    /\ last_seq \in [Proc -> Nat \cup {-1}]
    /\ ongoing \in [Proc -> Seq(OngoingTrackers)]
    /\ creating \in [Proc -> [Base -> Sigs \cup {NoSig}]]
    /\ releasing \in [Proc -> 0..2]
    /\ crashed \in [Proc -> BOOLEAN]

LEMMA TypesAre ==
    /\ TypeOK => UsersOK /\ TrackersOK
    /\ Carried /\ UsersOK' /\ TrackersOK' => TypeOK' /\ RouteInv'
<1>1. TypeOK => UsersOK /\ TrackersOK
  BY DEF TypeOK, UsersOK, TrackersOK
<1>2. Carried /\ UsersOK' /\ TrackersOK' => TypeOK' /\ RouteInv'
  BY DEF TypeOK, UsersOK, TrackersOK, Carried, TypedNext, Events, Messages, CollMessages, UserMessages,
         Ids, Kinds, Contents, Sigs, OngoingTrackers
<1> QED
  BY <1>1, <1>2

LEMMA UsersSame == UsersOK /\ UNCHANGED users => UsersOK'
  BY DEF UsersOK, users, Kinds, Ids, Contents

LEMMA TrackersSame == TrackersOK /\ UNCHANGED trackers => TrackersOK'
  BY DEF TrackersOK, trackers, OngoingTrackers, Sigs, Contents

\* A handler that posts what belongs where it is posted.
LEMMA HandledCarried ==
    ASSUME TypeOK, RouteInv, NEW p \in Proc, NEW b \in Base, queue[p][b] # <<>>,
           NEW evs \in Seq(EventsAt(p, "ev")), Handled(p, b, evs, <<>>), channel' = channel
    PROVE  Carried /\ evs \in Seq(Events)
<1> DEFINE none == <<>>
<1>1. none \in Seq(EventsAt(p, pt2pt_evbase(p))) /\ Handled(p, b, evs, none)
  OBVIOUS
<1> HIDE DEF none
<1>2. /\ queue' \in [Proc -> [Base -> Seq(Events)]] /\ draining' \in [Proc -> BOOLEAN]
      /\ \A r \in Proc, x \in Base : queue'[r][x] \in Seq(EventsAt(r, x))
  BY <1>1, HandledRoutes
<1>3. \A a, c \in Proc : channel'[a][c] \in Seq(MessagesAt(a, c))
  BY DEF RouteInv
<1>4. TypedNext
  BY <1>2 DEF TypedNext, TypeOK
<1>5. RouteInv'
  BY <1>2, <1>3 DEF RouteInv, EventsAt, MessagesAt, EventAt, RecvAt, SendAt, CrossAt
<1>6. evs \in Seq(Events)
  <2>1. EventsAt(p, "ev") \subseteq Events
    BY DEF EventsAt
  <2> QED
    BY <2>1, SeqSubset
<1> QED
  BY <1>2, <1>4, <1>5, <1>6 DEF Carried

LEMMA UnchangedCarried ==
    ASSUME TypeOK, RouteInv, UNCHANGED <<queue, draining, channel>>
    PROVE  Carried /\ NoneAsked /\ \A f : Still(f)
<1>1. Carried
  BY DEF Carried, TypedNext, TypeOK, RouteInv, EventsAt, MessagesAt, EventAt, RecvAt, SendAt, CrossAt
<1>2. NoneAsked
  BY DEF NoneAsked, Asked
<1>3. \A f : Still(f)
  BY DEF Still, Quiet, Leaving, Arriving, Across
<1> QED
  BY <1>1, <1>2, <1>3

\* An activation from the user's thread.
LEMMA ActivateCarried ==
    ASSUME TypeOK, RouteInv, NEW p \in Proc, NEW e \in Events, e.op \in {"call", "xcast"}, Activate(p, e),
           channel' = channel, draining' = draining
    PROVE  /\ Carried /\ \A f, S : Values(f, S) => Still(f)
           /\ \A r \in Proc : Drawn(queue[r]["ev"], Asked)' =
                  IF r = p THEN Drawn(queue[r]["ev"], Asked) \o Part(e, Asked) ELSE Drawn(queue[r]["ev"], Asked)
<1>1. /\ queue' \in [Proc -> [Base -> Seq(Events)]]
      /\ \A r \in Proc, x \in Base : queue'[r][x] =
            IF r = p /\ x = "ev" THEN Append(queue[r][x], e) ELSE queue[r][x]
  <2>1. queue \in [Proc -> [Base -> Seq(Events)]]
    BY DEF TypeOK
  <2> QED
    BY <2>1, ActivateIs
<1>2. "ev" \in Base /\ \A r \in Proc : pt2pt_evbase(r) \in Base
  BY TreeFacts
<1> DEFINE s == queue[p]["ev"]
           long == Append(s, e)
<1>3. s \in Seq(Events) /\ s \in Seq(EventsAt(p, "ev"))
  BY <1>2 DEF TypeOK, RouteInv
<1>4. queue'[p]["ev"] = long /\ \A r \in Proc, x \in Base : r # p \/ x # "ev" => queue'[r][x] = queue[r][x]
  BY <1>1, <1>2
<1>5. e \in EventsAt(p, "ev")
  BY DEF EventsAt, EventAt
<1> HIDE DEF s
<1>6. long \in Seq(EventsAt(p, "ev"))
  BY <1>3, <1>5
<1>7. ASSUME NEW g, NEW S, Values(g, S) PROVE Drawn(long, g) = Drawn(s, g) \o Part(e, g) /\ Drawn(s, g) \in Seq(S)
  BY <1>3, <1>7, DrawnAppend, DrawnType
<1> HIDE DEF long
<1>8. Carried
  <2>1. \A r \in Proc, x \in Base : queue'[r][x] \in Seq(EventsAt(r, x))
    <3> TAKE r \in Proc, x \in Base
    <3>1. CASE r = p /\ x = "ev"
      BY <1>4, <1>6, <3>1
    <3>2. CASE r # p \/ x # "ev"
      BY <1>4, <3>2 DEF RouteInv
    <3> QED
      BY <3>1, <3>2
  <2>2. \A a, c \in Proc : channel'[a][c] \in Seq(MessagesAt(a, c))
    BY DEF RouteInv
  <2>3. RouteInv'
    BY <2>1, <2>2 DEF RouteInv, EventsAt, MessagesAt, EventAt, RecvAt, SendAt, CrossAt
  <2>4. TypedNext /\ draining' \in [Proc -> BOOLEAN]
    BY <1>1 DEF TypedNext, TypeOK
  <2> QED
    BY <2>3, <2>4 DEF Carried
<1>9. ASSUME NEW f, NEW S, Values(f, S) PROVE Still(f)
  <2>1. \A r \in Proc, x \in Base : \A g, T : Values(g, T) /\ Part(e, g) = <<>> => Drawn(queue'[r][x], g) = Drawn(queue[r][x], g)
    <3> SUFFICES ASSUME NEW r \in Proc, NEW x \in Base, NEW g, NEW T, Values(g, T), Part(e, g) = <<>>
                 PROVE  Drawn(queue'[r][x], g) = Drawn(queue[r][x], g)
      OBVIOUS
    <3>1. CASE r = p /\ x = "ev"
      <4> DEFINE d == Drawn(s, g)
      <4>1. d \in Seq(T) /\ Drawn(long, g) = d \o <<>>
        BY <1>7
      <4> HIDE DEF d
      <4>2. d \o <<>> = d
        BY <4>1
      <4> QED
        BY <1>4, <3>1, <4>1, <4>2 DEF d, s
    <3>2. CASE r # p \/ x # "ev"
      BY <1>4, <3>2
    <3> QED
      BY <3>1, <3>2
  <2>2. /\ Values(OnRecv(f), S) /\ Values(OnSend(f), S)
        /\ Part(e, OnRecv(f)) = <<>> /\ Part(e, OnSend(f)) = <<>>
    BY <1>9, PartFacts
  <2>3. \A r \in Proc : Leaving(r, f)' = Leaving(r, f) /\ Arriving(r, f)' = Arriving(r, f)
    BY <1>2, <2>1, <2>2 DEF Leaving, Arriving
  <2>4. \A a, c \in Proc : Across(a, c, f)' = Across(a, c, f)
    BY DEF Across
  <2> QED
    BY <2>3, <2>4 DEF Still, Quiet
<1>10. \A r \in Proc : Drawn(queue'[r]["ev"], Asked) =
                  IF r = p THEN Drawn(queue[r]["ev"], Asked) \o Part(e, Asked) ELSE Drawn(queue[r]["ev"], Asked)
  <2> TAKE r \in Proc
  <2>1. CASE r = p
    BY <1>4, <1>7, <2>1, AskedFacts DEF s
  <2>2. CASE r # p
    BY <1>2, <1>4, <2>2
  <2> QED
    BY <2>1, <2>2
<1> QED
  BY <1>8, <1>9, <1>10 DEF Asked

\* Who sees the same has the same invariant.
SameStops == \A q \in Proc : Stops(q)' = Stops(q)
SameSeen == \A p \in Proc : Seen(p)' = Seen(p)
SameLinks == \A c \in 1..(N - 1) : Link(Parent[c], c, Relay(c))' = Link(Parent[c], c, Relay(c))

LEMMA PastSame == Seen(Master)' = Seen(Master) => \A q \in Proc : Past(q)' = Past(q)
  BY DEF Past

LEMMA SameView ==
    ASSUME DownInv, UpInv, InOrder(Seen(Master)), SameStops, SameSeen, SameLinks, nxcasts' = nxcasts
    PROVE  DownInv' /\ UpInv' /\ InOrder(Seen(Master))'
<1>1. DownInv'
  <2>1. ASSUME NEW c \in 1..(N - 1) PROVE Seen(Parent[c])' = Seen(c)' \o Link(Parent[c], c, Relay(c))'
    <3>1. Parent[c] \in Proc /\ c \in Proc
      BY TreeFacts
    <3>2. Seen(Parent[c])' = Seen(Parent[c]) /\ Seen(c)' = Seen(c)
      BY <3>1 DEF SameSeen
    <3> QED
      BY <3>2 DEF SameLinks, DownInv
  <2> QED
    BY <2>1 DEF DownInv
<1>2. Seen(Master)' = Seen(Master)
  BY TreeFacts DEF SameSeen
<1>3. UpInv'
  <2>1. ASSUME NEW q \in Proc PROVE Lined(Stops(q)', nxcasts'[q], Past(q)')
    <3>1. Past(q)' = Past(q) /\ Stops(q)' = Stops(q)
      BY <1>2, PastSame DEF SameStops
    <3> QED
      BY <3>1 DEF UpInv
  <2> QED
    BY <2>1 DEF UpInv, Lined, Ascending, Before, Has
<1>4. InOrder(Seen(Master))'
  BY <1>2
<1> QED
  BY <1>1, <1>3, <1>4

LEMMA StillView ==
    ASSUME TypeOK, TypedNext, NoneAsked, delivered' = delivered,
           \A f, S : Values(f, S) /\ UserOnly(f) => Still(f)
    PROVE  SameStops /\ SameSeen /\ SameLinks
<1>1. SameStops
  <2>1. ASSUME NEW q \in Proc PROVE Stops(q)' = Stops(q)
    <3>1. Values(Entering(q), 1..Xcasts) /\ UserOnly(Entering(q))
      BY EnteringIs DEF UserOnly
    <3>2. Still(Entering(q))
      BY <3>1
    <3>3. Drawn(queue[q]["ev"], Asked)' = Drawn(queue[q]["ev"], Asked)
      BY DEF NoneAsked
    <3> QED
      BY <3>2, <3>3, StopsSame
  <2> QED
    BY <2>1 DEF SameStops
<1>2. SameSeen
  <2>1. ASSUME NEW p \in Proc PROVE Seen(p)' = Seen(p)
    <3>1. Still(Posted(p))
      BY PostedIs
    <3>2. Arriving(p, Posted(p))' = Arriving(p, Posted(p)) /\ Leaving(p, Posted(p))' = Leaving(p, Posted(p))
      BY <3>1 DEF Still, Quiet
    <3> QED
      BY <3>2 DEF Seen, Self
  <2> QED
    BY <2>1 DEF SameSeen
<1>3. SameLinks
  <2>1. ASSUME NEW c \in 1..(N - 1) PROVE Link(Parent[c], c, Relay(c))' = Link(Parent[c], c, Relay(c))
    <3>1. Still(Relay(c))
      BY RelayIs
    <3>2. c \in Proc /\ Parent[c] \in Proc
      BY TreeFacts
    <3>3. /\ Arriving(c, Relay(c))' = Arriving(c, Relay(c)) /\ Leaving(Parent[c], Relay(c))' = Leaving(Parent[c], Relay(c))
          /\ Across(Parent[c], c, Relay(c))' = Across(Parent[c], c, Relay(c))
      BY <3>1, <3>2 DEF Still, Quiet
    <3> QED
      BY <3>3 DEF Link
  <2> QED
    BY <2>1 DEF SameLinks
<1> QED
  BY <1>1, <1>2, <1>3

-----------------------------------------------------------------------------
(* The trackers, for their types only: no xcast depends on them. *)

LEMMA FoundIs ==
    ASSUME TypeOK, NEW p \in Proc, NEW sig
    PROVE  Found(p, sig) \in 0..Len(ongoing[p])
<1> DEFINE s == ongoing[p]
           I == {i \in 1..Len(s) : s[i].sig = sig}
<1>1. s \in Seq(OngoingTrackers)
  BY DEF TypeOK
<1>2. Len(s) \in Nat
  <2> HIDE DEF s
  <2> QED
    BY <1>1
<1>3. Found(p, sig) = IF I # {} THEN Min(I) ELSE 0
  BY DEF Found, SelectInSeq
<1>4. I # {} => Min(I) \in I
  <2> SUFFICES ASSUME I # {} PROVE Min(I) \in I
    OBVIOUS
  <2>1. I \in SUBSET Nat
    BY <1>2
  <2> HIDE DEF I
  <2>2. \E m \in I : \A k \in I : m <= k
    BY <2>1, Least
  <2> QED
    BY <2>2 DEF Min
<1>5. \A i \in I : i \in 0..Len(s)
  BY <1>2
<1> HIDE DEF I
<1> QED
  BY <1>2, <1>3, <1>4, <1>5

LEMMA RemovedType ==
    ASSUME NEW T, NEW s \in Seq(T), NEW i \in 1..Len(s)
    PROVE  RemoveAt(s, i) \in Seq(T)
<1> DEFINE f == SubSeq(s, 1, i - 1)
           g == SubSeq(s, i + 1, Len(s))
<1>1. f \in Seq(T) /\ g \in Seq(T)
  OBVIOUS
<1>2. RemoveAt(s, i) = f \o g
  BY DEF RemoveAt
<1> HIDE DEF f, g
<1> QED
  BY <1>1, <1>2

LEMMA TrackersAre ==
    ASSUME TypeOK, NEW p \in Proc, NEW b \in Base, NEW sig \in Sigs
    PROVE  /\ Trackers(p, b, sig) \in Seq(OngoingTrackers)
           /\ Slot(p, b, sig) \in DOMAIN Trackers(p, b, sig)
<1> DEFINE s == ongoing[p]
           t == Tracker(sig)
           long == Append(s, t)
<1>1. s \in Seq(OngoingTrackers)
  BY DEF TypeOK
<1>2. t \in OngoingTrackers
  <2>1. 0 \in 0..Rounds /\ 0 \in Nat /\ {} \in Contents
    BY BoundsAssumption DEF Contents
  <2> QED
    BY <2>1 DEF Tracker, OngoingTrackers, NoReq
<1> HIDE DEF t, s
<1>3. long \in Seq(OngoingTrackers) /\ Len(s) + 1 \in DOMAIN long /\ DOMAIN s = 1..Len(s) /\ Len(s) \in Nat
  BY <1>1, <1>2
<1>4. Found(p, sig) \in 0..Len(s)
  BY FoundIs DEF s
<1> HIDE DEF long
<1>5. CASE Creates(p, b, sig)
  <2>1. Trackers(p, b, sig) = long /\ Slot(p, b, sig) = Len(s) + 1
    BY <1>5 DEF Trackers, Slot, s, t, long
  <2> QED
    BY <1>3, <2>1
<1>6. CASE ~Creates(p, b, sig)
  <2>1. Trackers(p, b, sig) = s /\ Slot(p, b, sig) = Found(p, sig) /\ Found(p, sig) # 0
    BY <1>6 DEF Trackers, Slot, s, Creates
  <2>2. Found(p, sig) \in 1..Len(s)
    BY <1>3, <1>4, <2>1
  <2> QED
    BY <1>1, <1>3, <2>1, <2>2
<1> QED
  BY <1>5, <1>6

\* A step of a handler that leaves the users' messages alone.
LEMMA QuietStep ==
    ASSUME XcastInv, Carried, NoneAsked, delivered' = delivered, nxcasts' = nxcasts,
           \A f, S : Values(f, S) /\ UserOnly(f) => Still(f),
           UsersOK', TrackersOK'
    PROVE  XcastInv'
<1>1. TypeOK /\ TypedNext
  BY DEF XcastInv, Carried
<1>2. SameStops /\ SameSeen /\ SameLinks
  BY <1>1, StillView
<1>3. DownInv' /\ UpInv' /\ InOrder(Seen(Master))'
  BY <1>2, SameView DEF XcastInv
<1>4. TypeOK' /\ RouteInv'
  BY TypesAre
<1> QED
  BY <1>3, <1>4 DEF XcastInv

LEMMA IssueStep ==
    ASSUME XcastInv, NEW p \in Proc, NEW s \in Scons, Issue(p, s)
    PROVE  XcastInv'
<1> DEFINE e == [op |-> "call", scon |-> s, round |-> Len(calls[p][s]) + 1]
           mine == calls[p][s]
<1>1. TypeOK /\ RouteInv /\ UsersOK /\ TrackersOK
  BY TypesAre DEF XcastInv
<1>2. /\ mine \in Seq(0..Xcasts) /\ Len(mine) < Rounds /\ nxcasts[p] \in 0..Xcasts
      /\ calls' = [calls EXCEPT ![p][s] = Append(mine, nxcasts[p])]
  BY <1>1 DEF Issue, UsersOK
<1>3. Len(mine) + 1 \in 1..Rounds /\ Append(mine, nxcasts[p]) \in Seq(0..Xcasts)
  <2>1. Len(mine) \in Nat
    BY <1>2
  <2>2. Len(mine) + 1 \in 1..Rounds
    BY <1>2, <2>1, BoundsAssumption
  <2>3. Append(mine, nxcasts[p]) \in Seq(0..Xcasts)
    <3> DEFINE T == 0..Xcasts
               v == nxcasts[p]
    <3>1. mine \in Seq(T) /\ v \in T
      BY <1>2
    <3> HIDE DEF mine, T, v
    <3>2. Append(mine, v) \in Seq(T)
      BY <3>1
    <3> QED
      BY <3>2 DEF T, v
  <2> QED
    BY <2>2, <2>3
<1>4. e \in Events /\ e.op = "call" /\ Activate(p, e) /\ channel' = channel /\ draining' = draining
  BY <1>3 DEF Events, Issue
<1> HIDE DEF e
<1>5. /\ Carried /\ \A f, S : Values(f, S) => Still(f)
      /\ \A r \in Proc : Drawn(queue[r]["ev"], Asked)' =
             IF r = p THEN Drawn(queue[r]["ev"], Asked) \o Part(e, Asked) ELSE Drawn(queue[r]["ev"], Asked)
  BY <1>1, <1>4, ActivateCarried
<1>6. NoneAsked
  <2> DEFINE d == Drawn(queue[p]["ev"], Asked)
  <2>1. Part(e, Asked) = <<>>
    BY <1>4, AskedFacts
  <2>2. d \in Seq(1..Xcasts)
    <3>1. queue[p]["ev"] \in Seq(Events)
      BY <1>1, TreeFacts DEF TypeOK
    <3> QED
      BY <3>1, AskedFacts, DrawnType
  <2>3. d \o <<>> = d
    <3> HIDE DEF d
    <3> QED
      BY <2>2
  <2> QED
    BY <1>5, <2>1, <2>3 DEF NoneAsked
<1> DEFINE T == Seq(0..Xcasts)
           long == Append(mine, nxcasts[p])
           row == [calls[p] EXCEPT ![s] = long]
<1>7. calls' \in [Proc -> [Scons -> T]]
  <2>1. calls \in [Proc -> [Scons -> T]] /\ long \in T /\ calls' = [calls EXCEPT ![p] = row]
    BY <1>1, <1>2, <1>3 DEF UsersOK
  <2> HIDE DEF T, long
  <2>2. row \in [Scons -> T]
    BY <2>1
  <2> HIDE DEF row
  <2> QED
    BY <2>1, <2>2
<1>8. UsersOK'
  BY <1>1, <1>7 DEF UsersOK, Issue, Kinds, Ids, Contents
<1>9. TrackersOK'
  BY <1>1, TrackersSame DEF Issue
<1>10. delivered' = delivered /\ nxcasts' = nxcasts
  BY DEF Issue
<1> QED
  BY <1>5, <1>6, <1>8, <1>9, <1>10, QuietStep

\* The tracker a handler leaves the list with, and the thread is past it.
LEMMA TrackersNext ==
    ASSUME TypeOK, NEW p \in Proc, NEW b \in Base, NEW list \in Seq(OngoingTrackers), NEW i \in DOMAIN list,
           NEW t \in OngoingTrackers,
           ongoing' = [ongoing EXCEPT ![p] = [list EXCEPT ![i] = t]],
           creating' = [creating EXCEPT ![p][b] = NoSig],
           last_seq' \in [Proc -> Nat \cup {-1}], releasing' = releasing,
           crashed' \in [Proc -> BOOLEAN]
    PROVE  TrackersOK'
<1> DEFINE T == OngoingTrackers
           list2 == [list EXCEPT ![i] = t]
           row == [creating[p] EXCEPT ![b] = NoSig]
           C == Sigs \cup {NoSig}
<1>1. TrackersOK
  BY TypesAre
<1>2. list2 \in Seq(T)
  <2>1. list \in Seq(T) /\ t \in T /\ i \in DOMAIN list
    OBVIOUS
  <2> HIDE DEF T
  <2> QED
    BY <2>1
<1>3. ongoing' \in [Proc -> Seq(T)]
  <2>1. ongoing \in [Proc -> Seq(T)] /\ ongoing' = [ongoing EXCEPT ![p] = list2]
    BY <1>1 DEF TrackersOK
  <2> HIDE DEF T, list2
  <2> QED
    BY <1>2, <2>1
<1>4. creating' \in [Proc -> [Base -> C]]
  <2>1. creating \in [Proc -> [Base -> C]] /\ creating' = [creating EXCEPT ![p] = row] /\ NoSig \in C
    BY <1>1 DEF TrackersOK
  <2> HIDE DEF C
  <2>2. row \in [Base -> C]
    BY <2>1
  <2> HIDE DEF row
  <2> QED
    BY <2>1, <2>2
<1> QED
  BY <1>1, <1>3, <1>4 DEF TrackersOK, OngoingTrackers, Sigs, Contents

LEMMA PreemptedNext ==
    ASSUME TypeOK, NEW p \in Proc, NEW b \in Base, NEW sig \in Sigs, ongoing' = ongoing,
           creating' = [creating EXCEPT ![p][b] = sig],
           last_seq' \in [Proc -> Nat \cup {-1}], releasing' = releasing,
           crashed' \in [Proc -> BOOLEAN]
    PROVE  TrackersOK'
<1> DEFINE row == [creating[p] EXCEPT ![b] = sig]
           C == Sigs \cup {NoSig}
<1>1. TrackersOK
  BY TypesAre
<1>4. creating' \in [Proc -> [Base -> C]]
  <2>1. creating \in [Proc -> [Base -> C]] /\ creating' = [creating EXCEPT ![p] = row] /\ sig \in C
    BY <1>1 DEF TrackersOK
  <2> HIDE DEF C
  <2>2. row \in [Base -> C]
    BY <2>1
  <2> HIDE DEF row
  <2> QED
    BY <2>1, <2>2
<1> QED
  BY <1>1, <1>4 DEF TrackersOK, OngoingTrackers, Sigs, Contents

LEMMA ProcessCallStep ==
    ASSUME XcastInv, NEW p \in Proc, ProcessCall(p)
    PROVE  XcastInv'
<1> DEFINE b == "ev"
           e == NextEvent(p, "ev")
           resumed == creating[p]["ev"] # NoSig
           sig == IF resumed THEN creating[p]["ev"] ELSE Sig(e.scon, NextSeq(p))
           own == Msg(p, p, "DIRECT", prog[e.scon][e.round], sig, {<<p, e.round>>})
           list == Trackers(p, "ev", sig)
           i == Slot(p, "ev", sig)
           t == [list[i] EXCEPT !.req = e.round]
           evs == <<Send(own)>>
<1>1. TypeOK /\ RouteInv /\ UsersOK /\ TrackersOK /\ "ev" \in Base
  BY TypesAre, TreeFacts DEF XcastInv
<1>2. queue[p]["ev"] # <<>> /\ e.op = "call"
  BY DEF ProcessCall, Ready
<1>3. e \in Events /\ e.scon \in Scons /\ e.round \in 1..Rounds
  BY <1>1, <1>2, NextAt, EventTypes
<1>4. sig \in Sigs /\ sig.seq \in Nat
  <2>1. creating[p]["ev"] \in Sigs \cup {NoSig} /\ last_seq[p] \in Nat \cup {-1}
    BY <1>1 DEF TrackersOK
  <2>2. NextSeq(p) \in Nat
    BY <2>1 DEF NextSeq
  <2>3. Sig(e.scon, NextSeq(p)) \in Sigs
    BY <1>3, <2>2 DEF Sig, Sigs
  <2>4. \A s \in Sigs : s.seq \in Nat
    BY DEF Sigs
  <2> QED
    BY <2>1, <2>3, <2>4
<1>5. last_seq' \in [Proc -> Nat \cup {-1}]
  <2>1. last_seq' = last_seq \/ last_seq' = [last_seq EXCEPT ![p] = sig.seq]
    BY DEF ProcessCall
  <2> HIDE DEF sig
  <2> QED
    BY <1>1, <1>4, <2>1 DEF TrackersOK
<1>6. channel' = channel /\ UNCHANGED users /\ releasing' = releasing
  BY DEF ProcessCall
<1>7. \/ /\ Preempted(p, "ev", sig) /\ crashed' = crashed
         /\ creating' = [creating EXCEPT ![p]["ev"] = sig] /\ UNCHANGED <<queue, draining, ongoing>>
      \/ /\ creating' = [creating EXCEPT ![p]["ev"] = NoSig]
         /\ \E lost \in {FALSE, Dying(p, i)} : crashed' = [crashed EXCEPT ![p] = lost]
         /\ ongoing' = [ongoing EXCEPT ![p] = [list EXCEPT ![i] = t]]
         /\ Handled(p, "ev", evs, <<>>)
  BY DEF ProcessCall
<1>13. crashed' \in [Proc -> BOOLEAN]
  <2>1. CASE crashed' = crashed
    BY <1>1, <2>1 DEF TrackersOK
  <2>2. CASE \E lost \in {FALSE, Dying(p, i)} : crashed' = [crashed EXCEPT ![p] = lost]
    <3>1. Dying(p, i) \in BOOLEAN
      BY ZenonT(30) DEF Dying
    <3> DEFINE dying == Dying(p, i)
    <3> HIDE DEF dying
    <3>2. PICK lost \in BOOLEAN : crashed' = [crashed EXCEPT ![p] = lost]
      BY <2>2, <3>1 DEF dying
    <3> QED
      BY <1>1, <3>2 DEF TrackersOK
  <2> QED
    BY <1>7, <2>1, <2>2
<1>8. own \in CollMessages /\ own \in Messages /\ own.src = p /\ own.dst = p /\ own.tag = "DIRECT" /\ own.kind # "user"
  <2>1. prog[e.scon][e.round] \in Kinds
    BY <1>1, <1>3 DEF UsersOK
  <2>2. {<<p, e.round>>} \in Contents
    BY <1>3 DEF Contents
  <2> HIDE DEF sig, e
  <2>3. own \in CollMessages /\ own.src = p /\ own.dst = p /\ own.tag = "DIRECT"
    BY <1>4, <2>1, <2>2, MsgTypes, MsgFields
  <2> HIDE DEF own
  <2> QED
    BY <2>3, MsgTypes
<1>9. UsersOK'
  BY <1>1, <1>6, UsersSame
<1>10. delivered' = delivered /\ nxcasts' = nxcasts
  BY <1>6 DEF users
<1> HIDE DEF own, sig
<1>11. CASE Preempted(p, "ev", sig) /\ creating' = [creating EXCEPT ![p]["ev"] = sig]
            /\ UNCHANGED <<queue, draining, ongoing>>
  <2>1. TrackersOK'
    BY <1>1, <1>4, <1>5, <1>6, <1>11, <1>13, PreemptedNext
  <2>2. Carried /\ NoneAsked /\ \A f : Still(f)
    BY <1>1, <1>6, <1>11, UnchangedCarried
  <2> QED
    BY <1>9, <1>10, <2>1, <2>2, QuietStep
<1>12. CASE /\ creating' = [creating EXCEPT ![p]["ev"] = NoSig]
            /\ ongoing' = [ongoing EXCEPT ![p] = [list EXCEPT ![i] = t]]
            /\ Handled(p, "ev", evs, <<>>)
  <2>1. list \in Seq(OngoingTrackers) /\ i \in DOMAIN list
    BY <1>1, <1>4, TrackersAre
  <2> HIDE DEF list, i
  <2>2. t \in OngoingTrackers
    <3>1. list[i] \in OngoingTrackers /\ e.round \in 0..Rounds
      BY <1>3, <2>1
    <3> QED
      BY <3>1 DEF OngoingTrackers
  <2> HIDE DEF t, e
  <2>3. TrackersOK'
    BY <1>1, <1>5, <1>6, <1>12, <1>13, <2>1, <2>2, TrackersNext
  <2>4. evs \in Seq(EventsAt(p, "ev")) /\ \A j \in DOMAIN evs : evs[j] = Send(own)
    <3>1. SendAt(p, own)
      BY <1>8 DEF SendAt, Routed, ToSelf
    <3>2. Send(own) \in EventsAt(p, "ev")
      BY <1>8, <3>1, EventTypes DEF EventsAt, EventAt
    <3> QED
      BY <3>2
  <2> HIDE DEF evs
  <2>5. Carried /\ evs \in Seq(Events)
    BY <1>1, <1>2, <1>6, <1>12, <2>4, HandledCarried
  <2>6. \A j \in DOMAIN evs : evs[j].op = "send" /\ evs[j].msg.kind # "user"
    BY <1>8, <2>4, EventTypes
  <2>7. (\A f, S : Values(f, S) /\ UserOnly(f) => Still(f)) /\ NoneAsked
    BY <1>1, <1>2, <1>6, <1>12, <2>5, <2>6, QuietPost DEF e
  <2> QED
    BY <1>9, <1>10, <2>3, <2>5, <2>7, QuietStep
<1> QED
  BY <1>7, <1>11, <1>12

\* The next received message.
LEMMA ArrivedIs ==
    ASSUME XcastInv, NEW p \in Proc, NEW tag, Arrived(p, tag)
    PROVE  LET b == pt2pt_evbase(p)
               m == NextEvent(p, b).msg
           IN  /\ b \in Base /\ queue[p][b] # <<>> /\ NextEvent(p, b) = Recv(m) /\ NextEvent(p, b).op = "recv"
               /\ m \in Messages /\ m.tag = tag /\ m.dst = p /\ Routed(m)
<1> DEFINE b == pt2pt_evbase(p)
           e == NextEvent(p, b)
<1>1. RouteInv /\ b \in Base
  BY TreeFacts DEF XcastInv
<1>2. queue[p][b] # <<>> /\ e.op = "recv" /\ e.msg.tag = tag
  BY DEF Arrived, Ready
<1>3. e \in Events /\ EventAt(p, b, e)
  BY <1>1, <1>2, NextAt
<1> HIDE DEF e, b
<1>4. e.msg \in Messages /\ e = Recv(e.msg) /\ RecvAt(p, e.msg)
  BY <1>2, <1>3, EventTypes DEF EventAt, b
<1> QED
  BY <1>1, <1>2, <1>4 DEF RecvAt, e, b

LEMMA DirectStep ==
    ASSUME XcastInv, NEW p \in Proc, DirectRecv(p)
    PROVE  XcastInv'
<1> DEFINE b == pt2pt_evbase(p)
           m == NextEvent(p, b).msg
           sig == m.sig
           i == Slot(p, b, m.sig)
           list == Trackers(p, b, m.sig)
           coll == [list[i] EXCEPT !.nreported = @ + 1, !.bucket = @ \cup m.buf]
           rollup == IF p = Master THEN Msg(p, p, "XCAST", m.kind, m.sig, coll.bucket)
                     ELSE Msg(p, Parent[p], "DIRECT", m.kind, m.sig, coll.bucket)
           evs == IF coll.nreported = nexpected(p) THEN <<Send(rollup)>> ELSE <<>>
<1>1. TypeOK /\ RouteInv /\ UsersOK /\ TrackersOK
  BY TypesAre DEF XcastInv
<1>2. /\ b \in Base /\ queue[p][b] # <<>> /\ NextEvent(p, b) = Recv(m) /\ NextEvent(p, b).op = "recv"
      /\ m \in Messages /\ m.tag = "DIRECT" /\ m.dst = p /\ Routed(m)
  BY ArrivedIs DEF DirectRecv
<1>3. m \in CollMessages /\ m.sig \in Sigs /\ m.kind \in Kinds /\ m.kind # "user" /\ m.buf \in Contents
  BY <1>2, MsgTypes
<1>4. list \in Seq(OngoingTrackers) /\ i \in DOMAIN list
  BY <1>1, <1>2, <1>3, TrackersAre
<1>5. /\ last_seq' = last_seq /\ UNCHANGED <<releasing, crashed>> /\ channel' = channel /\ UNCHANGED users
      /\ \/ creating' = [creating EXCEPT ![p][b] = m.sig] /\ UNCHANGED <<queue, draining, ongoing>>
         \/ /\ creating' = [creating EXCEPT ![p][b] = NoSig]
            /\ ongoing' = [ongoing EXCEPT ![p] = [list EXCEPT ![i] = coll]]
            /\ Handled(p, b, evs, <<>>)
  BY DEF DirectRecv
<1>6. /\ UsersOK' /\ delivered' = delivered /\ nxcasts' = nxcasts /\ last_seq' \in [Proc -> Nat \cup {-1}]
      /\ releasing' = releasing /\ crashed' \in [Proc -> BOOLEAN]
  <2>1. UsersOK'
    BY <1>1, <1>5, UsersSame
  <2> QED
    BY <1>1, <1>5, <2>1 DEF users, TrackersOK
<1> HIDE DEF list, i
<1>7. coll \in OngoingTrackers /\ coll.bucket \in Contents
  <2>1. list[i] \in OngoingTrackers
    BY <1>4
  <2> DEFINE tr == list[i]
  <2>2. tr.nreported + 1 \in Nat /\ tr.bucket \cup m.buf \in Contents
    BY <1>3, <2>1 DEF OngoingTrackers, Contents
  <2> HIDE DEF m
  <2>3. coll = [tr EXCEPT !.nreported = tr.nreported + 1, !.bucket = tr.bucket \cup m.buf]
    OBVIOUS
  <2> HIDE DEF tr, coll
  <2> QED
    BY <2>1, <2>2, <2>3 DEF OngoingTrackers, tr
<1> HIDE DEF coll, m, b
<1>8. /\ rollup \in Messages /\ SendAt(p, rollup) /\ rollup.kind # "user"
  <2>1. CASE p = Master
    <3> DEFINE up == Msg(p, p, "XCAST", m.kind, m.sig, coll.bucket)
    <3>1. up \in CollMessages /\ up.src = p /\ up.dst = p /\ up.tag = "XCAST" /\ up.kind # "user"
      BY <1>3, <1>7, MsgTypes, MsgFields
    <3>2. rollup = up
      BY <2>1
    <3> HIDE DEF up, rollup
    <3>3. SendAt(p, up)
      BY <2>1, <3>1 DEF SendAt, Routed, ToMaster
    <3> QED
      BY <3>1, <3>2, <3>3, MsgTypes
  <2>2. CASE p # Master
    <3> DEFINE up == Msg(p, Parent[p], "DIRECT", m.kind, m.sig, coll.bucket)
    <3>1. Parent[p] \in Proc
      BY <2>2, TreeFacts
    <3>2. up \in CollMessages /\ up.src = p /\ up.dst = Parent[p] /\ up.tag = "DIRECT" /\ up.kind # "user"
      BY <1>3, <1>7, <3>1, MsgTypes, MsgFields
    <3>3. rollup = up
      BY <2>2
    <3> HIDE DEF up, rollup
    <3>4. SendAt(p, up)
      BY <2>2, <3>2 DEF SendAt, Routed, ToParent
    <3> QED
      BY <3>2, <3>3, <3>4, MsgTypes
  <2> QED
    BY <2>1, <2>2
<1> HIDE DEF rollup
<1>9. CASE creating' = [creating EXCEPT ![p][b] = m.sig] /\ UNCHANGED <<queue, draining, ongoing>>
  <2>1. TrackersOK'
    <3>1. sig \in Sigs /\ creating' = [creating EXCEPT ![p][b] = sig]
      BY <1>3, <1>9
    <3>2. TypeOK /\ b \in Base /\ ongoing' = ongoing /\ releasing' = releasing
          /\ crashed' \in [Proc -> BOOLEAN] /\ last_seq' \in [Proc -> Nat \cup {-1}]
      BY <1>1, <1>2, <1>5, <1>6, <1>9
    <3> HIDE DEF sig
    <3> QED
      BY <3>1, <3>2, PreemptedNext
  <2>2. Carried /\ NoneAsked /\ \A f : Still(f)
    BY <1>1, <1>5, <1>9, UnchangedCarried
  <2> QED
    BY <1>6, <2>1, <2>2, QuietStep
<1>10. CASE /\ creating' = [creating EXCEPT ![p][b] = NoSig]
            /\ ongoing' = [ongoing EXCEPT ![p] = [list EXCEPT ![i] = coll]]
            /\ Handled(p, b, evs, <<>>)
  <2>1. TrackersOK'
    BY <1>1, <1>2, <1>4, <1>5, <1>6, <1>7, <1>10, TrackersNext
  <2>2. evs \in Seq(EventsAt(p, "ev")) /\ \A j \in DOMAIN evs : evs[j] = Send(rollup)
    <3>1. Send(rollup) \in EventsAt(p, "ev")
      BY <1>8, EventTypes DEF EventsAt, EventAt
    <3> QED
      BY <3>1
  <2> HIDE DEF evs
  <2>3. Carried /\ evs \in Seq(Events)
    BY <1>1, <1>2, <1>5, <1>10, <2>2, HandledCarried
  <2>4. \A j \in DOMAIN evs : evs[j].op = "send" /\ evs[j].msg.kind # "user"
    BY <1>8, <2>2, EventTypes
  <2>5. NextEvent(p, b).op # "xcast" /\ NextEvent(p, b).op # "send" /\ NextEvent(p, b).msg.kind # "user"
    BY <1>2, <1>3 DEF m
  <2>6. (\A f, S : Values(f, S) /\ UserOnly(f) => Still(f)) /\ NoneAsked
    BY SMTT(60), <1>1, <1>2, <1>5, <1>10, <2>3, <2>4, <2>5, QuietPost
  <2> QED
    BY <1>6, <2>1, <2>3, <2>6, QuietStep
<1> QED
  BY <1>5, <1>9, <1>10

LEMMA ReleaseStep ==
    ASSUME XcastInv, NEW p \in Proc, ReleaseRecv(p)
    PROVE  XcastInv'
<1> DEFINE b == pt2pt_evbase(p)
           m == NextEvent(p, b).msg
           i == Found(p, m.sig)
           s == ongoing[p]
           r == s[i].req
           evs == <<>>
<1>1. TypeOK /\ RouteInv /\ UsersOK /\ TrackersOK
  BY TypesAre DEF XcastInv
<1>2. /\ b \in Base /\ queue[p][b] # <<>> /\ NextEvent(p, b) = Recv(m) /\ NextEvent(p, b).op = "recv"
      /\ m \in Messages /\ m.tag = "RELEASE" /\ m.dst = p /\ Routed(m)
  BY ArrivedIs DEF ReleaseRecv
<1>3. m \in CollMessages /\ m.sig \in Sigs /\ m.kind # "user" /\ m.buf \in Contents /\ m.sig.scon \in Scons
  <2>1. m \in CollMessages /\ m.sig \in Sigs /\ m.kind # "user" /\ m.buf \in Contents
    BY <1>2, MsgTypes
  <2>2. \A x \in Sigs : x.scon \in Scons
    BY DEF Sigs
  <2> QED
    BY <2>1, <2>2
<1>4. i \in 0..Len(s)
  BY SMTT(60), <1>1, FoundIs
<1>5. /\ channel' = channel /\ UNCHANGED <<prog, calls, nxcasts, delivered, creating>>
      /\ \/ Handled(p, b, evs, <<>>) /\ UNCHANGED <<log, last_seq, ongoing, releasing, crashed>>
         \/ /\ i # 0
            /\ \/ log' = log
               \/ /\ r # NoReq
                  /\ log' = [log EXCEPT ![p][m.sig.scon] =
                                Append(log[p][m.sig.scon], [round |-> r, contents |-> m.buf])]
            /\ last_seq' = last_seq \/ last_seq' = [last_seq EXCEPT ![p] = -1]
            /\ \/ /\ Handled(p, b, evs, <<>>)
                  /\ ongoing' = [ongoing EXCEPT ![p] = RemoveAt(s, i)]
                  /\ releasing' = [releasing EXCEPT ![p] = 0]
                  /\ crashed' = [crashed EXCEPT ![p] = (r = NoReq)]
               \/ /\ 3 \notin ReleaseSteps(p)
                  /\ releasing' = [releasing EXCEPT ![p] = releasing[p] + 1]
                  /\ UNCHANGED <<queue, draining, ongoing, crashed>>
  BY SMTT(60) DEF ReleaseRecv, Removed
<1>6. evs \in Seq(EventsAt(p, "ev")) /\ DOMAIN evs = {}
  OBVIOUS
<1> HIDE DEF evs
<1>7. /\ Carried /\ NoneAsked
      /\ \A f, S : Values(f, S) /\ UserOnly(f) => Still(f)
  <2>1. CASE Handled(p, b, evs, <<>>)
    <3>1. Carried /\ evs \in Seq(Events)
      BY ZenonT(60), <1>1, <1>2, <1>5, <1>6, <2>1, HandledCarried
    <3>2. NextEvent(p, b).op # "xcast" /\ NextEvent(p, b).op # "send" /\ NextEvent(p, b).msg.kind # "user"
      BY SMTT(60), <1>2, <1>3
    <3> HIDE DEF b
    <3> QED
      BY <1>1, <1>2, <1>5, <1>6, <2>1, <3>1, <3>2, QuietPost
  <2>2. CASE UNCHANGED <<queue, draining>>
    BY <1>1, <1>5, <2>2, UnchangedCarried
  <2> QED
    BY <1>5, <2>1, <2>2
<1>8. UsersOK'
  <2>1. CASE log' = log
    BY <1>1, <1>5, <2>1, UsersSame DEF users
  <2>2. CASE /\ i # 0 /\ r # NoReq
             /\ log' = [log EXCEPT ![p][m.sig.scon] =
                           Append(log[p][m.sig.scon], [round |-> r, contents |-> m.buf])]
    <3> DEFINE L == [round : 1..Rounds, contents : Contents]
               sc == m.sig.scon
               entry == [round |-> r, contents |-> m.buf]
               mine == log[p][sc]
               longer == Append(mine, entry)
               row == [log[p] EXCEPT ![sc] = longer]
    <3>1. s[i] \in OngoingTrackers
      <4>1. s \in Seq(OngoingTrackers)
        BY SMTT(60), <1>1 DEF TrackersOK
      <4>2. i # 0 /\ i \in 0..Len(s)
        BY <1>4, <2>2
      <4> HIDE DEF s, i
      <4> QED
        BY <4>1, <4>2
    <3>2. r \in 0..Rounds
      BY <3>1 DEF OngoingTrackers
    <3>3. entry \in L
      <4> HIDE DEF m, s, i
      <4>1. r \in 1..Rounds
        BY SMTT(60), <2>2, <3>2, BoundsAssumption DEF NoReq
      <4> HIDE DEF r
      <4> QED
        BY <1>3, <4>1
    <3>4. sc \in Scons /\ log' = [log EXCEPT ![p] = row]
      BY <1>3, <2>2
    <3> HIDE DEF m, s, i, r
    <3>5. log \in [Proc -> [Scons -> Seq(L)]]
      BY <1>1 DEF UsersOK
    <3> HIDE DEF L, entry, sc
    <3>6. mine \in Seq(L)
      BY <3>4, <3>5
    <3> HIDE DEF mine
    <3>7. longer \in Seq(L)
      BY <3>3, <3>6
    <3> HIDE DEF longer
    <3>8. row \in [Scons -> Seq(L)]
      BY <3>4, <3>5, <3>7
    <3> HIDE DEF row
    <3>9. log' \in [Proc -> [Scons -> Seq(L)]]
      BY <3>4, <3>5, <3>8
    <3> QED
      BY <1>1, <1>5, <3>9 DEF UsersOK, Kinds, Ids, Contents, L
  <2> QED
    BY <1>5, <2>1, <2>2
<1>9. TrackersOK'
  <2>1. last_seq' \in [Proc -> Nat \cup {-1}]
    <3>1. last_seq' = last_seq \/ last_seq' = [last_seq EXCEPT ![p] = -1]
      BY ZenonT(30), <1>5 DEF TrackersOK
    <3>2. last_seq \in [Proc -> Nat \cup {-1}]
      BY ZenonT(30), <1>1 DEF TrackersOK
    <3> QED
      BY <3>1, <3>2
  <2>2. CASE UNCHANGED <<ongoing, releasing, crashed>>
    BY <1>1, <1>5, <2>1, <2>2 DEF TrackersOK, OngoingTrackers, Sigs, Contents
  <2>3. CASE /\ i # 0
             /\ ongoing' = [ongoing EXCEPT ![p] = RemoveAt(s, i)]
             /\ releasing' = [releasing EXCEPT ![p] = 0]
             /\ crashed' = [crashed EXCEPT ![p] = (r = NoReq)]
    <3> DEFINE T == OngoingTrackers
               none == (r = NoReq)
               less == RemoveAt(s, i)
    <3>1. s \in Seq(T) /\ i \in 1..Len(s)
      <4>1. s \in Seq(T)
        BY SMTT(60), <1>1 DEF TrackersOK
      <4>3. i # 0 /\ i \in 0..Len(s)
        BY <1>4, <2>3
      <4> HIDE DEF s, i, T
      <4>2. Len(s) \in Nat
        BY <4>1
      <4> QED
        BY <4>1, <4>2, <4>3
    <3>2. less \in Seq(T)
      <4> HIDE DEF s, i, T
      <4> QED
        BY <3>1, RemovedType
    <3>3. none \in BOOLEAN /\ crashed' = [crashed EXCEPT ![p] = none]
      BY SMTT(60), <2>3
    <3>4. ongoing' = [ongoing EXCEPT ![p] = less] /\ releasing' = [releasing EXCEPT ![p] = 0]
      BY <2>3
    <3> HIDE DEF none, less, T, m, s, i, r
    <3>5. ongoing' \in [Proc -> Seq(T)]
      BY <1>1, <3>2, <3>4 DEF TrackersOK, T
    <3>6. crashed' \in [Proc -> BOOLEAN] /\ releasing' \in [Proc -> 0..2]
      BY <1>1, <3>3, <3>4 DEF TrackersOK
    <3> QED
      BY <1>1, <1>5, <2>1, <3>5, <3>6 DEF TrackersOK, OngoingTrackers, Sigs, Contents, T
  <2>4. CASE /\ 3 \notin ReleaseSteps(p)
             /\ releasing' = [releasing EXCEPT ![p] = releasing[p] + 1]
             /\ UNCHANGED <<ongoing, crashed>>
    <3>1. releasing[p] \in 0..2 /\ releasing[p] + 1 # 3
      BY SMTT(60), <1>1, <2>4 DEF TrackersOK, ReleaseSteps
    <3>2. releasing' \in [Proc -> 0..2]
      BY <1>1, <2>4, <3>1 DEF TrackersOK
    <3> QED
      BY <1>1, <1>5, <2>1, <2>4, <3>2 DEF TrackersOK, OngoingTrackers, Sigs, Contents
  <2> QED
    BY <1>5, <2>2, <2>3, <2>4
<1> QED
  BY <1>5, <1>7, <1>8, <1>9, QuietStep

\* An xcast is relayed once to each child.
LEMMA PeersAre ==
    ASSUME NEW p \in Proc
    PROVE  LET peers == Picked([c \in 1..(N - 1) |-> c], Children(p))
           IN  /\ peers \in Seq(1..(N - 1))
               /\ \A k \in DOMAIN peers : peers[k] \in Children(p)
               /\ \A c \in Children(p) : \E k \in DOMAIN peers : peers[k] = c
               /\ \A k, l \in DOMAIN peers : peers[k] = peers[l] => k = l
<1> DEFINE T == 1..(N - 1)
           list == [c \in T |-> c]
           S == Children(p)
           P == Picked(list, S)
<1>1. list \in Seq(T) /\ Len(list) = N - 1 /\ \A c \in T : list[c] = c
  BY TreeFacts
<1>2. S \subseteq T /\ T \subseteq Nat
  BY DEF Children
<1> HIDE DEF list, S, P
<1>3. P \in Seq(T) /\ \E e : IsChoice(list, S, P, N - 1, e)
  <2> HIDE DEF T
  <2> QED
    BY <1>1, PickedPlaces DEF P
<1>4. PICK e : IsChoice(list, S, P, N - 1, e)
  BY <1>3
<1>5. /\ e \in [1..Len(P) -> S \cap T]
      /\ \A k \in 1..Len(P) : P[k] = list[e[k]]
      /\ \A k, l \in 1..Len(P) : k < l => e[k] < e[l]
      /\ \A i \in S \cap T : \E k \in 1..Len(P) : e[k] = i
  BY <1>4 DEF IsChoice
<1>6. \A k \in 1..Len(P) : P[k] = e[k] /\ e[k] \in S /\ e[k] \in Nat
  BY <1>1, <1>2, <1>5
<1>7. DOMAIN P = 1..Len(P) /\ Len(P) \in Nat
  <2> HIDE DEF T
  <2> QED
    BY <1>3
<1>8. \A k, l \in DOMAIN P : P[k] = P[l] => k = l
  <2> TAKE k, l \in DOMAIN P
  <2> HAVE P[k] = P[l]
  <2>1. e[k] = e[l] /\ e[k] \in Nat /\ k \in 1..Len(P) /\ l \in 1..Len(P)
    BY <1>6, <1>7
  <2>2. ~(k < l) /\ ~(l < k)
    BY <1>5, <2>1
  <2> QED
    BY <1>7, <2>1, <2>2
<1>9. \A c \in S : \E k \in DOMAIN P : P[k] = c
  BY <1>2, <1>5, <1>6, <1>7
<1> QED
  BY <1>3, <1>6, <1>7, <1>8, <1>9 DEF P, list, S

LEMMA OnSendIs ==
    ASSUME NEW f
    PROVE  /\ \A m : Send(m) \in DOMAIN OnSend(f) <=> m \in DOMAIN f
           /\ \A m \in DOMAIN f : OnSend(f)[Send(m)] = f[m]
<1>1. DOMAIN OnSend(f) = {Send(m) : m \in DOMAIN f}
  BY DEF OnSend
<1>2. \A m \in DOMAIN f : OnSend(f)[Send(m)] = f[m]
  BY DEF OnSend, Send
<1>3. \A m : Send(m) \in DOMAIN OnSend(f) <=> m \in DOMAIN f
  BY <1>1 DEF Send
<1> QED
  BY <1>2, <1>3

LEMMA ConcatPlaces ==
    ASSUME NEW T, NEW s \in Seq(T), NEW t \in Seq(T)
    PROVE  /\ s \o t \in Seq(T)
           /\ \A i \in 1..Len(s) : (s \o t)[i] = s[i]
           /\ \A i \in 1..Len(t) : (s \o t)[Len(s) + i] = t[i]
           /\ Len(s \o t) = Len(s) + Len(t) /\ Len(s) \in Nat /\ Len(t) \in Nat
OBVIOUS

\* What the handler of an xcast or of an order posts: one message for each
\* child and one for itself.
Copy(p, c, m) == Msg(p, c, "XCAST", m.kind, m.sig, m.buf)
Inner(p, m) == Msg(p, p, IF m.kind = "user" THEN "USER" ELSE "RELEASE", m.kind, m.sig, m.buf)

\* What f draws from the events that are posted.
Spread(p, m, evs, f) ==
    /\ \A c \in Children(p) :
          Copy(p, c, m) \in DOMAIN f /\ (\A x \in DOMAIN f : x.tag = "XCAST" /\ x.dst = c) =>
              Drawn(evs, OnSend(f)) = <<f[Copy(p, c, m)]>>
    /\ Inner(p, m) \in DOMAIN f /\ (\A x \in DOMAIN f : x.tag # "XCAST") =>
              Drawn(evs, OnSend(f)) = <<f[Inner(p, m)]>>
    /\ Inner(p, m) \notin DOMAIN f /\ (\A c \in Children(p) : Copy(p, c, m) \notin DOMAIN f) =>
              Drawn(evs, OnSend(f)) = <<>>
Spreads(p, m, evs) ==
    /\ Handled(p, pt2pt_evbase(p), evs, <<>>)
    /\ \A j \in DOMAIN evs : evs[j].op = "send" /\ evs[j].msg.kind = m.kind
    /\ (\A c \in Children(p) : Copy(p, c, m) \in Messages) /\ Inner(p, m) \in Messages
    /\ \A f, S : Values(f, S) => Spread(p, m, evs, f)

LEMMA XcastEvents ==
    ASSUME XcastInv, NEW p \in Proc, XcastRecv(p), NEW m, m = NextEvent(p, pt2pt_evbase(p)).msg
    PROVE  \E evs \in Seq(EventsAt(p, "ev")) : Spreads(p, m, evs)
<1> DEFINE peers == Picked([c \in 1..(N - 1) |-> c], Children(p))
           inner == IF m.kind = "user" THEN "USER" ELSE "RELEASE"
           M(c) == Msg(p, c, "XCAST", m.kind, m.sig, m.buf)
           Mine == Msg(p, p, inner, m.kind, m.sig, m.buf)
           relay == [i \in DOMAIN peers |-> Send(M(peers[i]))]
           own == Send(Mine)
           last == <<own>>
           evs == relay \o last
           W == EventsAt(p, "ev")
           n == Len(peers)
<1>1. /\ m \in Messages /\ m.tag = "XCAST"
  BY ArrivedIs DEF XcastRecv
<1>2. Handled(p, pt2pt_evbase(p), evs, <<>>)
  BY DEF XcastRecv
<1>3. /\ peers \in Seq(1..(N - 1)) /\ n \in Nat /\ DOMAIN peers = 1..n
      /\ \A k \in 1..n : peers[k] \in Children(p)
      /\ \A c \in Children(p) : \E k \in 1..n : peers[k] = c
      /\ \A k, l \in 1..n : peers[k] = peers[l] => k = l
  <2>1. /\ peers \in Seq(1..(N - 1))
        /\ \A k \in DOMAIN peers : peers[k] \in Children(p)
        /\ \A c \in Children(p) : \E k \in DOMAIN peers : peers[k] = c
        /\ \A k, l \in DOMAIN peers : peers[k] = peers[l] => k = l
    BY PeersAre
  <2> HIDE DEF peers
  <2>2. DOMAIN peers = 1..n /\ n \in Nat
    BY <2>1
  <2> QED
    BY <2>1, <2>2
<1>4. ASSUME NEW c \in Children(p)
      PROVE  /\ M(c) \in Messages /\ M(c).src = p /\ M(c).dst = c /\ M(c).tag = "XCAST" /\ M(c).kind = m.kind
             /\ M(c).buf = m.buf /\ SendAt(p, M(c)) /\ c # Master /\ c # p
  <2>1. c \in Proc /\ c # Master /\ Parent[c] = p /\ c # p
    BY TreeFacts
  <2>2. M(c).src = p /\ M(c).dst = c /\ M(c).tag = "XCAST" /\ M(c).kind = m.kind /\ M(c).buf = m.buf
    BY MsgFields
  <2>3. M(c) \in Messages
    <3>1. CASE m.kind = "user"
      <4>1. m.sig = NoSig /\ IdOf(m) \in Ids /\ m.buf = {IdOf(m)}
        BY <1>1, <3>1, UserMsg
      <4>2. Msg(p, c, "XCAST", "user", NoSig, {IdOf(m)}) \in UserMessages
        BY <2>1, <4>1, MsgTypes
      <4>3. M(c) \in UserMessages
        BY <3>1, <4>1, <4>2
      <4> HIDE DEF M
      <4> QED
        BY <4>3, MsgTypes
    <3>2. CASE m.kind # "user"
      <4>1. m.kind \in Kinds /\ m.sig \in Sigs /\ m.buf \in Contents
        BY <1>1, <3>2, MsgTypes
      <4>2. M(c) \in CollMessages
        BY <2>1, <4>1, MsgTypes
      <4> HIDE DEF M
      <4> QED
        BY <4>2, MsgTypes
    <3> QED
      BY <3>1, <3>2
  <2> HIDE DEF M
  <2>4. SendAt(p, M(c))
    BY <2>1, <2>2 DEF SendAt, Routed, ToChild
  <2> QED
    BY <2>1, <2>2, <2>3, <2>4
<1>5. /\ Mine \in Messages /\ Mine.src = p /\ Mine.dst = p /\ Mine.tag = inner /\ Mine.kind = m.kind
      /\ Mine.buf = m.buf /\ SendAt(p, Mine) /\ inner # "XCAST"
  <2>2. Mine.src = p /\ Mine.dst = p /\ Mine.tag = inner /\ Mine.kind = m.kind /\ Mine.buf = m.buf
    BY MsgFields
  <2>3. Mine \in Messages
    <3>1. CASE m.kind = "user"
      <4>1. m.sig = NoSig /\ IdOf(m) \in Ids /\ m.buf = {IdOf(m)} /\ inner = "USER"
        BY <1>1, <3>1, UserMsg
      <4>2. Msg(p, p, "USER", "user", NoSig, {IdOf(m)}) \in UserMessages
        BY <4>1, MsgTypes
      <4>3. Mine \in UserMessages
        BY <3>1, <4>1, <4>2
      <4> HIDE DEF Mine
      <4> QED
        BY <4>3, MsgTypes
    <3>2. CASE m.kind # "user"
      <4>1. m.kind \in Kinds /\ m.sig \in Sigs /\ m.buf \in Contents /\ inner = "RELEASE"
        BY <1>1, <3>2, MsgTypes
      <4>2. Mine \in CollMessages
        BY <4>1, MsgTypes
      <4> HIDE DEF Mine
      <4> QED
        BY <4>2, MsgTypes
    <3> QED
      BY <3>1, <3>2
  <2>5. inner # "XCAST"
    OBVIOUS
  <2> HIDE DEF Mine, inner
  <2>4. SendAt(p, Mine)
    BY <2>2, <2>5 DEF SendAt, Routed, ToSelf
  <2> QED
    BY <2>2, <2>3, <2>4, <2>5
<1> HIDE DEF M, Mine
<1>6. /\ \A c \in Children(p) : Send(M(c)) \in W
      /\ own \in W
  BY <1>4, <1>5, EventTypes DEF EventsAt, EventAt
<1> HIDE DEF peers, n
<1>7. relay \in Seq(W) /\ Len(relay) = n /\ \A i \in 1..n : relay[i] = Send(M(peers[i]))
  <2>1. relay \in [1..n -> W] /\ \A i \in 1..n : relay[i] = Send(M(peers[i]))
    BY <1>3, <1>6
  <2> HIDE DEF relay, W
  <2> QED
    BY <1>3, <2>1
<1> HIDE DEF relay, own, W
<1>8. last \in Seq(W) /\ Len(last) = 1 /\ last[1] = own
  BY <1>6
<1> HIDE DEF last
<1>9. /\ evs \in Seq(W) /\ DOMAIN evs = 1..(n + 1) /\ evs[n + 1] = own
      /\ \A i \in 1..n : evs[i] = Send(M(peers[i]))
  <2>0. relay \in Seq(W) /\ last \in Seq(W) /\ Len(relay) = n /\ Len(last) = 1 /\ last[1] = own /\ n \in Nat
    BY <1>3, <1>7, <1>8
  <2>1. evs \in Seq(W) /\ Len(evs) = n + 1 /\ evs[n + 1] = own /\ \A i \in 1..n : evs[i] = relay[i]
    <3>0. relay \in Seq(W) /\ last \in Seq(W)
      BY <2>0
    <3>1. /\ relay \o last \in Seq(W) /\ Len(relay \o last) = Len(relay) + Len(last)
          /\ \A i \in 1..Len(relay) : (relay \o last)[i] = relay[i]
          /\ \A i \in 1..Len(last) : (relay \o last)[Len(relay) + i] = last[i]
      BY <3>0
    <3>2. /\ evs \in Seq(W) /\ Len(evs) = Len(relay) + Len(last)
          /\ \A i \in 1..Len(relay) : evs[i] = relay[i]
          /\ \A i \in 1..Len(last) : evs[Len(relay) + i] = last[i]
      BY <3>1 DEF evs
    <3> HIDE DEF evs
    <3> QED
      BY <2>0, <3>2
  <2> HIDE DEF evs
  <2> QED
    BY <1>7, <2>1
<1> HIDE DEF evs
<1>10. \A j \in DOMAIN evs : (j \in 1..n /\ evs[j] = Send(M(peers[j])) /\ peers[j] \in Children(p))
                             \/ (j = n + 1 /\ evs[j] = Send(Mine))
  <2> TAKE j \in DOMAIN evs
  <2>1. j \in 1..n \/ j = n + 1
    BY <1>3, <1>9
  <2> QED
    BY <1>3, <1>9, <2>1 DEF own
<1>11. \A j \in DOMAIN evs : evs[j].op = "send" /\ evs[j].msg.kind = m.kind
  BY <1>4, <1>5, <1>10, EventTypes
<1>12. ASSUME NEW f, NEW S, Values(f, S)
       PROVE  /\ \A c \in Children(p) :
                    M(c) \in DOMAIN f /\ (\A x \in DOMAIN f : x.tag = "XCAST" /\ x.dst = c) =>
                        Drawn(evs, OnSend(f)) = <<f[M(c)]>>
              /\ Mine \in DOMAIN f /\ (\A x \in DOMAIN f : x.tag # "XCAST") => Drawn(evs, OnSend(f)) = <<f[Mine]>>
              /\ Mine \notin DOMAIN f /\ (\A c \in Children(p) : M(c) \notin DOMAIN f) =>
                        Drawn(evs, OnSend(f)) = <<>>
  <2> DEFINE D == OnSend(f)
  <2>0. Values(D, S) /\ evs \in Seq(W) /\ \A x : (Send(x) \in DOMAIN D <=> x \in DOMAIN f)
                                          /\ (x \in DOMAIN f => D[Send(x)] = f[x])
    BY <1>9, <1>12, PartFacts, OnSendIs
  <2> HIDE DEF D
  <2>1. ASSUME NEW c \in Children(p), M(c) \in DOMAIN f, \A x \in DOMAIN f : x.tag = "XCAST" /\ x.dst = c
        PROVE  Drawn(evs, D) = <<f[M(c)]>>
    <3>1. PICK k \in 1..n : peers[k] = c
      BY <1>3
    <3>2. k \in DOMAIN evs /\ evs[k] = Send(M(c))
      BY <1>3, <1>9, <3>1
    <3>3. \A j \in DOMAIN evs : evs[j] \in DOMAIN D <=> j = k
      <4> TAKE j \in DOMAIN evs
      <4>1. CASE j \in 1..n /\ evs[j] = Send(M(peers[j])) /\ peers[j] \in Children(p)
        <5>1. M(peers[j]) \in DOMAIN f => peers[j] = c
          BY <1>4, <2>1, <4>1
        <5>2. peers[j] = c <=> j = k
          BY <1>3, <3>1, <4>1
        <5> QED
          BY <2>0, <2>1, <4>1, <5>1, <5>2
      <4>2. CASE j = n + 1 /\ evs[j] = Send(Mine)
        <5>1. j # k /\ Mine \notin DOMAIN f
          BY <1>3, <1>5, <2>1, <3>1, <4>2
        <5> QED
          BY <2>0, <4>2, <5>1
      <4> QED
        BY <1>10, <4>1, <4>2
    <3>4. Drawn(evs, D) = <<D[evs[k]]>>
      BY <2>0, <3>2, <3>3, DrawnOne
    <3> QED
      BY <2>0, <2>1, <3>2, <3>4
  <2>2. ASSUME Mine \in DOMAIN f, \A x \in DOMAIN f : x.tag # "XCAST"
        PROVE  Drawn(evs, D) = <<f[Mine]>>
    <3> DEFINE k == n + 1
    <3>1. k \in DOMAIN evs /\ evs[k] = Send(Mine)
      BY <1>3, <1>9 DEF own
    <3>2. \A j \in DOMAIN evs : evs[j] \in DOMAIN D <=> j = k
      <4> TAKE j \in DOMAIN evs
      <4>1. CASE j \in 1..n /\ evs[j] = Send(M(peers[j])) /\ peers[j] \in Children(p)
        <5>1. j # k /\ M(peers[j]) \notin DOMAIN f
          BY <1>3, <1>4, <2>2, <4>1
        <5> QED
          BY <2>0, <4>1, <5>1
      <4>2. CASE j = n + 1 /\ evs[j] = Send(Mine)
        BY <2>0, <2>2, <4>2
      <4> QED
        BY <1>10, <4>1, <4>2
    <3> HIDE DEF k
    <3>3. Drawn(evs, D) = <<D[evs[k]]>>
      BY <2>0, <3>1, <3>2, DrawnOne
    <3> QED
      BY <2>0, <2>2, <3>1, <3>3
  <2>3. ASSUME Mine \notin DOMAIN f, \A c \in Children(p) : M(c) \notin DOMAIN f
        PROVE  Drawn(evs, D) = <<>>
    <3>1. \A j \in DOMAIN evs : evs[j] \notin DOMAIN D
      BY <1>10, <2>0, <2>3
    <3> QED
      BY <2>0, <3>1, DrawnNone
  <2> QED
    BY <2>1, <2>2, <2>3 DEF D
<1>13. Handled(p, pt2pt_evbase(p), evs, <<>>)
  BY <1>2 DEF evs, relay, last, own, Mine, M, peers
<1>14. /\ \A c \in Children(p) : M(c) = Copy(p, c, m) /\ M(c) \in Messages
       /\ Mine = Inner(p, m) /\ Mine \in Messages
  BY <1>4, <1>5 DEF M, Mine, Copy, Inner, inner
<1>15. \A f, S : Values(f, S) => Spread(p, m, evs, f)
  BY <1>12, <1>14 DEF Spread
<1>16. (\A c \in Children(p) : Copy(p, c, m) \in Messages) /\ Inner(p, m) \in Messages
  BY <1>14
<1>17. Spreads(p, m, evs)
  BY <1>11, <1>13, <1>15, <1>16 DEF Spreads
<1> QED
  BY <1>9, <1>17 DEF W

\* What the handler of an xcast posts, and what is drawn from it.
LEMMA XcastPosts ==
    ASSUME XcastInv, NEW p \in Proc, XcastRecv(p), NEW m, m = NextEvent(p, pt2pt_evbase(p)).msg
    PROVE  \E evs \in Seq(EventsAt(p, "ev")) :
              /\ Handled(p, pt2pt_evbase(p), evs, <<>>)
              /\ \A j \in DOMAIN evs : evs[j].op = "send" /\ evs[j].msg.kind = m.kind
              /\ m.kind = "user" =>
                    /\ \A c \in Children(p) : Drawn(evs, OnSend(Relay(c))) = <<IdOf(m)>>
                    /\ Drawn(evs, OnSend(Posted(p))) = <<IdOf(m)>>
                    /\ \A q \in Proc : Drawn(evs, OnSend(Entering(q))) = <<>>
<1>0. PICK evs \in Seq(EventsAt(p, "ev")) : Spreads(p, m, evs)
  BY XcastEvents
<1>1. /\ Handled(p, pt2pt_evbase(p), evs, <<>>)
      /\ \A j \in DOMAIN evs : evs[j].op = "send" /\ evs[j].msg.kind = m.kind
      /\ (\A c \in Children(p) : Copy(p, c, m) \in Messages) /\ Inner(p, m) \in Messages
      /\ \A f, S : Values(f, S) => Spread(p, m, evs, f)
  BY <1>0 DEF Spreads
<1>2. /\ \A c : /\ Copy(p, c, m).src = p /\ Copy(p, c, m).dst = c /\ Copy(p, c, m).tag = "XCAST"
               /\ Copy(p, c, m).kind = m.kind /\ IdOf(Copy(p, c, m)) = IdOf(m)
      /\ Inner(p, m).src = p /\ Inner(p, m).dst = p /\ Inner(p, m).kind = m.kind /\ IdOf(Inner(p, m)) = IdOf(m)
      /\ Inner(p, m).tag = IF m.kind = "user" THEN "USER" ELSE "RELEASE"
  BY MsgFields DEF Copy, Inner, IdOf
<1>3. ASSUME m.kind = "user"
      PROVE  /\ \A c \in Children(p) : Drawn(evs, OnSend(Relay(c))) = <<IdOf(m)>>
             /\ Drawn(evs, OnSend(Posted(p))) = <<IdOf(m)>>
             /\ \A q \in Proc : Drawn(evs, OnSend(Entering(q))) = <<>>
  <2>1. ASSUME NEW c \in Children(p) PROVE Drawn(evs, OnSend(Relay(c))) = <<IdOf(m)>>
    <3> DEFINE f == Relay(c)
    <3>1. c \in 1..(N - 1) /\ Parent[c] = p
      BY TreeFacts
    <3>2. /\ Values(f, Ids) /\ \A x \in DOMAIN f : x.tag = "XCAST" /\ x.dst = c
          /\ Copy(p, c, m) \in DOMAIN f /\ f[Copy(p, c, m)] = IdOf(m)
      BY <1>1, <1>2, <1>3, <3>1, RelayIs
    <3> HIDE DEF f
    <3> QED
      BY <1>1, <3>2 DEF f, Spread
  <2>2. Drawn(evs, OnSend(Posted(p))) = <<IdOf(m)>>
    <3> DEFINE f == Posted(p)
    <3>2. /\ Values(f, Ids) /\ \A x \in DOMAIN f : x.tag # "XCAST"
          /\ Inner(p, m) \in DOMAIN f /\ f[Inner(p, m)] = IdOf(m)
      BY <1>1, <1>2, <1>3, PostedIs
    <3> HIDE DEF f
    <3> QED
      BY <1>1, <3>2 DEF f, Spread
  <2>3. ASSUME NEW q \in Proc PROVE Drawn(evs, OnSend(Entering(q))) = <<>>
    <3> DEFINE f == Entering(q)
    <3>1. Values(f, 1..Xcasts) /\ \A x \in DOMAIN f : x.tag = "XCAST" /\ x.dst = Master
      BY EnteringIs
    <3>2. \A c \in Children(p) : c # Master
      BY TreeFacts
    <3> HIDE DEF f
    <3>3. Inner(p, m) \notin DOMAIN f /\ \A c \in Children(p) : Copy(p, c, m) \notin DOMAIN f
      BY <1>2, <3>1, <3>2
    <3> QED
      BY <1>1, <3>1, <3>3 DEF f, Spread
  <2> QED
    BY <2>1, <2>2, <2>3
<1> QED
  BY <1>1, <1>3

-----------------------------------------------------------------------------
(* The handler of an xcast. *)

\* The handler of the user's xcast m at p posts evs.
Relays(p, m, evs) ==
    /\ Posts(p, pt2pt_evbase(p), evs) /\ NextEvent(p, pt2pt_evbase(p)) = Recv(m)
    /\ m \in Messages /\ m.kind = "user" /\ m.tag = "XCAST" /\ m.dst = p /\ Routed(m)
    /\ \A c \in Children(p) : Drawn(evs, OnSend(Relay(c))) = <<IdOf(m)>>
    /\ Drawn(evs, OnSend(Posted(p))) = <<IdOf(m)>>
    /\ \A q \in Proc : Drawn(evs, OnSend(Entering(q))) = <<>>
    /\ delivered' = delivered /\ nxcasts' = nxcasts

\* Where it comes from.
LEMMA RelaysFrom ==
    ASSUME NEW p \in Proc, NEW m, NEW evs, Relays(p, m, evs)
    PROVE  /\ IdOf(m) \in Ids
           /\ p # Master => /\ p \in 1..(N - 1) /\ m \in DOMAIN Relay(p) /\ Relay(p)[m] = IdOf(m)
                            /\ \A q \in Proc : m \notin DOMAIN Entering(q)
           /\ p = Master => \E k \in 1..Xcasts : /\ IdOf(m) = <<m.src, k>> /\ m.src \in Proc
                                                 /\ m \in DOMAIN Entering(m.src) /\ Entering(m.src)[m] = k
           /\ \A q \in Proc : q # m.src => m \notin DOMAIN Entering(q)
<1>1. m \in Messages /\ m.kind = "user" /\ m.tag = "XCAST" /\ m.dst = p /\ Routed(m) /\ m.src \in Proc
  BY MsgTypes DEF Relays
<1>2. m.sig = NoSig /\ IdOf(m) \in Ids /\ m.buf = {IdOf(m)} /\ m = Msg(m.src, m.dst, m.tag, m.kind, m.sig, m.buf)
  BY <1>1, UserMsg, MsgTypes
<1>3. ASSUME p # Master
      PROVE  /\ p \in 1..(N - 1) /\ m \in DOMAIN Relay(p) /\ Relay(p)[m] = IdOf(m)
             /\ \A q \in Proc : m \notin DOMAIN Entering(q)
  <2>1. p \in 1..(N - 1)
    BY <1>3, TreeFacts
  <2>2. ToChild(m)
    BY <1>1, <1>3 DEF Routed, ToSelf, ToParent, ToMaster
  <2>3. m.src = Parent[p]
    BY <1>1, <2>2 DEF ToChild
  <2>4. m \in DOMAIN Relay(p) /\ Relay(p)[m] = IdOf(m)
    BY <1>1, <2>1, <2>3, RelayIs
  <2>5. \A q \in Proc : m \notin DOMAIN Entering(q)
    BY <1>1, <1>3, EnteringIs
  <2> QED
    BY <2>1, <2>4, <2>5
<1>4. ASSUME p = Master
      PROVE  \E k \in 1..Xcasts : /\ IdOf(m) = <<m.src, k>> /\ m.src \in Proc
                                  /\ m \in DOMAIN Entering(m.src) /\ Entering(m.src)[m] = k
  <2>1. ToMaster(m)
    BY <1>1, <1>4 DEF Routed, ToSelf, ToParent, ToChild
  <2>2. PICK k \in 1..Xcasts : m.buf = {<<m.src, k>>}
    BY <1>1, <2>1 DEF ToMaster
  <2>3. IdOf(m) = <<m.src, k>>
    BY <1>2, <2>2
  <2> DEFINE M == Msg(m.src, Master, "XCAST", "user", NoSig, {<<m.src, k>>})
  <2>4. M \in DOMAIN Entering(m.src) /\ Entering(m.src)[M] = k
    BY <1>1, EnteringIs
  <2>5. m = M
    BY <1>1, <1>2, <1>4, <2>2
  <2> HIDE DEF M
  <2> QED
    BY <1>1, <2>3, <2>4, <2>5
<1>5. \A q \in Proc : q # m.src => m \notin DOMAIN Entering(q)
  BY EnteringIs
<1> QED
  BY <1>2, <1>3, <1>4, <1>5

\* It is seen by p, and is on its way to the children.
LEMMA RelaysSeen ==
    ASSUME TypeOK, RouteInv, NEW p \in Proc, NEW m, NEW evs, Relays(p, m, evs)
    PROVE  /\ Seen(p)' = Seen(p) \o <<IdOf(m)>> /\ Seen(p) \in Seq(Ids)
           /\ \A r \in Proc : r # p => Seen(r)' = Seen(r)
<1> DEFINE b == pt2pt_evbase(p)
           f == Posted(p)
           id == IdOf(m)
           u == <<id>>
           A == Arriving(p, f)
           L == Leaving(p, f)
           D == delivered[p]
<1>1. /\ Posts(p, b, evs) /\ NextEvent(p, b) = Recv(m) /\ m.tag = "XCAST" /\ b \in Base
      /\ Drawn(evs, OnSend(f)) = u /\ delivered' = delivered
  BY TreeFacts DEF Relays
<1>2. Values(f, Ids) /\ m \notin DOMAIN f
  BY <1>1, PostedIs
<1>3. Part(NextEvent(p, b), OnRecv(f)) = <<>>
  <2>1. Part(Recv(m), OnRecv(f)) = Part(m, f)
    BY <1>2, PartFacts
  <2> QED
    BY <1>1, <1>2, <2>1 DEF Part
<1>4. id \in Ids /\ u \in Seq(Ids)
  <2>1. id \in Ids
    BY RelaysFrom
  <2> HIDE DEF id
  <2> QED
    BY <2>1
<1>5. A \in Seq(Ids) /\ L \in Seq(Ids) /\ D \in Seq(Ids)
  BY <1>2, LinkTypes DEF TypeOK
<1>6. Arriving(p, f) = <<>> \o Arriving(p, f)' /\ Leaving(p, f)' = L \o u /\ Arriving(p, f)' \in Seq(Ids)
  <2>1. /\ Arriving(p, f) = Part(NextEvent(p, b), OnRecv(f)) \o Arriving(p, f)'
        /\ Leaving(p, f)' = Leaving(p, f) \o Drawn(evs, OnSend(f))
        /\ Arriving(p, f)' \in Seq(Ids)
    <3>1. Shifted(p, b, evs, f, Ids)
      BY <1>1, <1>2, PostedAll
    <3> QED
      BY <3>1 DEF Shifted
  <2> QED
    BY <1>1, <1>3, <2>1
<1>7. Arriving(p, f)' = A
  <2> DEFINE A1 == Arriving(p, f)'
  <2>1. A = <<>> \o A1 /\ A1 \in Seq(Ids)
    BY <1>6
  <2> HIDE DEF A, A1
  <2>2. <<>> \o A1 = A1
    BY <2>1
  <2> QED
    BY <2>1, <2>2 DEF A1
<1>8. Seen(p) = D \o (A \o L) /\ Seen(p)' = D \o (A \o (L \o u))
  BY <1>1, <1>6, <1>7 DEF Seen, Self
<1> HIDE DEF D, A, L, u
<1>9. D \o (A \o (L \o u)) = (D \o (A \o L)) \o u /\ D \o (A \o L) \in Seq(Ids)
  <2>0. A \in Seq(Ids) /\ L \in Seq(Ids) /\ u \in Seq(Ids) /\ D \in Seq(Ids)
    BY <1>4, <1>5
  <2>1. (A \o L) \o u = A \o (L \o u) /\ A \o L \in Seq(Ids)
    BY <2>0, Assoc
  <2> DEFINE w == A \o L
  <2>2. w \in Seq(Ids) /\ w \o u = A \o (L \o u)
    BY <2>1
  <2> HIDE DEF w
  <2>4. D \in Seq(Ids) /\ w \in Seq(Ids) /\ u \in Seq(Ids)
    BY <2>0, <2>2
  <2>3. (D \o w) \o u = D \o (w \o u) /\ D \o w \in Seq(Ids)
    BY <2>4, Assoc
  <2> QED
    BY <2>2, <2>3 DEF w
<1>10. ASSUME NEW r \in Proc, r # p PROVE Seen(r)' = Seen(r)
  <2>1. Values(Posted(r), Ids)
    BY PostedIs
  <2>3. Shifted(p, b, evs, Posted(r), Ids)
    BY <1>1, <2>1, PostedAll
  <2>2. Arriving(r, Posted(r))' = Arriving(r, Posted(r)) /\ Leaving(r, Posted(r))' = Leaving(r, Posted(r))
    BY <1>10, <2>3 DEF Shifted
  <2> QED
    BY <1>1, <2>2 DEF Seen, Self
<1> QED
  BY <1>8, <1>9, <1>10 DEF u

LEMMA RelaysLinks ==
    ASSUME TypeOK, RouteInv, NEW p \in Proc, NEW m, NEW evs, Relays(p, m, evs), NEW c \in 1..(N - 1)
    PROVE  LET K == Link(Parent[c], c, Relay(c))
               K2 == Link(Parent[c], c, Relay(c))'
           IN  /\ K \in Seq(Ids) /\ K2 \in Seq(Ids)
               /\ c = p => K = <<IdOf(m)>> \o K2
               /\ Parent[c] = p => K2 = K \o <<IdOf(m)>>
               /\ c # p /\ Parent[c] # p => K2 = K
<1> DEFINE b == pt2pt_evbase(p)
           f == Relay(c)
           id == IdOf(m)
           u == <<id>>
           A == Arriving(c, f)
           X == Across(Parent[c], c, f)
           L == Leaving(Parent[c], f)
           A1 == Arriving(c, f)'
           X1 == Across(Parent[c], c, f)'
           L1 == Leaving(Parent[c], f)'
<1>0. c \in Proc /\ Parent[c] \in Proc /\ Parent[c] # c /\ b \in Base /\ c # Master
  BY TreeFacts
<1>1. Posts(p, b, evs) /\ NextEvent(p, b) = Recv(m) /\ m.dst = p
  BY DEF Relays
<1>2. Values(f, Ids)
  BY RelayIs
<1>3. id \in Ids /\ u \in Seq(Ids)
  <2>1. id \in Ids
    BY RelaysFrom
  <2> HIDE DEF id
  <2> QED
    BY <2>1
<1>4. A \in Seq(Ids) /\ X \in Seq(Ids) /\ L \in Seq(Ids)
  BY <1>0, <1>2, LinkTypes
<1>20. Shifted(p, b, evs, f, Ids)
  BY <1>0, <1>1, <1>2, PostedAll
<1>5. X1 = X
  BY <1>0, <1>20 DEF Shifted
<1>6. c # p => A1 = A
  BY <1>0, <1>20 DEF Shifted
<1>7. Parent[c] # p => L1 = L
  BY <1>0, <1>20 DEF Shifted
<1>8. c = p => A = u \o A1 /\ A1 \in Seq(Ids)
  <2> SUFFICES ASSUME c = p PROVE A = u \o A1 /\ A1 \in Seq(Ids)
    OBVIOUS
  <2>1. m \in DOMAIN f /\ f[m] = id
    BY <1>0, RelaysFrom
  <2>2. Part(Recv(m), OnRecv(f)) = Part(m, f)
    BY <1>2, PartFacts
  <2>3. Part(NextEvent(p, b), OnRecv(f)) = u
    BY <1>1, <2>1, <2>2 DEF Part
  <2>4. Arriving(p, f) = Part(NextEvent(p, b), OnRecv(f)) \o Arriving(p, f)' /\ Arriving(p, f)' \in Seq(Ids)
    BY <1>0, <1>20 DEF Shifted
  <2> QED
    BY <2>3, <2>4
<1>9. Parent[c] = p => L1 = L \o u
  <2> SUFFICES ASSUME Parent[c] = p PROVE L1 = L \o u
    OBVIOUS
  <2>1. c \in Children(p)
    BY TreeFacts
  <2>2. Drawn(evs, OnSend(f)) = u
    BY <2>1 DEF Relays
  <2>3. Leaving(p, f)' = Leaving(p, f) \o Drawn(evs, OnSend(f))
    BY <1>0, <1>20 DEF Shifted
  <2> QED
    BY <2>2, <2>3
<1>10. Link(Parent[c], c, f) = (A \o X) \o L /\ Link(Parent[c], c, f)' = (A1 \o X1) \o L1
  BY DEF Link
<1> HIDE DEF A, X, L, A1, X1, L1, u
<1>11. A \o X \in Seq(Ids) /\ (A \o X) \o L \in Seq(Ids) /\ (A \o X) \o (L \o u) = ((A \o X) \o L) \o u
  <2> DEFINE w == A \o X
  <2>1. w \in Seq(Ids)
    BY <1>4
  <2> HIDE DEF w
  <2>2. w \in Seq(Ids) /\ L \in Seq(Ids) /\ u \in Seq(Ids)
    BY <1>3, <1>4, <2>1
  <2>3. (w \o L) \o u = w \o (L \o u) /\ w \o L \in Seq(Ids)
    <3>1. \A x, y, z \in Seq(Ids) : (x \o y) \o z = x \o (y \o z) /\ x \o y \in Seq(Ids)
      BY Assoc
    <3> QED
      BY <2>2, <3>1, Zenon
  <2> QED
    BY <2>1, <2>3 DEF w
<1>12. A1 \in Seq(Ids) => (A1 \o X) \o L \in Seq(Ids) /\ ((u \o A1) \o X) \o L = u \o ((A1 \o X) \o L)
  <2> HAVE A1 \in Seq(Ids)
  <2>1. A1 \in Seq(Ids) /\ X \in Seq(Ids) /\ L \in Seq(Ids) /\ u \in Seq(Ids)
    BY <1>3, <1>4
  <2>2. (u \o A1) \o X = u \o (A1 \o X) /\ A1 \o X \in Seq(Ids)
    BY <2>1
  <2> DEFINE w == A1 \o X
  <2>3. w \in Seq(Ids) /\ (u \o A1) \o X = u \o w
    BY <2>2
  <2> HIDE DEF w
  <2>4. w \in Seq(Ids) /\ L \in Seq(Ids) /\ u \in Seq(Ids)
    BY <2>1, <2>3
  <2>5. (u \o w) \o L = u \o (w \o L) /\ w \o L \in Seq(Ids)
    <3>1. \A x, y, z \in Seq(Ids) : (x \o y) \o z = x \o (y \o z) /\ x \o y \in Seq(Ids)
      BY Assoc
    <3> QED
      BY <2>4, <3>1, Zenon
  <2> QED
    BY <2>3, <2>5 DEF w
<1>13. \A s \in Seq(Ids) : s \o u \in Seq(Ids)
  BY <1>3
<1>14. CASE c = p
  <2>1. L1 = L /\ A = u \o A1 /\ A1 \in Seq(Ids)
    BY <1>0, <1>7, <1>8, <1>14
  <2> QED
    BY <1>0, <1>5, <1>10, <1>11, <1>12, <1>14, <2>1 DEF u
<1>15. CASE Parent[c] = p
  <2> DEFINE K == (A \o X) \o L
  <2>1. A1 = A /\ c # p /\ L1 = L \o u
    BY <1>0, <1>6, <1>9, <1>15
  <2>2. Link(Parent[c], c, f) = K /\ Link(Parent[c], c, f)' = K \o u
    BY <1>5, <1>10, <1>11, <2>1
  <2>3. K \in Seq(Ids)
    BY <1>11
  <2> HIDE DEF K
  <2>4. K \o u \in Seq(Ids)
    BY <1>13, <2>3
  <2> QED
    BY <1>15, <2>1, <2>2, <2>3, <2>4 DEF u
<1>16. CASE c # p /\ Parent[c] # p
  BY <1>5, <1>6, <1>7, <1>10, <1>11, <1>16
<1> QED
  BY <1>14, <1>15, <1>16

\* At the master it is no longer on its way up; elsewhere no xcast moves up.
LEMMA RelaysStops ==
    ASSUME TypeOK, RouteInv, TypedNext, NEW p \in Proc, NEW m, NEW evs, Relays(p, m, evs)
    PROVE  /\ p # Master => SameStops
           /\ \A q \in Proc : q # m.src => Stops(q)' = Stops(q)
           /\ p = Master => \E k \in 1..Xcasts :
                 /\ m.src \in Proc /\ IdOf(m) = <<m.src, k>>
                 /\ Stops(m.src)[Master] = <<k>> \o Stops(m.src)'[Master]
                 /\ \A z \in 0..N : z # Master => Stops(m.src)'[z] = Stops(m.src)[z]
<1> DEFINE b == pt2pt_evbase(p)
<1>1. Posts(p, b, evs) /\ NextEvent(p, b) = Recv(m) /\ b \in Base
      /\ \A q \in Proc : Drawn(evs, OnSend(Entering(q))) = <<>>
  BY TreeFacts DEF Relays
<1>2. NoneAsked
  <2>1. NextEvent(p, b).op # "xcast"
    BY <1>1, EventTypes
  <2> QED
    BY <1>1, <2>1, PostedNoRequest
<1>3. ASSUME NEW q \in Proc, m \notin DOMAIN Entering(q) PROVE Stops(q)' = Stops(q)
  <2> DEFINE f == Entering(q)
  <2>1. Values(f, 1..Xcasts) /\ Drawn(evs, OnSend(f)) = <<>>
    BY <1>1, EnteringIs
  <2>2. Part(NextEvent(p, b), OnRecv(f)) = <<>>
    <3>1. Part(Recv(m), OnRecv(f)) = Part(m, f)
      BY <2>1, PartFacts
    <3> QED
      BY <1>1, <1>3, <3>1 DEF Part
  <2>3. Still(f)
    BY <1>1, <2>1, <2>2, PostStill
  <2>4. Drawn(queue[q]["ev"], Asked)' = Drawn(queue[q]["ev"], Asked)
    BY <1>2 DEF NoneAsked
  <2> QED
    BY <2>3, <2>4, StopsSame
<1>4. p # Master => SameStops
  <2>1. p # Master => \A q \in Proc : m \notin DOMAIN Entering(q)
    BY RelaysFrom
  <2> QED
    BY <1>3, <2>1 DEF SameStops
<1>5. \A q \in Proc : q # m.src => Stops(q)' = Stops(q)
  <2>1. \A q \in Proc : q # m.src => m \notin DOMAIN Entering(q)
    BY RelaysFrom
  <2> QED
    BY <1>3, <2>1
<1>6. ASSUME p = Master
      PROVE  \E k \in 1..Xcasts :
                 /\ m.src \in Proc /\ IdOf(m) = <<m.src, k>>
                 /\ Stops(m.src)[Master] = <<k>> \o Stops(m.src)'[Master]
                 /\ \A z \in 0..N : z # Master => Stops(m.src)'[z] = Stops(m.src)[z]
  <2>1. PICK k \in 1..Xcasts : /\ IdOf(m) = <<m.src, k>> /\ m.src \in Proc
                               /\ m \in DOMAIN Entering(m.src) /\ Entering(m.src)[m] = k
    BY <1>6, RelaysFrom
  <2>2. PICK q \in Proc : q = m.src
    BY <2>1
  <2> DEFINE f == Entering(q)
             S == 1..Xcasts
             u == <<k>>
             A1 == Arriving(p, f)'
             L == Leaving(p, f)
  <2>3. Values(f, S) /\ Drawn(evs, OnSend(f)) = <<>> /\ m \in DOMAIN f /\ f[m] = k
    BY <1>1, <2>1, <2>2, EnteringIs
  <2>4. Part(NextEvent(p, b), OnRecv(f)) = u
    <3>1. Part(Recv(m), OnRecv(f)) = Part(m, f)
      BY <2>3, PartFacts
    <3> QED
      BY <1>1, <2>3, <3>1 DEF Part
  <2>5. Shifted(p, b, evs, f, S)
    BY <1>1, <2>3, PostedAll
  <2>6. Arriving(p, f) = u \o A1 /\ Leaving(p, f)' = L \o <<>> /\ A1 \in Seq(S)
        /\ (\A r \in Proc : r # p => Leaving(r, f)' = Leaving(r, f))
        /\ \A a, c \in Proc : Across(a, c, f)' = Across(a, c, f)
    BY <2>3, <2>4, <2>5 DEF Shifted
  <2>7. L \in Seq(S) /\ u \in Seq(S)
    <3>1. L \in Seq(S)
      BY <2>3, LinkTypes
    <3>2. u \in Seq(S)
      OBVIOUS
    <3> QED
      BY <3>1, <3>2
  <2>8. Stops(q)[Master] = (u \o A1) \o L /\ Stops(q)'[Master] = A1 \o L
    <3>1. Stops(q)[Master] = Self(Master, f) /\ Stops(q)'[Master] = Self(Master, f)'
      BY StopsAre, StopsNext
    <3>2. Self(Master, f) = Arriving(p, f) \o L /\ Self(Master, f)' = A1 \o Leaving(p, f)'
      BY <1>6 DEF Self
    <3>3. Leaving(p, f)' = L
      <4>1. Leaving(p, f)' = L \o <<>> /\ L \in Seq(S)
        BY <2>6, <2>7
      <4> HIDE DEF L
      <4>2. L \o <<>> = L
        BY <4>1
      <4> QED
        BY <4>1, <4>2
    <3> HIDE DEF A1, L, u
    <3> QED
      BY <2>6, <3>1, <3>2, <3>3
  <2>9. Stops(q)[Master] = u \o Stops(q)'[Master]
    <3>1. u \in Seq(S) /\ A1 \in Seq(S) /\ L \in Seq(S)
      BY <2>6, <2>7
    <3> HIDE DEF u, A1, L, S
    <3>2. (u \o A1) \o L = u \o (A1 \o L)
      BY <3>1
    <3> QED
      BY <2>8, <3>2
  <2>10. ASSUME NEW z \in 0..N, z # Master PROVE Stops(q)'[z] = Stops(q)[z]
    <3>1. CASE z = N
      <4>1. Drawn(queue[q]["ev"], Asked)' = Drawn(queue[q]["ev"], Asked)
        BY <1>2 DEF NoneAsked
      <4> QED
        BY <3>1, <4>1, StopsAre, StopsNext
    <3>2. CASE z \in 1..(N - 1)
      <4>1. z \in Proc /\ Parent[z] \in Proc /\ z # p
        BY <1>6, <3>2, TreeFacts
      <4>2. Across(z, Parent[z], f)' = Across(z, Parent[z], f) /\ Leaving(z, f)' = Leaving(z, f)
        BY <2>6, <4>1
      <4>3. /\ Stops(q)[z] = Across(z, Parent[z], f) \o Leaving(z, f)
            /\ Stops(q)'[z] = Across(z, Parent[z], f)' \o Leaving(z, f)'
        BY <3>2, StopsAre, StopsNext
      <4> QED
        BY <4>2, <4>3
    <3> QED
      BY <2>10, <3>1, <3>2, TreeFacts
  <2> QED
    BY <2>1, <2>2, <2>9, <2>10
<1> QED
  BY <1>4, <1>5, <1>6

\* Everyone has seen the same, and the rest is on its way.
LEMMA RelaysDown ==
    ASSUME TypeOK, RouteInv, DownInv, NEW p \in Proc, NEW m, NEW evs, Relays(p, m, evs)
    PROVE  DownInv'
<1> SUFFICES ASSUME NEW c \in 1..(N - 1)
             PROVE  Seen(Parent[c])' = Seen(c)' \o Link(Parent[c], c, Relay(c))'
  BY DEF DownInv
<1> DEFINE q == Parent[c]
           id == IdOf(m)
           u == <<id>>
           K == Link(q, c, Relay(c))
           K2 == Link(q, c, Relay(c))'
           s == Seen(c)
           t == Seen(q)
           s2 == Seen(c)'
           t2 == Seen(q)'
<1>1. c \in Proc /\ q \in Proc /\ q # c
  BY TreeFacts
<1>2. /\ K \in Seq(Ids) /\ K2 \in Seq(Ids)
      /\ c = p => K = u \o K2
      /\ q = p => K2 = K \o u
      /\ c # p /\ q # p => K2 = K
  BY RelaysLinks
<1>3. /\ Seen(p)' = Seen(p) \o u
      /\ \A r \in Proc : r # p => Seen(r)' = Seen(r)
  BY RelaysSeen
<1>4. /\ c = p => s2 = s \o u
      /\ c # p => s2 = s
      /\ q = p => t2 = t \o u
      /\ q # p => t2 = t
  BY <1>1, <1>3
<1>5. s \in Seq(Ids)
  <2>1. Values(Posted(c), Ids)
    BY <1>1, PostedIs
  <2>2. Arriving(c, Posted(c)) \in Seq(Ids) /\ Leaving(c, Posted(c)) \in Seq(Ids) /\ delivered[c] \in Seq(Ids)
    BY <1>1, <2>1, LinkTypes DEF TypeOK
  <2> DEFINE A == Arriving(c, Posted(c))
             L == Leaving(c, Posted(c))
             D == delivered[c]
  <2>3. s = D \o (A \o L) /\ A \in Seq(Ids) /\ L \in Seq(Ids) /\ D \in Seq(Ids)
    BY <2>2 DEF Seen, Self
  <2> HIDE DEF A, L, D
  <2>4. D \o (A \o L) \in Seq(Ids)
    BY <2>3
  <2> QED
    BY <2>3, <2>4
<1>6. u \in Seq(Ids)
  <2>1. id \in Ids
    BY RelaysFrom
  <2> HIDE DEF id
  <2> QED
    BY <2>1
<1>7. t = s \o K
  BY DEF DownInv
<1> HIDE DEF u, K, K2, s, t, s2, t2
<1>8. (s \o K) \o u = s \o (K \o u)
  <2>1. s \in Seq(Ids) /\ K \in Seq(Ids) /\ u \in Seq(Ids)
    BY <1>2, <1>5, <1>6
  <2> QED
    BY SMTT(60), <2>1
<1>9. (s \o u) \o K2 = s \o (u \o K2)
  <2>1. s \in Seq(Ids) /\ K2 \in Seq(Ids) /\ u \in Seq(Ids)
    BY <1>2, <1>5, <1>6
  <2> QED
    BY SMTT(60), <2>1
<1>10. t2 = s2 \o K2
  <2>1. CASE c = p
    BY <1>1, <1>2, <1>4, <1>7, <1>9, <2>1
  <2>2. CASE q = p
    BY <1>1, <1>2, <1>4, <1>7, <1>8, <2>2
  <2>3. CASE c # p /\ q # p
    BY <1>2, <1>4, <1>7, <2>3
  <2> QED
    BY <2>1, <2>2, <2>3
<1> QED
  BY <1>10 DEF t2, s2, K2

\* One more in order.
LEMMA OneMoreInOrder ==
    ASSUME NEW s \in Seq(Ids), NEW q \in Proc, NEW k \in 1..Xcasts, InOrder(s),
           \A j \in DOMAIN s : s[j] # <<q, k>>,
           \A l \in 1..(k - 1) : \E j \in DOMAIN s : s[j] = <<q, l>>
    PROVE  InOrder(s \o <<<<q, k>>>>)
<1> DEFINE id == <<q, k>>
           u == <<id>>
           t == s \o u
           n == Len(s)
<1>1. id \in Ids /\ id[1] = q /\ id[2] = k
  BY DEF Ids
<1>2. \A j \in DOMAIN s : s[j] # id
  OBVIOUS
<1> HIDE DEF id
<1>3. u \in Seq(Ids) /\ Len(u) = 1 /\ u[1] = id
  BY <1>1
<1> HIDE DEF u
<1>4. /\ t \in Seq(Ids) /\ DOMAIN t = 1..(n + 1) /\ t[n + 1] = id /\ n \in Nat /\ DOMAIN s = 1..n
      /\ \A i \in 1..n : t[i] = s[i]
  <2>0. s \in Seq(Ids) /\ u \in Seq(Ids)
    BY <1>3
  <2>1. /\ t \in Seq(Ids) /\ \A i \in 1..Len(s) : t[i] = s[i]
        /\ \A i \in 1..Len(u) : t[Len(s) + i] = u[i]
        /\ Len(t) = Len(s) + Len(u) /\ Len(s) \in Nat
    BY <2>0, ConcatPlaces
  <2> HIDE DEF t
  <2>2. DOMAIN t = 1..Len(t) /\ DOMAIN s = 1..n
    BY <2>0, <2>1
  <2> QED
    BY <1>3, <2>1, <2>2
<1> HIDE DEF t, n
<1>5. ASSUME NEW i \in DOMAIN t
      PROVE  /\ t[i] \notin {t[j] : j \in 1..(i - 1)}
             /\ \A l \in 1..(t[i][2] - 1) : <<t[i][1], l>> \in {t[j] : j \in 1..(i - 1)}
  <2>1. CASE i = n + 1
    <3>1. i - 1 = n
      BY <1>4, <2>1
    <3>2. id \notin {t[j] : j \in 1..n}
      BY <1>2, <1>4
    <3>3. \A l \in 1..(k - 1) : <<q, l>> \in {t[j] : j \in 1..n}
      <4> TAKE l \in 1..(k - 1)
      <4>1. PICK j \in DOMAIN s : s[j] = <<q, l>>
        OBVIOUS
      <4> QED
        BY <1>4, <4>1
    <3> QED
      BY <1>1, <1>4, <2>1, <3>1, <3>2, <3>3
  <2>2. CASE i \in 1..n
    <3>1. t[i] = s[i] /\ i \in DOMAIN s
      BY <1>4, <2>2
    <3>2. {t[j] : j \in 1..(i - 1)} = {s[j] : j \in 1..(i - 1)}
      <4>1. \A j \in 1..(i - 1) : j \in 1..n
        BY <1>4, <2>2
      <4> QED
        BY <1>4, <4>1
    <3>3. /\ s[i] \notin {s[j] : j \in 1..(i - 1)}
          /\ \A l \in 1..(s[i][2] - 1) : <<s[i][1], l>> \in {s[j] : j \in 1..(i - 1)}
      BY <3>1 DEF InOrder
    <3> QED
      BY <3>1, <3>2, <3>3
  <2>3. i = n + 1 \/ i \in 1..n
    BY <1>4
  <2> QED
    BY <2>1, <2>2, <2>3
<1>6. InOrder(t)
  BY <1>5 DEF InOrder
<1> QED
  BY <1>6 DEF t, u, id

\* The numbers that have left the master.
LEMMA PastGrows ==
    ASSUME NEW s \in Seq(Ids), NEW q \in Proc, NEW k \in 1..Xcasts,
           Seen(Master) = s, Seen(Master)' = s \o <<<<q, k>>>>
    PROVE  /\ Past(q)' = Past(q) \cup {k}
           /\ \A r \in Proc : r # q => Past(r)' = Past(r)
<1> DEFINE id == <<q, k>>
           u == <<id>>
           t == s \o u
           n == Len(s)
<1>1. id \in Ids /\ \A r, l : <<r, l>> = id <=> r = q /\ l = k
  BY DEF Ids
<1> HIDE DEF id
<1>3. u \in Seq(Ids) /\ Len(u) = 1 /\ u[1] = id
  BY <1>1
<1> HIDE DEF u
<1>4. /\ DOMAIN t = 1..(n + 1) /\ t[n + 1] = id /\ n \in Nat /\ DOMAIN s = 1..n
      /\ \A i \in 1..n : t[i] = s[i]
  <2>0. s \in Seq(Ids) /\ u \in Seq(Ids)
    BY <1>3
  <2>1. /\ t \in Seq(Ids) /\ \A i \in 1..Len(s) : t[i] = s[i]
        /\ \A i \in 1..Len(u) : t[Len(s) + i] = u[i]
        /\ Len(t) = Len(s) + Len(u) /\ Len(s) \in Nat
    BY <2>0, ConcatPlaces
  <2> HIDE DEF t
  <2>2. DOMAIN t = 1..Len(t) /\ DOMAIN s = 1..n
    BY <2>0, <2>1
  <2> QED
    BY <1>3, <2>1, <2>2
<1>5. Seen(Master)' = t
  BY DEF t, u, id
<1> HIDE DEF t, n
<1>6. \A x : (\E j \in DOMAIN t : t[j] = x) <=> x = id \/ \E j \in DOMAIN s : s[j] = x
  <2> TAKE x
  <2>1. \A j \in DOMAIN t : j = n + 1 \/ j \in DOMAIN s
    BY <1>4
  <2>2. n + 1 \in DOMAIN t /\ \A j \in DOMAIN s : j \in DOMAIN t
    BY <1>4
  <2> QED
    BY <1>4, <2>1, <2>2
<1>7. \A r, l : (\E j \in DOMAIN t : t[j] = <<r, l>>) <=> (r = q /\ l = k) \/ \E j \in DOMAIN s : s[j] = <<r, l>>
  BY ZenonT(60), <1>1, <1>6
<1>8. \A r : Past(r) = {l \in 1..Xcasts : \E j \in DOMAIN s : s[j] = <<r, l>>}
  BY DEF Past
<1>9. \A r : Past(r)' = {l \in 1..Xcasts : \E j \in DOMAIN t : t[j] = <<r, l>>}
  BY <1>5 DEF Past
<1> QED
  BY <1>7, <1>8, <1>9

LEMMA PastType == \A q : Past(q) \in SUBSET (1..Xcasts)
  BY DEF Past

\* Those on their way up are in line, and what the master has seen is in order.
LEMMA RelaysUp ==
    ASSUME XcastInv, TypedNext, NEW p \in Proc, NEW m, NEW evs, Relays(p, m, evs)
    PROVE  UpInv' /\ InOrder(Seen(Master))'
<1>1. TypeOK /\ RouteInv /\ UpInv /\ InOrder(Seen(Master)) /\ nxcasts' = nxcasts
  BY DEF XcastInv, Relays
<1>2. CASE p # Master
  <2>1. SameStops
    BY <1>1, <1>2, RelaysStops
  <2>2. Seen(Master)' = Seen(Master)
    BY <1>1, <1>2, RelaysSeen, TreeFacts
  <2>3. ASSUME NEW q \in Proc PROVE Lined(Stops(q)', nxcasts'[q], Past(q)')
    <3>1. Past(q)' = Past(q) /\ Stops(q)' = Stops(q)
      BY <2>1, <2>2, PastSame DEF SameStops
    <3> QED
      BY <1>1, <3>1 DEF UpInv
  <2>4. UpInv'
    BY <2>3 DEF UpInv, Lined, Ascending, Before, Has
  <2>5. InOrder(Seen(Master))'
    BY <1>1, <2>2
  <2> QED
    BY <2>4, <2>5
<1>3. CASE p = Master
  <2>1. PICK k \in 1..Xcasts :
            /\ m.src \in Proc /\ IdOf(m) = <<m.src, k>>
            /\ Stops(m.src)[Master] = <<k>> \o Stops(m.src)'[Master]
            /\ \A z \in 0..N : z # Master => Stops(m.src)'[z] = Stops(m.src)[z]
    BY <1>1, <1>3, RelaysStops
  <2>2. PICK q \in Proc : q = m.src
    BY <2>1
  <2>3. PICK s \in Seq(Ids) : s = Seen(Master)
    BY <1>1, <1>3, RelaysSeen
  <2>4. Seen(Master)' = s \o <<<<q, k>>>>
    BY <1>1, <1>3, <2>1, <2>2, <2>3, RelaysSeen
  <2>5. Past(q)' = Past(q) \cup {k} /\ \A r \in Proc : r # q => Past(r)' = Past(r)
    BY <2>3, <2>4, PastGrows
  <2>6. PICK past \in SUBSET (1..Xcasts) : past = Past(q)
    BY PastType
  <2>7. PICK st \in [0..N -> Seq(1..Xcasts)] : st = Stops(q)
    BY <1>1, StopsAre
  <2>8. PICK st2 \in [0..N -> Seq(1..Xcasts)] : st2 = Stops(q)'
    BY StopsNext
  <2>9. PICK n \in Nat : n = nxcasts[q]
    <3>1. nxcasts[q] \in 0..Xcasts
      BY <1>1 DEF TypeOK
    <3> QED
      BY <3>1
  <2>10. Lined(st, n, past)
    BY <1>1, <2>6, <2>7, <2>9 DEF UpInv
  <2>11. st[Master] = <<k>> \o st2[Master] /\ \A z \in 0..N : z # Master => st2[z] = st[z]
    BY <2>1, <2>2, <2>7, <2>8
  <2>12. Lined(st2, n, past \cup {k}) /\ k \notin past /\ \A l \in 1..(k - 1) : l \in past
    BY <2>10, <2>11, LeaveLined, ZenonT(60)
  <2>13. ASSUME NEW r \in Proc PROVE Lined(Stops(r)', nxcasts'[r], Past(r)')
    <3>1. CASE r = q
      BY <1>1, <2>5, <2>6, <2>8, <2>9, <2>12, <3>1
    <3>2. CASE r # q
      <4>1. Stops(r)' = Stops(r)
        BY <1>1, <2>2, <3>2, RelaysStops
      <4>2. Past(r)' = Past(r)
        BY <2>5, <3>2
      <4>3. Lined(Stops(r), nxcasts[r], Past(r))
        BY <1>1 DEF UpInv
      <4> QED
        BY <1>1, <4>1, <4>2, <4>3
    <3> QED
      BY <3>1, <3>2
  <2>14. UpInv'
    BY <2>13 DEF UpInv, Lined, Ascending, Before, Has
  <2>15. Past(q) = {l \in 1..Xcasts : \E j \in DOMAIN s : s[j] = <<q, l>>}
    BY <2>3 DEF Past
  <2>16. \A j \in DOMAIN s : s[j] # <<q, k>>
    BY <2>6, <2>12, <2>15
  <2>17. \A l \in 1..(k - 1) : \E j \in DOMAIN s : s[j] = <<q, l>>
    BY <2>6, <2>12, <2>15
  <2>18. InOrder(s \o <<<<q, k>>>>)
    <3>1. InOrder(s)
      BY <1>1, <2>3
    <3> QED
      BY <2>16, <2>17, <3>1, OneMoreInOrder
  <2>19. InOrder(Seen(Master))'
    BY <2>4, <2>18
  <2> QED
    BY <2>14, <2>19
<1> QED
  BY <1>2, <1>3

LEMMA XcastStep ==
    ASSUME XcastInv, NEW p \in Proc, XcastRecv(p)
    PROVE  XcastInv'
<1> DEFINE b == pt2pt_evbase(p)
<1>1. PICK m : m = NextEvent(p, b).msg
  OBVIOUS
<1>2. TypeOK /\ RouteInv /\ DownInv /\ UsersOK /\ TrackersOK
  BY TypesAre DEF XcastInv
<1>3. /\ b \in Base /\ queue[p][b] # <<>> /\ NextEvent(p, b) = Recv(m) /\ NextEvent(p, b).op = "recv"
      /\ m \in Messages /\ m.tag = "XCAST" /\ m.dst = p /\ Routed(m)
  BY <1>1, ArrivedIs DEF XcastRecv
<1>4. PICK evs \in Seq(EventsAt(p, "ev")) :
               /\ Handled(p, b, evs, <<>>)
               /\ \A j \in DOMAIN evs : evs[j].op = "send" /\ evs[j].msg.kind = m.kind
               /\ m.kind = "user" =>
                     /\ \A c \in Children(p) : Drawn(evs, OnSend(Relay(c))) = <<IdOf(m)>>
                     /\ Drawn(evs, OnSend(Posted(p))) = <<IdOf(m)>>
                     /\ \A q \in Proc : Drawn(evs, OnSend(Entering(q))) = <<>>
  BY <1>1, XcastPosts
<1>5. channel' = channel /\ delivered' = delivered /\ nxcasts' = nxcasts /\ UNCHANGED users /\ UNCHANGED trackers
  BY DEF XcastRecv, users
<1>6. Carried /\ evs \in Seq(Events)
  BY <1>2, <1>3, <1>4, <1>5, HandledCarried
<1>7. UsersOK' /\ TrackersOK'
  BY <1>2, <1>5, UsersSame, TrackersSame
<1>8. CASE m.kind # "user"
  <2>1. NextEvent(p, b).op # "send" /\ NextEvent(p, b).op # "xcast" /\ NextEvent(p, b).msg.kind # "user"
    BY <1>1, <1>3, <1>8
  <2>2. /\ \A f, S : Values(f, S) /\ UserOnly(f) => Still(f)
        /\ NoneAsked
    <3>1. \A i \in DOMAIN evs : evs[i].op = "send"
      BY <1>4
    <3>2. \A i \in DOMAIN evs : evs[i].msg.kind # "user"
      BY <1>4, <1>8
    <3> HIDE DEF b
    <3> QED
      BY <1>2, <1>3, <1>4, <1>5, <1>6, <2>1, <3>1, <3>2, QuietPost
  <2> QED
    BY <1>5, <1>6, <1>7, <2>2, QuietStep
<1>9. CASE m.kind = "user"
  <2>1. Relays(p, m, evs)
    <3>1. Posts(p, b, evs)
      BY <1>3, <1>4, <1>5, <1>6 DEF Posts
    <3> QED
      BY <1>3, <1>4, <1>5, <1>9, <3>1 DEF Relays
  <2>2. DownInv'
    BY <1>2, <2>1, RelaysDown
  <2>3. UpInv' /\ InOrder(Seen(Master))'
    BY <1>6, <2>1, RelaysUp DEF Carried
  <2>4. TypeOK' /\ RouteInv'
    BY <1>6, <1>7, TypesAre
  <2> QED
    BY <2>2, <2>3, <2>4 DEF XcastInv
<1> QED
  BY <1>8, <1>9

\* What its user receives a member has seen before.
LEMMA UserRecvStep ==
    ASSUME XcastInv, NEW p \in Proc, UserRecv(p)
    PROVE  XcastInv'
<1> DEFINE b == pt2pt_evbase(p)
           evs == <<>>
<1>1. TypeOK /\ RouteInv /\ UsersOK /\ TrackersOK
  BY TypesAre DEF XcastInv
<1>2. PICK m : m = NextEvent(p, b).msg
  OBVIOUS
<1>3. /\ b \in Base /\ queue[p][b] # <<>> /\ NextEvent(p, b) = Recv(m) /\ NextEvent(p, b).op = "recv"
      /\ m \in Messages /\ m.tag = "USER" /\ m.dst = p /\ Routed(m)
  BY <1>2, ArrivedIs DEF UserRecv
<1>4. m.src = p /\ m.kind = "user"
  <2>1. m.src = p
    BY <1>3 DEF Routed, ToSelf, ToParent, ToMaster, ToChild
  <2>2. m.kind = "user"
    BY <1>3, MsgTypes
  <2> QED
    BY <2>1, <2>2
<1>5. m \in DOMAIN Posted(p) /\ Posted(p)[m] = IdOf(m)
  BY <1>3, <1>4, PostedIs
<1> DEFINE id == IdOf(m)
           u == <<id>>
           D == delivered[p]
<1>6. id \in Ids
  BY <1>3, <1>4, UserMsg
<1>7. /\ Handled(p, b, evs, <<>>) /\ channel' = channel /\ UNCHANGED <<prog, calls, nxcasts, log>>
      /\ UNCHANGED trackers /\ delivered' = [delivered EXCEPT ![p] = Append(D, id)]
  BY <1>2 DEF UserRecv, IdOf
<1>8. evs \in Seq(EventsAt(p, "ev")) /\ DOMAIN evs = {} /\ \A f : Drawn(evs, f) = <<>>
  BY DrawnEmpty
<1> HIDE DEF evs
<1>9. Carried /\ evs \in Seq(Events)
  BY <1>1, <1>3, <1>7, <1>8, HandledCarried
<1>10. Posts(p, b, evs) /\ NextEvent(p, b).op # "xcast"
  BY <1>3, <1>7, <1>8, <1>9 DEF Posts
<1>11. NoneAsked
  BY <1>1, <1>3, <1>10, PostedNoRequest
<1>12. u \in Seq(Ids) /\ D \in Seq(Ids) /\ Append(D, id) \in Seq(Ids) /\ Append(D, id) = D \o u
  <2>1. D \in Seq(Ids)
    BY <1>1 DEF UsersOK
  <2> HIDE DEF D, id
  <2> QED
    BY <1>6, <2>1
<1>13. ASSUME NEW f, NEW S, Values(f, S), m \notin DOMAIN f PROVE Still(f)
  <2>1. Part(NextEvent(p, b), OnRecv(f)) = <<>>
    <3>1. Part(Recv(m), OnRecv(f)) = Part(m, f)
      BY <1>13, PartFacts
    <3> QED
      BY <1>3, <1>13, <3>1 DEF Part
  <2>2. Drawn(evs, OnSend(f)) = <<>>
    BY <1>8
  <2> QED
    BY <1>1, <1>3, <1>10, <1>13, <2>1, <2>2, PostStill
<1>14. SameStops
  <2>1. ASSUME NEW q \in Proc PROVE Stops(q)' = Stops(q)
    <3>1. Values(Entering(q), 1..Xcasts) /\ m \notin DOMAIN Entering(q)
      BY <1>3, EnteringIs
    <3>2. Still(Entering(q))
      BY <1>13, <3>1
    <3>3. Drawn(queue[q]["ev"], Asked)' = Drawn(queue[q]["ev"], Asked)
      BY <1>11 DEF NoneAsked
    <3>4. TypedNext
      BY <1>9 DEF Carried
    <3> QED
      BY <1>1, <3>2, <3>3, <3>4, StopsSame
  <2> QED
    BY <2>1 DEF SameStops
<1>15. SameLinks
  <2>1. ASSUME NEW c \in 1..(N - 1) PROVE Link(Parent[c], c, Relay(c))' = Link(Parent[c], c, Relay(c))
    <3>1. Values(Relay(c), Ids) /\ m \notin DOMAIN Relay(c)
      BY <1>3, RelayIs
    <3>2. Still(Relay(c))
      BY <1>13, <3>1
    <3>3. c \in Proc /\ Parent[c] \in Proc
      BY TreeFacts
    <3>4. /\ Arriving(c, Relay(c))' = Arriving(c, Relay(c)) /\ Leaving(Parent[c], Relay(c))' = Leaving(Parent[c], Relay(c))
          /\ Across(Parent[c], c, Relay(c))' = Across(Parent[c], c, Relay(c))
      BY <3>2, <3>3 DEF Still, Quiet
    <3> QED
      BY <3>4 DEF Link
  <2> QED
    BY <2>1 DEF SameLinks
<1>16. Seen(p)' = Seen(p)
  <2> DEFINE f == Posted(p)
             A == Arriving(p, f)
             L == Leaving(p, f)
             A1 == Arriving(p, f)'
             D1 == Append(D, id)
  <2>1. Values(f, Ids)
    BY PostedIs
  <2>2. Shifted(p, b, evs, f, Ids)
    BY <1>1, <1>3, <1>10, <2>1, PostedAll
  <2>3. Part(NextEvent(p, b), OnRecv(f)) = u
    <3>1. Part(Recv(m), OnRecv(f)) = Part(m, f)
      BY <2>1, PartFacts
    <3> QED
      BY <1>3, <1>5, <3>1 DEF Part
  <2>4. A = u \o A1 /\ Leaving(p, f)' = L \o <<>> /\ A1 \in Seq(Ids)
    BY <1>8, <2>2, <2>3 DEF Shifted
  <2>5. L \in Seq(Ids) /\ A1 \in Seq(Ids) /\ u \in Seq(Ids) /\ D \in Seq(Ids)
    BY <1>1, <1>12, <2>1, <2>4, LinkTypes
  <2>6. Seen(p) = D \o (A \o L)
    BY DEF Seen, Self
  <2>7. Seen(p)' = D1 \o (A1 \o Leaving(p, f)')
    <3>1. delivered'[p] = D1
      BY <1>1, <1>7 DEF UsersOK
    <3> HIDE DEF D1
    <3> QED
      BY <3>1 DEF Seen, Self
  <2>8. D1 = D \o u
    BY <1>12
  <2> HIDE DEF A, L, A1, u, D, D1
  <2>9. L \o <<>> = L
    BY <2>5
  <2>10. (u \o A1) \o L = u \o (A1 \o L) /\ A1 \o L \in Seq(Ids)
    <3>1. \A x, y, z \in Seq(Ids) : (x \o y) \o z = x \o (y \o z) /\ x \o y \in Seq(Ids)
      BY Assoc
    <3> QED
      BY <2>5, <3>1
  <2> DEFINE w == A1 \o L
  <2>11. (D \o u) \o w = D \o (u \o w)
    <3>1. D \in Seq(Ids) /\ u \in Seq(Ids) /\ w \in Seq(Ids)
      BY <2>5, <2>10
    <3> HIDE DEF w
    <3> QED
      BY <3>1, Assoc
  <2> QED
    BY <2>4, <2>6, <2>7, <2>8, <2>9, <2>10, <2>11
<1>17. ASSUME NEW r \in Proc, r # p PROVE Seen(r)' = Seen(r)
  <2>1. Values(Posted(r), Ids)
    BY PostedIs
  <2>2. Shifted(p, b, evs, Posted(r), Ids)
    BY <1>1, <1>3, <1>10, <2>1, PostedAll
  <2>3. Arriving(r, Posted(r))' = Arriving(r, Posted(r)) /\ Leaving(r, Posted(r))' = Leaving(r, Posted(r))
    BY <1>17, <2>2 DEF Shifted
  <2>4. delivered'[r] = delivered[r]
    BY <1>1, <1>7, <1>17 DEF UsersOK
  <2> QED
    BY <2>3, <2>4 DEF Seen, Self
<1>18. DownInv' /\ UpInv' /\ InOrder(Seen(Master))'
  <2>1. SameSeen
    BY <1>16, <1>17 DEF SameSeen
  <2>2. DownInv /\ UpInv /\ InOrder(Seen(Master)) /\ nxcasts' = nxcasts
    BY <1>7 DEF XcastInv
  <2> QED
    BY <1>14, <1>15, <2>1, <2>2, SameView
<1>19. UsersOK' /\ TrackersOK'
  <2>1. delivered' \in [Proc -> Seq(Ids)]
    <3> DEFINE T == Seq(Ids)
               D1 == Append(D, id)
    <3>1. D1 \in T /\ delivered' = [delivered EXCEPT ![p] = D1] /\ delivered \in [Proc -> T]
      BY <1>1, <1>7, <1>12 DEF UsersOK
    <3> HIDE DEF T, D1
    <3> QED
      BY <3>1 DEF T
  <2>2. UsersOK'
    BY <1>1, <1>7, <2>1 DEF UsersOK, Kinds, Ids, Contents
  <2>3. TrackersOK'
    BY <1>1, <1>7, TrackersSame
  <2> QED
    BY <2>2, <2>3
<1>20. TypeOK' /\ RouteInv'
  BY <1>9, <1>19, TypesAre
<1> QED
  BY <1>18, <1>20 DEF XcastInv

\* A number goes from one stop to the next.
LEMMA MovedUp ==
    ASSUME XcastInv, TypedNext, Seen(Master)' = Seen(Master), nxcasts' = nxcasts,
           NEW q \in Proc, NEW x \in 0..N, NEW y \in 0..N, x # y, NEW k \in 1..Xcasts,
           Advanced(Stops(q), Stops(q)', x, y, k), Ahead(y, x),
           \A v \in 0..N : Ahead(y, v) => v = x \/ Ahead(x, v) \/ Stops(q)[v] = <<>>,
           \A u \in 0..N : Ahead(u, y) => Ahead(u, x) /\ u # x /\ u # y
    PROVE  Lined(Stops(q)', nxcasts'[q], Past(q)')
<1>1. TypeOK /\ UpInv
  BY DEF XcastInv
<1>2. Past(q)' = Past(q)
  BY PastSame
<1>3. PICK past \in SUBSET (1..Xcasts) : past = Past(q)
  BY PastType
<1>4. PICK st \in [0..N -> Seq(1..Xcasts)] : st = Stops(q)
  BY <1>1, StopsAre
<1>5. PICK st2 \in [0..N -> Seq(1..Xcasts)] : st2 = Stops(q)'
  BY StopsNext
<1>6. PICK n \in Nat : n = nxcasts[q]
  <2>1. nxcasts[q] \in 0..Xcasts
    BY <1>1 DEF TypeOK
  <2> QED
    BY <2>1
<1>7. Lined(st, n, past)
  BY <1>1, <1>3, <1>4, <1>6 DEF UpInv
<1>8. Advanced(st, st2, x, y, k) /\ \A v \in 0..N : Ahead(y, v) => v = x \/ Ahead(x, v) \/ st[v] = <<>>
  BY <1>4, <1>5
<1>9. Lined(st2, n, past)
  BY <1>7, <1>8, AdvanceLined
<1> QED
  BY <1>2, <1>3, <1>5, <1>6, <1>9

LEMMA NotMovedUp ==
    ASSUME UpInv, Seen(Master)' = Seen(Master), nxcasts' = nxcasts, NEW q \in Proc, Stops(q)' = Stops(q)
    PROVE  Lined(Stops(q)', nxcasts'[q], Past(q)')
<1>1. Past(q)' = Past(q)
  BY PastSame
<1> QED
  BY <1>1 DEF UpInv

\* The order of the stops, when it moves from a member to its parent.
LEMMA AheadOnPath ==
    ASSUME TypeOK, RouteInv, NEW q \in Proc, NEW a \in 1..(N - 1), q \in {a} \cup Relatives[a]
    PROVE  /\ Ahead(Parent[a], a) /\ a # Parent[a] /\ Parent[a] \in 0..N /\ a \in 0..N
           /\ \A v \in 0..N : Ahead(Parent[a], v) => v = a \/ Ahead(a, v) \/ Stops(q)[v] = <<>>
           /\ \A u \in 0..N : Ahead(u, Parent[a]) => Ahead(u, a) /\ u # a /\ u # Parent[a]
<1> DEFINE y == Parent[a]
<1>1. /\ a \in Proc /\ y \in Proc /\ y # a /\ a \in Children(y) /\ N \in Nat \ {0} /\ Proc = 0..(N - 1)
      /\ a # N /\ y # N /\ \A p \in Proc : p # N
  BY TreeFacts
<1>2. a \in Relatives[y] /\ Relatives[a] \subseteq Relatives[y]
  BY <1>1, BelowFacts
<1>3. Ahead(y, a) /\ y \in 0..N /\ a \in 0..N
  BY <1>1, <1>2 DEF Ahead
<1>4. ASSUME NEW v \in 0..N, Ahead(y, v), v # a, ~Ahead(a, v) PROVE Stops(q)[v] = <<>>
  <2>1. v # N /\ v \in Relatives[y]
    BY <1>1, <1>4 DEF Ahead
  <2>2. v \in 1..(N - 1) /\ v \in Proc /\ v \notin Relatives[a]
    BY <1>1, <1>4, <2>1, BelowFacts DEF Ahead
  <2>3. q \notin {v} \cup Relatives[v]
    BY <1>1, <1>4, <2>1, <2>2, OneWayUp
  <2>4. Leaving(v, Entering(q)) = <<>> /\ Across(v, Parent[v], Entering(q)) = <<>>
    BY <2>2, <2>3, OffPath, TreeFacts
  <2>5. Stops(q)[v] = <<>> \o <<>>
    BY <2>2, <2>4, StopsAre
  <2> QED
    BY <2>5
<1>5. ASSUME NEW u \in 0..N, Ahead(u, y) PROVE Ahead(u, a) /\ u # a /\ u # y
  <2>1. u # N /\ y \in Relatives[u] /\ u \in Proc
    BY <1>1, <1>5 DEF Ahead
  <2>2. a \in Relatives[u]
    BY <1>1, <2>1, BelowDown
  <2>3. u # a /\ u # y
    BY <2>1, <2>2, BelowFacts
  <2> QED
    BY <1>1, <2>1, <2>2, <2>3 DEF Ahead
<1> QED
  BY <1>1, <1>3, <1>4, <1>5

\* What is on its way is carried on.
LEMMA TransportStep ==
    ASSUME XcastInv, NEW p \in Proc, Transport(p)
    PROVE  XcastInv'
<1>1. TypeOK /\ RouteInv /\ UsersOK /\ TrackersOK /\ DownInv /\ UpInv /\ InOrder(Seen(Master))
  BY TypesAre DEF XcastInv
<1>2. Moving(p) /\ UNCHANGED users /\ UNCHANGED trackers /\ delivered' = delivered /\ nxcasts' = nxcasts
  BY DEF Transport, Moving, users
<1>3. TransportOK
  BY <1>1, <1>2, SendIs, DeliverIs DEF Moving
<1>4. TypeOK' /\ RouteInv' /\ TypedNext
  <2>1. UsersOK' /\ TrackersOK'
    BY <1>1, <1>2, UsersSame, TrackersSame
  <2>2. Carried /\ TypedNext
    BY <1>3 DEF TransportOK, Carried
  <2> QED
    BY <2>1, <2>2, TypesAre
<1>5. SameSeen
  <2>1. ASSUME NEW r \in Proc PROVE Seen(r)' = Seen(r)
    <3>1. Values(Posted(r), Ids) /\ \A m \in DOMAIN Posted(r) : m.src = r /\ m.dst = r
      BY PostedIs
    <3>2. Self(r, Posted(r))' = Self(r, Posted(r))
      BY <1>1, <1>2, <3>1, SelfKept
    <3> QED
      BY <1>2, <3>2 DEF Seen
  <2> QED
    BY <2>1 DEF SameSeen
<1>6. SameLinks
  <2>1. ASSUME NEW c \in 1..(N - 1) PROVE Link(Parent[c], c, Relay(c))' = Link(Parent[c], c, Relay(c))
    <3>1. c \in Proc /\ Parent[c] \in Proc
      BY TreeFacts
    <3>2. /\ Values(Relay(c), Ids)
          /\ \A m \in DOMAIN Relay(c) : m \in Messages /\ (ToChild(m) \/ ToParent(m)) /\ m.src = Parent[c] /\ m.dst = c
      BY RelayIs
    <3> QED
      BY <1>1, <1>2, <3>1, <3>2, LinkKept
  <2> QED
    BY <2>1 DEF SameLinks
<1>7. Seen(Master)' = Seen(Master)
  BY <1>5, TreeFacts DEF SameSeen
<1>8. UpInv'
  <2>1. ASSUME NEW q \in Proc PROVE Lined(Stops(q)', nxcasts'[q], Past(q)')
    <3>1. CASE Stops(q)' = Stops(q)
      BY <1>1, <1>2, <1>7, <3>1, NotMovedUp
    <3>2. CASE Stops(q)' # Stops(q)
      <4>1. PICK a \in 1..(N - 1), k \in 1..Xcasts :
                   q \in {a} \cup Relatives[a] /\ Advanced(Stops(q), Stops(q)', a, Parent[a], k)
        BY <1>1, <1>2, <3>2, StopsMove
      <4>2. /\ Ahead(Parent[a], a) /\ a # Parent[a] /\ Parent[a] \in 0..N /\ a \in 0..N
            /\ \A v \in 0..N : Ahead(Parent[a], v) => v = a \/ Ahead(a, v) \/ Stops(q)[v] = <<>>
            /\ \A u \in 0..N : Ahead(u, Parent[a]) => Ahead(u, a) /\ u # a /\ u # Parent[a]
        BY <1>1, <4>1, AheadOnPath
      <4> QED
        BY <1>2, <1>4, <1>7, <4>1, <4>2, MovedUp
    <3> QED
      BY <3>1, <3>2
  <2> QED
    BY <2>1 DEF UpInv, Lined, Ascending, Before, Has
<1>9. DownInv'
  <2>1. ASSUME NEW c \in 1..(N - 1) PROVE Seen(Parent[c])' = Seen(c)' \o Link(Parent[c], c, Relay(c))'
    <3>1. Parent[c] \in Proc /\ c \in Proc
      BY TreeFacts
    <3>2. Seen(Parent[c])' = Seen(Parent[c]) /\ Seen(c)' = Seen(c)
      BY <1>5, <3>1 DEF SameSeen
    <3> QED
      BY <1>1, <1>6, <3>2 DEF SameLinks, DownInv
  <2> QED
    BY <2>1 DEF DownInv
<1>10. InOrder(Seen(Master))'
  BY <1>1, <1>7
<1> QED
  BY <1>4, <1>8, <1>9, <1>10 DEF XcastInv

\* The order of the stops, when it leaves the request for its origin.
LEMMA AheadAtOrigin ==
    ASSUME TypeOK, RouteInv, NEW p \in Proc
    PROVE  /\ Ahead(p, N) /\ p # N /\ p \in 0..N /\ N \in 0..N
           /\ \A v \in 0..N : Ahead(p, v) => v = N \/ Ahead(N, v) \/ Stops(p)[v] = <<>>
           /\ \A u \in 0..N : Ahead(u, p) => Ahead(u, N) /\ u # N /\ u # p
<1>1. N \in Nat \ {0} /\ Proc = 0..(N - 1) /\ p # N
  BY TreeFacts
<1>2. Ahead(p, N) /\ p \in 0..N /\ N \in 0..N
  BY <1>1 DEF Ahead
<1>3. ASSUME NEW v \in 0..N, Ahead(p, v), v # N PROVE Stops(p)[v] = <<>>
  <2>1. v \in Relatives[p]
    BY <1>1, <1>3 DEF Ahead
  <2>2. v \in 1..(N - 1) /\ v \in Proc /\ v > p
    BY <1>1, <2>1, BelowFacts
  <2>3. p \in Nat /\ v \in Nat /\ p # v
    BY <1>1, <2>1, <2>2, BelowFacts
  <2>4. p \notin Relatives[v]
    <3>1. p \in Relatives[v] => p > v
      BY <2>2, BelowFacts
    <3> QED
      BY <2>2, <2>3, <3>1
  <2>5. Leaving(v, Entering(p)) = <<>> /\ Across(v, Parent[v], Entering(p)) = <<>>
    BY <2>2, <2>3, <2>4, OffPath, TreeFacts
  <2>6. Stops(p)[v] = <<>> \o <<>>
    BY <2>2, <2>5, StopsAre
  <2> QED
    BY <2>6
<1>4. ASSUME NEW u \in 0..N, Ahead(u, p) PROVE Ahead(u, N) /\ u # N /\ u # p
  <2>1. u # N /\ p \in Relatives[u] /\ u \in Proc
    BY <1>1, <1>4 DEF Ahead
  <2>2. u # p
    BY <2>1, BelowFacts
  <2> QED
    BY <2>1, <2>2 DEF Ahead
<1> QED
  BY <1>1, <1>2, <1>3, <1>4

\* An origin sends its next xcast to the master.
LEMMA ProcessXcastStep ==
    ASSUME XcastInv, NEW p \in Proc, ProcessXcast(p)
    PROVE  XcastInv'
<1>1. TypeOK /\ RouteInv /\ UsersOK /\ TrackersOK /\ DownInv /\ UpInv /\ InOrder(Seen(Master))
  BY TypesAre DEF XcastInv
<1>2. "ev" \in Base /\ queue[p]["ev"] # <<>> /\ NextEvent(p, "ev").op = "xcast"
  BY TreeFacts DEF ProcessXcast, Ready
<1>3. PICK k : k = NextEvent(p, "ev").number
  OBVIOUS
<1>4. k \in 1..Xcasts /\ NextEvent(p, "ev") = [op |-> "xcast", number |-> k]
  <2>1. NextEvent(p, "ev") \in Events
    BY <1>1, <1>2, NextAt
  <2> QED
    BY <1>2, <1>3, <2>1, EventTypes
<1> DEFINE id == <<p, k>>
           M == Msg(p, Master, "XCAST", "user", NoSig, {id})
           e == Send(M)
           evs == <<e>>
           u == <<k>>
<1>5. Handled(p, "ev", evs, <<>>) /\ channel' = channel /\ UNCHANGED users /\ UNCHANGED trackers
  BY <1>3 DEF ProcessXcast, XcastEntry
<1>6. /\ M.src = p /\ M.dst = Master /\ M.tag = "XCAST" /\ M.kind = "user" /\ M.buf = {id}
      /\ M \in Messages
  <2>1. id \in Ids /\ "XCAST" \in {"XCAST", "USER"} /\ Master \in Proc
    BY <1>4, TreeFacts DEF Ids
  <2> HIDE DEF id
  <2>2. M \in UserMessages
    BY <2>1, MsgTypes
  <2> QED
    BY <2>2, MsgFields DEF Messages
<1>7. M \in DOMAIN Entering(p) /\ Entering(p)[M] = k
  BY <1>4, EnteringIs
<1>8. ToMaster(M)
  BY <1>6, <1>7, EnteringIs
<1> HIDE DEF M
<1>9. e \in EventsAt(p, "ev") /\ e.op = "send"
  <2>1. SendAt(p, M)
    BY <1>6, <1>8 DEF SendAt, Routed
  <2>2. e \in Events /\ e.op = "send" /\ e.msg = M
    BY <1>6, EventTypes
  <2> HIDE DEF e
  <2> QED
    BY <2>1, <2>2 DEF EventsAt, EventAt
<1> HIDE DEF e
<1>10. evs \in Seq(EventsAt(p, "ev")) /\ \A i \in DOMAIN evs : evs[i].op = "send"
  BY <1>9
<1>11. \A f, S : Values(f, S) => Drawn(evs, OnSend(f)) = Part(M, f)
  <2> SUFFICES ASSUME NEW f, NEW S, Values(f, S) PROVE Drawn(evs, OnSend(f)) = Part(M, f)
    OBVIOUS
  <2>1. Values(OnSend(f), S) /\ Part(Send(M), OnSend(f)) = Part(M, f)
    BY PartFacts
  <2> QED
    BY <1>9, <2>1, DrawnUnit DEF e
<1> HIDE DEF evs
<1>12. Carried /\ evs \in Seq(Events)
  BY <1>1, <1>2, <1>5, <1>10, HandledCarried
<1>13. Posts(p, "ev", evs)
  BY <1>2, <1>5, <1>10, <1>12 DEF Posts
<1>14. \A f, S : Values(f, S) => Part(NextEvent(p, "ev"), OnRecv(f)) = <<>>
  BY <1>2, PartFacts
<1>15. ASSUME NEW f, NEW S, Values(f, S), M \notin DOMAIN f PROVE Still(f)
  <2>1. Drawn(evs, OnSend(f)) = <<>>
    BY <1>11, <1>15 DEF Part
  <2> QED
    BY <1>1, <1>2, <1>13, <1>14, <1>15, <2>1, PostStill
<1>16. Part(NextEvent(p, "ev"), Asked) = u
  BY <1>4, AskedFacts
<1>17. /\ Drawn(queue[p]["ev"], Asked) = u \o Drawn(queue[p]["ev"], Asked)'
       /\ \A r \in Proc : r # p => queue'[r] = queue[r]
  BY <1>1, <1>2, <1>5, <1>10, <1>12, <1>16, PostIs
<1>18. TypedNext /\ TypeOK' /\ RouteInv'
  <2>1. UsersOK' /\ TrackersOK'
    BY <1>1, <1>5, UsersSame, TrackersSame
  <2> QED
    BY <1>12, <2>1, TypesAre DEF Carried
<1>19. delivered' = delivered /\ nxcasts' = nxcasts
  BY <1>5 DEF users
<1>20. SameSeen
  <2>1. ASSUME NEW r \in Proc PROVE Seen(r)' = Seen(r)
    <3>1. Values(Posted(r), Ids) /\ M \notin DOMAIN Posted(r)
      BY <1>6, PostedIs
    <3>2. Still(Posted(r))
      BY <1>15, <3>1
    <3>3. Arriving(r, Posted(r))' = Arriving(r, Posted(r)) /\ Leaving(r, Posted(r))' = Leaving(r, Posted(r))
      BY <3>2 DEF Still, Quiet
    <3> QED
      BY <1>19, <3>3 DEF Seen, Self
  <2> QED
    BY <2>1 DEF SameSeen
<1>21. SameLinks
  <2>1. ASSUME NEW c \in 1..(N - 1) PROVE Link(Parent[c], c, Relay(c))' = Link(Parent[c], c, Relay(c))
    <3>1. c \in Proc /\ Parent[c] \in Proc /\ c # Master
      BY TreeFacts
    <3>2. Values(Relay(c), Ids) /\ M \notin DOMAIN Relay(c)
      BY <1>6, <3>1, RelayIs
    <3>3. Still(Relay(c))
      BY <1>15, <3>2
    <3>4. /\ Arriving(c, Relay(c))' = Arriving(c, Relay(c)) /\ Leaving(Parent[c], Relay(c))' = Leaving(Parent[c], Relay(c))
          /\ Across(Parent[c], c, Relay(c))' = Across(Parent[c], c, Relay(c))
      BY <3>1, <3>3 DEF Still, Quiet
    <3> QED
      BY <3>4 DEF Link
  <2> QED
    BY <2>1 DEF SameLinks
<1>22. ASSUME NEW q \in Proc, q # p PROVE Stops(q)' = Stops(q)
  <2>1. Values(Entering(q), 1..Xcasts) /\ M \notin DOMAIN Entering(q)
    BY <1>6, <1>22, EnteringIs
  <2>2. Still(Entering(q))
    BY <1>15, <2>1
  <2>3. Drawn(queue[q]["ev"], Asked)' = Drawn(queue[q]["ev"], Asked)
    BY <1>17, <1>22 DEF Asked
  <2> QED
    BY <1>1, <1>18, <2>2, <2>3, StopsSame
<1>23. Advanced(Stops(p), Stops(p)', N, p, k)
  <2> DEFINE f == Entering(p)
             S == 1..Xcasts
             A1 == Arriving(p, f)'
             L == Leaving(p, f)
             C == Across(p, Parent[p], f)
  <2>1. Values(f, S)
    BY EnteringIs
  <2>2. Shifted(p, "ev", evs, f, S)
    BY <1>1, <1>2, <1>13, <2>1, PostedAll
  <2>3. Drawn(evs, OnSend(f)) = u
    BY <1>7, <1>11, <2>1 DEF Part
  <2>4. /\ Arriving(p, f) = <<>> \o A1 /\ Leaving(p, f)' = L \o u /\ A1 \in Seq(S)
        /\ \A r \in Proc : r # p => Arriving(r, f)' = Arriving(r, f) /\ Leaving(r, f)' = Leaving(r, f)
        /\ \A a, c \in Proc : Across(a, c, f)' = Across(a, c, f)
    BY <1>14, <2>1, <2>2, <2>3 DEF Shifted
  <2>5. L \in Seq(S) /\ u \in Seq(S) /\ A1 \in Seq(S) /\ Arriving(p, f) = A1
    <3>1. L \in Seq(S)
      BY <1>1, <2>1, LinkTypes
    <3>2. u \in Seq(S)
      BY <1>4
    <3>3. <<>> \o A1 = A1
      <4>1. A1 \in Seq(S)
        BY <2>4
      <4> HIDE DEF A1
      <4> QED
        BY <4>1
    <3> QED
      BY <2>4, <3>1, <3>2, <3>3
  <2>6. Stops(p)[N] = u \o Stops(p)'[N]
    BY <1>1, <1>17, <1>18, StopsAre, StopsNext
  <2>7. Stops(p)'[p] = Stops(p)[p] \o u
    <3>1. CASE p = Master
      <4>1. Stops(p)[p] = A1 \o L /\ Stops(p)'[p] = A1 \o (L \o u)
        <5>1. Stops(p)[p] = Self(p, f) /\ Stops(p)'[p] = Self(p, f)'
          BY <1>1, <1>18, <3>1, StopsAre, StopsNext
        <5>2. Self(p, f) = Arriving(p, f) \o L /\ Self(p, f)' = A1 \o Leaving(p, f)'
          BY DEF Self
        <5> HIDE DEF A1, L, u
        <5> QED
          BY <2>4, <2>5, <5>1, <5>2
      <4>2. A1 \in Seq(S) /\ L \in Seq(S) /\ u \in Seq(S)
        BY <2>5
      <4> HIDE DEF A1, L, u, S
      <4>3. (A1 \o L) \o u = A1 \o (L \o u)
        BY <4>2, Assoc
      <4> QED
        BY <4>1, <4>3
    <3>2. CASE p # Master
      <4>0. p \in 1..(N - 1) /\ Parent[p] \in Proc
        BY <3>2, TreeFacts
      <4>1. Stops(p)[p] = C \o L /\ Stops(p)'[p] = C \o (L \o u)
        <5>1. Stops(p)[p] = C \o L /\ Stops(p)'[p] = Across(p, Parent[p], f)' \o Leaving(p, f)'
          BY <1>1, <1>18, <4>0, StopsAre, StopsNext
        <5>2. Across(p, Parent[p], f)' = C
          BY <2>4, <4>0
        <5> HIDE DEF C, L, u
        <5> QED
          BY <2>4, <5>1, <5>2
      <4>2. C \in Seq(S) /\ L \in Seq(S) /\ u \in Seq(S)
        BY <1>1, <2>1, <2>5, <4>0, LinkTypes
      <4> HIDE DEF C, L, u, S
      <4>3. (C \o L) \o u = C \o (L \o u)
        BY <4>2, Assoc
      <4> QED
        BY <4>1, <4>3
    <3> QED
      BY <3>1, <3>2
  <2>8. ASSUME NEW z \in 0..N, z # N, z # p PROVE Stops(p)'[z] = Stops(p)[z]
    <3>1. CASE z = Master
      <4>1. Arriving(Master, f)' = Arriving(Master, f) /\ Leaving(Master, f)' = Leaving(Master, f)
        BY <2>4, <2>8, <3>1, TreeFacts
      <4> QED
        BY <1>1, <1>18, <3>1, <4>1, StopsAre, StopsNext DEF Self
    <3>2. CASE z # Master
      <4>1. z \in 1..(N - 1) /\ z \in Proc /\ Parent[z] \in Proc
        BY <2>8, <3>2, TreeFacts
      <4>2. Across(z, Parent[z], f)' = Across(z, Parent[z], f) /\ Leaving(z, f)' = Leaving(z, f)
        BY <2>4, <2>8, <4>1
      <4>3. /\ Stops(p)[z] = Across(z, Parent[z], f) \o Leaving(z, f)
            /\ Stops(p)'[z] = Across(z, Parent[z], f)' \o Leaving(z, f)'
        BY <1>1, <1>18, <4>1, StopsAre, StopsNext
      <4> HIDE DEF f
      <4> QED
        BY <4>2, <4>3
    <3> QED
      BY <3>1, <3>2
  <2> QED
    BY <2>6, <2>7, <2>8 DEF Advanced
<1> HIDE DEF u
<1>24. Seen(Master)' = Seen(Master)
  BY <1>20, TreeFacts DEF SameSeen
<1>25. UpInv'
  <2>1. ASSUME NEW q \in Proc PROVE Lined(Stops(q)', nxcasts'[q], Past(q)')
    <3>1. CASE q # p
      BY <1>1, <1>19, <1>22, <1>24, <3>1, NotMovedUp
    <3>2. CASE q = p
      <4>1. /\ Ahead(p, N) /\ p # N /\ p \in 0..N /\ N \in 0..N
            /\ \A v \in 0..N : Ahead(p, v) => v = N \/ Ahead(N, v) \/ Stops(p)[v] = <<>>
            /\ \A x \in 0..N : Ahead(x, p) => Ahead(x, N) /\ x # N /\ x # p
        BY <1>1, AheadAtOrigin
      <4> QED
        BY <1>4, <1>18, <1>19, <1>23, <1>24, <3>2, <4>1, MovedUp
    <3> QED
      BY <3>1, <3>2
  <2> QED
    BY <2>1 DEF UpInv, Lined, Ascending, Before, Has
<1>26. DownInv'
  <2>1. ASSUME NEW c \in 1..(N - 1) PROVE Seen(Parent[c])' = Seen(c)' \o Link(Parent[c], c, Relay(c))'
    <3>1. Parent[c] \in Proc /\ c \in Proc
      BY TreeFacts
    <3>2. Seen(Parent[c])' = Seen(Parent[c]) /\ Seen(c)' = Seen(c)
      BY <1>20, <3>1 DEF SameSeen
    <3> QED
      BY <1>1, <1>21, <3>2 DEF SameLinks, DownInv
  <2> QED
    BY <2>1 DEF DownInv
<1>27. InOrder(Seen(Master))'
  BY <1>1, <1>24
<1> QED
  BY <1>18, <1>25, <1>26, <1>27 DEF XcastInv

\* A user issues the next xcast: it is the last in line.
LEMMA IssueXcastStep ==
    ASSUME XcastInv, NEW p \in Proc, IssueXcast(p)
    PROVE  XcastInv'
<1>1. TypeOK /\ RouteInv /\ UsersOK /\ TrackersOK /\ DownInv /\ UpInv /\ InOrder(Seen(Master))
  BY TypesAre DEF XcastInv
<1>2. PICK n \in 0..Xcasts : n = nxcasts[p]
  BY <1>1 DEF UsersOK
<1> DEFINE k == n + 1
           e == [op |-> "xcast", number |-> k]
           u == <<k>>
<1>3. n \in Nat /\ n < Xcasts /\ k \in 1..Xcasts /\ k \in 0..Xcasts
  <2>1. n < Xcasts
    BY <1>2 DEF IssueXcast
  <2> QED
    BY <2>1, BoundsAssumption
<1>4. /\ nxcasts' = [nxcasts EXCEPT ![p] = k] /\ Activate(p, e)
      /\ UNCHANGED <<draining, channel, prog, calls, delivered, log>> /\ UNCHANGED trackers
  BY <1>2 DEF IssueXcast
<1>5. e \in Events /\ e.op \in {"call", "xcast"} /\ Part(e, Asked) = u
  <2>1. Part(e, Asked) = u
    BY <1>3, AskedFacts
  <2> QED
    BY <1>3, <2>1 DEF Events
<1> HIDE DEF e
<1>6. /\ Carried /\ \A f, S : Values(f, S) => Still(f)
      /\ \A r \in Proc : Drawn(queue[r]["ev"], Asked)' =
             IF r = p THEN Drawn(queue[r]["ev"], Asked) \o Part(e, Asked) ELSE Drawn(queue[r]["ev"], Asked)
  BY <1>1, <1>4, <1>5, ActivateCarried
<1>7. UsersOK' /\ TrackersOK' /\ nxcasts'[p] = k /\ \A r \in Proc : r # p => nxcasts'[r] = nxcasts[r]
  <2>1. nxcasts \in [Proc -> 0..Xcasts]
    BY <1>1 DEF UsersOK
  <2>2. nxcasts' \in [Proc -> 0..Xcasts] /\ nxcasts'[p] = k /\ \A r \in Proc : r # p => nxcasts'[r] = nxcasts[r]
    BY <1>3, <1>4, <2>1
  <2>3. UsersOK'
    BY <1>1, <1>4, <2>2 DEF UsersOK, Kinds, Ids, Contents
  <2>4. TrackersOK'
    BY <1>1, <1>4, TrackersSame
  <2> QED
    BY <2>2, <2>3, <2>4
<1>8. TypedNext /\ TypeOK' /\ RouteInv'
  BY <1>6, <1>7, TypesAre DEF Carried
<1>9. SameSeen
  <2>1. ASSUME NEW r \in Proc PROVE Seen(r)' = Seen(r)
    <3>1. Still(Posted(r))
      BY <1>6, PostedIs
    <3>2. Arriving(r, Posted(r))' = Arriving(r, Posted(r)) /\ Leaving(r, Posted(r))' = Leaving(r, Posted(r))
      BY <3>1 DEF Still, Quiet
    <3> QED
      BY <1>4, <3>2 DEF Seen, Self
  <2> QED
    BY <2>1 DEF SameSeen
<1>10. SameLinks
  <2>1. ASSUME NEW c \in 1..(N - 1) PROVE Link(Parent[c], c, Relay(c))' = Link(Parent[c], c, Relay(c))
    <3>1. Still(Relay(c))
      BY <1>6, RelayIs
    <3>2. c \in Proc /\ Parent[c] \in Proc
      BY TreeFacts
    <3>3. /\ Arriving(c, Relay(c))' = Arriving(c, Relay(c)) /\ Leaving(Parent[c], Relay(c))' = Leaving(Parent[c], Relay(c))
          /\ Across(Parent[c], c, Relay(c))' = Across(Parent[c], c, Relay(c))
      BY <3>1, <3>2 DEF Still, Quiet
    <3> QED
      BY <3>3 DEF Link
  <2> QED
    BY <2>1 DEF SameLinks
<1>11. \A q \in Proc : Still(Entering(q))
  BY <1>6, EnteringIs
<1>12. ASSUME NEW q \in Proc, q # p PROVE Stops(q)' = Stops(q)
  <2>1. Drawn(queue[q]["ev"], Asked)' = Drawn(queue[q]["ev"], Asked)
    BY <1>6, <1>12
  <2> QED
    BY <1>1, <1>8, <1>11, <2>1, StopsSame
<1>13. Seen(Master)' = Seen(Master)
  BY <1>9, TreeFacts DEF SameSeen
<1>14. Lined(Stops(p)', nxcasts'[p], Past(p)')
  <2>1. PICK past \in SUBSET (1..Xcasts) : past = Past(p)
    BY PastType
  <2>2. PICK st \in [0..N -> Seq(1..Xcasts)] : st = Stops(p)
    BY <1>1, StopsAre
  <2>3. PICK st2 \in [0..N -> Seq(1..Xcasts)] : st2 = Stops(p)'
    BY <1>8, StopsNext
  <2>4. Lined(st, n, past)
    BY <1>1, <1>2, <2>1, <2>2 DEF UpInv
  <2>5. st2[N] = st[N] \o <<n + 1>>
    <3>1. Drawn(queue[p]["ev"], Asked)' = Drawn(queue[p]["ev"], Asked) \o u
      BY <1>5, <1>6
    <3> HIDE DEF u
    <3>2. st2[N] = st[N] \o u
      BY <1>1, <1>8, <2>2, <2>3, <3>1, StopsAre, StopsNext
    <3> QED
      BY <3>2 DEF u
  <2>6. \A z \in 0..N : z # N => st2[z] = st[z]
    <3> SUFFICES ASSUME NEW z \in 0..N, z # N PROVE Stops(p)'[z] = Stops(p)[z]
      BY <2>2, <2>3
    <3> DEFINE f == Entering(p)
    <3>1. Still(f)
      BY <1>11
    <3>2. CASE z = Master
      <4>1. Arriving(Master, f)' = Arriving(Master, f) /\ Leaving(Master, f)' = Leaving(Master, f)
        BY <3>1, TreeFacts DEF Still, Quiet
      <4> QED
        BY <1>1, <1>8, <3>2, <4>1, StopsAre, StopsNext DEF Self
    <3>3. CASE z # Master
      <4>1. z \in 1..(N - 1) /\ z \in Proc /\ Parent[z] \in Proc
        <5>1. N \in Nat /\ Master = 0 /\ Proc = 0..(N - 1)
          BY TreeFacts
        <5>2. z \in 1..(N - 1) /\ z \in Proc
          BY <3>3, <5>1
        <5> QED
          BY <5>2, TreeFacts
      <4>2. Across(z, Parent[z], f)' = Across(z, Parent[z], f) /\ Leaving(z, f)' = Leaving(z, f)
        BY <3>1, <4>1 DEF Still, Quiet
      <4>3. /\ Stops(p)[z] = Across(z, Parent[z], f) \o Leaving(z, f)
            /\ Stops(p)'[z] = Across(z, Parent[z], f)' \o Leaving(z, f)'
        BY <1>1, <1>8, <4>1, StopsAre, StopsNext
      <4> HIDE DEF f
      <4> QED
        BY <4>2, <4>3
    <3> QED
      BY <3>2, <3>3
  <2>8. Lined(st2, n + 1, past)
    BY <1>3, <2>4, <2>5, <2>6, EnterLined
  <2>9. Past(p)' = past
    BY <1>13, <2>1, PastSame
  <2> QED
    BY <1>7, <2>3, <2>8, <2>9
<1>15. UpInv'
  <2>1. ASSUME NEW q \in Proc PROVE Lined(Stops(q)', nxcasts'[q], Past(q)')
    <3>1. CASE q # p
      <4>1. Past(q)' = Past(q) /\ Stops(q)' = Stops(q) /\ nxcasts'[q] = nxcasts[q]
        BY <1>7, <1>12, <1>13, <3>1, PastSame
      <4>2. Lined(Stops(q), nxcasts[q], Past(q))
        BY <1>1 DEF UpInv
      <4> QED
        BY <4>1, <4>2
    <3>2. CASE q = p
      BY <1>14, <3>2
    <3> QED
      BY <3>1, <3>2
  <2> QED
    BY <2>1 DEF UpInv, Lined, Ascending, Before, Has
<1>16. DownInv'
  <2>1. ASSUME NEW c \in 1..(N - 1) PROVE Seen(Parent[c])' = Seen(c)' \o Link(Parent[c], c, Relay(c))'
    <3>1. Parent[c] \in Proc /\ c \in Proc
      BY TreeFacts
    <3>2. Seen(Parent[c])' = Seen(Parent[c]) /\ Seen(c)' = Seen(c)
      BY <1>9, <3>1 DEF SameSeen
    <3> QED
      BY <1>1, <1>10, <3>2 DEF SameLinks, DownInv
  <2> QED
    BY <2>1 DEF DownInv
<1>17. InOrder(Seen(Master))'
  BY <1>1, <1>13
<1> QED
  BY <1>8, <1>15, <1>16, <1>17 DEF XcastInv

-----------------------------------------------------------------------------
(* The invariant. *)

LEMMA XcastInvInit == Init => XcastInv
<1> SUFFICES ASSUME Init PROVE XcastInv
  OBVIOUS
<1> DEFINE none == <<>>
<1>1. /\ queue = [p \in Proc |-> [b \in Base |-> none]] /\ draining = [p \in Proc |-> FALSE]
      /\ channel = [p \in Proc |-> [q \in Proc |-> none]]
  BY DEF Init, EventLoopsInit
<1>2. /\ prog \in [Scons -> [1..Rounds -> Kinds]]
      /\ calls = [p \in Proc |-> [s \in Scons |-> none]]
      /\ nxcasts = [p \in Proc |-> 0] /\ delivered = [p \in Proc |-> none]
      /\ log = [p \in Proc |-> [s \in Scons |-> none]]
      /\ last_seq = [p \in Proc |-> -1] /\ ongoing = [p \in Proc |-> none]
      /\ creating = [p \in Proc |-> [b \in Base |-> NoSig]] /\ crashed = [p \in Proc |-> FALSE]
      /\ releasing = [p \in Proc |-> 0]
  BY DEF Init, Kinds
<1>3. (\A S : none \in Seq(S)) /\ DOMAIN none = {} /\ none \o none = none /\ \A f : Drawn(none, f) = none
  BY DrawnEmpty
<1> HIDE DEF none
<1>4. TypeOK
  <2>1. 0 \in 0..Xcasts
    BY BoundsAssumption
  <2>2. /\ queue \in [Proc -> [Base -> Seq(Events)]] /\ draining \in [Proc -> BOOLEAN]
        /\ channel \in [Proc -> [Proc -> Seq(Messages)]]
    BY <1>1, <1>3
  <2>3. /\ calls \in [Proc -> [Scons -> Seq(0..Xcasts)]] /\ nxcasts \in [Proc -> 0..Xcasts]
        /\ delivered \in [Proc -> Seq(Ids)]
        /\ log \in [Proc -> [Scons -> Seq([round : 1..Rounds, contents : Contents])]]
    BY <1>2, <1>3, <2>1
  <2>4. /\ last_seq \in [Proc -> Nat \cup {-1}] /\ ongoing \in [Proc -> Seq(OngoingTrackers)]
        /\ creating \in [Proc -> [Base -> Sigs \cup {NoSig}]] /\ crashed \in [Proc -> BOOLEAN]
        /\ releasing \in [Proc -> 0..2]
    BY <1>2, <1>3
  <2> QED
    BY <1>2, <2>2, <2>3, <2>4 DEF TypeOK
<1>5. /\ \A p \in Proc, b \in Base : queue[p][b] = none
      /\ \A a, b \in Proc : channel[a][b] = none
      /\ \A p \in Proc : delivered[p] = none /\ nxcasts[p] = 0
  BY <1>1, <1>2
<1>6. RouteInv
  BY <1>3, <1>5 DEF RouteInv
<1>7. \A p \in Proc : \A f : Arriving(p, f) = none /\ Leaving(p, f) = none
  BY <1>3, <1>5, TreeFacts DEF Arriving, Leaving
<1>8. \A a, b \in Proc : \A f : Across(a, b, f) = none
  BY <1>3, <1>5 DEF Across
<1>9. \A p \in Proc : Seen(p) = none
  BY <1>3, <1>5, <1>7 DEF Seen, Self
<1>10. DownInv
  <2> SUFFICES ASSUME NEW c \in 1..(N - 1)
               PROVE  Seen(Parent[c]) = Seen(c) \o Link(Parent[c], c, Relay(c))
    BY DEF DownInv
  <2>1. c \in Proc /\ Parent[c] \in Proc
    BY TreeFacts
  <2>2. Link(Parent[c], c, Relay(c)) = none
    BY <1>3, <1>7, <1>8, <2>1 DEF Link
  <2> QED
    BY <1>3, <1>9, <2>1, <2>2
<1>11. UpInv
  <2> SUFFICES ASSUME NEW q \in Proc PROVE Lined(Stops(q), nxcasts[q], Past(q))
    BY DEF UpInv
  <2>1. \A x \in 0..N : Stops(q)[x] = none
    <3> TAKE x \in 0..N
    <3>1. Stops(q)[x] = Stop(x, q)
      BY DEF Stops
    <3>2. x = N => Stop(x, q) = none
      BY <1>3, <1>5, TreeFacts DEF Stop
    <3>3. x # N /\ x = Master => Stop(x, q) = none
      BY <1>3, <1>7, TreeFacts DEF Stop, Self
    <3>4. x # N /\ x # Master => Stop(x, q) = none
      <4> HAVE x # N /\ x # Master
      <4>1. x \in Proc /\ Parent[x] \in Proc
        BY TreeFacts
      <4> QED
        BY <1>3, <1>7, <1>8, <4>1 DEF Stop
    <3> QED
      BY <3>1, <3>2, <3>3, <3>4
  <2>2. Past(q) = {} /\ nxcasts[q] = 0
    BY <1>3, <1>5, <1>9, TreeFacts DEF Past
  <2> HIDE DEF none
  <2>3. Ascending(none) /\ Before(none, none)
    BY <1>3 DEF Ascending, Before
  <2> QED
    BY <1>3, <2>1, <2>2, <2>3 DEF Lined
<1>12. InOrder(Seen(Master))
  BY <1>3, <1>9, TreeFacts DEF InOrder
<1> QED
  BY <1>4, <1>6, <1>10, <1>11, <1>12 DEF XcastInv

LEMMA XcastInvStutters == XcastInv /\ UNCHANGED vars => XcastInv'
<1> SUFFICES ASSUME XcastInv, UNCHANGED vars PROVE XcastInv'
  OBVIOUS
<1>1. TypeOK /\ RouteInv /\ UsersOK /\ TrackersOK
  BY TypesAre DEF XcastInv
<1>2. UNCHANGED <<queue, draining, channel>> /\ UNCHANGED users /\ UNCHANGED trackers
  BY DEF vars
<1>3. Carried /\ NoneAsked /\ \A f : Still(f)
  BY <1>1, <1>2, UnchangedCarried
<1>4. UsersOK' /\ TrackersOK' /\ delivered' = delivered /\ nxcasts' = nxcasts
  BY <1>1, <1>2, UsersSame, TrackersSame DEF users
<1> QED
  BY <1>3, <1>4, QuietStep

\* What is received, what is on its way to whom, and which xcasts the members
\* have seen fits together, for every tree, with the threads of the master as
\* built or with one.
THEOREM XcastInvariance == Spec => []XcastInv
<1>1. ASSUME XcastInv, [Next]_vars PROVE XcastInv'
  <2>1. ASSUME NEW p \in Proc, NEW s \in Scons, Issue(p, s) PROVE XcastInv'
    BY <1>1, <2>1, IssueStep
  <2>2. ASSUME NEW p \in Proc, IssueXcast(p) PROVE XcastInv'
    BY <1>1, <2>2, IssueXcastStep
  <2>3. ASSUME NEW p \in Proc, ProcessCall(p) PROVE XcastInv'
    BY <1>1, <2>3, ProcessCallStep
  <2>4. ASSUME NEW p \in Proc, ProcessXcast(p) PROVE XcastInv'
    BY <1>1, <2>4, ProcessXcastStep
  <2>5. ASSUME NEW p \in Proc, DirectRecv(p) PROVE XcastInv'
    BY <1>1, <2>5, DirectStep
  <2>6. ASSUME NEW p \in Proc, XcastRecv(p) PROVE XcastInv'
    BY <1>1, <2>6, XcastStep
  <2>7. ASSUME NEW p \in Proc, ReleaseRecv(p) PROVE XcastInv'
    BY <1>1, <2>7, ReleaseStep
  <2>8. ASSUME NEW p \in Proc, UserRecv(p) PROVE XcastInv'
    BY <1>1, <2>8, UserRecvStep
  <2>9. ASSUME NEW p \in Proc, Transport(p) PROVE XcastInv'
    BY <1>1, <2>9, TransportStep
  <2>10. CASE UNCHANGED vars
    BY <1>1, <2>10, XcastInvStutters
  <2> QED
    BY <1>1, <2>1, <2>2, <2>3, <2>4, <2>5, <2>6, <2>7, <2>8, <2>9, <2>10 DEF Next, Handler
<1> QED
  BY <1>1, XcastInvInit, PTL DEF Spec

-----------------------------------------------------------------------------
(* What the members have received: the first of what the master has seen. *)

Heads(s, t) == Len(s) <= Len(t) /\ \A i \in 1..Len(s) : s[i] = t[i]

LEMMA HeadsConcat ==
    ASSUME NEW s \in Seq(Ids), NEW u \in Seq(Ids)
    PROVE  Heads(s, s \o u)
<1>1. /\ \A i \in 1..Len(s) : (s \o u)[i] = s[i]
      /\ Len(s \o u) = Len(s) + Len(u) /\ Len(s) \in Nat /\ Len(u) \in Nat
  BY ConcatPlaces
<1> QED
  BY <1>1 DEF Heads

LEMMA HeadsFacts ==
    ASSUME NEW s \in Seq(Ids), NEW t \in Seq(Ids), NEW v \in Seq(Ids)
    PROVE  /\ Heads(s, s)
           /\ Heads(s, t) /\ Heads(t, v) => Heads(s, v)
           /\ Heads(s, v) /\ Heads(t, v) => Heads(s, t) \/ Heads(t, s)
           /\ Heads(s, t) => IsPrefix(s, t)
           /\ Heads(s, t) /\ InOrder(t) => InOrder(s)
<1>1. /\ Len(s) \in Nat /\ Len(t) \in Nat /\ Len(v) \in Nat
      /\ DOMAIN s = 1..Len(s) /\ DOMAIN t = 1..Len(t)
  OBVIOUS
<1>2. Heads(s, s)
  BY <1>1 DEF Heads
<1>3. Heads(s, t) /\ Heads(t, v) => Heads(s, v)
  BY <1>1 DEF Heads
<1>4. Heads(s, v) /\ Heads(t, v) => Heads(s, t) \/ Heads(t, s)
  BY <1>1 DEF Heads
<1>5. ASSUME Heads(s, t) PROVE IsPrefix(s, t)
  <2>1. Len(s) <= Len(t) /\ \A i \in 1..Len(s) : s[i] = t[i]
    BY <1>5 DEF Heads
  <2>2. SubSeq(s, 1, Len(s)) = SubSeq(t, 1, Len(s))
    BY <1>1, <2>1
  <2> QED
    BY <2>1, <2>2 DEF IsPrefix
<1>6. ASSUME Heads(s, t), InOrder(t) PROVE InOrder(s)
  <2>1. Len(s) <= Len(t) /\ \A i \in 1..Len(s) : s[i] = t[i]
    BY <1>6 DEF Heads
  <2>2. ASSUME NEW i \in DOMAIN s
        PROVE  /\ s[i] \notin {s[j] : j \in 1..(i - 1)}
               /\ \A l \in 1..(s[i][2] - 1) : <<s[i][1], l>> \in {s[j] : j \in 1..(i - 1)}
    <3>1. i \in DOMAIN t /\ t[i] = s[i]
      BY <1>1, <2>1
    <3>2. {t[j] : j \in 1..(i - 1)} = {s[j] : j \in 1..(i - 1)}
      <4>1. \A j \in 1..(i - 1) : j \in 1..Len(s)
        BY <1>1
      <4> QED
        BY <2>1, <4>1
    <3>3. /\ t[i] \notin {t[j] : j \in 1..(i - 1)}
          /\ \A l \in 1..(t[i][2] - 1) : <<t[i][1], l>> \in {t[j] : j \in 1..(i - 1)}
      BY <1>6, <3>1 DEF InOrder
    <3> QED
      BY <3>1, <3>2, <3>3
  <2> QED
    BY <2>2 DEF InOrder
<1> QED
  BY <1>2, <1>3, <1>4, <1>5, <1>6

LEMMA SeenType ==
    ASSUME TypeOK, NEW p \in Proc
    PROVE  Seen(p) \in Seq(Ids) /\ Heads(delivered[p], Seen(p)) /\ delivered[p] \in Seq(Ids)
<1> DEFINE A == Arriving(p, Posted(p))
           L == Leaving(p, Posted(p))
           D == delivered[p]
           w == A \o L
<1>1. A \in Seq(Ids) /\ L \in Seq(Ids) /\ D \in Seq(Ids)
  <2>1. Values(Posted(p), Ids)
    BY PostedIs
  <2> QED
    BY <2>1, LinkTypes DEF TypeOK
<1>2. Seen(p) = D \o w
  BY DEF Seen, Self
<1>3. w \in Seq(Ids)
  <2> HIDE DEF A, L
  <2> QED
    BY <1>1
<1> HIDE DEF D, w
<1>4. D \o w \in Seq(Ids) /\ Heads(D, D \o w)
  BY <1>1, <1>3, HeadsConcat, Assoc
<1> QED
  BY <1>1, <1>2, <1>4 DEF D

\* Nobody is ahead of the master: the least member ahead of it would be ahead
\* of its parent.
LEMMA SeenByMaster ==
    ASSUME TypeOK, DownInv, NEW p \in Proc
    PROVE  Heads(Seen(p), Seen(Master))
<1> DEFINE Bad == {r \in Proc : ~Heads(Seen(r), Seen(Master))}
<1> SUFFICES ASSUME Bad # {} PROVE FALSE
  OBVIOUS
<1>1. Bad \in SUBSET Nat
  BY TreeFacts
<1>2. PICK r \in Bad : \A y \in Bad : r <= y
  <2> HIDE DEF Bad
  <2> QED
    BY <1>1, Least
<1>3. \A y \in Proc : Seen(y) \in Seq(Ids)
  BY SeenType
<1>4. r # Master
  BY <1>3, HeadsFacts, TreeFacts
<1>5. r \in 1..(N - 1) /\ Parent[r] \in Proc /\ Parent[r] < r /\ r \in Nat /\ Parent[r] \in Nat
  BY <1>4, TreeFacts, ParentAssumption
<1>6. Parent[r] \notin Bad
  BY <1>2, <1>5
<1>7. Heads(Seen(Parent[r]), Seen(Master))
  BY <1>5, <1>6
<1>8. Heads(Seen(r), Seen(Parent[r]))
  <2>1. Seen(Parent[r]) = Seen(r) \o Link(Parent[r], r, Relay(r))
    BY <1>5 DEF DownInv
  <2>2. Link(Parent[r], r, Relay(r)) \in Seq(Ids)
    <3> DEFINE A == Arriving(r, Relay(r))
               X == Across(Parent[r], r, Relay(r))
               L == Leaving(Parent[r], Relay(r))
    <3>1. A \in Seq(Ids) /\ X \in Seq(Ids) /\ L \in Seq(Ids)
      <4>1. Values(Relay(r), Ids)
        BY <1>5, RelayIs
      <4> QED
        BY <1>5, <4>1, LinkTypes
    <3>2. Link(Parent[r], r, Relay(r)) = (A \o X) \o L
      BY DEF Link
    <3> HIDE DEF A, X, L
    <3> QED
      BY <3>1, <3>2
  <2> DEFINE s == Seen(r)
             u == Link(Parent[r], r, Relay(r))
  <2>3. s \in Seq(Ids) /\ u \in Seq(Ids)
    BY <1>3, <2>2
  <2> HIDE DEF s, u
  <2>4. Heads(s, s \o u)
    BY <2>3, HeadsConcat
  <2> QED
    BY <2>1, <2>4 DEF s, u
<1>9. Heads(Seen(r), Seen(Master))
  <2>1. Seen(r) \in Seq(Ids) /\ Seen(Parent[r]) \in Seq(Ids) /\ Seen(Master) \in Seq(Ids)
    BY <1>3, <1>5, TreeFacts
  <2> QED
    BY <1>7, <1>8, <2>1, HeadsFacts
<1> QED
  BY <1>2, <1>9

LEMMA XcastInvOrders == XcastInv => XcastsInOrder
<1> SUFFICES ASSUME XcastInv PROVE XcastsInOrder
  OBVIOUS
<1>1. TypeOK /\ DownInv /\ InOrder(Seen(Master))
  BY DEF XcastInv
<1>2. PICK T \in Seq(Ids) : T = Seen(Master)
  BY <1>1, SeenType, TreeFacts
<1>3. ASSUME NEW p \in Proc PROVE delivered[p] \in Seq(Ids) /\ Heads(delivered[p], T)
  <2>1. /\ Seen(p) \in Seq(Ids) /\ delivered[p] \in Seq(Ids)
        /\ Heads(delivered[p], Seen(p)) /\ Heads(Seen(p), T)
    BY <1>1, <1>2, SeenType, SeenByMaster
  <2> QED
    BY <2>1, HeadsFacts
<1>4. ASSUME NEW p \in Proc, NEW q \in Proc
      PROVE  IsPrefix(delivered[p], delivered[q]) \/ IsPrefix(delivered[q], delivered[p])
  <2>1. delivered[p] \in Seq(Ids) /\ delivered[q] \in Seq(Ids) /\ Heads(delivered[p], T) /\ Heads(delivered[q], T)
    BY <1>3
  <2>2. Heads(delivered[p], delivered[q]) \/ Heads(delivered[q], delivered[p])
    BY <2>1, HeadsFacts
  <2> QED
    BY <2>1, <2>2, HeadsFacts
<1>5. ASSUME NEW p \in Proc PROVE InOrder(delivered[p])
  <2>1. InOrder(T)
    BY <1>1, <1>2
  <2> QED
    BY <1>3, <2>1, HeadsFacts
<1> QED
  BY <1>4, <1>5 DEF XcastsInOrder, InOrder

\* All members receive the xcasts in the same order, each at most once, those of
\* one origin in the order it sent them and none left out: the relays of
\* xcast_recv, from the master down any tree.
THEOREM XcastsInOrderAlways == Spec => []XcastsInOrder
  BY XcastInvariance, XcastInvOrders, PTL

-----------------------------------------------------------------------------
(* The messages of one SCON.                                                 *)

\* The messages of a SCON that go from one member to another with a tag.
Coll(src, dst, tag, s) ==
    [m \in {x \in CollMessages : x.src = src /\ x.dst = dst /\ x.tag = tag /\ x.sig.scon = s} |-> m]
CallsOf(s) == [e \in {[op |-> "call", scon |-> s, round |-> k] : k \in 1..Rounds} |-> e.round]

\* Calls not yet processed; reports, orders to release and releases not yet handled.
Way(x, y, f) == IF x = y THEN Self(x, f) ELSE Link(x, y, f)
From(p) == IF p = Master THEN Master ELSE Parent[p]
Sources(p) == {p} \cup Children(p)
Pending(p, s) == Drawn(queue[p]["ev"], CallsOf(s))
Reports(x, p, s) == Way(x, p, Coll(x, p, "DIRECT", s))
Orders(p, s) == Way(From(p), p, Coll(From(p), p, "XCAST", s))
Releases(p, s) == Way(p, p, Coll(p, p, "RELEASE", s))

\* The trackers of a SCON.
Of(list, s) == {list[i] : i \in {j \in DOMAIN list : list[j].sig.scon = s}}
Distinct(list) == \A i, j \in DOMAIN list : list[i].sig.scon = list[j].sig.scon => i = j
Under(p, s) == Of(ongoing[p], s)

\* Successive rounds, after the first ones.
Bears(list, first, who, s) == \A i \in DOMAIN list :
    list[i].sig = Sig(s, 0) /\ list[i].buf = who \X {first + i}

-----------------------------------------------------------------------------
(* What is on its way. *)

LEMMA CollIs ==
    ASSUME NEW src, NEW dst, NEW tag, NEW s
    PROVE  LET f == Coll(src, dst, tag, s)
           IN  /\ Values(f, CollMessages)
               /\ \A m \in DOMAIN f : /\ m \in CollMessages /\ m \in Messages /\ m.kind # "user"
                                       /\ m.src = src /\ m.dst = dst /\ m.tag = tag /\ m.sig.scon = s /\ f[m] = m
               /\ \A m \in CollMessages : m.src = src /\ m.dst = dst /\ m.tag = tag /\ m.sig.scon = s =>
                     m \in DOMAIN f /\ f[m] = m
<1> DEFINE f == Coll(src, dst, tag, s)
<1>1. DOMAIN f = {x \in CollMessages : x.src = src /\ x.dst = dst /\ x.tag = tag /\ x.sig.scon = s}
      /\ \A m \in DOMAIN f : f[m] = m
  BY DEF Coll
<1> HIDE DEF f
<1>2. \A m \in CollMessages : m \in Messages /\ m.kind # "user"
  <2>1. \A m \in CollMessages : m \in Messages
    BY DEF Messages
  <2> QED
    BY <2>1, MsgTypes
<1>3. Values(f, CollMessages)
  BY <1>1 DEF Values
<1> QED
  BY <1>1, <1>2, <1>3 DEF f

LEMMA CallsAre ==
    ASSUME NEW s
    PROVE  /\ Values(CallsOf(s), 1..Rounds)
           /\ \A e : e.op # "call" => Part(e, CallsOf(s)) = <<>> /\ e \notin DOMAIN CallsOf(s)
           /\ \A e \in Events : e.op = "call" =>
                 Part(e, CallsOf(s)) = IF e.scon = s THEN <<e.round>> ELSE <<>>
<1> DEFINE g == CallsOf(s)
           E(k) == [op |-> "call", scon |-> s, round |-> k]
<1>1. DOMAIN g = {E(k) : k \in 1..Rounds} /\ \A e \in DOMAIN g : g[e] = e.round
  BY DEF CallsOf
<1> HIDE DEF g
<1>2. \A k : E(k).op = "call" /\ E(k).scon = s /\ E(k).round = k
  OBVIOUS
<1>3. Values(g, 1..Rounds)
  BY <1>1, <1>2 DEF Values
<1>4. \A e : e.op # "call" => Part(e, g) = <<>> /\ e \notin DOMAIN g
  BY <1>1, <1>2 DEF Part
<1>5. ASSUME NEW e \in Events, e.op = "call"
      PROVE  Part(e, g) = IF e.scon = s THEN <<e.round>> ELSE <<>>
  <2>1. e \in [op : {"call"}, scon : Scons, round : 1..Rounds]
    <3>1. e \notin [op : {"send", "recv"}, msg : Messages] /\ e \notin [op : {"xcast"}, number : 1..Xcasts]
      BY <1>5
    <3> QED
      BY <3>1 DEF Events
  <2>2. e = [op |-> "call", scon |-> e.scon, round |-> e.round] /\ e.round \in 1..Rounds
    BY <2>1
  <2>3. e \in DOMAIN g <=> e.scon = s
    BY <1>1, <1>2, <2>2
  <2> QED
    BY <1>1, <2>3 DEF Part
<1> QED
  BY <1>3, <1>4, <1>5 DEF g

\* The ways of the messages of a SCON.
Known(x, y, f) == \A m \in DOMAIN f :
    /\ m \in Messages /\ m.src = x /\ m.dst = y
    /\ x = y \/ ToChild(m) \/ ToParent(m)

LEMMA WayKept ==
    ASSUME TypeOK, RouteInv, NEW p \in Proc, Moving(p), NEW x \in Proc, NEW y \in Proc,
           NEW f, NEW S, Values(f, S), Known(x, y, f)
    PROVE  Way(x, y, f)' = Way(x, y, f)
<1>1. CASE x = y
  <2>1. \A m \in DOMAIN f : m.src = x /\ m.dst = x
    BY <1>1 DEF Known
  <2>2. Self(x, f)' = Self(x, f)
    BY <2>1, SelfKept
  <2> QED
    BY <1>1, <2>2 DEF Way
<1>2. CASE x # y
  <2>1. \A m \in DOMAIN f : m \in Messages /\ (ToChild(m) \/ ToParent(m)) /\ m.src = x /\ m.dst = y
    BY <1>2 DEF Known
  <2>2. Link(x, y, f)' = Link(x, y, f)
    BY <2>1, LinkKept
  <2> QED
    BY <1>2, <2>2 DEF Way
<1> QED
  BY <1>1, <1>2

\* The ones that the rounds are about.
LEMMA Ways ==
    /\ \A p \in Proc : \A s : Known(p, p, Coll(p, p, "DIRECT", s)) /\ Known(p, p, Coll(p, p, "RELEASE", s))
    /\ \A p \in Proc : From(p) \in Proc /\ \A s : Known(From(p), p, Coll(From(p), p, "XCAST", s))
    /\ \A p \in Proc : \A x \in Sources(p) : x \in Proc /\ \A s : Known(x, p, Coll(x, p, "DIRECT", s))
<1>1. ASSUME NEW p, NEW tag, NEW s PROVE Known(p, p, Coll(p, p, tag, s))
  BY CollIs DEF Known
<1>2. ASSUME NEW p \in Proc
      PROVE  From(p) \in Proc /\ \A s : Known(From(p), p, Coll(From(p), p, "XCAST", s))
  <2>1. CASE p = Master
    BY <1>1, <2>1 DEF From
  <2>2. CASE p # Master
    <3>1. From(p) = Parent[p] /\ Parent[p] \in Proc
      BY <2>2, TreeFacts DEF From
    <3>2. ASSUME NEW s, NEW m \in DOMAIN Coll(From(p), p, "XCAST", s)
          PROVE  m \in Messages /\ m.src = From(p) /\ m.dst = p /\ ToChild(m)
      <4>1. m \in Messages /\ m.src = From(p) /\ m.dst = p /\ m.tag = "XCAST"
        BY <3>2, CollIs
      <4> QED
        BY <2>2, <3>1, <4>1 DEF ToChild
    <3> QED
      BY <3>1, <3>2 DEF Known
  <2> QED
    BY <2>1, <2>2
<1>3. ASSUME NEW p \in Proc, NEW x \in Sources(p)
      PROVE  x \in Proc /\ \A s : Known(x, p, Coll(x, p, "DIRECT", s))
  <2>1. CASE x = p
    BY <1>1, <2>1
  <2>2. CASE x # p
    <3>1. x \in Children(p) /\ x \in Proc /\ Parent[x] = p /\ x # Master
      BY <2>2, TreeFacts DEF Sources
    <3>2. ASSUME NEW s, NEW m \in DOMAIN Coll(x, p, "DIRECT", s)
          PROVE  m \in Messages /\ m.src = x /\ m.dst = p /\ ToParent(m)
      <4>1. m \in Messages /\ m.src = x /\ m.dst = p /\ m.tag = "DIRECT"
        BY <3>2, CollIs
      <4> QED
        BY <3>1, <4>1 DEF ToParent
    <3> QED
      BY <3>1, <3>2 DEF Known
  <2> QED
    BY <2>1, <2>2
<1> QED
  BY <1>1, <1>2, <1>3

-----------------------------------------------------------------------------
(* What the steps do to it. *)

\* Some are taken at the front and others come at the end.
Moved(old, first, new, last, S) == \E mid \in Seq(S) : old = first \o mid /\ new = mid \o last

LEMMA WayType ==
    ASSUME TypeOK, NEW x \in Proc, NEW y \in Proc, NEW f, NEW S, Values(f, S)
    PROVE  Way(x, y, f) \in Seq(S)
<1> DEFINE A == Arriving(y, f)
           X == Across(x, y, f)
           L == Leaving(x, f)
<1>1. A \in Seq(S) /\ X \in Seq(S) /\ L \in Seq(S)
  BY LinkTypes
<1>2. /\ Self(x, f) = Arriving(x, f) \o L /\ (x = y => Arriving(x, f) = A)
      /\ Link(x, y, f) = (A \o X) \o L
  BY DEF Self, Link
<1> HIDE DEF A, X, L
<1>3. A \o L \in Seq(S) /\ (A \o X) \o L \in Seq(S)
  BY <1>1
<1> QED
  BY <1>2, <1>3 DEF Way

\* A handler at p that posts evs.
LEMMA WayPosted ==
    ASSUME TypeOK, RouteInv, NEW p \in Proc, NEW b \in Base, NEW evs, Posts(p, b, evs),
           NEW x \in Proc, NEW y \in Proc, NEW f, NEW S, Values(f, S)
    PROVE  Moved(Way(x, y, f), IF y = p THEN Part(NextEvent(p, b), OnRecv(f)) ELSE <<>>,
                 Way(x, y, f)', IF x = p THEN Drawn(evs, OnSend(f)) ELSE <<>>, S)
<1> DEFINE F == IF y = p THEN Part(NextEvent(p, b), OnRecv(f)) ELSE <<>>
           D == IF x = p THEN Drawn(evs, OnSend(f)) ELSE <<>>
           A == Arriving(y, f)
           A1 == Arriving(y, f)'
           X == Across(x, y, f)
           X1 == Across(x, y, f)'
           L == Leaving(x, f)
           L1 == Leaving(x, f)'
<1>1. Shifted(p, b, evs, f, S)
  BY PostedAll
<1>2. A \in Seq(S) /\ X \in Seq(S) /\ L \in Seq(S)
  BY LinkTypes
<1>3. F \in Seq(S)
  <2>1. Values(OnRecv(f), S)
    BY PartFacts
  <2>2. Part(NextEvent(p, b), OnRecv(f)) \in Seq(S)
    BY <2>1 DEF Part, Values
  <2> QED
    BY <2>2
<1>4. D \in Seq(S)
  <2>1. Drawn(evs, OnSend(f)) \in Seq(S)
    BY <1>1 DEF Shifted
  <2> QED
    BY <2>1
<1>5. A = F \o A1 /\ A1 \in Seq(S)
  <2>1. CASE y = p
    BY <1>1, <2>1 DEF Shifted
  <2>2. CASE y # p
    <3>1. A1 = A /\ F = <<>>
      BY <1>1, <2>2 DEF Shifted
    <3> HIDE DEF A, A1, F
    <3>2. <<>> \o A = A
      BY <1>2
    <3> QED
      BY <1>2, <3>1, <3>2
  <2> QED
    BY <2>1, <2>2
<1>6. L1 = L \o D /\ X1 = X
  <2>1. CASE x = p
    BY <1>1, <2>1 DEF Shifted
  <2>2. CASE x # p
    <3>1. L1 = L /\ D = <<>> /\ X1 = X
      BY <1>1, <2>2 DEF Shifted
    <3> HIDE DEF L, L1, D, X, X1
    <3>2. L \o <<>> = L
      BY <1>2
    <3> QED
      BY <3>1, <3>2
  <2> QED
    BY <2>1, <2>2
<1>7. /\ x = y => Way(x, y, f) = A \o L /\ Way(x, y, f)' = A1 \o L1
      /\ x # y => Way(x, y, f) = (A \o X) \o L /\ Way(x, y, f)' = (A1 \o X1) \o L1
  BY DEF Way, Self, Link
<1> HIDE DEF F, D, A, A1, X, X1, L, L1
<1>8. CASE x = y
  <2> DEFINE M == A1 \o L
  <2>1. M \in Seq(S) /\ A \o L = F \o M
    <3>1. (F \o A1) \o L = F \o (A1 \o L) /\ A1 \o L \in Seq(S)
      <4>1. F \in Seq(S) /\ A1 \in Seq(S) /\ L \in Seq(S)
        BY <1>2, <1>3, <1>5
      <4> QED
        BY <4>1, Assoc
    <3> QED
      BY <1>5, <3>1
  <2>2. A1 \o L1 = M \o D
    <3>1. A1 \o (L \o D) = (A1 \o L) \o D
      <4>1. A1 \in Seq(S) /\ L \in Seq(S) /\ D \in Seq(S)
        BY <1>2, <1>4, <1>5
      <4> QED
        BY SMTT(60), <4>1, Assoc
    <3> QED
      BY <1>6, <3>1
  <2> HIDE DEF M
  <2>3. Moved(A \o L, F, A1 \o L1, D, S)
    BY <2>1, <2>2 DEF Moved
  <2> QED
    BY <1>7, <1>8, <2>3 DEF F, D
<1>9. CASE x # y
  <2> DEFINE Y == A1 \o X
             M == Y \o L
  <2>0. Y \in Seq(S) /\ (F \o A1) \o X = F \o Y
    <3>1. F \in Seq(S) /\ A1 \in Seq(S) /\ X \in Seq(S)
      BY <1>2, <1>3, <1>5
    <3> QED
      BY SMTT(60), <3>1, Assoc DEF Y
  <2> HIDE DEF Y
  <2>1. M \in Seq(S) /\ (A \o X) \o L = F \o M
    <3>1. (F \o Y) \o L = F \o (Y \o L) /\ Y \o L \in Seq(S)
      <4>1. F \in Seq(S) /\ Y \in Seq(S) /\ L \in Seq(S)
        BY <1>2, <1>3, <2>0
      <4> QED
        BY <4>1, Assoc
    <3> QED
      BY <1>5, <2>0, <3>1
  <2>2. (A1 \o X1) \o L1 = M \o D
    <3>1. Y \o (L \o D) = (Y \o L) \o D
      <4>1. Y \in Seq(S) /\ L \in Seq(S) /\ D \in Seq(S)
        BY <1>2, <1>4, <2>0
      <4> QED
        BY SMTT(60), <4>1, Assoc
    <3>2. A1 \o X1 = Y /\ L1 = L \o D
      BY <1>6 DEF Y
    <3> QED
      BY <3>1, <3>2
  <2> HIDE DEF M
  <2>3. Moved((A \o X) \o L, F, (A1 \o X1) \o L1, D, S)
    BY <2>1, <2>2 DEF Moved
  <2> QED
    BY <1>7, <1>9, <2>3 DEF F, D
<1> QED
  BY <1>8, <1>9

\* What no step takes or posts stays.
LEMMA WayStill ==
    ASSUME NEW f, Still(f), NEW x \in Proc, NEW y \in Proc
    PROVE  Way(x, y, f)' = Way(x, y, f)
<1>1. Arriving(y, f)' = Arriving(y, f) /\ Leaving(x, f)' = Leaving(x, f) /\ Across(x, y, f)' = Across(x, y, f)
      /\ Arriving(x, f)' = Arriving(x, f)
  BY DEF Still, Quiet
<1> QED
  BY <1>1 DEF Way, Self, Link

LEMMA MovedNone ==
    ASSUME NEW S, NEW old, NEW new, NEW u \in Seq(S)
    PROVE  /\ Moved(old, <<>>, new, <<>>, S) => new = old
           /\ Moved(old, <<>>, new, u, S) => new = old \o u /\ old \in Seq(S)
           /\ Moved(old, u, new, <<>>, S) => old = u \o new /\ new \in Seq(S)
<1>1. \A mid \in Seq(S) : <<>> \o mid = mid /\ mid \o <<>> = mid
  OBVIOUS
<1> QED
  BY <1>1 DEF Moved

\* The calls not yet processed.
LEMMA PendingType ==
    ASSUME TypeOK, NEW p \in Proc, NEW s PROVE Pending(p, s) \in Seq(1..Rounds)
<1>1. queue[p]["ev"] \in Seq(Events)
  BY TreeFacts DEF TypeOK
<1> QED
  BY <1>1, CallsAre, DrawnType DEF Pending

LEMMA PendingKept ==
    ASSUME TypeOK, RouteInv, NEW p \in Proc, Moving(p), NEW r \in Proc, NEW s
    PROVE  Pending(r, s)' = Pending(r, s)
<1> DEFINE g == CallsOf(s)
<1>0. Values(g, 1..Rounds) /\ (\A e : e.op # "call" => Part(e, g) = <<>> /\ e \notin DOMAIN g) /\ "ev" \in Base
  BY CallsAre, TreeFacts
<1>1. Pending(r, s) = Drawn(queue[r]["ev"], g) /\ Pending(r, s)' = Drawn(queue'[r]["ev"], g)
  BY DEF Pending, CallsOf
<1> HIDE DEF g
<1>2. ASSUME NEW b \in Base, ProcessSend(p, b) PROVE Drawn(queue'[r]["ev"], g) = Drawn(queue[r]["ev"], g)
  <2>1. queue[p][b] # <<>> /\ NextEvent(p, b).op = "send"
    BY <1>2 DEF ProcessSend, Ready
  <2>2. NextEvent(p, b) \in Events
    BY <2>1, NextAt
  <2>3. NextEvent(p, b).msg \in Messages
    BY <2>1, <2>2, EventTypes
  <2> DEFINE m == NextEvent(p, b).msg
             none == <<>>
             pts == IF m.dst = p THEN <<Recv(m)>> ELSE <<>>
  <2>4. Handled(p, b, none, pts)
    BY <1>2 DEF ProcessSend
  <2>5. none \in Seq(Events) /\ pts \in Seq(Events) /\ Drawn(none, g) = <<>> /\ Drawn(pts, g) = <<>>
    <3>1. Recv(m) \in Events /\ Recv(m).op = "recv"
      BY <2>3, EventTypes
    <3>2. Drawn(<<Recv(m)>>, g) = <<>>
      BY <1>0, <3>1, DrawnUnit
    <3>3. Drawn(<<>>, g) = <<>>
      BY DrawnEmpty
    <3> QED
      BY <3>1, <3>2, <3>3
  <2> HIDE DEF none, pts, m
  <2>6. Part(NextEvent(p, b), g) = <<>>
    BY <1>0, <2>1
  <2>7. CASE r = p
    <3>1. Placed(p, b, none, pts, "ev", g)
      BY <2>5, <2>6 DEF Placed
    <3>2. Turned(Drawn(queue[p]["ev"], g), Part(NextEvent(p, b), g),
                 Drawn(queue'[p]["ev"], g), Drawn(none, g), Drawn(pts, g), 1..Rounds)
      BY <1>0, <2>1, <2>4, <2>5, <3>1, HandledDraws
    <3>3. Turned(Drawn(queue[p]["ev"], g), <<>>, Drawn(queue'[p]["ev"], g), <<>>, <<>>, 1..Rounds)
      BY <2>5, <2>6, <3>2
    <3> QED
      BY <2>7, <3>3, TurnedSame
  <2>8. CASE r # p
    <3>1. queue'[r] = queue[r]
      <4>1. queue \in [Proc -> [Base -> Seq(Events)]] /\ draining \in [Proc -> BOOLEAN]
        BY DEF TypeOK
      <4> QED
        BY <2>1, <2>4, <2>5, <2>8, <4>1, HandledIs
    <3> QED
      BY <3>1
  <2> QED
    BY <2>7, <2>8
<1>3. ASSUME NEW q \in Proc, Deliver(q, p) PROVE Drawn(queue'[r]["ev"], g) = Drawn(queue[r]["ev"], g)
  <2> DEFINE m == Head(channel[q][p])
             e == IF m.dst = p THEN Recv(m) ELSE Send(m)
             l == queue[p][pt2pt_evbase(p)]
             long == Append(l, e)
  <2>1. channel[q][p] \in Seq(Messages) /\ channel[q][p] # <<>>
    BY <1>3 DEF TypeOK, Deliver
  <2>2. m \in Messages
    BY <2>1, TailIs
  <2>3. e \in Events /\ e.op # "call"
    BY <2>2, EventTypes
  <2>4. queue' = [queue EXCEPT ![p][pt2pt_evbase(p)] = long]
    BY <1>3 DEF Deliver
  <2>5. l \in Seq(Events) /\ pt2pt_evbase(p) \in Base /\ queue \in [Proc -> [Base -> Seq(Events)]]
    <3>1. pt2pt_evbase(p) \in Base
      BY TreeFacts
    <3> QED
      BY <3>1 DEF TypeOK
  <2>6. queue'[r]["ev"] = queue[r]["ev"] \/ (queue'[r]["ev"] = long /\ queue[r]["ev"] = l)
    <3> HIDE DEF long
    <3> QED
      BY <1>0, <2>4, <2>5
  <2>7. Drawn(long, g) = Drawn(l, g)
    <3> HIDE DEF e, l
    <3>1. Drawn(long, g) = Drawn(l, g) \o Part(e, g)
      BY <1>0, <2>3, <2>5, DrawnAppend
    <3> DEFINE d == Drawn(l, g)
    <3>2. d \in Seq(1..Rounds) /\ Part(e, g) = <<>>
      BY <1>0, <2>3, <2>5, DrawnType
    <3> HIDE DEF d
    <3>3. d \o <<>> = d
      BY <3>2
    <3> QED
      BY <3>1, <3>2, <3>3 DEF d
  <2> HIDE DEF l, long
  <2> QED
    BY <2>6, <2>7
<1> QED
  BY <1>1, <1>2, <1>3 DEF Moving

LEMMA PendingPosted ==
    ASSUME TypeOK, RouteInv, NEW p \in Proc, NEW evs, Posts(p, "ev", evs), NEW s
    PROVE  /\ Moved(Pending(p, s), Part(NextEvent(p, "ev"), CallsOf(s)), Pending(p, s)', <<>>, 1..Rounds)
           /\ \A r \in Proc : r # p => Pending(r, s)' = Pending(r, s)
<1> DEFINE g == CallsOf(s)
           none == <<>>
<1>0. Values(g, 1..Rounds) /\ (\A e : e.op # "call" => Part(e, g) = <<>> /\ e \notin DOMAIN g) /\ "ev" \in Base
  BY CallsAre, TreeFacts
<1>1. \A r \in Proc : Pending(r, s) = Drawn(queue[r]["ev"], g) /\ Pending(r, s)' = Drawn(queue'[r]["ev"], g)
  BY DEF Pending, CallsOf
<1> HIDE DEF g
<1>2. /\ queue[p]["ev"] # <<>> /\ evs \in Seq(Events) /\ (\A i \in DOMAIN evs : evs[i].op = "send")
      /\ Handled(p, "ev", evs, none) /\ none \in Seq(Events) /\ Drawn(none, g) = <<>>
  BY DrawnEmpty DEF Posts
<1>3. Drawn(evs, g) = <<>>
  <2>1. \A i \in DOMAIN evs : evs[i] \notin DOMAIN g
    BY <1>0, <1>2
  <2> QED
    BY <1>2, <2>1, DrawnNone
<1> HIDE DEF none
<1>4. Placed(p, "ev", evs, none, "ev", g)
  BY <1>2 DEF Placed
<1>5. Turned(Drawn(queue[p]["ev"], g), Part(NextEvent(p, "ev"), g),
             Drawn(queue'[p]["ev"], g), Drawn(evs, g), Drawn(none, g), 1..Rounds)
  BY <1>0, <1>2, <1>4, HandledDraws
<1>6. Moved(Drawn(queue[p]["ev"], g), Part(NextEvent(p, "ev"), g), Drawn(queue'[p]["ev"], g), <<>>, 1..Rounds)
  <2>1. \A mid \in Seq(1..Rounds) : (mid \o <<>>) \o <<>> = mid \o <<>>
    OBVIOUS
  <2> QED
    BY <1>2, <1>3, <1>5, <2>1 DEF Turned, Moved
<1>7. \A r \in Proc : r # p => queue'[r] = queue[r]
  <2>1. queue \in [Proc -> [Base -> Seq(Events)]] /\ draining \in [Proc -> BOOLEAN]
    BY DEF TypeOK
  <2> QED
    BY <1>0, <1>2, <2>1, HandledIs
<1> QED
  BY <1>1, <1>6, <1>7 DEF g

-----------------------------------------------------------------------------
(* The trackers: one for each SCON that has a round going on. *)

LEMMA FoundHas ==
    ASSUME TypeOK, NEW p \in Proc, NEW sig
    PROVE  /\ Found(p, sig) = 0 => \A i \in DOMAIN ongoing[p] : ongoing[p][i].sig # sig
           /\ Found(p, sig) # 0 => /\ Found(p, sig) \in DOMAIN ongoing[p]
                                   /\ ongoing[p][Found(p, sig)].sig = sig
<1> DEFINE l == ongoing[p]
           I == {i \in 1..Len(l) : l[i].sig = sig}
<1>1. l \in Seq(OngoingTrackers)
  BY DEF TypeOK
<1>2. Found(p, sig) = IF I # {} THEN Min(I) ELSE 0
  BY DEF Found, SelectInSeq
<1> HIDE DEF l
<1>3. Len(l) \in Nat /\ DOMAIN l = 1..Len(l)
  BY <1>1
<1>4. I # {} => Min(I) \in I /\ Min(I) # 0
  <2> SUFFICES ASSUME I # {} PROVE Min(I) \in I /\ Min(I) # 0
    OBVIOUS
  <2>1. I \in SUBSET Nat /\ 0 \notin I
    BY <1>3
  <2> HIDE DEF I
  <2>2. \E m \in I : \A k \in I : m <= k
    BY <2>1, Least
  <2>3. Min(I) \in I
    BY <2>2 DEF Min
  <2> QED
    BY <2>1, <2>3
<1> QED
  BY <1>2, <1>3, <1>4 DEF l

\* It is all there is.
Alone(t, set) == set = {t}

LEMMA SetIn ==
    ASSUME NEW T, NEW l \in Seq(T), NEW i \in DOMAIN l, NEW t \in T, Distinct(l),
           NEW c, t.sig.scon = c, l[i].sig.scon = c, NEW l2 \in Seq(T), DOMAIN l2 = DOMAIN l, l2[i] = t,
           \A j \in DOMAIN l : j # i => l2[j] = l[j]
    PROVE  /\ Distinct(l2) /\ Alone(t, Of(l2, c))
           /\ \A s : s # c => Of(l2, s) = Of(l, s)
<1>1. DOMAIN l2 = DOMAIN l /\ l2[i] = t /\ \A j \in DOMAIN l : j # i => l2[j] = l[j]
  OBVIOUS
<1>2. \A j \in DOMAIN l : l2[j].sig.scon = l[j].sig.scon
  BY <1>1
<1>3. Distinct(l2)
  BY <1>1, <1>2 DEF Distinct
<1>4. Alone(t, Of(l2, c))
  <2>1. \A j \in DOMAIN l2 : l2[j].sig.scon = c => j = i
    BY <1>1, <1>2 DEF Distinct
  <2>2. i \in DOMAIN l2 /\ l2[i].sig.scon = c
    BY <1>1
  <2> QED
    BY <1>1, <2>1, <2>2 DEF Of, Alone
<1>5. ASSUME NEW s, s # c PROVE Of(l2, s) = Of(l, s)
  BY <1>1, <1>2, <1>5 DEF Of
<1> QED
  BY <1>3, <1>4, <1>5

LEMMA PutIn ==
    ASSUME NEW T, NEW l \in Seq(T), NEW t \in T, Distinct(l), Of(l, t.sig.scon) = {}
    PROVE  /\ Distinct(Append(l, t)) /\ Of(Append(l, t), t.sig.scon) = {t}
           /\ \A s : s # t.sig.scon => Of(Append(l, t), s) = Of(l, s)
<1> DEFINE l2 == Append(l, t)
           n == Len(l) + 1
<1>1. /\ DOMAIN l2 = DOMAIN l \cup {n} /\ n \notin DOMAIN l /\ l2[n] = t
      /\ \A j \in DOMAIN l : l2[j] = l[j]
  OBVIOUS
<1> HIDE DEF l2, n
<1>2. \A j \in DOMAIN l : l[j].sig.scon # t.sig.scon
  BY DEF Of
<1>3. Distinct(l2)
  BY <1>1, <1>2 DEF Distinct
<1>4. Of(l2, t.sig.scon) = {t}
  BY <1>1, <1>3 DEF Of, Distinct
<1>5. ASSUME NEW s, s # t.sig.scon PROVE Of(l2, s) = Of(l, s)
  BY <1>1, <1>2, <1>5 DEF Of
<1> QED
  BY <1>3, <1>4, <1>5 DEF l2

LEMMA TakenOut ==
    ASSUME NEW T, NEW l \in Seq(T), NEW i \in 1..Len(l), Distinct(l)
    PROVE  /\ Distinct(RemoveAt(l, i)) /\ Of(RemoveAt(l, i), l[i].sig.scon) = {}
           /\ \A s : s # l[i].sig.scon => Of(RemoveAt(l, i), s) = Of(l, s)
<1> DEFINE l2 == RemoveAt(l, i)
           n == Len(l)
           at(j) == IF j < i THEN j ELSE j + 1
<1>1. n \in Nat /\ DOMAIN l = 1..n /\ i \in 1..n
  OBVIOUS
<1>2. DOMAIN l2 = 1..(n - 1) /\ \A j \in 1..(n - 1) : l2[j] = l[at(j)]
  <2> DEFINE f == SubSeq(l, 1, i - 1)
             g == SubSeq(l, i + 1, n)
  <2>1. /\ f \in Seq(T) /\ Len(f) = i - 1 /\ \A j \in 1..(i - 1) : f[j] = l[j]
        /\ g \in Seq(T) /\ Len(g) = n - i /\ \A j \in 1..(n - i) : g[j] = l[i + j]
    <3>1. f \in Seq(T) /\ Len(f) = i - 1 /\ \A j \in 1..(i - 1) : f[j] = l[j]
      BY SMTT(60), <1>1
    <3>2. /\ g \in Seq(T) /\ Len(g) = n - i
          /\ \A j \in 1..(n - i) : g[j] = l[i + j]
      <4> DEFINE a == i + 1
      <4>1. a \in 1..(n + 1) /\ n - a + 1 = n - i /\ \A j \in 1..(n - i) : a + j - 1 = i + j
        BY <1>1
      <4> HIDE DEF a
      <4>2. /\ SubSeq(l, a, n) \in Seq(T) /\ Len(SubSeq(l, a, n)) = n - a + 1
            /\ \A j \in 1..(n - a + 1) : SubSeq(l, a, n)[j] = l[a + j - 1]
        BY <1>1, <4>1
      <4> QED
        BY <4>1, <4>2 DEF a
    <3> QED
      BY <3>1, <3>2
  <2>2. l2 = f \o g
    BY DEF RemoveAt
  <2> HIDE DEF f, g, l2
  <2>3. Len(f \o g) = Len(f) + Len(g) /\ DOMAIN (f \o g) = 1..Len(f \o g)
        /\ (\A j \in 1..Len(f) : (f \o g)[j] = f[j])
        /\ \A j \in 1..Len(g) : (f \o g)[Len(f) + j] = g[j]
    <3>0. f \in Seq(T) /\ g \in Seq(T)
      BY <2>1
    <3>1. f \o g \in Seq(T) /\ Len(f \o g) = Len(f) + Len(g)
      BY <3>0
    <3> QED
      BY <2>1, <3>1
  <2>4. DOMAIN l2 = 1..(n - 1)
    BY <1>1, <2>1, <2>2, <2>3
  <2>5. ASSUME NEW j \in 1..(n - 1) PROVE l2[j] = l[at(j)]
    <3>1. CASE j < i
      BY <1>1, <2>1, <2>2, <2>3, <2>5, <3>1
    <3>2. CASE ~(j < i)
      <4>1. j - i + 1 \in 1..(n - i) /\ (i - 1) + (j - i + 1) = j /\ i + (j - i + 1) = j + 1
        BY <1>1, <2>5, <3>2
      <4>2. l2[(i - 1) + (j - i + 1)] = g[j - i + 1]
        BY <2>1, <2>2, <2>3, <4>1
      <4>3. g[j - i + 1] = l[i + (j - i + 1)]
        BY <2>1, <4>1
      <4> QED
        BY <3>2, <4>1, <4>2, <4>3
    <3> QED
      BY <3>1, <3>2
  <2> QED
    BY <2>4, <2>5
<1>3. \A j \in 1..(n - 1) : at(j) \in 1..n /\ at(j) # i
  BY <1>1
<1>4. \A j, k \in 1..(n - 1) : at(j) = at(k) => j = k
  BY <1>1
<1>5. \A k \in 1..n : k # i => \E j \in 1..(n - 1) : at(j) = k
  <2> SUFFICES ASSUME NEW k \in 1..n, k # i PROVE \E j \in 1..(n - 1) : at(j) = k
    OBVIOUS
  <2>1. CASE k < i
    <3>1. k \in 1..(n - 1) /\ at(k) = k
      BY <1>1, <2>1
    <3> QED
      BY <3>1
  <2>2. CASE k > i
    <3>1. k - 1 \in 1..(n - 1) /\ at(k - 1) = k
      BY <1>1, <2>2
    <3> QED
      BY <3>1
  <2> QED
    BY <1>1, <2>1, <2>2
<1> HIDE DEF l2, n, at
<1>6. Distinct(l2)
  BY <1>1, <1>2, <1>3, <1>4 DEF Distinct
<1>7. Of(l2, l[i].sig.scon) = {}
  BY <1>1, <1>2, <1>3 DEF Of, Distinct
<1>8. ASSUME NEW s, s # l[i].sig.scon PROVE Of(l2, s) = Of(l, s)
  <2>1. ASSUME NEW j \in DOMAIN l2, l2[j].sig.scon = s PROVE l2[j] \in Of(l, s)
    BY <1>1, <1>2, <1>3, <2>1 DEF Of
  <2>2. ASSUME NEW k \in DOMAIN l, l[k].sig.scon = s PROVE l[k] \in Of(l2, s)
    <3>1. k # i
      BY <1>8, <2>2
    <3>2. PICK j \in 1..(n - 1) : at(j) = k
      BY <1>1, <1>5, <3>1
    <3> QED
      BY <1>2, <2>2, <3>2 DEF Of
  <2> QED
    BY <2>1, <2>2 DEF Of
<1> QED
  BY <1>6, <1>7, <1>8 DEF l2

\* What get_tracker returns, and what is under p once it is changed.
LEMMA Listed ==
    ASSUME TypeOK, NEW p \in Proc, NEW sig \in Sigs, NEW t \in OngoingTrackers, t.sig = sig,
           creating[p]["ev"] = NoSig, Distinct(ongoing[p]), \A u \in Under(p, sig.scon) : u.sig = sig
    PROVE  LET list == Trackers(p, "ev", sig)
               i == Slot(p, "ev", sig)
           IN  /\ \/ Under(p, sig.scon) = {} /\ list[i] = Tracker(sig)
                  \/ Under(p, sig.scon) = {list[i]}
               /\ Distinct([list EXCEPT ![i] = t]) /\ Of([list EXCEPT ![i] = t], sig.scon) = {t}
               /\ \A s : s # sig.scon => Of([list EXCEPT ![i] = t], s) = Under(p, s)
<1> DEFINE l == ongoing[p]
           T == OngoingTrackers
           new == Tracker(sig)
           long == Append(l, new)
           list == Trackers(p, "ev", sig)
           i == Slot(p, "ev", sig)
<1>1. l \in Seq(T) /\ Distinct(l) /\ \A s : Under(p, s) = Of(l, s)
  BY DEF TypeOK, Under
<1>2. Creates(p, "ev", sig) <=> Found(p, sig) = 0
  BY DEF Creates
<1>3. CASE Found(p, sig) = 0
  <2>1. list = long /\ i = Len(l) + 1
    BY <1>2, <1>3 DEF Trackers, Slot
  <2>2. new \in T /\ new.sig = sig
    <3>1. 0 \in 0..Rounds /\ 0 \in Nat /\ {} \in Contents
      BY BoundsAssumption DEF Contents
    <3> QED
      BY <3>1 DEF Tracker, OngoingTrackers, NoReq
  <2>3. Of(l, sig.scon) = {}
    <3>1. \A j \in DOMAIN l : l[j].sig # sig
      BY <1>3, FoundHas
    <3>2. \A j \in DOMAIN l : l[j].sig.scon = sig.scon => l[j] \in Of(l, sig.scon)
      BY DEF Of
    <3>3. \A u \in Of(l, sig.scon) : u.sig = sig
      BY <1>1
    <3> HIDE DEF l
    <3> QED
      BY <3>1, <3>2, <3>3 DEF Of
  <2> HIDE DEF l, T, new, list, i
  <2>4. /\ Distinct(long) /\ Of(long, sig.scon) = {new}
        /\ \A s : s # sig.scon => Of(long, s) = Of(l, s)
    BY <1>1, <2>2, <2>3, PutIn
  <2>5. long \in Seq(T) /\ i \in DOMAIN long /\ long[i] = new
    BY <1>1, <2>1, <2>2
  <2> HIDE DEF long
  <2>6. /\ Distinct([long EXCEPT ![i] = t]) /\ Of([long EXCEPT ![i] = t], sig.scon) = {t}
        /\ \A s : s # sig.scon => Of([long EXCEPT ![i] = t], s) = Of(long, s)
    <3>0. PICK l2 : l2 = [long EXCEPT ![i] = t]
      OBVIOUS
    <3>1. t.sig.scon = sig.scon /\ long[i].sig.scon = sig.scon
      BY <2>2, <2>5
    <3>2. long \in Seq(T) /\ i \in DOMAIN long /\ Distinct(long)
      BY <2>4, <2>5
    <3>3. DOMAIN l2 = DOMAIN long /\ l2[i] = t /\ \A j \in DOMAIN long : j # i => l2[j] = long[j]
      BY <3>0, <3>2
    <3>5. t \in T /\ l2 \in Seq(T)
      BY <3>0, <3>2 DEF T
    <3>4. /\ Distinct(l2) /\ Alone(t, Of(l2, sig.scon))
          /\ \A s : s # sig.scon => Of(l2, s) = Of(long, s)
      BY <3>1, <3>2, <3>3, <3>5, SetIn
    <3> QED
      BY <3>0, <3>4 DEF Alone
  <2>7. \A s : s # sig.scon => Of([long EXCEPT ![i] = t], s) = Under(p, s)
    BY <1>1, <2>4, <2>6 DEF l
  <2>8. Under(p, sig.scon) = {}
    BY <1>1, <2>3 DEF l
  <2> QED
    BY <2>1, <2>5, <2>6, <2>7, <2>8 DEF list, i, new
<1>4. CASE Found(p, sig) # 0
  <2>1. list = l /\ i = Found(p, sig)
    BY <1>2, <1>4 DEF Trackers, Slot
  <2>2. i \in DOMAIN l /\ l[i].sig = sig
    BY <1>4, <2>1, FoundHas
  <2> HIDE DEF l, T, list, i
  <2>3. Of(l, sig.scon) = {l[i]}
    BY <1>1, <2>2 DEF Of, Distinct
  <2>4. /\ Distinct([l EXCEPT ![i] = t]) /\ Of([l EXCEPT ![i] = t], sig.scon) = {t}
        /\ \A s : s # sig.scon => Of([l EXCEPT ![i] = t], s) = Of(l, s)
    <3>0. PICK l2 : l2 = [l EXCEPT ![i] = t]
      OBVIOUS
    <3>1. t.sig.scon = sig.scon /\ l[i].sig.scon = sig.scon
      BY <2>2
    <3>2. l \in Seq(T) /\ i \in DOMAIN l /\ Distinct(l)
      BY <1>1, <2>2 DEF l, T
    <3>3. DOMAIN l2 = DOMAIN l /\ l2[i] = t /\ \A j \in DOMAIN l : j # i => l2[j] = l[j]
      BY <3>0, <3>2
    <3>5. t \in T /\ l2 \in Seq(T)
      BY <3>0, <3>2 DEF T
    <3>4. /\ Distinct(l2) /\ Alone(t, Of(l2, sig.scon))
          /\ \A s : s # sig.scon => Of(l2, s) = Of(l, s)
      BY <3>1, <3>2, <3>3, <3>5, SetIn
    <3> QED
      BY <3>0, <3>4 DEF Alone
  <2> QED
    BY <1>1, <2>1, <2>3, <2>4 DEF list, i
<1> QED
  BY <1>3, <1>4

-----------------------------------------------------------------------------
(* What a handler takes and gives. *)

Bound(m, x, y, tag, s) == m \in CollMessages /\ m.src = x /\ m.dst = y /\ m.tag = tag /\ m.sig.scon = s
Just(m, x, y, tag, s) == IF Bound(m, x, y, tag, s) THEN <<m>> ELSE <<>>

LEMMA PartColl ==
    ASSUME NEW x, NEW y, NEW tag, NEW s, NEW f, f = Coll(x, y, tag, s), NEW m
    PROVE  Part(m, f) = Just(m, x, y, tag, s) /\ Part(m, f) \in Seq(CollMessages)
<1>1. m \in DOMAIN f <=> Bound(m, x, y, tag, s)
  BY CollIs DEF Bound
<1>2. m \in DOMAIN f => f[m] = m
  BY CollIs
<1>3. Bound(m, x, y, tag, s) => m \in CollMessages
  BY DEF Bound
<1> QED
  BY <1>1, <1>2, <1>3 DEF Part, Just

\* What a list is after one has been taken at its front, or one has come at its end.
Passed(old, got, new, gave) ==
    /\ got = <<>> => new = old \o gave
    /\ gave = <<>> => old = got \o new
    /\ got = <<>> /\ gave = <<>> => new = old

\* The handler receives a message, or processes a call; it sends nothing, or one message.
TakesIn(p, x, y, tag, s, got) ==
    \/ \E m : NextEvent(p, "ev") = Recv(m) /\ m.dst = p /\ got = Just(m, x, y, tag, s)
    \/ NextEvent(p, "ev").op # "recv" /\ got = <<>>
GivesOut(p, evs, x, y, tag, s, gave) ==
    \/ evs = <<>> /\ gave = <<>>
    \/ \E m : evs = <<Send(m)>> /\ m.src = p /\ gave = Just(m, x, y, tag, s)

LEMMA TakenIs ==
    ASSUME NEW p, NEW x, NEW y, NEW tag, NEW s, NEW f, f = Coll(x, y, tag, s),
           NEW got, TakesIn(p, x, y, tag, s, got)
    PROVE  (IF y = p THEN Part(NextEvent(p, "ev"), OnRecv(f)) ELSE <<>>) = got
<1>1. Values(f, CollMessages)
  BY CollIs
<1>2. ASSUME NEW m, NextEvent(p, "ev") = Recv(m), m.dst = p, got = Just(m, x, y, tag, s)
      PROVE  (IF y = p THEN Part(NextEvent(p, "ev"), OnRecv(f)) ELSE <<>>) = got
  <2>1. Part(NextEvent(p, "ev"), OnRecv(f)) = Part(m, f)
    BY <1>1, <1>2, PartFacts
  <2>2. Part(m, f) = got
    BY <1>2, PartColl
  <2>3. y # p => got = <<>>
    BY <1>2 DEF Just, Bound
  <2> QED
    BY <2>1, <2>2, <2>3
<1>3. CASE NextEvent(p, "ev").op # "recv" /\ got = <<>>
  <2>1. Part(NextEvent(p, "ev"), OnRecv(f)) = <<>>
    BY <1>1, <1>3, PartFacts
  <2> QED
    BY <1>3, <2>1
<1> QED
  BY <1>2, <1>3 DEF TakesIn

LEMMA MovedPassed ==
    ASSUME NEW old, NEW got, NEW new, NEW gave, NEW S, Moved(old, got, new, gave, S)
    PROVE  Passed(old, got, new, gave)
<1>1. PICK mid \in Seq(S) : old = got \o mid /\ new = mid \o gave
  BY DEF Moved
<1>2. <<>> \o mid = mid /\ mid \o <<>> = mid
  OBVIOUS
<1> QED
  BY <1>1, <1>2 DEF Passed

LEMMA Shift ==
    ASSUME TypeOK, RouteInv, NEW p \in Proc, NEW evs, Posts(p, "ev", evs),
           NEW x \in Proc, NEW y \in Proc, NEW tag, NEW s, NEW f, f = Coll(x, y, tag, s),
           NEW got, TakesIn(p, x, y, tag, s, got), NEW gave, GivesOut(p, evs, x, y, tag, s, gave)
    PROVE  Passed(Way(x, y, f), got, Way(x, y, f)', gave)
<1> DEFINE S == CollMessages
           F == IF y = p THEN Part(NextEvent(p, "ev"), OnRecv(f)) ELSE <<>>
           D == IF x = p THEN Drawn(evs, OnSend(f)) ELSE <<>>
<1>0. Values(f, S) /\ "ev" \in Base
  BY CollIs, TreeFacts
<1>1. Moved(Way(x, y, f), F, Way(x, y, f)', D, S)
  BY <1>0, WayPosted
<1>2. F = got
  BY TakenIs
<1>3. D = gave
  <2>1. CASE evs = <<>> /\ gave = <<>>
    BY <2>1, DrawnEmpty
  <2>2. ASSUME NEW out, evs = <<Send(out)>>, out.src = p, gave = Just(out, x, y, tag, s)
        PROVE  D = gave
    <3>1. Values(OnSend(f), S) /\ Part(Send(out), OnSend(f)) = Part(out, f)
      BY <1>0, PartFacts
    <3>2. Drawn(<<Send(out)>>, OnSend(f)) = Part(Send(out), OnSend(f))
      BY <3>1, DrawnUnit
    <3>3. Part(out, f) = gave
      BY <2>2, PartColl
    <3>4. x # p => gave = <<>>
      BY <2>2 DEF Just, Bound
    <3> QED
      BY <2>2, <3>1, <3>2, <3>3, <3>4
  <2> QED
    BY <2>1, <2>2 DEF GivesOut
<1> HIDE DEF S, F, D
<1>4. Moved(Way(x, y, f), got, Way(x, y, f)', gave, S)
  BY <1>1, <1>2, <1>3
<1> QED
  BY <1>4, MovedPassed

\* One that passes on an order.
SpreadsOut(p, evs, x, f, gave) == gave = IF x = p THEN Drawn(evs, OnSend(f)) ELSE <<>>

LEMMA ShiftSpread ==
    ASSUME TypeOK, RouteInv, NEW p \in Proc, NEW evs, Posts(p, "ev", evs),
           NEW x \in Proc, NEW y \in Proc, NEW tag, NEW s, NEW f, f = Coll(x, y, tag, s),
           NEW got, TakesIn(p, x, y, tag, s, got), NEW gave \in Seq(CollMessages), SpreadsOut(p, evs, x, f, gave)
    PROVE  Passed(Way(x, y, f), got, Way(x, y, f)', gave)
<1> DEFINE S == CollMessages
           F == IF y = p THEN Part(NextEvent(p, "ev"), OnRecv(f)) ELSE <<>>
           D == IF x = p THEN Drawn(evs, OnSend(f)) ELSE <<>>
<1>0. Values(f, S) /\ "ev" \in Base
  BY CollIs, TreeFacts
<1>1. Moved(Way(x, y, f), F, Way(x, y, f)', D, S)
  BY <1>0, WayPosted
<1>2. F = got
  BY TakenIs
<1>3. D = gave
  BY DEF SpreadsOut
<1> HIDE DEF S, F, D
<1>4. Moved(Way(x, y, f), got, Way(x, y, f)', gave, S)
  BY <1>1, <1>2, <1>3
<1> QED
  BY <1>4, MovedPassed

\* One is taken at the front of a list, or comes at its end.
Takes(old, m, new) == old = <<m>> \o new
Gains(old, new, m) == new = old \o <<m>>

\* The contributions that a list of messages of one way brings.
Carries(m, who, k, s) == m.sig = Sig(s, 0) /\ m.buf = who \X {k}

LEMMA BearsFirst ==
    ASSUME NEW T, NEW list \in Seq(T), NEW m, NEW old, Takes(old, m, list), NEW n \in Int, NEW who, NEW s,
           Bears(old, n, who, s), NEW k, k = n + 1
    PROVE  Carries(m, who, k, s) /\ Bears(list, k, who, s) /\ Len(old) = Len(list) + 1
<1>1. /\ Len(list) \in Nat /\ DOMAIN list = 1..Len(list)
      /\ DOMAIN old = 1..(Len(list) + 1) /\ Len(old) = Len(list) + 1 /\ old[1] = m
      /\ \A i \in 1..Len(list) : old[i + 1] = list[i]
  BY DEF Takes
<1>2. \A i \in 1..(Len(list) + 1) : old[i].sig = Sig(s, 0) /\ old[i].buf = who \X {n + i}
  BY <1>1 DEF Bears
<1>3. Carries(m, who, k, s)
  BY <1>1, <1>2 DEF Carries
<1>4. ASSUME NEW i \in DOMAIN list PROVE list[i].sig = Sig(s, 0) /\ list[i].buf = who \X {k + i}
  <2>1. i \in 1..Len(list) /\ i + 1 \in 1..(Len(list) + 1) /\ n + (i + 1) = k + i
    BY <1>1, <1>4
  <2>2. old[i + 1].sig = Sig(s, 0) /\ old[i + 1].buf = who \X {n + (i + 1)}
    BY <1>2, <2>1
  <2> QED
    BY <1>1, <2>1, <2>2
<1> QED
  BY <1>1, <1>3, <1>4 DEF Bears

LEMMA BearsLast ==
    ASSUME NEW T, NEW list \in Seq(T), NEW m, NEW new, Gains(list, new, m), NEW n \in Int, NEW who, NEW s,
           Bears(list, n, who, s), NEW k, k = n + Len(list) + 1, Carries(m, who, k, s)
    PROVE  Bears(new, n, who, s) /\ Len(new) = Len(list) + 1
<1>1. /\ Len(list) \in Nat /\ DOMAIN list = 1..Len(list)
      /\ DOMAIN new = 1..(Len(list) + 1) /\ Len(new) = Len(list) + 1 /\ new[Len(list) + 1] = m
      /\ \A i \in 1..Len(list) : new[i] = list[i]
  BY DEF Gains
<1>2. ASSUME NEW i \in DOMAIN new PROVE new[i].sig = Sig(s, 0) /\ new[i].buf = who \X {n + i}
  <2>1. CASE i \in 1..Len(list)
    BY <1>1, <2>1 DEF Bears
  <2>2. CASE i = Len(list) + 1
    <3>1. n + i = k
      BY <1>1, <2>2
    <3> QED
      BY <1>1, <2>2, <3>1 DEF Carries
  <2> QED
    BY <1>1, <1>2, <2>1, <2>2
<1> QED
  BY <1>1, <1>2 DEF Bears

\* What is on its way, by its name.
LEMMA Named ==
    ASSUME NEW s
    PROVE  /\ \A x, y : \E f : /\ f = Coll(x, y, "DIRECT", s) /\ Reports(x, y, s) = Way(x, y, f)
                               /\ Reports(x, y, s)' = Way(x, y, f)'
           /\ \A y : \E f : /\ f = Coll(From(y), y, "XCAST", s) /\ Orders(y, s) = Way(From(y), y, f)
                            /\ Orders(y, s)' = Way(From(y), y, f)'
           /\ \A y : \E f : /\ f = Coll(y, y, "RELEASE", s) /\ Releases(y, s) = Way(y, y, f)
                            /\ Releases(y, s)' = Way(y, y, f)'
<1>1. ASSUME NEW x, NEW y
      PROVE  \E f : /\ f = Coll(x, y, "DIRECT", s) /\ Reports(x, y, s) = Way(x, y, f)
                    /\ Reports(x, y, s)' = Way(x, y, f)'
  <2>1. PICK f : f = Coll(x, y, "DIRECT", s)
    OBVIOUS
  <2>2. Reports(x, y, s) = Way(x, y, f) /\ Reports(x, y, s)' = Way(x, y, f)'
    BY <2>1 DEF Reports, Coll
  <2> QED
    BY <2>1, <2>2
<1>2. ASSUME NEW y
      PROVE  \E f : /\ f = Coll(From(y), y, "XCAST", s) /\ Orders(y, s) = Way(From(y), y, f)
                    /\ Orders(y, s)' = Way(From(y), y, f)'
  <2>1. PICK f : f = Coll(From(y), y, "XCAST", s)
    OBVIOUS
  <2>2. Orders(y, s) = Way(From(y), y, f) /\ Orders(y, s)' = Way(From(y), y, f)'
    BY <2>1 DEF Orders, Coll, From
  <2> QED
    BY <2>1, <2>2
<1>3. ASSUME NEW y
      PROVE  \E f : /\ f = Coll(y, y, "RELEASE", s) /\ Releases(y, s) = Way(y, y, f)
                    /\ Releases(y, s)' = Way(y, y, f)'
  <2>1. PICK f : f = Coll(y, y, "RELEASE", s)
    OBVIOUS
  <2>2. Releases(y, s) = Way(y, y, f) /\ Releases(y, s)' = Way(y, y, f)'
    BY <2>1 DEF Releases, Coll
  <2> QED
    BY <2>1, <2>2
<1> QED
  BY <1>1, <1>2, <1>3

\* A call: the member reports to itself.
LEMMA CallWays ==
    ASSUME TypeOK, RouteInv, NEW p \in Proc, NEW own, Posts(p, "ev", <<Send(own)>>), NextEvent(p, "ev").op = "call",
           NEW s, Bound(own, p, p, "DIRECT", s)
    PROVE  /\ Gains(Reports(p, p, s), Reports(p, p, s)', own)
           /\ \A r \in Proc : \A x \in Sources(r) : x # p \/ r # p => Reports(x, r, s)' = Reports(x, r, s)
           /\ \A r \in Proc : Orders(r, s)' = Orders(r, s) /\ Releases(r, s)' = Releases(r, s)
<1>0. own.src = p
  BY DEF Bound
<1>1. ASSUME NEW x \in Proc, NEW y \in Proc, NEW tag, NEW f, f = Coll(x, y, tag, s)
      PROVE  /\ Bound(own, x, y, tag, s) => Way(x, y, f)' = Way(x, y, f) \o <<own>>
             /\ ~Bound(own, x, y, tag, s) => Way(x, y, f)' = Way(x, y, f)
  <2>1. PICK evs : evs = <<Send(own)>>
    OBVIOUS
  <2>2. PICK got : got = <<>>
    OBVIOUS
  <2>3. PICK gave : gave = Just(own, x, y, tag, s)
    OBVIOUS
  <2>4. Passed(Way(x, y, f), got, Way(x, y, f)', gave)
    <3>1. TakesIn(p, x, y, tag, s, got)
      BY <2>2 DEF TakesIn
    <3>2. GivesOut(p, evs, x, y, tag, s, gave)
      BY <1>0, <2>1, <2>3 DEF GivesOut
    <3>3. Posts(p, "ev", evs)
      BY <2>1
    <3> QED
      BY <1>1, <3>1, <3>2, <3>3, Shift
  <2> QED
    BY <2>2, <2>3, <2>4 DEF Just, Passed
<1>2. Gains(Reports(p, p, s), Reports(p, p, s)', own)
  <2>1. PICK f : /\ f = Coll(p, p, "DIRECT", s) /\ Reports(p, p, s) = Way(p, p, f)
                 /\ Reports(p, p, s)' = Way(p, p, f)'
    BY Named
  <2> QED
    BY <1>1, <2>1 DEF Gains
<1>3. ASSUME NEW r \in Proc, NEW x \in Sources(r), x # p \/ r # p
      PROVE  Reports(x, r, s)' = Reports(x, r, s)
  <2>1. PICK f : /\ f = Coll(x, r, "DIRECT", s) /\ Reports(x, r, s) = Way(x, r, f)
                 /\ Reports(x, r, s)' = Way(x, r, f)'
    BY Named
  <2>2. x \in Proc /\ ~Bound(own, x, r, "DIRECT", s)
    BY <1>3, Ways DEF Bound
  <2> QED
    BY <1>1, <2>1, <2>2
<1>4. ASSUME NEW r \in Proc PROVE Orders(r, s)' = Orders(r, s) /\ Releases(r, s)' = Releases(r, s)
  <2>1. PICK f : /\ f = Coll(From(r), r, "XCAST", s) /\ Orders(r, s) = Way(From(r), r, f)
                 /\ Orders(r, s)' = Way(From(r), r, f)'
    BY Named
  <2>2. PICK g : /\ g = Coll(r, r, "RELEASE", s) /\ Releases(r, s) = Way(r, r, g)
                 /\ Releases(r, s)' = Way(r, r, g)'
    BY Named
  <2>3. /\ From(r) \in Proc /\ ~Bound(own, From(r), r, "XCAST", s)
        /\ ~Bound(own, r, r, "RELEASE", s)
    BY Ways DEF Bound
  <2>4. Way(From(r), r, f)' = Way(From(r), r, f)
    BY <1>1, <2>1, <2>3
  <2>5. Way(r, r, g)' = Way(r, r, g)
    BY <1>1, <2>2, <2>3
  <2> QED
    BY <2>1, <2>2, <2>4, <2>5
<1> QED
  BY <1>2, <1>3, <1>4

\* A report is counted; when it is the last one, one message goes out.
Rollup(p, s, out) ==
    IF p = Master THEN Bound(out, p, p, "XCAST", s) ELSE Bound(out, p, Parent[p], "DIRECT", s)

LEMMA DirectWays ==
    ASSUME TypeOK, RouteInv, NEW p \in Proc, NEW m, NextEvent(p, "ev") = Recv(m), NEW c, NEW s,
           Bound(m, c, p, "DIRECT", s), NEW out, NEW evs, Posts(p, "ev", evs),
           evs = <<>> \/ (evs = <<Send(out)>> /\ Rollup(p, s, out))
    PROVE  /\ Takes(Reports(c, p, s), m, Reports(c, p, s)')
           /\ \A r \in Proc : \A x \in Sources(r) : x # c \/ r # p =>
                 IF evs # <<>> /\ p # Master /\ x = p /\ r = Parent[p]
                 THEN Gains(Reports(x, r, s), Reports(x, r, s)', out)
                 ELSE Reports(x, r, s)' = Reports(x, r, s)
           /\ \A r \in Proc : IF evs # <<>> /\ p = Master /\ r = p
                              THEN Gains(Orders(r, s), Orders(r, s)', out)
                              ELSE Orders(r, s)' = Orders(r, s)
           /\ \A r \in Proc : Releases(r, s)' = Releases(r, s)
<1>0. /\ m.src = c /\ m.dst = p /\ c \in Proc /\ (evs # <<>> => out.src = p)
      /\ p # Master => Parent[p] \in Proc /\ Parent[p] # p
      /\ <<Send(out)>> # <<>>
  <2>1. c \in Proc
    BY DEF Bound, CollMessages
  <2>2. p # Master => Parent[p] \in Proc /\ Parent[p] # p
    BY TreeFacts
  <2> QED
    BY <2>1, <2>2 DEF Bound, Rollup
<1>1. ASSUME NEW x \in Proc, NEW y \in Proc, NEW tag, NEW f, f = Coll(x, y, tag, s)
      PROVE  /\ Bound(m, x, y, tag, s) /\ ~Bound(out, x, y, tag, s) => Way(x, y, f) = <<m>> \o Way(x, y, f)'
             /\ ~Bound(m, x, y, tag, s) /\ Bound(out, x, y, tag, s) /\ evs # <<>> =>
                    Way(x, y, f)' = Way(x, y, f) \o <<out>>
             /\ ~Bound(m, x, y, tag, s) /\ (~Bound(out, x, y, tag, s) \/ evs = <<>>) =>
                    Way(x, y, f)' = Way(x, y, f)
  <2>2. PICK got : got = Just(m, x, y, tag, s)
    OBVIOUS
  <2>3. PICK gave : gave = IF evs = <<>> THEN <<>> ELSE Just(out, x, y, tag, s)
    OBVIOUS
  <2>4. TakesIn(p, x, y, tag, s, got)
    BY <1>0, <2>2 DEF TakesIn
  <2>5. GivesOut(p, evs, x, y, tag, s, gave)
    BY <1>0, <2>3 DEF GivesOut
  <2>6. Passed(Way(x, y, f), got, Way(x, y, f)', gave)
    BY <1>1, <2>4, <2>5, Shift
  <2> QED
    BY <2>2, <2>3, <2>6 DEF Just, Passed
<1>2. Takes(Reports(c, p, s), m, Reports(c, p, s)')
  <2>1. PICK f : /\ f = Coll(c, p, "DIRECT", s) /\ Reports(c, p, s) = Way(c, p, f)
                 /\ Reports(c, p, s)' = Way(c, p, f)'
    BY Named
  <2>2. evs # <<>> => ~Bound(out, c, p, "DIRECT", s)
    BY <1>0 DEF Bound, Rollup
  <2>3. PICK got : got = Just(m, c, p, "DIRECT", s)
    OBVIOUS
  <2>4. PICK gave : gave = IF evs = <<>> THEN <<>> ELSE Just(out, c, p, "DIRECT", s)
    OBVIOUS
  <2>5. TakesIn(p, c, p, "DIRECT", s, got)
    BY <1>0, <2>3 DEF TakesIn
  <2>6. GivesOut(p, evs, c, p, "DIRECT", s, gave)
    BY <1>0, <2>4 DEF GivesOut
  <2>7. Passed(Way(c, p, f), got, Way(c, p, f)', gave)
    BY <1>0, <2>1, <2>5, <2>6, Shift
  <2> QED
    BY <2>1, <2>2, <2>3, <2>4, <2>7 DEF Just, Passed, Takes
<1>3. ASSUME NEW r \in Proc, NEW x \in Sources(r), x # c \/ r # p
      PROVE  IF evs # <<>> /\ p # Master /\ x = p /\ r = Parent[p]
             THEN Gains(Reports(x, r, s), Reports(x, r, s)', out)
             ELSE Reports(x, r, s)' = Reports(x, r, s)
  <2>1. PICK f : /\ f = Coll(x, r, "DIRECT", s) /\ Reports(x, r, s) = Way(x, r, f)
                 /\ Reports(x, r, s)' = Way(x, r, f)'
    BY Named
  <2>2. x \in Proc /\ ~Bound(m, x, r, "DIRECT", s)
    BY <1>0, <1>3, Ways DEF Bound
  <2>3. evs # <<>> => (Bound(out, x, r, "DIRECT", s) <=> p # Master /\ x = p /\ r = Parent[p])
    BY <1>0 DEF Bound, Rollup
  <2> QED
    BY <1>1, <2>1, <2>2, <2>3 DEF Gains
<1>4. ASSUME NEW r \in Proc
      PROVE  IF evs # <<>> /\ p = Master /\ r = p
             THEN Gains(Orders(r, s), Orders(r, s)', out)
             ELSE Orders(r, s)' = Orders(r, s)
  <2>1. PICK f : /\ f = Coll(From(r), r, "XCAST", s) /\ Orders(r, s) = Way(From(r), r, f)
                 /\ Orders(r, s)' = Way(From(r), r, f)'
    BY Named
  <2>2. From(r) \in Proc /\ ~Bound(m, From(r), r, "XCAST", s)
    BY Ways DEF Bound
  <2>3. evs # <<>> => (Bound(out, From(r), r, "XCAST", s) <=> p = Master /\ r = p)
    BY <1>0 DEF Bound, Rollup, From
  <2> QED
    BY <1>1, <2>1, <2>2, <2>3 DEF Gains
<1>5. ASSUME NEW r \in Proc PROVE Releases(r, s)' = Releases(r, s)
  <2>1. PICK f : /\ f = Coll(r, r, "RELEASE", s) /\ Releases(r, s) = Way(r, r, f)
                 /\ Releases(r, s)' = Way(r, r, f)'
    BY Named
  <2>2. ~Bound(m, r, r, "RELEASE", s)
    BY DEF Bound
  <2>3. evs # <<>> => ~Bound(out, r, r, "RELEASE", s)
    BY DEF Bound, Rollup
  <2> QED
    BY <1>1, <2>1, <2>2, <2>3
<1> QED
  BY <1>2, <1>3, <1>4, <1>5

\* A release.
LEMMA ReleaseWays ==
    ASSUME TypeOK, RouteInv, NEW p \in Proc, NEW m, NextEvent(p, "ev") = Recv(m), NEW s,
           Bound(m, p, p, "RELEASE", s), NEW evs, evs = <<>>, Posts(p, "ev", evs)
    PROVE  /\ Takes(Releases(p, s), m, Releases(p, s)')
           /\ \A r \in Proc : \A x \in Sources(r) : Reports(x, r, s)' = Reports(x, r, s)
           /\ \A r \in Proc : Orders(r, s)' = Orders(r, s)
           /\ \A r \in Proc : r # p => Releases(r, s)' = Releases(r, s)
<1>0. m.dst = p
  BY DEF Bound
<1>1. ASSUME NEW x \in Proc, NEW y \in Proc, NEW tag, NEW f, f = Coll(x, y, tag, s)
      PROVE  /\ Bound(m, x, y, tag, s) => Way(x, y, f) = <<m>> \o Way(x, y, f)'
             /\ ~Bound(m, x, y, tag, s) => Way(x, y, f)' = Way(x, y, f)
  <2>2. PICK got : got = Just(m, x, y, tag, s)
    OBVIOUS
  <2>3. PICK gave : gave = <<>>
    OBVIOUS
  <2>4. TakesIn(p, x, y, tag, s, got)
    BY <1>0, <2>2 DEF TakesIn
  <2>5. GivesOut(p, evs, x, y, tag, s, gave)
    BY <2>3 DEF GivesOut
  <2>6. Passed(Way(x, y, f), got, Way(x, y, f)', gave)
    BY <1>1, <2>4, <2>5, Shift
  <2> QED
    BY <2>2, <2>3, <2>6 DEF Just, Passed
<1>2. Takes(Releases(p, s), m, Releases(p, s)')
  <2>1. PICK f : /\ f = Coll(p, p, "RELEASE", s) /\ Releases(p, s) = Way(p, p, f)
                 /\ Releases(p, s)' = Way(p, p, f)'
    BY Named
  <2> QED
    BY <1>1, <2>1 DEF Takes
<1>3. ASSUME NEW r \in Proc, NEW x \in Sources(r) PROVE Reports(x, r, s)' = Reports(x, r, s)
  <2>1. PICK f : /\ f = Coll(x, r, "DIRECT", s) /\ Reports(x, r, s) = Way(x, r, f)
                 /\ Reports(x, r, s)' = Way(x, r, f)'
    BY Named
  <2>2. x \in Proc /\ ~Bound(m, x, r, "DIRECT", s)
    BY Ways DEF Bound
  <2> QED
    BY <1>1, <2>1, <2>2
<1>4. ASSUME NEW r \in Proc PROVE Orders(r, s)' = Orders(r, s)
  <2>1. PICK f : /\ f = Coll(From(r), r, "XCAST", s) /\ Orders(r, s) = Way(From(r), r, f)
                 /\ Orders(r, s)' = Way(From(r), r, f)'
    BY Named
  <2>2. From(r) \in Proc /\ ~Bound(m, From(r), r, "XCAST", s)
    BY Ways DEF Bound
  <2> QED
    BY <1>1, <2>1, <2>2
<1>5. ASSUME NEW r \in Proc, r # p PROVE Releases(r, s)' = Releases(r, s)
  <2>1. PICK f : /\ f = Coll(r, r, "RELEASE", s) /\ Releases(r, s) = Way(r, r, f)
                 /\ Releases(r, s)' = Way(r, r, f)'
    BY Named
  <2>2. ~Bound(m, r, r, "RELEASE", s)
    BY <1>0, <1>5 DEF Bound
  <2> QED
    BY <1>1, <2>1, <2>2
<1> QED
  BY <1>2, <1>3, <1>4, <1>5

\* An order to release: a copy goes to each child, and the release to the member itself.
LEMMA OrderWays ==
    ASSUME TypeOK, RouteInv, NEW p \in Proc, NEW m, NextEvent(p, "ev") = Recv(m), NEW s,
           Bound(m, From(p), p, "XCAST", s), NEW evs, Posts(p, "ev", evs), \A f, S : Values(f, S) => Spread(p, m, evs, f)
    PROVE  /\ Takes(Orders(p, s), m, Orders(p, s)')
           /\ \A r \in Proc : r # p => IF r \in Children(p) THEN Gains(Orders(r, s), Orders(r, s)', Copy(p, r, m))
                                                         ELSE Orders(r, s)' = Orders(r, s)
           /\ Gains(Releases(p, s), Releases(p, s)', Inner(p, m))
           /\ \A r \in Proc : r # p => Releases(r, s)' = Releases(r, s)
           /\ \A r \in Proc : \A x \in Sources(r) : Reports(x, r, s)' = Reports(x, r, s)
<1>0. m.dst = p /\ m \in CollMessages /\ m.kind \in Kinds /\ m.sig \in Sigs /\ m.buf \in Contents /\ m.kind # "user"
  BY MsgTypes DEF Bound, Kinds
<1>1. /\ Bound(Inner(p, m), p, p, "RELEASE", s)
      /\ \A c \in Children(p) : c \in Proc /\ c # p /\ Parent[c] = p /\ c # Master /\ Bound(Copy(p, c, m), p, c, "XCAST", s)
  <2>1. m.sig.scon = s
    BY DEF Bound
  <2>2. Inner(p, m) = Msg(p, p, "RELEASE", m.kind, m.sig, m.buf)
    BY <1>0 DEF Inner
  <2>3. \A c \in Children(p) : c \in Proc /\ c # p /\ Parent[c] = p /\ c # Master
    BY TreeFacts
  <2>4. Inner(p, m) \in CollMessages /\ \A c \in Children(p) : Copy(p, c, m) \in CollMessages
    BY <1>0, <2>2, <2>3, MsgTypes DEF Copy
  <2>5. /\ Inner(p, m).src = p /\ Inner(p, m).dst = p /\ Inner(p, m).tag = "RELEASE" /\ Inner(p, m).sig = m.sig
        /\ \A c : /\ Copy(p, c, m).src = p /\ Copy(p, c, m).dst = c
                  /\ Copy(p, c, m).tag = "XCAST" /\ Copy(p, c, m).sig = m.sig
    BY <2>2, MsgFields DEF Copy
  <2> QED
    BY <2>1, <2>3, <2>4, <2>5 DEF Bound
<1>2. ASSUME NEW x \in Proc, NEW y \in Proc, NEW tag, NEW f, f = Coll(x, y, tag, s), NEW gave \in Seq(CollMessages),
             SpreadsOut(p, evs, x, f, gave)
      PROVE  Passed(Way(x, y, f), Just(m, x, y, tag, s), Way(x, y, f)', gave)
  <2>1. PICK got : got = Just(m, x, y, tag, s)
    OBVIOUS
  <2>2. TakesIn(p, x, y, tag, s, got)
    BY <1>0, <2>1 DEF TakesIn
  <2>3. Passed(Way(x, y, f), got, Way(x, y, f)', gave)
    BY <1>2, <2>2, ShiftSpread
  <2> QED
    BY <2>1, <2>3
<1>3. ASSUME NEW x \in Proc, NEW y \in Proc, NEW tag, NEW f, f = Coll(x, y, tag, s),
             ~(x = p /\ y = p /\ tag = "RELEASE"), ~(x = p /\ tag = "XCAST" /\ y \in Children(p))
      PROVE  Passed(Way(x, y, f), Just(m, x, y, tag, s), Way(x, y, f)', <<>>)
  <2>1. PICK gave : gave = <<>>
    OBVIOUS
  <2>2. SpreadsOut(p, evs, x, f, gave)
    <3>1. Inner(p, m) \notin DOMAIN f /\ \A c \in Children(p) : Copy(p, c, m) \notin DOMAIN f
      BY <1>1, <1>3, CollIs DEF Bound
    <3>2. Spread(p, m, evs, f)
      BY <1>3, CollIs
    <3> QED
      BY <2>1, <3>1, <3>2 DEF Spread, SpreadsOut
  <2>3. gave \in Seq(CollMessages)
    BY <2>1
  <2> QED
    BY <1>2, <1>3, <2>1, <2>2, <2>3
<1>4. Takes(Orders(p, s), m, Orders(p, s)')
  <2>1. PICK f : /\ f = Coll(From(p), p, "XCAST", s) /\ Orders(p, s) = Way(From(p), p, f)
                 /\ Orders(p, s)' = Way(From(p), p, f)'
    BY Named
  <2>2. From(p) \in Proc /\ p \notin Children(p)
    BY <1>1, Ways
  <2>3. Passed(Way(From(p), p, f), Just(m, From(p), p, "XCAST", s), Way(From(p), p, f)', <<>>)
    BY <1>3, <2>1, <2>2
  <2> QED
    BY <2>1, <2>3 DEF Just, Passed, Takes
<1>5. ASSUME NEW r \in Proc, r # p
      PROVE  IF r \in Children(p) THEN Gains(Orders(r, s), Orders(r, s)', Copy(p, r, m))
                                  ELSE Orders(r, s)' = Orders(r, s)
  <2>1. PICK f : /\ f = Coll(From(r), r, "XCAST", s) /\ Orders(r, s) = Way(From(r), r, f)
                 /\ Orders(r, s)' = Way(From(r), r, f)'
    BY Named
  <2>2. From(r) \in Proc /\ Just(m, From(r), r, "XCAST", s) = <<>>
    BY <1>0, <1>5, Ways DEF Just, Bound
  <2>3. CASE r \in Children(p)
    <3>1. From(r) = p
      BY <1>1, <2>3 DEF From
    <3>2. Copy(p, r, m) \in DOMAIN f /\ f[Copy(p, r, m)] = Copy(p, r, m)
          /\ \A x \in DOMAIN f : x.tag = "XCAST" /\ x.dst = r
      BY <1>1, <2>1, <2>3, <3>1, CollIs DEF Bound
    <3>3. Spread(p, m, evs, f)
      BY <2>1, CollIs
    <3>4. Drawn(evs, OnSend(f)) = <<Copy(p, r, m)>>
      BY <2>3, <3>2, <3>3 DEF Spread
    <3>5. PICK gave : gave = <<Copy(p, r, m)>>
      OBVIOUS
    <3>6. gave \in Seq(CollMessages) /\ SpreadsOut(p, evs, From(r), f, gave)
      BY <1>1, <2>3, <3>1, <3>4, <3>5 DEF SpreadsOut, Bound
    <3>7. Passed(Way(From(r), r, f), Just(m, From(r), r, "XCAST", s), Way(From(r), r, f)', gave)
      BY <1>2, <2>1, <2>2, <3>6
    <3> QED
      BY <2>1, <2>2, <2>3, <3>5, <3>7 DEF Passed, Gains
  <2>4. CASE r \notin Children(p)
    <3>1. From(r) # p
      BY <1>5, <2>4, TreeFacts DEF From
    <3>2. Passed(Way(From(r), r, f), Just(m, From(r), r, "XCAST", s), Way(From(r), r, f)', <<>>)
      BY <1>3, <2>1, <2>2, <3>1
    <3> QED
      BY <2>1, <2>2, <2>4, <3>2 DEF Passed
  <2> QED
    BY <2>3, <2>4
<1>6. Gains(Releases(p, s), Releases(p, s)', Inner(p, m))
  <2>1. PICK f : /\ f = Coll(p, p, "RELEASE", s) /\ Releases(p, s) = Way(p, p, f)
                 /\ Releases(p, s)' = Way(p, p, f)'
    BY Named
  <2>2. Inner(p, m) \in DOMAIN f /\ f[Inner(p, m)] = Inner(p, m) /\ \A x \in DOMAIN f : x.tag # "XCAST"
    BY <1>1, <2>1, CollIs DEF Bound
  <2>3. Spread(p, m, evs, f)
    BY <2>1, CollIs
  <2>4. Drawn(evs, OnSend(f)) = <<Inner(p, m)>>
    BY <2>2, <2>3 DEF Spread
  <2>5. PICK gave : gave = <<Inner(p, m)>>
    OBVIOUS
  <2>6. gave \in Seq(CollMessages) /\ SpreadsOut(p, evs, p, f, gave)
    BY <1>1, <2>4, <2>5 DEF SpreadsOut, Bound
  <2>7. Passed(Way(p, p, f), Just(m, p, p, "RELEASE", s), Way(p, p, f)', gave)
    BY <1>2, <2>1, <2>6
  <2>8. Just(m, p, p, "RELEASE", s) = <<>>
    BY DEF Just, Bound
  <2> QED
    BY <2>1, <2>5, <2>7, <2>8 DEF Passed, Gains
<1>7. ASSUME NEW r \in Proc, r # p PROVE Releases(r, s)' = Releases(r, s)
  <2>1. PICK f : /\ f = Coll(r, r, "RELEASE", s) /\ Releases(r, s) = Way(r, r, f)
                 /\ Releases(r, s)' = Way(r, r, f)'
    BY Named
  <2>2. Just(m, r, r, "RELEASE", s) = <<>>
    BY DEF Just, Bound
  <2>3. Passed(Way(r, r, f), Just(m, r, r, "RELEASE", s), Way(r, r, f)', <<>>)
    BY <1>3, <1>7, <2>1
  <2> QED
    BY <2>1, <2>2, <2>3 DEF Passed
<1>8. ASSUME NEW r \in Proc, NEW x \in Sources(r) PROVE Reports(x, r, s)' = Reports(x, r, s)
  <2>1. PICK f : /\ f = Coll(x, r, "DIRECT", s) /\ Reports(x, r, s) = Way(x, r, f)
                 /\ Reports(x, r, s)' = Way(x, r, f)'
    BY Named
  <2>2. x \in Proc /\ Just(m, x, r, "DIRECT", s) = <<>>
    BY Ways DEF Just, Bound
  <2>3. Passed(Way(x, r, f), Just(m, x, r, "DIRECT", s), Way(x, r, f)', <<>>)
    BY <1>3, <2>1, <2>2
  <2> QED
    BY <2>1, <2>2, <2>3 DEF Passed
<1> QED
  BY <1>4, <1>5, <1>6, <1>7, <1>8
=============================================================================
