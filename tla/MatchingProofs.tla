--------------------------- MODULE MatchingProofs ---------------------------
(***************************************************************************)
(* For every set of SCONs, peers and receives, and however many messages   *)
(* come: a message that arrives is in one place, once; with one base none  *)
(* waits where a receive that fits it does, and the order in which a       *)
(* receive gets them is kept but for those that waited as it was posted.   *)
(***************************************************************************)
EXTENDS Matching, PickingProofs, SequenceTheorems, FiniteSetTheorems, TLAPS

-----------------------------------------------------------------------------
\* What is in the queues and the lists.
Message == [op : {"recv"}, h : Handles \cup {Unknown}, sender : Peers \cup {Self},
            tag : Tags, n : Nat \ {0}]
Post == [op : {"post"}, h : Handles, r : Receives, n : Nat]
Sending == [op : {"send"}, h : Handles, dst : Peers \cup {Self}, tag : Tags, n : Nat]
EventSet == Message \cup Post \cup Sending
Posted == [peer : {r.peer : r \in Receives}, tag : {r.tag : r \in Receives},
           persistent : BOOLEAN, n : Nat]

TypeInv ==
    /\ oneBase \in BOOLEAN /\ scons \subseteq Handles /\ crashed \in BOOLEAN
    /\ posted \in [Handles -> Seq(Posted)]
    /\ unmatched \in [Handles -> Seq(Message)]
    /\ events \in [Bases -> Seq(EventSet)]
    /\ searched \in [Bases -> Message \cup {NoMessage}]
    /\ got \in Seq(Seq(Message)) /\ postedAt \in Seq(Nat) /\ Len(postedAt) = Len(got)
    /\ sends \in Seq({"queued", "complete", "module", "failed", "fault"})
    /\ lost \subseteq Nat /\ arrived \in Nat

\* Messages wait with their SCON, those of a SCON that is gone nowhere. The second base has
\* only received messages, and where the two are one it has none.
PlaceInv ==
    /\ \A h \in Handles : /\ h \notin scons => posted[h] = <<>> /\ unmatched[h] = <<>>
                          /\ \A i \in DOMAIN unmatched[h] : unmatched[h][i].h = h
    /\ \A b \in Bases : searched[b] # NoMessage => searched[b].h \in Handles
    /\ \A i \in DOMAIN events["pt2pt"] : events["pt2pt"][i].op = "recv"
    /\ oneBase => events["pt2pt"] = <<>> /\ \A b \in Bases : searched[b] = NoMessage

\* The numbers of the events of a kind in a sequence, and that each is there once.
At(s, op) == {i \in DOMAIN s : s[i].op = op}
NumbersOf(s, op) == {s[i].n : i \in At(s, op)}
Once(s, op) == \A i, j \in At(s, op) : s[i].n = s[j].n => i = j

\* Of nothing there are no numbers.
LEMMA NumbersEmpty == \A op : NumbersOf(<<>>, op) = {} /\ Once(<<>>, op)
BY DEF NumbersOf, At, Once

\* The tail of a queue has the numbers but that of its head.
LEMMA NumbersTail ==
    ASSUME NEW op, NEW T, NEW s \in Seq(T), s # <<>>, Once(s, op)
    PROVE /\ Once(Tail(s), op)
          /\ NumbersOf(Tail(s), op) = NumbersOf(s, op) \ (IF Head(s).op = op THEN {Head(s).n} ELSE {})
          /\ Head(s).op = op => Head(s).n \in NumbersOf(s, op)
<1> DEFINE t == Tail(s)
<1>1. /\ t \in Seq(T) /\ Len(s) = Len(t) + 1 /\ Head(s) = s[1] /\ Len(t) \in Nat
      /\ \A i \in 1..Len(t) : t[i] = s[i + 1]
  OBVIOUS
<1>2. DOMAIN s = 1..(Len(t) + 1) /\ DOMAIN t = 1..Len(t)
  BY <1>1
<1> HIDE DEF t
<1>3. Once(t, op)
  <2> SUFFICES ASSUME NEW i \in At(t, op), NEW j \in At(t, op), t[i].n = t[j].n PROVE i = j
    BY DEF Once
  <2>1. i + 1 \in At(s, op) /\ j + 1 \in At(s, op) /\ s[i + 1].n = s[j + 1].n /\ i \in Nat /\ j \in Nat
    BY <1>1, <1>2 DEF At
  <2>2. i + 1 = j + 1
    BY <2>1 DEF Once
  <2> QED
    BY <2>1, <2>2
<1>4. ASSUME NEW n \in NumbersOf(t, op)
      PROVE n \in NumbersOf(s, op) /\ (Head(s).op = op => n # Head(s).n)
  <2>1. PICK i \in 1..Len(t) : t[i].op = op /\ n = t[i].n
    BY <1>2 DEF NumbersOf, At
  <2>2. i + 1 \in At(s, op) /\ s[i + 1].n = n
    BY <1>1, <1>2, <2>1 DEF At
  <2>3. Head(s).op = op => 1 \in At(s, op)
    BY <1>1, <1>2 DEF At
  <2> QED
    BY <1>1, <2>2, <2>3 DEF NumbersOf, Once
<1>5. ASSUME NEW n \in NumbersOf(s, op), Head(s).op = op => n # Head(s).n
      PROVE n \in NumbersOf(t, op)
  <2>1. PICK i \in At(s, op) : n = s[i].n
    BY DEF NumbersOf
  <2>2. i # 1 /\ i \in 1..(Len(t) + 1)
    BY <1>1, <1>2, <1>5, <2>1 DEF At
  <2>3. i - 1 \in At(t, op) /\ t[i - 1].n = n
    BY <1>1, <1>2, <2>1, <2>2 DEF At
  <2> QED
    BY <2>3 DEF NumbersOf
<1>6. Head(s).op = op => Head(s).n \in NumbersOf(s, op)
  BY <1>1, <1>2 DEF NumbersOf, At
<1> QED
  BY <1>3, <1>4, <1>5, <1>6 DEF t

\* Numbers of two queues, one behind the other.
LEMMA NumbersConcat ==
    ASSUME NEW op, NEW T, NEW s \in Seq(T), NEW u \in Seq(T), Once(s, op), Once(u, op),
           NumbersOf(s, op) \cap NumbersOf(u, op) = {}
    PROVE Once(s \o u, op) /\ NumbersOf(s \o u, op) = NumbersOf(s, op) \cup NumbersOf(u, op)
<1> DEFINE v == s \o u
<1>1. /\ Len(v) = Len(s) + Len(u) /\ Len(s) \in Nat /\ Len(u) \in Nat
      /\ DOMAIN v = 1..(Len(s) + Len(u)) /\ DOMAIN s = 1..Len(s) /\ DOMAIN u = 1..Len(u)
      /\ \A i \in 1..Len(s) : v[i] = s[i]
      /\ \A i \in 1..Len(u) : v[Len(s) + i] = u[i]
  <2>1. Len(s) \in Nat /\ Len(u) \in Nat /\ v \in Seq(T) /\ Len(v) = Len(s) + Len(u)
    OBVIOUS
  <2>2. \A i \in 1..Len(u) : v[Len(s) + i] = u[i]
    <3> TAKE i \in 1..Len(u)
    <3>1. Len(s) + i \in 1..(Len(s) + Len(u)) /\ ~(Len(s) + i <= Len(s)) /\ (Len(s) + i) - Len(s) = i
      BY <2>1
    <3> QED
      BY <2>1, <3>1
  <2> QED
    BY <2>1, <2>2
<1> HIDE DEF v
<1>2. \A i \in At(v, op) :
        \/ i \in At(s, op) /\ v[i] = s[i]
        \/ i - Len(s) \in At(u, op) /\ v[i] = u[i - Len(s)] /\ i \in Nat
  <2> TAKE i \in At(v, op)
  <2>0. i \in 1..(Len(s) + Len(u)) /\ v[i].op = op
    BY <1>1 DEF At
  <2>1. CASE i <= Len(s)
    <3>1. i \in 1..Len(s)
      BY <1>1, <2>0, <2>1
    <3>2. v[i] = s[i] /\ i \in DOMAIN s
      BY <1>1, <3>1
    <3> QED
      BY <2>0, <3>2 DEF At
  <2>2. CASE i > Len(s)
    <3>1. i - Len(s) \in 1..Len(u) /\ v[Len(s) + (i - Len(s))] = v[i]
      BY <1>1, <2>2 DEF At
    <3> QED
      BY <1>1, <3>1 DEF At
  <2> QED
    BY <1>1, <2>1, <2>2 DEF At
<1>3. \A i \in At(s, op) : i \in At(v, op) /\ v[i] = s[i]
  BY <1>1 DEF At
<1>4. \A i \in At(u, op) : Len(s) + i \in At(v, op) /\ v[Len(s) + i] = u[i]
  BY <1>1 DEF At
<1>5. NumbersOf(v, op) = NumbersOf(s, op) \cup NumbersOf(u, op)
  <2>1. \A i \in At(v, op) : v[i].n \in NumbersOf(s, op) \cup NumbersOf(u, op)
    BY <1>2 DEF NumbersOf
  <2>2. \A i \in At(s, op) : s[i].n \in NumbersOf(v, op)
    BY <1>3 DEF NumbersOf
  <2>3. \A i \in At(u, op) : u[i].n \in NumbersOf(v, op)
    BY <1>4 DEF NumbersOf
  <2> QED
    BY <2>1, <2>2, <2>3 DEF NumbersOf
<1>6. Once(v, op)
  <2> SUFFICES ASSUME NEW i \in At(v, op), NEW j \in At(v, op), v[i].n = v[j].n PROVE i = j
    BY DEF Once
  <2>1. CASE i \in At(s, op) /\ v[i] = s[i] /\ j \in At(s, op) /\ v[j] = s[j]
    BY <2>1 DEF Once
  <2>2. CASE /\ i - Len(s) \in At(u, op) /\ v[i] = u[i - Len(s)] /\ i \in Nat
             /\ j - Len(s) \in At(u, op) /\ v[j] = u[j - Len(s)] /\ j \in Nat
    <3>1. i - Len(s) = j - Len(s)
      BY <2>2 DEF Once
    <3> QED
      BY <1>1, <2>2, <3>1
  <2>3. CASE /\ i \in At(s, op) /\ v[i] = s[i]
             /\ j - Len(s) \in At(u, op) /\ v[j] = u[j - Len(s)]
    BY <2>3 DEF NumbersOf
  <2>4. CASE /\ j \in At(s, op) /\ v[j] = s[j]
             /\ i - Len(s) \in At(u, op) /\ v[i] = u[i - Len(s)]
    BY <2>4 DEF NumbersOf
  <2> QED
    BY <1>2, <2>1, <2>2, <2>3, <2>4
<1> QED
  BY <1>5, <1>6 DEF v

\* The number of one event.
LEMMA NumbersOne ==
    ASSUME NEW op, NEW e
    PROVE Once(<<e>>, op) /\ NumbersOf(<<e>>, op) = IF e.op = op THEN {e.n} ELSE {}
BY DEF Once, NumbersOf, At

-----------------------------------------------------------------------------
\* What the handler of the head of b leaves in the queues.
Rest(c, b) == IF c = b THEN Tail(events[c]) ELSE events[c]
More(c, to, new) == IF c = to THEN new ELSE <<>>
\* A queue after the head of b is handled: what is left, and what is new.
LEMMA Queued ==
    ASSUME TypeInv, NEW b \in Bases, NEW to \in Bases, NEW new \in Seq(EventSet),
           events[b] # <<>>, Done(b, to, new)
    PROVE /\ events' \in [Bases -> Seq(EventSet)]
          /\ \A c \in Bases : events'[c] = Rest(c, b) \o More(c, to, new)
<1> DEFINE popped == [events EXCEPT ![b] = Tail(@)]
<1>1. popped \in [Bases -> Seq(EventSet)]
  BY DEF TypeInv
<1>2. \A c \in Bases : popped[c] = Rest(c, b)
  BY DEF TypeInv, Rest
<1>3. events' = [popped EXCEPT ![to] = @ \o new]
  BY DEF Done
<1> HIDE DEF popped
<1>4. events' \in [Bases -> Seq(EventSet)]
  BY <1>1, <1>3
<1>5. ASSUME NEW c \in Bases
      PROVE events'[c] = popped[c] \o More(c, to, new)
  <2>1. popped[c] \in Seq(EventSet)
    BY <1>1
  <2>2. CASE c = to
    BY <1>1, <1>3, <2>2 DEF More
  <2>3. CASE c # to
    <3>1. events'[c] = popped[c]
      BY <1>1, <1>3, <2>3
    <3> QED
      BY <2>1, <2>3, <3>1 DEF More
  <2> QED
    BY <2>2, <2>3
<1> QED
  BY <1>2, <1>4, <1>5

\* And the numbers in it.
LEMMA QueuedNumbers ==
    ASSUME TypeInv, NEW b \in Bases, NEW to \in Bases, NEW new \in Seq(EventSet),
           events[b] # <<>>, Done(b, to, new),
           NEW op, \A c \in Bases : Once(events[c], op), Once(new, op),
           NumbersOf(new, op) \cap NumbersOf(events[to], op) = {}
    PROVE \A c \in Bases :
             /\ Once(events'[c], op)
             /\ NumbersOf(events'[c], op) =
                   (NumbersOf(events[c], op)
                      \ (IF c = b /\ Event(b).op = op THEN {Event(b).n} ELSE {}))
                   \cup (IF c = to THEN NumbersOf(new, op) ELSE {})
<1> TAKE c \in Bases
<1> DEFINE s == Rest(c, b)
           u == More(c, to, new)
<1>1. events'[c] = s \o u
  BY Queued
<1>2. events[c] \in Seq(EventSet) /\ s \in Seq(EventSet) /\ u \in Seq(EventSet)
  BY DEF TypeInv, Rest, More
<1>3. /\ Once(s, op)
      /\ NumbersOf(s, op) = NumbersOf(events[c], op)
                            \ (IF c = b /\ Event(b).op = op THEN {Event(b).n} ELSE {})
  <2>1. CASE c = b
    BY <1>2, <2>1, NumbersTail DEF Event, Rest
  <2>2. CASE c # b
    BY <2>2 DEF Rest
  <2> QED
    BY <2>1, <2>2
<1>4. Once(u, op) /\ NumbersOf(u, op) = IF c = to THEN NumbersOf(new, op) ELSE {}
  BY NumbersEmpty DEF More
<1>5. NumbersOf(s, op) \cap NumbersOf(u, op) = {}
  BY <1>3, <1>4
<1> HIDE DEF s, u
<1> QED
  BY <1>1, <1>2, <1>3, <1>4, <1>5, NumbersConcat

\* The places where a message may be, and the numbers of those that are there.
Place == ({"events", "search"} \X Bases) \cup ({"list"} \X Handles) \cup ({"got"} \X Nat)
         \cup {<<"lost", 0>>}
HeldIn(e, s, u, g, l) == [x \in Place |->
    IF x[1] = "events" THEN NumbersOf(e[x[2]], "recv")
    ELSE IF x[1] = "search" THEN {s[x[2]].n} \ {0}
    ELSE IF x[1] = "list" THEN NumbersOf(u[x[2]], "recv")
    ELSE IF x[1] = "got" THEN IF x[2] \in DOMAIN g THEN NumbersOf(g[x[2]], "recv") ELSE {}
    ELSE l]
HeldAt == HeldIn(events, searched, unmatched, got, lost)
Apart(c) == \A x, y \in Place : x # y => c[x] \cap c[y] = {}
All(c) == UNION {c[x] : x \in Place}

\* Messages that move from a place to another one stay apart from the rest.
LEMMA Moved ==
    ASSUME NEW c, NEW d, NEW p \in Place, NEW q \in Place, p # q, NEW X, X \subseteq c[p], Apart(c),
           d[p] = c[p] \ X, d[q] = c[q] \cup X, \A x \in Place \ {p, q} : d[x] = c[x]
    PROVE Apart(d) /\ All(d) = All(c)
<1>1. \A x \in Place : d[x] \subseteq c[x] \cup (IF x = q THEN X ELSE {})
  OBVIOUS
<1>2. Apart(d)
  <2> SUFFICES ASSUME NEW x \in Place, NEW y \in Place, x # y, NEW n \in d[x], n \in d[y] PROVE FALSE
    BY DEF Apart
  <2> QED
    BY <1>1 DEF Apart
<1>3. \A n \in All(c) : n \in All(d)
  <2> TAKE n \in All(c)
  <2>1. PICK x \in Place : n \in c[x]
    BY DEF All
  <2>2. n \in d[x] \/ n \in d[q]
    <3>1. CASE x = p
      BY <2>1, <3>1
    <3>2. CASE x = q
      BY <2>1, <3>2
    <3>3. CASE x \notin {p, q}
      BY <2>1, <3>3
    <3> QED
      BY <3>1, <3>2, <3>3
  <2> QED
    BY <2>2 DEF All
<1>4. \A n \in All(d) : n \in All(c)
  BY <1>1 DEF All
<1> QED
  BY <1>2, <1>3, <1>4

\* A message that is new may be put in any place.
LEMMA Added ==
    ASSUME NEW q \in Place, NEW n, n \notin All(HeldAt), Apart(HeldAt),
           HeldAt'[q] = HeldAt[q] \cup {n}, \A x \in Place \ {q} : HeldAt'[x] = HeldAt[x]
    PROVE Apart(HeldAt') /\ All(HeldAt') = All(HeldAt) \cup {n}
<1>1. Apart(HeldAt')
  <2> SUFFICES ASSUME NEW x \in Place, NEW y \in Place, x # y, NEW k \in HeldAt'[x], k \in HeldAt'[y] PROVE FALSE
    BY DEF Apart
  <2>1. \A z \in Place : n \notin HeldAt[z]
    BY DEF All
  <2> QED
    BY <2>1 DEF Apart
<1>2. All(HeldAt') = All(HeldAt) \cup {n}
  BY DEF All
<1> QED
  BY <1>1, <1>2

\* A sequence with an element changed.
LEMMA ExceptIs ==
    ASSUME NEW T, NEW s \in Seq(T), NEW i, NEW e, i \in DOMAIN s => e \in T,
           NEW d, d = [s EXCEPT ![i] = e]
    PROVE /\ d \in Seq(T) /\ Len(d) = Len(s) /\ DOMAIN d = DOMAIN s
          /\ \A k \in DOMAIN s : d[k] = IF k = i THEN e ELSE s[k]
<1>1. Len(s) \in Nat /\ s \in [1..Len(s) -> T] /\ DOMAIN s = 1..Len(s)
  OBVIOUS
<1>2. d \in [1..Len(s) -> T]
  BY <1>1
<1>3. d \in Seq(T) /\ Len(d) = Len(s)
  BY <1>1, <1>2
<1> QED
  BY <1>1, <1>3

\* A sequence without its i-th element.
LEMMA RemoveIs ==
    ASSUME NEW T, NEW s \in Seq(T), NEW i \in 1..Len(s)
    PROVE /\ RemoveAt(s, i) \in Seq(T) /\ Len(RemoveAt(s, i)) = Len(s) - 1
          /\ \A k \in 1..(Len(s) - 1) : RemoveAt(s, i)[k] = s[IF k < i THEN k ELSE k + 1]
<1> DEFINE f == SubSeq(s, 1, i - 1)
           g == SubSeq(s, i + 1, Len(s))
<1>1. /\ f \in Seq(T) /\ Len(f) = i - 1 /\ \A k \in 1..(i - 1) : f[k] = s[k]
      /\ g \in Seq(T) /\ Len(g) = Len(s) - i /\ \A k \in 1..(Len(s) - i) : g[k] = s[k + i]
      /\ Len(s) \in Nat
  <2>1. Len(s) \in Nat /\ i \in Nat /\ 1 <= i /\ i <= Len(s)
    OBVIOUS
  <2>2. f \in Seq(T) /\ Len(f) = i - 1 /\ \A k \in 1..(i - 1) : f[k] = s[k]
    BY <2>1
  <2>3. g \in Seq(T) /\ Len(g) = Len(s) - i
    BY <2>1
  <2>4. ASSUME NEW k \in 1..(Len(s) - i) PROVE g[k] = s[k + i]
    <3>1. g[k] = s[(i + 1) + k - 1] /\ (i + 1) + k - 1 = k + i
      BY <2>1
    <3> QED
      BY <3>1
  <2> QED
    BY <2>1, <2>2, <2>3, <2>4
<1>2. RemoveAt(s, i) = f \o g
  BY DEF RemoveAt
<1> HIDE DEF f, g
<1>3. f \o g \in Seq(T) /\ Len(f \o g) = Len(s) - 1
  <2>1. f \o g \in Seq(T) /\ Len(f \o g) = Len(f) + Len(g)
    <3>1. f \in Seq(T) /\ g \in Seq(T)
      BY <1>1
    <3> QED
      BY <3>1
  <2> QED
    BY <1>1, <2>1
<1>4. ASSUME NEW k \in 1..(Len(s) - 1) PROVE (f \o g)[k] = s[IF k < i THEN k ELSE k + 1]
  <2>1. CASE k < i
    <3>1. k \in 1..(i - 1)
      BY <2>1
    <3> QED
      BY <1>1, <2>1, <3>1
  <2>2. CASE ~(k < i)
    <3>1. k - (i - 1) \in 1..(Len(s) - i) /\ k - (i - 1) + i = k + 1 /\ k \in 1..(Len(f) + Len(g))
          /\ ~(k <= Len(f)) /\ k - Len(f) = k - (i - 1)
      BY <1>1, <2>2
    <3>2. (f \o g)[k] = g[k - Len(f)]
      BY <1>1, <3>1
    <3> QED
      BY <1>1, <2>2, <3>1, <3>2
  <2> QED
    BY <2>1, <2>2
<1> QED
  BY <1>2, <1>3, <1>4

-----------------------------------------------------------------------------
\* Types and places are kept.
HeadIs == \A b \in Bases : \A op : Runs(b, op) =>
    /\ ~crashed /\ searched[b] = NoMessage
    /\ events[b] # <<>> /\ Event(b).op = op /\ Event(b) = events[b][1] /\ 1 \in DOMAIN events[b]
    /\ op = "recv" => Event(b) \in Message
    /\ op = "post" => Event(b) \in Post
    /\ op = "send" => Event(b) \in Sending

\* What a handler may take the head of its queue for.
LEMMA HeadFacts == TypeInv => HeadIs
<1> SUFFICES ASSUME TypeInv, NEW b \in Bases, NEW op, Runs(b, op)
             PROVE /\ ~crashed /\ searched[b] = NoMessage
                   /\ events[b] # <<>> /\ Event(b).op = op
                   /\ Event(b) = events[b][1] /\ 1 \in DOMAIN events[b]
                   /\ op = "recv" => Event(b) \in Message
                   /\ op = "post" => Event(b) \in Post
                   /\ op = "send" => Event(b) \in Sending
  BY DEF HeadIs
<1>1. events[b] \in Seq(EventSet) /\ events[b] # <<>> /\ Event(b).op = op
      /\ ~crashed /\ searched[b] = NoMessage
  BY DEF TypeInv, Runs, Event
<1>2. Event(b) \in EventSet /\ Event(b) = events[b][1] /\ 1 \in DOMAIN events[b]
  BY <1>1 DEF Event
<1> QED
  BY <1>1, <1>2 DEF EventSet, Message, Post, Sending

\* A queue after an event is activated.
LEMMA Enqueued ==
    ASSUME TypeInv, NEW b \in Bases, NEW e \in EventSet, events' = [events EXCEPT ![b] = Append(@, e)]
    PROVE /\ events' \in [Bases -> Seq(EventSet)]
          /\ \A c \in Bases : events'[c] = events[c] \o More(c, b, <<e>>)
<1>1. events \in [Bases -> Seq(EventSet)]
  BY DEF TypeInv
<1>2. ASSUME NEW c \in Bases PROVE events'[c] = events[c] \o More(c, b, <<e>>) /\ events'[c] \in Seq(EventSet)
  <2>1. CASE c = b
    <3>1. events'[c] = Append(events[c], e) /\ events[c] \in Seq(EventSet)
      BY <1>1, <2>1
    <3> QED
      BY <2>1, <3>1 DEF More
  <2>2. CASE c # b
    <3>1. events'[c] = events[c] /\ events[c] \in Seq(EventSet)
      BY <1>1, <2>2
    <3> QED
      BY <2>2, <3>1 DEF More
  <2> QED
    BY <2>1, <2>2
<1>3. events' \in [Bases -> Seq(EventSet)]
  BY <1>1, <1>2
<1> QED
  BY <1>2, <1>3

\* At first the queues and the lists are empty.
LEMMA TypeInit == MatchInit => TypeInv /\ PlaceInv
<1> SUFFICES ASSUME MatchInit PROVE TypeInv /\ PlaceInv
  OBVIOUS
<1>1. \A T : <<>> \in Seq(T) /\ DOMAIN <<>> = {} /\ Len(<<>>) = 0
  OBVIOUS
<1>2. TypeInv
  BY <1>1, MatchAssumption DEF MatchInit, TypeInv
<1>3. PlaceInv
  BY <1>1, MatchAssumption DEF MatchInit, PlaceInv, Bases
<1> QED
  BY <1>2, <1>3

\* As many messages may come as connections and sends make.
LEMMA CardinalityMessages == Cardinality(Messages) = MaxMessages + MaxSends /\ Cardinality(Messages) \in Nat
<1>1. MaxMessages + MaxSends \in Nat
  BY MatchAssumption
<1>2. Cardinality(1..(MaxMessages + MaxSends)) = MaxMessages + MaxSends
  BY <1>1, FS_Interval
<1> QED
  BY <1>1, <1>2 DEF Messages

\* What is in the queues and lists is what each step puts there.
LEMMA TypeStep == TypeInv /\ PlaceInv /\ [MatchNext]_matchVars => TypeInv'
<1> SUFFICES ASSUME TypeInv, PlaceInv, [MatchNext]_matchVars PROVE TypeInv'
  OBVIOUS
<1> USE MatchAssumption
<1>0. HeadIs
  BY HeadFacts
<1>1. ASSUME NEW h \in Handles, NEW r \in Receives, pt2pt_base_api_recv_nb(h, r) PROVE TypeInv'
  <2> DEFINE e == [op |-> "post", h |-> h, r |-> r, n |-> Len(got) + 1]
  <2>1. e \in EventSet
    <3>1. Len(got) + 1 \in Nat
      BY DEF TypeInv
    <3> QED
      BY <3>1 DEF EventSet, Post
  <2>0. Cardinality(Messages) \in Nat
    BY CardinalityMessages
  <2>2. events' \in [Bases -> Seq(EventSet)]
    <3>1. events' = [events EXCEPT !["globals"] = Append(@, e)]
      BY <1>1 DEF pt2pt_base_api_recv_nb
    <3> QED
      BY <2>1, <3>1, Enqueued DEF Bases
  <2>3. got' \in Seq(Seq(Message)) /\ Len(got') = Len(got) + 1
    BY <1>1 DEF pt2pt_base_api_recv_nb, TypeInv
  <2>4. postedAt' \in Seq(Nat) /\ Len(postedAt') = Len(postedAt) + 1
    BY <1>1, <2>0 DEF pt2pt_base_api_recv_nb, TypeInv
  <2> QED
    BY <1>1, <2>2, <2>3, <2>4 DEF pt2pt_base_api_recv_nb, TypeInv
<1>2. ASSUME NEW h \in Handles, NEW d \in Peers \cup {Self}, NEW t \in Tags, pt2pt_base_api_send_nb(h, d, t)
      PROVE TypeInv'
  <2> DEFINE e == [op |-> "send", h |-> h, dst |-> d, tag |-> t, n |-> Len(sends) + 1]
  <2>1. e \in EventSet
    <3>1. Len(sends) + 1 \in Nat
      BY DEF TypeInv
    <3> QED
      BY <3>1 DEF EventSet, Sending
  <2>2. events' \in [Bases -> Seq(EventSet)]
    <3>1. events' = [events EXCEPT !["globals"] = Append(@, e)]
      BY <1>2 DEF pt2pt_base_api_send_nb
    <3> QED
      BY <2>1, <3>1, Enqueued DEF Bases
  <2> QED
    BY <1>2, <2>2 DEF pt2pt_base_api_send_nb, TypeInv
<1>3. ASSUME NEW h \in Handles \cup {Unknown}, NEW s \in Peers, NEW t \in Tags, PT2PT_POST_MESSAGE(h, s, t)
      PROVE TypeInv'
  <2>1. Recv(h, s, t) \in EventSet
    <3>1. arrived + 1 \in Nat \ {0}
      BY DEF TypeInv
    <3> QED
      BY <3>1 DEF EventSet, Message, Recv
  <2>2. events' \in [Bases -> Seq(EventSet)]
    <3>1. events' = [events EXCEPT ![pt2ptBase] = Append(@, Recv(h, s, t))]
      BY <1>3 DEF PT2PT_POST_MESSAGE
    <3> QED
      BY <2>1, <3>1, Enqueued DEF Bases, pt2ptBase
  <2> QED
    BY <1>3, <2>2 DEF PT2PT_POST_MESSAGE, TypeInv
<1>4. ASSUME NEW h \in Handles, Delete(h) PROVE TypeInv'
  <2>1. {unmatched[h][i].n : i \in DOMAIN unmatched[h]} \subseteq Nat
    <3>1. unmatched[h] \in Seq(Message)
      BY DEF TypeInv
    <3>2. \A i \in DOMAIN unmatched[h] : unmatched[h][i] \in Message
      BY <3>1
    <3> QED
      BY <3>2 DEF Message
  <2>2. posted' \in [Handles -> Seq(Posted)] /\ unmatched' \in [Handles -> Seq(Message)]
    BY <1>4 DEF Delete, Freed, TypeInv
  <2> QED
    BY <1>4, <2>1, <2>2 DEF Delete, TypeInv
<1>5. ASSUME NEW b \in Bases, PostRecv(b) PROVE TypeInv'
  <2> DEFINE h == Event(b).h
             r == Event(b).r
             p == [peer |-> r.peer, tag |-> r.tag, persistent |-> r.persistent, n |-> Event(b).n]
             woken == match_posted_recv(r, h)
  <2>1. Event(b) \in Post /\ events[b] # <<>>
    BY <1>0, <1>5 DEF PostRecv, HeadIs
  <2>2. p \in Posted /\ h \in Handles /\ Event(b).n \in Nat
    BY <2>1, MatchAssumption DEF Post, Posted
  <2>3. /\ posted' = [posted EXCEPT ![h] = Append(@, p)]
        /\ unmatched' = [unmatched EXCEPT ![h] = Held(h, woken)]
        /\ Done(b, "globals", Picked(unmatched[h], woken))
        /\ postedAt' = [postedAt EXCEPT ![Event(b).n] = arrived]
        /\ UNCHANGED <<oneBase, scons, searched, got, lost, sends, arrived, crashed>>
    BY <1>5 DEF PostRecv
  <2> HIDE DEF p, woken, h, r
  <2>4. unmatched[h] \in Seq(Message)
    BY <2>2 DEF TypeInv
  <2>5. Held(h, woken) \in Seq(Message) /\ Picked(unmatched[h], woken) \in Seq(Message)
    BY <2>4, PickedPlaces DEF Held
  <2>6. Picked(unmatched[h], woken) \in Seq(EventSet)
    BY <2>5 DEF EventSet
  <2>7. events' \in [Bases -> Seq(EventSet)]
    BY <2>1, <2>3, <2>6, Queued DEF Bases
  <2>8. postedAt' \in Seq(Nat) /\ Len(postedAt') = Len(postedAt)
    <3>1. postedAt \in Seq(Nat) /\ arrived \in Nat /\ postedAt' = [postedAt EXCEPT ![Event(b).n] = arrived]
      BY <2>3 DEF TypeInv
    <3>2. postedAt' \in Seq(Nat)
      BY <3>1, ExceptIs
    <3>3. Len(postedAt') = Len(postedAt)
      BY <3>1, ExceptIs
    <3> QED
      BY <3>2, <3>3
  <2>9. posted' \in [Handles -> Seq(Posted)] /\ unmatched' \in [Handles -> Seq(Message)]
    BY <2>2, <2>3, <2>5 DEF TypeInv
  <2> QED
    BY <2>3, <2>7, <2>8, <2>9 DEF TypeInv
<1>6. ASSUME NEW b \in Bases, Dangling(b) PROVE TypeInv'
  BY <1>6 DEF Dangling, TypeInv
<1>e. <<>> \in Seq(EventSet)
  OBVIOUS
<1>7. ASSUME NEW b \in Bases, SelfSend(b) PROVE TypeInv'
  <2> DEFINE e == Recv(Event(b).h, Self, Event(b).tag)
  <2>1. Event(b) \in Sending /\ events[b] # <<>>
    BY <1>0, <1>7 DEF SelfSend, HeadIs
  <2>2. e \in EventSet
    <3>1. arrived + 1 \in Nat \ {0}
      BY DEF TypeInv
    <3> QED
      BY <2>1, <3>1 DEF EventSet, Message, Sending, Recv
  <2>3. <<e>> \in Seq(EventSet) /\ pt2ptBase \in Bases
    BY <2>2 DEF Bases, pt2ptBase
  <2>4. events' \in [Bases -> Seq(EventSet)]
    BY <1>7, <2>1, <2>3, Queued DEF SelfSend
  <2>5. sends' \in Seq({"queued", "complete", "module", "failed", "fault"})
    <3>1. sends' = [sends EXCEPT ![Event(b).n] = "complete"]
      BY <1>7 DEF SelfSend
    <3> QED
      BY <3>1, ExceptIs DEF TypeInv
  <2> QED
    BY <1>7, <2>4, <2>5 DEF SelfSend, TypeInv
<1>8. ASSUME NEW b \in Bases, ProcessSend(b) PROVE TypeInv'
  <2>1. PICK way \in UNION {Reached(known) : known \in {"module", "other", "nothing"}} :
           /\ sends' = [sends EXCEPT ![Event(b).n] = way]
           /\ crashed' = (way = "fault")
    BY <1>8 DEF ProcessSend
  <2>2. way \in {"module", "failed", "fault"}
    BY DEF Reached
  <2>3. events' \in [Bases -> Seq(EventSet)]
    <3>1. Done(b, b, <<>>) /\ events[b] # <<>>
      BY <1>0, <1>8 DEF ProcessSend, HeadIs
    <3> QED
      BY <3>1, <1>e, Queued
  <2>4. sends' \in Seq({"queued", "complete", "module", "failed", "fault"})
    BY <2>1, <2>2, ExceptIs DEF TypeInv
  <2>5. crashed' \in BOOLEAN
    BY <2>1
  <2> QED
    BY <1>8, <2>3, <2>4, <2>5 DEF ProcessSend, TypeInv
<1>9. ASSUME NEW b \in Bases, Drop(b) PROVE TypeInv'
  <2>1. Event(b) \in Message /\ events[b] # <<>>
    BY <1>0, <1>9 DEF Drop, HeadIs
  <2>2. events' \in [Bases -> Seq(EventSet)]
    BY <1>9, <2>1, <1>e, Queued DEF Drop
  <2> QED
    BY <1>9, <2>1, <2>2 DEF Drop, TypeInv, Message
<1>10. ASSUME NEW b \in Bases, HandOver(b) PROVE TypeInv'
  <2> DEFINE m == Event(b)
             i == CHOOSE k \in Waiting(m) : \A j \in Waiting(m) : j >= k
  <2>1. m \in Message /\ events[b] # <<>> /\ m.h \in scons
    BY <1>0, <1>10 DEF HandOver, HeadIs
  <2>2. /\ got' = [got EXCEPT ![posted[m.h][i].n] = Append(@, m)]
        /\ posted' = [posted EXCEPT ![m.h] = Remaining(@, i)]
        /\ Done(b, b, <<>>)
        /\ UNCHANGED <<oneBase, scons, unmatched, searched, postedAt, lost, sends, arrived, crashed>>
    BY <1>10 DEF HandOver
  <2>3. events' \in [Bases -> Seq(EventSet)]
    BY <2>1, <2>2, <1>e, Queued
  <2>4. m.h \in Handles /\ posted[m.h] \in Seq(Posted)
    BY <2>1 DEF TypeInv
  <2>5. i \in 1..Len(posted[m.h])
    <3> DEFINE W == Waiting(m)
    <3>1. W \in SUBSET Nat /\ W # {} /\ W \subseteq 1..Len(posted[m.h])
      <4>1. W \subseteq 1..Len(posted[m.h]) /\ Len(posted[m.h]) \in Nat
        BY <2>4 DEF Waiting
      <4>2. W # {}
        BY <1>10 DEF HandOver
      <4> QED
        BY <4>1, <4>2
    <3> HIDE DEF W
    <3>2. \E k \in W : \A j \in W : j >= k
      BY <3>1, Least
    <3>3. i \in W
      BY <3>2 DEF W
    <3> QED
      BY <3>1, <3>3
  <2> HIDE DEF i, m
  <2>6. Remaining(posted[m.h], i) \in Seq(Posted)
    <3>1. RemoveAt(posted[m.h], i) \in Seq(Posted)
      BY <2>4, <2>5, RemoveIs
    <3> QED
      BY <2>4, <3>1 DEF Remaining
  <2>7. got' \in Seq(Seq(Message)) /\ Len(got') = Len(got)
    <3> DEFINE n == posted[m.h][i].n
    <3>1. got' = [got EXCEPT ![n] = Append(got[n], m)] /\ got \in Seq(Seq(Message))
      BY <2>2 DEF TypeInv
    <3>2. n \in DOMAIN got => Append(got[n], m) \in Seq(Message)
      BY <2>1, <3>1
    <3> HIDE DEF n
    <3>3. got' \in Seq(Seq(Message))
      BY <3>1, <3>2, ExceptIs
    <3>4. Len(got') = Len(got)
      BY <3>1, <3>2, ExceptIs
    <3> QED
      BY <3>3, <3>4
  <2>8. posted' \in [Handles -> Seq(Posted)]
    BY <2>2, <2>4, <2>6 DEF TypeInv
  <2> QED
    BY <2>2, <2>3, <2>7, <2>8 DEF TypeInv
<1>11. ASSUME NEW b \in Bases, Search(b) PROVE TypeInv'
  <2>1. Event(b) \in Message /\ events[b] # <<>>
    BY <1>0, <1>11 DEF Search, HeadIs
  <2>2. events' \in [Bases -> Seq(EventSet)]
    BY <1>11, <2>1, <1>e, Queued DEF Search
  <2>4. Event(b).h \in Handles
    BY <1>11 DEF Search, TypeInv
  <2>3. unmatched' \in [Handles -> Seq(Message)] /\ searched' \in [Bases -> Message \cup {NoMessage}]
    <3>1. CASE oneBase
      <4>1. unmatched' = [unmatched EXCEPT ![Event(b).h] = Append(@, Event(b))] /\ searched' = searched
        BY <1>11, <3>1 DEF Search
      <4> QED
        BY <2>1, <2>4, <4>1 DEF TypeInv
    <3>2. CASE ~oneBase
      <4>1. searched' = [searched EXCEPT ![b] = Event(b)] /\ unmatched' = unmatched
        BY <1>11, <3>2 DEF Search
      <4> QED
        BY <2>1, <4>1 DEF TypeInv
    <3> QED
      BY <3>1, <3>2
  <2> QED
    BY <1>11, <2>2, <2>3 DEF Search, TypeInv
<1>12. ASSUME NEW b \in Bases, Hold(b) PROVE TypeInv'
  <2>1. searched[b] \in Message
    BY <1>12 DEF Hold, TypeInv
  <2>2. searched' \in [Bases -> Message \cup {NoMessage}]
    BY <1>12 DEF Hold, TypeInv
  <2>3. CASE searched[b].h \in scons
    <3>1. unmatched' = [unmatched EXCEPT ![searched[b].h] = Append(@, searched[b])] /\ crashed' = crashed
      BY <1>12, <2>3 DEF Hold
    <3>2. searched[b].h \in Handles
      BY <2>3 DEF TypeInv
    <3>3. unmatched' \in [Handles -> Seq(Message)]
      BY <2>1, <3>1, <3>2 DEF TypeInv
    <3> QED
      BY <1>12, <2>2, <3>1, <3>3 DEF Hold, TypeInv
  <2>4. CASE searched[b].h \notin scons
    BY <1>12, <2>2, <2>4 DEF Hold, TypeInv
  <2> QED
    BY <2>3, <2>4
<1>13. CASE UNCHANGED matchVars
  BY <1>13 DEF matchVars, TypeInv
<1> QED
  BY <1>1, <1>2, <1>3, <1>4, <1>5, <1>6, <1>7, <1>8, <1>9, <1>10, <1>11, <1>12, <1>13 DEF MatchNext, Handle

\* Every place is kept.
OnlyRecv(s) == \A i \in DOMAIN s : s[i].op = "recv"
QueueInv == /\ OnlyRecv(events["pt2pt"])
            /\ oneBase => events["pt2pt"] = <<>>

\* The second base has received messages only after a handler has run,
LEMMA QueueDone ==
    ASSUME TypeInv, QueueInv, NEW b \in Bases, NEW to \in Bases, NEW new \in Seq(EventSet),
           events[b] # <<>>, Done(b, to, new), oneBase' = oneBase,
           to = "pt2pt" => OnlyRecv(new) /\ (oneBase => new = <<>>)
    PROVE QueueInv'
<1> DEFINE s == events["pt2pt"]
           t == Rest("pt2pt", b)
           u == More("pt2pt", to, new)
<1>1. events'["pt2pt"] = t \o u
  BY Queued DEF Bases
<1>2. s \in Seq(EventSet)
  BY DEF TypeInv, Bases
<1>3. t \in Seq(EventSet) /\ OnlyRecv(t)
  <2>1. CASE b = "pt2pt"
    <3>1. t = Tail(s) /\ s # <<>>
      BY <2>1 DEF Rest
    <3>2. Tail(s) \in Seq(EventSet) /\ \A i \in DOMAIN Tail(s) : i + 1 \in DOMAIN s /\ Tail(s)[i] = s[i + 1]
      BY <1>2, <3>1
    <3> QED
      BY <3>1, <3>2 DEF OnlyRecv, QueueInv
  <2>2. CASE b # "pt2pt"
    BY <1>2, <2>2 DEF Rest, QueueInv
  <2> QED
    BY <2>1, <2>2
<1>4. u \in Seq(EventSet) /\ OnlyRecv(u)
  BY DEF More, OnlyRecv
<1> HIDE DEF t, u, s
<1>5. OnlyRecv(t \o u)
  <2> SUFFICES ASSUME NEW i \in DOMAIN (t \o u) PROVE (t \o u)[i].op = "recv"
    BY DEF OnlyRecv
  <2>0. Len(t) \in Nat /\ Len(u) \in Nat /\ i \in 1..(Len(t) + Len(u))
        /\ DOMAIN t = 1..Len(t) /\ DOMAIN u = 1..Len(u)
    BY <1>3, <1>4
  <2>1. CASE i <= Len(t)
    <3>1. (t \o u)[i] = t[i] /\ i \in DOMAIN t
      BY <1>3, <1>4, <2>0, <2>1
    <3> QED
      BY <1>3, <3>1 DEF OnlyRecv
  <2>2. CASE ~(i <= Len(t))
    <3>1. (t \o u)[i] = u[i - Len(t)] /\ i - Len(t) \in DOMAIN u
      BY <1>3, <1>4, <2>0, <2>2
    <3> QED
      BY <1>4, <3>1 DEF OnlyRecv
  <2> QED
    BY <2>1, <2>2
<1>6. oneBase => t \o u = <<>>
  <2> SUFFICES ASSUME oneBase PROVE t \o u = <<>>
    OBVIOUS
  <2>1. b # "pt2pt"
    BY DEF QueueInv
  <2>2. t = <<>> /\ u = <<>>
    BY <2>1 DEF QueueInv, Rest, More, t, u
  <2> QED
    BY <2>2
<1> QED
  BY <1>1, <1>5, <1>6 DEF QueueInv

\* and after an event is activated.
LEMMA QueueNew ==
    ASSUME TypeInv, QueueInv, NEW b \in Bases, NEW e \in EventSet,
           events' = [events EXCEPT ![b] = Append(@, e)], oneBase' = oneBase,
           b = "pt2pt" => e.op = "recv" /\ ~oneBase
    PROVE QueueInv'
<1>1. events \in [Bases -> Seq(EventSet)] /\ "pt2pt" \in Bases
  BY DEF TypeInv, Bases
<1>2. CASE b = "pt2pt"
  <2>1. events'["pt2pt"] = Append(events["pt2pt"], e) /\ events["pt2pt"] \in Seq(EventSet)
    BY <1>1, <1>2
  <2>2. \A i \in DOMAIN events'["pt2pt"] : events'["pt2pt"][i] = e \/
           (i \in DOMAIN events["pt2pt"] /\ events'["pt2pt"][i] = events["pt2pt"][i])
    BY <2>1
  <2> QED
    BY <1>2, <2>2 DEF QueueInv, OnlyRecv
<1>3. CASE b # "pt2pt"
  BY <1>1, <1>3 DEF QueueInv
<1> QED
  BY <1>2, <1>3

ListInv ==
    /\ \A h \in Handles : /\ h \notin scons => posted[h] = <<>> /\ unmatched[h] = <<>>
                          /\ \A i \in DOMAIN unmatched[h] : unmatched[h][i].h = h
    /\ \A b \in Bases : searched[b] # NoMessage => searched[b].h \in Handles
    /\ oneBase => \A b \in Bases : searched[b] = NoMessage

\* The two halves of PlaceInv, proved apart.
LEMMA PlaceIs == PlaceInv <=> ListInv /\ QueueInv
BY DEF PlaceInv, ListInv, QueueInv, OnlyRecv, Bases

\* The half of the queues.
LEMMA QueueStep == TypeInv /\ QueueInv /\ [MatchNext]_matchVars => QueueInv'
<1> SUFFICES ASSUME TypeInv, QueueInv, [MatchNext]_matchVars PROVE QueueInv'
  OBVIOUS
<1>0. HeadIs
  BY HeadFacts
<1>e. <<>> \in Seq(EventSet) /\ OnlyRecv(<<>>)
  BY DEF OnlyRecv
<1>p. pt2ptBase \in Bases /\ (pt2ptBase = "pt2pt" => ~oneBase) /\ "globals" \in Bases
  BY DEF Bases, pt2ptBase
<1>1. ASSUME NEW h \in Handles, NEW r \in Receives, pt2pt_base_api_recv_nb(h, r) PROVE QueueInv'
  <2> DEFINE e == [op |-> "post", h |-> h, r |-> r, n |-> Len(got) + 1]
  <2>1. Len(got) + 1 \in Nat
    BY DEF TypeInv
  <2>2. e \in EventSet
    BY <2>1 DEF EventSet, Post
  <2>3. events' = [events EXCEPT !["globals"] = Append(@, e)] /\ oneBase' = oneBase
    BY <1>1 DEF pt2pt_base_api_recv_nb
  <2> QED
    BY <1>p, <2>2, <2>3, QueueNew
<1>2. ASSUME NEW h \in Handles, NEW d \in Peers \cup {Self}, NEW t \in Tags, pt2pt_base_api_send_nb(h, d, t)
      PROVE QueueInv'
  <2> DEFINE e == [op |-> "send", h |-> h, dst |-> d, tag |-> t, n |-> Len(sends) + 1]
  <2>1. Len(sends) + 1 \in Nat
    BY DEF TypeInv
  <2>2. e \in EventSet
    BY <2>1 DEF EventSet, Sending
  <2>3. events' = [events EXCEPT !["globals"] = Append(@, e)] /\ oneBase' = oneBase
    BY <1>2 DEF pt2pt_base_api_send_nb
  <2> QED
    BY <1>p, <2>2, <2>3, QueueNew
<1>3. ASSUME NEW h \in Handles \cup {Unknown}, NEW s \in Peers, NEW t \in Tags, PT2PT_POST_MESSAGE(h, s, t)
      PROVE QueueInv'
  <2>1. arrived + 1 \in Nat \ {0}
    BY DEF TypeInv
  <2>2. Recv(h, s, t) \in EventSet /\ Recv(h, s, t).op = "recv"
    BY <2>1 DEF EventSet, Message, Recv
  <2>3. events' = [events EXCEPT ![pt2ptBase] = Append(@, Recv(h, s, t))] /\ oneBase' = oneBase
    BY <1>3 DEF PT2PT_POST_MESSAGE
  <2> QED
    BY <1>p, <2>2, <2>3, QueueNew
<1>4. ASSUME NEW h \in Handles, Delete(h) PROVE QueueInv'
  BY <1>4 DEF Delete, QueueInv
<1>5. ASSUME NEW b \in Bases, PostRecv(b) PROVE QueueInv'
  <2> DEFINE h == Event(b).h
             r == Event(b).r
             woken == match_posted_recv(r, h)
  <2>1. Event(b) \in Post /\ events[b] # <<>>
    BY <1>0, <1>5 DEF PostRecv, HeadIs
  <2>2. Done(b, "globals", Picked(unmatched[h], woken)) /\ oneBase' = oneBase
    BY <1>5 DEF PostRecv
  <2> HIDE DEF woken
  <2>3. unmatched[h] \in Seq(Message)
    BY <2>1 DEF Post, TypeInv
  <2>4. Picked(unmatched[h], woken) \in Seq(Message)
    BY <2>3, PickedPlaces
  <2>5. Picked(unmatched[h], woken) \in Seq(EventSet)
    BY <2>4 DEF EventSet
  <2> QED
    BY <1>p, <2>1, <2>2, <2>5, QueueDone
<1>6. ASSUME NEW b \in Bases, Dangling(b) PROVE QueueInv'
  BY <1>6 DEF Dangling, QueueInv
<1>7. ASSUME NEW b \in Bases, SelfSend(b) PROVE QueueInv'
  <2> DEFINE e == Recv(Event(b).h, Self, Event(b).tag)
  <2>1. Event(b) \in Sending /\ events[b] # <<>>
    BY <1>0, <1>7 DEF SelfSend, HeadIs
  <2>2. arrived + 1 \in Nat \ {0}
    BY DEF TypeInv
  <2>3. e \in EventSet /\ e.op = "recv"
    BY <2>1, <2>2 DEF EventSet, Message, Sending, Recv
  <2>4. <<e>> \in Seq(EventSet) /\ OnlyRecv(<<e>>)
    BY <2>3 DEF OnlyRecv
  <2>5. Done(b, pt2ptBase, <<e>>) /\ oneBase' = oneBase
    BY <1>7 DEF SelfSend
  <2> HIDE DEF e
  <2> QED
    BY <1>p, <2>1, <2>4, <2>5, QueueDone
<1>8. ASSUME NEW b \in Bases, Done(b, b, <<>>), events[b] # <<>>, oneBase' = oneBase PROVE QueueInv'
  BY ZenonT(60), <1>e, <1>8, QueueDone
<1>9. ASSUME NEW b \in Bases, ProcessSend(b) \/ Drop(b) \/ HandOver(b) \/ Search(b) PROVE QueueInv'
  <2>1. Done(b, b, <<>>) /\ oneBase' = oneBase
    BY <1>9 DEF ProcessSend, Drop, HandOver, Search
  <2>2. events[b] # <<>>
    BY <1>0, <1>9 DEF ProcessSend, Drop, HandOver, Search, HeadIs
  <2> QED
    BY <1>8, <2>1, <2>2
<1>12. ASSUME NEW b \in Bases, Hold(b) PROVE QueueInv'
  BY <1>12 DEF Hold, QueueInv
<1>13. CASE UNCHANGED matchVars
  BY <1>13 DEF matchVars, QueueInv
<1> QED
  BY <1>1, <1>2, <1>3, <1>4, <1>5, <1>6, <1>7, <1>9, <1>12, <1>13 DEF MatchNext, Handle

\* The half of the lists.
LEMMA ListStep == TypeInv /\ PlaceInv /\ [MatchNext]_matchVars => ListInv'
<1> SUFFICES ASSUME TypeInv, ListInv, QueueInv, [MatchNext]_matchVars PROVE ListInv'
  BY PlaceIs
<1>0. HeadIs
  BY HeadFacts
<1>u. unmatched \in [Handles -> Seq(Message)] /\ posted \in [Handles -> Seq(Posted)] /\ scons \subseteq Handles
      /\ searched \in [Bases -> Message \cup {NoMessage}]
  BY DEF TypeInv
<1>1. CASE UNCHANGED <<oneBase, scons, posted, unmatched, searched>>
  BY <1>1 DEF ListInv
<1>4. ASSUME NEW h \in Handles, Delete(h) PROVE ListInv'
  BY <1>4, <1>u DEF Delete, ListInv, Freed
<1>5. ASSUME NEW b \in Bases, PostRecv(b) PROVE ListInv'
  <2> DEFINE h == Event(b).h
             r == Event(b).r
             P == [peer |-> r.peer, tag |-> r.tag, persistent |-> r.persistent, n |-> Event(b).n]
             woken == match_posted_recv(r, h)
  <2>1. h \in scons /\ h \in Handles
    BY <1>5, <1>u DEF PostRecv
  <2>2. /\ posted' = [posted EXCEPT ![h] = Append(@, P)]
        /\ unmatched' = [unmatched EXCEPT ![h] = Held(h, woken)]
        /\ UNCHANGED <<oneBase, scons, searched>>
    BY <1>5 DEF PostRecv
  <2> HIDE DEF h, r, P, woken
  <2>3. PICK e : IsChoice(unmatched[h], DOMAIN unmatched[h] \ woken, Held(h, woken), Len(unmatched[h]), e)
    BY <1>u, <2>1, PickedPlaces DEF Held
  <2>4. Held(h, woken) \in Seq(Message)
    BY <1>u, <2>1, PickedPlaces DEF Held
  <2>5. \A i \in DOMAIN Held(h, woken) : Held(h, woken)[i].h = h
    <3> TAKE i \in DOMAIN Held(h, woken)
    <3>1. i \in 1..Len(Held(h, woken))
      BY <2>4
    <3>2. Held(h, woken)[i] = unmatched[h][e[i]] /\ e[i] \in DOMAIN unmatched[h]
      BY <2>3, <3>1 DEF IsChoice
    <3> QED
      BY <2>1, <3>2 DEF ListInv
  <2> QED
    BY <1>u, <2>1, <2>2, <2>5 DEF ListInv
<1>10. ASSUME NEW b \in Bases, HandOver(b) PROVE ListInv'
  <2> DEFINE m == Event(b)
             i == CHOOSE k \in Waiting(m) : \A j \in Waiting(m) : j >= k
  <2>1. posted' = [posted EXCEPT ![m.h] = Remaining(@, i)] /\ m.h \in scons
        /\ UNCHANGED <<oneBase, scons, unmatched, searched>>
    BY <1>10 DEF HandOver
  <2> HIDE DEF m, i
  <2> QED
    BY <1>u, <2>1 DEF ListInv
<1>11. ASSUME NEW b \in Bases, Search(b) PROVE ListInv'
  <2>1. Event(b) \in Message /\ Event(b).h \in scons /\ Event(b).h \in Handles
        /\ UNCHANGED <<oneBase, scons, posted>>
    BY <1>0, <1>11, <1>u DEF Search, HeadIs
  <2>2. CASE oneBase
    <3>1. unmatched' = [unmatched EXCEPT ![Event(b).h] = Append(@, Event(b))] /\ searched' = searched
      BY <1>11, <2>2 DEF Search
    <3>2. ASSUME NEW h \in Handles, NEW i \in DOMAIN unmatched'[h] PROVE unmatched'[h][i].h = h
      <4>1. CASE h = Event(b).h
        <5>1. unmatched'[h] = Append(unmatched[h], Event(b)) /\ unmatched[h] \in Seq(Message)
          BY <1>u, <2>1, <3>1, <4>1
        <5>2. unmatched'[h][i] = Event(b) \/ (i \in DOMAIN unmatched[h] /\ unmatched'[h][i] = unmatched[h][i])
          BY <3>2, <5>1
        <5> QED
          BY <4>1, <5>2 DEF ListInv
      <4>2. CASE h # Event(b).h
        <5>1. unmatched'[h] = unmatched[h]
          BY <1>u, <2>1, <3>1, <4>2
        <5> QED
          BY <3>2, <5>1 DEF ListInv
      <4> QED
        BY <4>1, <4>2
    <3>3. \A h \in Handles : h \notin scons => unmatched'[h] = <<>>
      BY <1>u, <2>1, <3>1 DEF ListInv
    <3> QED
      BY <2>1, <3>1, <3>2, <3>3 DEF ListInv
  <2>3. CASE ~oneBase
    <3>1. searched' = [searched EXCEPT ![b] = Event(b)] /\ unmatched' = unmatched
      BY <1>11, <2>3 DEF Search
    <3> QED
      BY <1>u, <2>1, <2>3, <3>1 DEF ListInv
  <2> QED
    BY <2>2, <2>3
<1>12. ASSUME NEW b \in Bases, Hold(b) PROVE ListInv'
  <2>1. searched' = [searched EXCEPT ![b] = NoMessage] /\ UNCHANGED <<oneBase, scons, posted>>
        /\ ~oneBase /\ searched[b].h \in Handles
    BY <1>12 DEF Hold, ListInv
  <2>2. CASE searched[b].h \in scons
    <3>1. unmatched' = [unmatched EXCEPT ![searched[b].h] = Append(@, searched[b])]
      BY <1>12, <2>2 DEF Hold
    <3>2. ASSUME NEW h \in Handles, NEW i \in DOMAIN unmatched'[h] PROVE unmatched'[h][i].h = h
      <4>1. CASE h = searched[b].h
        <5>1. unmatched'[h] = Append(unmatched[h], searched[b]) /\ unmatched[h] \in Seq(Message)
          BY <1>u, <2>1, <3>1, <4>1
        <5>2. searched[b] \in Message
          BY <1>u, <1>12 DEF Hold
        <5>3. unmatched'[h][i] = searched[b] \/ (i \in DOMAIN unmatched[h] /\ unmatched'[h][i] = unmatched[h][i])
          BY <3>2, <5>1, <5>2
        <5> QED
          BY <4>1, <5>3 DEF ListInv
      <4>2. CASE h # searched[b].h
        <5>1. unmatched'[h] = unmatched[h]
          BY <1>u, <2>1, <3>1, <4>2
        <5> QED
          BY <3>2, <5>1 DEF ListInv
      <4> QED
        BY <4>1, <4>2
    <3>3. \A h \in Handles : h \notin scons => unmatched'[h] = <<>>
      BY <1>u, <2>1, <2>2, <3>1 DEF ListInv
    <3>4. \A c \in Bases : searched'[c] = NoMessage \/ searched'[c] = searched[c]
      BY <1>u, <2>1
    <3> QED
      BY <2>1, <3>2, <3>3, <3>4 DEF ListInv
  <2>3. CASE searched[b].h \notin scons
    <3>1. unmatched' = unmatched
      BY <1>12, <2>3 DEF Hold
    <3>4. \A c \in Bases : searched'[c] = NoMessage \/ searched'[c] = searched[c]
      BY <1>u, <2>1
    <3> QED
      BY <2>1, <3>1, <3>4 DEF ListInv
  <2> QED
    BY <2>2, <2>3
<1>14. ASSUME NEW b \in Bases, SelfSend(b) \/ ProcessSend(b) \/ Drop(b) \/ Dangling(b) PROVE ListInv'
  BY <1>14, <1>1 DEF SelfSend, ProcessSend, Drop, Dangling
<1>15. ASSUME NEW h, NEW r, pt2pt_base_api_recv_nb(h, r) PROVE ListInv'
  BY <1>15, <1>1 DEF pt2pt_base_api_recv_nb
<1>16. ASSUME NEW h, NEW d, NEW t, pt2pt_base_api_send_nb(h, d, t) PROVE ListInv'
  BY <1>16, <1>1 DEF pt2pt_base_api_send_nb
<1>17. ASSUME NEW h, NEW s, NEW t, PT2PT_POST_MESSAGE(h, s, t) PROVE ListInv'
  BY <1>17, <1>1 DEF PT2PT_POST_MESSAGE
<1>18. CASE UNCHANGED matchVars
  BY <1>18, <1>1 DEF matchVars
<1> QED
  BY <1>4, <1>5, <1>10, <1>11, <1>12, <1>14, <1>15, <1>16, <1>17, <1>18 DEF MatchNext, Handle

\* PlaceInv in every step.
LEMMA PlaceStep == TypeInv /\ PlaceInv /\ [MatchNext]_matchVars => PlaceInv'
BY QueueStep, ListStep, PlaceIs DEF PlaceInv, ListInv, QueueInv, OnlyRecv, Bases

-----------------------------------------------------------------------------
\* Every message is in one place, once; one that fell with a crash in none.
NumInv ==
    /\ \A b \in Bases : Once(events[b], "recv")
    /\ \A h \in Handles : Once(unmatched[h], "recv")
    /\ \A n \in DOMAIN got : Once(got[n], "recv")
    /\ Apart(HeldAt) /\ All(HeldAt) \subseteq 1..arrived
    /\ crashed \/ All(HeldAt) = 1..arrived

\* What HeldIn has for each kind of place.
LEMMA HeldIs ==
    ASSUME NEW e, NEW s, NEW u, NEW g, NEW l
    PROVE /\ \A b \in Bases : HeldIn(e, s, u, g, l)[<<"events", b>>] = NumbersOf(e[b], "recv")
          /\ \A b \in Bases : HeldIn(e, s, u, g, l)[<<"search", b>>] = {s[b].n} \ {0}
          /\ \A h \in Handles : HeldIn(e, s, u, g, l)[<<"list", h>>] = NumbersOf(u[h], "recv")
          /\ \A n \in Nat : HeldIn(e, s, u, g, l)[<<"got", n>>] =
                               IF n \in DOMAIN g THEN NumbersOf(g[n], "recv") ELSE {}
          /\ HeldIn(e, s, u, g, l)[<<"lost", 0>>] = l
<1>1. /\ \A b \in Bases : <<"events", b>> \in Place /\ <<"search", b>> \in Place
      /\ \A h \in Handles : <<"list", h>> \in Place
      /\ \A n \in Nat : <<"got", n>> \in Place
      /\ <<"lost", 0>> \in Place
  BY DEF Place
<1> QED
  BY <1>1 DEF HeldIn

\* The kinds of places.
LEMMA PlaceSplit ==
    ASSUME NEW x \in Place
    PROVE \/ \E b \in Bases : x = <<"events", b>> \/ x = <<"search", b>>
          \/ \E h \in Handles : x = <<"list", h>>
          \/ \E n \in Nat : x = <<"got", n>>
          \/ x = <<"lost", 0>>
BY DEF Place

\* A place holds what it held when its part is what it was.
LEMMA Elsewhere ==
    ASSUME NEW x \in Place, DOMAIN got' = DOMAIN got,
           \A b \in Bases : x = <<"events", b>> => NumbersOf(events'[b], "recv") = NumbersOf(events[b], "recv"),
           \A b \in Bases : x = <<"search", b>> => searched'[b] = searched[b],
           \A h \in Handles : x = <<"list", h>> => unmatched'[h] = unmatched[h],
           \A n \in DOMAIN got : x = <<"got", n>> => got'[n] = got[n],
           x = <<"lost", 0>> => lost' = lost
    PROVE HeldAt'[x] = HeldAt[x]
<1>1. ASSUME NEW b \in Bases, x = <<"events", b>>
      PROVE HeldAt'[x] = HeldAt[x]
  <2>1. NumbersOf(events'[b], "recv") = NumbersOf(events[b], "recv")
    BY <1>1
  <2>2. HeldAt'[x] = NumbersOf(events'[b], "recv")
    BY <1>1, HeldIs DEF HeldAt
  <2>3. HeldAt[x] = NumbersOf(events[b], "recv")
    BY <1>1, HeldIs DEF HeldAt
  <2> QED
    BY <2>1, <2>2, <2>3
<1>2. ASSUME NEW b \in Bases, x = <<"search", b>>
      PROVE HeldAt'[x] = HeldAt[x]
  <2>1. searched'[b] = searched[b]
    BY <1>2
  <2>2. HeldAt'[x] = {searched'[b].n} \ {0}
    BY <1>2, HeldIs DEF HeldAt
  <2>3. HeldAt[x] = {searched[b].n} \ {0}
    BY <1>2, HeldIs DEF HeldAt
  <2> QED
    BY <2>1, <2>2, <2>3
<1>3. ASSUME NEW h \in Handles, x = <<"list", h>>
      PROVE HeldAt'[x] = HeldAt[x]
  BY <1>3, HeldIs DEF HeldAt
<1>4. ASSUME NEW n \in Nat, x = <<"got", n>>
      PROVE HeldAt'[x] = HeldAt[x]
  BY <1>4, HeldIs DEF HeldAt
<1>5. CASE x = <<"lost", 0>>
  BY <1>5, HeldIs DEF HeldAt
<1> QED
  BY <1>1, <1>2, <1>3, <1>4, <1>5, PlaceSplit

Puts(b, e) == events' = [events EXCEPT ![b] = Append(@, e)]
\* The numbers in the queues when one event is put into one of them.
LEMMA EnqueuedNumbers ==
    ASSUME TypeInv, NEW b \in Bases, NEW e \in EventSet, Puts(b, e),
           NEW op, \A c \in Bases : Once(events[c], op), e.op = op => e.n \notin NumbersOf(events[b], op)
    PROVE \A c \in Bases :
             /\ Once(events'[c], op)
             /\ c = b /\ e.op = op => NumbersOf(events'[c], op) = NumbersOf(events[c], op) \cup {e.n}
             /\ ~(c = b /\ e.op = op) => NumbersOf(events'[c], op) = NumbersOf(events[c], op)
             /\ \A x \in NumbersOf(events'[c], op) : x \in NumbersOf(events[c], op) \/ x = e.n
<1> TAKE c \in Bases
<1>1. events'[c] = events[c] \o More(c, b, <<e>>) /\ events[c] \in Seq(EventSet)
  BY Enqueued DEF TypeInv, Puts
<1>2. CASE c = b
  <2> DEFINE u == <<e>>
  <2>1. events'[c] = events[c] \o u
    BY <1>1, <1>2 DEF More
  <2>2. u \in Seq(EventSet)
    OBVIOUS
  <2>3. NumbersOf(events[c], op) \cap NumbersOf(u, op) = {} /\ Once(u, op)
    BY <1>2, NumbersOne
  <2>6. Once(events[c], op) /\ events[c] \in Seq(EventSet)
    BY <1>1
  <2> HIDE DEF u
  <2> DEFINE s == events[c]
  <2> HIDE DEF s
  <2>7. Once(s \o u, op) /\ NumbersOf(s \o u, op) = NumbersOf(s, op) \cup NumbersOf(u, op)
    BY <2>2, <2>3, <2>6, NumbersConcat DEF s
  <2>4. Once(events'[c], op) /\ NumbersOf(events'[c], op) = NumbersOf(events[c], op) \cup NumbersOf(u, op)
    BY <2>1, <2>7 DEF s
  <2>5. NumbersOf(u, op) = IF e.op = op THEN {e.n} ELSE {}
    BY NumbersOne DEF u
  <2> QED
    BY <1>2, <2>4, <2>5
<1>3. CASE c # b
  <2>1. events'[c] = events[c]
    BY <1>1, <1>3 DEF More
  <2> QED
    BY <1>3, <2>1
<1> QED
  BY <1>2, <1>3

\* All that a list holds are messages; a message more is one number more.
LEMMA ListNumbers ==
    ASSUME NEW s \in Seq(Message)
    PROVE NumbersOf(s, "recv") = {s[i].n : i \in DOMAIN s} /\ At(s, "recv") = DOMAIN s
<1>1. \A i \in DOMAIN s : s[i].op = "recv"
  <2>1. \A i \in DOMAIN s : s[i] \in Message
    OBVIOUS
  <2> QED
    BY <2>1 DEF Message
<1> QED
  BY <1>1 DEF NumbersOf, At

\* The numbers in a list that gets a message.
LEMMA AppendNumbers ==
    ASSUME NEW s \in Seq(Message), NEW m \in Message, Once(s, "recv"), m.n \notin NumbersOf(s, "recv")
    PROVE Once(Append(s, m), "recv") /\ NumbersOf(Append(s, m), "recv") = NumbersOf(s, "recv") \cup {m.n}
<1> DEFINE u == <<m>>
<1>1. u \in Seq(Message) /\ Append(s, m) = s \o u
  OBVIOUS
<1>2. m.op = "recv"
  BY DEF Message
<1>3. Once(u, "recv") /\ NumbersOf(u, "recv") = {m.n}
  BY <1>2, NumbersOne
<1> HIDE DEF u
<1>4. NumbersOf(s, "recv") \cap NumbersOf(u, "recv") = {}
  BY <1>3
<1>5. Once(s \o u, "recv") /\ NumbersOf(s \o u, "recv") = NumbersOf(s, "recv") \cup NumbersOf(u, "recv")
  BY <1>1, <1>3, <1>4, NumbersConcat
<1> QED
  BY <1>1, <1>3, <1>5

\* The numbers of what is picked from a list.
LEMMA PickedNumbers ==
    ASSUME NEW s \in Seq(Message), NEW set, Once(s, "recv")
    PROVE /\ Once(Picked(s, set), "recv")
          /\ NumbersOf(Picked(s, set), "recv") = {s[i].n : i \in set \cap DOMAIN s}
<1> DEFINE P == Picked(s, set)
<1>1. PICK e : IsChoice(s, set, P, Len(s), e)
  BY PickedPlaces
<1>2. P \in Seq(Message) /\ DOMAIN P = 1..Len(P) /\ DOMAIN s = 1..Len(s) /\ Len(P) \in Nat /\ Len(s) \in Nat
  BY PickedPlaces
<1>3. At(P, "recv") = 1..Len(P) /\ At(s, "recv") = 1..Len(s)
  BY <1>2, ListNumbers
<1> HIDE DEF P
<1>4. \A k \in 1..Len(P) : e[k] \in set \cap (1..Len(s)) /\ P[k] = s[e[k]]
  BY <1>1 DEF IsChoice
<1>5. Once(P, "recv")
  <2> SUFFICES ASSUME NEW i \in 1..Len(P), NEW j \in 1..Len(P), P[i].n = P[j].n PROVE i = j
    BY <1>3 DEF Once
  <2>1. e[i] = e[j]
    BY <1>3, <1>4 DEF Once
  <2>2. ~(i < j) /\ ~(j < i)
    <3>1. e[i] \in Nat /\ e[j] \in Nat
      BY <1>4
    <3> QED
      BY <1>1, <2>1, <3>1 DEF IsChoice
  <2> QED
    BY <1>2, <2>2
<1>6. NumbersOf(P, "recv") = {s[i].n : i \in set \cap DOMAIN s}
  <2>1. \A i \in set \cap (1..Len(s)) : \E k \in 1..Len(P) : e[k] = i
    BY <1>1 DEF IsChoice
  <2>2. \A k \in 1..Len(P) : P[k].n \in {s[i].n : i \in set \cap DOMAIN s}
    BY <1>2, <1>4
  <2>3. \A i \in set \cap DOMAIN s : s[i].n \in {P[k].n : k \in 1..Len(P)}
    BY <1>2, <1>4, <2>1
  <2> QED
    BY <1>3, <2>2, <2>3 DEF NumbersOf
<1> QED
  BY <1>5, <1>6 DEF P

-----------------------------------------------------------------------------
\* The receive that a message is handed to.
Chosen(b) == CHOOSE k \in Waiting(Event(b)) : \A j \in Waiting(Event(b)) : j >= k
Taker(b) == posted[Event(b).h][Chosen(b)]
\* What pt2pt_base_complete_recv_msg does: the taker is the first that fits.
LEMMA HandOverIs ==
    ASSUME TypeInv, NEW b \in Bases, HandOver(b)
    PROVE /\ Runs(b, "recv") /\ Event(b) \in Message /\ events[b] # <<>>
          /\ Event(b).h \in scons /\ Event(b).h \in Handles
          /\ Chosen(b) \in 1..Len(posted[Event(b).h]) /\ Taker(b) \in Posted
          /\ Fits(Taker(b), Event(b))
          /\ \A j \in 1..Len(posted[Event(b).h]) :
                j < Chosen(b) => ~Fits(posted[Event(b).h][j], Event(b))
          /\ posted' = [posted EXCEPT ![Event(b).h] = Remaining(posted[Event(b).h], Chosen(b))]
          /\ got' = [got EXCEPT ![Taker(b).n] = Append(@, Event(b))]
          /\ Done(b, b, <<>>)
          /\ UNCHANGED <<oneBase, scons, unmatched, searched, postedAt, lost, sends, arrived, crashed>>
<1> DEFINE m == Event(b)
           W == Waiting(m)
<1>1. Runs(b, "recv") /\ m \in Message /\ events[b] # <<>> /\ m.h \in scons /\ m.h \in Handles
  BY HeadFacts DEF HandOver, HeadIs, TypeInv
<1>2. posted[m.h] \in Seq(Posted)
  BY <1>1 DEF TypeInv
<1>3. W \subseteq 1..Len(posted[m.h]) /\ Len(posted[m.h]) \in Nat
  BY <1>2 DEF Waiting
<1>4. W # {}
  BY DEF HandOver
<1>5. Chosen(b) \in W /\ \A j \in W : j >= Chosen(b)
  <2> HIDE DEF W
  <2>1. \E k \in W : \A j \in W : j >= k
    BY <1>3, <1>4, Least
  <2>2. Chosen(b) = CHOOSE k \in W : \A j \in W : j >= k
    BY DEF Chosen, W
  <2> QED
    BY <2>1, <2>2
<1>6. Chosen(b) \in 1..Len(posted[m.h]) /\ Fits(Taker(b), m) /\ Taker(b) \in Posted
  BY <1>2, <1>3, <1>5 DEF Waiting, Taker
<1>7. \A j \in 1..Len(posted[m.h]) : j < Chosen(b) => ~Fits(posted[m.h][j], m)
  <2> TAKE j \in 1..Len(posted[m.h])
  <2>1. Fits(posted[m.h][j], m) => j \in W
    BY <1>2 DEF Waiting
  <2>2. Chosen(b) \in Nat /\ j \in Nat
    BY <1>3, <1>6
  <2> QED
    BY <1>5, <2>1, <2>2
<1>8. /\ posted' = [posted EXCEPT ![Event(b).h] = Remaining(posted[Event(b).h], Chosen(b))]
      /\ got' = [got EXCEPT ![Taker(b).n] = Append(@, Event(b))]
      /\ Done(b, b, <<>>)
      /\ UNCHANGED <<oneBase, scons, unmatched, searched, postedAt, lost, sends, arrived, crashed>>
  BY DEF HandOver, Chosen, Taker
<1> QED
  BY <1>1, <1>6, <1>7, <1>8

\* A receive is pending, or posted, once; one that takes no more than a message, or waits to be
\* posted, has none yet.
PendInv ==
    /\ \A b \in Bases : Once(events[b], "post")
    /\ \A x \in NumbersOf(events["globals"], "post") :
          /\ x \in DOMAIN got /\ got[x] = <<>>
          /\ \A h \in Handles : \A i \in DOMAIN posted[h] : posted[h][i].n # x
    /\ \A h \in Handles : \A i \in DOMAIN posted[h] :
          /\ posted[h][i].n \in DOMAIN got
          /\ ~posted[h][i].persistent => got[posted[h][i].n] = <<>>
    /\ \A h, g \in Handles : \A i \in DOMAIN posted[h] : \A j \in DOMAIN posted[g] :
          posted[h][i].n = posted[g][j].n => h = g /\ i = j

\* With fewer pending, and the posted ones as they were, it stays.
LEMMA PendFewer ==
    ASSUME PendInv, UNCHANGED <<got, posted>>, \A b \in Bases : Once(events'[b], "post"),
           NumbersOf(events'["globals"], "post") \subseteq NumbersOf(events["globals"], "post")
    PROVE PendInv'
BY DEF PendInv

\* At first no receive is pending.
LEMMA PendInit == MatchInit => PendInv
<1> SUFFICES ASSUME MatchInit PROVE PendInv
  OBVIOUS
<1>1. \A b \in Bases : events[b] = <<>>
  BY DEF MatchInit
<1>2. \A h \in Handles : posted[h] = <<>> /\ DOMAIN posted[h] = {}
  BY DEF MatchInit
<1>3. \A b \in Bases : Once(events[b], "post") /\ NumbersOf(events[b], "post") = {}
  BY <1>1, NumbersEmpty
<1> QED
  BY <1>2, <1>3 DEF PendInv, Bases

\* PendInv in every step: a receive is posted at most once.
LEMMA PendStep == TypeInv /\ PlaceInv /\ PendInv /\ [MatchNext]_matchVars => PendInv'
<1> SUFFICES ASSUME TypeInv, PlaceInv, PendInv, [MatchNext]_matchVars PROVE PendInv'
  OBVIOUS
<1>0. HeadIs /\ TypeInv'
  BY HeadFacts, TypeStep
<1>e. <<>> \in Seq(EventSet) /\ Once(<<>>, "post") /\ NumbersOf(<<>>, "post") = {}
  BY NumbersEmpty
<1>p. pt2ptBase \in Bases /\ "globals" \in Bases /\ \A b \in Bases : Once(events[b], "post")
  BY DEF Bases, pt2ptBase, PendInv
<1>g. got \in Seq(Seq(Message)) /\ DOMAIN got = 1..Len(got) /\ Len(got) \in Nat
      /\ posted \in [Handles -> Seq(Posted)]
  BY DEF TypeInv
<1>1. ASSUME NEW h \in Handles, NEW r \in Receives, pt2pt_base_api_recv_nb(h, r) PROVE PendInv'
  <2> DEFINE n == Len(got) + 1
             e == [op |-> "post", h |-> h, r |-> r, n |-> n]
  <2>1. e \in EventSet /\ e.op = "post" /\ e.n = n
    <3>1. n \in Nat
      BY <1>g
    <3> HIDE DEF n
    <3> QED
      BY <3>1 DEF EventSet, Post
  <2>2. events' = [events EXCEPT !["globals"] = Append(@, e)] /\ got' = Append(got, <<>>) /\ posted' = posted
    BY <1>1 DEF pt2pt_base_api_recv_nb
  <2>3. n \notin DOMAIN got /\ DOMAIN got' = DOMAIN got \cup {n} /\ got'[n] = <<>>
        /\ \A k \in DOMAIN got : got'[k] = got[k]
    BY <1>g, <2>2
  <2>4. n \notin NumbersOf(events["globals"], "post")
    BY <2>3 DEF PendInv
  <2> HIDE DEF e, n
  <2>5. \A c \in Bases :
           /\ Once(events'[c], "post")
           /\ c = "globals" /\ e.op = "post" => NumbersOf(events'[c], "post") = NumbersOf(events[c], "post") \cup {e.n}
    <3>1. Puts("globals", e)
      BY <2>2 DEF Puts
    <3> TAKE c \in Bases
    <3> QED
      BY <1>p, <2>1, <2>4, <3>1, EnqueuedNumbers
  <2>6. NumbersOf(events'["globals"], "post") = NumbersOf(events["globals"], "post") \cup {n}
    BY <1>p, <2>1, <2>5
  <2> QED
    BY <2>2, <2>3, <2>5, <2>6 DEF PendInv
\* No receive is queued.
<1>2. ASSUME NEW b \in Bases, NEW e \in EventSet, e.op # "post",
             events' = [events EXCEPT ![b] = Append(@, e)], UNCHANGED <<got, posted>>
      PROVE PendInv'
  <2>1. \A c \in Bases : Once(events'[c], "post") /\ NumbersOf(events'[c], "post") = NumbersOf(events[c], "post")
    <3>1. Puts(b, e)
      BY <1>2 DEF Puts
    <3> TAKE c \in Bases
    <3> QED
      BY <1>p, <1>2, <3>1, EnqueuedNumbers
  <2> QED
    BY <1>2, <1>p, <2>1, PendFewer
<1>3. ASSUME NEW h \in Handles, NEW d \in Peers \cup {Self}, NEW t \in Tags, pt2pt_base_api_send_nb(h, d, t)
      PROVE PendInv'
  <2> DEFINE e == [op |-> "send", h |-> h, dst |-> d, tag |-> t, n |-> Len(sends) + 1]
  <2>1. Len(sends) + 1 \in Nat
    BY DEF TypeInv
  <2>2. e \in EventSet /\ e.op # "post"
    BY <2>1 DEF EventSet, Sending
  <2>3. events' = [events EXCEPT !["globals"] = Append(@, e)] /\ UNCHANGED <<got, posted>>
    BY <1>3 DEF pt2pt_base_api_send_nb
  <2> HIDE DEF e
  <2> QED
    BY <1>2, <1>p, <2>2, <2>3
<1>4. ASSUME NEW h \in Handles \cup {Unknown}, NEW s \in Peers, NEW t \in Tags, PT2PT_POST_MESSAGE(h, s, t)
      PROVE PendInv'
  <2> DEFINE e == Recv(h, s, t)
  <2>1. arrived + 1 \in Nat \ {0}
    BY DEF TypeInv
  <2>2. e \in EventSet /\ e.op # "post"
    BY <2>1 DEF EventSet, Message, Recv
  <2>3. events' = [events EXCEPT ![pt2ptBase] = Append(@, e)] /\ UNCHANGED <<got, posted>>
    BY <1>4 DEF PT2PT_POST_MESSAGE
  <2> HIDE DEF e
  <2> QED
    BY <1>2, <1>p, <2>2, <2>3
<1>5. ASSUME NEW h \in Handles, Delete(h) PROVE PendInv'
  <2>1. posted' = [posted EXCEPT ![h] = <<>>] /\ UNCHANGED <<got, events>>
    BY <1>5 DEF Delete, Freed
  <2>2. \A g \in Handles : \A i \in DOMAIN posted'[g] : i \in DOMAIN posted[g] /\ posted'[g][i] = posted[g][i]
    BY <1>g, <2>1
  <2> QED
    BY <2>1, <2>2 DEF PendInv
\* The head is handled and no receive is queued for it.
<1>6. ASSUME NEW b \in Bases, NEW to \in Bases, NEW new \in Seq(EventSet), NEW op, Runs(b, op),
             Done(b, to, new), Once(new, "post"), NumbersOf(new, "post") = {}
      PROVE \A c \in Bases : /\ Once(events'[c], "post")
                             /\ c = b /\ op = "post" =>
                                   NumbersOf(events'[c], "post") = NumbersOf(events[c], "post") \ {Event(b).n}
                             /\ ~(c = b /\ op = "post") => NumbersOf(events'[c], "post") = NumbersOf(events[c], "post")
  <2>1. events[b] # <<>> /\ Event(b).op = op
    BY <1>0, <1>6 DEF HeadIs
  <2> TAKE c \in Bases
  <2>2. /\ Once(events'[c], "post")
        /\ NumbersOf(events'[c], "post") =
              (NumbersOf(events[c], "post") \ (IF c = b /\ Event(b).op = "post" THEN {Event(b).n} ELSE {}))
              \cup (IF c = to THEN NumbersOf(new, "post") ELSE {})
    BY <1>p, <1>6, <2>1, QueuedNumbers
  <2> QED
    BY <1>6, <2>1, <2>2
\* Messages are no receives.
<1>7. \A s \in Seq(Message) : s \in Seq(EventSet) /\ Once(s, "post") /\ NumbersOf(s, "post") = {}
  <2> TAKE s \in Seq(Message)
  <2>1. s \in Seq(EventSet)
    BY DEF EventSet
  <2>2. At(s, "post") = {}
    <3>1. \A i \in DOMAIN s : s[i] \in Message
      OBVIOUS
    <3> QED
      BY <3>1 DEF At, Message
  <2> QED
    BY <2>1, <2>2 DEF Once, NumbersOf
<1>8. ASSUME NEW b \in Bases, PostRecv(b) PROVE PendInv'
  <2> DEFINE h == Event(b).h
             r == Event(b).r
             n == Event(b).n
             P == [peer |-> r.peer, tag |-> r.tag, persistent |-> r.persistent, n |-> n]
             new == Picked(unmatched[h], match_posted_recv(r, h))
  <2>1. Runs(b, "post") /\ h \in Handles /\ posted' = [posted EXCEPT ![h] = Append(@, P)] /\ got' = got
        /\ Done(b, "globals", new)
    BY <1>8 DEF PostRecv, TypeInv
  <2>2. P.n = n /\ P \in Posted
    <3>1. Event(b) \in Post
      BY <1>0, <2>1 DEF HeadIs
    <3> QED
      BY <3>1, MatchAssumption DEF Post, Posted
  <2>3. n \in NumbersOf(events[b], "post")
    BY <1>0, <2>1 DEF HeadIs, NumbersOf, At
  <2>4. b = "globals"
    <3>1. b = "pt2pt" => NumbersOf(events[b], "post") = {}
      BY DEF PlaceInv, NumbersOf, At
    <3> QED
      BY <2>3, <3>1 DEF Bases
  <2>5. new \in Seq(Message)
    <3>1. unmatched[h] \in Seq(Message)
      BY <2>1 DEF TypeInv
    <3> QED
      BY <3>1, PickedPlaces
  <2> HIDE DEF h, r, n, P, new
  <2>6. \A c \in Bases : /\ Once(events'[c], "post")
                         /\ c = b => NumbersOf(events'[c], "post") = NumbersOf(events[c], "post") \ {n}
    <3>1. Once(new, "post") /\ NumbersOf(new, "post") = {} /\ new \in Seq(EventSet)
      BY <1>7, <2>5
    <3> TAKE c \in Bases
    <3>2. events[b] # <<>> /\ Event(b).op = "post"
      BY <1>0, <2>1 DEF HeadIs
    <3>3. /\ Once(events'[c], "post")
          /\ NumbersOf(events'[c], "post") =
                (NumbersOf(events[c], "post") \ (IF c = b /\ Event(b).op = "post" THEN {Event(b).n} ELSE {}))
                \cup (IF c = "globals" THEN NumbersOf(new, "post") ELSE {})
      BY <1>p, <2>1, <3>1, <3>2, QueuedNumbers
    <3> QED
      BY <3>1, <3>2, <3>3 DEF n
  <2>7. NumbersOf(events'["globals"], "post") = NumbersOf(events["globals"], "post") \ {n}
    BY <1>p, <2>4, <2>6
  <2>8. n \in DOMAIN got /\ got[n] = <<>> /\ \A g \in Handles : \A i \in DOMAIN posted[g] : posted[g][i].n # n
    BY <2>3, <2>4 DEF PendInv
  <2>9. /\ \A g \in Handles : g # h => posted'[g] = posted[g]
        /\ DOMAIN posted'[h] = DOMAIN posted[h] \cup {Len(posted[h]) + 1}
        /\ Len(posted[h]) + 1 \notin DOMAIN posted[h]
        /\ posted'[h][Len(posted[h]) + 1] = P
        /\ \A i \in DOMAIN posted[h] : posted'[h][i] = posted[h][i]
    <3>1. posted[h] \in Seq(Posted) /\ posted'[h] = Append(posted[h], P)
      BY <1>g, <2>1
    <3>2. \A g \in Handles : g # h => posted'[g] = posted[g]
      BY <1>g, <2>1
    <3> QED
      BY <2>2, <3>1, <3>2
  <2>10. \A g \in Handles : \A i \in DOMAIN posted'[g] :
            \/ i \in DOMAIN posted[g] /\ posted'[g][i] = posted[g][i]
            \/ g = h /\ i = Len(posted[h]) + 1 /\ posted'[g][i] = P
    BY <2>9
  <2>11. \A g \in Handles : \A i \in DOMAIN posted'[g] :
            /\ posted'[g][i].n \in DOMAIN got
            /\ ~posted'[g][i].persistent => got[posted'[g][i].n] = <<>>
    BY <2>2, <2>8, <2>10 DEF PendInv
  <2>12. \A f, g \in Handles : \A i \in DOMAIN posted'[f] : \A j \in DOMAIN posted'[g] :
            posted'[f][i].n = posted'[g][j].n => f = g /\ i = j
    BY <2>2, <2>8, <2>10 DEF PendInv
  <2>13. \A x \in NumbersOf(events'["globals"], "post") :
            \A g \in Handles : \A i \in DOMAIN posted'[g] : posted'[g][i].n # x
    BY <2>2, <2>7, <2>10 DEF PendInv
  <2> QED
    BY <2>1, <2>6, <2>7, <2>11, <2>12, <2>13 DEF PendInv
<1>9. ASSUME NEW b \in Bases, HandOver(b) PROVE PendInv'
  <2> DEFINE m == Event(b)
             i == Chosen(b)
             n == Taker(b).n
  <2>1. /\ Runs(b, "recv") /\ m.h \in Handles /\ i \in 1..Len(posted[m.h]) /\ m \in Message
        /\ posted' = [posted EXCEPT ![m.h] = Remaining(posted[m.h], i)]
        /\ got' = [got EXCEPT ![n] = Append(@, m)]
        /\ Done(b, b, <<>>)
    BY <1>9, HandOverIs
  <2>2. \A c \in Bases : Once(events'[c], "post") /\ NumbersOf(events'[c], "post") = NumbersOf(events[c], "post")
    <3> DEFINE none == <<>>
    <3>1. Done(b, b, none) /\ none \in Seq(EventSet) /\ Once(none, "post") /\ NumbersOf(none, "post") = {}
      BY <1>e, <2>1
    <3> HIDE DEF none
    <3> TAKE c \in Bases
    <3>2. /\ Once(events'[c], "post")
          /\ ~(c = b /\ "recv" = "post") => NumbersOf(events'[c], "post") = NumbersOf(events[c], "post")
      BY <1>6, <2>1, <3>1
    <3> QED
      BY <3>2
  <2>3. n = posted[m.h][i].n /\ i \in DOMAIN posted[m.h] /\ posted[m.h] \in Seq(Posted)
    BY <1>g, <2>1 DEF Taker
  <2> DEFINE back(g, k) == IF g = m.h /\ ~posted[m.h][i].persistent /\ k >= i THEN k + 1 ELSE k
  <2>4. \A g \in Handles : \A k \in DOMAIN posted'[g] :
           /\ back(g, k) \in DOMAIN posted[g] /\ posted'[g][k] = posted[g][back(g, k)]
           /\ k \in Nat
           /\ ~posted[g][back(g, k)].persistent => ~(g = m.h /\ back(g, k) = i)
    <3> TAKE g \in Handles
    <3>1. CASE g = m.h /\ ~posted[m.h][i].persistent
      <4>1. posted'[g] = RemoveAt(posted[g], i)
        BY <1>g, <2>1, <3>1 DEF Remaining
      <4>2. /\ RemoveAt(posted[g], i) \in Seq(Posted) /\ Len(RemoveAt(posted[g], i)) = Len(posted[g]) - 1
            /\ \A k \in 1..(Len(posted[g]) - 1) :
                  RemoveAt(posted[g], i)[k] = posted[g][IF k < i THEN k ELSE k + 1]
        BY <2>1, <2>3, <3>1, RemoveIs
      <4>3. DOMAIN posted'[g] = 1..(Len(posted[g]) - 1) /\ DOMAIN posted[g] = 1..Len(posted[g])
            /\ Len(posted[g]) \in Nat
        BY <2>3, <3>1, <4>1, <4>2
      <4> TAKE k \in DOMAIN posted'[g]
      <4>4. k \in 1..(Len(posted[g]) - 1) /\ back(g, k) = IF k < i THEN k ELSE k + 1
        BY <2>1, <3>1, <4>3
      <4>5. back(g, k) \in 1..Len(posted[g]) /\ back(g, k) # i /\ k \in Nat
        BY <2>1, <3>1, <4>3, <4>4
      <4> QED
        BY <4>1, <4>2, <4>3, <4>4, <4>5
    <3>2. CASE ~(g = m.h /\ ~posted[m.h][i].persistent)
      <4>1. posted'[g] = posted[g] /\ posted[g] \in Seq(Posted)
        BY <1>g, <2>1, <3>2 DEF Remaining
      <4> QED
        BY <3>2, <4>1
    <3> QED
      BY <3>1, <3>2
  <2>5. /\ DOMAIN got' = DOMAIN got
        /\ \A k \in DOMAIN got : k # n => got'[k] = got[k]
    BY <2>1
  <2> HIDE DEF i, n, m
  <2>6. \A g \in Handles : \A k, l \in DOMAIN posted'[g] : back(g, k) = back(g, l) => k = l
    BY <2>1, <2>4
  <2> HIDE DEF back
  <2>7. \A g \in Handles : \A k \in DOMAIN posted'[g] :
           /\ posted'[g][k].n \in DOMAIN got'
           /\ ~posted'[g][k].persistent => got'[posted'[g][k].n] = <<>>
    <3> TAKE g \in Handles
    <3> TAKE k \in DOMAIN posted'[g]
    <3>1. posted'[g][k] = posted[g][back(g, k)] /\ back(g, k) \in DOMAIN posted[g]
      BY <2>4
    <3>2. posted[g][back(g, k)].n \in DOMAIN got'
      BY <2>5, <3>1 DEF PendInv
    <3>3. ASSUME ~posted[g][back(g, k)].persistent PROVE got'[posted[g][back(g, k)].n] = <<>>
      <4>1. posted[g][back(g, k)].n # n
        BY <2>1, <2>3, <2>4, <3>1, <3>3 DEF PendInv
      <4> QED
        BY <2>5, <3>1, <3>3, <4>1 DEF PendInv
    <3> QED
      BY <3>1, <3>2, <3>3
  <2>8. \A f, g \in Handles : \A k \in DOMAIN posted'[f] : \A l \in DOMAIN posted'[g] :
           posted'[f][k].n = posted'[g][l].n => f = g /\ k = l
    <3> SUFFICES ASSUME NEW f \in Handles, NEW g \in Handles, NEW k \in DOMAIN posted'[f], NEW l \in DOMAIN posted'[g],
                        posted'[f][k].n = posted'[g][l].n
                 PROVE f = g /\ k = l
      OBVIOUS
    <3>1. posted[f][back(f, k)].n = posted[g][back(g, l)].n /\ back(f, k) \in DOMAIN posted[f]
          /\ back(g, l) \in DOMAIN posted[g]
      BY <2>4
    <3>2. f = g /\ back(f, k) = back(g, l)
      BY <3>1 DEF PendInv
    <3> QED
      BY <2>6, <3>2
  <2>9. \A x \in NumbersOf(events'["globals"], "post") :
           /\ x \in DOMAIN got' /\ got'[x] = <<>>
           /\ \A g \in Handles : \A k \in DOMAIN posted'[g] : posted'[g][k].n # x
    <3> TAKE x \in NumbersOf(events'["globals"], "post")
    <3>1. x \in NumbersOf(events["globals"], "post")
      BY <1>p, <2>2
    <3>2. x # n
      BY <2>1, <2>3, <3>1 DEF PendInv
    <3> QED
      BY <2>4, <2>5, <3>1, <3>2 DEF PendInv
  <2> QED
    BY <2>2, <2>7, <2>8, <2>9 DEF PendInv
<1>10. ASSUME NEW b \in Bases, NEW to \in Bases, NEW new \in Seq(Message), NEW op, Runs(b, op),
              Done(b, to, new), UNCHANGED <<got, posted>>
       PROVE PendInv'
  <2>1. \A c \in Bases : /\ Once(events'[c], "post")
                         /\ c = b /\ op = "post" =>
                               NumbersOf(events'[c], "post") = NumbersOf(events[c], "post") \ {Event(b).n}
                         /\ ~(c = b /\ op = "post") => NumbersOf(events'[c], "post") = NumbersOf(events[c], "post")
    BY <1>6, <1>7, <1>10
  <2> QED
    BY <1>10, <1>p, <2>1, PendFewer
<1>11. ASSUME NEW b \in Bases, SelfSend(b) PROVE PendInv'
  <2> DEFINE e == Recv(Event(b).h, Self, Event(b).tag)
             new == <<e>>
  <2>1. Event(b) \in Sending /\ Runs(b, "send") /\ arrived + 1 \in Nat \ {0}
    BY <1>0, <1>11 DEF SelfSend, HeadIs, TypeInv
  <2>2. e \in Message
    BY <2>1 DEF Message, Sending, Recv
  <2>3. new \in Seq(Message)
    BY <2>2
  <2>4. Done(b, pt2ptBase, new) /\ UNCHANGED <<got, posted>>
    BY <1>11 DEF SelfSend
  <2> HIDE DEF new
  <2> QED
    BY <1>p, <1>10, <2>1, <2>3, <2>4
<1>12. ASSUME NEW b \in Bases, ProcessSend(b) \/ Drop(b) \/ Search(b) PROVE PendInv'
  <2>1. Done(b, b, <<>>) /\ UNCHANGED <<got, posted>> /\ \E op : Runs(b, op)
    BY <1>12 DEF ProcessSend, Drop, Search
  <2>2. <<>> \in Seq(Message)
    OBVIOUS
  <2> QED
    BY <1>10, <2>1, <2>2
<1>13. CASE UNCHANGED <<got, posted, events>>
  BY <1>13 DEF PendInv
<1>14. ASSUME NEW b \in Bases, Dangling(b) \/ Hold(b) PROVE PendInv'
  BY <1>13, <1>14 DEF Dangling, Hold
<1>15. CASE UNCHANGED matchVars
  BY <1>13, <1>15 DEF matchVars
<1> QED
  BY <1>1, <1>3, <1>4, <1>5, <1>8, <1>9, <1>11, <1>12, <1>14, <1>15 DEF MatchNext, Handle

OnceInv == /\ \A b \in Bases : Once(events[b], "recv")
           /\ \A h \in Handles : Once(unmatched[h], "recv")
           /\ \A n \in DOMAIN got : Once(got[n], "recv")

\* Messages that do not move stay apart.
LEMMA StillThere ==
    ASSUME NEW c, NEW d, \A x \in Place : d[x] = c[x], Apart(c) PROVE Apart(d) /\ All(d) = All(c)
BY DEF Apart, All

\* A number that nothing holds yet, and what is held anywhere is some number.
LEMMA Fresh ==
    ASSUME TypeInv, NumInv
    PROVE /\ arrived + 1 \notin All(HeldAt)
          /\ \A b \in Bases : arrived + 1 \notin NumbersOf(events[b], "recv")
<1>1. arrived + 1 \notin All(HeldAt)
  BY DEF NumInv, TypeInv
<1>2. ASSUME NEW b \in Bases PROVE HeldAt[<<"events", b>>] = NumbersOf(events[b], "recv")
  BY HeldIs DEF HeldAt
<1>3. \A b \in Bases : <<"events", b>> \in Place
  BY DEF Place
<1> QED
  BY <1>1, <1>2, <1>3 DEF All

\* A message arrives on base to.
LEMMA NumArrives ==
    ASSUME TypeInv, NumInv, TypeInv', NEW b \in Bases,
           \A c \in Bases : /\ Once(events'[c], "recv")
                            /\ NumbersOf(events'[c], "recv") =
                                 NumbersOf(events[c], "recv") \cup (IF c = b THEN {arrived + 1} ELSE {}),
           arrived' = arrived + 1, UNCHANGED <<searched, unmatched, got, lost, crashed>>
    PROVE NumInv'
<1> DEFINE q == <<"events", b>>
<1>1. q \in Place
  BY DEF Place
<1>2. \A x \in Place \ {q} : HeldAt'[x] = HeldAt[x]
  <2>1. \A c \in Bases : <<"events", c>> \notin {q} => NumbersOf(events'[c], "recv") = NumbersOf(events[c], "recv")
    OBVIOUS
  <2> QED
    BY <2>1, Elsewhere
<1>3. HeldAt'[q] = HeldAt[q] \cup {arrived + 1}
  <2>1. HeldAt'[q] = NumbersOf(events'[b], "recv") /\ HeldAt[q] = NumbersOf(events[b], "recv")
    BY HeldIs DEF HeldAt
  <2> QED
    BY <2>1
<1> DEFINE n == arrived + 1
<1>6. n \notin All(HeldAt) /\ HeldAt'[q] = HeldAt[q] \cup {n} /\ Apart(HeldAt)
  BY <1>3, Fresh DEF NumInv
<1> HIDE DEF q, n
<1>7. Apart(HeldAt') /\ All(HeldAt') = All(HeldAt) \cup {n}
  BY <1>1, <1>2, <1>6, Added
<1>4. Apart(HeldAt') /\ All(HeldAt') = All(HeldAt) \cup {arrived + 1}
  BY <1>7 DEF n
<1>5. (crashed \/ All(HeldAt') = 1..(arrived + 1)) /\ All(HeldAt') \subseteq 1..(arrived + 1)
  BY <1>4 DEF NumInv, TypeInv
<1> QED
  BY <1>4, <1>5 DEF NumInv

\* Messages go from place p to place q.
LEMMA NumMoves ==
    ASSUME NumInv, OnceInv', arrived' = arrived, crashed => crashed',
           NEW p \in Place, NEW q \in Place, p # q, NEW X, X \subseteq HeldAt[p],
           HeldAt'[p] = HeldAt[p] \ X, HeldAt'[q] = HeldAt[q] \cup X,
           \A x \in Place \ {p, q} : HeldAt'[x] = HeldAt[x]
    PROVE NumInv'
<1>1. Apart(HeldAt') /\ All(HeldAt') = All(HeldAt)
  BY Moved DEF NumInv
<1> QED
  BY <1>1 DEF NumInv, OnceInv

\* The invariant when none moves.
LEMMA NumStays ==
    ASSUME NumInv, OnceInv', arrived' = arrived, crashed => crashed',
           \A x \in Place : HeldAt'[x] = HeldAt[x]
    PROVE NumInv'
<1>1. Apart(HeldAt') /\ All(HeldAt') = All(HeldAt)
  BY StillThere DEF NumInv
<1> QED
  BY <1>1 DEF NumInv, OnceInv

\* NumInv in every step: a message that arrives is in one place, and moves to one.
LEMMA NumStep == TypeInv /\ PlaceInv /\ PendInv /\ NumInv /\ [MatchNext]_matchVars => NumInv'
<1> SUFFICES ASSUME TypeInv, PlaceInv, PendInv, NumInv, [MatchNext]_matchVars PROVE NumInv'
  OBVIOUS
<1>0. HeadIs /\ OnceInv /\ TypeInv'
  BY HeadFacts, TypeStep DEF NumInv, OnceInv
<1>e. <<>> \in Seq(EventSet)
  OBVIOUS
<1>p. pt2ptBase \in Bases /\ "globals" \in Bases
  BY DEF Bases, pt2ptBase
<1>1. ASSUME NEW h \in Handles, NEW r \in Receives, pt2pt_base_api_recv_nb(h, r) PROVE NumInv'
  <2> DEFINE e == [op |-> "post", h |-> h, r |-> r, n |-> Len(got) + 1]
  <2>1. Len(got) + 1 \in Nat
    BY DEF TypeInv
  <2>2. e \in EventSet /\ e.op # "recv"
    BY <2>1 DEF EventSet, Post
  <2>3. events' = [events EXCEPT !["globals"] = Append(@, e)] /\ got' = Append(got, <<>>)
        /\ UNCHANGED <<searched, unmatched, lost, arrived, crashed>>
    BY <1>1 DEF pt2pt_base_api_recv_nb
  <2> HIDE DEF e
  <2>4. \A c \in Bases : Once(events'[c], "recv") /\ NumbersOf(events'[c], "recv") = NumbersOf(events[c], "recv")
    <3>1. Puts("globals", e)
      BY <2>3 DEF Puts
    <3> TAKE c \in Bases
    <3> QED
      BY <1>0, <1>p, <2>2, <3>1, EnqueuedNumbers DEF OnceInv
  <2>5. got \in Seq(Seq(Message))
    BY DEF TypeInv
  <2>6. /\ DOMAIN got' = 1..(Len(got) + 1) /\ DOMAIN got = 1..Len(got) /\ Len(got) \in Nat
        /\ \A n \in 1..Len(got) : got'[n] = got[n]
        /\ got'[Len(got) + 1] = <<>>
    BY <2>3, <2>5
  <2>7. OnceInv'
    <3>1. \A n \in DOMAIN got' : Once(got'[n], "recv")
      <4> TAKE n \in DOMAIN got'
      <4>1. CASE n \in 1..Len(got)
        BY <1>0, <2>6, <4>1 DEF OnceInv
      <4>2. CASE n \notin 1..Len(got)
        <5>1. n = Len(got) + 1
          BY <2>6, <4>2
        <5> QED
          BY <2>6, <5>1, NumbersEmpty
      <4> QED
        BY <4>1, <4>2
    <3> QED
      BY <1>0, <2>3, <2>4, <3>1 DEF OnceInv
  <2>8. \A x \in Place : HeldAt'[x] = HeldAt[x]
    <3>1. ASSUME NEW b \in Bases PROVE HeldAt'[<<"events", b>>] = HeldAt[<<"events", b>>]
      <4>1. HeldAt'[<<"events", b>>] = NumbersOf(events'[b], "recv") /\ HeldAt[<<"events", b>>] = NumbersOf(events[b], "recv")
        BY HeldIs DEF HeldAt
      <4> QED
        BY <2>4, <4>1
    <3>2. ASSUME NEW b \in Bases PROVE HeldAt'[<<"search", b>>] = HeldAt[<<"search", b>>]
      <4>1. HeldAt'[<<"search", b>>] = {searched'[b].n} \ {0} /\ HeldAt[<<"search", b>>] = {searched[b].n} \ {0}
        BY HeldIs DEF HeldAt
      <4> QED
        BY <2>3, <4>1
    <3>3. ASSUME NEW g \in Handles PROVE HeldAt'[<<"list", g>>] = HeldAt[<<"list", g>>]
      <4>1. HeldAt'[<<"list", g>>] = NumbersOf(unmatched'[g], "recv") /\ HeldAt[<<"list", g>>] = NumbersOf(unmatched[g], "recv")
        BY HeldIs DEF HeldAt
      <4> QED
        BY <2>3, <4>1
    <3>4. ASSUME NEW n \in Nat PROVE HeldAt'[<<"got", n>>] = HeldAt[<<"got", n>>]
      <4>1. /\ HeldAt'[<<"got", n>>] = IF n \in DOMAIN got' THEN NumbersOf(got'[n], "recv") ELSE {}
            /\ HeldAt[<<"got", n>>] = IF n \in DOMAIN got THEN NumbersOf(got[n], "recv") ELSE {}
        BY HeldIs DEF HeldAt
      <4>2. CASE n = Len(got) + 1
        <5>1. NumbersOf(got'[n], "recv") = {} /\ n \notin DOMAIN got
          BY <2>6, <4>2, NumbersEmpty
        <5> QED
          BY <4>1, <5>1
      <4>3. CASE n # Len(got) + 1
        <5>1. (n \in DOMAIN got' <=> n \in DOMAIN got) /\ (n \in DOMAIN got => got'[n] = got[n])
          BY <2>6, <4>3
        <5> QED
          BY <4>1, <5>1
      <4> QED
        BY <4>2, <4>3
    <3>5. HeldAt'[<<"lost", 0>>] = HeldAt[<<"lost", 0>>]
      <4>1. HeldAt'[<<"lost", 0>>] = lost' /\ HeldAt[<<"lost", 0>>] = lost
        BY HeldIs DEF HeldAt
      <4> QED
        BY <2>3, <4>1
    <3> QED
      BY <3>1, <3>2, <3>3, <3>4, <3>5, PlaceSplit
  <2> QED
    BY <2>3, <2>7, <2>8, NumStays
<1>2. ASSUME NEW h \in Handles, NEW d \in Peers \cup {Self}, NEW t \in Tags, pt2pt_base_api_send_nb(h, d, t)
      PROVE NumInv'
  <2> DEFINE e == [op |-> "send", h |-> h, dst |-> d, tag |-> t, n |-> Len(sends) + 1]
  <2>1. Len(sends) + 1 \in Nat
    BY DEF TypeInv
  <2>2. e \in EventSet /\ e.op # "recv"
    BY <2>1 DEF EventSet, Sending
  <2>3. events' = [events EXCEPT !["globals"] = Append(@, e)]
        /\ UNCHANGED <<searched, unmatched, got, lost, arrived, crashed>>
    BY <1>2 DEF pt2pt_base_api_send_nb
  <2> HIDE DEF e
  <2>4. \A c \in Bases : Once(events'[c], "recv") /\ NumbersOf(events'[c], "recv") = NumbersOf(events[c], "recv")
    <3>1. Puts("globals", e)
      BY <2>3 DEF Puts
    <3> TAKE c \in Bases
    <3> QED
      BY <1>0, <1>p, <2>2, <3>1, EnqueuedNumbers DEF OnceInv
  <2>5. OnceInv'
    BY <1>0, <2>3, <2>4 DEF OnceInv
  <2>6. \A x \in Place \ {} : HeldAt'[x] = HeldAt[x]
    <3> TAKE x \in Place \ {}
    <3> QED
      BY <2>3, <2>4, Elsewhere
  <2> QED
    BY <2>3, <2>5, <2>6, NumStays
<1>3. ASSUME NEW h \in Handles \cup {Unknown}, NEW s \in Peers, NEW t \in Tags, PT2PT_POST_MESSAGE(h, s, t)
      PROVE NumInv'
  <2> DEFINE e == Recv(h, s, t)
  <2>1. arrived + 1 \in Nat \ {0}
    BY DEF TypeInv
  <2>2. e \in EventSet /\ e.op = "recv" /\ e.n = arrived + 1
    BY <2>1 DEF EventSet, Message, Recv
  <2>3. events' = [events EXCEPT ![pt2ptBase] = Append(@, e)] /\ arrived' = arrived + 1
        /\ UNCHANGED <<searched, unmatched, got, lost, crashed>>
    BY <1>3 DEF PT2PT_POST_MESSAGE
  <2> HIDE DEF e
  <2>4. \A c \in Bases : /\ Once(events'[c], "recv")
                         /\ NumbersOf(events'[c], "recv") =
                              NumbersOf(events[c], "recv") \cup (IF c = pt2ptBase THEN {arrived + 1} ELSE {})
    <3>1. e.n \notin NumbersOf(events[pt2ptBase], "recv")
      BY <1>p, <2>2, Fresh
    <3> TAKE c \in Bases
    <3>2. /\ Once(events'[c], "recv")
          /\ c = pt2ptBase => NumbersOf(events'[c], "recv") = NumbersOf(events[c], "recv") \cup {e.n}
          /\ c # pt2ptBase => NumbersOf(events'[c], "recv") = NumbersOf(events[c], "recv")
      <4>1. Puts(pt2ptBase, e)
        BY <2>3 DEF Puts
      <4> QED
        BY <1>0, <1>p, <2>2, <3>1, <4>1, EnqueuedNumbers DEF OnceInv
    <3> QED
      BY <2>2, <3>2
  <2> QED
    BY <1>0, <1>p, <2>3, <2>4, NumArrives
<1>4. ASSUME NEW h \in Handles, Delete(h) PROVE NumInv'
  <2> DEFINE p == <<"list", h>>
             q == <<"lost", 0>>
             X == NumbersOf(unmatched[h], "recv")
  <2>1. unmatched \in [Handles -> Seq(Message)]
    BY DEF TypeInv
  <2>2. unmatched' = [unmatched EXCEPT ![h] = <<>>] /\ lost' = lost \cup X
        /\ UNCHANGED <<events, searched, got, arrived>> /\ ~crashed
    BY <1>4, <2>1, ListNumbers DEF Delete, Freed
  <2>3. OnceInv'
    <3>1. \A g \in Handles : Once(unmatched'[g], "recv")
      BY <1>0, <2>1, <2>2, NumbersEmpty DEF OnceInv
    <3> QED
      BY <1>0, <2>2, <3>1 DEF OnceInv
  <2>4. p \in Place /\ q \in Place /\ p # q
    BY DEF Place
  <2>5. HeldAt[p] = X /\ HeldAt'[p] = {} /\ HeldAt[q] = lost /\ HeldAt'[q] = lost \cup X
    <3>1. HeldAt[p] = X /\ HeldAt'[p] = NumbersOf(unmatched'[h], "recv") /\ HeldAt[q] = lost /\ HeldAt'[q] = lost'
      BY HeldIs DEF HeldAt
    <3>2. unmatched'[h] = <<>>
      BY <2>1, <2>2
    <3> QED
      BY <2>2, <3>1, <3>2, NumbersEmpty
  <2>6. \A x \in Place \ {p, q} : HeldAt'[x] = HeldAt[x]
    <3>1. \A g \in Handles : <<"list", g>> \notin {p, q} => unmatched'[g] = unmatched[g]
      BY <2>1, <2>2
    <3> QED
      BY <2>2, <3>1, Elsewhere
  <2> HIDE DEF p, q, X
  <2>7. HeldAt'[p] = HeldAt[p] \ X /\ HeldAt'[q] = HeldAt[q] \cup X /\ X \subseteq HeldAt[p]
    BY <2>5
  <2> QED
    BY <2>2, <2>3, <2>4, <2>6, <2>7, NumMoves
<1>5. ASSUME NEW b \in Bases, PostRecv(b) PROVE NumInv'
  <2> DEFINE h == Event(b).h
             r == Event(b).r
             woken == match_posted_recv(r, h)
             s == unmatched[h]
             new == Picked(s, woken)
             p == <<"list", h>>
             q == <<"events", "globals">>
             X == {s[i].n : i \in woken \cap DOMAIN s}
  <2>1. Event(b).op = "post" /\ events[b] # <<>> /\ h \in Handles
    BY <1>0, <1>5 DEF PostRecv, HeadIs, TypeInv
  <2>2. /\ unmatched' = [unmatched EXCEPT ![h] = Held(h, woken)]
        /\ Done(b, "globals", new)
        /\ UNCHANGED <<searched, got, lost, arrived, crashed>>
    BY <1>5 DEF PostRecv
  <2> HIDE DEF h, r, woken
  <2>3. s \in Seq(Message) /\ Once(s, "recv") /\ unmatched \in [Handles -> Seq(Message)]
    BY <1>0, <2>1 DEF TypeInv, OnceInv
  <2>4. new \in Seq(Message) /\ Once(new, "recv") /\ NumbersOf(new, "recv") = X
    BY <2>3, PickedPlaces, PickedNumbers
  <2>5. Once(Held(h, woken), "recv") /\ NumbersOf(Held(h, woken), "recv") = NumbersOf(s, "recv") \ X
    <3> DEFINE Y == {s[i].n : i \in (DOMAIN s \ woken) \cap DOMAIN s}
    <3>1. Once(Held(h, woken), "recv") /\ NumbersOf(Held(h, woken), "recv") = Y
      BY <2>3, PickedNumbers DEF Held
    <3>2. NumbersOf(s, "recv") = {s[i].n : i \in DOMAIN s} /\ At(s, "recv") = DOMAIN s
      BY <2>3, ListNumbers
    <3>3. \A i, j \in DOMAIN s : s[i].n = s[j].n => i = j
      BY <2>3, <3>2 DEF Once
    <3>4. Y = NumbersOf(s, "recv") \ X
      BY <3>2, <3>3
    <3> QED
      BY <3>1, <3>4
  <2>6. X \subseteq NumbersOf(s, "recv")
    BY <2>3, ListNumbers
  <2>7. p \in Place /\ q \in Place /\ p # q
    BY <1>p, <2>1 DEF Place
  <2>8. HeldAt[p] = NumbersOf(s, "recv") /\ HeldAt[q] = NumbersOf(events["globals"], "recv")
    BY <1>p, <2>1, HeldIs DEF HeldAt
  <2> HIDE DEF X, new
  <2>9. NumbersOf(new, "recv") \cap NumbersOf(events["globals"], "recv") = {}
    BY <2>4, <2>6, <2>7, <2>8 DEF NumInv, Apart
  <2>10. new \in Seq(EventSet)
    BY <2>4 DEF EventSet
  <2>11. \A c \in Bases :
            /\ Once(events'[c], "recv")
            /\ NumbersOf(events'[c], "recv") = NumbersOf(events[c], "recv") \cup (IF c = "globals" THEN X ELSE {})
    <3> TAKE c \in Bases
    <3>1. /\ Once(events'[c], "recv")
          /\ NumbersOf(events'[c], "recv") =
                (NumbersOf(events[c], "recv") \ (IF c = b /\ Event(b).op = "recv" THEN {Event(b).n} ELSE {}))
                \cup (IF c = "globals" THEN NumbersOf(new, "recv") ELSE {})
      BY <1>0, <1>p, <2>1, <2>2, <2>4, <2>9, <2>10, QueuedNumbers DEF OnceInv
    <3> QED
      BY <2>1, <2>4, <3>1
  <2>12. OnceInv'
    <3>1. \A g \in Handles : Once(unmatched'[g], "recv")
      BY <1>0, <2>2, <2>3, <2>5 DEF OnceInv
    <3> QED
      BY <1>0, <2>2, <2>11, <3>1 DEF OnceInv
  <2>13. HeldAt'[p] = HeldAt[p] \ X /\ HeldAt'[q] = HeldAt[q] \cup X
    <3>1. HeldAt'[p] = NumbersOf(unmatched'[h], "recv") /\ HeldAt'[q] = NumbersOf(events'["globals"], "recv")
      BY <1>p, <2>1, HeldIs DEF HeldAt
    <3>2. unmatched'[h] = Held(h, woken)
      BY <2>1, <2>2, <2>3
    <3> QED
      BY <1>p, <2>5, <2>8, <2>11, <3>1, <3>2
  <2>14. \A x \in Place \ {p, q} : HeldAt'[x] = HeldAt[x]
    <3>1. \A g \in Handles : <<"list", g>> \notin {p, q} => unmatched'[g] = unmatched[g]
      BY <2>2, <2>3
    <3>2. \A c \in Bases : <<"events", c>> \notin {p, q} => NumbersOf(events'[c], "recv") = NumbersOf(events[c], "recv")
      BY <2>11
    <3> QED
      BY <2>2, <3>1, <3>2, Elsewhere
  <2> HIDE DEF p, q, s
  <2>15. X \subseteq HeldAt[p]
    BY <2>6, <2>8
  <2> QED
    BY <2>2, <2>7, <2>12, <2>13, <2>14, <2>15, NumMoves
<1>6. ASSUME NEW b \in Bases, Dangling(b) PROVE NumInv'
  <2>1. UNCHANGED <<events, searched, unmatched, got, lost, arrived>> /\ crashed'
    BY <1>6 DEF Dangling
  <2>2. HeldAt' = HeldAt
    BY <2>1 DEF HeldAt
  <2> QED
    BY <2>1, <2>2 DEF NumInv
<1>7. ASSUME NEW b \in Bases, SelfSend(b) PROVE NumInv'
  <2> DEFINE e == Recv(Event(b).h, Self, Event(b).tag)
             new == <<e>>
  <2>1. Event(b) \in Sending /\ events[b] # <<>> /\ Event(b).op = "send"
    BY <1>0, <1>7 DEF SelfSend, HeadIs
  <2>2. arrived + 1 \in Nat \ {0}
    BY DEF TypeInv
  <2>3. e \in EventSet /\ e.op = "recv" /\ e.n = arrived + 1
    BY <2>1, <2>2 DEF EventSet, Message, Sending, Recv
  <2>4. Done(b, pt2ptBase, new) /\ arrived' = arrived + 1
        /\ UNCHANGED <<searched, unmatched, got, lost, crashed>>
    BY <1>7 DEF SelfSend
  <2>5. new \in Seq(EventSet) /\ Once(new, "recv") /\ NumbersOf(new, "recv") = {arrived + 1}
    <3> HIDE DEF e
    <3>1. Once(new, "recv") /\ NumbersOf(new, "recv") = {e.n}
      BY <2>3, NumbersOne
    <3> QED
      BY <2>3, <3>1
  <2> HIDE DEF new
  <2>6. NumbersOf(new, "recv") \cap NumbersOf(events[pt2ptBase], "recv") = {}
    BY <1>p, <2>5, Fresh
  <2>7. \A c \in Bases : /\ Once(events'[c], "recv")
                         /\ NumbersOf(events'[c], "recv") =
                              NumbersOf(events[c], "recv") \cup (IF c = pt2ptBase THEN {arrived + 1} ELSE {})
    <3> TAKE c \in Bases
    <3>1. /\ Once(events'[c], "recv")
          /\ NumbersOf(events'[c], "recv") =
                (NumbersOf(events[c], "recv") \ (IF c = b /\ Event(b).op = "recv" THEN {Event(b).n} ELSE {}))
                \cup (IF c = pt2ptBase THEN NumbersOf(new, "recv") ELSE {})
      BY <1>0, <1>p, <2>1, <2>4, <2>5, <2>6, QueuedNumbers DEF OnceInv
    <3> QED
      BY <2>1, <2>5, <3>1
  <2> QED
    BY <1>0, <1>p, <2>4, <2>7, NumArrives
\* The head of a queue is handled, and nothing is queued for it.
<1>8. ASSUME NEW b \in Bases, NEW op, Runs(b, op), Done(b, b, <<>>)
      PROVE \A c \in Bases :
               /\ Once(events'[c], "recv")
               /\ c = b /\ op = "recv" =>
                     NumbersOf(events'[c], "recv") = NumbersOf(events[c], "recv") \ {Event(b).n}
               /\ ~(c = b /\ op = "recv") => NumbersOf(events'[c], "recv") = NumbersOf(events[c], "recv")
  <2> DEFINE none == <<>>
  <2>1. events[b] # <<>> /\ Event(b).op = op
    BY <1>0, <1>8 DEF HeadIs
  <2>2. Once(none, "recv") /\ NumbersOf(none, "recv") = {} /\ none \in Seq(EventSet) /\ Done(b, b, none)
    BY <1>e, <1>8, NumbersEmpty
  <2> HIDE DEF none
  <2> TAKE c \in Bases
  <2>3. /\ Once(events'[c], "recv")
        /\ NumbersOf(events'[c], "recv") =
              (NumbersOf(events[c], "recv") \ (IF c = b /\ Event(b).op = "recv" THEN {Event(b).n} ELSE {}))
              \cup (IF c = b THEN NumbersOf(none, "recv") ELSE {})
    BY <1>0, <2>1, <2>2, QueuedNumbers DEF OnceInv
  <2> QED
    BY <2>1, <2>2, <2>3
<1>9. ASSUME NEW b \in Bases, Runs(b, "recv")
      PROVE /\ <<"events", b>> \in Place /\ {Event(b).n} \subseteq HeldAt[<<"events", b>>]
            /\ \A x \in Place : x # <<"events", b>> => Event(b).n \notin HeldAt[x]
  <2>1. HeldAt[<<"events", b>>] = NumbersOf(events[b], "recv") /\ <<"events", b>> \in Place
    BY HeldIs DEF HeldAt, Place
  <2>2. Event(b).n \in NumbersOf(events[b], "recv")
    BY <1>0, <1>9 DEF HeadIs, NumbersOf, At
  <2> QED
    BY <2>1, <2>2 DEF NumInv, Apart
<1>10. ASSUME NEW b \in Bases, ProcessSend(b) PROVE NumInv'
  <2>1. Runs(b, "send") /\ Done(b, b, <<>>) /\ UNCHANGED <<searched, unmatched, got, lost, arrived>> /\ ~crashed
    BY <1>0, <1>10 DEF ProcessSend, HeadIs
  <2>2. \A c \in Bases : Once(events'[c], "recv") /\ NumbersOf(events'[c], "recv") = NumbersOf(events[c], "recv")
    <3> TAKE c \in Bases
    <3>1. /\ Once(events'[c], "recv")
          /\ ~(c = b /\ "send" = "recv") => NumbersOf(events'[c], "recv") = NumbersOf(events[c], "recv")
      BY <1>8, <2>1
    <3> QED
      BY <3>1
  <2>3. OnceInv'
    BY <1>0, <2>1, <2>2 DEF OnceInv
  <2>4. \A x \in Place \ {} : HeldAt'[x] = HeldAt[x]
    <3> TAKE x \in Place \ {}
    <3> QED
      BY <2>1, <2>2, Elsewhere
  <2> QED
    BY <2>1, <2>3, <2>4, NumStays
<1>11. ASSUME NEW b \in Bases, Drop(b) PROVE NumInv'
  <2> DEFINE p == <<"events", b>>
             q == <<"lost", 0>>
             X == {Event(b).n}
  <2>1. Runs(b, "recv") /\ Done(b, b, <<>>) /\ lost' = lost \cup X
        /\ UNCHANGED <<searched, unmatched, got, arrived, crashed>>
    BY <1>11 DEF Drop
  <2>2. \A c \in Bases : Once(events'[c], "recv") /\ NumbersOf(events'[c], "recv")
            = NumbersOf(events[c], "recv") \ (IF c = b THEN X ELSE {})
    BY <1>8, <2>1
  <2>3. OnceInv'
    BY <1>0, <2>1, <2>2 DEF OnceInv
  <2>4. p \in Place /\ q \in Place /\ p # q /\ X \subseteq HeldAt[p]
    BY <1>9, <2>1 DEF Place
  <2>5. HeldAt'[p] = HeldAt[p] \ X /\ HeldAt'[q] = HeldAt[q] \cup X
    <3>1. /\ HeldAt'[p] = NumbersOf(events'[b], "recv") /\ HeldAt[p] = NumbersOf(events[b], "recv")
          /\ HeldAt'[q] = lost' /\ HeldAt[q] = lost
      BY HeldIs DEF HeldAt
    <3> QED
      BY <2>1, <2>2, <3>1
  <2>6. \A x \in Place \ {p, q} : HeldAt'[x] = HeldAt[x]
    <3>1. \A c \in Bases : <<"events", c>> \notin {p, q} => NumbersOf(events'[c], "recv") = NumbersOf(events[c], "recv")
      BY <2>2
    <3> QED
      BY <2>1, <3>1, Elsewhere
  <2> HIDE DEF p, q, X
  <2> QED
    BY <2>1, <2>3, <2>4, <2>5, <2>6, NumMoves
<1>13. CASE UNCHANGED matchVars
  <2>1. UNCHANGED <<events, searched, unmatched, got, lost, arrived, crashed>>
    BY <1>13 DEF matchVars
  <2>2. HeldAt' = HeldAt
    BY <2>1 DEF HeldAt
  <2> QED
    BY <2>1, <2>2 DEF NumInv
<1>12. ASSUME NEW b \in Bases, HandOver(b) PROVE NumInv'
  <2> DEFINE m == Event(b)
             n == Taker(b).n
             p == <<"events", b>>
             q == <<"got", n>>
             X == {m.n}
  <2>1. Runs(b, "recv") /\ got' = [got EXCEPT ![n] = Append(@, m)] /\ Done(b, b, <<>>)
        /\ UNCHANGED <<unmatched, searched, lost, arrived, crashed>>
    BY <1>12, HandOverIs
  <2>2. m \in Message
    BY SMTT(60), <1>0, <2>1 DEF HeadIs
  <2>3. n \in DOMAIN got
    BY <1>12, HandOverIs DEF PendInv, Taker, TypeInv
  <2> HIDE DEF n
  <2>4. got \in Seq(Seq(Message)) /\ got[n] \in Seq(Message) /\ DOMAIN got = 1..Len(got) /\ n \in Nat
    BY <2>3 DEF TypeInv
  <2>5. /\ DOMAIN got' = DOMAIN got /\ got'[n] = Append(got[n], m)
        /\ \A k \in DOMAIN got : k # n => got'[k] = got[k]
    BY <2>1, <2>3
  <2>6. \A c \in Bases : Once(events'[c], "recv") /\ NumbersOf(events'[c], "recv")
            = NumbersOf(events[c], "recv") \ (IF c = b THEN X ELSE {})
    BY <1>8, <2>1
  <2>7. p \in Place /\ q \in Place /\ p # q /\ X \subseteq HeldAt[p]
    BY <1>9, <2>1, <2>4 DEF Place
  <2>8. HeldAt[q] = NumbersOf(got[n], "recv")
    BY <2>3, <2>4, HeldIs DEF HeldAt
  <2>9. m.n \notin NumbersOf(got[n], "recv")
    BY <1>9, <2>1, <2>7, <2>8
  <2>10. Once(got'[n], "recv") /\ NumbersOf(got'[n], "recv") = NumbersOf(got[n], "recv") \cup X
    BY <1>0, <2>2, <2>3, <2>4, <2>5, <2>9, AppendNumbers DEF OnceInv
  <2>11. OnceInv'
    <3>1. \A k \in DOMAIN got' : Once(got'[k], "recv")
      BY <1>0, <2>5, <2>10 DEF OnceInv
    <3> QED
      BY <1>0, <2>1, <2>6, <3>1 DEF OnceInv
  <2>12. HeldAt'[p] = HeldAt[p] \ X /\ HeldAt'[q] = HeldAt[q] \cup X
    <3>1. /\ HeldAt'[p] = NumbersOf(events'[b], "recv") /\ HeldAt[p] = NumbersOf(events[b], "recv")
          /\ HeldAt'[q] = IF n \in DOMAIN got' THEN NumbersOf(got'[n], "recv") ELSE {}
      BY <2>4, HeldIs DEF HeldAt
    <3> QED
      BY <2>3, <2>5, <2>6, <2>8, <2>10, <3>1
  <2>13. \A x \in Place \ {p, q} : HeldAt'[x] = HeldAt[x]
    <3>1. \A c \in Bases : <<"events", c>> \notin {p, q} => NumbersOf(events'[c], "recv") = NumbersOf(events[c], "recv")
      BY <2>6
    <3>2. \A k \in DOMAIN got : <<"got", k>> \notin {p, q} => got'[k] = got[k]
      BY <2>5
    <3> QED
      BY <2>1, <2>5, <3>1, <3>2, Elsewhere
  <2> HIDE DEF p, q, X
  <2> QED
    BY <2>1, <2>7, <2>11, <2>12, <2>13, NumMoves
<1>14. ASSUME NEW b \in Bases, Search(b) PROVE NumInv'
  <2> DEFINE m == Event(b)
             p == <<"events", b>>
             X == {m.n}
  <2>1. Runs(b, "recv") /\ m.h \in scons /\ Done(b, b, <<>>) /\ UNCHANGED <<got, lost, arrived, crashed>>
    BY <1>14 DEF Search
  <2>2. m \in Message /\ m.n \in Nat \ {0} /\ m.h \in Handles /\ searched[b] = NoMessage
    BY <1>0, <2>1 DEF HeadIs, Message, TypeInv
  <2>3. \A c \in Bases : Once(events'[c], "recv") /\ NumbersOf(events'[c], "recv")
            = NumbersOf(events[c], "recv") \ (IF c = b THEN X ELSE {})
    BY <1>8, <2>1
  <2>4. HeldAt'[p] = HeldAt[p] \ X
    <3>1. HeldAt'[p] = NumbersOf(events'[b], "recv") /\ HeldAt[p] = NumbersOf(events[b], "recv")
      BY HeldIs DEF HeldAt
    <3> QED
      BY <2>3, <3>1
  <2>5. p \in Place /\ X \subseteq HeldAt[p]
    BY <1>9, <2>1
  <2>6. CASE oneBase
    <3> DEFINE q == <<"list", m.h>>
    <3>1. unmatched' = [unmatched EXCEPT ![m.h] = Append(@, m)] /\ searched' = searched
      BY <1>14, <2>6 DEF Search
    <3>2. unmatched \in [Handles -> Seq(Message)] /\ q \in Place /\ p # q
      BY <2>2 DEF TypeInv, Place
    <3>3. HeldAt[q] = NumbersOf(unmatched[m.h], "recv") /\ HeldAt'[q] = NumbersOf(unmatched'[m.h], "recv")
      BY <2>2, HeldIs DEF HeldAt
    <3>4. m.n \notin NumbersOf(unmatched[m.h], "recv")
      BY <1>9, <2>1, <3>2, <3>3
    <3>5. /\ unmatched'[m.h] = Append(unmatched[m.h], m) /\ unmatched[m.h] \in Seq(Message)
          /\ \A g \in Handles : g # m.h => unmatched'[g] = unmatched[g]
      BY <2>2, <3>1, <3>2
    <3>6. Once(unmatched'[m.h], "recv") /\ NumbersOf(unmatched'[m.h], "recv") = NumbersOf(unmatched[m.h], "recv") \cup X
      BY <1>0, <2>2, <3>4, <3>5, AppendNumbers DEF OnceInv
    <3>7. OnceInv'
      BY <1>0, <2>1, <2>3, <3>5, <3>6 DEF OnceInv
    <3>8. \A x \in Place \ {p, q} : HeldAt'[x] = HeldAt[x]
      <4>1. \A c \in Bases : <<"events", c>> \notin {p, q} => NumbersOf(events'[c], "recv") = NumbersOf(events[c], "recv")
        BY <2>3
      <4>2. \A g \in Handles : <<"list", g>> \notin {p, q} => unmatched'[g] = unmatched[g]
        BY <3>5
      <4> QED
        BY <2>1, <3>1, <4>1, <4>2, Elsewhere
    <3>9. HeldAt'[q] = HeldAt[q] \cup X
      BY <3>3, <3>6
    <3> HIDE DEF p, q, X
    <3> QED
      BY <2>1, <2>4, <2>5, <3>2, <3>7, <3>8, <3>9, NumMoves
  <2>7. CASE ~oneBase
    <3> DEFINE q == <<"search", b>>
    <3>1. searched' = [searched EXCEPT ![b] = m] /\ unmatched' = unmatched
      BY <1>14, <2>7 DEF Search
    <3>2. q \in Place /\ p # q /\ searched \in [Bases -> Message \cup {NoMessage}]
      BY DEF Place, TypeInv
    <3>3. HeldAt[q] = {} /\ HeldAt'[q] = {searched'[b].n} \ {0}
      <4>1. HeldAt[q] = {searched[b].n} \ {0} /\ HeldAt'[q] = {searched'[b].n} \ {0}
        BY HeldIs DEF HeldAt
      <4> QED
        BY <2>2, <4>1 DEF NoMessage
    <3>4. searched'[b] = m /\ \A c \in Bases : c # b => searched'[c] = searched[c]
      BY <3>1, <3>2
    <3>5. HeldAt'[q] = HeldAt[q] \cup X
      BY <2>2, <3>3, <3>4
    <3>6. OnceInv'
      BY <1>0, <2>1, <2>3, <3>1 DEF OnceInv
    <3>7. \A x \in Place \ {p, q} : HeldAt'[x] = HeldAt[x]
      <4>1. \A c \in Bases : <<"events", c>> \notin {p, q} => NumbersOf(events'[c], "recv") = NumbersOf(events[c], "recv")
        BY <2>3
      <4>2. \A c \in Bases : <<"search", c>> \notin {p, q} => searched'[c] = searched[c]
        BY <3>4
      <4> QED
        BY <2>1, <3>1, <4>1, <4>2, Elsewhere
    <3> HIDE DEF p, q, X
    <3> QED
      BY <2>1, <2>4, <2>5, <3>2, <3>5, <3>6, <3>7, NumMoves
  <2> QED
    BY <2>6, <2>7
<1>15. ASSUME NEW b \in Bases, Hold(b) PROVE NumInv'
  <2> DEFINE m == searched[b]
             p == <<"search", b>>
             q == <<"list", m.h>>
             X == {m.n}
  <2>1. searched' = [searched EXCEPT ![b] = NoMessage] /\ UNCHANGED <<events, got, lost, arrived>>
        /\ ~crashed /\ m # NoMessage
    BY <1>15 DEF Hold
  <2>2. m \in Message /\ m.n \in Nat \ {0} /\ m.h \in Handles /\ searched \in [Bases -> Message \cup {NoMessage}]
    BY <2>1 DEF TypeInv, Message, PlaceInv
  <2>3. searched'[b] = NoMessage /\ \A c \in Bases : c # b => searched'[c] = searched[c]
    BY <2>1, <2>2
  <2>4. p \in Place /\ q \in Place /\ p # q
    BY <2>2 DEF Place
  <2>5. HeldAt[p] = X /\ HeldAt'[p] = {}
    <3>1. HeldAt[p] = {searched[b].n} \ {0} /\ HeldAt'[p] = {searched'[b].n} \ {0}
      BY HeldIs DEF HeldAt
    <3> QED
      BY <2>2, <2>3, <3>1 DEF NoMessage
  <2>6. CASE m.h \in scons
    <3>1. unmatched' = [unmatched EXCEPT ![m.h] = Append(@, m)] /\ crashed' = crashed
      BY <1>15, <2>6 DEF Hold
    <3>2. unmatched \in [Handles -> Seq(Message)]
      BY DEF TypeInv
    <3>3. HeldAt[q] = NumbersOf(unmatched[m.h], "recv") /\ HeldAt'[q] = NumbersOf(unmatched'[m.h], "recv")
      BY <2>2, HeldIs DEF HeldAt
    <3>4. m.n \notin NumbersOf(unmatched[m.h], "recv")
      <4>1. HeldAt[p] \cap HeldAt[q] = {}
        BY <2>4 DEF NumInv, Apart
      <4> QED
        BY <2>5, <3>3, <4>1
    <3>5. /\ unmatched'[m.h] = Append(unmatched[m.h], m) /\ unmatched[m.h] \in Seq(Message)
          /\ \A g \in Handles : g # m.h => unmatched'[g] = unmatched[g]
      BY <2>2, <3>1, <3>2
    <3>6. Once(unmatched'[m.h], "recv") /\ NumbersOf(unmatched'[m.h], "recv") = NumbersOf(unmatched[m.h], "recv") \cup X
      BY <1>0, <2>2, <3>4, <3>5, AppendNumbers DEF OnceInv
    <3>7. OnceInv'
      BY <1>0, <2>1, <3>5, <3>6 DEF OnceInv
    <3>8. \A x \in Place \ {p, q} : HeldAt'[x] = HeldAt[x]
      <4>1. \A c \in Bases : <<"search", c>> \notin {p, q} => searched'[c] = searched[c]
        BY <2>3
      <4>2. \A g \in Handles : <<"list", g>> \notin {p, q} => unmatched'[g] = unmatched[g]
        BY <3>5
      <4> QED
        BY <2>1, <4>1, <4>2, Elsewhere
    <3>9. HeldAt'[q] = HeldAt[q] \cup X /\ HeldAt'[p] = HeldAt[p] \ X /\ X \subseteq HeldAt[p]
      BY <2>5, <3>3, <3>6
    <3> HIDE DEF p, q, X
    <3> QED
      BY <2>1, <2>4, <3>1, <3>7, <3>8, <3>9, NumMoves
  <2>7. CASE m.h \notin scons
    <3>1. unmatched' = unmatched /\ crashed'
      BY <1>15, <2>7 DEF Hold
    <3>2. \A x \in Place \ {p} : HeldAt'[x] = HeldAt[x]
      <4>1. \A c \in Bases : <<"search", c>> \notin {p} => searched'[c] = searched[c]
        BY <2>3
      <4> QED
        BY <2>1, <3>1, <4>1, Elsewhere
    <3>3. \A x \in Place : HeldAt'[x] \subseteq HeldAt[x]
      BY <2>5, <3>2
    <3>4. Apart(HeldAt') /\ All(HeldAt') \subseteq All(HeldAt)
      BY <3>3 DEF NumInv, Apart, All
    <3> QED
      BY <1>0, <2>1, <3>1, <3>4 DEF NumInv, OnceInv
  <2> QED
    BY <2>6, <2>7
<1> QED
  BY <1>1, <1>2, <1>3, <1>4, <1>5, <1>6, <1>7, <1>10, <1>11, <1>12, <1>13, <1>14, <1>15 DEF MatchNext, Handle

-----------------------------------------------------------------------------
\* A message more than the connections brought is a send to ourselves that is complete.
Complete == {n \in DOMAIN sends : sends[n] = "complete"}
SendInv ==
    /\ Len(sends) <= MaxSends
    /\ \A b \in Bases : Once(events[b], "send")
    /\ \A x \in NumbersOf(events["globals"], "send") : x \in DOMAIN sends /\ sends[x] = "queued"
    /\ arrived <= MaxMessages + Cardinality(Complete)

\* There are at most as many complete sends as sends.
LEMMA CompleteIs ==
    ASSUME TypeInv
    PROVE IsFiniteSet(Complete) /\ Cardinality(Complete) \in Nat /\ Cardinality(Complete) <= Len(sends)
<1>1. Len(sends) \in Nat /\ DOMAIN sends = 1..Len(sends)
  BY DEF TypeInv
<1>2. IsFiniteSet(1..Len(sends)) /\ Cardinality(1..Len(sends)) = Len(sends)
  <2> DEFINE n == Len(sends)
  <2>1. n \in Nat
    BY <1>1
  <2> HIDE DEF n
  <2>2. n \in Int /\ 1 \in Int /\ (1 > n => n = 0)
    BY <2>1
  <2>3. IsFiniteSet(1..n) /\ Cardinality(1..n) = IF 1 > n THEN 0 ELSE n - 1 + 1
    BY <2>2, FS_Interval
  <2>4. Cardinality(1..n) = n
    BY <2>1, <2>2, <2>3
  <2> QED
    BY <2>3, <2>4 DEF n
<1>3. Complete \in SUBSET (1..Len(sends))
  BY <1>1 DEF Complete
<1> QED
  BY <1>2, <1>3, FS_Subset, FS_CardinalityType

\* The sends that are pending after a handler has run.
LEMMA Popped ==
    ASSUME TypeInv, NEW b \in Bases, NEW to \in Bases, NEW new \in Seq(Message), NEW op,
           Runs(b, op), Done(b, to, new), \A c \in Bases : Once(events[c], "send")
    PROVE \A c \in Bases :
             /\ Once(events'[c], "send")
             /\ NumbersOf(events'[c], "send") \subseteq NumbersOf(events[c], "send")
             /\ c = b /\ op = "send" => Event(b).n \notin NumbersOf(events'[c], "send")
<1> TAKE c \in Bases
<1>1. new \in Seq(EventSet)
  BY DEF EventSet
<1>2. Once(new, "send") /\ NumbersOf(new, "send") = {}
  <2>1. \A i \in DOMAIN new : new[i].op = "recv"
    <3>1. \A i \in DOMAIN new : new[i] \in Message
      OBVIOUS
    <3> QED
      BY <3>1 DEF Message
  <2>2. At(new, "send") = {}
    BY <2>1 DEF At
  <2> QED
    BY <2>2 DEF Once, NumbersOf
<1>3. events[b] # <<>> /\ Event(b).op = op
  BY HeadFacts DEF HeadIs
<1>4. /\ Once(events'[c], "send")
      /\ NumbersOf(events'[c], "send") =
            (NumbersOf(events[c], "send") \ (IF c = b /\ Event(b).op = "send" THEN {Event(b).n} ELSE {}))
            \cup (IF c = to THEN NumbersOf(new, "send") ELSE {})
  BY <1>1, <1>2, <1>3, QueuedNumbers
<1> QED
  BY <1>2, <1>3, <1>4

\* At first there is no send.
LEMMA SendInit == MatchInit => SendInv
<1> SUFFICES ASSUME MatchInit PROVE SendInv
  OBVIOUS
<1>1. \A b \in Bases : events[b] = <<>>
  BY DEF MatchInit
<1>2. \A b \in Bases : Once(events[b], "send") /\ NumbersOf(events[b], "send") = {}
  BY <1>1, NumbersEmpty
<1>3. TypeInv /\ sends = <<>> /\ arrived = 0
  BY TypeInit DEF MatchInit
<1>4. MaxMessages \in Nat /\ MaxSends \in Nat
  BY MatchAssumption
<1>5. Cardinality(Complete) \in Nat
  BY <1>3, CompleteIs
<1>6. Len(sends) <= MaxSends /\ arrived <= MaxMessages + Cardinality(Complete)
  BY <1>3, <1>4, <1>5
<1> QED
  BY <1>2, <1>6 DEF SendInv, Bases

\* SendInv in every step: a send to ourselves makes one message.
LEMMA SendStep == TypeInv /\ PlaceInv /\ SendInv /\ [MatchNext]_matchVars => SendInv'
<1> SUFFICES ASSUME TypeInv, PlaceInv, SendInv, [MatchNext]_matchVars PROVE SendInv'
  OBVIOUS
<1>0. HeadIs /\ Cardinality(Complete) \in Nat /\ IsFiniteSet(Complete)
  BY HeadFacts, CompleteIs
<1>n. MaxMessages \in Nat /\ MaxSends \in Nat /\ arrived \in Nat
  BY MatchAssumption DEF TypeInv
<1>p. pt2ptBase \in Bases /\ "globals" \in Bases /\ \A b \in Bases : Once(events[b], "send")
  BY DEF Bases, pt2ptBase, SendInv
<1>s. sends \in Seq({"queued", "complete", "module", "failed", "fault"}) /\ DOMAIN sends = 1..Len(sends)
      /\ Len(sends) \in Nat
  BY DEF TypeInv
\* With fewer pending, and the sends as they were, it stays.
<1>f. ASSUME UNCHANGED <<sends, arrived>>,
             \A c \in Bases : /\ Once(events'[c], "send")
                              /\ NumbersOf(events'[c], "send") \subseteq NumbersOf(events[c], "send")
      PROVE SendInv'
  <2>1. Complete' = Complete
    BY <1>f DEF Complete
  <2> QED
    BY <1>f, <1>p, <2>1 DEF SendInv
\* No send is queued.
<1>q. ASSUME NEW b \in Bases, NEW e \in EventSet, e.op # "send", Puts(b, e)
      PROVE \A c \in Bases : Once(events'[c], "send") /\ NumbersOf(events'[c], "send") = NumbersOf(events[c], "send")
  <2> TAKE c \in Bases
  <2> QED
    BY <1>p, <1>q, EnqueuedNumbers
<1>1. ASSUME NEW h \in Handles, NEW r \in Receives, pt2pt_base_api_recv_nb(h, r) PROVE SendInv'
  <2> DEFINE e == [op |-> "post", h |-> h, r |-> r, n |-> Len(got) + 1]
  <2>1. Len(got) + 1 \in Nat
    BY DEF TypeInv
  <2>2. e \in EventSet /\ e.op # "send"
    BY <2>1 DEF EventSet, Post
  <2>3. Puts("globals", e) /\ UNCHANGED <<sends, arrived>>
    BY <1>1 DEF pt2pt_base_api_recv_nb, Puts
  <2> HIDE DEF e
  <2>4. \A c \in Bases : Once(events'[c], "send") /\ NumbersOf(events'[c], "send") = NumbersOf(events[c], "send")
    BY <1>q, <1>p, <2>2, <2>3
  <2> QED
    BY <1>f, <2>3, <2>4
<1>2. ASSUME NEW h \in Handles, NEW d \in Peers \cup {Self}, NEW t \in Tags, pt2pt_base_api_send_nb(h, d, t)
      PROVE SendInv'
  <2> DEFINE n == Len(sends) + 1
             e == [op |-> "send", h |-> h, dst |-> d, tag |-> t, n |-> n]
  <2>1. n \in Nat /\ n \notin DOMAIN sends
    BY <1>s
  <2>2. e \in EventSet /\ e.op = "send" /\ e.n = n
    BY <2>1 DEF EventSet, Sending
  <2>3. Puts("globals", e) /\ sends' = Append(sends, "queued") /\ UNCHANGED arrived /\ Len(sends) < MaxSends
    BY <1>2 DEF pt2pt_base_api_send_nb, Puts
  <2>4. Len(sends') = n /\ DOMAIN sends' = DOMAIN sends \cup {n} /\ sends'[n] = "queued"
        /\ \A k \in DOMAIN sends : sends'[k] = sends[k]
    BY <1>s, <2>3
  <2>5. n <= MaxSends
    BY <1>n, <1>s, <2>3
  <2>6. n \notin NumbersOf(events["globals"], "send")
    BY <2>1 DEF SendInv
  <2> HIDE DEF e, n
  <2>7. ASSUME NEW c \in Bases PROVE Once(events'[c], "send")
    BY <1>p, <2>2, <2>3, <2>6, EnqueuedNumbers
  <2>8. \A x \in NumbersOf(events'["globals"], "send") : x = n \/ x \in NumbersOf(events["globals"], "send")
    <3> TAKE x \in NumbersOf(events'["globals"], "send")
    <3>1. x \in NumbersOf(events["globals"], "send") \/ x = e.n
      BY <1>p, <2>2, <2>3, <2>6, EnqueuedNumbers
    <3> QED
      BY <2>2, <3>1
  <2>9. Complete' = Complete
    BY <2>1, <2>4 DEF Complete
  <2>10. \A x \in NumbersOf(events'["globals"], "send") : x \in DOMAIN sends' /\ sends'[x] = "queued"
    BY <2>4, <2>8 DEF SendInv
  <2>11. Len(sends') <= MaxSends /\ arrived' <= MaxMessages + Cardinality(Complete')
    BY <2>3, <2>4, <2>5, <2>9 DEF SendInv
  <2> QED
    BY <2>7, <2>10, <2>11 DEF SendInv
<1>3. ASSUME NEW h \in Handles \cup {Unknown}, NEW s \in Peers, NEW t \in Tags, PT2PT_POST_MESSAGE(h, s, t)
      PROVE SendInv'
  <2> DEFINE e == Recv(h, s, t)
  <2>1. arrived + 1 \in Nat \ {0}
    BY DEF TypeInv
  <2>2. e \in EventSet /\ e.op # "send"
    BY <2>1 DEF EventSet, Message, Recv
  <2>3. Puts(pt2ptBase, e) /\ UNCHANGED sends /\ arrived' = arrived + 1 /\ arrived < MaxMessages
    BY <1>3 DEF PT2PT_POST_MESSAGE, Puts
  <2> HIDE DEF e
  <2>4. \A c \in Bases : Once(events'[c], "send") /\ NumbersOf(events'[c], "send") = NumbersOf(events[c], "send")
    BY <1>q, <1>p, <2>2, <2>3
  <2>5. Complete' = Complete
    BY <2>3 DEF Complete
  <2>6. arrived' <= MaxMessages + Cardinality(Complete')
    BY <1>0, <1>n, <2>3, <2>5
  <2> QED
    BY <1>p, <2>3, <2>4, <2>6 DEF SendInv
<1>4. ASSUME NEW h \in Handles, Delete(h) PROVE SendInv'
  BY <1>f, <1>p, <1>4 DEF Delete
<1>5. ASSUME NEW b \in Bases, PostRecv(b) PROVE SendInv'
  <2> DEFINE h == Event(b).h
             new == Picked(unmatched[h], match_posted_recv(Event(b).r, h))
  <2>1. Runs(b, "post") /\ h \in Handles /\ Done(b, "globals", new) /\ UNCHANGED <<sends, arrived>>
    BY <1>5 DEF PostRecv, TypeInv
  <2>2. unmatched[h] \in Seq(Message)
    BY <2>1 DEF TypeInv
  <2>3. new \in Seq(Message)
    BY <2>2, PickedPlaces
  <2> HIDE DEF new, h
  <2>4. \A c \in Bases : /\ Once(events'[c], "send")
                         /\ NumbersOf(events'[c], "send") \subseteq NumbersOf(events[c], "send")
    BY <1>p, <2>1, <2>3, Popped
  <2> QED
    BY <1>f, <2>1, <2>4
<1>e. ASSUME NEW b \in Bases, NEW op, Runs(b, op), Done(b, b, <<>>)
      PROVE \A c \in Bases :
               /\ Once(events'[c], "send")
               /\ NumbersOf(events'[c], "send") \subseteq NumbersOf(events[c], "send")
               /\ c = b /\ op = "send" => Event(b).n \notin NumbersOf(events'[c], "send")
  <2> DEFINE none == <<>>
  <2>1. none \in Seq(Message) /\ Done(b, b, none)
    BY <1>e
  <2> HIDE DEF none
  <2> QED
    BY <1>e, <1>p, <2>1, Popped
\* A send is pending on the first base only.
<1>g. ASSUME NEW b \in Bases, Runs(b, "send")
      PROVE b = "globals" /\ Event(b).n \in DOMAIN sends /\ sends[Event(b).n] = "queued"
  <2>1. Event(b).n \in NumbersOf(events[b], "send")
    BY <1>0, <1>g DEF HeadIs, NumbersOf, At
  <2>2. b = "globals"
    <3>1. b = "pt2pt" => NumbersOf(events[b], "send") = {}
      BY DEF PlaceInv, NumbersOf, At
    <3> QED
      BY <2>1, <3>1 DEF Bases
  <2> QED
    BY <2>1, <2>2 DEF SendInv
<1>7. ASSUME NEW b \in Bases, SelfSend(b) PROVE SendInv'
  <2> DEFINE e == Recv(Event(b).h, Self, Event(b).tag)
             new == <<e>>
             n == Event(b).n
  <2>1. Event(b) \in Sending /\ Runs(b, "send") /\ arrived + 1 \in Nat \ {0}
    BY <1>0, <1>7 DEF SelfSend, HeadIs, TypeInv
  <2>2. e \in Message
    BY <2>1 DEF Message, Sending, Recv
  <2>3. new \in Seq(Message)
    BY <2>2
  <2>4. Done(b, pt2ptBase, new) /\ arrived' = arrived + 1 /\ sends' = [sends EXCEPT ![n] = "complete"]
    BY <1>7 DEF SelfSend
  <2> HIDE DEF new
  <2>5. \A c \in Bases : /\ Once(events'[c], "send")
                         /\ NumbersOf(events'[c], "send") \subseteq NumbersOf(events[c], "send")
                         /\ c = b /\ "send" = "send" => Event(b).n \notin NumbersOf(events'[c], "send")
    BY <1>p, <2>1, <2>3, <2>4, Popped
  <2>6. b = "globals" /\ n \in DOMAIN sends /\ sends[n] = "queued"
    BY <1>g, <2>1
  <2>7. DOMAIN sends' = DOMAIN sends /\ sends'[n] = "complete" /\ \A k \in DOMAIN sends : k # n => sends'[k] = sends[k]
        /\ Len(sends') = Len(sends)
    BY <1>s, <2>4, <2>6, ExceptIs
  <2>8. Complete' = Complete \cup {n} /\ n \notin Complete
    BY <2>6, <2>7 DEF Complete
  <2>9. Cardinality(Complete') = Cardinality(Complete) + 1
    BY <1>0, <2>8, FS_AddElement
  <2>10. \A x \in NumbersOf(events'["globals"], "send") : x \in DOMAIN sends' /\ sends'[x] = "queued"
    BY <2>5, <2>6, <2>7 DEF SendInv, Bases
  <2>11. arrived' <= MaxMessages + Cardinality(Complete')
    BY <1>0, <1>n, <2>4, <2>9 DEF SendInv
  <2> QED
    BY <2>5, <2>7, <2>10, <2>11 DEF SendInv
<1>8. ASSUME NEW b \in Bases, ProcessSend(b) PROVE SendInv'
  <2> DEFINE n == Event(b).n
  <2>1. Runs(b, "send") /\ Done(b, b, <<>>) /\ UNCHANGED arrived
    BY <1>8 DEF ProcessSend
  <2>2. PICK way : way # "complete" /\ sends' = [sends EXCEPT ![n] = way]
    BY <1>8 DEF ProcessSend, Reached
  <2>3. \A c \in Bases : /\ Once(events'[c], "send")
                         /\ NumbersOf(events'[c], "send") \subseteq NumbersOf(events[c], "send")
                         /\ c = b /\ "send" = "send" => Event(b).n \notin NumbersOf(events'[c], "send")
    BY <1>e, <2>1
  <2>4. b = "globals" /\ n \in DOMAIN sends /\ sends[n] = "queued"
    BY <1>g, <2>1
  <2>5. DOMAIN sends' = DOMAIN sends /\ sends'[n] = way /\ \A k \in DOMAIN sends : k # n => sends'[k] = sends[k]
    BY <2>2, <2>4
  <2>6. Complete' = Complete
    BY <2>2, <2>4, <2>5 DEF Complete
  <2>7. Len(sends') = Len(sends)
    BY <2>5 DEF TypeInv
  <2>8. \A x \in NumbersOf(events'["globals"], "send") : x \in DOMAIN sends' /\ sends'[x] = "queued"
    BY <2>3, <2>4, <2>5 DEF SendInv, Bases
  <2> QED
    BY <2>1, <2>3, <2>6, <2>7, <2>8 DEF SendInv
<1>9. ASSUME NEW b \in Bases, Drop(b) \/ HandOver(b) \/ Search(b) PROVE SendInv'
  <2>1. Runs(b, "recv") /\ Done(b, b, <<>>) /\ UNCHANGED <<sends, arrived>>
    BY <1>9 DEF Drop, HandOver, Search
  <2>2. \A c \in Bases : /\ Once(events'[c], "send")
                         /\ NumbersOf(events'[c], "send") \subseteq NumbersOf(events[c], "send")
    BY <1>e, <2>1
  <2> QED
    BY SMTT(60), <1>f, <2>1, <2>2
<1>10. ASSUME NEW b \in Bases, Dangling(b) \/ Hold(b) PROVE SendInv'
  BY <1>f, <1>p, <1>10 DEF Dangling, Hold
<1>11. CASE UNCHANGED matchVars
  BY <1>f, <1>p, <1>11 DEF matchVars
<1> QED
  BY <1>1, <1>2, <1>3, <1>4, <1>5, <1>7, <1>8, <1>9, <1>10, <1>11 DEF MatchNext, Handle

-----------------------------------------------------------------------------
\* One base. For each posted receive of h: no message that waits fits it, or an
\* event is on its way that it will take: no receive before it is there for that
\* event, since it takes an earlier one. w has the place of the event, or 0.
Claims(h, P, U, E, w) ==
    /\ w \in [DOMAIN P -> 0..Len(E)]
    /\ \A k \in DOMAIN P : w[k] = 0 => \A i \in DOMAIN U : ~Fits(P[k], U[i])
    /\ \A k \in DOMAIN P : w[k] > 0 =>
          ~P[k].persistent /\ E[w[k]].op = "recv" /\ E[w[k]].h = h /\ Fits(P[k], E[w[k]])
    /\ \A j, k \in DOMAIN P : j < k /\ w[k] > 0 => IF w[j] = 0 THEN ~Fits(P[j], E[w[k]]) ELSE w[j] < w[k]
ClaimInv == oneBase => \A h \in scons : \E w : Claims(h, posted[h], unmatched[h], events["globals"], w)

\* The events move up by s, and of the receives those at f are left.
Shifted(P, f, w, s) == [k \in DOMAIN P |-> IF w[f[k]] = 0 THEN 0 ELSE w[f[k]] - s]
Kept(P, U, E, w, P2, U2, E2, f, s) ==
    /\ DOMAIN P \subseteq Nat /\ Len(E) \in Nat /\ Len(E2) \in Nat /\ s \in {0, 1}
    /\ f \in [DOMAIN P2 -> DOMAIN P] /\ \A k \in DOMAIN P2 : P2[k] = P[f[k]]
    /\ \A j, k \in DOMAIN P2 : j < k => f[j] < f[k]
    /\ \A p \in (s + 1)..Len(E) : p - s \in 1..Len(E2) /\ E2[p - s] = E[p]
    /\ \A k \in DOMAIN P2 : w[f[k]] > 0 => w[f[k]] > s
    /\ \A k \in DOMAIN P2 : w[f[k]] = 0 => \A i \in DOMAIN U2 : ~Fits(P2[k], U2[i])

\* Claims go on where the queue moves up and some of the receives go.
LEMMA ClaimsKept ==
    ASSUME NEW h, NEW P, NEW U, NEW E, NEW w, NEW P2, NEW U2, NEW E2, NEW f, NEW s,
           Claims(h, P, U, E, w), Kept(P, U, E, w, P2, U2, E2, f, s)
    PROVE Claims(h, P2, U2, E2, Shifted(P2, f, w, s))
<1>0. /\ DOMAIN P \subseteq Nat /\ Len(E) \in Nat /\ Len(E2) \in Nat /\ s \in {0, 1}
      /\ f \in [DOMAIN P2 -> DOMAIN P] /\ \A k \in DOMAIN P2 : P2[k] = P[f[k]]
      /\ \A j, k \in DOMAIN P2 : j < k => f[j] < f[k]
      /\ \A p \in (s + 1)..Len(E) : p - s \in 1..Len(E2) /\ E2[p - s] = E[p]
      /\ \A k \in DOMAIN P2 : w[f[k]] > 0 => w[f[k]] > s
      /\ \A k \in DOMAIN P2 : w[f[k]] = 0 => \A i \in DOMAIN U2 : ~Fits(P2[k], U2[i])
  BY DEF Kept
<1> DEFINE v == Shifted(P2, f, w, s)
<1>1. \A k \in DOMAIN P2 : f[k] \in DOMAIN P /\ w[f[k]] \in 0..Len(E)
  BY <1>0 DEF Claims
<1>2. \A k \in DOMAIN P2 :
         IF w[f[k]] = 0 THEN v[k] = 0
         ELSE v[k] = w[f[k]] - s /\ v[k] \in 1..Len(E2) /\ E2[v[k]] = E[w[f[k]]] /\ v[k] > 0
  <2> TAKE k \in DOMAIN P2
  <2>1. CASE w[f[k]] = 0
    BY <2>1 DEF Shifted
  <2>2. CASE w[f[k]] # 0
    <3>1. w[f[k]] \in (s + 1)..Len(E)
      BY <1>0, <1>1, <2>2
    <3> QED
      BY <1>0, <2>2, <3>1 DEF Shifted
  <2> QED
    BY <2>1, <2>2
<1>3. v \in [DOMAIN P2 -> 0..Len(E2)]
  BY <1>2 DEF Shifted
<1> HIDE DEF v
<1>4. \A k \in DOMAIN P2 : v[k] = 0 => \A i \in DOMAIN U2 : ~Fits(P2[k], U2[i])
  BY <1>0, <1>2
<1>5. \A k \in DOMAIN P2 : v[k] > 0 =>
         ~P2[k].persistent /\ E2[v[k]].op = "recv" /\ E2[v[k]].h = h /\ Fits(P2[k], E2[v[k]])
  <2> TAKE k \in DOMAIN P2
  <2> HAVE v[k] > 0
  <2>1. w[f[k]] > 0 /\ E2[v[k]] = E[w[f[k]]] /\ P2[k] = P[f[k]]
    BY <1>0, <1>1, <1>2
  <2> QED
    BY <1>0, <1>1, <2>1 DEF Claims
<1>6. \A j, k \in DOMAIN P2 : j < k /\ v[k] > 0 => IF v[j] = 0 THEN ~Fits(P2[j], E2[v[k]]) ELSE v[j] < v[k]
  <2> SUFFICES ASSUME NEW j \in DOMAIN P2, NEW k \in DOMAIN P2, j < k, v[k] > 0
               PROVE IF v[j] = 0 THEN ~Fits(P2[j], E2[v[k]]) ELSE v[j] < v[k]
    OBVIOUS
  <2>1. /\ w[f[k]] > 0 /\ E2[v[k]] = E[w[f[k]]] /\ v[k] = w[f[k]] - s /\ P2[j] = P[f[j]] /\ f[j] < f[k]
        /\ v[j] = 0 <=> w[f[j]] = 0
        /\ v[j] # 0 => v[j] = w[f[j]] - s
    BY <1>0, <1>1, <1>2
  <2>2. IF w[f[j]] = 0 THEN ~Fits(P[f[j]], E[w[f[k]]]) ELSE w[f[j]] < w[f[k]]
    BY <1>1, <2>1 DEF Claims
  <2> QED
    BY <1>0, <1>1, <2>1, <2>2
<1>7. Claims(h, P2, U2, E2, v)
  BY <1>3, <1>4, <1>5, <1>6 DEF Claims
<1> QED
  BY <1>7 DEF v

\* A receive more, for which nothing waits or the event at v comes.
LEMMA ClaimsMore ==
    ASSUME NEW h, NEW T, NEW P \in Seq(T), NEW U, NEW E, NEW w, Claims(h, P, U, E, w), Len(E) \in Nat,
           NEW p \in T, NEW v \in 0..Len(E),
           v = 0 => \A i \in DOMAIN U : ~Fits(p, U[i]),
           v > 0 => /\ ~p.persistent /\ E[v].op = "recv" /\ E[v].h = h /\ Fits(p, E[v])
                    /\ \A j \in DOMAIN P : IF w[j] = 0 THEN ~Fits(P[j], E[v]) ELSE w[j] < v
    PROVE \E w2 : Claims(h, Append(P, p), U, E, w2)
<1> DEFINE n == Len(P) + 1
           P2 == Append(P, p)
           w2 == [k \in 1..n |-> IF k = n THEN v ELSE w[k]]
<1>1. /\ Len(P) \in Nat /\ DOMAIN P = 1..Len(P) /\ DOMAIN P2 = 1..n /\ n \in Nat
      /\ \A k \in 1..Len(P) : P2[k] = P[k]
      /\ P2[n] = p
  OBVIOUS
<1>2. w2 \in [1..n -> 0..Len(E)] /\ w2[n] = v /\ \A k \in 1..Len(P) : w2[k] = w[k]
  BY <1>1 DEF Claims
<1>3. \A k \in 1..n : k = n \/ k \in 1..Len(P)
  BY <1>1
<1> HIDE DEF P2, w2, n
<1>4. \A k \in 1..n : w2[k] = 0 => \A i \in DOMAIN U : ~Fits(P2[k], U[i])
  BY <1>1, <1>2, <1>3 DEF Claims
<1>5. \A k \in 1..n : w2[k] > 0 =>
         ~P2[k].persistent /\ E[w2[k]].op = "recv" /\ E[w2[k]].h = h /\ Fits(P2[k], E[w2[k]])
  <2> SUFFICES ASSUME NEW k \in 1..n, w2[k] > 0
               PROVE ~P2[k].persistent /\ E[w2[k]].op = "recv" /\ E[w2[k]].h = h /\ Fits(P2[k], E[w2[k]])
    OBVIOUS
  <2>1. CASE k = n
    <3>1. w2[k] = v /\ P2[k] = p /\ v > 0
      BY <1>1, <1>2, <2>1
    <3> QED
      BY <3>1
  <2>2. CASE k \in 1..Len(P)
    <3>1. w2[k] = w[k] /\ P2[k] = P[k] /\ k \in DOMAIN P
      BY <1>1, <1>2, <2>2
    <3> QED
      BY <3>1 DEF Claims
  <2> QED
    BY <1>3, <2>1, <2>2
<1>6. \A j, k \in 1..n : j < k /\ w2[k] > 0 => IF w2[j] = 0 THEN ~Fits(P2[j], E[w2[k]]) ELSE w2[j] < w2[k]
  <2> SUFFICES ASSUME NEW j \in 1..n, NEW k \in 1..n, j < k, w2[k] > 0
               PROVE IF w2[j] = 0 THEN ~Fits(P2[j], E[w2[k]]) ELSE w2[j] < w2[k]
    OBVIOUS
  <2>1. j \in 1..Len(P)
    BY <1>1, <1>3 DEF n
  <2>2. CASE k = n
    BY <1>1, <1>2, <2>1, <2>2
  <2>3. CASE k # n
    <3>1. k \in 1..Len(P)
      BY <1>3, <2>3
    <3> QED
      BY <1>1, <1>2, <2>1, <3>1 DEF Claims
  <2> QED
    BY <2>2, <2>3
<1>7. Claims(h, P2, U, E, w2)
  BY <1>1, <1>2, <1>4, <1>5, <1>6 DEF Claims
<1> QED
  BY <1>7 DEF P2

\* One base: its queue after the head is handled, and after an event is queued.
LEMMA QueueShifts ==
    ASSUME TypeInv, PlaceInv, oneBase, NEW b \in Bases, NEW op, Runs(b, op),
           NEW to \in Bases, NEW new \in Seq(EventSet), Done(b, to, new), to = "globals" \/ new = <<>>
    PROVE /\ b = "globals" /\ Event(b) = events["globals"][1]
          /\ events["globals"] \in Seq(EventSet) /\ events'["globals"] \in Seq(EventSet)
          /\ Len(events["globals"]) \in Nat \ {0}
          /\ Len(events'["globals"]) = Len(events["globals"]) - 1 + Len(new)
          /\ \A p \in 2..Len(events["globals"]) :
                p - 1 \in 1..Len(events'["globals"]) /\ events'["globals"][p - 1] = events["globals"][p]
          /\ \A q \in 1..Len(new) :
                events'["globals"][Len(events["globals"]) - 1 + q] = new[q]
<1> DEFINE E == events["globals"]
           t == Tail(E)
<1>1. b = "globals" /\ Event(b) = E[1] /\ E # <<>> /\ E \in Seq(EventSet)
  BY HeadFacts DEF HeadIs, PlaceInv, Bases, TypeInv
<1>2. events'["globals"] = t \o new
  <2>1. events'["globals"] = Rest("globals", b) \o More("globals", to, new)
    BY <1>1, Queued DEF Bases
  <2>2. Rest("globals", b) = t /\ More("globals", to, new) = new
    BY <1>1 DEF Rest, More
  <2> QED
    BY <2>1, <2>2
<1>3. /\ t \in Seq(EventSet) /\ Len(E) \in Nat \ {0} /\ Len(t) = Len(E) - 1
      /\ \A p \in 2..Len(E) : p - 1 \in 1..Len(t) /\ t[p - 1] = E[p]
  BY <1>1
<1> HIDE DEF E, t
<1>4. t \o new \in Seq(EventSet) /\ Len(t \o new) = Len(t) + Len(new) /\ Len(new) \in Nat /\ Len(t) \in Nat
  BY <1>3
<1>5. \A p \in 1..Len(t) : p \in 1..Len(t \o new) /\ (t \o new)[p] = t[p]
  BY <1>3, <1>4
<1>6. \A q \in 1..Len(new) : (t \o new)[Len(t) + q] = new[q]
  <2> TAKE q \in 1..Len(new)
  <2>1. Len(t) + q \in 1..(Len(t) + Len(new)) /\ ~(Len(t) + q <= Len(t)) /\ (Len(t) + q) - Len(t) = q
    BY <1>4
  <2> QED
    BY <1>3, <1>4, <2>1
<1> QED
  BY <1>1, <1>2, <1>3, <1>4, <1>5, <1>6 DEF E

\* The queue of the base with an event more.
LEMMA QueueGrows ==
    ASSUME TypeInv, NEW b \in Bases, NEW e \in EventSet, Puts(b, e), b = "globals"
    PROVE /\ events["globals"] \in Seq(EventSet) /\ events'["globals"] \in Seq(EventSet)
          /\ Len(events["globals"]) \in Nat /\ Len(events'["globals"]) = Len(events["globals"]) + 1
          /\ \A p \in 1..Len(events["globals"]) : events'["globals"][p] = events["globals"][p]
          /\ events'["globals"][Len(events["globals"]) + 1] = e
<1>1. events["globals"] \in Seq(EventSet) /\ events'["globals"] = Append(events["globals"], e)
  BY DEF TypeInv, Puts, Bases
<1> QED
  BY <1>1

\* The lists as they are, and an event more.
LEMMA ClaimsQueued ==
    ASSUME TypeInv, ClaimInv, NEW b \in Bases, NEW e \in EventSet, Puts(b, e),
           UNCHANGED <<oneBase, scons, posted, unmatched>>
    PROVE ClaimInv'
<1> SUFFICES ASSUME oneBase, NEW h \in scons
             PROVE \E w : Claims(h, posted[h], unmatched[h], events'["globals"], w)
  BY DEF ClaimInv
<1> DEFINE P == posted[h]
           U == unmatched[h]
           E == events["globals"]
           F == events'["globals"]
           f == [k \in DOMAIN P |-> k]
<1>1. PICK w : Claims(h, P, U, E, w)
  BY DEF ClaimInv
<1>2. CASE b = "globals"
  <2>1. P \in Seq(Posted) /\ DOMAIN P \subseteq Nat
    BY DEF TypeInv
  <2>2. /\ Len(E) \in Nat /\ Len(F) = Len(E) + 1 /\ \A p \in 1..Len(E) : F[p] = E[p]
    BY <1>2, QueueGrows
  <2> HIDE DEF P, U, E, F
  <2>3. f \in [DOMAIN P -> DOMAIN P] /\ \A k \in DOMAIN P : f[k] = k
    OBVIOUS
  <2> DEFINE s == 0
  <2>4. Len(F) \in Nat /\ \A p \in (s + 1)..Len(E) : p - s \in 1..Len(F) /\ F[p - s] = E[p]
    BY <2>2
  <2>5. \A k \in DOMAIN P : w[k] \in 0..Len(E)
    BY <1>1 DEF Claims
  <2>6. s \in {0, 1} /\ \A k \in DOMAIN P : w[f[k]] > 0 => w[f[k]] > s
    OBVIOUS
  <2>7. \A k \in DOMAIN P : w[f[k]] = 0 => \A i \in DOMAIN U : ~Fits(P[k], U[i])
    BY <1>1, <2>3 DEF Claims
  <2> HIDE DEF f, s
  <2>8. Kept(P, U, E, w, P, U, F, f, s)
    BY <2>1, <2>2, <2>3, <2>4, <2>6, <2>7 DEF Kept
  <2>9. Claims(h, P, U, F, Shifted(P, f, w, s))
    BY <1>1, <2>8, ClaimsKept
  <2> QED
    BY <2>9 DEF P, U, F
<1>3. CASE b # "globals"
  <2>1. F = E
    BY <1>3 DEF Puts, TypeInv, Bases
  <2> QED
    BY <1>1, <2>1
<1> QED
  BY <1>2, <1>3

\* The head is handled, which none of the receives at f was to take.
LEMMA ClaimsShift ==
    ASSUME TypeInv, PlaceInv, oneBase, NEW b \in Bases, NEW op, Runs(b, op),
           NEW to \in Bases, NEW new \in Seq(EventSet), Done(b, to, new), to = "globals" \/ new = <<>>,
           NEW h \in Handles, NEW w, Claims(h, posted[h], unmatched[h], events["globals"], w),
           NEW P2, NEW U2, NEW f \in [DOMAIN P2 -> DOMAIN posted[h]],
           \A k \in DOMAIN P2 : P2[k] = posted[h][f[k]],
           \A j, k \in DOMAIN P2 : j < k => f[j] < f[k],
           \A k \in DOMAIN P2 : w[f[k]] # 1,
           \A k \in DOMAIN P2 : w[f[k]] = 0 => \A i \in DOMAIN U2 : ~Fits(P2[k], U2[i])
    PROVE Claims(h, P2, U2, events'["globals"], Shifted(P2, f, w, 1))
<1> DEFINE P == posted[h]
           U == unmatched[h]
           E == events["globals"]
           F == events'["globals"]
<1>1. P \in Seq(Posted) /\ DOMAIN P \subseteq Nat
  BY DEF TypeInv
<1>2. Len(E) \in Nat /\ \A p \in 2..Len(E) : p - 1 \in 1..Len(F) /\ F[p - 1] = E[p]
  BY QueueShifts
<1>3. F \in Seq(EventSet)
  BY QueueShifts
<1>4. Claims(h, P, U, E, w)
  OBVIOUS
<1> HIDE DEF E, F, P, U
<1> DEFINE s == 1
<1>5. s \in {0, 1} /\ Len(F) \in Nat /\ \A p \in (s + 1)..Len(E) : p - s \in 1..Len(F) /\ F[p - s] = E[p]
  BY <1>2, <1>3
<1>6. \A k \in DOMAIN P2 : w[f[k]] > 0 => w[f[k]] > s
  <2> TAKE k \in DOMAIN P2
  <2>1. f[k] \in DOMAIN P
    BY DEF P
  <2>2. w[f[k]] \in 0..Len(E)
    BY <1>4, <2>1 DEF Claims
  <2> QED
    BY <1>2, <2>2
<1>7. f \in [DOMAIN P2 -> DOMAIN P] /\ \A k \in DOMAIN P2 : P2[k] = P[f[k]]
  BY DEF P
<1> HIDE DEF s
<1>8. Kept(P, U, E, w, P2, U2, F, f, s)
  BY <1>1, <1>2, <1>5, <1>6, <1>7 DEF Kept
<1>9. Claims(h, P2, U2, F, Shifted(P2, f, w, s))
  BY <1>4, <1>8, ClaimsKept
<1> QED
  BY <1>9 DEF F, s

\* The same with the receives as they were.
Same(P) == [k \in DOMAIN P |-> k]
\* The same with the receives as they are.
LEMMA ClaimsStay ==
    ASSUME TypeInv, PlaceInv, oneBase, NEW b \in Bases, NEW op, Runs(b, op),
           NEW to \in Bases, NEW new \in Seq(EventSet), Done(b, to, new), to = "globals" \/ new = <<>>,
           NEW h \in Handles, NEW w, Claims(h, posted[h], unmatched[h], events["globals"], w),
           NEW U2,
           \A k \in DOMAIN posted[h] : w[k] # 1,
           \A k \in DOMAIN posted[h] : w[k] = 0 => \A i \in DOMAIN U2 : ~Fits(posted[h][k], U2[i])
    PROVE Claims(h, posted[h], U2, events'["globals"], Shifted(posted[h], Same(posted[h]), w, 1))
<1> DEFINE P == posted[h]
           f == Same(P)
<1>1. f \in [DOMAIN P -> DOMAIN P] /\ \A k \in DOMAIN P : f[k] = k
  BY DEF Same
<1> HIDE DEF f
<1>2. /\ \A k \in DOMAIN P : P[k] = posted[h][f[k]]
      /\ \A j, k \in DOMAIN P : j < k => f[j] < f[k]
      /\ \A k \in DOMAIN P : w[f[k]] # 1
      /\ \A k \in DOMAIN P : w[f[k]] = 0 => \A i \in DOMAIN U2 : ~Fits(P[k], U2[i])
  BY <1>1
<1>3. Claims(h, P, U2, events'["globals"], Shifted(P, f, w, 1))
  <2> HIDE DEF P
  <2>1. f \in [DOMAIN P -> DOMAIN posted[h]]
    BY <1>1 DEF P
  <2> QED
    BY <1>2, <2>1, ClaimsShift
<1> QED
  BY <1>3 DEF f

\* A head that is no message, or one of another SCON, is taken by none of the receives of h.
LEMMA ClaimsOther ==
    ASSUME TypeInv, PlaceInv, oneBase, NEW b \in Bases, NEW op, Runs(b, op),
           NEW to \in Bases, NEW new \in Seq(EventSet), Done(b, to, new), to = "globals" \/ new = <<>>,
           NEW h \in Handles, op = "recv" => Event(b).h # h,
           \E w : Claims(h, posted[h], unmatched[h], events["globals"], w)
    PROVE \E w : Claims(h, posted[h], unmatched[h], events'["globals"], w)
<1>1. PICK w : Claims(h, posted[h], unmatched[h], events["globals"], w)
  OBVIOUS
<1>2. Event(b) = events["globals"][1] /\ Event(b).op = op
  BY QueueShifts DEF Runs, Event
<1>3. ASSUME NEW k \in DOMAIN posted[h], w[k] = 1 PROVE FALSE
  <2>1. Event(b).op = "recv" /\ Event(b).h = h
    BY <1>1, <1>2, <1>3 DEF Claims
  <2> QED
    BY <1>2, <2>1
<1>4. \A k \in DOMAIN posted[h] : w[k] = 0 => \A i \in DOMAIN unmatched[h] : ~Fits(posted[h][k], unmatched[h][i])
  BY <1>1 DEF Claims
<1>5. Claims(h, posted[h], unmatched[h], events'["globals"], Shifted(posted[h], Same(posted[h]), w, 1))
  BY <1>1, <1>3, <1>4, ClaimsStay
<1> QED
  BY <1>5

\* The first message that waits and fits.
LEMMA MatchIs ==
    ASSUME NEW r, NEW h, NEW T, unmatched[h] \in Seq(T)
    PROVE LET woken == match_posted_recv(r, h)
              U == unmatched[h]
          IN /\ woken \subseteq DOMAIN U
             /\ \A i \in woken : Fits(r, U[i])
             /\ r.persistent \/ woken = {} => \A i \in DOMAIN U \ woken : ~Fits(r, U[i])
             /\ ~r.persistent /\ woken # {} => \E i \in DOMAIN U : woken = {i}
<1> DEFINE U == unmatched[h]
           fit == {i \in DOMAIN U : Fits(r, U[i])}
           first == {i \in fit : \A j \in fit : j >= i}
<1>1. fit \subseteq Nat /\ DOMAIN U = 1..Len(U)
  OBVIOUS
<1>2. match_posted_recv(r, h) = IF r.persistent THEN fit ELSE first
  BY DEF match_posted_recv
<1> HIDE DEF fit
<1>3. first = {} => fit = {}
  <2> SUFFICES ASSUME fit # {} PROVE first # {}
    OBVIOUS
  <2>1. PICK i \in fit : \A j \in fit : i <= j
    BY <1>1, Least
  <2>2. \A j \in fit : j >= i
    BY <1>1, <2>1
  <2> QED
    BY <2>2
<1>4. \A i, j \in first : i = j
  BY <1>1
<1>5. first \subseteq fit
  OBVIOUS
<1> HIDE DEF first
<1>6. first # {} => \E i \in fit : first = {i}
  BY <1>4, <1>5
<1>7. fit \subseteq DOMAIN U /\ \A i \in DOMAIN U : i \in fit <=> Fits(r, U[i])
  BY DEF fit
<1> QED
  BY <1>2, <1>3, <1>5, <1>6, <1>7

\* What the lists hold after a receive was posted: the messages that are not woken.
LEMMA HeldIsPart ==
    ASSUME NEW h, NEW set, unmatched[h] \in Seq(Message)
    PROVE \A i \in DOMAIN Held(h, set) : \E j \in DOMAIN unmatched[h] \ set : Held(h, set)[i] = unmatched[h][j]
<1> DEFINE U == unmatched[h]
           left == DOMAIN U \ set
           V == Picked(U, left)
<1>1. V \in Seq(Message) /\ \E e : IsChoice(U, left, V, Len(U), e)
  BY PickedPlaces
<1>2. PICK e : IsChoice(U, left, V, Len(U), e)
  BY <1>1
<1>3. Held(h, set) = V
  BY DEF Held
<1> HIDE DEF V, left
<1>4. DOMAIN V = 1..Len(V)
  BY <1>1
<1>5. \A i \in DOMAIN V : e[i] \in left /\ V[i] = U[e[i]]
  BY <1>2, <1>4 DEF IsChoice
<1> QED
  BY <1>3, <1>5 DEF left
\* The one that is picked.
LEMMA PickedOne ==
    ASSUME NEW T, NEW s \in Seq(T), NEW i \in DOMAIN s
    PROVE Len(Picked(s, {i})) = 1 /\ Picked(s, {i})[1] = s[i]
<1> DEFINE V == Picked(s, {i})
           set == {i}
<1>1. V \in Seq(T) /\ \E e : IsChoice(s, set, V, Len(s), e)
  BY PickedPlaces
<1>2. PICK e : IsChoice(s, set, V, Len(s), e)
  BY <1>1
<1> HIDE DEF V
<1>3. Len(V) \in Nat /\ i \in 1..Len(s)
  BY <1>1
<1>4. \A k \in 1..Len(V) : e[k] = i /\ V[k] = s[i]
  BY <1>2 DEF IsChoice
<1>5. \A k, l \in 1..Len(V) : ~(k < l)
  <2> SUFFICES ASSUME NEW k \in 1..Len(V), NEW l \in 1..Len(V), k < l PROVE FALSE
    OBVIOUS
  <2>1. e[k] < e[l]
    BY <1>2 DEF IsChoice
  <2> QED
    BY <1>3, <1>4, <2>1
<1>6. Len(V) >= 1
  <2>1. i \in set \cap (1..Len(s))
    BY <1>3
  <2>2. \E k \in 1..Len(V) : e[k] = i
    BY <1>2, <2>1 DEF IsChoice
  <2> QED
    BY <1>3, <2>2
<1>7. Len(V) = 1
  <2>1. \A n \in Nat : n >= 1 /\ n # 1 => 1 \in 1..n /\ 2 \in 1..n
    OBVIOUS
  <2>2. Len(V) # 1 => 1 \in 1..Len(V) /\ 2 \in 1..Len(V)
    BY <1>3, <1>6, <2>1
  <2> QED
    BY <1>5, <2>2
<1>8. V[1] = s[i]
  BY <1>4, <1>7
<1> QED
  BY <1>7, <1>8 DEF V

\* At first no receive is posted.
LEMMA ClaimInit == MatchInit => ClaimInv
<1> SUFFICES ASSUME MatchInit, NEW h \in scons
             PROVE \E w : Claims(h, posted[h], unmatched[h], events["globals"], w)
  BY DEF ClaimInv
<1>1. posted[h] = <<>> /\ unmatched[h] = <<>>
  BY DEF MatchInit
<1>2. Claims(h, <<>>, <<>>, events["globals"], <<>>)
  BY DEF Claims
<1> QED
  BY <1>1, <1>2

\* pt2pt_base_post_recv: who is posted claims what it has woken.
LEMMA ClaimPost ==
    ASSUME TypeInv, PlaceInv, ClaimInv, NEW b \in Bases, PostRecv(b) PROVE ClaimInv'
<1> DEFINE h == Event(b).h
           r == Event(b).r
           P == posted[h]
           U == unmatched[h]
           E == events["globals"]
           F == events'["globals"]
           woken == match_posted_recv(r, h)
           new == Picked(U, woken)
           V == Held(h, woken)
           p == [peer |-> r.peer, tag |-> r.tag, persistent |-> r.persistent, n |-> Event(b).n]
<1>1. Runs(b, "post") /\ h \in scons /\ h \in Handles /\ UNCHANGED <<oneBase, scons>>
  BY DEF PostRecv, TypeInv
<1>2. /\ posted' = [posted EXCEPT ![h] = Append(@, p)]
      /\ unmatched' = [unmatched EXCEPT ![h] = V]
      /\ Done(b, "globals", new)
  BY DEF PostRecv
<1>3. U \in Seq(Message) /\ P \in Seq(Posted)
  BY <1>1 DEF TypeInv
<1>4. new \in Seq(Message)
  BY <1>3, PickedPlaces
<1>5. new \in Seq(EventSet)
  BY <1>4 DEF EventSet
<1>6. p \in Posted
  <2>1. Event(b) \in Post
    BY <1>1, HeadFacts DEF HeadIs
  <2> QED
    BY <2>1, MatchAssumption DEF Post, Posted
<1>7. /\ woken \subseteq DOMAIN U
      /\ \A i \in woken : Fits(r, U[i])
      /\ r.persistent \/ woken = {} => \A i \in DOMAIN U \ woken : ~Fits(r, U[i])
      /\ ~r.persistent /\ woken # {} => \E i \in DOMAIN U : woken = {i}
  BY <1>3, MatchIs
<1>8. \A i \in DOMAIN V : \E j \in DOMAIN U \ woken : V[i] = U[j]
  <2>1. unmatched[h] \in Seq(Message)
    BY <1>3
  <2> HIDE DEF woken, h
  <2>2. \A i \in DOMAIN Held(h, woken) : \E j \in DOMAIN unmatched[h] \ woken : Held(h, woken)[i] = unmatched[h][j]
    BY <2>1, HeldIsPart
  <2> QED
    BY <2>2
<1>9. \A m : Fits(p, m) <=> Fits(r, m)
  BY DEF Fits
<1>10. p.persistent = r.persistent
  OBVIOUS
<1>11. posted'[h] = Append(P, p) /\ unmatched'[h] = V
       /\ \A g \in Handles : g # h => posted'[g] = posted[g] /\ unmatched'[g] = unmatched[g]
  BY <1>1, <1>2 DEF TypeInv
<1> HIDE DEF new, woken, V, p, r, h
<1>12. ASSUME oneBase, NEW g \in scons, g # h
       PROVE \E w : Claims(g, posted'[g], unmatched'[g], F, w)
  <2>1. g \in Handles
    BY DEF TypeInv
  <2>2. \E w : Claims(g, posted[g], unmatched[g], E, w)
    BY <1>12 DEF ClaimInv
  <2>3. "globals" \in Bases /\ ("post" = "recv" => Event(b).h # g)
    BY DEF Bases
  <2>4. \E w : Claims(g, posted[g], unmatched[g], F, w)
    BY <1>1, <1>2, <1>5, <1>12, <2>1, <2>2, <2>3, ClaimsOther
  <2> QED
    BY <1>11, <1>12, <2>1, <2>4
<1>13. ASSUME oneBase PROVE \E w : Claims(h, posted'[h], unmatched'[h], F, w)
  <2>1. PICK w : Claims(h, P, U, E, w)
    BY <1>1, <1>13 DEF ClaimInv
  <2>2. /\ Event(b) = E[1] /\ E[1].op = "post" /\ Len(E) \in Nat \ {0} /\ F \in Seq(EventSet)
        /\ Len(F) = Len(E) - 1 + Len(new)
        /\ \A q \in 1..Len(new) : F[Len(E) - 1 + q] = new[q]
    <3>1. "globals" \in Bases /\ E[1].op = Event(b).op
      BY <1>1, <1>2, <1>5, <1>13, QueueShifts DEF Bases
    <3>2. Event(b).op = "post"
      BY <1>1 DEF Runs, Event
    <3> QED
      BY <1>1, <1>2, <1>5, <1>13, <3>1, <3>2, QueueShifts
  <2>3. \A k \in DOMAIN P : w[k] # 1
    BY <2>1, <2>2 DEF Claims
  <2>4. \A k \in DOMAIN P : w[k] = 0 => \A i \in DOMAIN V : ~Fits(P[k], V[i])
    BY <1>8, <2>1 DEF Claims
  <2> DEFINE v == Shifted(P, Same(P), w, 1)
  <2>5. Claims(h, P, V, F, v)
    BY <1>1, <1>2, <1>5, <1>13, <2>1, <2>3, <2>4, ClaimsStay DEF Bases
  <2>6. \A k \in DOMAIN P : v[k] = IF w[k] = 0 THEN 0 ELSE w[k] - 1
    BY DEF Shifted, Same
  <2>7. w \in [DOMAIN P -> 0..Len(E)]
    BY <2>1 DEF Claims
  <2> HIDE DEF P, U, E, F, v
  <2>8. CASE r.persistent \/ woken = {}
    <3>1. \A i \in DOMAIN V : ~Fits(p, V[i])
      BY <1>7, <1>8, <1>9, <2>8
    <3> DEFINE none == 0
    <3>2. none \in 0..Len(F) /\ Len(F) \in Nat /\ none = 0 /\ ~(none > 0)
      BY <2>2
    <3> HIDE DEF none
    <3>r. P \in Seq(Posted)
      BY <1>3 DEF P
    <3>3. \E w2 : Claims(h, Append(P, p), V, F, w2)
      BY <1>6, <2>5, <3>r, <3>1, <3>2, ClaimsMore
    <3> QED
      BY <1>11, <3>3 DEF P, F
  <2>9. CASE ~r.persistent /\ woken # {}
    <3>1. PICK i \in DOMAIN U : woken = {i}
      BY <1>7, <2>9
    <3>2. Len(new) = 1 /\ new[1] = U[i]
      BY <1>3, <3>1, PickedOne DEF U, new
    <3> DEFINE l == Len(F)
    <3>3. l = Len(E) /\ F[l] = U[i] /\ l \in 0..l /\ l \in Nat /\ l > 0
      <4>1. 1 \in 1..Len(new)
        BY <3>2
      <4>2. F[Len(E) - 1 + 1] = new[1]
        BY <2>2, <4>1
      <4> QED
        BY <2>2, <3>2, <4>2
    <3>4. U[i] \in Message /\ U[i].h = h /\ Fits(p, U[i])
      BY <1>1, <1>3, <1>7, <1>9, <3>1 DEF U, PlaceInv
    <3>5. U[i].op = "recv"
      BY <3>4 DEF Message
    <3>6. \A j \in DOMAIN P : IF v[j] = 0 THEN ~Fits(P[j], F[l]) ELSE v[j] < l
      <4> TAKE j \in DOMAIN P
      <4>1. w[j] \in 0..Len(E) /\ w[j] # 1
        BY <2>3, <2>7
      <4>2. CASE w[j] = 0
        BY <2>1, <2>6, <3>3, <4>2 DEF Claims
      <4>3. CASE w[j] # 0
        BY <2>2, <2>6, <3>3, <4>1, <4>3
      <4> QED
        BY <4>2, <4>3
    <3>7. ~p.persistent
      BY <1>10, <2>9
    <3> HIDE DEF l
    <3>8. l > 0 => /\ ~p.persistent /\ F[l].op = "recv" /\ F[l].h = h /\ Fits(p, F[l])
                   /\ \A j \in DOMAIN P : IF v[j] = 0 THEN ~Fits(P[j], F[l]) ELSE v[j] < l
      BY <3>3, <3>4, <3>5, <3>6, <3>7
    <3>9. Len(F) \in Nat /\ l \in 0..Len(F) /\ l # 0
      BY <3>3 DEF l
    <3>10. P \in Seq(Posted)
      BY <1>3 DEF P
    <3>11. \E w2 : Claims(h, Append(P, p), V, F, w2)
      BY <1>6, <2>5, <3>8, <3>9, <3>10, ClaimsMore
    <3> QED
      BY <1>11, <3>11 DEF P, F
  <2> QED
    BY <2>8, <2>9
<1> QED
  BY <1>1, <1>12, <1>13 DEF ClaimInv

\* HandOver: the first that fits takes the head, and no other claims it.
LEMMA ClaimHand ==
    ASSUME TypeInv, PlaceInv, ClaimInv, NEW b \in Bases, HandOver(b) PROVE ClaimInv'
<1> DEFINE m == Event(b)
           h == m.h
           P == posted[h]
           U == unmatched[h]
           E == events["globals"]
           F == events'["globals"]
           c == Chosen(b)
           P2 == Remaining(P, c)
           none == <<>>
<1>1. /\ Runs(b, "recv") /\ h \in scons /\ h \in Handles /\ c \in 1..Len(P) /\ Fits(P[c], m)
      /\ \A j \in 1..Len(P) : j < c => ~Fits(P[j], m)
      /\ Done(b, b, none) /\ UNCHANGED <<oneBase, scons, unmatched>>
      /\ posted' = [posted EXCEPT ![h] = P2]
  BY HandOverIs DEF Taker
<1>2. P \in Seq(Posted) /\ DOMAIN P = 1..Len(P) /\ Len(P) \in Nat
  BY <1>1 DEF TypeInv
<1>3. posted'[h] = P2 /\ \A g \in Handles : g # h => posted'[g] = posted[g]
  BY <1>1 DEF TypeInv
<1>4. none \in Seq(EventSet) /\ (b = "globals" \/ none = <<>>)
  OBVIOUS
<1> HIDE DEF none, P2
<1>5. ASSUME oneBase, NEW g \in scons, g # h
      PROVE \E w : Claims(g, posted'[g], unmatched'[g], F, w)
  <2>1. g \in Handles
    BY DEF TypeInv
  <2>2. \E w : Claims(g, posted[g], unmatched[g], E, w)
    BY <1>5 DEF ClaimInv
  <2>3. "recv" = "recv" => Event(b).h # g
    BY <1>5
  <2>4. \E w : Claims(g, posted[g], unmatched[g], F, w)
    BY <1>1, <1>4, <1>5, <2>1, <2>2, <2>3, ClaimsOther
  <2> QED
    BY <1>1, <1>3, <1>5, <2>1, <2>4
<1>6. ASSUME oneBase PROVE \E w : Claims(h, posted'[h], unmatched'[h], F, w)
  <2>1. PICK w : Claims(h, P, U, E, w)
    BY <1>1, <1>6 DEF ClaimInv
  <2>2. E[1] = m /\ Len(E) \in Nat
    BY <1>1, <1>4, <1>6, QueueShifts
  \* The receive that takes the head may claim it; no other may.
  <2>3. \A k \in DOMAIN P : w[k] = 1 => k = c /\ ~P[k].persistent
    <3> SUFFICES ASSUME NEW k \in DOMAIN P, w[k] = 1 PROVE k = c /\ ~P[k].persistent
      OBVIOUS
    <3> HIDE DEF E, P, m
    <3>1. ~P[k].persistent /\ Fits(P[k], m) /\ k \in 1..Len(P)
      BY <1>2, <2>1, <2>2 DEF Claims
    <3>2. ~(k < c)
      BY <1>1, <3>1 DEF m
    <3>3. ~(c < k)
      <4> SUFFICES ASSUME c < k PROVE FALSE
        OBVIOUS
      <4>1. c \in DOMAIN P
        BY <1>1, <1>2
      <4>2. IF w[c] = 0 THEN ~Fits(P[c], E[w[k]]) ELSE w[c] < w[k]
        BY <2>1, <4>1 DEF Claims
      <4>3. w[c] \in 0..Len(E)
        BY <2>1, <4>1 DEF Claims
      <4> QED
        BY <1>1, <2>2, <4>2, <4>3 DEF m
    <3>4. k \in Int /\ c \in Int
      BY <1>1, <3>1
    <3> QED
      BY <3>1, <3>2, <3>3, <3>4
  <2>4. \A k \in DOMAIN P : w[k] = 0 => \A i \in DOMAIN U : ~Fits(P[k], U[i])
    BY <2>1 DEF Claims
  <2>5. CASE P[c].persistent
    <3>1. P2 = P
      BY <2>5 DEF P2, Remaining
    <3>2. \A k \in DOMAIN P : w[k] # 1
      BY <2>3, <2>5
    <3>3. Claims(h, P, U, F, Shifted(P, Same(P), w, 1))
      BY <1>1, <1>4, <1>6, <2>1, <2>4, <3>2, ClaimsStay
    <3> QED
      BY <1>1, <1>3, <3>1, <3>3
  <2>6. CASE ~P[c].persistent
    <3>1. P2 = RemoveAt(P, c)
      BY <2>6 DEF P2, Remaining
    <3> DEFINE n == Len(P) - 1
               f == [k \in 1..n |-> IF k < c THEN k ELSE k + 1]
    <3>2. /\ P2 \in Seq(Posted) /\ Len(P2) = n
          /\ \A k \in 1..n : P2[k] = P[IF k < c THEN k ELSE k + 1]
      BY <1>1, <1>2, <3>1, RemoveIs
    <3>3. DOMAIN P2 = 1..n /\ n \in Nat
      BY <1>1, <1>2, <3>2
    <3> HIDE DEF P
    <3>4. f \in [DOMAIN P2 -> DOMAIN P]
      BY <1>1, <1>2, <3>3
    <3>5. \A k \in DOMAIN P2 : P2[k] = P[f[k]]
      BY <3>2, <3>3
    <3>6. \A k \in DOMAIN P2 : f[k] # c
      BY <1>1, <3>3
    <3>7. \A j, k \in DOMAIN P2 : j < k => f[j] < f[k]
      BY <1>1, <3>3
    <3> HIDE DEF f
    <3>8. \A k \in DOMAIN P2 : w[f[k]] # 1
      BY <2>3, <3>4, <3>6
    <3>9. \A k \in DOMAIN P2 : w[f[k]] = 0 => \A i \in DOMAIN U : ~Fits(P2[k], U[i])
      BY <2>4, <3>4, <3>5
    <3>10. Claims(h, P2, U, F, Shifted(P2, f, w, 1))
      BY <1>1, <1>4, <1>6, <2>1, <3>4, <3>5, <3>7, <3>8, <3>9, ClaimsShift DEF P
    <3> QED
      BY <1>1, <1>3, <3>10
  <2> QED
    BY <2>5, <2>6
<1> QED
  BY <1>1, <1>5, <1>6 DEF ClaimInv

\* Search: nobody claims what no receive fits, and it may wait.
LEMMA ClaimSearch ==
    ASSUME TypeInv, PlaceInv, ClaimInv, NEW b \in Bases, Search(b) PROVE ClaimInv'
<1> SUFFICES ASSUME oneBase PROVE ClaimInv'
  BY DEF ClaimInv, Search
<1> DEFINE m == Event(b)
           h == m.h
           P == posted[h]
           U == unmatched[h]
           E == events["globals"]
           F == events'["globals"]
           V == Append(U, m)
           none == <<>>
<1>1. /\ Runs(b, "recv") /\ h \in scons /\ h \in Handles /\ Waiting(m) = {}
      /\ Done(b, b, none) /\ UNCHANGED <<oneBase, scons, posted>>
      /\ unmatched' = [unmatched EXCEPT ![h] = V]
  BY DEF Search, TypeInv
<1>2. unmatched'[h] = V /\ \A g \in Handles : g # h => unmatched'[g] = unmatched[g]
  BY <1>1 DEF TypeInv
<1>3. none \in Seq(EventSet) /\ (b = "globals" \/ none = <<>>)
  OBVIOUS
<1>4. \A k \in DOMAIN P : ~Fits(P[k], m)
  BY <1>1 DEF Waiting
<1>5. U \in Seq(Message) /\ m \in Message
  BY <1>1, HeadFacts DEF TypeInv, HeadIs
<1> HIDE DEF none
<1>6. ASSUME NEW g \in scons, g # h
      PROVE \E w : Claims(g, posted'[g], unmatched'[g], F, w)
  <2>1. g \in Handles
    BY DEF TypeInv
  <2>2. \E w : Claims(g, posted[g], unmatched[g], E, w)
    BY DEF ClaimInv
  <2>3. "recv" = "recv" => Event(b).h # g
    BY <1>6
  <2>4. \E w : Claims(g, posted[g], unmatched[g], F, w)
    BY <1>1, <1>3, <2>1, <2>2, <2>3, ClaimsOther
  <2> QED
    BY <1>1, <1>2, <1>6, <2>1, <2>4
<1>7. \E w : Claims(h, posted'[h], unmatched'[h], F, w)
  <2>1. PICK w : Claims(h, P, U, E, w)
    BY <1>1 DEF ClaimInv
  <2>2. E[1] = m /\ Len(E) \in Nat
    BY <1>1, <1>3, QueueShifts
  <2>3. \A k \in DOMAIN P : w[k] # 1
    BY <1>4, <2>1, <2>2 DEF Claims
  <2>4. \A k \in DOMAIN P : w[k] = 0 => \A i \in DOMAIN U : ~Fits(P[k], U[i])
    BY <2>1 DEF Claims
  <2>5. \A i \in DOMAIN V : V[i] = m \/ (i \in DOMAIN U /\ V[i] = U[i])
    BY <1>5
  <2> HIDE DEF V
  <2>6. \A k \in DOMAIN P : w[k] = 0 => \A i \in DOMAIN V : ~Fits(P[k], V[i])
    BY <1>4, <2>4, <2>5
  <2>7. Claims(h, P, V, F, Shifted(P, Same(P), w, 1))
    BY <1>1, <1>3, <2>1, <2>3, <2>6, ClaimsStay
  <2> QED
    BY <1>1, <1>2, <2>7
<1> QED
  BY <1>1, <1>6, <1>7 DEF ClaimInv

\* ClaimInv in every step.
LEMMA ClaimStep == TypeInv /\ PlaceInv /\ ClaimInv /\ [MatchNext]_matchVars => ClaimInv'
<1> SUFFICES ASSUME TypeInv, PlaceInv, ClaimInv, [MatchNext]_matchVars PROVE ClaimInv'
  OBVIOUS
<1>0. HeadIs
  BY HeadFacts
<1>b. pt2ptBase \in Bases /\ "globals" \in Bases
  BY DEF Bases, pt2ptBase
<1>1. ASSUME NEW h \in Handles, NEW r \in Receives, pt2pt_base_api_recv_nb(h, r) PROVE ClaimInv'
  <2> DEFINE e == [op |-> "post", h |-> h, r |-> r, n |-> Len(got) + 1]
  <2>1. Len(got) + 1 \in Nat
    BY DEF TypeInv
  <2>2. e \in EventSet
    BY <2>1 DEF EventSet, Post
  <2>3. Puts("globals", e) /\ UNCHANGED <<oneBase, scons, posted, unmatched>>
    BY <1>1 DEF pt2pt_base_api_recv_nb, Puts
  <2> HIDE DEF e
  <2> QED
    BY <1>b, <2>2, <2>3, ClaimsQueued
<1>2. ASSUME NEW h \in Handles, NEW d \in Peers \cup {Self}, NEW t \in Tags, pt2pt_base_api_send_nb(h, d, t)
      PROVE ClaimInv'
  <2> DEFINE e == [op |-> "send", h |-> h, dst |-> d, tag |-> t, n |-> Len(sends) + 1]
  <2>1. Len(sends) + 1 \in Nat
    BY DEF TypeInv
  <2>2. e \in EventSet
    BY <2>1 DEF EventSet, Sending
  <2>3. Puts("globals", e) /\ UNCHANGED <<oneBase, scons, posted, unmatched>>
    BY <1>2 DEF pt2pt_base_api_send_nb, Puts
  <2> HIDE DEF e
  <2> QED
    BY <1>b, <2>2, <2>3, ClaimsQueued
<1>3. ASSUME NEW h \in Handles \cup {Unknown}, NEW s \in Peers, NEW t \in Tags, PT2PT_POST_MESSAGE(h, s, t)
      PROVE ClaimInv'
  <2> DEFINE e == Recv(h, s, t)
  <2>1. arrived + 1 \in Nat \ {0}
    BY DEF TypeInv
  <2>2. e \in EventSet
    BY <2>1 DEF EventSet, Message, Recv
  <2>3. Puts(pt2ptBase, e) /\ UNCHANGED <<oneBase, scons, posted, unmatched>>
    BY <1>3 DEF PT2PT_POST_MESSAGE, Puts
  <2> HIDE DEF e
  <2> QED
    BY <1>b, <2>2, <2>3, ClaimsQueued
<1>4. ASSUME NEW h \in Handles, Delete(h) PROVE ClaimInv'
  <2>1. /\ scons' = scons \ {h} /\ UNCHANGED <<oneBase, events>>
        /\ \A g \in Handles : g # h => posted'[g] = posted[g] /\ unmatched'[g] = unmatched[g]
    BY <1>4 DEF Delete, Freed, TypeInv
  <2>2. \A g \in scons' : g \in scons /\ g # h /\ g \in Handles
    BY <2>1 DEF TypeInv
  <2> QED
    BY <2>1, <2>2 DEF ClaimInv
\* A head that no receive is to take, and the lists as they are.
<1>p. ASSUME NEW b \in Bases, NEW op, Runs(b, op), NEW to \in Bases, NEW new \in Seq(EventSet), Done(b, to, new),
             oneBase => to = "globals" \/ new = <<>>, op = "recv" => Event(b).h \notin scons,
             UNCHANGED <<oneBase, scons, posted, unmatched>>
      PROVE ClaimInv'
  <2> SUFFICES ASSUME oneBase, NEW h \in scons
               PROVE \E w : Claims(h, posted[h], unmatched[h], events'["globals"], w)
    BY <1>p DEF ClaimInv
  <2>1. \E w : Claims(h, posted[h], unmatched[h], events["globals"], w)
    BY DEF ClaimInv
  <2>2. h \in Handles /\ (op = "recv" => Event(b).h # h)
    BY <1>p DEF TypeInv
  <2> QED
    BY <1>p, <2>1, <2>2, ClaimsOther
<1>e. <<>> \in Seq(EventSet)
  OBVIOUS
<1>5. ASSUME NEW b \in Bases, SelfSend(b) PROVE ClaimInv'
  <2> DEFINE e == Recv(Event(b).h, Self, Event(b).tag)
             new == <<e>>
  <2>1. Event(b) \in Sending /\ Runs(b, "send") /\ arrived + 1 \in Nat \ {0}
    BY <1>0, <1>5 DEF SelfSend, HeadIs, TypeInv
  <2>2. e \in EventSet
    BY <2>1 DEF EventSet, Message, Sending, Recv
  <2>3. new \in Seq(EventSet) /\ Done(b, pt2ptBase, new) /\ UNCHANGED <<oneBase, scons, posted, unmatched>>
    BY <1>5, <2>2 DEF SelfSend
  <2>4. oneBase => pt2ptBase = "globals"
    BY DEF pt2ptBase
  <2> HIDE DEF new
  <2> QED
    BY <1>b, <1>p, <2>1, <2>3, <2>4
<1>6. ASSUME NEW b \in Bases, ProcessSend(b) PROVE ClaimInv'
  <2>1. Runs(b, "send") /\ Done(b, b, <<>>) /\ UNCHANGED <<oneBase, scons, posted, unmatched>>
    BY <1>6 DEF ProcessSend
  <2> DEFINE none == <<>>
  <2>2. none \in Seq(EventSet) /\ Done(b, b, none) /\ (oneBase => b = "globals" \/ none = <<>>)
    BY <2>1
  <2>3. "send" = "recv" => Event(b).h \notin scons
    OBVIOUS
  <2> HIDE DEF none
  <2> QED
    BY <1>p, <2>1, <2>2, <2>3
<1>7. ASSUME NEW b \in Bases, Drop(b) PROVE ClaimInv'
  BY <1>p, <1>e, <1>7 DEF Drop
<1>8. ASSUME NEW b \in Bases, Dangling(b) PROVE ClaimInv'
  BY <1>8 DEF Dangling, ClaimInv
<1>9. ASSUME NEW b \in Bases, Hold(b) PROVE ClaimInv'
  BY <1>9 DEF Hold, PlaceInv, ClaimInv
<1>10. CASE UNCHANGED matchVars
  BY <1>10 DEF matchVars, ClaimInv
<1> QED
  BY <1>1, <1>2, <1>3, <1>4, <1>5, <1>6, <1>7, <1>8, <1>9, <1>10, ClaimPost, ClaimHand, ClaimSearch
     DEF MatchNext, Handle

-----------------------------------------------------------------------------
\* One base. Of two messages that come to a receive the first may have the higher number only
\* when that was there at t; the messages that fit a receive that persists are in such an order
\* in the queue, and behind those it has got.
Passed(x, y, t) == y.n < x.n => x.n <= t
Fitting(h, r, e) == e.op = "recv" /\ e.h = h /\ Fits(r, e)
Ordered(h, r, E, G, t) ==
    /\ \A i, j \in DOMAIN E : i < j /\ Fitting(h, r, E[i]) /\ Fitting(h, r, E[j]) => Passed(E[i], E[j], t)
    /\ \A i \in DOMAIN G : \A j \in DOMAIN E : Fitting(h, r, E[j]) => Passed(G[i], E[j], t)
OrderedAt(h, k) == posted[h][k].persistent =>
    Ordered(h, posted[h][k], events["globals"], got[posted[h][k].n], postedAt[posted[h][k].n])
OrderInv == oneBase => \A h \in scons : \A k \in DOMAIN posted[h] : OrderedAt(h, k)

\* The numbers are those of messages that have arrived.
Below(h, r, E, G, a) ==
    /\ \A i \in DOMAIN E : Fitting(h, r, E[i]) => E[i].n \in 1..a
    /\ \A i \in DOMAIN G : G[i].n \in 1..a

\* The numbers of all messages that wait, are queued, or were handed over.
LEMMA Bounded ==
    ASSUME TypeInv, NumInv, NEW h, NEW r
    PROVE /\ \A g \in Handles : \A i \in DOMAIN unmatched[g] : unmatched[g][i].n \in 1..arrived
          /\ \A i \in DOMAIN events["globals"] : Fitting(h, r, events["globals"][i]) => events["globals"][i].n \in 1..arrived
          /\ \A n \in DOMAIN got : \A i \in DOMAIN got[n] : got[n][i].n \in 1..arrived
          /\ \A n \in DOMAIN got : Below(h, r, events["globals"], got[n], arrived)
<1>1. \A x \in Place : HeldAt[x] \subseteq 1..arrived
  BY DEF NumInv, All
<1>2. ASSUME NEW i \in DOMAIN events["globals"], Fitting(h, r, events["globals"][i])
      PROVE events["globals"][i].n \in 1..arrived
  <2> DEFINE x == <<"events", "globals">>
  <2>1. x \in Place
    BY DEF Place, Bases
  <2>2. HeldAt[x] = NumbersOf(events["globals"], "recv")
    BY HeldIs DEF HeldAt, Bases
  <2>3. events["globals"][i].n \in NumbersOf(events["globals"], "recv")
    BY <1>2 DEF NumbersOf, At, Fitting
  <2> QED
    BY <1>1, <2>1, <2>2, <2>3
<1>3. ASSUME NEW n \in DOMAIN got, NEW i \in DOMAIN got[n] PROVE got[n][i].n \in 1..arrived
  <2> DEFINE x == <<"got", n>>
  <2>1. n \in Nat /\ got[n] \in Seq(Message)
    BY DEF TypeInv
  <2>2. x \in Place
    BY <2>1 DEF Place
  <2>3. HeldAt[x] = NumbersOf(got[n], "recv")
    BY <2>1, HeldIs DEF HeldAt
  <2>4. got[n][i].n \in NumbersOf(got[n], "recv")
    BY <2>1, ListNumbers
  <2> QED
    BY <1>1, <2>2, <2>3, <2>4
<1>4. ASSUME NEW g \in Handles, NEW i \in DOMAIN unmatched[g] PROVE unmatched[g][i].n \in 1..arrived
  <2> DEFINE x == <<"list", g>>
  <2>1. x \in Place /\ unmatched[g] \in Seq(Message)
    BY DEF TypeInv, Place
  <2>2. HeldAt[x] = NumbersOf(unmatched[g], "recv")
    BY HeldIs DEF HeldAt
  <2>3. unmatched[g][i].n \in NumbersOf(unmatched[g], "recv")
    BY <2>1, ListNumbers
  <2> QED
    BY <1>1, <2>1, <2>2, <2>3
<1> QED
  BY <1>2, <1>3, <1>4 DEF Below

\* F is E, less its first s, with events that do not fit the receive, and at its end one that is new.
Follows(h, r, E, F, s, a) ==
    \A p \in DOMAIN F : \/ p + s \in DOMAIN E /\ F[p] = E[p + s]
                        \/ ~Fitting(h, r, F[p])
                        \/ F[p].n \in Nat /\ F[p].n > a /\ \A q \in DOMAIN F : ~(p < q)

\* The order in such a queue is that of the queue before.
LEMMA OrderedKept ==
    ASSUME NEW h, NEW r, NEW E, NEW F, NEW G, NEW t, NEW s \in Nat, NEW a \in Nat, DOMAIN F \subseteq Nat,
           Ordered(h, r, E, G, t), Below(h, r, E, G, a), Follows(h, r, E, F, s, a)
    PROVE Ordered(h, r, F, G, t)
<1>1. ASSUME NEW i \in DOMAIN F, NEW j \in DOMAIN F, i < j, Fitting(h, r, F[i]), Fitting(h, r, F[j])
      PROVE Passed(F[i], F[j], t)
  <2>1. i + s \in DOMAIN E /\ F[i] = E[i + s]
    BY <1>1 DEF Follows
  <2>2. F[i].n \in 1..a
    BY <1>1, <2>1 DEF Below
  <2>3. CASE j + s \in DOMAIN E /\ F[j] = E[j + s]
    <3>1. i + s < j + s
      BY <1>1
    <3> QED
      BY <1>1, <2>1, <2>3, <3>1 DEF Ordered
  <2>4. CASE F[j].n \in Nat /\ F[j].n > a
    BY <2>2, <2>4 DEF Passed
  <2> QED
    BY <1>1, <2>3, <2>4 DEF Follows
<1>2. ASSUME NEW i \in DOMAIN G, NEW j \in DOMAIN F, Fitting(h, r, F[j])
      PROVE Passed(G[i], F[j], t)
  <2>1. G[i].n \in 1..a
    BY DEF Below
  <2>2. CASE j + s \in DOMAIN E /\ F[j] = E[j + s]
    BY <1>2, <2>2 DEF Ordered
  <2>3. CASE F[j].n \in Nat /\ F[j].n > a
    BY <2>1, <2>3 DEF Passed
  <2> QED
    BY <1>2, <2>2, <2>3 DEF Follows
<1> QED
  BY <1>1, <1>2 DEF Ordered

\* The queue goes on, and what is posted and has been got stays: the order does.
LEMMA OrderGoesOn ==
    ASSUME TypeInv, PendInv, NumInv, OrderInv, TypeInv', NEW s \in Nat, oneBase' = oneBase,
           NEW h \in Handles, h \in scons, oneBase, NEW k \in DOMAIN posted[h],
           Follows(h, posted[h][k], events["globals"], events'["globals"], s, arrived)
    PROVE posted[h][k].persistent =>
             Ordered(h, posted[h][k], events'["globals"], got[posted[h][k].n], postedAt[posted[h][k].n])
<1> DEFINE r == posted[h][k]
           E == events["globals"]
           F == events'["globals"]
           G == got[r.n]
           t == postedAt[r.n]
<1>1. SUFFICES ASSUME r.persistent PROVE Ordered(h, r, F, G, t)
  OBVIOUS
<1>2. Ordered(h, r, E, G, t)
  BY <1>1 DEF OrderInv, OrderedAt
<1>3. r.n \in DOMAIN got
  BY DEF PendInv
<1>4. Below(h, r, E, G, arrived)
  BY <1>3, Bounded
<1>5. F \in Seq(EventSet) /\ arrived \in Nat
  BY DEF TypeInv, Bases
<1>6. DOMAIN F \subseteq Nat
  BY <1>5
<1>7. Follows(h, r, E, F, s, arrived)
  OBVIOUS
<1> HIDE DEF r, E, F, G, t
<1> QED
  BY <1>2, <1>4, <1>5, <1>6, <1>7, OrderedKept

\* For all receives alike.
Goes(E, F, s, a) ==
    \A p \in DOMAIN F : \/ p + s \in DOMAIN E /\ F[p] = E[p + s]
                        \/ F[p].op # "recv"
                        \/ F[p].n \in Nat /\ F[p].n > a /\ \A q \in DOMAIN F : ~(p < q)

\* It is so for all receives when no handler touches what they have got.
LEMMA OrderStays ==
    ASSUME TypeInv, PendInv, NumInv, OrderInv, TypeInv', NEW s \in Nat, oneBase' = oneBase,
           scons' \subseteq scons, \A h \in scons' : posted'[h] = posted[h],
           \A n \in DOMAIN got : got'[n] = got[n] /\ postedAt'[n] = postedAt[n],
           oneBase => Goes(events["globals"], events'["globals"], s, arrived)
    PROVE OrderInv'
<1> SUFFICES ASSUME oneBase, NEW h \in scons', NEW k \in DOMAIN posted[h], posted[h][k].persistent
             PROVE Ordered(h, posted[h][k], events'["globals"], got'[posted[h][k].n], postedAt'[posted[h][k].n])
  BY DEF OrderInv, OrderedAt
<1>1. h \in scons /\ h \in Handles
  BY DEF TypeInv
<1>2. posted[h][k].n \in DOMAIN got
  BY <1>1 DEF PendInv
<1>3. Follows(h, posted[h][k], events["globals"], events'["globals"], s, arrived)
  BY DEF Follows, Goes, Fitting
<1>4. Ordered(h, posted[h][k], events'["globals"], got[posted[h][k].n], postedAt[posted[h][k].n])
  BY <1>1, <1>3, OrderGoesOn
<1> QED
  BY <1>2, <1>4

\* An event that is activated comes last, and a message then has the highest number.
LEMMA GoesQueued ==
    ASSUME TypeInv, NEW b \in Bases, NEW e \in EventSet, Puts(b, e), e.op # "recv" \/ e.n = arrived + 1
    PROVE Goes(events["globals"], events'["globals"], 0, arrived)
<1> DEFINE E == events["globals"]
           F == events'["globals"]
<1>0. E \in Seq(EventSet) /\ arrived \in Nat
  BY DEF TypeInv, Bases
<1>1. CASE b = "globals"
  <2>1. /\ F \in Seq(EventSet) /\ Len(F) = Len(E) + 1 /\ Len(E) \in Nat
        /\ \A p \in 1..Len(E) : F[p] = E[p]
        /\ F[Len(E) + 1] = e
    BY <1>1, QueueGrows
  <2>2. DOMAIN F = 1..(Len(E) + 1) /\ DOMAIN E = 1..Len(E)
    BY <1>0, <2>1
  <2>3. e.op = "recv" => e.n \in Nat /\ e.n > arrived
    BY <1>0
  <2> HIDE DEF E, F
  <2> SUFFICES ASSUME NEW p \in DOMAIN F
               PROVE \/ p + 0 \in DOMAIN E /\ F[p] = E[p + 0]
                     \/ F[p].op # "recv"
                     \/ F[p].n \in Nat /\ F[p].n > arrived /\ \A q \in DOMAIN F : ~(p < q)
    BY DEF Goes, E, F
  <2>4. CASE p \in 1..Len(E)
    BY <2>1, <2>2, <2>4
  <2>5. CASE p = Len(E) + 1
    <3>1. F[p] = e /\ \A q \in DOMAIN F : ~(p < q)
      BY <2>1, <2>2, <2>5
    <3> QED
      BY <2>3, <3>1
  <2> QED
    BY <2>1, <2>2, <2>4, <2>5
<1>2. CASE b # "globals"
  <2>1. F = E
    BY <1>2 DEF Puts, TypeInv, Bases
  <2> QED
    BY <1>0, <2>1 DEF Goes
<1> QED
  BY <1>1, <1>2

\* The same after a handler has run.
LEMMA GoesPopped ==
    ASSUME TypeInv, PlaceInv, oneBase, NEW b \in Bases, NEW op, Runs(b, op),
           NEW to \in Bases, NEW new \in Seq(EventSet), Done(b, to, new), to = "globals" \/ new = <<>>,
           Len(new) <= 1, \A q \in 1..Len(new) : new[q].n = arrived + 1
    PROVE Goes(events["globals"], events'["globals"], 1, arrived)
<1> DEFINE E == events["globals"]
           F == events'["globals"]
<1>1. /\ F \in Seq(EventSet) /\ Len(F) = Len(E) - 1 + Len(new) /\ Len(E) \in Nat \ {0}
      /\ \A p \in 2..Len(E) : F[p - 1] = E[p]
      /\ \A q \in 1..Len(new) : F[Len(E) - 1 + q] = new[q]
  BY QueueShifts
<1>2. DOMAIN F = 1..(Len(E) - 1 + Len(new)) /\ DOMAIN E = 1..Len(E) /\ Len(new) \in 0..1
  <2>1. Len(new) \in Nat
    OBVIOUS
  <2>2. \A n \in Nat : n <= 1 => n \in 0..1
    OBVIOUS
  <2>3. Len(new) \in 0..1
    BY <2>1, <2>2
  <2>4. DOMAIN E = 1..Len(E)
    BY DEF TypeInv, Bases
  <2>5. DOMAIN F = 1..Len(F)
    BY <1>1
  <2> QED
    BY <1>1, <2>3, <2>4, <2>5
<1>3. arrived \in Nat
  BY DEF TypeInv
<1> HIDE DEF E, F
<1> SUFFICES ASSUME NEW p \in DOMAIN F
             PROVE \/ p + 1 \in DOMAIN E /\ F[p] = E[p + 1]
                   \/ F[p].n \in Nat /\ F[p].n > arrived /\ \A q \in DOMAIN F : ~(p < q)
  BY DEF Goes, E, F
<1>4. CASE p < Len(E)
  <2>1. p + 1 \in 2..Len(E) /\ (p + 1) - 1 = p
    BY <1>1, <1>2, <1>4
  <2>2. F[(p + 1) - 1] = E[p + 1]
    BY <1>1, <2>1
  <2> QED
    BY <1>2, <2>1, <2>2
<1>5. CASE p >= Len(E)
  <2>1. p = Len(E) - 1 + 1 /\ 1 \in 1..Len(new) /\ \A q \in DOMAIN F : ~(p < q)
    BY <1>1, <1>2, <1>5
  <2>2. F[p] = new[1] /\ new[1].n = arrived + 1
    BY <1>1, <2>1
  <2> QED
    BY <1>3, <2>1, <2>2
<1> QED
  BY <1>1, <1>2, <1>4, <1>5

\* Posting: what is woken does not fit those that persist, or it would not have waited.
LEMMA OrderPost ==
    ASSUME TypeInv, PlaceInv, PendInv, NumInv, ClaimInv, OrderInv, TypeInv',
           NEW b \in Bases, PostRecv(b)
    PROVE OrderInv'
<1> DEFINE h == Event(b).h
           r == Event(b).r
           P == posted[h]
           U == unmatched[h]
           E == events["globals"]
           F == events'["globals"]
           woken == match_posted_recv(r, h)
           new == Picked(U, woken)
           p == [peer |-> r.peer, tag |-> r.tag, persistent |-> r.persistent, n |-> Event(b).n]
<1> SUFFICES ASSUME oneBase PROVE OrderInv'
  BY DEF OrderInv, PostRecv
<1>1. Runs(b, "post") /\ h \in scons /\ h \in Handles /\ UNCHANGED <<oneBase, scons, got, arrived>>
  BY DEF PostRecv, TypeInv
<1>2. /\ posted' = [posted EXCEPT ![h] = Append(@, p)]
      /\ Done(b, "globals", new)
      /\ postedAt' = [postedAt EXCEPT ![Event(b).n] = arrived]
  BY DEF PostRecv
<1>3. U \in Seq(Message) /\ P \in Seq(Posted)
  BY <1>1 DEF TypeInv
<1>4. new \in Seq(Message) /\ \E e : IsChoice(U, woken, new, Len(U), e)
  BY <1>3, PickedPlaces
<1>5. new \in Seq(EventSet)
  BY <1>4 DEF EventSet
<1>6. \A q \in 1..Len(new) : \E i \in DOMAIN U : new[q] = U[i]
  <2>1. PICK e : IsChoice(U, woken, new, Len(U), e)
    BY <1>4
  <2> HIDE DEF new, woken
  <2>2. \A q \in 1..Len(new) : e[q] \in DOMAIN U /\ new[q] = U[e[q]]
    BY <1>3, <2>1 DEF IsChoice
  <2> QED
    BY <2>2
<1>7. /\ Event(b) \in Post /\ Event(b).n \in DOMAIN got /\ got[Event(b).n] = <<>>
      /\ \A g \in Handles : \A k \in DOMAIN posted[g] : posted[g][k].n # Event(b).n
  <2>1. b = "globals" /\ Event(b) \in Post /\ 1 \in DOMAIN events[b] /\ events[b][1] = Event(b) /\ Event(b).op = "post"
    BY <1>1, HeadFacts DEF HeadIs, PlaceInv, Bases
  <2>2. Event(b).n \in NumbersOf(events["globals"], "post")
    BY <2>1 DEF NumbersOf, At
  <2> QED
    BY <2>1, <2>2 DEF PendInv
<1>8. /\ posted'[h] = Append(P, p) /\ \A g \in Handles : g # h => posted'[g] = posted[g]
      /\ \A n \in DOMAIN got : postedAt'[n] = IF n = Event(b).n THEN arrived ELSE postedAt[n]
      /\ p.n = Event(b).n
  <2>1. posted'[h] = Append(P, p) /\ \A g \in Handles : g # h => posted'[g] = posted[g]
    BY <1>1, <1>2 DEF TypeInv
  <2>2. \A n \in DOMAIN postedAt : postedAt'[n] = IF n = Event(b).n THEN arrived ELSE postedAt[n]
    <3>1. postedAt \in Seq(Nat) /\ arrived \in Nat
      BY DEF TypeInv
    <3> QED
      BY <1>2, <3>1, ExceptIs
  <2>3. DOMAIN postedAt = DOMAIN got
    BY DEF TypeInv
  <2> QED
    BY <2>1, <2>2, <2>3
<1>9. /\ F \in Seq(EventSet) /\ Len(F) = Len(E) - 1 + Len(new) /\ Len(E) \in Nat \ {0} /\ Len(new) \in Nat
      /\ DOMAIN F = 1..(Len(E) - 1 + Len(new)) /\ DOMAIN E = 1..Len(E)
      /\ \A l \in 2..Len(E) : F[l - 1] = E[l]
      /\ \A q \in 1..Len(new) : F[Len(E) - 1 + q] = new[q]
  <2>1. /\ F \in Seq(EventSet) /\ Len(F) = Len(E) - 1 + Len(new) /\ Len(E) \in Nat \ {0}
        /\ \A l \in 2..Len(E) : F[l - 1] = E[l]
        /\ \A q \in 1..Len(new) : F[Len(E) - 1 + q] = new[q]
    BY ZenonT(60), <1>1, <1>2, <1>5, QueueShifts DEF Bases
  <2> QED
    BY <1>5, <2>1 DEF TypeInv, Bases
<1> HIDE DEF p, new, woken, h, r
\* An event of the queue is one that was there, or a message that waited.
<1>10. \A l \in DOMAIN F : \/ l + 1 \in DOMAIN E /\ F[l] = E[l + 1]
                           \/ \E i \in DOMAIN U : F[l] = U[i]
  <2> TAKE l \in DOMAIN F
  <2>1. CASE l < Len(E)
    <3>1. l + 1 \in 2..Len(E) /\ (l + 1) - 1 = l
      BY <1>9, <2>1
    <3>2. F[(l + 1) - 1] = E[l + 1]
      BY <1>9, <3>1
    <3> QED
      BY <1>9, <3>1, <3>2
  <2>2. CASE l >= Len(E)
    <3>1. l - (Len(E) - 1) \in 1..Len(new) /\ Len(E) - 1 + (l - (Len(E) - 1)) = l
      <4>1. \A a \in Nat \ {0}, c \in Nat : \A x \in 1..(a - 1 + c) :
               x >= a => x - (a - 1) \in 1..c /\ a - 1 + (x - (a - 1)) = x
        OBVIOUS
      <4>2. l \in 1..(Len(E) - 1 + Len(new))
        BY <1>9
      <4> QED
        BY <1>9, <2>2, <4>1, <4>2
    <3>2. F[l] = new[l - (Len(E) - 1)]
      BY <1>9, <3>1
    <3> QED
      BY <1>6, <3>1, <3>2
  <2> QED
    BY <1>9, <2>1, <2>2
<1> SUFFICES ASSUME NEW g \in scons, NEW k \in DOMAIN posted'[g], posted'[g][k].persistent
             PROVE Ordered(g, posted'[g][k], F, got[posted'[g][k].n], postedAt'[posted'[g][k].n])
  BY <1>1 DEF OrderInv, OrderedAt
<1>11. g \in Handles
  BY DEF TypeInv
\* A receive that was posted before: what is woken does not fit it.
<1>12. CASE k \in DOMAIN posted[g] /\ posted'[g][k] = posted[g][k]
  <2>1. \A i \in DOMAIN U : ~Fitting(g, posted[g][k], U[i])
    <3>1. CASE g = h
      <4>1. PICK w : Claims(h, P, U, E, w)
        BY <1>1 DEF ClaimInv
      <4>2. w[k] = 0
        <5>1. w[k] \in 0..Len(E) /\ ~(w[k] > 0)
          BY <1>12, <3>1, <4>1 DEF Claims
        <5> QED
          BY <1>9, <5>1
      <4> QED
        BY <1>12, <3>1, <4>1, <4>2 DEF Claims, Fitting
    <3>2. CASE g # h
      BY <1>1, <3>2 DEF PlaceInv, Fitting
    <3> QED
      BY <3>1, <3>2
  <2>2. Follows(g, posted[g][k], E, F, 1, arrived)
    BY <1>10, <2>1 DEF Follows
  <2>3. Ordered(g, posted[g][k], F, got[posted[g][k].n], postedAt[posted[g][k].n])
    BY <1>1, <1>11, <1>12, <2>2, OrderGoesOn
  <2>4. posted[g][k].n # Event(b).n /\ posted[g][k].n \in DOMAIN got
    BY <1>7, <1>11, <1>12 DEF PendInv
  <2> QED
    BY <1>8, <1>12, <2>3, <2>4
\* The new one, to which all that has arrived is earlier.
<1>13. CASE posted'[g][k] = p
  <2>1. got[p.n] = <<>> /\ postedAt'[p.n] = arrived
    BY <1>7, <1>8
  <2>2. \A i \in DOMAIN F : Fitting(g, p, F[i]) => F[i].n \in 1..arrived
    <3> TAKE i \in DOMAIN F
    <3> HAVE Fitting(g, p, F[i])
    <3>1. CASE i + 1 \in DOMAIN E /\ F[i] = E[i + 1]
      BY <3>1, Bounded
    <3>2. CASE \E j \in DOMAIN U : F[i] = U[j]
      BY <1>1, <3>2, Bounded
    <3> QED
      BY <1>10, <3>1, <3>2
  <2>3. Ordered(g, p, F, <<>>, arrived)
    <3>1. arrived \in Nat
      BY DEF TypeInv
    <3> QED
      BY <2>2, <3>1 DEF Ordered, Passed
  <2> QED
    BY <1>13, <2>1, <2>3
<1>14. (k \in DOMAIN posted[g] /\ posted'[g][k] = posted[g][k]) \/ posted'[g][k] = p
  <2>1. CASE g = h
    <3>1. p \in Posted
      BY <1>7, MatchAssumption DEF Post, Posted, p, r
    <3>2. P \in Seq(Posted)
      BY <1>3
    <3> HIDE DEF P
    <3>3. k \in DOMAIN Append(P, p)
      BY <1>8, <2>1
    <3>4. (k \in DOMAIN P /\ Append(P, p)[k] = P[k]) \/ Append(P, p)[k] = p
      BY <3>1, <3>2, <3>3
    <3> QED
      BY <1>8, <2>1, <3>4 DEF P
  <2>2. CASE g # h
    BY <1>8, <1>11, <2>2
  <2> QED
    BY <2>1, <2>2
<1> QED
  BY <1>12, <1>13, <1>14

\* The order of what a receive has got.
InOrder(G, t) == \A i, j \in DOMAIN G : i < j => Passed(G[i], G[j], t)
\* The property of the run in these words.
LEMMA OvertakenIs == OvertakenOnlyByEarlier <=> (oneBase => \A n \in DOMAIN got : InOrder(got[n], postedAt[n]))
BY DEF OvertakenOnlyByEarlier, InOrder, Passed

\* One message more.
LEMMA InOrderMore ==
    ASSUME NEW T, NEW G \in Seq(T), NEW m \in T, NEW t, InOrder(G, t), \A i \in DOMAIN G : Passed(G[i], m, t)
    PROVE InOrder(Append(G, m), t)
<1> DEFINE H == Append(G, m)
<1>1. /\ DOMAIN H = 1..(Len(G) + 1) /\ DOMAIN G = 1..Len(G) /\ Len(G) \in Nat
      /\ H[Len(G) + 1] = m /\ \A i \in 1..Len(G) : H[i] = G[i]
  OBVIOUS
<1> HIDE DEF H
<1> SUFFICES ASSUME NEW i \in 1..(Len(G) + 1), NEW j \in 1..(Len(G) + 1), i < j PROVE Passed(H[i], H[j], t)
  BY <1>1 DEF InOrder, H
<1>2. i \in 1..Len(G)
  BY <1>1
<1>3. CASE j = Len(G) + 1
  BY <1>1, <1>2, <1>3
<1>4. CASE j # Len(G) + 1
  <2>1. j \in 1..Len(G)
    BY <1>1, <1>4
  <2> QED
    BY <1>1, <1>2, <2>1 DEF InOrder
<1> QED
  BY <1>3, <1>4

\* The head goes to the first receive that fits it.
LEMMA OrderHand ==
    ASSUME TypeInv, PlaceInv, PendInv, NumInv, OrderInv, OvertakenOnlyByEarlier, TypeInv',
           NEW b \in Bases, HandOver(b)
    PROVE OrderInv' /\ OvertakenOnlyByEarlier'
<1> DEFINE m == Event(b)
           h == m.h
           P == posted[h]
           E == events["globals"]
           F == events'["globals"]
           c == Chosen(b)
           x == P[c].n
           P2 == Remaining(P, c)
           none == <<>>
<1>0. UNCHANGED <<oneBase, scons, postedAt>>
  BY HandOverIs
<1> SUFFICES ASSUME oneBase PROVE OrderInv' /\ OvertakenOnlyByEarlier'
  BY <1>0, OvertakenIs DEF OrderInv, OvertakenOnlyByEarlier
<1>1. /\ Runs(b, "recv") /\ m \in Message /\ h \in scons /\ h \in Handles /\ c \in 1..Len(P) /\ Fits(P[c], m)
      /\ Done(b, b, none)
      /\ posted' = [posted EXCEPT ![h] = P2]
      /\ got' = [got EXCEPT ![x] = Append(@, m)]
  BY HandOverIs DEF Taker
<1>2. P \in Seq(Posted) /\ DOMAIN P = 1..Len(P)
  <2>1. P \in Seq(Posted)
    BY <1>1 DEF TypeInv
  <2> QED
    BY <2>1
<1>3. x \in DOMAIN got /\ (~P[c].persistent => got[x] = <<>>)
  BY <1>1, <1>2 DEF PendInv
<1>4. /\ DOMAIN got' = DOMAIN got /\ got[x] \in Seq(Message)
      /\ \A n \in DOMAIN got : got'[n] = IF n = x THEN Append(got[x], m) ELSE got[n]
  <2>0. got \in Seq(Seq(Message))
    BY DEF TypeInv
  <2>1. got[x] \in Seq(Message)
    BY <1>3, <2>0
  <2>2. Append(got[x], m) \in Seq(Message)
    BY <1>1, <2>1
  <2>3. got' = [got EXCEPT ![x] = Append(got[x], m)]
    BY <1>1
  <2> HIDE DEF x
  <2> QED
    BY <2>0, <2>1, <2>2, <2>3, ExceptIs
<1>5. none \in Seq(EventSet) /\ (b = "globals" \/ none = <<>>) /\ Len(none) <= 1
      /\ \A q \in 1..Len(none) : none[q].n = arrived + 1
  OBVIOUS
<1> HIDE DEF none, P2
<1>6. Goes(E, F, 1, arrived)
  BY <1>1, <1>5, GoesPopped
<1>7. E[1] = m /\ 1 \in DOMAIN E /\ Fitting(h, P[c], m) /\ E \in Seq(EventSet) /\ DOMAIN E = 1..Len(E)
  <2>1. E[1] = m /\ Len(E) \in Nat \ {0} /\ E \in Seq(EventSet)
    BY <1>1, <1>5, QueueShifts
  <2> QED
    BY <1>1, <2>1 DEF Fitting, Message
\* The taker that persists: what it has got is in order with the head, and the head with the rest.
<1>8. P[c].persistent => Ordered(h, P[c], E, got[x], postedAt[x])
  BY <1>1, <1>2 DEF OrderInv, OrderedAt
<1>9. OvertakenOnlyByEarlier'
  <2> SUFFICES ASSUME NEW n \in DOMAIN got PROVE InOrder(got'[n], postedAt[n])
    BY <1>0, <1>4 DEF OvertakenOnlyByEarlier, InOrder, Passed
  <2>1. InOrder(got[n], postedAt[n])
    BY OvertakenIs
  <2>2. CASE n # x
    BY <1>4, <2>1, <2>2
  <2>3. CASE n = x
    <3>1. \A i \in DOMAIN got[x] : Passed(got[x][i], m, postedAt[x])
      <4>1. CASE P[c].persistent
        BY <1>7, <1>8, <4>1 DEF Ordered
      <4>2. CASE ~P[c].persistent
        BY <1>3, <4>2
      <4> QED
        BY <4>1, <4>2
    <3> HIDE DEF x, m
    <3> QED
      BY <1>1, <1>4, <2>1, <2>3, <3>1, InOrderMore
  <2> QED
    BY <2>2, <2>3
<1>10. OrderInv'
  <2> SUFFICES ASSUME NEW g \in scons, NEW k \in DOMAIN posted'[g], posted'[g][k].persistent
               PROVE Ordered(g, posted'[g][k], F, got'[posted'[g][k].n], postedAt[posted'[g][k].n])
    BY <1>0 DEF OrderInv, OrderedAt
  <2>1. g \in Handles
    BY DEF TypeInv
  <2>2. \E l \in DOMAIN posted[g] : posted'[g][k] = posted[g][l]
    <3>1. CASE g # h
      BY <1>1, <2>1, <3>1 DEF TypeInv
    <3>2. CASE g = h
      <4>1. posted'[g] = P2
        BY <1>1, <3>2 DEF TypeInv
      <4>2. CASE P[c].persistent
        BY <3>2, <4>1, <4>2 DEF P2, Remaining
      <4>3. CASE ~P[c].persistent
        <5>1. P2 = RemoveAt(P, c)
          BY <4>3 DEF P2, Remaining
        <5> DEFINE n == Len(P) - 1
        <5>2. /\ P2 \in Seq(Posted) /\ Len(P2) = n
              /\ \A j \in 1..n : P2[j] = P[IF j < c THEN j ELSE j + 1]
          BY <1>1, <1>2, <5>1, RemoveIs
        <5>3. DOMAIN P2 = 1..n
          BY <5>2
        <5>4. Len(P) \in Nat
          BY <1>2
        <5> HIDE DEF P
        <5>5. \A j \in 1..n : (IF j < c THEN j ELSE j + 1) \in DOMAIN P
          BY <1>1, <1>2, <5>4
        <5>6. \A j \in DOMAIN P2 : \E l \in DOMAIN P : P2[j] = P[l]
          BY <5>2, <5>3, <5>5
        <5> QED
          BY <3>2, <4>1, <5>6 DEF P
      <4> QED
        BY SMTT(60), <4>2, <4>3
    <3> QED
      BY SMTT(60), <3>1, <3>2
  <2>3. PICK l \in DOMAIN posted[g] : posted'[g][k] = posted[g][l]
    BY <2>2
  <2> DEFINE r == posted[g][l]
  <2>4. Follows(g, r, E, F, 1, arrived)
    BY <1>6 DEF Follows, Goes, Fitting
  <2>5. Ordered(g, r, F, got[r.n], postedAt[r.n]) /\ r.n \in DOMAIN got
    <3>1. r.n \in DOMAIN got
      BY <2>1 DEF PendInv
    <3>2. r.persistent
      BY <2>3
    <3> QED
      BY <1>0, <2>1, <2>4, <3>1, <3>2, OrderGoesOn
  <2>6. CASE r.n # x
    BY <1>4, <2>3, <2>5, <2>6
  <2>7. CASE r.n = x
    <3>1. g = h /\ l = c
      BY <1>1, <1>2, <2>1, <2>7 DEF PendInv
    <3>2. \A j \in DOMAIN F : Fitting(h, P[c], F[j]) => Passed(m, F[j], postedAt[x])
      <4> SUFFICES ASSUME NEW j \in DOMAIN F, Fitting(h, P[c], F[j]) PROVE Passed(m, F[j], postedAt[x])
        OBVIOUS
      <4>1. CASE j + 1 \in DOMAIN E /\ F[j] = E[j + 1]
        <5>1. 1 < j + 1
          <6>1. j + 1 \in 1..Len(E)
            BY <4>1, <1>7
          <6>2. j \in Nat \ {0}
            <7>1. F \in Seq(EventSet)
              BY DEF TypeInv, Bases
            <7> QED
              BY <7>1
          <6> QED
            BY <6>2
        <5>2. P[c].persistent
          BY <2>3, <3>1
        <5>3. \A i, o \in DOMAIN E : i < o /\ Fitting(h, P[c], E[i]) /\ Fitting(h, P[c], E[o]) => Passed(E[i], E[o], postedAt[x])
          BY <1>8, <5>2 DEF Ordered
        <5> QED
          BY <1>7, <4>1, <5>1, <5>3
      <4>2. CASE F[j].n \in Nat /\ F[j].n > arrived
        <5>1. E[1].n \in 1..arrived
          BY <1>7, Bounded
        <5>2. arrived \in Nat
          BY DEF TypeInv
        <5>3. m.n \in 1..arrived
          BY <1>7, <5>1
        <5>4. ~(F[j].n < m.n)
          BY <4>2, <5>2, <5>3
        <5> QED
          BY <5>4 DEF Passed
      <4> QED
        BY <1>6, <4>1, <4>2 DEF Goes, Fitting
    <3>3. \A i \in DOMAIN got'[x] : got'[x][i] = m \/ (i \in DOMAIN got[x] /\ got'[x][i] = got[x][i])
      <4>1. got'[x] = Append(got[x], m)
        BY <1>3, <1>4
      <4> HIDE DEF x, m
      <4> QED
        BY <1>4, <4>1
    <3> HIDE DEF x, E, F, m
    <3>4. \A i \in DOMAIN got'[x] : \A j \in DOMAIN F : Fitting(g, r, F[j]) => Passed(got'[x][i], F[j], postedAt[x])
      BY <2>5, <2>7, <3>1, <3>2, <3>3 DEF Ordered
    <3> QED
      BY <2>3, <2>5, <2>7, <3>4 DEF Ordered
  <2> QED
    BY <2>6, <2>7
<1> QED
  BY <1>9, <1>10

\* Both orders in every step.
LEMMA OrderStep ==
    TypeInv /\ PlaceInv /\ PendInv /\ NumInv /\ ClaimInv /\ OrderInv /\ OvertakenOnlyByEarlier
    /\ TypeInv' /\ [MatchNext]_matchVars => OrderInv' /\ OvertakenOnlyByEarlier'
<1> SUFFICES ASSUME TypeInv, PlaceInv, PendInv, NumInv, ClaimInv, OrderInv, OvertakenOnlyByEarlier,
                    TypeInv', [MatchNext]_matchVars
             PROVE OrderInv' /\ OvertakenOnlyByEarlier'
  OBVIOUS
<1>0. HeadIs
  BY HeadFacts
<1>b. pt2ptBase \in Bases /\ "globals" \in Bases
  BY DEF Bases, pt2ptBase
<1>o. ASSUME oneBase' = oneBase, UNCHANGED <<got, postedAt>> PROVE OvertakenOnlyByEarlier'
  BY <1>o DEF OvertakenOnlyByEarlier
<1>q. ASSUME oneBase' = oneBase, UNCHANGED <<scons, posted>>, NEW b \in Bases, NEW e \in EventSet, Puts(b, e),
             e.op # "recv" \/ e.n = arrived + 1,
             \A n \in DOMAIN got : got'[n] = got[n] /\ postedAt'[n] = postedAt[n]
      PROVE OrderInv'
  <2> DEFINE s == 0
  <2>1. s \in Nat /\ Goes(events["globals"], events'["globals"], s, arrived)
    BY <1>q, GoesQueued
  <2> HIDE DEF s
  <2> QED
    BY <1>q, <2>1, OrderStays
\* The head is handled, and at most one new message is queued.
<1>p. ASSUME oneBase' = oneBase, UNCHANGED <<scons, posted, got, postedAt>>,
             NEW b \in Bases, NEW op, Runs(b, op), NEW to \in Bases, NEW new \in Seq(EventSet),
             Done(b, to, new), oneBase => to = "globals" \/ new = <<>>,
             Len(new) <= 1, \A q \in 1..Len(new) : new[q].n = arrived + 1
      PROVE OrderInv' /\ OvertakenOnlyByEarlier'
  <2> DEFINE s == 1
  <2>1. s \in Nat /\ (oneBase => Goes(events["globals"], events'["globals"], s, arrived))
    BY <1>p, GoesPopped
  <2> HIDE DEF s
  <2>2. OrderInv'
    BY <1>p, <2>1, OrderStays
  <2> QED
    BY <1>o, <1>p, <2>2
<1>e. ASSUME oneBase' = oneBase, UNCHANGED <<scons, posted, got, postedAt>>,
             NEW b \in Bases, NEW op, Runs(b, op), Done(b, b, <<>>)
      PROVE OrderInv' /\ OvertakenOnlyByEarlier'
  <2> DEFINE none == <<>>
  <2>1. none \in Seq(EventSet) /\ none = <<>> /\ Len(none) <= 1 /\ Done(b, b, none)
        /\ \A q \in 1..Len(none) : none[q].n = arrived + 1
    BY <1>e
  <2> HIDE DEF none
  <2> QED
    BY <1>e, <1>p, <2>1
\* The queue is as it was.
<1>s. ASSUME oneBase' = oneBase, UNCHANGED <<events, got, postedAt>>, scons' \subseteq scons,
             \A h \in scons' : posted'[h] = posted[h]
      PROVE OrderInv' /\ OvertakenOnlyByEarlier'
  <2> DEFINE s == 0
  <2>1. events["globals"] \in Seq(EventSet)
    BY DEF TypeInv, Bases
  <2>2. s \in Nat /\ Goes(events["globals"], events'["globals"], s, arrived)
    BY <1>s, <2>1 DEF Goes
  <2> HIDE DEF s
  <2>3. OrderInv'
    BY <1>s, <2>2, OrderStays
  <2> QED
    BY <1>o, <1>s, <2>3
<1>1. ASSUME NEW h \in Handles, NEW r \in Receives, pt2pt_base_api_recv_nb(h, r)
      PROVE OrderInv' /\ OvertakenOnlyByEarlier'
  <2> DEFINE e == [op |-> "post", h |-> h, r |-> r, n |-> Len(got) + 1]
  <2>1. Len(got) + 1 \in Nat
    BY DEF TypeInv
  <2>2. e \in EventSet /\ e.op # "recv"
    BY <2>1 DEF EventSet, Post
  <2>3. Puts("globals", e) /\ UNCHANGED <<oneBase, scons, posted>>
        /\ got' = Append(got, <<>>) /\ postedAt' = Append(postedAt, Cardinality(Messages))
    BY <1>1 DEF pt2pt_base_api_recv_nb, Puts
  <2>4. /\ DOMAIN got' = DOMAIN got \cup {Len(got) + 1} /\ got'[Len(got) + 1] = <<>>
        /\ \A n \in DOMAIN got : got'[n] = got[n]
    BY <2>3 DEF TypeInv
  <2>5. \A n \in DOMAIN got : postedAt'[n] = postedAt[n]
    <3>1. postedAt \in Seq(Nat) /\ DOMAIN got = DOMAIN postedAt
      BY DEF TypeInv
    <3> QED
      BY <2>3, <3>1, CardinalityMessages
  <2> HIDE DEF e
  <2>6. OrderInv'
    BY <1>b, <1>q, <2>2, <2>3, <2>4, <2>5
  <2>7. OvertakenOnlyByEarlier'
    <3>1. \A n \in DOMAIN got' : n \in DOMAIN got \/ got'[n] = <<>>
      BY <2>4
    <3> SUFFICES ASSUME oneBase, NEW n \in DOMAIN got', NEW i \in DOMAIN got'[n], NEW j \in DOMAIN got'[n],
                        i < j, got'[n][j].n < got'[n][i].n
                 PROVE got'[n][i].n <= postedAt'[n]
      BY <2>3 DEF OvertakenOnlyByEarlier
    <3>2. n \in DOMAIN got
      BY <3>1
    <3> QED
      BY <2>4, <2>5, <3>2 DEF OvertakenOnlyByEarlier
  <2> QED
    BY <2>6, <2>7
<1>2. ASSUME NEW h \in Handles, NEW d \in Peers \cup {Self}, NEW t \in Tags, pt2pt_base_api_send_nb(h, d, t)
      PROVE OrderInv' /\ OvertakenOnlyByEarlier'
  <2> DEFINE e == [op |-> "send", h |-> h, dst |-> d, tag |-> t, n |-> Len(sends) + 1]
  <2>1. Len(sends) + 1 \in Nat
    BY DEF TypeInv
  <2>2. e \in EventSet /\ e.op # "recv"
    BY <2>1 DEF EventSet, Sending
  <2>3. Puts("globals", e) /\ UNCHANGED <<oneBase, scons, posted, got, postedAt>>
    BY <1>2 DEF pt2pt_base_api_send_nb, Puts
  <2> HIDE DEF e
  <2> QED
    BY <1>b, <1>o, <1>q, <2>2, <2>3
<1>3. ASSUME NEW h \in Handles \cup {Unknown}, NEW s \in Peers, NEW t \in Tags, PT2PT_POST_MESSAGE(h, s, t)
      PROVE OrderInv' /\ OvertakenOnlyByEarlier'
  <2> DEFINE e == Recv(h, s, t)
  <2>1. arrived + 1 \in Nat \ {0}
    BY DEF TypeInv
  <2>2. e \in EventSet /\ e.n = arrived + 1
    BY <2>1 DEF EventSet, Message, Recv
  <2>3. Puts(pt2ptBase, e) /\ UNCHANGED <<oneBase, scons, posted, got, postedAt>>
    BY <1>3 DEF PT2PT_POST_MESSAGE, Puts
  <2> HIDE DEF e
  <2> QED
    BY <1>b, <1>o, <1>q, <2>2, <2>3
<1>4. ASSUME NEW h \in Handles, Delete(h) PROVE OrderInv' /\ OvertakenOnlyByEarlier'
  <2>1. UNCHANGED <<oneBase, events, got, postedAt>> /\ scons' = scons \ {h}
        /\ \A g \in Handles : g # h => posted'[g] = posted[g]
    BY <1>4 DEF Delete, Freed, TypeInv
  <2>2. scons' \subseteq scons /\ \A g \in scons' : posted'[g] = posted[g]
    BY <2>1 DEF TypeInv
  <2> QED
    BY <1>s, <2>1, <2>2
<1>5. ASSUME NEW b \in Bases, PostRecv(b) PROVE OrderInv' /\ OvertakenOnlyByEarlier'
  <2>1. OrderInv'
    BY <1>5, OrderPost
  <2>2. /\ Event(b).n \in DOMAIN got /\ got[Event(b).n] = <<>>
    <3>1. Runs(b, "post")
      BY <1>5 DEF PostRecv
    <3>2. b = "globals" /\ 1 \in DOMAIN events[b] /\ events[b][1] = Event(b) /\ Event(b).op = "post"
      BY <1>0, <3>1 DEF HeadIs, PlaceInv, Bases
    <3>3. Event(b).n \in NumbersOf(events["globals"], "post")
      BY <3>2 DEF NumbersOf, At
    <3> QED
      BY <3>3 DEF PendInv
  <2>3. UNCHANGED <<oneBase, got>> /\ postedAt' = [postedAt EXCEPT ![Event(b).n] = arrived]
    BY <1>5 DEF PostRecv
  <2>4. \A n \in DOMAIN got : n # Event(b).n => postedAt'[n] = postedAt[n]
    BY <2>3 DEF TypeInv
  <2> QED
    BY <2>1, <2>2, <2>3, <2>4 DEF OvertakenOnlyByEarlier
<1>6. ASSUME NEW b \in Bases, Dangling(b) PROVE OrderInv' /\ OvertakenOnlyByEarlier'
  BY <1>s, <1>6 DEF Dangling
<1>7. ASSUME NEW b \in Bases, SelfSend(b) PROVE OrderInv' /\ OvertakenOnlyByEarlier'
  <2> DEFINE e == Recv(Event(b).h, Self, Event(b).tag)
             new == <<e>>
  <2>1. Event(b) \in Sending /\ Runs(b, "send") /\ arrived + 1 \in Nat \ {0}
    BY <1>0, <1>7 DEF SelfSend, HeadIs, TypeInv
  <2>2. e \in EventSet /\ e.n = arrived + 1
    BY <2>1 DEF EventSet, Message, Sending, Recv
  <2>3. Done(b, pt2ptBase, new) /\ UNCHANGED <<oneBase, scons, posted, got, postedAt>>
    BY <1>7 DEF SelfSend
  <2>4. new \in Seq(EventSet) /\ Len(new) <= 1 /\ \A q \in 1..Len(new) : new[q].n = arrived + 1
    BY <2>2
  <2>5. oneBase => pt2ptBase = "globals"
    BY DEF pt2ptBase
  <2> HIDE DEF new
  <2> QED
    BY <1>b, <1>p, <2>1, <2>3, <2>4, <2>5
<1>8. ASSUME NEW b \in Bases, ProcessSend(b) PROVE OrderInv' /\ OvertakenOnlyByEarlier'
  <2>1. Runs(b, "send") /\ Done(b, b, <<>>) /\ UNCHANGED <<oneBase, scons, posted, got, postedAt>>
    BY <1>8 DEF ProcessSend
  <2> QED
    BY <1>e, <2>1
<1>9. ASSUME NEW b \in Bases, Drop(b) PROVE OrderInv' /\ OvertakenOnlyByEarlier'
  <2>1. Runs(b, "recv") /\ Done(b, b, <<>>) /\ UNCHANGED <<oneBase, scons, posted, got, postedAt>>
    BY <1>9 DEF Drop
  <2> QED
    BY <1>e, <2>1
<1>10. ASSUME NEW b \in Bases, HandOver(b) PROVE OrderInv' /\ OvertakenOnlyByEarlier'
  BY <1>10, OrderHand
<1>11. ASSUME NEW b \in Bases, Search(b) PROVE OrderInv' /\ OvertakenOnlyByEarlier'
  <2>1. Runs(b, "recv") /\ Done(b, b, <<>>) /\ UNCHANGED <<oneBase, scons, posted, got, postedAt>>
    BY <1>11 DEF Search
  <2> QED
    BY <1>e, <2>1
<1>12. ASSUME NEW b \in Bases, Hold(b) PROVE OrderInv' /\ OvertakenOnlyByEarlier'
  BY <1>s, <1>12 DEF Hold
<1>13. CASE UNCHANGED matchVars
  BY <1>s, <1>13 DEF matchVars
<1> QED
  BY <1>1, <1>2, <1>3, <1>4, <1>5, <1>6, <1>7, <1>8, <1>9, <1>10, <1>11, <1>12, <1>13 DEF MatchNext, Handle

\* At first there is no message.
LEMMA NumInit == MatchInit => NumInv
<1> SUFFICES ASSUME MatchInit PROVE NumInv
  OBVIOUS
<1>1. /\ \A b \in Bases : events[b] = <<>> /\ searched[b].n = 0
      /\ \A h \in Handles : unmatched[h] = <<>>
      /\ got = <<>> /\ lost = {} /\ arrived = 0
  BY DEF MatchInit, NoMessage
<1>2. OnceInv
  BY <1>1, NumbersEmpty DEF OnceInv
<1>3. \A x \in Place : HeldAt[x] = {}
  <2> TAKE x \in Place
  <2>1. ASSUME NEW b \in Bases PROVE HeldAt[<<"events", b>>] = {} /\ HeldAt[<<"search", b>>] = {}
    BY <1>1, HeldIs, NumbersEmpty DEF HeldAt
  <2>2. ASSUME NEW h \in Handles PROVE HeldAt[<<"list", h>>] = {}
    BY <1>1, HeldIs, NumbersEmpty DEF HeldAt
  <2>3. ASSUME NEW n \in Nat PROVE HeldAt[<<"got", n>>] = {}
    <3>1. n \notin DOMAIN got
      BY <1>1
    <3> QED
      BY <3>1, HeldIs DEF HeldAt
  <2>4. HeldAt[<<"lost", 0>>] = {}
    BY <1>1, HeldIs DEF HeldAt
  <2> QED
    BY <2>1, <2>2, <2>3, <2>4, PlaceSplit
<1>4. Apart(HeldAt) /\ All(HeldAt) = {} /\ 1..arrived = {}
  BY <1>1, <1>3 DEF Apart, All
<1> QED
  BY <1>2, <1>4 DEF NumInv, OnceInv

\* The inductive invariant: what is in the queues and the lists; where it may be; that a receive and
\* a send are pending or done; that a message is in one place; what the posted receives claim, and in
\* which order messages come to those that persist.
IInv == TypeInv /\ PlaceInv /\ PendInv /\ NumInv /\ SendInv /\ ClaimInv /\ OrderInv /\ OvertakenOnlyByEarlier

\* It holds at first.
LEMMA IInvInit == MatchInit => IInv
<1> SUFFICES ASSUME MatchInit PROVE OrderInv /\ OvertakenOnlyByEarlier
  BY TypeInit, PendInit, NumInit, SendInit, ClaimInit DEF IInv
<1>1. scons = Handles /\ got = <<>> /\ \A h \in Handles : posted[h] = <<>>
  BY DEF MatchInit
<1> QED
  BY <1>1 DEF OrderInv, OvertakenOnlyByEarlier

\* It is inductive.
LEMMA IInvStep == IInv /\ [MatchNext]_matchVars => IInv'
<1> SUFFICES ASSUME IInv, [MatchNext]_matchVars PROVE IInv'
  OBVIOUS
<1>1. TypeInv /\ PlaceInv /\ PendInv /\ NumInv /\ SendInv /\ ClaimInv /\ OrderInv /\ OvertakenOnlyByEarlier
  BY DEF IInv
<1>2. TypeInv' /\ PlaceInv' /\ PendInv'
  BY <1>1, TypeStep, PlaceStep, PendStep
<1>3. NumInv' /\ SendInv' /\ ClaimInv'
  BY <1>1, NumStep, SendStep, ClaimStep
<1>4. OrderInv' /\ OvertakenOnlyByEarlier'
  BY <1>1, <1>2, OrderStep
<1> QED
  BY <1>2, <1>3, <1>4 DEF IInv

-----------------------------------------------------------------------------
\* The invariant of the run from the inductive one: the kinds of places are those of HeldAt.
LEMMA PlacesAre ==
    ASSUME TypeInv
    PROVE /\ \A n : n \in InEvents <=> \E b \in Bases : n \in HeldAt[<<"events", b>>]
          /\ \A n : n \in InSearch <=> \E b \in Bases : n \in HeldAt[<<"search", b>>]
          /\ \A n : n \in InLists <=> \E h \in Handles : n \in HeldAt[<<"list", h>>]
          /\ \A n : n \in InGot <=> \E k \in Nat : n \in HeldAt[<<"got", k>>]
          /\ lost = HeldAt[<<"lost", 0>>]
<1>1. \A n : n \in InEvents <=> \E b \in Bases : n \in HeldAt[<<"events", b>>]
  <2>1. InEvents = UNION {NumbersOf(events[b], "recv") : b \in Bases}
    BY DEF InEvents, NumbersOf, At
  <2>2. ASSUME NEW b \in Bases PROVE HeldAt[<<"events", b>>] = NumbersOf(events[b], "recv")
    BY HeldIs DEF HeldAt
  <2> QED
    BY <2>1, <2>2
<1>2. \A n : n \in InSearch <=> \E b \in Bases : n \in HeldAt[<<"search", b>>]
  <2>1. ASSUME NEW b \in Bases PROVE HeldAt[<<"search", b>>] = {searched[b].n} \ {0}
    BY HeldIs DEF HeldAt
  <2> QED
    BY <2>1 DEF InSearch
<1>3. \A n : n \in InLists <=> \E h \in Handles : n \in HeldAt[<<"list", h>>]
  <2>1. ASSUME NEW h \in Handles PROVE HeldAt[<<"list", h>>] = Numbers(unmatched[h])
    <3>1. unmatched[h] \in Seq(Message)
      BY DEF TypeInv
    <3>2. HeldAt[<<"list", h>>] = NumbersOf(unmatched[h], "recv")
      BY HeldIs DEF HeldAt
    <3> QED
      BY <3>1, <3>2, ListNumbers DEF Numbers
  <2> QED
    BY <2>1 DEF InLists
<1>4. \A n : n \in InGot <=> \E k \in Nat : n \in HeldAt[<<"got", k>>]
  <2>1. ASSUME NEW k \in Nat
        PROVE HeldAt[<<"got", k>>] = IF k \in DOMAIN got THEN Numbers(got[k]) ELSE {}
    <3>1. HeldAt[<<"got", k>>] = IF k \in DOMAIN got THEN NumbersOf(got[k], "recv") ELSE {}
      BY HeldIs DEF HeldAt
    <3>2. CASE k \in DOMAIN got
      <4>1. got[k] \in Seq(Message)
        BY <3>2 DEF TypeInv
      <4> QED
        BY <3>1, <3>2, <4>1, ListNumbers DEF Numbers
    <3>3. CASE k \notin DOMAIN got
      BY <3>1, <3>3
    <3> QED
      BY <3>2, <3>3
  <2>2. DOMAIN got \subseteq Nat
    BY DEF TypeInv
  <2> QED
    BY <2>1, <2>2 DEF InGot
<1>5. lost = HeldAt[<<"lost", 0>>]
  BY HeldIs DEF HeldAt
<1> QED
  BY <1>1, <1>2, <1>3, <1>4, <1>5

\* The four conjuncts of MatchingHolds: types and bounds,
LEMMA TypeHolds == IInv => MatchTypeOK
<1> SUFFICES ASSUME IInv PROVE MatchTypeOK
  OBVIOUS
<1>1. TypeInv /\ PlaceInv /\ PendInv /\ SendInv
  BY DEF IInv
<1>2. \A h \in Handles : Numbers(posted[h]) \subseteq DOMAIN got
  BY <1>1 DEF PendInv, Numbers
<1>3. arrived \in 0..Cardinality(Messages)
  <2>1. /\ arrived \in Nat /\ MaxMessages \in Nat /\ MaxSends \in Nat /\ Len(sends) \in Nat /\ Len(sends) <= MaxSends
        /\ arrived <= MaxMessages + Cardinality(Complete)
    BY <1>1, MatchAssumption DEF TypeInv, SendInv
  <2>2. Cardinality(Complete) \in Nat /\ Cardinality(Complete) <= Len(sends)
    BY <1>1, CompleteIs
  <2> QED
    BY <2>1, <2>2, CardinalityMessages
<1>4. \A n \in DOMAIN sends : sends[n] \in {"queued", "complete", "module", "failed", "fault"}
  BY <1>1 DEF TypeInv
<1> QED
  BY <1>1, <1>2, <1>3, <1>4 DEF MatchTypeOK, TypeInv, PlaceInv

\* As many numbers as messages.
LEMMA NumbersCount ==
    ASSUME NEW s \in Seq(Message), Once(s, "recv") PROVE Cardinality(Numbers(s)) = Len(s)
<1> DEFINE f == [i \in 1..Len(s) |-> s[i].n]
<1>1. Len(s) \in Nat /\ DOMAIN s = 1..Len(s)
  OBVIOUS
<1>2. At(s, "recv") = 1..Len(s)
  BY <1>1, ListNumbers
<1>3. f \in Bijection(1..Len(s), Numbers(s))
  <2>1. f \in [1..Len(s) -> Numbers(s)]
    BY <1>1 DEF Numbers
  <2>2. \A i, j \in 1..Len(s) : f[i] = f[j] => i = j
    BY <1>2 DEF Once
  <2>3. \A x \in Numbers(s) : \E i \in 1..Len(s) : f[i] = x
    BY <1>1 DEF Numbers
  <2> QED
    BY <2>1, <2>2, <2>3 DEF Bijection, Injection, Surjection, IsInjective
<1>4. IsFiniteSet(1..Len(s)) /\ Cardinality(1..Len(s)) = Len(s)
  BY <1>1, FS_Interval
<1> QED
  BY <1>3, <1>4, FS_Bijection DEF ExistsBijection

\* that a message is in one place, once,
LEMMA OnceHolds == IInv => HandedOnce
<1> SUFFICES ASSUME IInv PROVE HandedOnce
  OBVIOUS
<1>0. TypeInv /\ PendInv /\ NumInv
  BY DEF IInv
<1>1. /\ \A n : n \in InEvents <=> \E b \in Bases : n \in HeldAt[<<"events", b>>]
      /\ \A n : n \in InSearch <=> \E b \in Bases : n \in HeldAt[<<"search", b>>]
      /\ \A n : n \in InLists <=> \E h \in Handles : n \in HeldAt[<<"list", h>>]
      /\ \A n : n \in InGot <=> \E k \in Nat : n \in HeldAt[<<"got", k>>]
      /\ lost = HeldAt[<<"lost", 0>>]
  BY <1>0, PlacesAre
<1>2. /\ \A b \in Bases : <<"events", b>> \in Place /\ <<"search", b>> \in Place
      /\ \A h \in Handles : <<"list", h>> \in Place
      /\ \A k \in Nat : <<"got", k>> \in Place
      /\ <<"lost", 0>> \in Place
  BY DEF Place
\* Of two kinds of places, no message is in both.
<1>3. \A x, y \in Place : x[1] # y[1] => \A n : ~(n \in HeldAt[x] /\ n \in HeldAt[y])
  BY <1>0 DEF NumInv, Apart
<1>4. ASSUME NEW n PROVE
        /\ ~(n \in InEvents /\ n \in InSearch) /\ ~(n \in InEvents /\ n \in InLists)
        /\ ~(n \in InEvents /\ n \in InGot) /\ ~(n \in InEvents /\ n \in lost)
        /\ ~(n \in InSearch /\ n \in InLists) /\ ~(n \in InSearch /\ n \in InGot)
        /\ ~(n \in InSearch /\ n \in lost) /\ ~(n \in InLists /\ n \in InGot)
        /\ ~(n \in InLists /\ n \in lost) /\ ~(n \in InGot /\ n \in lost)
  <2>1. n \in InEvents => \E x \in Place : x[1] = "events" /\ n \in HeldAt[x]
    BY <1>1, <1>2
  <2>2. n \in InSearch => \E x \in Place : x[1] = "search" /\ n \in HeldAt[x]
    BY <1>1, <1>2
  <2>3. n \in InLists => \E x \in Place : x[1] = "list" /\ n \in HeldAt[x]
    BY <1>1, <1>2
  <2>4. n \in InGot => \E x \in Place : x[1] = "got" /\ n \in HeldAt[x]
    BY <1>1, <1>2
  <2>5. n \in lost => \E x \in Place : x[1] = "lost" /\ n \in HeldAt[x]
    BY <1>1, <1>2
  <2>6. ASSUME NEW v, NEW w, v # w, \E x \in Place : x[1] = v /\ n \in HeldAt[x], \E x \in Place : x[1] = w /\ n \in HeldAt[x]
        PROVE FALSE
    BY <1>3, <2>6
  <2> QED
    BY <2>1, <2>2, <2>3, <2>4, <2>5, <2>6
<1>5. \A i, j \in DOMAIN Places : i # j => Places[i] \cap Places[j] = {}
  <2>1. /\ InEvents \cap InSearch = {} /\ InEvents \cap InLists = {} /\ InEvents \cap InGot = {} /\ InEvents \cap lost = {}
        /\ InSearch \cap InLists = {} /\ InSearch \cap InGot = {} /\ InSearch \cap lost = {}
        /\ InLists \cap InGot = {} /\ InLists \cap lost = {} /\ InGot \cap lost = {}
    BY <1>4
  <2>2. /\ DOMAIN Places = 1..5
        /\ Places[1] = InEvents /\ Places[2] = InSearch /\ Places[3] = InLists /\ Places[4] = InGot /\ Places[5] = lost
    BY DEF Places
  <2> TAKE i, j \in DOMAIN Places
  <2>3. i \in {1, 2, 3, 4, 5} /\ j \in {1, 2, 3, 4, 5}
    BY <2>2
  <2> HAVE i # j
  <2>4. CASE i = 1
    BY <2>1, <2>2, <2>3, <2>4
  <2>5. CASE i = 2
    BY <2>1, <2>2, <2>3, <2>5
  <2>6. CASE i = 3
    BY <2>1, <2>2, <2>3, <2>6
  <2>7. CASE i = 4
    BY <2>1, <2>2, <2>3, <2>7
  <2>8. CASE i = 5
    BY <2>1, <2>2, <2>3, <2>8
  <2> QED
    BY <2>3, <2>4, <2>5, <2>6, <2>7, <2>8
<1>6. \A n : n \in All(HeldAt) <=> n \in InEvents \/ n \in InSearch \/ n \in InLists \/ n \in InGot \/ n \in lost
  <2> SUFFICES ASSUME NEW n
               PROVE n \in All(HeldAt) <=> n \in InEvents \/ n \in InSearch \/ n \in InLists \/ n \in InGot \/ n \in lost
    OBVIOUS
  <2>1. ASSUME n \in All(HeldAt) PROVE n \in InEvents \/ n \in InSearch \/ n \in InLists \/ n \in InGot \/ n \in lost
    <3>1. PICK x \in Place : n \in HeldAt[x]
      BY <2>1 DEF All
    <3>2. CASE \E b \in Bases : x = <<"events", b>> \/ x = <<"search", b>>
      BY <1>1, <3>1, <3>2
    <3>3. CASE \E h \in Handles : x = <<"list", h>>
      BY <1>1, <3>1, <3>3
    <3>4. CASE \E k \in Nat : x = <<"got", k>>
      BY <1>1, <3>1, <3>4
    <3>5. CASE x = <<"lost", 0>>
      BY <1>1, <3>1, <3>5
    <3> QED
      BY <3>2, <3>3, <3>4, <3>5, PlaceSplit
  <2>2. ASSUME n \in InEvents \/ n \in InSearch \/ n \in InLists \/ n \in InGot \/ n \in lost
        PROVE \E x \in Place : n \in HeldAt[x]
    BY <1>1, <1>2, <2>2
  <2> QED
    BY <2>1, <2>2 DEF All
<1>7. UNION {Places[i] : i \in DOMAIN Places} = All(HeldAt)
  <2>1. \A n : n \in UNION {Places[i] : i \in DOMAIN Places}
               <=> n \in InEvents \/ n \in InSearch \/ n \in InLists \/ n \in InGot \/ n \in lost
    <3>1. DOMAIN Places = 1..5 /\ 1..5 = {1, 2, 3, 4, 5}
      BY DEF Places
    <3>2. {Places[i] : i \in DOMAIN Places} = {InEvents, InSearch, InLists, InGot, lost}
      BY <3>1 DEF Places
    <3> QED
      BY <3>2
  <2> QED
    BY <1>6, <2>1
<1>8. \A n \in DOMAIN got : Cardinality(Numbers(got[n])) = Len(got[n])
  <2> TAKE n \in DOMAIN got
  <2>1. got[n] \in Seq(Message) /\ Once(got[n], "recv")
    BY <1>0 DEF TypeInv, NumInv
  <2> QED
    BY <2>1, NumbersCount
<1>9. UNION {Places[i] : i \in DOMAIN Places} = 1..arrived \/ crashed
  BY <1>0, <1>7 DEF NumInv
<1>10. \A h \in Handles : \A i \in DOMAIN posted[h] : ~posted[h][i].persistent => got[posted[h][i].n] = <<>>
  BY <1>0 DEF PendInv
<1> QED
  BY <1>5, <1>8, <1>9, <1>10 DEF HandedOnce

\* and that none waits where a receive does.
LEMMA NoneStranded == IInv => NoStrandedMessage
<1> SUFFICES ASSUME TypeInv, PlaceInv, ClaimInv, oneBase, NEW h \in scons,
                    \A b \in Bases : \A i \in DOMAIN events[b] : events[b][i].op # "recv",
                    NEW i \in DOMAIN unmatched[h]
             PROVE Waiting(unmatched[h][i]) = {}
  BY DEF IInv, NoStrandedMessage, NothingStranded
<1>1. PICK w : Claims(h, posted[h], unmatched[h], events["globals"], w)
  BY DEF ClaimInv
<1>2. \A k \in DOMAIN posted[h] : w[k] = 0
  <2> SUFFICES ASSUME NEW k \in DOMAIN posted[h], w[k] # 0 PROVE FALSE
    OBVIOUS
  <2>1. events["globals"] \in Seq(EventSet) /\ "globals" \in Bases
    BY DEF TypeInv, Bases
  <2>2. w[k] \in 0..Len(events["globals"])
    BY <1>1 DEF Claims
  <2>3. w[k] \in DOMAIN events["globals"] /\ w[k] > 0
    BY <2>1, <2>2
  <2>4. events["globals"][w[k]].op = "recv"
    BY <1>1, <2>3 DEF Claims
  <2> QED
    BY <2>1, <2>3, <2>4
<1>3. \A k \in DOMAIN posted[h] : ~Fits(posted[h][k], unmatched[h][i])
  BY <1>1, <1>2 DEF Claims
<1>4. unmatched[h][i].h = h
  BY DEF PlaceInv, TypeInv
<1> QED
  BY <1>3, <1>4 DEF Waiting

\* The invariant of a process's receive half is inductive.
THEOREM MatchingInvariance == MatchSpec => []IInv
<1>1. MatchInit => IInv
  BY IInvInit
<1>2. IInv /\ [MatchNext]_matchVars => IInv'
  BY IInvStep
<1> QED
  BY <1>1, <1>2, PTL DEF MatchSpec

\* Every message that arrives is in one place, once; none waits where a receive does when the two
\* bases are one; and a receive gets a message before an earlier one only when both were there as
\* it was posted (recv_msg_handlers.c:90, base_stubs.c:167).
THEOREM MatchingHoldsAlways == MatchSpec => []MatchingHolds
<1>1. IInv => MatchingHolds
  BY TypeHolds, OnceHolds, NoneStranded DEF MatchingHolds, IInv
<1> QED
  BY <1>1, MatchingInvariance, PTL
=============================================================================
