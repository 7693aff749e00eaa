------------------------ MODULE TreeCollectiveProofs ------------------------
(***************************************************************************)
(* TreeCollective implements Gather for every number of members and every  *)
(* tree rooted at the master.                                              *)
(***************************************************************************)
EXTENDS TreeCollective, FiniteSetTheorems, TLAPS

\* The ranks at or below p, and the part of them that a report from s covers
\* at p: s itself when p reports to itself, else the whole branch of child s.
Branch(p) == {p} \cup Relatives[p]
Sources(p) == {p} \cup Children(p)
Part(s, p) == IF s = p THEN {p} ELSE Branch(s)

\* The only contents the messages of a collective of kind k ever have.
Payload(k, S) == IF k = "allgather" THEN Only(S) ELSE Empty
DMsg(k, s, p) == Msg(s, p, "DIRECT", Payload(k, Part(s, p)))
XMsg(k, p) == Msg(IF p = Master THEN p ELSE Parent[p], p, "XCAST", Payload(k, Proc))
RMsg(k, p) == Msg(p, p, "RELEASE", Payload(k, Proc))

\* p has heard from itself and all its children (it may be released since).
Full(p) == ncallbacks[p] = 1 \/ tracker[p].nreported = nexpected(p)
HasSent(s, p) == IF s = p THEN called[p] ELSE Full(s)

\* The sources p has counted, and the ranks whose data its bucket holds.
Got(p) == {s \in Sources(p) : HasSent(s, p) /\ DMsg(kind, s, p) \notin net}
Collected(p) == UNION {Part(s, p) : s \in Got(p)}

-----------------------------------------------------------------------------
(* The inductive invariant. *)

\* Every message in flight has the contents it should, and was due.
NetInv == \A m \in net :
    \/ /\ m = DMsg(kind, m.src, m.dst)
       /\ m.src \in Sources(m.dst)
       /\ HasSent(m.src, m.dst)
    \/ m = XMsg(kind, m.dst) /\ Full(Master)
    \/ m = RMsg(kind, m.dst) /\ Full(Master)

\* Before its callback, a tracker counts and holds exactly the sources got.
TrackerInv == \A p \in Proc : ncallbacks[p] = 0 =>
    /\ tracker[p].nreported = Cardinality(Got(p))
    /\ tracker[p].bucket = Payload(kind, Collected(p))
    /\ tracker[p].req = called[p]
    /\ called[p] => tracker[p].there
    /\ result[p] = Empty

\* After it, the tracker is gone and the master was full.
DoneInv == \A p \in Proc : ncallbacks[p] # 0 =>
    /\ ncallbacks[p] = 1
    /\ Full(Master)
    /\ tracker[p] = NoTracker
    /\ result[p] = Payload(kind, Proc)

\* Who is full has its whole branch behind it: all called, all full, and no
\* report from inside the branch still travelling.
BranchInv == \A p \in Proc : Full(p) => \A x \in Branch(p) :
    /\ called[x] /\ Full(x)
    /\ DMsg(kind, x, x) \notin net
    /\ x # p => DMsg(kind, x, Parent[x]) \notin net

\* A broadcast on its way to p has reached nobody at or below p.
XcastInv == \A p \in Proc : XMsg(kind, p) \in net => \A x \in Branch(p) :
    /\ ncallbacks[x] = 0
    /\ RMsg(kind, x) \notin net
    /\ x # p => XMsg(kind, x) \notin net

\* A release on its way to p finds it not yet released.
ReleaseInv == \A p \in Proc : RMsg(kind, p) \in net => ncallbacks[p] = 0

IInv == /\ TypeOK /\ NetInv /\ TrackerInv /\ DoneInv
        /\ BranchInv /\ XcastInv /\ ReleaseInv
-----------------------------------------------------------------------------
(* The tree. *)

\* Ranks, links and report counts have their types, and a member's sources are
\* as many as it expects (nexpected in get_tracker counts them).
LEMMA TreeFacts ==
    /\ Master \in Proc
    /\ \A p \in Proc : /\ Children(p) \subseteq Proc \ {Master}
                       /\ p \notin Children(p)
                       /\ \A c \in Children(p) : Parent[c] = p
                       /\ IsFiniteSet(Sources(p))
                       /\ Cardinality(Sources(p)) = nexpected(p)
                       /\ nexpected(p) \in Nat \ {0}
<1>1. Master \in Proc
  BY NAssumption DEF Master, Proc
<1>2. ASSUME NEW p \in Proc
      PROVE  /\ Children(p) \subseteq Proc \ {Master}
             /\ p \notin Children(p)
             /\ \A c \in Children(p) : Parent[c] = p
             /\ IsFiniteSet(Sources(p))
             /\ Cardinality(Sources(p)) = nexpected(p)
             /\ nexpected(p) \in Nat \ {0}
  <2>1. Children(p) \subseteq Proc \ {Master}
    BY NAssumption DEF Children, Proc, Master
  <2>2. p \notin Children(p)
    BY TreeAssumption
  <2>3. IsFiniteSet(Children(p))
    <3>1. IsFiniteSet(0..(N - 1))
      BY NAssumption, FS_Interval
    <3>2. QED BY <2>1, <3>1, FS_Subset DEF Proc
  <2>4. /\ IsFiniteSet(Children(p) \cup {p})
        /\ Cardinality(Children(p) \cup {p}) = Cardinality(Children(p)) + 1
    BY <2>2, <2>3, FS_AddElement
  <2>5. Cardinality(Children(p)) \in Nat
    BY <2>3, FS_CardinalityType
  <2>6. Sources(p) = Children(p) \cup {p}
    BY DEF Sources
  <2>7. \A c \in Children(p) : Parent[c] = p
    BY DEF Children
  <2>8. QED BY <2>1, <2>2, <2>4, <2>5, <2>6, <2>7 DEF nexpected
<1>3. QED BY <1>1, <1>2

\* Who is not the master reports to a parent that has it as a child.
LEMMA ParentFacts ==
    ASSUME NEW p \in Proc, p # Master
    PROVE  Parent[p] \in Proc /\ p \in Children(Parent[p]) /\ Parent[p] # p
<1>1. p \in 1..(N - 1)
  BY NAssumption DEF Proc, Master
<1>2. Parent[p] \in Proc /\ p \in Children(Parent[p])
  BY <1>1, ParentAssumption DEF Children
<1>3. QED BY <1>2, TreeFacts

\* Reports of different sources cover disjoint sets, together the branch.
LEMMA PartFacts ==
    ASSUME NEW p \in Proc
    PROVE  /\ \A s \in Sources(p) : Part(s, p) \subseteq Proc
           /\ \A s, t \in Sources(p) : s # t => Part(s, p) \cap Part(t, p) = {}
           /\ UNION {Part(s, p) : s \in Sources(p)} = Branch(p)
           /\ Branch(Master) = Proc
<1>1. Children(p) \subseteq Proc /\ p \notin Children(p)
  BY TreeFacts
<1>2. \A c \in Children(p) : Branch(c) \subseteq Relatives[p] /\ Part(c, p) = Branch(c)
  BY <1>1, TreeAssumption DEF Branch, Part
<1>3. Part(p, p) = {p} /\ p \notin Relatives[p] /\ Relatives[p] \subseteq Proc
  BY TreeAssumption DEF Part
<1>4. \A s, t \in Sources(p) : s # t => Part(s, p) \cap Part(t, p) = {}
  <2> SUFFICES ASSUME NEW s \in Sources(p), NEW t \in Sources(p), s # t
               PROVE  Part(s, p) \cap Part(t, p) = {}
    OBVIOUS
  <2>1. CASE s = p
    BY <2>1, <1>2, <1>3 DEF Sources
  <2>2. CASE t = p
    BY <2>2, <1>2, <1>3 DEF Sources
  <2>3. CASE s \in Children(p) /\ t \in Children(p)
    BY <2>3, <1>2, TreeAssumption DEF Branch
  <2>4. QED BY <2>1, <2>2, <2>3 DEF Sources
<1>5. UNION {Part(s, p) : s \in Sources(p)} = Branch(p)
  <2>1. Relatives[p] = UNION {Branch(c) : c \in Children(p)}
    BY TreeAssumption DEF Branch
  <2>2. QED BY <1>2, <1>3, <2>1 DEF Sources, Branch
<1>6. Branch(Master) = Proc
  BY TreeAssumption, TreeFacts DEF Branch
<1>7. QED BY <1>2, <1>3, <1>4, <1>5, <1>6 DEF Sources

\* Adding up buffers that hold disjoint sets of contributions.
LEMMA PayloadFacts ==
    ASSUME NEW k, NEW A \in SUBSET Proc, NEW B \in SUBSET Proc, A \cap B = {}
    PROVE  /\ copy_payload(Payload(k, A), Payload(k, B)) = Payload(k, A \cup B)
           /\ Payload(k, A) \in Buffer
           /\ Payload(k, {}) = Empty
BY DEF copy_payload, Payload, Only, Empty, Buffer

\* The three kinds of message differ, and each is told by its end points.
LEMMA MsgFacts ==
    ASSUME NEW k, NEW s, NEW p, NEW t, NEW q
    PROVE  /\ DMsg(k, s, p).src = s /\ DMsg(k, s, p).dst = p
           /\ DMsg(k, s, p).tag = "DIRECT" /\ XMsg(k, p).tag = "XCAST"
           /\ RMsg(k, p).tag = "RELEASE"
           /\ XMsg(k, p).dst = p /\ RMsg(k, p).dst = p
           /\ DMsg(k, s, p).buf = Payload(k, Part(s, p))
           /\ XMsg(k, p).buf = Payload(k, Proc) /\ RMsg(k, p).buf = Payload(k, Proc)
           /\ DMsg(k, s, p) = DMsg(k, t, q) => s = t /\ p = q
           /\ XMsg(k, p) = XMsg(k, q) => p = q
           /\ RMsg(k, p) = RMsg(k, q) => p = q
           /\ DMsg(k, s, p) # XMsg(k, q)
           /\ DMsg(k, s, p) # RMsg(k, q)
           /\ XMsg(k, p) # RMsg(k, q)
BY DEF DMsg, XMsg, RMsg, Msg

-----------------------------------------------------------------------------
(* Type correctness. *)

\* Every handler of the module keeps the state well typed.
LEMMA TypeStep == TypeOK /\ [Next]_vars => TypeOK'
<1> SUFFICES ASSUME TypeOK, [Next]_vars PROVE TypeOK'
  OBVIOUS
<1>1. \A a, b \in Buffer : copy_payload(a, b) \in Buffer
  BY DEF Buffer, copy_payload
<1>2. Empty \in Buffer /\ \A p \in Proc : Contribution(p) \in Buffer
  BY DEF Buffer, Empty, Contribution, Only
<1>3. NoTracker \in Tracker
  BY <1>2 DEF NoTracker, Tracker
<1>4. \A s, d \in Proc, t \in Tag, b \in Buffer : Msg(s, d, t, b) \in Message
  BY DEF Msg, Message
<1>5. \A p \in Proc : get_tracker(p) \in Tracker /\ tracker[p] \in Tracker
  BY DEF TypeOK, get_tracker, Tracker
<1>6. CASE UNCHANGED vars
  BY <1>6 DEF vars, TypeOK
<1>7. ASSUME NEW p \in Proc, Call(p) PROVE TypeOK'
  <2>1. [get_tracker(p) EXCEPT !.req = TRUE] \in Tracker
    BY <1>5 DEF Tracker
  <2>2. Msg(p, p, "DIRECT", Contribution(p)) \in Message
    BY <1>2, <1>4 DEF Tag
  <2>3. QED BY <1>7, <2>1, <2>2 DEF Call, TypeOK
<1>8. ASSUME NEW p \in Proc, DirectRecv(p) PROVE TypeOK'
  <2>1. PICK m \in net :
          /\ tracker' = [tracker EXCEPT ![p] =
                [there |-> TRUE, req |-> get_tracker(p).req,
                 nreported |-> get_tracker(p).nreported + 1,
                 bucket |-> copy_payload(get_tracker(p).bucket, m.buf)]]
          /\ net' = (net \ {m}) \cup
                (IF get_tracker(p).nreported + 1 = nexpected(p)
                 THEN {Rollup(p, copy_payload(get_tracker(p).bucket, m.buf))}
                 ELSE {})
          /\ UNCHANGED <<kind, called, ncallbacks, result>>
    BY <1>8 DEF DirectRecv
  <2> DEFINE bucket == copy_payload(get_tracker(p).bucket, m.buf)
  <2>2. bucket \in Buffer
    BY <1>1, <1>5 DEF TypeOK, Message, Tracker
  <2>3. Rollup(p, bucket) \in Message
    <3>1. p # Master => Parent[p] \in Proc
      BY ParentFacts
    <3>2. QED BY <2>2, <3>1, <1>4 DEF Rollup, Tag
  <2>4. [there |-> TRUE, req |-> get_tracker(p).req,
         nreported |-> get_tracker(p).nreported + 1, bucket |-> bucket] \in Tracker
    BY <1>5, <2>2 DEF Tracker
  <2>5. QED BY <2>1, <2>3, <2>4 DEF TypeOK
<1>9. ASSUME NEW p \in Proc, XcastRecv(p) PROVE TypeOK'
  <2>1. PICK m \in net :
          /\ net' = (net \ {m}) \cup {Msg(p, c, "XCAST", m.buf) : c \in Children(p)}
                               \cup {Msg(p, p, "RELEASE", m.buf)}
          /\ UNCHANGED <<kind, called, ncallbacks, result, tracker>>
    BY <1>9 DEF XcastRecv
  <2>2. m.buf \in Buffer /\ Children(p) \subseteq Proc
    BY TreeFacts DEF TypeOK, Message
  <2>3. /\ \A c \in Children(p) : Msg(p, c, "XCAST", m.buf) \in Message
        /\ Msg(p, p, "RELEASE", m.buf) \in Message
    BY <2>2, <1>4 DEF Tag
  <2>4. QED BY <2>1, <2>3 DEF TypeOK
<1>10. ASSUME NEW p \in Proc, ReleaseRecv(p) PROVE TypeOK'
  <2>1. \A m \in net : m.buf \in Buffer
    BY DEF TypeOK, Message
  <2>2. QED BY <1>10, <2>1, <1>3 DEF ReleaseRecv, TypeOK
<1>11. QED BY <1>6, <1>7, <1>8, <1>9, <1>10 DEF Next

\* The state of the collective is always well typed: in particular the count
\* of reports and the copies in every bucket are naturals.
THEOREM TypeCorrect == Spec => []TypeOK
<1>1. Init => TypeOK
  BY DEF Init, TypeOK, Buffer, Empty, Tracker, NoTracker
<1>2. QED BY <1>1, TypeStep, PTL DEF Spec

-----------------------------------------------------------------------------
(* What the invariant says about a full tracker. *)

\* A member is full exactly when it has counted all its sources.
LEMMA GotFacts ==
    ASSUME TypeOK, TrackerInv, NEW p \in Proc, ncallbacks[p] = 0
    PROVE  /\ IsFiniteSet(Got(p)) /\ Got(p) \subseteq Sources(p)
           /\ Cardinality(Got(p)) \in Nat
           /\ Full(p) <=> Got(p) = Sources(p)
           /\ Collected(p) \subseteq Proc
           /\ Full(p) => Collected(p) = Branch(p)
<1>1. Got(p) \subseteq Sources(p)
  BY DEF Got
<1>2. /\ IsFiniteSet(Got(p))
      /\ Cardinality(Sources(p)) = Cardinality(Got(p)) => Sources(p) = Got(p)
  BY <1>1, TreeFacts, FS_Subset
<1>3. Cardinality(Got(p)) \in Nat
  BY <1>2, FS_CardinalityType
<1>4. tracker[p].nreported = Cardinality(Got(p))
  BY DEF TrackerInv
<1>5. Full(p) <=> Got(p) = Sources(p)
  BY <1>2, <1>4, TreeFacts DEF Full
<1>6. Collected(p) \subseteq Proc
  BY <1>1, PartFacts DEF Collected
<1>7. Full(p) => Collected(p) = Branch(p)
  BY <1>5, PartFacts DEF Collected
<1>8. QED BY <1>1, <1>2, <1>3, <1>5, <1>6, <1>7

\* Once the master is full everyone has called and no report is in flight.
LEMMA MasterFull ==
    ASSUME IInv, Full(Master)
    PROVE  /\ \A x \in Proc : called[x] /\ Full(x)
           /\ \A s, p : s \in Sources(p) /\ p \in Proc => DMsg(kind, s, p) \notin net
           /\ \A m \in net : m.tag # "DIRECT"
<1>1. \A x \in Proc : /\ called[x] /\ Full(x)
                      /\ DMsg(kind, x, x) \notin net
                      /\ x # Master => DMsg(kind, x, Parent[x]) \notin net
  BY TreeFacts, PartFacts DEF IInv, BranchInv
<1>2. ASSUME NEW s, NEW p \in Proc, s \in Sources(p)
      PROVE  DMsg(kind, s, p) \notin net
  BY <1>1, <1>2, TreeFacts DEF Sources
<1>3. ASSUME NEW m \in net PROVE m.tag # "DIRECT"
  <2>1. m.dst \in Proc
    BY DEF IInv, TypeOK, Message
  <2>2. QED BY <2>1, <1>2, MsgFacts DEF IInv, NetInv
<1>4. QED BY <1>1, <1>2, <1>3
-----------------------------------------------------------------------------
(* The steps. *)

\* A call adds its own report to the net and changes nobody's count.
LEMMA CallStep == ASSUME IInv, NEW p \in Proc, Call(p) PROVE IInv'
<1>1. /\ ~called[p] /\ UNCHANGED <<kind, ncallbacks, result>>
      /\ called' = [called EXCEPT ![p] = TRUE]
      /\ tracker' = [tracker EXCEPT ![p] = [get_tracker(p) EXCEPT !.req = TRUE]]
      /\ net' = net \cup {DMsg(kind, p, p)}
  BY DEF Call, DMsg, Payload, Contribution, Part
<1>2. TypeOK'
  BY TypeStep DEF IInv, Next
<1>3. TypeOK /\ ~Full(Master) /\ \A q \in Proc : ncallbacks[q] = 0
  BY <1>1, MasterFull DEF IInv, TypeOK, DoneInv
<1>4. \A q \in Proc : /\ tracker[q] \in Tracker
                      /\ tracker'[q].nreported = tracker[q].nreported
                      /\ tracker'[q].bucket = tracker[q].bucket
                      /\ q # p => tracker'[q] = tracker[q] /\ called'[q] = called[q]
                      /\ q = p => /\ tracker'[q].req = TRUE
                                  /\ tracker'[q].there = TRUE
                                  /\ called'[q] = TRUE
  <2>1. tracker \in [Proc -> Tracker] /\ called \in [Proc -> BOOLEAN]
    BY <1>3 DEF TypeOK
  <2>2. QED BY <1>1, <2>1 DEF get_tracker, Tracker
<1>5. \A q \in Proc : Full(q)' <=> Full(q)
  BY <1>1, <1>4 DEF Full
<1>6. \A q \in Proc, s \in Proc : HasSent(s, q)' <=> (HasSent(s, q) \/ (s = p /\ q = p))
  BY <1>4, <1>5 DEF HasSent
<1>7. \A q \in Proc : Sources(q) \subseteq Proc
  BY TreeFacts DEF Sources
<1>8. \A q \in Proc : Got(q)' = Got(q)
  <2> SUFFICES ASSUME NEW q \in Proc, NEW s \in Sources(q)
               PROVE  s \in Got(q)' <=> s \in Got(q)
    BY DEF Got
  <2>1. CASE s = p /\ q = p
    BY <2>1, <1>1 DEF Got, HasSent
  <2>2. CASE ~(s = p /\ q = p)
    <3>1. DMsg(kind, s, q) # DMsg(kind, p, p)
      BY <2>2, MsgFacts
    <3>2. QED BY <2>2, <3>1, <1>1, <1>6, <1>7 DEF Got
  <2>3. QED BY <2>1, <2>2
<1>9. NetInv'
  <2> SUFFICES ASSUME NEW m \in net'
               PROVE  \/ /\ m = DMsg(kind', m.src, m.dst)
                         /\ m.src \in Sources(m.dst)
                         /\ HasSent(m.src, m.dst)'
                      \/ m = XMsg(kind', m.dst) /\ Full(Master)'
                      \/ m = RMsg(kind', m.dst) /\ Full(Master)'
    BY DEF NetInv
  <2>1. CASE m \in net
    <3>1. m.src \in Proc /\ m.dst \in Proc
      BY <2>1 DEF IInv, TypeOK, Message
    <3>2. QED BY <2>1, <3>1, <1>1, <1>5, <1>6, TreeFacts DEF IInv, NetInv
  <2>2. CASE m = DMsg(kind, p, p)
    BY <2>2, <1>1, <1>6, MsgFacts DEF Sources
  <2>3. QED BY <1>1, <2>1, <2>2
<1>10. TrackerInv'
  <2>1. \A q \in Proc : Collected(q)' = Collected(q)
    BY <1>8 DEF Collected
  <2>2. \A q \in Proc : tracker[q].req = called[q] /\ (called[q] => tracker[q].there)
    BY <1>3 DEF IInv, TrackerInv
  <2>3. \A q \in Proc : tracker'[q].req = called'[q] /\ (called'[q] => tracker'[q].there)
    BY ZenonT(60), <2>2, <1>4
  <2>4. ASSUME NEW q \in Proc
        PROVE  /\ tracker'[q].nreported = Cardinality(Got(q)')
               /\ tracker'[q].bucket = Payload(kind', Collected(q)')
               /\ result'[q] = Empty
    <3>1. /\ tracker[q].nreported = Cardinality(Got(q))
          /\ tracker[q].bucket = Payload(kind, Collected(q))
          /\ result[q] = Empty
      BY <1>3 DEF IInv, TrackerInv
    <3>2. QED BY <3>1, <2>1, <1>1, <1>4, <1>8
  <2>5. QED BY <2>3, <2>4 DEF TrackerInv
<1>11. DoneInv'
  BY <1>1, <1>3 DEF DoneInv
<1>12. BranchInv'
  <2> SUFFICES ASSUME NEW q \in Proc, Full(q), NEW x \in Branch(q)
               PROVE  /\ called'[x] /\ Full(x)'
                      /\ DMsg(kind', x, x) \notin net'
                      /\ x # q => DMsg(kind', x, Parent[x]) \notin net'
    BY <1>5 DEF BranchInv
  <2>1. x \in Proc
    BY TreeAssumption DEF Branch
  <2>2. /\ called[x] /\ Full(x)
        /\ DMsg(kind, x, x) \notin net
        /\ x # q => DMsg(kind, x, Parent[x]) \notin net
    BY DEF IInv, BranchInv
  <2>3. x # p
    BY <2>2, <1>1
  <2>4. QED BY <2>1, <2>2, <2>3, <1>1, <1>4, <1>5, MsgFacts
<1>13. XcastInv' /\ ReleaseInv'
  <2>1. \A q : /\ XMsg(kind', q) \in net' <=> XMsg(kind, q) \in net
               /\ RMsg(kind', q) \in net' <=> RMsg(kind, q) \in net
    BY <1>1, MsgFacts
  <2>2. QED BY <2>1, <1>1 DEF IInv, XcastInv, ReleaseInv
<1>14. QED BY <1>2, <1>9, <1>10, <1>11, <1>12, <1>13 DEF IInv

\* While the master is not full nobody was released and no release is on its way.
LEMMA BeforeRelease ==
    ASSUME IInv, ~Full(Master)
    PROVE  /\ \A q \in Proc : ncallbacks[q] = 0
           /\ \A q : XMsg(kind, q) \notin net /\ RMsg(kind, q) \notin net
<1>1. \A q \in Proc : ncallbacks[q] = 0
  BY DEF IInv, DoneInv
<1>2. ASSUME NEW q PROVE XMsg(kind, q) \notin net /\ RMsg(kind, q) \notin net
  <2>1. XMsg(kind, q) \notin net
    BY MsgFacts DEF IInv, NetInv
  <2>2. RMsg(kind, q) \notin net
    BY MsgFacts DEF IInv, NetInv
  <2>3. QED BY <2>1, <2>2
<1>3. QED BY <1>1, <1>2

\* A report is counted once, by the member it is addressed to; the member that
\* becomes full passes its branch on, or starts the broadcast at the master.
LEMMA DirectRecvStep == ASSUME IInv, NEW p \in Proc, DirectRecv(p) PROVE IInv'
<1>1. PICK m \in net :
        /\ m.dst = p /\ m.tag = "DIRECT"
        /\ tracker' = [tracker EXCEPT ![p] =
              [there |-> TRUE, req |-> get_tracker(p).req,
               nreported |-> get_tracker(p).nreported + 1,
               bucket |-> copy_payload(get_tracker(p).bucket, m.buf)]]
        /\ net' = (net \ {m}) \cup
              (IF get_tracker(p).nreported + 1 = nexpected(p)
               THEN {Rollup(p, copy_payload(get_tracker(p).bucket, m.buf))}
               ELSE {})
        /\ UNCHANGED <<kind, called, ncallbacks, result>>
  BY DEF DirectRecv
<1> DEFINE s == m.src
           n == tracker[p].nreported + 1
           complete == n = nexpected(p)
           bucket == Payload(kind, Collected(p) \cup Part(s, p))
<1>2. TypeOK'
  BY TypeStep DEF IInv, Next
<1>3. s \in Sources(p) /\ HasSent(s, p) /\ m = DMsg(kind, s, p)
  BY <1>1, MsgFacts DEF IInv, NetInv
<1>4. ~Full(Master)
  BY <1>1, MasterFull
<1>5. /\ TypeOK /\ TrackerInv
      /\ \A q \in Proc : ncallbacks[q] = 0
      /\ \A q : XMsg(kind, q) \notin net /\ RMsg(kind, q) \notin net
  BY <1>4, BeforeRelease DEF IInv
<1>6. s \notin Got(p)
  BY <1>3 DEF Got
<1>7. ~Full(p) /\ IsFiniteSet(Got(p)) /\ Got(p) \subseteq Sources(p)
      /\ tracker[p].nreported = Cardinality(Got(p)) /\ Cardinality(Got(p)) \in Nat
  <2>1. ~Full(p)
    BY <1>3, <1>5, <1>6, GotFacts
  <2>2. QED BY <2>1, <1>5, GotFacts DEF TrackerInv
<1>8. Collected(p) \subseteq Proc /\ Collected(p) \cap Part(s, p) = {}
  <2>1. \A t \in Got(p) : Part(t, p) \cap Part(s, p) = {}
    BY <1>3, <1>6, <1>7, PartFacts
  <2>2. QED BY <2>1, <1>5, GotFacts DEF Collected
<1>9. copy_payload(get_tracker(p).bucket, m.buf) = bucket
  <2>1. get_tracker(p).bucket = Payload(kind, Collected(p))
    BY <1>5 DEF get_tracker, TrackerInv, TypeOK, Tracker
  <2>2. m.buf = Payload(kind, Part(s, p))
    BY <1>3, MsgFacts
  <2>3. Part(s, p) \subseteq Proc
    BY <1>3, PartFacts
  <2>4. QED BY <2>1, <2>2, <2>3, <1>8, PayloadFacts
<1>10. /\ tracker' = [tracker EXCEPT ![p] = [there |-> TRUE, req |-> tracker[p].req,
                                            nreported |-> n, bucket |-> bucket]]
       /\ net' = (net \ {m}) \cup (IF complete THEN {Rollup(p, bucket)} ELSE {})
       /\ kind' = kind /\ called' = called /\ ncallbacks' = ncallbacks /\ result' = result
  <2>1. get_tracker(p).req = tracker[p].req /\ get_tracker(p).nreported = tracker[p].nreported
    BY <1>5 DEF get_tracker, TypeOK, Tracker
  <2>2. QED BY <1>1, <1>9, <2>1
<1> HIDE DEF bucket
<1>11. \A q \in Proc : /\ q # p => tracker'[q] = tracker[q] /\ (Full(q)' <=> Full(q))
                       /\ q = p => (Full(q)' <=> complete)
  BY <1>10, <1>5 DEF TypeOK, Full
<1>12. /\ tracker'[p].nreported = n /\ tracker'[p].bucket = bucket
       /\ tracker'[p].req = tracker[p].req /\ tracker'[p].there = TRUE
  BY <1>10, <1>5 DEF TypeOK
<1>13. \A t \in Sources(p) : t \in Got(p)' <=> t \in Got(p) \cup {s}
  <2> SUFFICES ASSUME NEW t \in Sources(p)
               PROVE  t \in Got(p)' <=> t \in Got(p) \cup {s}
    OBVIOUS
  <2>1. t \in Proc /\ (t # p => (Full(t)' <=> Full(t)))
    BY <1>11, TreeFacts DEF Sources
  <2>2. HasSent(t, p)' <=> HasSent(t, p)
    BY <2>1, <1>10 DEF HasSent
  <2>3. \A b : Rollup(p, b) # DMsg(kind, t, p)
    BY MsgFacts, ParentFacts DEF Rollup, Msg, DMsg
  <2>4. DMsg(kind, t, p) \in net' <=> (DMsg(kind, t, p) \in net /\ t # s)
    BY <2>3, <1>3, <1>10, MsgFacts
  <2>5. QED BY <2>2, <2>4, <1>3, <1>10 DEF Got
<1>14. Got(p)' = Got(p) \cup {s}
  BY <1>13, <1>3, <1>7 DEF Got
<1>15. Collected(p)' = Collected(p) \cup Part(s, p)
  BY <1>14 DEF Collected
<1>16. complete => Got(p)' = Sources(p) /\ bucket = Payload(kind, Branch(p))
  <2>1. Cardinality(Got(p) \cup {s}) = n
    BY <1>6, <1>7, FS_AddElement
  <2>2. complete => Got(p) \cup {s} = Sources(p)
    BY <2>1, <1>3, <1>7, TreeFacts, FS_Subset
  <2>3. complete => Collected(p)' = Branch(p)
    BY <2>2, <1>14, PartFacts DEF Collected
  <2>4. QED BY <2>2, <2>3, <1>14, <1>15 DEF bucket
<1>17. complete => Rollup(p, bucket) = IF p = Master THEN XMsg(kind, p)
                                       ELSE DMsg(kind, p, Parent[p])
  <2>1. CASE p = Master
    BY <2>1, <1>16, PartFacts DEF Rollup, XMsg
  <2>2. CASE p # Master
    BY <2>2, <1>16, ParentFacts DEF Rollup, DMsg, Part
  <2>3. QED BY <2>1, <2>2
<1>18. ASSUME NEW q \in Proc, q # p PROVE Got(q)' = Got(q)
  <2> SUFFICES ASSUME NEW t \in Sources(q)
               PROVE  t \in Got(q)' <=> t \in Got(q)
    BY DEF Got
  <2>1. t \in Proc /\ (t # q => t \in Children(q))
    BY TreeFacts DEF Sources
  <2>2. DMsg(kind, t, q) # m
    BY <1>3, <1>18, MsgFacts
  <2>3. CASE t # p
    <3>1. HasSent(t, q)' <=> HasSent(t, q)
      BY <2>1, <2>3, <1>10, <1>11 DEF HasSent
    <3>2. complete => DMsg(kind, t, q) # Rollup(p, bucket)
      BY <2>3, <1>17, MsgFacts
    <3>3. QED BY <3>1, <3>2, <2>2, <1>10 DEF Got
  <2>4. CASE t = p
    <3>1. p # Master /\ q = Parent[p]
      BY <2>1, <2>4, <1>18, TreeFacts
    <3>2. t \notin Got(q)
      BY <2>4, <1>18, <1>7 DEF Got, HasSent
    <3>3. CASE complete
      BY <3>1, <3>2, <3>3, <2>4, <1>10, <1>17 DEF Got
    <3>4. CASE ~complete
      BY <3>2, <3>4, <2>4, <1>11, <1>18 DEF Got, HasSent
    <3>5. QED BY <3>3, <3>4
  <2>5. QED BY <2>3, <2>4
<1>19. NetInv'
  <2> SUFFICES ASSUME NEW a \in net'
               PROVE  \/ /\ a = DMsg(kind', a.src, a.dst)
                         /\ a.src \in Sources(a.dst)
                         /\ HasSent(a.src, a.dst)'
                      \/ a = XMsg(kind', a.dst) /\ Full(Master)'
    BY DEF NetInv
  <2>1. CASE a \in net
    <3>1. a.src \in Proc /\ a.dst \in Proc
      BY <2>1, <1>5 DEF TypeOK, Message
    <3>2. a = DMsg(kind, a.src, a.dst) /\ a.src \in Sources(a.dst) /\ HasSent(a.src, a.dst)
      BY <2>1, <1>4 DEF IInv, NetInv
    <3>3. HasSent(a.src, a.dst)'
      BY <3>1, <3>2, <1>7, <1>10, <1>11 DEF HasSent
    <3>4. QED BY <3>2, <3>3, <1>10
  <2>2. CASE complete /\ p = Master /\ a = XMsg(kind, p)
    BY <2>2, <1>10, <1>11, MsgFacts
  <2>3. CASE complete /\ p # Master /\ a = DMsg(kind, p, Parent[p])
    BY <2>3, <1>10, <1>11, MsgFacts, ParentFacts DEF HasSent, Sources
  <2>4. QED BY <2>1, <2>2, <2>3, <1>10, <1>17
<1>20. TrackerInv'
  <2> SUFFICES ASSUME NEW q \in Proc
               PROVE  /\ tracker'[q].nreported = Cardinality(Got(q)')
                      /\ tracker'[q].bucket = Payload(kind', Collected(q)')
                      /\ tracker'[q].req = called'[q]
                      /\ called'[q] => tracker'[q].there
                      /\ result'[q] = Empty
    BY DEF TrackerInv
  <2>1. /\ tracker[q].nreported = Cardinality(Got(q))
        /\ tracker[q].bucket = Payload(kind, Collected(q))
        /\ tracker[q].req = called[q]
        /\ called[q] => tracker[q].there
        /\ result[q] = Empty
    BY <1>5 DEF TrackerInv
  <2>2. CASE q = p
    <3>1. Cardinality(Got(p)') = n
      <4>1. Cardinality(Got(p) \cup {s}) = Cardinality(Got(p)) + 1
        BY <1>6, <1>7, FS_AddElement
      <4>2. QED BY <4>1, <1>7, <1>14
    <3>2. tracker'[p].bucket = Payload(kind', Collected(p)')
      BY <1>10, <1>12, <1>15 DEF bucket
    <3>3. tracker'[p].req = called'[p] /\ tracker'[p].there /\ result'[p] = Empty
      BY <2>1, <2>2, <1>10, <1>12
    <3>4. QED BY <3>1, <3>2, <3>3, <2>2, <1>12
  <2>3. CASE q # p
    <3>1. Got(q)' = Got(q) /\ Collected(q)' = Collected(q)
      BY <2>3, <1>18 DEF Collected
    <3>2. tracker'[q] = tracker[q] /\ kind' = kind /\ called' = called /\ result' = result
      BY <2>3, <1>10, <1>11
    <3>3. QED BY <3>1, <3>2, <2>1
  <2>4. QED BY <2>2, <2>3
<1>21. DoneInv'
  BY <1>5, <1>10 DEF DoneInv
<1>22. BranchInv'
  <2> SUFFICES ASSUME NEW q \in Proc, Full(q)', NEW x \in Branch(q)
               PROVE  /\ called'[x] /\ Full(x)'
                      /\ DMsg(kind', x, x) \notin net'
                      /\ x # q => DMsg(kind', x, Parent[x]) \notin net'
    BY DEF BranchInv
  <2>1. x \in Proc
    BY TreeAssumption DEF Branch
  <2>2. \A y, r : y # p /\ DMsg(kind, y, r) \notin net => DMsg(kind', y, r) \notin net'
    BY <1>10, <1>17, MsgFacts
  <2>3. ASSUME NEW r \in Proc, r # p, Full(r), x \in Branch(r)
        PROVE  /\ x # p
               /\ called'[x] /\ Full(x)'
               /\ DMsg(kind', x, x) \notin net'
               /\ x # r => DMsg(kind', x, Parent[x]) \notin net'
    <3>1. /\ called[x] /\ Full(x)
          /\ DMsg(kind, x, x) \notin net
          /\ x # r => DMsg(kind, x, Parent[x]) \notin net
      BY <2>3 DEF IInv, BranchInv
    <3>2. x # p
      BY <3>1, <1>7
    <3>3. QED BY <3>1, <3>2, <2>1, <2>2, <1>10, <1>11
  <2>4. CASE q # p
    BY <2>3, <2>4, <1>11
  <2>5. CASE q = p
    <3>1. complete /\ Got(p)' = Sources(p)
      BY <2>5, <1>11, <1>16
    <3>2. called'[p] /\ DMsg(kind', p, p) \notin net'
      BY <3>1 DEF Got, Sources, HasSent
    <3>3. \A c \in Children(p) : c # p /\ c \in Proc /\ Full(c)'
                                 /\ DMsg(kind', c, p) \notin net'
      BY <3>1, TreeFacts DEF Got, Sources, HasSent
    <3>4. CASE x = p
      BY <3>2, <3>4, <2>5
    <3>5. CASE x # p
      <4>1. x \in Relatives[p]
        BY <2>5, <3>5 DEF Branch
      <4>2. PICK c \in Children(p) : x \in Branch(c)
        BY <4>1, TreeAssumption DEF Branch
      <4>3. Full(c) /\ c # p /\ c \in Proc
        BY <3>3, <1>11
      <4>4. x = c => Parent[x] = p
        BY TreeFacts
      <4>5. QED BY <4>2, <4>3, <4>4, <3>3, <2>3
    <3>6. QED BY <3>4, <3>5
  <2>6. QED BY <2>4, <2>5
<1>23. XcastInv' /\ ReleaseInv'
  <2>1. \A q : RMsg(kind', q) \notin net'
    BY <1>5, <1>10, <1>17, MsgFacts
  <2>2. \A q : XMsg(kind', q) \in net' => q = Master
    BY <1>5, <1>10, <1>17, MsgFacts
  <2>3. Branch(Master) = Proc
    BY PartFacts, TreeFacts
  <2>4. \A x \in Proc : ncallbacks'[x] = 0
    BY <1>5, <1>10
  <2>5. QED BY <2>1, <2>2, <2>3, <2>4 DEF XcastInv, ReleaseInv
<1>24. QED BY <1>2, <1>19, <1>20, <1>21, <1>22, <1>23 DEF IInv

\* The broadcast moves one level down: p's copy is replaced by one copy per
\* child and p's own release.
LEMMA XcastRecvStep == ASSUME IInv, NEW p \in Proc, XcastRecv(p) PROVE IInv'
<1>1. PICK m \in net :
        /\ m.dst = p /\ m.tag = "XCAST"
        /\ net' = (net \ {m}) \cup {Msg(p, c, "XCAST", m.buf) : c \in Children(p)}
                             \cup {Msg(p, p, "RELEASE", m.buf)}
        /\ kind' = kind /\ called' = called /\ ncallbacks' = ncallbacks
        /\ result' = result /\ tracker' = tracker
  BY DEF XcastRecv
<1>2. TypeOK'
  BY TypeStep DEF IInv, Next
<1>3. m = XMsg(kind, p) /\ Full(Master)
  BY <1>1, MsgFacts DEF IInv, NetInv
<1>4. /\ \A c \in Children(p) : Msg(p, c, "XCAST", m.buf) = XMsg(kind, c)
      /\ Msg(p, p, "RELEASE", m.buf) = RMsg(kind, p)
  <2>1. m.buf = Payload(kind, Proc)
    BY <1>3, MsgFacts
  <2>2. \A c \in Children(p) : c # Master /\ Parent[c] = p
    BY TreeFacts
  <2>3. QED BY <2>1, <2>2 DEF XMsg, RMsg
<1>5. net' = (net \ {XMsg(kind, p)}) \cup {XMsg(kind, c) : c \in Children(p)}
             \cup {RMsg(kind, p)}
  BY <1>1, <1>3, <1>4
<1>6. \A a : a \in net' <=> \/ a \in net /\ a # XMsg(kind, p)
                            \/ a = RMsg(kind, p)
                            \/ \E c \in Children(p) : a = XMsg(kind, c)
  BY <1>5
<1>7. \A q \in Proc : Full(q)' <=> Full(q)
  BY <1>1 DEF Full
<1>8. \A t \in Proc, q \in Proc : HasSent(t, q)' <=> HasSent(t, q)
  BY <1>1, <1>7 DEF HasSent
<1>9. \A t, q : DMsg(kind, t, q) \in net' <=> DMsg(kind, t, q) \in net
  <2> TAKE t, q
  <2>1. /\ DMsg(kind, t, q) # XMsg(kind, p) /\ DMsg(kind, t, q) # RMsg(kind, p)
        /\ \A c : DMsg(kind, t, q) # XMsg(kind, c)
    BY MsgFacts
  <2>2. QED BY <2>1, <1>6
<1>10. \A y : RMsg(kind, y) \in net' <=> RMsg(kind, y) \in net \/ y = p
  <2> TAKE y
  <2>1. /\ \A c : RMsg(kind, y) # XMsg(kind, c)
        /\ RMsg(kind, y) = RMsg(kind, p) <=> y = p
    BY MsgFacts
  <2>2. QED BY <2>1, <1>6
<1>11. \A y : XMsg(kind, y) \in net' <=> (XMsg(kind, y) \in net /\ y # p)
                                        \/ y \in Children(p)
  <2> TAKE y
  <2>1. /\ XMsg(kind, y) # RMsg(kind, p)
        /\ \A c : XMsg(kind, y) = XMsg(kind, c) <=> y = c
    BY MsgFacts
  <2>2. QED BY <2>1, <1>6
<1>12. \A q \in Proc : Got(q)' = Got(q)
  <2>1. \A q \in Proc : Sources(q) \subseteq Proc
    BY TreeFacts DEF Sources
  <2>2. QED BY <2>1, <1>1, <1>8, <1>9 DEF Got
<1>13. NetInv'
  <2> SUFFICES ASSUME NEW a \in net'
               PROVE  \/ /\ a = DMsg(kind', a.src, a.dst)
                         /\ a.src \in Sources(a.dst)
                         /\ HasSent(a.src, a.dst)'
                      \/ a = XMsg(kind', a.dst) /\ Full(Master)'
                      \/ a = RMsg(kind', a.dst) /\ Full(Master)'
    BY DEF NetInv
  <2>1. Full(Master)'
    BY <1>3, <1>7, TreeFacts
  <2>2. CASE a \in net
    <3>1. a.src \in Proc /\ a.dst \in Proc
      BY <2>2 DEF IInv, TypeOK, Message
    <3>2. QED BY <3>1, <2>1, <2>2, <1>1, <1>8 DEF IInv, NetInv
  <2>3. CASE a \notin net
    BY <2>1, <2>3, <1>1, <1>5, MsgFacts
  <2>4. QED BY <2>2, <2>3
<1>14. TrackerInv'
  <2>1. \A q \in Proc : Collected(q)' = Collected(q)
    BY <1>12 DEF Collected
  <2>2. QED BY <2>1, <1>1, <1>12 DEF IInv, TrackerInv
<1>15. DoneInv'
  BY <1>1, <1>7, TreeFacts DEF IInv, DoneInv
<1>16. BranchInv'
  <2>1. \A q \in Proc : Branch(q) \subseteq Proc
    BY TreeAssumption DEF Branch
  <2>2. QED BY <2>1, <1>1, <1>7, <1>9 DEF IInv, BranchInv
<1>17. /\ ncallbacks[p] = 0
       /\ \A x \in Branch(p) : /\ ncallbacks[x] = 0
                               /\ RMsg(kind, x) \notin net
                               /\ x # p => XMsg(kind, x) \notin net
  BY <1>3 DEF IInv, XcastInv, Branch
<1>18. ReleaseInv'
  BY <1>1, <1>10, <1>17 DEF IInv, ReleaseInv
<1>19. XcastInv'
  <2> SUFFICES ASSUME NEW q \in Proc, XMsg(kind, q) \in net', NEW x \in Branch(q)
               PROVE  /\ ncallbacks[x] = 0
                      /\ RMsg(kind, x) \notin net'
                      /\ x # q => XMsg(kind, x) \notin net'
    BY <1>1 DEF XcastInv
  <2>1. \A y : /\ RMsg(kind, y) \in net' <=> RMsg(kind, y) \in net \/ y = p
               /\ XMsg(kind, y) \in net' <=> (XMsg(kind, y) \in net /\ y # p)
                                             \/ y \in Children(p)
    BY <1>10, <1>11
  <2>2. CASE q \in Children(p)
    <3>1. x \in Relatives[p]
      BY <2>2, TreeAssumption DEF Branch
    <3>2. x # p /\ x \in Branch(p)
      BY <3>1, TreeAssumption DEF Branch
    <3>3. x # q => x \notin Children(p)
      BY <2>2, TreeAssumption DEF Branch
    <3>4. QED BY <3>2, <3>3, <2>1, <1>17
  <2>3. CASE q \notin Children(p)
    <3>1. XMsg(kind, q) \in net /\ q # p
      BY <2>1, <2>3
    <3>2. /\ ncallbacks[x] = 0 /\ RMsg(kind, x) \notin net
          /\ x # q => XMsg(kind, x) \notin net
      BY <3>1 DEF IInv, XcastInv
    <3>3. p \notin Branch(q)
      BY <3>1, <1>3 DEF IInv, XcastInv
    <3>4. x \notin Children(p)
      <4>1. ASSUME x \in Children(p) PROVE x \in Relatives[q] /\ Parent[x] = p
        BY <4>1, <2>3, TreeFacts DEF Branch
      <4>2. QED BY <4>1, <3>3, TreeAssumption DEF Branch
    <3>5. QED BY <3>2, <3>3, <3>4, <2>1
  <2>4. QED BY <2>2, <2>3
<1>20. QED BY <1>2, <1>13, <1>14, <1>15, <1>16, <1>18, <1>19 DEF IInv

\* The release finds the tracker with the request in it, runs the callback with
\* everybody's contribution and removes the tracker.
LEMMA ReleaseFacts ==
    ASSUME IInv, NEW p \in Proc, ReleaseRecv(p)
    PROVE  /\ RMsg(kind, p) \in net /\ Full(Master) /\ Full(p)
           /\ ncallbacks[p] = 0 /\ tracker[p].there /\ tracker[p].req
           /\ net' = net \ {RMsg(kind, p)}
           /\ tracker' = [tracker EXCEPT ![p] = NoTracker]
           /\ ncallbacks' = [ncallbacks EXCEPT ![p] = 1]
           /\ result' = [result EXCEPT ![p] = Payload(kind, Proc)]
           /\ kind' = kind /\ called' = called
<1>1. PICK m \in net :
        /\ m.dst = p /\ m.tag = "RELEASE"
        /\ net' = net \ {m}
        /\ IF tracker[p].there
           THEN /\ tracker' = [tracker EXCEPT ![p] = NoTracker]
                /\ IF tracker[p].req
                   THEN /\ ncallbacks' = [ncallbacks EXCEPT ![p] = @ + 1]
                        /\ result' = [result EXCEPT ![p] = m.buf]
                   ELSE UNCHANGED <<ncallbacks, result>>
           ELSE UNCHANGED <<tracker, ncallbacks, result>>
        /\ kind' = kind /\ called' = called
  BY DEF ReleaseRecv
<1>2. m = RMsg(kind, p) /\ Full(Master) /\ m.buf = Payload(kind, Proc)
  BY <1>1, MsgFacts DEF IInv, NetInv
<1>3. ncallbacks[p] = 0
  BY <1>2 DEF IInv, ReleaseInv
<1>4. called[p] /\ Full(p)
  BY <1>2, MasterFull
<1>5. tracker[p].there /\ tracker[p].req
  BY <1>3, <1>4 DEF IInv, TrackerInv
<1>6. ncallbacks' = [ncallbacks EXCEPT ![p] = 1]
  BY <1>1, <1>3, <1>5
<1>7. QED BY <1>1, <1>2, <1>3, <1>4, <1>5, <1>6

\* A release ends the collective at one member and leaves the others, and what
\* is still on its way to them, as they were (allgather_release).
LEMMA ReleaseRecvStep == ASSUME IInv, NEW p \in Proc, ReleaseRecv(p) PROVE IInv'
<1>1. /\ RMsg(kind, p) \in net /\ Full(Master) /\ Full(p)
      /\ ncallbacks[p] = 0
      /\ net' = net \ {RMsg(kind, p)}
      /\ tracker' = [tracker EXCEPT ![p] = NoTracker]
      /\ ncallbacks' = [ncallbacks EXCEPT ![p] = 1]
      /\ result' = [result EXCEPT ![p] = Payload(kind, Proc)]
      /\ kind' = kind /\ called' = called
  BY ReleaseFacts
<1>2. TypeOK'
  BY TypeStep DEF IInv, Next
<1>3. /\ \A q \in Proc : q # p => /\ tracker'[q] = tracker[q]
                                  /\ ncallbacks'[q] = ncallbacks[q]
                                  /\ result'[q] = result[q]
      /\ tracker'[p] = NoTracker /\ ncallbacks'[p] = 1
      /\ result'[p] = Payload(kind, Proc)
  BY <1>1 DEF IInv, TypeOK
<1>4. \A q \in Proc : Full(q)' <=> Full(q)
  BY <1>1, <1>3 DEF Full
<1>5. \A t \in Proc, q \in Proc : HasSent(t, q)' <=> HasSent(t, q)
  BY <1>1, <1>4 DEF HasSent
<1>6. \A t, q : /\ DMsg(kind, t, q) \in net' <=> DMsg(kind, t, q) \in net
                /\ XMsg(kind, q) \in net' <=> XMsg(kind, q) \in net
                /\ RMsg(kind, q) \in net' <=> RMsg(kind, q) \in net /\ q # p
  BY <1>1, MsgFacts
<1>7. \A q \in Proc : Got(q)' = Got(q)
  <2>1. \A q \in Proc : Sources(q) \subseteq Proc
    BY TreeFacts DEF Sources
  <2>2. QED BY <2>1, <1>1, <1>5, <1>6 DEF Got
<1>8. NetInv'
  <2> SUFFICES ASSUME NEW a \in net'
               PROVE  \/ /\ a = DMsg(kind', a.src, a.dst)
                         /\ a.src \in Sources(a.dst)
                         /\ HasSent(a.src, a.dst)'
                      \/ a = XMsg(kind', a.dst) /\ Full(Master)'
                      \/ a = RMsg(kind', a.dst) /\ Full(Master)'
    BY DEF NetInv
  <2>1. Full(Master)' /\ a \in net
    BY <1>1, <1>4, TreeFacts
  <2>2. a.src \in Proc /\ a.dst \in Proc
    BY <2>1 DEF IInv, TypeOK, Message
  <2>3. QED BY <2>1, <2>2, <1>1, <1>5 DEF IInv, NetInv
<1>9. TrackerInv'
  <2>1. \A q \in Proc : Collected(q)' = Collected(q)
    BY <1>7 DEF Collected
  <2>2. ASSUME NEW q \in Proc, ncallbacks'[q] = 0
        PROVE  /\ tracker'[q].nreported = Cardinality(Got(q)')
               /\ tracker'[q].bucket = Payload(kind', Collected(q)')
               /\ tracker'[q].req = called'[q]
               /\ called'[q] => tracker'[q].there
               /\ result'[q] = Empty
    <3>1. q # p
      BY <2>2, <1>3
    <3>2. QED BY <3>1, <2>1, <2>2, <1>1, <1>3, <1>7 DEF IInv, TrackerInv
  <2>3. QED BY <2>2 DEF TrackerInv
<1>10. DoneInv'
  BY <1>1, <1>3, <1>4, TreeFacts DEF IInv, DoneInv
<1>11. BranchInv'
  <2>1. \A q \in Proc : Branch(q) \subseteq Proc
    BY TreeAssumption DEF Branch
  <2>2. QED BY <2>1, <1>1, <1>4, <1>6 DEF IInv, BranchInv
<1>12. XcastInv'
  <2> SUFFICES ASSUME NEW q \in Proc, XMsg(kind, q) \in net, NEW x \in Branch(q)
               PROVE  /\ ncallbacks'[x] = 0
                      /\ RMsg(kind, x) \notin net'
                      /\ x # q => XMsg(kind, x) \notin net'
    BY <1>1, <1>6 DEF XcastInv
  <2>1. /\ ncallbacks[x] = 0 /\ RMsg(kind, x) \notin net
        /\ x # q => XMsg(kind, x) \notin net
    BY DEF IInv, XcastInv
  <2>2. x # p /\ x \in Proc
    BY <2>1, <1>1, TreeAssumption DEF Branch
  <2>3. QED BY <2>1, <2>2, <1>3, <1>6
<1>13. ReleaseInv'
  <2> SUFFICES ASSUME NEW q \in Proc, RMsg(kind, q) \in net, q # p
               PROVE  ncallbacks'[q] = 0
    BY <1>1, <1>6 DEF ReleaseInv
  <2>1. QED BY <1>3 DEF IInv, ReleaseInv
<1>14. QED BY <1>2, <1>8, <1>9, <1>10, <1>11, <1>12, <1>13 DEF IInv

-----------------------------------------------------------------------------
(* The theorems. *)

\* Every handler keeps the inductive invariant, for any tree and any order of
\* delivery.
LEMMA Inductive == IInv /\ [Next]_vars => IInv'
<1> SUFFICES ASSUME IInv, [Next]_vars PROVE IInv'
  OBVIOUS
<1>1. CASE UNCHANGED vars
  <2>1. /\ kind' = kind /\ called' = called /\ ncallbacks' = ncallbacks
        /\ result' = result /\ tracker' = tracker /\ net' = net
    BY <1>1 DEF vars
  <2>2. \A q : Full(q)' <=> Full(q)
    BY <2>1 DEF Full
  <2>3. \A s, q : HasSent(s, q)' <=> HasSent(s, q)
    BY <2>1, <2>2 DEF HasSent
  <2>4. \A q : Got(q)' = Got(q)
    BY <2>1, <2>3 DEF Got
  <2>5. \A q : Collected(q)' = Collected(q)
    BY <2>4 DEF Collected
  <2>6. TypeOK'
    BY TypeStep DEF IInv
  <2>7. NetInv' /\ DoneInv'
    BY <2>1, <2>2, <2>3 DEF IInv, NetInv, DoneInv
  <2>8. TrackerInv'
    BY <2>1, <2>4, <2>5 DEF IInv, TrackerInv
  <2>9. BranchInv' /\ XcastInv' /\ ReleaseInv'
    BY <2>1, <2>2 DEF IInv, BranchInv, XcastInv, ReleaseInv
  <2>10. QED BY <2>6, <2>7, <2>8, <2>9 DEF IInv
<1>2. CASE Next
  BY <1>2, CallStep, DirectRecvStep, XcastRecvStep, ReleaseRecvStep DEF Next
<1>3. QED BY <1>1, <1>2

\* Before anyone calls, nobody has counted anything.
LEMMA Initially == Init => IInv
<1> SUFFICES ASSUME Init PROVE IInv
  OBVIOUS
<1>1. TypeOK
  BY DEF Init, TypeOK, Buffer, Empty, Tracker, NoTracker
<1>2. \A p \in Proc : /\ ncallbacks[p] = 0 /\ called[p] = FALSE /\ result[p] = Empty
                      /\ tracker[p] = NoTracker
  BY DEF Init
<1>3. \A p \in Proc : ~Full(p)
  BY <1>2, TreeFacts DEF Full, NoTracker
<1>4. \A p \in Proc : Got(p) = {}
  BY <1>2, <1>3, TreeFacts DEF Got, HasSent, Sources
<1>5. TrackerInv
  <2>1. Cardinality({}) = 0
    BY FS_EmptySet
  <2>2. \A p \in Proc : Collected(p) = {}
    BY <1>4 DEF Collected
  <2>3. Payload(kind, {}) = Empty
    BY PayloadFacts
  <2>4. \A p \in Proc : /\ tracker[p].nreported = 0 /\ tracker[p].bucket = Empty
                        /\ tracker[p].req = FALSE
    BY <1>2 DEF NoTracker
  <2>5. QED BY <1>2, <1>4, <2>1, <2>2, <2>3, <2>4 DEF TrackerInv
<1>6. NetInv /\ DoneInv /\ BranchInv /\ XcastInv /\ ReleaseInv
  BY <1>2, <1>3 DEF Init, NetInv, DoneInv, BranchInv, XcastInv, ReleaseInv
<1>7. QED BY <1>1, <1>5, <1>6 DEF IInv

\* What is collected, in flight and released fits together in every reachable
\* state, whatever the tree and the order of delivery.
THEOREM Invariance == Spec => []IInv
BY Initially, Inductive, PTL DEF Spec

\* A release never finds a tracker without a request in it: the callback of
\* allgather_release and barrier_release always runs.
THEOREM ReleaseFindsRequestAlways == Spec => []ReleaseFindsRequest
<1>1. IInv => ReleaseFindsRequest
  <2> SUFFICES ASSUME IInv, NEW p \in Proc, NEW m \in net, m.dst = p, m.tag = "RELEASE"
               PROVE  tracker[p].there /\ tracker[p].req
    BY DEF ReleaseFindsRequest
  <2>1. m = RMsg(kind, p) /\ Full(Master)
    BY MsgFacts DEF IInv, NetInv
  <2>2. ncallbacks[p] = 0 /\ called[p]
    BY <2>1, MasterFull DEF IInv, ReleaseInv
  <2>3. QED BY <2>2 DEF IInv, TrackerInv
<1>2. QED BY <1>1, Invariance, PTL

\* The count of reports never passes what get_tracker expects.
THEOREM NoOvercountAlways == Spec => []NoOvercount
<1>1. IInv => NoOvercount
  <2> SUFFICES ASSUME IInv, NEW p \in Proc
               PROVE  tracker[p].nreported <= nexpected(p)
    BY DEF NoOvercount
  <2>1. CASE ncallbacks[p] = 0
    <3>1. /\ Got(p) \subseteq Sources(p) /\ Cardinality(Got(p)) \in Nat
          /\ tracker[p].nreported = Cardinality(Got(p))
      BY <2>1, GotFacts DEF IInv, TrackerInv
    <3>2. Cardinality(Got(p)) <= Cardinality(Sources(p))
      BY <3>1, TreeFacts, FS_Subset
    <3>3. QED BY <3>1, <3>2, TreeFacts
  <2>2. CASE ncallbacks[p] # 0
    BY <2>2, TreeFacts DEF IInv, DoneInv, NoTracker
  <2>3. QED BY <2>1, <2>2
<1>2. QED BY <1>1, Invariance, PTL

\* Once every member had its callback the collective has left no tracker and no
\* message behind, for any tree.
THEOREM CleanAtEndAlways == Spec => []CleanAtEnd
<1>1. IInv => CleanAtEnd
  <2> SUFFICES ASSUME IInv, \A p \in Proc : ncallbacks[p] = 1
               PROVE  net = {} /\ \A p \in Proc : tracker[p] = NoTracker
    BY DEF CleanAtEnd
  <2>1. \A p \in Proc : tracker[p] = NoTracker
    BY DEF IInv, DoneInv
  <2>2. Full(Master)
    BY TreeFacts DEF Full
  <2>3. ASSUME NEW m \in net PROVE FALSE
    <3>1. m.dst \in Proc /\ m.tag # "DIRECT"
      BY <2>2, MasterFull DEF IInv, TypeOK, Message
    <3>2. m = XMsg(kind, m.dst) \/ m = RMsg(kind, m.dst)
      BY <3>1, MsgFacts DEF IInv, NetInv
    <3>3. CASE m = XMsg(kind, m.dst)
      BY <3>1, <3>3 DEF IInv, XcastInv, Branch
    <3>4. CASE m = RMsg(kind, m.dst)
      BY <3>1, <3>4 DEF IInv, ReleaseInv
    <3>5. QED BY <3>2, <3>3, <3>4
  <2>4. QED BY <2>1, <2>3
<1>2. QED BY <1>1, Invariance, PTL

\* The tree implements the abstract collective: a callback runs at most once,
\* only when every member has called, and an allgather delivers one copy of
\* each member's contribution.
THEOREM Implements == Spec => ImplementsGather
<1>1. Init => Abstract!Init
  BY DEF Init, Abstract!Init, Empty, Abstract!Nothing
<1>2. IInv /\ [Next]_vars => [Abstract!Next]_(Abstract!vars)
  <2> SUFFICES ASSUME IInv, [Next]_vars
               PROVE  Abstract!Next \/ UNCHANGED Abstract!vars
    OBVIOUS
  <2>1. CASE UNCHANGED vars
    BY <2>1 DEF vars, Abstract!vars
  <2>2. ASSUME NEW p \in Proc, Call(p) PROVE Abstract!Next
    BY <2>2 DEF Call, Abstract!Next, Abstract!Call
  <2>3. ASSUME NEW p \in Proc, DirectRecv(p) \/ XcastRecv(p)
        PROVE  UNCHANGED Abstract!vars
    BY <2>3 DEF DirectRecv, XcastRecv, Abstract!vars
  <2>4. ASSUME NEW p \in Proc, ReleaseRecv(p) PROVE Abstract!Next
    <3>1. /\ Full(Master) /\ ncallbacks[p] = 0
          /\ ncallbacks' = [ncallbacks EXCEPT ![p] = 1]
          /\ result' = [result EXCEPT ![p] = Payload(kind, Proc)]
          /\ kind' = kind /\ called' = called
      BY <2>4, ReleaseFacts
    <3>2. \A q \in Proc : called[q]
      BY <3>1, MasterFull
    <3>3. Payload(kind, Proc) = IF kind = "allgather" THEN Abstract!Everything
                                                      ELSE Abstract!Nothing
      BY DEF Payload, Only, Empty, Abstract!Everything, Abstract!Nothing
    <3>4. Abstract!Callback(p)
      BY <3>1, <3>2, <3>3 DEF Abstract!Callback
    <3>5. QED BY <3>4 DEF Abstract!Next
  <2>5. QED BY <2>1, <2>2, <2>3, <2>4 DEF Next
<1>3. QED BY <1>1, <1>2, Invariance, PTL DEF Spec, ImplementsGather, Abstract!Spec
=============================================================================
