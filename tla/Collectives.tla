----------------------------- MODULE Collectives -----------------------------
(***************************************************************************)
(* Successive allgathers and barriers of the "default" module, on one or   *)
(* more SCONs with the same members: API calls, sequence numbers, the list *)
(* of ongoing collectives and the event loops that run the handlers        *)
(* (mca/collectives/base/collectives_base_stubs.c, default/                *)
(* collectives_default.c on mca/pt2pt).                                    *)
(*                                                                         *)
(* A collective is told from the others by its signature: SCON, members,   *)
(* sequence number. The number is one more than that of the member's last  *)
(* call that is not yet released, or 0: the release removes the entry of   *)
(* coll_table. The table's key is the list of members, the same for all    *)
(* SCONs here.                                                             *)
(*                                                                         *)
(* A user xcast goes to the master and down the same tree; its number at   *)
(* its origin identifies it.                                               *)
(*                                                                         *)
(* Contributions are pairs <<member, round>>: round r of a SCON is the     *)
(* r-th collective every member calls on it. Rounds do not exist in the    *)
(* code; they are the history the properties are stated with.              *)
(***************************************************************************)
EXTENDS EventLoops, FiniteSets, SequencesExt, Picking

CONSTANTS
    Scons,           \* the SCON handles; all have the same members
    Rounds,          \* collectives every member calls on each SCON
    MaxPerScon,      \* calls a member may have outstanding on one SCON
    MaxTotal,        \* calls a member may have outstanding altogether
    Xcasters,        \* the members that xcast
    Xcasts           \* messages each of them xcasts

ASSUME SconsAssumption == IsFiniteSet(Scons)
ASSUME BoundsAssumption == Rounds \in Nat /\ Xcasts \in Nat /\ MaxPerScon \in Nat /\ MaxTotal \in Nat

VARIABLES
    prog,            \* prog[s][r]: the operation of round r of SCON s
    calls,           \* calls[p][s]: for each call of p on s, the number of
                     \* xcasts p had issued before
    nxcasts,         \* nxcasts[p]: xcasts p has issued
    delivered,       \* delivered[p]: xcasts received, as <<origin, number>>
    log,             \* log[p][s]: p's callbacks on s: [round, contents]
    last_seq,        \* coll_table: the last sequence number, -1 if no entry
    ongoing,         \* ongoing[p]: the trackers of p, in list order
    creating,        \* creating[p][b]: the thread of b is past the search of
                     \* get_tracker and about to append a tracker
    releasing,       \* releasing[p]: steps that a release in progress has done
    crashed          \* crashed[p]: p released a NULL request, or used a tracker
                     \* that was freed

users == <<prog, calls, nxcasts, delivered, log>>
trackers == <<last_seq, ongoing, creating, releasing, crashed>>
vars == <<queue, draining, channel, users, trackers>>

Sig(s, seq) == [scon |-> s, seq |-> seq]
NoSig == [scon |-> "none", seq |-> -1]
NoReq == 0
Tracker(sig) == [sig |-> sig, req |-> NoReq, nreported |-> 0, bucket |-> {}]
\* Mutant: we are counted only where nobody is under us.
nexpected_below(p) == IF Children(p) = {} THEN 1 ELSE Cardinality(Children(p))
nexpected(p) == 1 + Cardinality(Children(p))

\* A message of a collective: tag, contents, and the operation (it selects the
\* ALLGATHER or the BARRIER tag, or the tag inside an XCAST).
Msg(p, q, tag, kind, sig, buf) ==
    [src |-> p, dst |-> q, tag |-> tag, kind |-> kind, sig |-> sig, buf |-> buf]

Init ==
    /\ EventLoopsInit
    /\ prog \in [Scons -> [1..Rounds -> {"allgather", "barrier"}]]
    /\ calls = [p \in Proc |-> [s \in Scons |-> <<>>]]
    /\ nxcasts = [p \in Proc |-> 0]
    /\ delivered = [p \in Proc |-> <<>>]
    /\ log = [p \in Proc |-> [s \in Scons |-> <<>>]]
    /\ last_seq = [p \in Proc |-> -1]
    /\ ongoing = [p \in Proc |-> <<>>]
    /\ creating = [p \in Proc |-> [b \in Base |-> NoSig]]
    /\ releasing = [p \in Proc |-> 0]
    /\ crashed = [p \in Proc |-> FALSE]

-----------------------------------------------------------------------------
(* scon_collectives_base_get_tracker *)

\* Mutant: a tracker made for a child's report is not found.
Found_called(p, sig) ==
    SelectInSeq(ongoing[p], LAMBDA t : t.sig = sig /\ t.req # NoReq)
\* The position of the first tracker with this signature, 0 if there is none.
Found(p, sig) ==
    SelectInSeq(ongoing[p], LAMBDA t : t.sig = sig)

\* The search found nothing, and another thread may run before the append: only
\* the master has two threads that use the list.
Preempted(p, b, sig) ==
    /\ p = Master /\ MasterThreads
    /\ creating[p][b] = NoSig
    /\ Found(p, sig) = 0

\* The list get_tracker(sig, true) leaves, and the tracker it returns.
Creates(p, b, sig) == creating[p][b] # NoSig \/ Found(p, sig) = 0
Trackers(p, b, sig) ==
    IF Creates(p, b, sig) THEN Append(ongoing[p], Tracker(sig)) ELSE ongoing[p]
Slot(p, b, sig) ==
    IF Creates(p, b, sig) THEN Len(ongoing[p]) + 1 ELSE Found(p, sig)

\* The i-th tracker is being released, by the handler of the release that is the
\* next event of the other thread.
Dying(p, i) == releasing[p] > 0 /\ i = Found(p, NextEvent(p, pt2pt_evbase(p)).msg.sig)

-----------------------------------------------------------------------------
\* The entry of coll_table is removed.
Removed(seqs, p) == [seqs EXCEPT ![p] = -1]

Outstanding(p, s) == Len(calls[p][s]) - Len(log[p][s])
TotalOutstanding(p) == Cardinality({x \in Scons \X (1..Rounds) :
    Len(log[p][x[1]]) < x[2] /\ x[2] <= Len(calls[p][x[1]])})

\* collectives_base_api_allgather / _barrier, from the user's thread.
Issue(p, s) ==
    /\ ~crashed[p]
    /\ Len(calls[p][s]) < Rounds
    /\ Outstanding(p, s) < MaxPerScon /\ TotalOutstanding(p) < MaxTotal
    /\ calls' = [calls EXCEPT ![p][s] = Append(@, nxcasts[p])]
    /\ Activate(p, [op |-> "call", scon |-> s, round |-> Len(calls[p][s]) + 1])
    /\ UNCHANGED <<draining, channel, prog, nxcasts, delivered, log, trackers>>

\* collectives_base_api_xcast, from the user's thread.
IssueXcast(p) ==
    /\ ~crashed[p] /\ p \in Xcasters /\ nxcasts[p] < Xcasts
    /\ nxcasts' = [nxcasts EXCEPT ![p] = @ + 1]
    /\ Activate(p, [op |-> "xcast", number |-> nxcasts[p] + 1])
    /\ UNCHANGED <<draining, channel, prog, calls, delivered, log, trackers>>

\* The sequence number of the next call: coll_table's plus one.
\* Mutant: as many as there are ongoing collectives.
NextSeq_ongoing(p) == Len(ongoing[p])
NextSeq(p) == last_seq[p] + 1

(***************************************************************************)
(* collectives_base_process_allgather / _barrier, then allgather / barrier *)
(* of the module: take the next sequence number, attach the request to the *)
(* tracker, send the contribution to ourselves. A tracker that the other   *)
(* thread is releasing takes the request with it, and may be freed before  *)
(* it gets it.                                                             *)
(***************************************************************************)
ProcessCall(p) ==
    /\ ~crashed[p] /\ Ready(p, "ev", "call")
    /\ LET e == NextEvent(p, "ev")
           resumed == creating[p]["ev"] # NoSig
           sig == IF resumed THEN creating[p]["ev"] ELSE Sig(e.scon, NextSeq(p))
           own == Msg(p, p, "DIRECT", prog[e.scon][e.round], sig, {<<p, e.round>>})
       IN /\ last_seq' = IF resumed THEN last_seq ELSE [last_seq EXCEPT ![p] = sig.seq]
          /\ IF Preempted(p, "ev", sig)
             THEN /\ creating' = [creating EXCEPT ![p]["ev"] = sig]
                  /\ UNCHANGED <<queue, draining, ongoing, crashed>>
             ELSE /\ creating' = [creating EXCEPT ![p]["ev"] = NoSig]
                  /\ \E lost \in {FALSE, Dying(p, Slot(p, "ev", sig))} :
                        crashed' = [crashed EXCEPT ![p] = lost]
                  /\ ongoing' = [ongoing EXCEPT ![p] =
                        [Trackers(p, "ev", sig) EXCEPT ![Slot(p, "ev", sig)].req = e.round]]
                  /\ Handled(p, "ev", <<Send(own)>>, <<>>)
    /\ UNCHANGED <<channel, users, releasing>>

\* Where an xcast enters the tree. Mutant: at its origin.
XcastEntry_origin(p) == p
XcastEntry(p) == Master

\* collectives_base_process_xcast and the module's xcast: send it to the master.
ProcessXcast(p) ==
    /\ ~crashed[p] /\ Ready(p, "ev", "xcast")
    /\ LET id == <<p, NextEvent(p, "ev").number>>
       IN Handled(p, "ev", <<Send(Msg(p, XcastEntry(p), "XCAST", "user", NoSig, {id}))>>, <<>>)
    /\ UNCHANGED <<channel, users, trackers>>

\* The next received message has the tag.
Arrived(p, tag) ==
    /\ ~crashed[p]
    /\ Ready(p, pt2pt_evbase(p), "recv")
    /\ NextEvent(p, pt2pt_evbase(p)).msg.tag = tag

(***************************************************************************)
(* allgather_recv / barrier_recv: count the report; when everyone under us *)
(* has reported pass the bucket on, or release everyone at the master.     *)
(***************************************************************************)
DirectRecv(p) ==
    /\ Arrived(p, "DIRECT")
    /\ LET b == pt2pt_evbase(p)
           m == NextEvent(p, b).msg
           i == Slot(p, b, m.sig)
           list == Trackers(p, b, m.sig)
           coll == [list[i] EXCEPT !.nreported = @ + 1, !.bucket = @ \cup m.buf]
           rollup == IF p = Master THEN Msg(p, p, "XCAST", m.kind, m.sig, coll.bucket)
                     ELSE Msg(p, Parent[p], "DIRECT", m.kind, m.sig, coll.bucket)
       IN IF Preempted(p, b, m.sig)
          THEN /\ creating' = [creating EXCEPT ![p][b] = m.sig]
               /\ UNCHANGED <<queue, draining, ongoing>>
          ELSE /\ creating' = [creating EXCEPT ![p][b] = NoSig]
               /\ ongoing' = [ongoing EXCEPT ![p] = [list EXCEPT ![i] = coll]]
               /\ Handled(p, b, IF coll.nreported = nexpected(p)
                                THEN <<Send(rollup)>> ELSE <<>>, <<>>)
    /\ UNCHANGED <<channel, users, last_seq, releasing, crashed>>

\* xcast_recv: relay to each direct child, then pass the contents to ourselves.
XcastRecv(p) ==
    /\ Arrived(p, "XCAST")
    /\ LET b == pt2pt_evbase(p)
           m == NextEvent(p, b).msg
           peers == Picked([c \in 1..(N - 1) |-> c], Children(p))
           inner == IF m.kind = "user" THEN "USER" ELSE "RELEASE"
           relay == [i \in DOMAIN peers |-> Send(Msg(p, peers[i], "XCAST", m.kind, m.sig, m.buf))]
       IN Handled(p, b, relay \o <<Send(Msg(p, p, inner, m.kind, m.sig, m.buf))>>, <<>>)
    /\ UNCHANGED <<channel, users, trackers>>

(***************************************************************************)
(* allgather_release / barrier_release: run the callback of the tracker's  *)
(* request (1), remove the entry of coll_table (2), the tracker and the    *)
(* request (3). At a master with two threads the other one may run after   *)
(* each step. No tracker is not an error; a tracker without a request is a *)
(* NULL pointer in SCON_RELEASE.                                           *)
(***************************************************************************)
ReleaseSteps(p) == IF p = Master /\ MasterThreads THEN {releasing[p] + 1} ELSE 1..3

ReleaseRecv(p) ==
    /\ Arrived(p, "RELEASE")
    /\ LET b == pt2pt_evbase(p)
           m == NextEvent(p, b).msg
           i == Found(p, m.sig)
           r == ongoing[p][i].req
           steps == ReleaseSteps(p)
       IN IF i = 0 THEN Handled(p, b, <<>>, <<>>) /\ UNCHANGED <<log, last_seq, ongoing, releasing, crashed>>
          ELSE /\ log' = IF 1 \notin steps \/ r = NoReq THEN log
                         ELSE [log EXCEPT ![p][m.sig.scon] =
                                 Append(@, [round |-> r, contents |-> m.buf])]
               /\ last_seq' = IF 2 \in steps THEN Removed(last_seq, p) ELSE last_seq
               /\ IF 3 \in steps
                  THEN /\ Handled(p, b, <<>>, <<>>)
                       /\ ongoing' = [ongoing EXCEPT ![p] = RemoveAt(@, i)]
                       /\ releasing' = [releasing EXCEPT ![p] = 0]
                       /\ crashed' = [crashed EXCEPT ![p] = (r = NoReq)]
                  ELSE /\ releasing' = [releasing EXCEPT ![p] = @ + 1]
                       /\ UNCHANGED <<queue, draining, ongoing, crashed>>
    /\ UNCHANGED <<channel, prog, calls, nxcasts, delivered, creating>>

\* An xcast reaches the receive the user posted for its tag.
UserRecv(p) ==
    /\ Arrived(p, "USER")
    /\ LET b == pt2pt_evbase(p)
       IN /\ delivered' = [delivered EXCEPT ![p] =
                Append(@, CHOOSE id \in NextEvent(p, b).msg.buf : TRUE)]
          /\ Handled(p, b, <<>>, <<>>)
    /\ UNCHANGED <<channel, prog, calls, nxcasts, log, trackers>>

Transport(p) ==
    /\ ~crashed[p]
    /\ (\E b \in Base : ProcessSend(p, b)) \/ (\E q \in Proc : Deliver(q, p))
    /\ UNCHANGED <<users, trackers>>

Handler(p) == \/ ProcessCall(p) \/ ProcessXcast(p)
              \/ DirectRecv(p) \/ XcastRecv(p) \/ ReleaseRecv(p) \/ UserRecv(p)

Next == \E p \in Proc :
    (\E s \in Scons : Issue(p, s)) \/ IssueXcast(p) \/ Handler(p) \/ Transport(p)

Spec == Init /\ [][Next]_vars

(***************************************************************************)
(* Fairness: the progress threads of a live member keep running events and *)
(* polling, and every member makes all its calls (what a collective        *)
(* requires).                                                              *)
(***************************************************************************)
FairSpec ==
    /\ Spec
    /\ \A p \in Proc : /\ WF_vars(\E s \in Scons : Issue(p, s))
                       /\ WF_vars(IssueXcast(p))
                       /\ WF_vars(Handler(p))
                       /\ WF_vars(Transport(p))
-----------------------------------------------------------------------------
Contents == SUBSET (Proc \X (1..Rounds))
Ids == Proc \X (1..Xcasts)
Sigs == [scon : Scons, seq : Nat]
Kinds == {"allgather", "barrier"}
CollMessages == [src : Proc, dst : Proc, tag : {"DIRECT", "XCAST", "RELEASE"}, kind : Kinds,
                 sig : Sigs, buf : Contents]
UserMessages == [src : Proc, dst : Proc, tag : {"XCAST", "USER"}, kind : {"user"},
                 sig : {NoSig}, buf : {{id} : id \in Ids}]
Messages == CollMessages \cup UserMessages
Events == [op : {"send", "recv"}, msg : Messages]
             \cup [op : {"call"}, scon : Scons, round : 1..Rounds]
             \cup [op : {"xcast"}, number : 1..Xcasts]
OngoingTrackers == [sig : Sigs, req : 0..Rounds, nreported : Nat, bucket : Contents]

TypeOK ==
    /\ queue \in [Proc -> [Base -> Seq(Events)]]
    /\ draining \in [Proc -> BOOLEAN]
    /\ channel \in [Proc -> [Proc -> Seq(Messages)]]
    /\ prog \in [Scons -> [1..Rounds -> Kinds]]
    /\ calls \in [Proc -> [Scons -> Seq(0..Xcasts)]]
    /\ nxcasts \in [Proc -> 0..Xcasts]
    /\ delivered \in [Proc -> Seq(Ids)]
    /\ log \in [Proc -> [Scons -> Seq([round : 1..Rounds, contents : Contents])]]
    /\ last_seq \in [Proc -> Nat \cup {-1}]
    /\ ongoing \in [Proc -> Seq(OngoingTrackers)]
    /\ creating \in [Proc -> [Base -> Sigs \cup {NoSig}]]
    /\ releasing \in [Proc -> 0..2]
    /\ crashed \in [Proc -> BOOLEAN]

\* The n-th callback a member gets on a SCON answers its n-th call, and carries
\* the contribution of every member to that round and nothing else; nobody is
\* released from a round before everyone has called it.
CallbackCarriesItsRound == \A p \in Proc, s \in Scons : \A n \in DOMAIN log[p][s] :
    log[p][s][n] = [round |-> n, contents |-> Proc \X {n}]

\* The rounds that are mixed in a tracker.
RoundsOf(t) == {c[2] : c \in t.bucket} \cup ({t.req} \ {NoReq})

\* A tracker, found by its signature alone, never holds parts of two
\* collectives ("a collective signature so we don't need to track global
\* collective id's", collectives.h:118).
SignatureIdentifiesCollective == \A p \in Proc : \A i \in DOMAIN ongoing[p] :
    Cardinality(RoundsOf(ongoing[p][i])) <= 1

\* Members that have called the same round have it under the same signature;
\* otherwise neither ever completes.
SignatureIsAgreed == \A p, q \in Proc :
    \A i \in DOMAIN ongoing[p], j \in DOMAIN ongoing[q] :
        LET t == ongoing[p][i]
            u == ongoing[q][j]
        IN t.req = u.req /\ t.req # NoReq /\ t.sig.scon = u.sig.scon => t.sig = u.sig

\* The list of ongoing collectives has one tracker per signature: what the
\* handlers' access to global data without a lock relies on
\* (collectives_default.c:272, :338).
UniqueTracker == \A p \in Proc : \A i, j \in DOMAIN ongoing[p] :
    ongoing[p][i].sig = ongoing[p][j].sig => i = j

\* A release always finds the request: no NULL request is released.
NoCrash == \A p \in Proc : ~crashed[p]

\* Away from the master these three hold whatever the master's threads do.
BelowMaster == \A p \in Proc \ {Master} :
    /\ ~crashed[p]
    /\ \A i \in DOMAIN ongoing[p] :
          /\ Cardinality(RoundsOf(ongoing[p][i])) <= 1
          /\ ongoing[p][i].nreported <= nexpected(p)
          /\ \A j \in DOMAIN ongoing[p] :
                ongoing[p][i].sig = ongoing[p][j].sig => i = j

\* When all collectives are over no tracker and no sequence number is left to
\* confuse a later one.
CleanAtEnd ==
    (\A p \in Proc, s \in Scons : Len(log[p][s]) = Rounds) =>
        /\ InFlight = {}
        /\ \A p \in Proc : ongoing[p] = <<>> /\ last_seq[p] = -1

\* All members receive the xcasts in the same order, each at most once, and
\* those of one origin in the order it sent them, none left out, from however
\* deep in the tree.
XcastsInOrder ==
    /\ \A p, q \in Proc : \/ IsPrefix(delivered[p], delivered[q])
                         \/ IsPrefix(delivered[q], delivered[p])
    /\ \A p \in Proc : \A i \in DOMAIN delivered[p] :
          LET before == {delivered[p][j] : j \in 1..(i - 1)}
              id == delivered[p][i]
          IN id \notin before /\ \A k \in 1..(id[2] - 1) : <<id[1], k>> \in before

\* What a member xcast before it called a collective has reached everyone by
\* the time the collective's callback runs there.
XcastBeforeRelease == [][\A p \in Proc, s \in Scons :
    LET r == Len(log'[p][s])
    IN r > Len(log[p][s]) => \A q \in Proc : \A k \in 1..calls[q][s][r] :
            <<q, k>> \in ToSet(delivered[p])]_vars

\* Every xcast reaches every member.
EveryXcastArrives == <>(\A p \in Xcasters, q \in Proc : <<p, Xcasts>> \in ToSet(delivered[q]))

\* Every call gets its callback.
EveryCallCompletes == <>(\A p \in Proc, s \in Scons : Len(log[p][s]) = Rounds)

\* The signature names one collective at a time, the same at all members.
SignaturesHold == SignatureIdentifiesCollective /\ SignatureIsAgreed

\* Each signature has one tracker with its request until the release, and when
\* all is over nothing is left.
TrackersHold == TypeOK /\ UniqueTracker /\ NoCrash /\ CleanAtEnd

\* What the threads of the master may mix up stays at the master, and no
\* callback is given anything but its round.
MixedOnlyAtMaster == BelowMaster /\ CallbackCarriesItsRound
=============================================================================
