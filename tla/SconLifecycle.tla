---------------------------- MODULE SconLifecycle ----------------------------
(***************************************************************************)
(* Creating and deleting SCONs (mca/comm/native/comm_native_component.c,   *)
(* mca/comm/base), with the messages that every other component sends on   *)
(* them.                                                                   *)
(*                                                                         *)
(* To create a SCON a member takes the lowest free slot of its own array   *)
(* as the handle, publishes its address, posts the receives of the         *)
(* collectives and calls an allgather. When it completes the master xcasts *)
(* the configuration, and the receipt of that is the create callback. To   *)
(* delete one it calls a barrier and frees the SCON in its callback.       *)
(*                                                                         *)
(* Messages carry the sender's handle. A message for a handle that is not  *)
(* in use is dropped, one whose receive is not posted yet is held          *)
(* (pt2pt_base_recv_msg_handlers.c:117-123, :171-180).                     *)
(*                                                                         *)
(* Members run the same program and wait for the callback of a call before *)
(* the next; Collectives has collectives that overlap. An instance, the    *)
(* position of its create in the program, tells SCONs apart that have the  *)
(* same handle; the code does not know it.                                 *)
(*                                                                         *)
(* A handler is one step, except at a master with two threads, whose lists *)
(* nothing guards: there it stops (`done`) where the other thread can      *)
(* change what it has read. Only the message itself, and the lists as      *)
(* such, are left out of this race.                                        *)
(***************************************************************************)
EXTENDS EventLoops, FiniteSets, SequencesExt

CONSTANTS
    Programs,        \* what the members may do: sequences of
                     \* "create", "partial", "delete", "send"
    MaxHandle,       \* slots of the array that are looked at
    Pairs            \* <<p, q>>: p's "send" goes to q; members without one skip it

VARIABLES
    program,         \* what the members do
    step,            \* step[p]: calls p has made
    log,             \* log[p]: callbacks of p's creates and deletes
    scons,           \* scons[p][h]: comm_base.scons, NoScon in a free slot
    published,       \* members whose address is known to PMIx
    ongoing,         \* ongoing[p]: the trackers of p, in list order
    last_seq,        \* coll_table: the last sequence number, -1 if no entry
    done,            \* done[p][b]: what the handler in progress on base b has done
    received,        \* received[p]: user messages that p holds or was handed
    dropped,         \* messages for a handle that was not in use
    crashed          \* members that followed a NULL or a freed SCON or tracker

trackers == <<ongoing, last_seq>>
lifecycle == <<program, step, log, scons, published, trackers, done, received, dropped, crashed>>
vars == <<queue, draining, channel, lifecycle>>

Handles == 1..MaxHandle
NoScon == [inst |-> 0]
NewScon(i) == [inst |-> i, colls |-> FALSE, cfg |-> FALSE, held |-> <<>>]
There(p, h) == scons[p][h] # NoScon
TwoThreads(p) == p = Master /\ MasterThreads
Nothing == [did |-> "nothing", seq |-> -1]

Msg(p, q, tag, kind, h, inst, seq, who) ==
    [src |-> p, dst |-> q, tag |-> tag, kind |-> kind, h |-> h, inst |-> inst, seq |-> seq,
     who |-> who]
\* Reports a tracker waits for. Mutant: the member's own is not counted.
nexpected_below(p) == Cardinality(Children(p))
nexpected(p) == 1 + Cardinality(Children(p))

Init ==
    /\ EventLoopsInit
    /\ program \in Programs
    /\ step = [p \in Proc |-> 0]
    /\ log = [p \in Proc |-> <<>>]
    /\ scons = [p \in Proc |-> [h \in Handles |-> NoScon]]
    /\ published = {}
    /\ ongoing = [p \in Proc |-> <<>>]
    /\ last_seq = [p \in Proc |-> -1]
    /\ done = [p \in Proc |-> [b \in Base |-> Nothing]]
    /\ received = [p \in Proc |-> {}]
    /\ dropped = {}
    /\ crashed = {}

-----------------------------------------------------------------------------
\* The calls before the next one that have a callback, and whether all had it.
Waits(op) == op # "send"
Answered(p) == Len(log[p]) = Cardinality({i \in 1..step[p] : Waits(program[i])})
Upcoming(p) == program[step[p] + 1]
May(p, op) == /\ p \notin crashed /\ step[p] < Len(program) /\ Answered(p)
              /\ Upcoming(p) = op

\* The SCON a delete or a send is about: the oldest that p has.
Oldest(p) == CHOOSE h \in Handles : There(p, h) /\
                \A k \in Handles : There(p, k) => scons[p][h].inst <= scons[p][k].inst

\* scon_create, with no list of members or with one.
ApiCreate(p) ==
    /\ May(p, "create") \/ May(p, "partial")
    /\ step' = [step EXCEPT ![p] = @ + 1]
    /\ Activate(p, [op |-> Upcoming(p), inst |-> step[p] + 1])
    /\ UNCHANGED <<draining, channel, program, log, scons, published, trackers, done,
                   received, dropped, crashed>>

\* scon_delete of a SCON that is there.
ApiDelete(p) ==
    /\ May(p, "delete") /\ \E h \in Handles : There(p, h)
    /\ step' = [step EXCEPT ![p] = @ + 1]
    /\ Activate(p, [op |-> "delete", h |-> Oldest(p)])
    /\ UNCHANGED <<draining, channel, program, log, scons, published, trackers, done,
                   received, dropped, crashed>>

\* scon_send_nb to another member.
ApiSend(p) ==
    /\ May(p, "send") /\ \E h \in Handles : There(p, h)
    /\ step' = [step EXCEPT ![p] = @ + 1]
    /\ LET h == Oldest(p)
       IN \/ \E q \in Proc : /\ <<p, q>> \in Pairs
                           /\ Activate(p, Send(Msg(p, q, "USER", "user", h, scons[p][h].inst, 0, {p})))
          \/ (\A q \in Proc : <<p, q>> \notin Pairs) /\ UNCHANGED queue
    /\ UNCHANGED <<draining, channel, program, log, scons, published, trackers, done,
                   received, dropped, crashed>>

-----------------------------------------------------------------------------
\* scon_comm_base_add_scon: scon_pointer_array_add takes the lowest free slot.
NextHandle(p) == CHOOSE h \in Handles : ~There(p, h) /\ \A k \in 1..(h - 1) : There(p, k)

\* A handler stops where the other thread may run; it returns when it is over.
Did(p, b) == done[p][b].did
Stops(p, b, what, seq) == /\ done' = [done EXCEPT ![p][b] = [did |-> what, seq |-> seq]]
                          /\ UNCHANGED draining
Returns(p, b, evs, pts) == Handled(p, b, evs, pts) /\ done' = [done EXCEPT ![p][b] = Nothing]

(***************************************************************************)
(* native_process_create. A SCON with a list of members of its own is      *)
(* refused and its callback gets SCON_HANDLE_INVALID.                      *)
(***************************************************************************)
ProcessPartial(p) ==
    /\ Ready(p, "ev", "partial")
    /\ log' = [log EXCEPT ![p] = Append(@, "refused")]
    /\ Returns(p, "ev", <<>>, <<>>)
    /\ UNCHANGED <<channel, program, step, scons, published, trackers, received, dropped, crashed>>

ProcessCreate(p) ==
    /\ Ready(p, "ev", "create")
    /\ LET h == NextHandle(p)
           i == NextEvent(p, "ev").inst
       IN /\ scons' = [scons EXCEPT ![p][h] = NewScon(i)]
          /\ Returns(p, "ev", <<[op |-> "post", what |-> "colls", h |-> h],
                                [op |-> "call", kind |-> "allgather", h |-> h]>>, <<>>)
    /\ published' = published \cup {p}
    /\ UNCHANGED <<channel, program, step, log, trackers, received, dropped, crashed>>

\* native_process_delete: the barrier that deletes.
ProcessDelete(p) ==
    /\ Ready(p, "ev", "delete")
    /\ LET h == NextEvent(p, "ev").h
       IN Returns(p, "ev", <<[op |-> "call", kind |-> "barrier", h |-> h]>>, <<>>)
    /\ UNCHANGED <<channel, program, step, log, scons, published, trackers, received, dropped, crashed>>

\* The receive of a message's tag is posted.
Posted(s, m) == CASE m.tag = "CFG" -> s.cfg
                  [] m.tag = "USER" -> TRUE
                  [] OTHER -> s.colls

\* The held messages that a new receive takes. Mutant: none, it is for later ones.
Woken_none(s) == <<>>
Woken(s) == SelectSeq(s.held, LAMBDA m : Posted(s, m))

(***************************************************************************)
(* pt2pt_base_post_recv: the messages that waited for this receive are     *)
(* handled again, on scon_globals.evbase. Without a SCON its lists are     *)
(* reached through NULL.                                                   *)
(***************************************************************************)
PostRecv(p) ==
    /\ Ready(p, "ev", "post")
    /\ LET e == NextEvent(p, "ev")
           new == IF e.what = "cfg" THEN [scons[p][e.h] EXCEPT !.cfg = TRUE]
                                    ELSE [scons[p][e.h] EXCEPT !.colls = TRUE]
           found == Woken(new)
       IN IF There(p, e.h)
          THEN /\ scons' = [scons EXCEPT ![p][e.h] =
                     [new EXCEPT !.held = SelectSeq(@, LAMBDA m : ~Posted(new, m))]]
               /\ Returns(p, "ev", [i \in DOMAIN found |-> Recv(found[i])], <<>>)
               /\ UNCHANGED crashed
          ELSE crashed' = crashed \cup {p} /\ UNCHANGED <<queue, draining, scons, done>>
    /\ UNCHANGED <<channel, program, step, log, published, trackers, received, dropped>>

-----------------------------------------------------------------------------
(* scon_collectives_base_get_tracker. *)

\* The first tracker of a collective, 0 if there is none.
Found(p, h, seq) == SelectInSeq(ongoing[p], LAMBDA t : t.h = h /\ t.seq = seq)
NewTracker(h, seq) == [h |-> h, seq |-> seq, req |-> FALSE, nreported |-> 0, who |-> {}]

\* What a search that did not stop, or the append after one that did, returns from.
Trackers(p, b, h, seq) ==
    IF Did(p, b) = "untracked" \/ Found(p, h, seq) = 0
    THEN Append(ongoing[p], NewTracker(h, seq)) ELSE ongoing[p]
Slot(p, b, h, seq) ==
    IF Did(p, b) = "untracked" \/ Found(p, h, seq) = 0 THEN Len(ongoing[p]) + 1 ELSE Found(p, h, seq)

\* The other thread is in the middle of something with the tracker of a collective.
Other(b) == CHOOSE c \in Base : c # b
Meanwhile(p, b, h, seq, what) ==
    /\ Did(p, Other(b)) \in what
    /\ LET m == NextEvent(p, Other(b)).msg IN m.h = h /\ m.seq = seq
Dying(p, b, h, seq) == Meanwhile(p, b, h, seq, {"answer", "forget"})

\* collectives_base_process_allgather / _barrier and the module's. The tracker may
\* be one that the other thread is releasing.
ProcessCall(p) ==
    /\ Ready(p, "ev", "call")
    /\ LET e == NextEvent(p, "ev")
           fresh == Did(p, "ev") = "nothing"
           seq == IF fresh THEN last_seq[p] + 1 ELSE done[p]["ev"].seq
           own == Msg(p, p, "DIRECT", e.kind, e.h, scons[p][e.h].inst, seq, {p})
       IN IF ~There(p, e.h)
          THEN crashed' = crashed \cup {p} /\ UNCHANGED <<queue, draining, trackers, done>>
          ELSE /\ last_seq' = IF fresh THEN [last_seq EXCEPT ![p] = seq] ELSE last_seq
               /\ IF fresh /\ TwoThreads(p) /\ Found(p, e.h, seq) = 0
                  THEN Stops(p, "ev", "untracked", seq) /\ UNCHANGED <<queue, ongoing, crashed>>
                  ELSE /\ ongoing' = [ongoing EXCEPT ![p] =
                             [Trackers(p, "ev", e.h, seq) EXCEPT ![Slot(p, "ev", e.h, seq)].req = TRUE]]
                       /\ \E lost \in {{}} \cup IF Dying(p, "ev", e.h, seq) THEN {{p}} ELSE {} :
                             crashed' = crashed \cup lost
                       /\ Returns(p, "ev", <<Send(own)>>, <<>>)
    /\ UNCHANGED <<channel, program, step, log, scons, published, received, dropped>>

-----------------------------------------------------------------------------
\* A received message, on either base; if it can be handed to its receive.
NextMsg(p, b) == NextEvent(p, b).msg
Arrived(p, b, tag) ==
    /\ Ready(p, b, "recv") /\ NextMsg(p, b).tag = tag /\ Did(p, b) # "unmatched"
    /\ Did(p, b) = "nothing" =>
          There(p, NextMsg(p, b).h) /\ Posted(scons[p][NextMsg(p, b).h], NextMsg(p, b))

\* pt2pt_base_complete_recv_msg, no such SCON.
Drop(p, b) ==
    /\ Ready(p, b, "recv") /\ Did(p, b) = "nothing" /\ ~There(p, NextMsg(p, b).h)
    /\ dropped' = dropped \cup {NextMsg(p, b)}
    /\ Returns(p, b, <<>>, <<>>)
    /\ UNCHANGED <<channel, program, step, log, scons, published, trackers, received, crashed>>

\* ... and no receive posted for it: the search ends, and the message is held. The
\* receive may be posted in between.
NoReceive(p, b) ==
    /\ Ready(p, b, "recv") /\ Did(p, b) = "nothing" /\ There(p, NextMsg(p, b).h)
    /\ ~Posted(scons[p][NextMsg(p, b).h], NextMsg(p, b))
Search(p, b) ==
    /\ TwoThreads(p) /\ NoReceive(p, b)
    /\ Stops(p, b, "unmatched", -1)
    /\ UNCHANGED <<queue, channel, program, step, log, scons, published, trackers, received,
                   dropped, crashed>>
Hold(p, b) ==
    /\ IF TwoThreads(p) THEN Did(p, b) = "unmatched" ELSE NoReceive(p, b)
    /\ LET m == NextMsg(p, b)
       IN IF There(p, m.h)
          THEN scons' = [scons EXCEPT ![p][m.h].held = Append(@, m)] /\ UNCHANGED crashed
          ELSE crashed' = crashed \cup {p} /\ UNCHANGED scons
    /\ Returns(p, b, <<>>, <<>>)
    /\ UNCHANGED <<channel, program, step, log, published, trackers, received, dropped>>

(***************************************************************************)
(* allgather_recv / barrier_recv. Two threads that count at the same time  *)
(* may both store the same number; a tracker that is being released may be *)
(* freed before it is used.                                                *)
(***************************************************************************)
DirectRecv(p, b) ==
    /\ Arrived(p, b, "DIRECT")
    /\ LET m == NextMsg(p, b)
           missing == Found(p, m.h, m.seq) = 0
           i == Slot(p, b, m.h, m.seq)
           list == Trackers(p, b, m.h, m.seq)
           t == [list[i] EXCEPT !.nreported = @ + 1, !.who = @ \cup m.who]
           up == [m EXCEPT !.src = p, !.dst = IF p = Master THEN p ELSE Parent[p],
                           !.tag = IF p = Master THEN "XCAST" ELSE "DIRECT", !.who = t.who]
           overwritten == IF Did(p, b) = "tracked" /\ Meanwhile(p, b, m.h, m.seq, {"tracked"})
                          THEN {[t EXCEPT !.nreported = @ - 1]} ELSE {}
       IN IF TwoThreads(p) /\ Did(p, b) = "nothing"
          THEN Stops(p, b, IF missing THEN "untracked" ELSE "tracked", -1)
               /\ UNCHANGED <<queue, ongoing, crashed>>
          ELSE /\ \E u \in {t} \cup overwritten : ongoing' = [ongoing EXCEPT ![p] = [list EXCEPT ![i] = u]]
               /\ \E lost \in {{}} \cup IF Dying(p, b, m.h, m.seq) THEN {{p}} ELSE {} :
                     crashed' = crashed \cup lost
               /\ Returns(p, b, IF t.nreported = nexpected(p) THEN <<Send(up)>> ELSE <<>>, <<>>)
    /\ UNCHANGED <<channel, program, step, log, scons, published, last_seq, received, dropped>>

\* xcast_recv: relay, then pass the contents to ourselves.
Relays(p, m, inner) ==
    LET peers == SetToSortSeq(Children(p), <)
    IN [i \in DOMAIN peers |-> Send([m EXCEPT !.src = p, !.dst = peers[i]])]
       \o <<Send([m EXCEPT !.dst = p, !.tag = inner])>>
XcastRecv(p, b) ==
    /\ Arrived(p, b, "XCAST")
    /\ LET m == NextMsg(p, b)
       IN Returns(p, b, Relays(p, m, IF m.kind = "config" THEN "CFG" ELSE "RELEASE"), <<>>)
    /\ UNCHANGED <<channel, program, step, log, scons, published, trackers, received, dropped, crashed>>

\* native_create_barrier_complete_callback: the master xcasts the configuration,
\* everyone posts the receive for it.
CreateReleased(p, m) ==
    LET config == Msg(p, p, "XCAST", "config", m.h, m.inst, 0, m.who)
        xcast == IF p = Master THEN <<[op |-> "xcast", msg |-> config]>> ELSE <<>>
    IN xcast \o <<[op |-> "post", what |-> "cfg", h |-> m.h]>>

\* native_process_delete_barrier_cbfunc: the SCON is freed.
DeleteReleased(p, m) ==
    /\ scons' = [scons EXCEPT ![p][m.h] = NoScon]
    /\ log' = [log EXCEPT ![p] = Append(@, "deleted")]

\* The list without the tracker that is released, and its last sequence number gone.
Released(p, i) == RemoveAt(ongoing[p], i)

(***************************************************************************)
(* allgather_release / barrier_release: answer the request of the tracker, *)
(* forget the sequence number, remove the tracker and its request. At a    *)
(* master with two threads the other may run after each. A tracker without *)
(* a request is a NULL pointer in SCON_RELEASE.                            *)
(***************************************************************************)
ReleaseSteps(p, b) ==
    IF ~TwoThreads(p) THEN {"answer", "forget", "remove"}
    ELSE {CASE Did(p, b) = "nothing" -> "answer" [] Did(p, b) = "answer" -> "forget"
            [] OTHER -> "remove"}
ReleaseRecv(p, b) ==
    /\ Arrived(p, b, "RELEASE")
    /\ LET m == NextMsg(p, b)
           i == Found(p, m.h, m.seq)
           steps == ReleaseSteps(p, b)
           answers == "answer" \in steps /\ i # 0 /\ ongoing[p][i].req
           evs == IF answers /\ m.kind = "allgather" THEN CreateReleased(p, m) ELSE <<>>
       IN /\ IF answers /\ m.kind = "barrier" THEN DeleteReleased(p, m) ELSE UNCHANGED <<scons, log>>
          /\ last_seq' = IF "forget" \in steps /\ i # 0 THEN [last_seq EXCEPT ![p] = -1] ELSE last_seq
          /\ IF i = 0 \/ "remove" \in steps
             THEN /\ Returns(p, b, evs, <<>>)
                  /\ ongoing' = IF i = 0 THEN ongoing ELSE [ongoing EXCEPT ![p] = Released(p, i)]
                  /\ crashed' = IF i # 0 /\ ~ongoing[p][i].req THEN crashed \cup {p} ELSE crashed
             ELSE /\ queue' = [queue EXCEPT ![p]["ev"] = @ \o evs]
                  /\ \E now \in steps : Stops(p, b, now, -1)
                  /\ UNCHANGED <<ongoing, crashed>>
    /\ UNCHANGED <<channel, program, step, published, received, dropped>>

\* collectives_base_process_xcast and the module's xcast, at the master.
ProcessXcast(p) ==
    /\ Ready(p, "ev", "xcast")
    /\ Returns(p, "ev", <<Send(NextEvent(p, "ev").msg)>>, <<>>)
    /\ UNCHANGED <<channel, program, step, log, scons, published, trackers, received, dropped, crashed>>

\* native_create_cfg_recv_cbfunc: the SCON is created.
ConfigRecv(p, b) ==
    /\ Arrived(p, b, "CFG")
    /\ log' = [log EXCEPT ![p] = Append(@, "created")]
    /\ Returns(p, b, <<>>, <<>>)
    /\ UNCHANGED <<channel, program, step, scons, published, trackers, received, dropped, crashed>>

\* A message reaches the receive the user posted.
UserRecv(p, b) ==
    /\ Arrived(p, b, "USER")
    /\ received' = [received EXCEPT ![p] = @ \cup {NextMsg(p, b)}]
    /\ Returns(p, b, <<>>, <<>>)
    /\ UNCHANGED <<channel, program, step, log, scons, published, trackers, dropped, crashed>>

(***************************************************************************)
(* pt2pt_base_process_send. The topology is reached through the SCON, also *)
(* to forward a message of others. An address that is not known yet is     *)
(* asked of PMIx, which waits until the hop has published it. A message to *)
(* ourselves is posted for receipt first; then the handle is read from the *)
(* SCON, which the other thread may have freed.                            *)
(***************************************************************************)
Transmit(p, b) ==
    /\ Ready(p, b, "send")
    /\ LET m == NextEvent(p, b).msg
       IN \/ /\ Did(p, b) = "nothing" /\ There(p, m.h) /\ TwoThreads(p) /\ m.dst = p
             /\ queue' = [queue EXCEPT ![p][pt2pt_evbase(p)] = Append(@, Recv(m))]
             /\ Stops(p, b, "posted", -1)
             /\ UNCHANGED <<channel, crashed>>
          \/ /\ Did(p, b) = "posted"
             /\ Returns(p, b, <<>>, <<>>)
             /\ \E lost \in {{}} \cup IF scons[p][m.h].inst # m.inst THEN {{p}} ELSE {} :
                   crashed' = crashed \cup lost
             /\ UNCHANGED channel
          \/ /\ Did(p, b) = "nothing" /\ There(p, m.h) /\ ~(TwoThreads(p) /\ m.dst = p)
             /\ (m.dst # p => NextHop(p, m.dst) \in published)
             /\ ProcessSend(p, b)
             /\ UNCHANGED <<done, crashed>>
          \/ /\ Did(p, b) = "nothing" /\ ~There(p, m.h)
             /\ crashed' = crashed \cup {p}
             /\ UNCHANGED <<queue, draining, channel, done>>
    /\ UNCHANGED <<program, step, log, scons, published, trackers, received, dropped>>

Receive(p) == (\E q \in Proc : Deliver(q, p)) /\ UNCHANGED lifecycle

Api(p) == ApiCreate(p) \/ ApiDelete(p) \/ ApiSend(p)
Handler(p) ==
    /\ p \notin crashed
    /\ \/ ProcessPartial(p) \/ ProcessCreate(p) \/ ProcessDelete(p)
       \/ PostRecv(p) \/ ProcessCall(p) \/ ProcessXcast(p) \/ Receive(p)
       \/ \E b \in Base : \/ Drop(p, b) \/ Search(p, b) \/ Hold(p, b) \/ DirectRecv(p, b)
                          \/ XcastRecv(p, b) \/ ReleaseRecv(p, b) \/ ConfigRecv(p, b)
                          \/ UserRecv(p, b) \/ Transmit(p, b)

Next == \E p \in Proc : Api(p) \/ Handler(p)
Spec == Init /\ [][Next]_vars
\* Members go on with their program, and threads run the events that are active. As
\* every run is finite, fairness of the whole makes each of them go on.
FairSpec == Spec /\ WF_vars(Next)
-----------------------------------------------------------------------------
TypeOK ==
    /\ program \in Programs
    /\ step \in [Proc -> 0..Len(program)]
    /\ \A p \in Proc : log[p] \in Seq({"created", "refused", "deleted"})
    /\ \A p \in Proc, h \in Handles : There(p, h) =>
          scons[p][h].inst \in 1..Len(program)
          /\ scons[p][h].colls \in BOOLEAN /\ scons[p][h].cfg \in BOOLEAN
    /\ published \subseteq Proc /\ crashed \subseteq Proc
    /\ last_seq \in [Proc -> -1..1]
    /\ \A p \in Proc : \A i \in DOMAIN ongoing[p] : ongoing[p][i] \in
          [h : Handles, seq : 0..1, req : BOOLEAN, nreported : 0..(2 * Cardinality(Proc)),
           who : SUBSET Proc]

\* A message is handled on the SCON it was sent on and not on a later or an
\* earlier one that has the same handle. Where a thread of its own receives, the
\* report of a next create may be handled while the release of the delete before it
\* is still to be sent.
RightScon == \A p \in Proc, b \in Base :
    (Ready(p, b, "recv") /\ Did(p, b) = "nothing" /\ There(p, NextMsg(p, b).h)) =>
        LET m == NextMsg(p, b)
            s == scons[p][m.h]
        IN s.inst = m.inst \/ (TwoThreads(p) /\ m.kind = "allgather" /\ s.inst < m.inst)

\* What is dropped is a report to a member that has not handled its create yet; a
\* message the user sends on a SCON, or one that completes a create or a delete,
\* is never dropped, in particular not by a delete that runs at the same time.
NotYetCreated(p, i) ==
    step[p] < i \/ \E k \in DOMAIN queue[p]["ev"] : queue[p]["ev"][k] = [op |-> "create", inst |-> i]
OnlyEarlyReportsDropped == [][\A m \in dropped' \ dropped :
    m.tag = "DIRECT" /\ m.kind = "allgather" /\ NotYetCreated(m.dst, m.inst)]_vars

\* The calls with a callback that p has made up to and including its n-th callback.
CallOf(n) == CHOOSE i \in DOMAIN program :
    Waits(program[i]) /\ Cardinality({j \in 1..i : Waits(program[j])}) = n

\* A create or delete is complete only when every member has called it: nobody
\* uses a SCON somebody has not created, or loses one that somebody still uses.
CompletedTogether == \A p \in Proc : \A n \in DOMAIN log[p] :
    log[p][n] # "refused" => \A q \in Proc : step[q] >= CallOf(n)

\* No handler meets a SCON, or a tracker, that has been deleted under it, where one
\* thread runs them all.
NoNullScon == \A p \in crashed : TwoThreads(p)

\* "we then hold the message until such a recv is issued"
\* (pt2pt_base_recv_msg_handlers.c:171): no message is held for a receive that is
\* posted. At a master with two threads the receive may be posted after the search.
NotHeldBeyond(p) == \A h \in Handles : There(p, h) =>
    \A i \in DOMAIN scons[p][h].held : ~Posted(scons[p][h], scons[p][h].held[i])
HeldUntilIssued == \A p \in Proc : NotHeldBeyond(p)
HeldUntilIssuedBelow == \A p \in Proc : ~TwoThreads(p) => NotHeldBeyond(p)

\* What the two threads of a master do to a collective when they meet: a report is
\* held beyond its receive, a collective has two trackers, a report is not counted,
\* or memory that is freed is used. None of these comes right again.
Mixed ==
    \/ ~NotHeldBeyond(Master)
    \/ \E i, j \in DOMAIN ongoing[Master] :
          i # j /\ ongoing[Master][i].h = ongoing[Master][j].h
    \/ \E i \in DOMAIN ongoing[Master] :
          LET t == ongoing[Master][i]
          IN t.who = Proc /\ t.nreported < nexpected(Master)
    \/ Master \in crashed

\* The first SCON is created, and its delete completes: members may call in any
\* order and at any time, a report waits for the address of its receiver. Only what
\* the two threads of the master mix up does not complete.
FirstScon == SelectSeq(program, LAMBDA op : op = "create") = <<"create">>
FirstSconCompletes == <>(FirstScon => Mixed \/ \A p \in Proc :
    Len(log[p]) = Cardinality({i \in DOMAIN program : Waits(program[i])}))

\* SCONs complete at all members together, messages reach the SCON they were sent
\* on and are held only for a receive to come, and no handler meets a handle without
\* its SCON.
SconsHold == TypeOK /\ RightScon /\ CompletedTogether /\ NoNullScon /\ HeldUntilIssuedBelow
=============================================================================
