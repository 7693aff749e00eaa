------------------------------ MODULE Matching ------------------------------
(***************************************************************************)
(* The receive half of a process (mca/pt2pt/base): receives that the user  *)
(* posts meet messages that come from the connections or from the process  *)
(* itself (pt2pt_base_stubs.c, pt2pt_base_recv_msg_handlers.c).            *)
(* Posting runs on scon_globals.evbase, the messages on pt2pt_evbase. The  *)
(* two are one base, except at the master, where each has a thread and the *)
(* lists of a SCON are guarded by nothing.                                 *)
(*                                                                         *)
(* SconLifecycle has the receives of one SCON's life among all members;    *)
(* here are any receives, with wildcards, at one member.                   *)
(***************************************************************************)
EXTENDS Naturals, Sequences, FiniteSets, SequencesExt, Picking

CONSTANTS
    Handles,        \* the SCONs at first
    Unknown,        \* a handle that is no SCON's: the sender's create came first
    Self,           \* SCON_PROC_MY_NAME
    Peers,          \* names, [job, rank], of the others
    Receives,       \* what may be posted: [peer, tag, persistent]
    Tags,
    AnyJob, AnyRank,\* SCON_JOBNAME_WILDCARD, SCON_RANK_WILDCARD
    Members,        \* whether the two bases are one: {TRUE} but at the master
    MaxMessages, MaxReceives, MaxSends    \* bounds: how many of each come and are called

\* The handle that is no SCON's is none; whether a receive persists is known.
ASSUME MatchAssumption ==
    /\ Unknown \notin Handles /\ Members \subseteq BOOLEAN
    /\ \A r \in Receives : r.persistent \in BOOLEAN
    /\ {MaxMessages, MaxReceives, MaxSends} \subseteq Nat

VARIABLES
    oneBase,        \* the two bases are one
    scons,          \* the handles that comm_base.scons has
    posted,         \* posted[h]: posted_recvs, [peer, tag, persistent, n]
    unmatched,      \* unmatched[h]: unmatched_msgs
    events,         \* events[b]: the active events of base b
    searched,       \* searched[b]: the message whose search of posted_recvs was in vain
    got,            \* got[n]: the messages handed to the n-th receive
    postedAt,       \* postedAt[n]: how many messages there were when it was posted
    lost,           \* messages without a SCON, and those a SCON took with it
    sends,          \* sends[n]: what became of the n-th send
    arrived,        \* messages so far
    crashed

matchVars == <<oneBase, scons, posted, unmatched, events, searched, got, postedAt, lost, sends,
               arrived, crashed>>

Bases == {"globals", "pt2pt"}
pt2ptBase == IF oneBase THEN "globals" ELSE "pt2pt"
NoMessage == [n |-> 0]
Messages == 1..(MaxMessages + MaxSends)

-----------------------------------------------------------------------------
\* scon_util_compare_name_fields with SCON_NS_CMP_ALL and SCON_NS_CMP_WILD.
SameJob(a, b) == AnyJob \in {a.job, b.job} \/ a.job = b.job
SameRank(a, b) == AnyRank \in {a.rank, b.rank} \/ a.rank = b.rank
scon_util_compare_name_fields(a, b) == SameJob(a, b) /\ SameRank(a, b)
Fits(r, m) == r.tag = m.tag /\ scon_util_compare_name_fields(m.sender, r.peer)

MatchInit ==
    /\ oneBase \in Members
    /\ scons = Handles
    /\ posted = [h \in Handles |-> <<>>]
    /\ unmatched = [h \in Handles |-> <<>>]
    /\ events = [b \in Bases |-> <<>>]
    /\ searched = [b \in Bases |-> NoMessage]
    /\ got = <<>> /\ postedAt = <<>> /\ sends = <<>>
    /\ lost = {}
    /\ arrived = 0
    /\ crashed = FALSE

\* The head of base b is event e; its handler activates `new` on base `to`.
Runs(b, op) == /\ ~crashed /\ searched[b] = NoMessage
               /\ events[b] # <<>> /\ Head(events[b]).op = op
Event(b) == Head(events[b])
Done(b, to, new) ==
    LET popped == [events EXCEPT ![b] = Tail(@)]
    IN events' = [popped EXCEPT ![to] = @ \o new]

-----------------------------------------------------------------------------
\* pt2pt_base_api_recv_nb. A handle that is not there is refused at once.
pt2pt_base_api_recv_nb(h, r) ==
    /\ ~crashed /\ h \in scons /\ Len(got) < MaxReceives
    /\ got' = Append(got, <<>>)
    /\ postedAt' = Append(postedAt, Cardinality(Messages))
    /\ events' = [events EXCEPT !["globals"] =
                    Append(@, [op |-> "post", h |-> h, r |-> r, n |-> Len(got) + 1])]
    /\ UNCHANGED <<oneBase, scons, posted, unmatched, searched, lost, sends, arrived, crashed>>

\* pt2pt_base_api_send_nb.
pt2pt_base_api_send_nb(h, dst, t) ==
    /\ ~crashed /\ h \in scons /\ Len(sends) < MaxSends
    /\ sends' = Append(sends, "queued")
    /\ events' = [events EXCEPT !["globals"] =
                    Append(@, [op |-> "send", h |-> h, dst |-> dst, tag |-> t, n |-> Len(sends) + 1])]
    /\ UNCHANGED <<oneBase, scons, posted, unmatched, searched, got, postedAt, lost, arrived, crashed>>

Recv(h, s, t) == [op |-> "recv", h |-> h, sender |-> s, tag |-> t, n |-> arrived + 1]

\* PT2PT_POST_MESSAGE, by the connection that has read a whole message.
PT2PT_POST_MESSAGE(h, s, t) ==
    /\ ~crashed /\ arrived < MaxMessages
    /\ arrived' = arrived + 1
    /\ events' = [events EXCEPT ![pt2ptBase] = Append(@, Recv(h, s, t))]
    /\ UNCHANGED <<oneBase, scons, posted, unmatched, searched, got, postedAt, lost, sends, crashed>>

(***************************************************************************)
(* pt2pt_base_process_send: a send to ourselves is posted for receipt and  *)
(* completes. One to another peer goes to the module, or completes with an *)
(* error. When PMIx has nothing the peer's pointer was never set: it is    *)
(* followed and a fault, or is taken for a peer that is not reachable.     *)
(* A SCON that is gone by now is followed as NULL.                         *)
(***************************************************************************)
SelfSend(b) ==
    /\ Runs(b, "send") /\ Event(b).h \in scons /\ Event(b).dst = Self
    /\ arrived' = arrived + 1
    /\ Done(b, pt2ptBase, <<Recv(Event(b).h, Self, Event(b).tag)>>)
    /\ sends' = [sends EXCEPT ![Event(b).n] = "complete"]
    /\ UNCHANGED <<oneBase, scons, posted, unmatched, searched, got, postedAt, lost, crashed>>

\* A known peer, or one whose address PMIx has, of the SCON's module; one that is
\* of another module, or whose address is not set; one of which PMIx has nothing.
Reached(known) == CASE known = "module" -> {"module"}
                    [] known = "other" -> {"failed"}
                    [] OTHER -> {"failed", "fault"}
ProcessSend(b) ==
    /\ Runs(b, "send") /\ Event(b).h \in scons /\ Event(b).dst # Self
    /\ \E way \in UNION {Reached(known) : known \in {"module", "other", "nothing"}} :
          /\ sends' = [sends EXCEPT ![Event(b).n] = way]
          /\ crashed' = (way = "fault")
    /\ Done(b, b, <<>>)
    /\ UNCHANGED <<oneBase, scons, posted, unmatched, searched, got, postedAt, lost, arrived>>

(***************************************************************************)
(* pt2pt_base_post_recv and match_posted_recv. A second receive for a peer *)
(* and a tag is reported, and posted all the same. The waiting messages    *)
(* that fit, the first one for a receive that is not persistent, become    *)
(* events again, behind those that are active.                             *)
(***************************************************************************)
\* Mutant: a persistent receive takes the first only.
match_posted_recv_one(r, h) ==
    LET fit == {i \in DOMAIN unmatched[h] : Fits(r, unmatched[h][i])}
    IN {i \in fit : \A j \in fit : j >= i}
match_posted_recv(r, h) ==
    LET fit == {i \in DOMAIN unmatched[h] : Fits(r, unmatched[h][i])}
    IN IF r.persistent THEN fit ELSE {i \in fit : \A j \in fit : j >= i}

\* Mutant: a message that is woken stays in the list.
Held_woken(h, set) == unmatched[h]
Held(h, set) == Picked(unmatched[h], DOMAIN unmatched[h] \ set)

PostRecv(b) ==
    /\ Runs(b, "post") /\ Event(b).h \in scons
    /\ LET h == Event(b).h
           r == Event(b).r
           woken == match_posted_recv(r, h)
       IN /\ posted' = [posted EXCEPT ![h] =
                 Append(@, [peer |-> r.peer, tag |-> r.tag, persistent |-> r.persistent,
                            n |-> Event(b).n])]
          /\ unmatched' = [unmatched EXCEPT ![h] = Held(h, woken)]
          /\ Done(b, "globals", Picked(unmatched[h], woken))
          /\ postedAt' = [postedAt EXCEPT ![Event(b).n] = arrived]
    /\ UNCHANGED <<oneBase, scons, searched, got, lost, sends, arrived, crashed>>

\* The SCON of a receive or a send is gone when its event runs: NULL is followed.
Dangling(b) ==
    /\ Runs(b, "post") \/ Runs(b, "send")
    /\ Event(b).h \notin scons
    /\ crashed' = TRUE
    /\ UNCHANGED <<oneBase, scons, posted, unmatched, events, searched, got, postedAt, lost, sends, arrived>>

-----------------------------------------------------------------------------
\* pt2pt_base_complete_recv_msg: the first posted receive that fits.
Waiting(m) == {i \in DOMAIN posted[m.h] : Fits(posted[m.h][i], m)}

\* A message for a handle that is not there: reported, and never released.
Drop(b) ==
    /\ Runs(b, "recv") /\ Event(b).h \notin scons
    /\ lost' = lost \cup {Event(b).n}
    /\ Done(b, b, <<>>)
    /\ UNCHANGED <<oneBase, scons, posted, unmatched, searched, got, postedAt, sends, arrived, crashed>>

Remaining(list, i) == IF list[i].persistent THEN list ELSE RemoveAt(list, i)
HandOver(b) ==
    /\ Runs(b, "recv") /\ Event(b).h \in scons /\ Waiting(Event(b)) # {}
    /\ LET m == Event(b)
           i == CHOOSE k \in Waiting(m) : \A j \in Waiting(m) : j >= k
       IN /\ got' = [got EXCEPT ![posted[m.h][i].n] = Append(@, m)]
          /\ posted' = [posted EXCEPT ![m.h] = Remaining(@, i)]
    /\ Done(b, b, <<>>)
    /\ UNCHANGED <<oneBase, scons, unmatched, searched, postedAt, lost, sends, arrived, crashed>>

\* No receive fits: the message is held. Between the search and the append the
\* other thread, where there is one, may run.
Search(b) ==
    /\ Runs(b, "recv") /\ Event(b).h \in scons /\ Waiting(Event(b)) = {}
    /\ IF oneBase
       THEN /\ unmatched' = [unmatched EXCEPT ![Event(b).h] = Append(@, Event(b))]
            /\ UNCHANGED searched
       ELSE /\ searched' = [searched EXCEPT ![b] = Event(b)]
            /\ UNCHANGED unmatched
    /\ Done(b, b, <<>>)
    /\ UNCHANGED <<oneBase, scons, posted, got, postedAt, lost, sends, arrived, crashed>>
Hold(b) ==
    /\ searched[b] # NoMessage /\ ~crashed
    /\ LET h == searched[b].h
       IN IF h \in scons
          THEN /\ unmatched' = [unmatched EXCEPT ![h] = Append(@, searched[b])]
               /\ UNCHANGED crashed
          ELSE crashed' = TRUE /\ UNCHANGED unmatched   \* the lists were freed
    /\ searched' = [searched EXCEPT ![b] = NoMessage]
    /\ UNCHANGED <<oneBase, scons, posted, events, got, postedAt, lost, sends, arrived>>

\* scon_des.
Freed(lists, h) == [lists EXCEPT ![h] = <<>>]

(***************************************************************************)
(* native_process_delete_barrier_cbfunc: the SCON goes with its lists, in  *)
(* the callback of a receive of its own. When it returns the freed receive *)
(* is asked whether it is persistent: it goes well, or it is a fault.      *)
(***************************************************************************)
Delete(h) ==
    /\ ~crashed /\ h \in scons /\ searched[pt2ptBase] = NoMessage
    /\ scons' = scons \ {h}
    /\ lost' = lost \cup {unmatched[h][i].n : i \in DOMAIN unmatched[h]}
    /\ posted' = Freed(posted, h)
    /\ unmatched' = Freed(unmatched, h)
    /\ crashed' \in BOOLEAN
    /\ UNCHANGED <<oneBase, events, searched, got, postedAt, sends, arrived>>

Handle(b) == PostRecv(b) \/ Dangling(b) \/ SelfSend(b) \/ ProcessSend(b) \/ Drop(b)
             \/ HandOver(b) \/ Search(b) \/ Hold(b)
MatchNext ==
    \/ \E h \in Handles : \E r \in Receives : pt2pt_base_api_recv_nb(h, r)
    \/ \E h \in Handles : \E d \in Peers \cup {Self} : \E t \in Tags : pt2pt_base_api_send_nb(h, d, t)
    \/ \E h \in Handles \cup {Unknown} : \E s \in Peers : \E t \in Tags : PT2PT_POST_MESSAGE(h, s, t)
    \/ \E h \in Handles : Delete(h)
    \/ \E b \in Bases : Handle(b)

\* Every base has a thread that runs its events (scon_progress_threads.c:39).
MatchFair == \A b \in Bases : WF_matchVars(Handle(b))
MatchSpec == MatchInit /\ [][MatchNext]_matchVars /\ MatchFair

-----------------------------------------------------------------------------
\* The messages in each place.
Numbers(list) == {list[i].n : i \in DOMAIN list}
InEvents == UNION {{events[b][i].n : i \in {j \in DOMAIN events[b] : events[b][j].op = "recv"}} : b \in Bases}
InSearch == {searched[b].n : b \in Bases} \ {0}
InLists == UNION {Numbers(unmatched[h]) : h \in Handles}
InGot == UNION {Numbers(got[n]) : n \in DOMAIN got}
Places == <<InEvents, InSearch, InLists, InGot, lost>>

\* Lists are only of SCONs that are there, and receives are known by their number.
MatchTypeOK ==
    /\ scons \subseteq Handles
    /\ \A h \in Handles : /\ h \notin scons => posted[h] = <<>> /\ unmatched[h] = <<>>
                          /\ Numbers(posted[h]) \subseteq DOMAIN got
    /\ Len(postedAt) = Len(got)
    /\ \A n \in DOMAIN sends : sends[n] \in {"queued", "complete", "module", "failed", "fault"}
    /\ arrived \in 0..Cardinality(Messages)
    /\ crashed \in BOOLEAN

\* Every message that has arrived is in one place, once: it is never handed over
\* twice and never forgotten, and a receive that is not persistent gets at most one.
HandedOnce ==
    /\ UNION {Places[i] : i \in DOMAIN Places} = 1..arrived \/ crashed
    /\ \A i, j \in DOMAIN Places : i # j => Places[i] \cap Places[j] = {}
    /\ \A h \in Handles : \A i \in DOMAIN posted[h] :
          ~posted[h][i].persistent => got[posted[h][i].n] = <<>>
    /\ \A n \in DOMAIN got : Cardinality(Numbers(got[n])) = Len(got[n])

\* With one base, no message waits in the list while a receive that fits it is posted, once what
\* was active for that SCON has been handled.
NothingStranded ==
    \A h \in scons :
        (InSearch = {} /\ \A b \in Bases : \A i \in DOMAIN events[b] : events[b][i].op # "recv")
        => \A i \in DOMAIN unmatched[h] : Waiting(unmatched[h][i]) = {}

\* A master's thread that searches the list in vain may hold the message after the
\* receive was posted: "we then hold the message until such a recv is issued"
\* (pt2pt_base_recv_msg_handlers.c:171) is NothingStranded for it too.
NoStrandedMessage == oneBase => NothingStranded

\* A message that a receive got was overtaken, if at all, only by messages that had
\* arrived before the receive was posted; later ones come in their order. One base.
OvertakenOnlyByEarlier ==
    oneBase => \A n \in DOMAIN got : \A i, j \in DOMAIN got[n] :
        (i < j /\ got[n][j].n < got[n][i].n) => got[n][i].n <= postedAt[n]

\* Every message is handed over in the end, or goes with its SCON, or is held for a
\* receive that nobody has posted. One base.
Served(m) == crashed \/ m \in InGot \cup lost
Awaited(m) == \E h \in scons : \E k \in DOMAIN unmatched[h] :
                 unmatched[h][k].n = m /\ Waiting(unmatched[h][k]) # {}
ServedOrHeld == \A m \in Messages : (oneBase /\ m <= arrived) ~> (Served(m) \/ (m \in InLists /\ ~Awaited(m)))

\* A message is handed once, to a receive that was posted for it, and waits only
\* where no receive does.
MatchingHolds == MatchTypeOK /\ HandedOnce /\ NoStrandedMessage /\ OvertakenOnlyByEarlier
=============================================================================
