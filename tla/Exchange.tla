------------------------------ MODULE Exchange ------------------------------
(***************************************************************************)
(* The allgathers that do not use the tree: collectives_brucks.c and       *)
(* collectives_rcd.c (recursive doubling). In step i a member sends what   *)
(* it has so far to the member 2^i before it, or to the one whose rank     *)
(* differs in bit i. A message that comes before its step is buffered.     *)
(* Neither implements barrier.                                             *)
(*                                                                         *)
(* One allgather of one SCON. Contents are counted per contributor, so     *)
(* that what is lost or doubled shows; `words` counts what else is in it.  *)
(* Messages are delivered in any order.                                    *)
(*                                                                         *)
(* A receive handler releases the signature it has unpacked, also when the *)
(* tracker it has just made points to it (brucks:382, rcd:337). A message  *)
(* that comes before the call thus leaves a tracker with a signature that  *)
(* is freed: the call finds it or does not.                                *)
(*                                                                         *)
(* rcd takes the buffers that it packs and copies into from malloc and     *)
(* does not construct them (rcd:151, :323). What is in such a buffer is    *)
(* undefined: it may look empty, make pack or copy fail, or hold pointers  *)
(* whose use ends the program. Each is a choice; `heap` is the worst that  *)
(* a member has met.                                                       *)
(***************************************************************************)
EXTENDS Integers, FiniteSets, FiniteSetsExt

CONSTANTS Exchanges,   \* pairs of an algorithm, "brucks" or "rcd", and a size
          MaxUnlucky   \* bound: members whose unconstructed buffers are not empty

VARIABLES
    algorithm, nprocs,
    last_round,      \* brucks: the step that also sends the final message
    exchange,        \* exchange[r]: the tracker of member r
    sent,            \* messages that are sent and not handled
    gathered,        \* gathered[r]: the bucket r's callback was given
    early,           \* a message came before its receiver called
    heap             \* heap[r]: what r's unconstructed buffers did so far

exchangeVars == <<algorithm, nprocs, last_round, exchange, sent, gathered, early, heap>>

Member == 0..(nprocs - 1)
log2nprocs == CHOOSE k \in 0..nprocs : 2^k <= nprocs /\ nprocs < 2^(k + 1)
PowerOfTwo == nprocs = 2^log2nprocs

(***************************************************************************)
(* brucks_allgather_process_data: ceil(log2(nprocs - 2^log2nprocs)). For a *)
(* power of two that is minus infinity, whose conversion to uint32_t is    *)
(* undefined: 0, or a number that no step has.                             *)
(* Mutant: always the last step, "that could end up sending more data".    *)
(***************************************************************************)
LastRounds_end == {log2nprocs}
LastRounds ==
    IF PowerOfTwo THEN {0, 99}
    ELSE {CHOOSE k \in 0..nprocs : LET m == nprocs - 2^log2nprocs
                                   IN 2^k >= m /\ (k > 0 => 2^(k - 1) < m)}

Nothing == [r \in Member |-> 0]
None == [dst |-> -1]
NewExchange == [called |-> FALSE, nreported |-> 0, mask |-> {}, words |-> 0,
                bucket |-> Nothing, buffers |-> [d \in 0..log2nprocs |-> None]]
NotCalledBack == [bucket |-> Nothing, words |-> 0, times |-> 0, status |-> "success"]

ExchangeInit ==
    /\ \E e \in Exchanges : algorithm = e[1] /\ nprocs = e[2]
    /\ last_round \in LastRounds
    /\ exchange = [r \in Member |-> NewExchange]
    /\ sent = {}
    /\ gathered = [r \in Member |-> NotCalledBack]
    /\ early = FALSE
    /\ heap = [r \in Member |-> "empty"]

-----------------------------------------------------------------------------
\* r XOR 2^d.
Flip(r, d) == IF (r \div 2^d) % 2 = 1 THEN r - 2^d ELSE r + 2^d

\* Where r sends in step d.
Peer(r, d) == IF algorithm = "brucks" THEN (nprocs + r - 2^d) % nprocs ELSE Flip(r, d)

\* brucks_allgather_send_dist / rcd_allgather_send_dist: both pack nreported.
Message(r, d, t) ==
    [src |-> r, dst |-> Peer(r, d), d |-> d, count |-> t.nreported,
     data |-> t.bucket, words |-> t.words]

(***************************************************************************)
(* The contents of message m go into the bucket, m's step is done. brucks  *)
(* unpacks the count; rcd does not, it knows it to be 2^d, and the count   *)
(* stays in front of the contents.                                         *)
(* Mutant: the step is not recorded.                                       *)
(***************************************************************************)
Merged_unmarked(t, m) ==
    [t EXCEPT !.nreported = @ + IF algorithm = "brucks" THEN m.count ELSE 2^m.d,
              !.bucket = [r \in Member |-> @[r] + m.data[r]]]
Merged(t, m) ==
    [t EXCEPT !.nreported = @ + IF algorithm = "brucks" THEN m.count ELSE 2^m.d,
              !.bucket = [r \in Member |-> @[r] + m.data[r]],
              !.words = @ + m.words + IF algorithm = "brucks" THEN 0 ELSE 1,
              !.mask = @ \cup {m.d},
              !.buffers[m.d] = None]

(***************************************************************************)
(* The loop of process_data from step d: t[s] is the tracker before step   *)
(* s, `stop` the first step whose message is not buffered.                 *)
(***************************************************************************)
Steps(t0, d) ==
    LET t[s \in d..log2nprocs] ==
            IF s = d \/ t[s - 1].buffers[s - 1] = None THEN t0
            ELSE Merged(t[s - 1], t[s - 1].buffers[s - 1])
    IN t
Stop(t, d) == CHOOSE s \in d..log2nprocs :
    /\ s = log2nprocs \/ t.buffers[s] = None
    /\ \A e \in d..(s - 1) : t.buffers[e] # None

(***************************************************************************)
(* process_data and finalize_coll for member r. brucks sends the final     *)
(* message from step last_round and takes one that is there already. A     *)
(* step past the last one (d > log2nprocs) only looks at the count.        *)
(***************************************************************************)
SendsFinal(s) == algorithm = "brucks" /\ s = last_round /\ s <= log2nprocs
Final(r, t) == [Message(r, log2nprocs, t) EXCEPT !.dst = (nprocs + r - 2^log2nprocs) % nprocs]
Done(t) == IF algorithm = "brucks" THEN t.nreported >= nprocs ELSE t.nreported = nprocs

Unlucky(r) ==
    /\ algorithm = "rcd"
    /\ Cardinality({q \in Member : heap[q] # "empty"} \cup {r}) <= MaxUnlucky
Lost(r) == IF heap[r] = "empty" THEN "fails" ELSE heap[r]

\* rcd_allgather_send_dist for each of `messages`: one whose buffer is not empty
\* may fail to be packed, and is not sent; the loop goes on.
SendDist(r, messages, net, then) ==
    IF ~Unlucky(r) THEN sent' = net \cup messages /\ then /\ UNCHANGED heap
    ELSE \E packed \in SUBSET messages :
        /\ sent' = net \cup packed
        /\ \/ then /\ heap' = [heap EXCEPT ![r] = IF packed = messages THEN @ ELSE Lost(r)]
           \/ /\ messages # {} /\ heap' = [heap EXCEPT ![r] = "crashed"]
              /\ UNCHANGED <<exchange, gathered>>

\* finalize_coll: the callback, then the tracker goes.
Finalize(r, t, status) ==
    /\ exchange' = [exchange EXCEPT ![r] = NewExchange]
    /\ gathered' = IF ~t.called THEN gathered
                   ELSE [gathered EXCEPT ![r] = [bucket |-> t.bucket, words |-> t.words,
                                                 times |-> @.times + 1, status |-> status]]

ProcessData(r, t0, d, net) ==
    LET stop == IF d > log2nprocs THEN d ELSE Stop(t0, d)
        t == Steps(t0, d)
        end == IF d > log2nprocs THEN t0 ELSE t[stop]
        last == IF algorithm = "brucks" /\ stop = log2nprocs /\ end.buffers[stop] # None
                THEN Merged(end, end.buffers[stop]) ELSE end
        steps == {s \in d..stop : s < log2nprocs}
        finals == {s \in d..stop : SendsFinal(s)}
    IN SendDist(r, {Message(r, s, t[s]) : s \in steps} \cup {Final(r, t[s]) : s \in finals}, net,
                IF Done(last) THEN Finalize(r, last, "success")
                ELSE exchange' = [exchange EXCEPT ![r] = last] /\ UNCHANGED gathered)

Called(r) == exchange[r].called \/ gathered[r].times > 0

\* allgather. rcd gives up when the size is no power of two, and
\* collectives_base_process_allgather does not look at what it returns.
Allgather(r) ==
    /\ ~Called(r) /\ heap[r] # "crashed"
    /\ LET t == [exchange[r] EXCEPT !.called = TRUE, !.nreported = 1, !.bucket[r] = @ + 1]
       IN IF algorithm = "rcd" /\ ~PowerOfTwo
          THEN /\ exchange' = [exchange EXCEPT ![r].called = TRUE]
               /\ UNCHANGED <<sent, gathered, heap>>
          ELSE ProcessData(r, t, 0, sent)
    /\ UNCHANGED <<algorithm, nprocs, last_round, early>>

\* The receive handler can go on with the step of message m.
InTurn(r, m) == exchange[r].nreported > 0 /\ (m.d = 0 \/ m.d - 1 \in exchange[r].mask)

RecvDist(m) ==
    /\ m \in sent /\ InTurn(m.dst, m) /\ heap[m.dst] # "crashed"
    /\ ProcessData(m.dst, Merged(exchange[m.dst], m), m.d + 1, sent \ {m})
    /\ UNCHANGED <<algorithm, nprocs, last_round, early>>

\* ... or not: it is buffered, in a new tracker if there is none. That tracker's
\* signature is freed, so that nobody may find it again. In rcd the copy may fail,
\* which ends the collective (a tracker without a request: SCON_RELEASE of NULL).
Buffer(m) ==
    /\ m \in sent /\ ~InTurn(m.dst, m) /\ heap[m.dst] # "crashed"
    /\ \/ /\ \/ exchange' = [exchange EXCEPT ![m.dst].buffers[m.d] = m]
             \/ ~exchange[m.dst].called /\ UNCHANGED exchange
          /\ UNCHANGED <<gathered, heap>>
       \/ /\ Unlucky(m.dst) /\ exchange[m.dst].called
          /\ Finalize(m.dst, exchange[m.dst], "error")
          /\ heap' = [heap EXCEPT ![m.dst] = Lost(m.dst)]
       \/ /\ Unlucky(m.dst) /\ heap' = [heap EXCEPT ![m.dst] = "crashed"]
          /\ UNCHANGED <<exchange, gathered>>
    /\ sent' = sent \ {m}
    /\ early' = (early \/ ~Called(m.dst))
    /\ UNCHANGED <<algorithm, nprocs, last_round>>

ExchangeNext ==
    \/ \E r \in Member : Allgather(r)
    \/ \E m \in sent : RecvDist(m) \/ Buffer(m)

ExchangeSpec == ExchangeInit /\ [][ExchangeNext]_exchangeVars
ExchangeFairSpec == ExchangeSpec /\ WF_exchangeVars(ExchangeNext)
-----------------------------------------------------------------------------
ExchangeTypeOK ==
    /\ last_round \in LastRounds /\ early \in BOOLEAN
    /\ \A r \in Member : /\ exchange[r].called \in BOOLEAN
                         /\ exchange[r].nreported \in 0..(2 * nprocs)
                         /\ exchange[r].mask \subseteq 0..log2nprocs
                         /\ gathered[r].times \in {0, 1}
                         /\ heap[r] \in {"empty", "fails", "crashed"}
    /\ \A m \in sent : m.dst \in Member /\ m.d \in 0..log2nprocs

\* brucks:281 and rcd:247: counting processes is enough. Who is called back with
\* success has something of every member, whatever was buffered, early, doubled,
\* or not sent because its buffer was not empty.
CountMeansComplete == \A r, q \in Member :
    gathered[r].times > 0 /\ gathered[r].status = "success" => gathered[r].bucket[q] >= 1

\* brucks:326, rcd:291 (the assertion): a step's message comes once. A step's
\* message is not overwritten by another one in its buffer either.
EachStepOnce == \A m \in sent :
    m.d \notin exchange[m.dst].mask /\ exchange[m.dst].buffers[m.d] = None

\* rcd has every contribution exactly once; so has brucks when the size is
\* 2^i + 2^j. For other sizes it has some twice (brucks:281, "we may get data
\* from more daemons than expected").
GatheredOnce == \A r, q \in Member :
    (algorithm = "rcd" \/ \E k \in 0..log2nprocs : nprocs - 2^log2nprocs = 2^k)
        => gathered[r].bucket[q] <= 1

\* Nobody keeps a tracker of an allgather that is over, unless it is a power of
\* two in brucks, where a member sends the final message to itself. (A copy that
\* fails in rcd removes the tracker, and the next message makes another.)
NoTrackerLeft ==
    (~early /\ sent = {} /\ (\A r \in Member : heap[r] = "empty") /\ \A r \in Member : gathered[r].times > 0)
        => (algorithm = "brucks" /\ PowerOfTwo) \/ \A r \in Member : exchange[r] = NewExchange

\* The allgather ends for everyone if no message comes before its receiver calls
\* and what malloc returns looks like an empty buffer. (rcd is for powers of two.)
ExchangeCompletes ==
    (algorithm = "rcd" => PowerOfTwo) =>
        <>(early \/ (\E r \in Member : heap[r] # "empty") \/ \A r \in Member : gathered[r].times > 0)

\* Every member gathers what every other brought once, step by step, and leaves
\* no tracker behind.
ExchangesHold ==
    ExchangeTypeOK /\ CountMeansComplete /\ EachStepOnce /\ GatheredOnce /\ NoTrackerLeft
=============================================================================
