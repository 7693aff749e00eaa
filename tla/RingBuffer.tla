----------------------------- MODULE RingBuffer -----------------------------
(***************************************************************************)
(* class/scon_ring_buffer.c: head is where the next element goes, tail the *)
(* oldest one or -1 when there is none. A push into a full ring displaces  *)
(* the oldest.                                                             *)
(***************************************************************************)
EXTENDS Integers, Sequences, SequencesExt, FiniteSets

CONSTANTS RingValues, RingSizes
VARIABLES ring, given
ringVars == <<ring, given>>

Nothing == "NULL"
RingInit ==
    /\ \E n \in RingSizes : ring = [size |-> n, head |-> 0, tail |-> -1,
                                    addr |-> [i \in 0..(n - 1) |-> Nothing]]
    /\ given = Nothing

\* The index after i.
After(i) == IF i = ring.size - 1 THEN 0 ELSE i + 1

\* scon_ring_buffer_push.
TailAfterPush(old) ==
    LET t == IF old = Nothing THEN ring.tail
             ELSE IF ring.tail = ring.size - 1 THEN 0 ELSE ring.head + 1
    IN IF t < 0 THEN ring.head ELSE t
push(v) ==
    LET old == ring.addr[ring.head]
    IN /\ ring' = [ring EXCEPT !.addr[ring.head] = v, !.tail = TailAfterPush(old),
                               !.head = After(@)]
       /\ given' = old

pop ==
    IF ring.tail = -1 THEN given' = Nothing /\ UNCHANGED ring
    ELSE /\ given' = ring.addr[ring.tail]
         /\ ring' = [ring EXCEPT !.addr[ring.tail] = Nothing,
                        !.tail = IF After(@) = ring.head THEN -1 ELSE After(@)]

poke(i) ==
    /\ given' = IF ring.size <= i \/ ring.tail = -1 THEN Nothing
                ELSE IF i < 0
                     THEN ring.addr[IF ring.head = 0 THEN ring.size - 1 ELSE ring.head - 1]
                     ELSE LET offset == ring.tail + i
                          IN ring.addr[IF ring.size <= offset THEN offset - ring.size ELSE offset]
    /\ UNCHANGED ring

RingNext == pop \/ (\E v \in RingValues : push(v)) \/ \E i \in -1..ring.size : poke(i)
RingSpec == RingInit /\ [][RingNext]_ringVars
-----------------------------------------------------------------------------
RingTypeOK == /\ ring.addr \in [0..(ring.size - 1) -> RingValues \cup {Nothing}]
              /\ ring.head \in 0..(ring.size - 1) /\ ring.tail \in -1..(ring.size - 1)

\* What is on the ring, the oldest first.
Held == LET n == Cardinality({i \in DOMAIN ring.addr : ring.addr[i] # Nothing})
        IN [k \in 1..n |-> ring.addr[(ring.tail + k - 1) % ring.size]]

\* The ring is the queue of the last size elements: a pop gives the oldest, a push
\* into a full ring gives back the oldest and no other, a poke looks at any of them.
RingIsQueue == [][
    \/ \E v \in RingValues :
          IF Len(Held) = ring.size THEN given' = Head(Held) /\ Held' = Append(Tail(Held), v)
                                   ELSE given' = Nothing /\ Held' = Append(Held, v)
    \/ Held # <<>> /\ given' = Head(Held) /\ Held' = Tail(Held)
    \/ Held' = Held /\ given' \in ToSet(Held) \cup {Nothing}]_ringVars
=============================================================================
