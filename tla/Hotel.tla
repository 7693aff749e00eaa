------------------------------- MODULE Hotel -------------------------------
(***************************************************************************)
(* class/scon_hotel.h and .c: occupants check in to a room and are checked *)
(* out by the caller or, when the timer of the room expires first, by the  *)
(* event loop, which then calls the eviction callback. Everything runs in  *)
(* the loop's thread, so a timer that is deleted does not expire.          *)
(***************************************************************************)
EXTENDS Integers, Sequences, SequencesExt, FiniteSets

CONSTANTS NumRooms, Guests, Timers  \* Timers: with an event base or without
VARIABLES
    occupant,       \* occupant[r], NoGuest in an empty room
    unoccupied,     \* the stack unoccupied_rooms, up to last_unoccupied_room
    pending,        \* rooms whose eviction timer is added
    evbase

hotelVars == <<occupant, unoccupied, pending, evbase>>
Rooms == 0..(NumRooms - 1)
NoGuest == "nobody"

HotelInit ==
    /\ occupant = [r \in Rooms |-> NoGuest]
    /\ unoccupied = [i \in 1..NumRooms |-> i - 1]
    /\ pending = {} /\ evbase \in Timers

Popped(s) == Front(s)
\* scon_hotel_checkin, and _with_res of a caller that knows there is room.
checkin(g) ==
    /\ unoccupied # <<>> /\ \A r \in Rooms : occupant[r] # g
    /\ LET r == Last(unoccupied)
       IN /\ occupant' = [occupant EXCEPT ![r] = g]
          /\ pending' = IF evbase THEN pending \cup {r} ELSE pending
    /\ unoccupied' = Popped(unoccupied)
    /\ UNCHANGED evbase

\* scon_hotel_checkout and _and_return_occupant; an empty room is left alone.
Deleted(r) == IF evbase THEN pending \ {r} ELSE pending
checkout(r) ==
    /\ occupant[r] # NoGuest
    /\ occupant' = [occupant EXCEPT ![r] = NoGuest]
    /\ pending' = Deleted(r)
    /\ unoccupied' = Append(unoccupied, r)
    /\ UNCHANGED evbase

\* local_eviction_callback: the occupant is out before the callback is called.
GivenBack(r) == Append(unoccupied, r)
local_eviction_callback(r) ==
    /\ r \in pending
    /\ pending' = pending \ {r}
    /\ occupant' = [occupant EXCEPT ![r] = NoGuest]
    /\ unoccupied' = GivenBack(r)
    /\ UNCHANGED evbase

HotelNext == (\E g \in Guests : checkin(g))
             \/ \E r \in Rooms : checkout(r) \/ local_eviction_callback(r)
HotelSpec == HotelInit /\ [][HotelNext]_hotelVars
-----------------------------------------------------------------------------
HotelTypeOK == /\ occupant \in [Rooms -> Guests \cup {NoGuest}]
               /\ pending \subseteq Rooms /\ Len(unoccupied) \in 0..NumRooms

\* Every room is on the stack once or has one occupant: the assertion in checkout
\* that the stack does not overflow holds, no room is lost and none is given to two.
RoomsAccounted ==
    /\ IsInjective(unoccupied)
    /\ ToSet(unoccupied) = {r \in Rooms : occupant[r] = NoGuest}
    /\ \A r, s \in Rooms : occupant[r] = occupant[s] => r = s \/ occupant[r] = NoGuest

\* A timer never fires for a room after its guest has left, where it would evict
\* the next one or free the room a second time.
TimersAreStays == pending = IF evbase THEN {r \in Rooms : occupant[r] # NoGuest} ELSE {}

\* Every room is free or has its guest, and every guest its timer.
HotelsHold == HotelTypeOK /\ RoomsAccounted /\ TimersAreStays
=============================================================================
