---------------------------- MODULE PointerArray ----------------------------
(***************************************************************************)
(* class/scon_pointer_array.c: an array that grows, with the index of its  *)
(* lowest free element and the number of free ones. The handles of SCONs,  *)
(* the mca variables and groups and the types of buffer_ops are indexes of *)
(* such arrays.                                                            *)
(*                                                                         *)
(* A maximum that is odd, as the 255 of buffer_ops/open_close.c:173 and the*)
(* INT_MAX of comm_base_frame.c:56, lets set_item and test_and_set_item    *)
(* take its last index and grow the table to one element too few. What     *)
(* lies behind the table is not this array's: nothing is followed further. *)
(***************************************************************************)
EXTENDS Integers, FiniteSets, FiniteSetsExt

CONSTANTS
    Ptrs,
    InitialSizes,    \* initial_allocation of scon_pointer_array_init
    MaxSizes,        \* max_size given to it
    Indexes          \* what set_item and test_and_set_item are called with

ASSUME PointerArrayAssumption == MaxSizes \subseteq Nat /\ Indexes \subseteq Nat

VARIABLES
    array,           \* addr, size, max_size, lowest_free, number_free
    index,           \* what the last add returned
    outside          \* an element outside of addr has been written

arrayVars == <<array, index, outside>>

Null == "null"
Failed == 0 - 1

PointerArrayInit ==
    /\ \E n \in InitialSizes, max \in MaxSizes : array =
          [addr |-> [i \in 0..(n - 1) |-> Null], size |-> n, max_size |-> max,
           lowest_free |-> 0, number_free |-> n]
    /\ index = Failed /\ outside = FALSE

Free(a) == {i \in 0..(a.size - 1) : a.addr[i] = Null}
LeastFree(a, from) == Min({i \in Free(a) : i >= from} \cup {a.size})

(***************************************************************************)
(* grow_table. The size is soft or, when that is too much, hard, and must  *)
(* be less than the maximum.                                               *)
(***************************************************************************)
NewSize(a, soft, hard) == IF soft > a.max_size THEN hard ELSE soft
CanGrow(a, soft, hard) == NewSize(a, soft, hard) < a.max_size
Resized(a, n) ==
    [a EXCEPT !.size = n, !.number_free = @ + n - a.size,
              !.addr = [i \in 0..(n - 1) |-> IF i < a.size THEN a.addr[i] ELSE Null]]
grow_table(a, soft, hard) == Resized(a, NewSize(a, soft, hard))

\* The table an index fits in, as set_item and test_and_set_item grow it: to a
\* multiple of TABLE_GROW, which is 2.
SoftFor(i) == (i \div 2 + 1) * 2
Fits(a, i) == i < a.size \/ CanGrow(a, SoftFor(i), i)
For(a, i) == IF i < a.size THEN a ELSE grow_table(a, SoftFor(i), i)

\* TABLE_INIT is 1.
Next_after(a, i) == LeastFree(a, i + 1)
add(p) ==
    LET full == array.number_free = 0
        soft == IF array.size = 0 THEN 1 ELSE 2 * array.size
        a == IF full THEN grow_table(array, soft, array.max_size + 1) ELSE array
        i == a.lowest_free
    IN /\ IF full /\ ~CanGrow(array, soft, array.max_size + 1)
          THEN index' = Failed /\ UNCHANGED array
          ELSE /\ index' = i
               /\ array' = [a EXCEPT !.addr[i] = p, !.number_free = @ - 1,
                              !.lowest_free = Next_after(a, i)]
       /\ UNCHANGED outside

\* The element of table a is set, when it is in the table.
SetAt(a, i, p) ==
    IF p = Null
    THEN [a EXCEPT !.addr[i] = p, !.lowest_free = IF i < @ THEN i ELSE @,
                   !.number_free = IF a.addr[i] # Null THEN @ + 1 ELSE @]
    ELSE [a EXCEPT !.addr[i] = p,
                   !.number_free = IF a.addr[i] = Null THEN @ - 1 ELSE @,
                   !.lowest_free = IF i = @ THEN LeastFree(a, i + 1) ELSE @]

set_item(i, p) ==
    LET a == For(array, i)
    IN /\ IF ~Fits(array, i) THEN UNCHANGED <<array, outside>>
          ELSE IF i < a.size THEN array' = SetAt(a, i, p) /\ UNCHANGED outside
          ELSE array' = a /\ outside' = TRUE
       /\ UNCHANGED index

test_and_set_item(i, p) ==
    LET a == For(array, i)
    IN /\ IF (i < array.size /\ array.addr[i] # Null) \/ ~Fits(array, i)
          THEN UNCHANGED <<array, outside>>
          ELSE IF i < a.size THEN array' = SetAt(a, i, p) /\ UNCHANGED outside
          ELSE array' = a /\ outside' = TRUE
       /\ UNCHANGED index

set_size(n) ==
    /\ n > array.size /\ CanGrow(array, n, n)
    /\ array' = grow_table(array, n, n) /\ UNCHANGED <<index, outside>>

array_remove_all ==
    /\ array.number_free # array.size
    /\ array' = [array EXCEPT !.lowest_free = 0, !.number_free = array.size,
                              !.addr = [i \in DOMAIN @ |-> Null]]
    /\ UNCHANGED <<index, outside>>

get_item(a, i) == IF a.size <= i THEN Null ELSE a.addr[i]

PointerArrayNext == ~outside /\
    (\/ \E p \in Ptrs : add(p)
     \/ \E i \in Indexes, p \in Ptrs : set_item(i, p) \/ test_and_set_item(i, p)
     \/ \E i \in Indexes : set_item(i, Null) \/ set_size(i)
     \/ array_remove_all)
PointerArraySpec == PointerArrayInit /\ [][PointerArrayNext]_arrayVars
-----------------------------------------------------------------------------
ArrayTypeOK ==
    /\ array.addr \in [0..(array.size - 1) -> Ptrs \cup {Null}]
    /\ array.size \in 0..array.max_size /\ array.number_free \in 0..array.size
    /\ array.lowest_free \in 0..array.size

\* lowest_free and number_free say what is free, whatever calls were made: add
\* takes an element that is in no use, and grows the table just when it must.
FreeIsFree == /\ array.number_free = Cardinality(Free(array))
              /\ array.lowest_free = LeastFree(array, 0)

\* An add gives the lowest index that is not in use, and changes no other:
\* a handle is not given twice.
AddIsNew == [][
    (index' # index /\ index' # Failed) =>
        /\ get_item(array, index') = Null /\ get_item(array', index') # Null
        /\ \A i \in 0..array.max_size :
              /\ i < index' => get_item(array, i) # Null
              /\ i # index' => get_item(array, i) = get_item(array', i)]_arrayVars

\* Every index that is accepted is inside of the table after it has grown, but for
\* the last one of an odd maximum, which is the first behind the table.
InsideTable == outside => array.max_size % 2 = 1 /\ array.size = array.max_size - 1

\* An array knows its free places and stays inside of its memory.
ArraysHold == ArrayTypeOK /\ FreeIsFree /\ InsideTable
=============================================================================
