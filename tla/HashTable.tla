------------------------------ MODULE HashTable ------------------------------
(***************************************************************************)
(* class/scon_hash_table.c: open addressing. A key belongs at its hash     *)
(* modulo the capacity or, when that slot is taken, in the first free slot *)
(* behind it, with wrap-around. A lookup stops at the first free slot, so  *)
(* a removal must move the elements behind the gap, and a growing table    *)
(* places every element anew. The table collectives are found in and the   *)
(* index of the mca variables are such tables.                             *)
(*                                                                         *)
(* There is a function of each kind for keys of 32 bits, of 64 bits and    *)
(* for strings of bytes. The first call after an init or a remove_all sets *)
(* the kind; the functions of other kinds must not be called then.         *)
(***************************************************************************)
EXTENDS Naturals, Sequences, SequencesExt, FiniteSetsExt, Functions

CONSTANTS
    Keys32, Keys64, KeysPtr,  \* numbers, numbers and sequences of bytes
    HashValues,
    Block,                    \* capacities are 1 modulo Block: 30 in the code
    TableSizes,               \* what scon_hash_table_init is given
    MaxCapacity,              \* bound: no table grows past it
    MaxFailures               \* bound: allocations that fail

ASSUME BlockAssumption == Block \in Nat \ {0, 1}

VARIABLES
    ht,                       \* capacity, size, growth_trigger, type_methods, elts
    hashAnswer,               \* what the last call returned
    node, visited, more,      \* a traversal: the element it is at, the keys it
                              \* gave, and whether it has come to its end
    failures

traversal == <<node, visited, more>>
hashVars == <<ht, hashAnswer, traversal, failures>>

HashKeys == [kind : {"u32"}, id : Keys32] \cup [kind : {"u64"}, id : Keys64]
            \cup [kind : {"ptr"}, id : KeysPtr]
NoElt == [valid |-> FALSE]
Elt(k, v) == [valid |-> TRUE, key |-> k, value |-> v]
NoNode == MaxCapacity

round_capacity_up(c) == ((c + Block - 1) \div Block) * Block + 1
\* scon_hash_hash_key_ptr, without the wrap at 2^64 that short keys do not reach.
hash_key_ptr(bytes) == FoldLeft(LAMBDA hash, b : 31 * hash + b, 0, bytes)
\* The methods hash_elt of the kinds.
Hash(k) == IF k.kind = "ptr" THEN hash_key_ptr(k.id) ELSE k.id

\* An empty table. Mutant: it grows when it is full.
NewTable_full(capacity) ==
    [capacity |-> capacity, size |-> 0, trigger |-> capacity, kind |-> "none",
     elts |-> [i \in 0..(capacity - 1) |-> NoElt]]
NewTable(capacity) ==
    [capacity |-> capacity, size |-> 0, trigger |-> capacity \div 2, kind |-> "none",
     elts |-> [i \in 0..(capacity - 1) |-> NoElt]]

\* scon_hash_table_init: density 1/2, growth 2/1.
HashInit ==
    /\ \E n \in TableSizes : ht = NewTable(round_capacity_up(2 * n))
    /\ hashAnswer = "not found"
    /\ node = NoNode /\ visited = <<>> /\ more = TRUE /\ failures = 0

-----------------------------------------------------------------------------
\* The walk from a key's slot, up to the slot where it stops.
Probe(elts, k, n) == (Hash(k) + n) % Cardinality(DOMAIN elts)
Walk(elts, k) ==
    LET stops(n) == LET e == elts[Probe(elts, k, n)] IN ~e.valid \/ e.key = k
    IN Probe(elts, k, CHOOSE n \in DOMAIN elts : stops(n) /\ \A m \in 0..(n - 1) : ~stops(m))
Holds(elts, k) == elts[Walk(elts, k)].valid

Valid(elts) == {i \in DOMAIN elts : elts[i].valid}

\* scon_hash_grow: the elements are placed one after the other in a table of
\* twice the size.
Replaced(elts, e) == [elts EXCEPT ![Walk(elts, e.key)] = e]
Grown(t) ==
    LET new == NewTable(round_capacity_up(2 * t.capacity))
        old == SetToSortSeq(Valid(t.elts), <)
    IN [new EXCEPT !.size = t.size, !.kind = t.kind,
          !.elts = FoldLeft(LAMBDA elts, j : Replaced(elts, t.elts[j]), @, old)]

\* The check of the kind, which the functions make in a debug build only.
OfKind(k) == ht.kind \in {"none", k.kind}
Abandoned == node' = NoNode /\ visited' = <<>> /\ more' = TRUE

(***************************************************************************)
(* The get, set and remove functions, with what they have in common. A     *)
(* set that cannot grow the table reports it, and the new element stays.   *)
(***************************************************************************)
GetValue(k) ==
    /\ OfKind(k)
    /\ hashAnswer' = (LET e == ht.elts[Walk(ht.elts, k)]
                      IN IF e.valid THEN e.value ELSE "not found")
    /\ ht' = [ht EXCEPT !.kind = k.kind]
    /\ UNCHANGED <<traversal, failures>>

SetValue(k, v) ==
    LET new == ~Holds(ht.elts, k)
        set == [ht EXCEPT !.elts[Walk(ht.elts, k)] = Elt(k, v), !.kind = k.kind,
                          !.size = IF new THEN @ + 1 ELSE @]
        grows == new /\ set.size >= set.trigger
    IN /\ OfKind(k)
       /\ grows => round_capacity_up(2 * ht.capacity) <= MaxCapacity
       /\ \/ /\ ht' = IF grows THEN Grown(set) ELSE set
             /\ hashAnswer' = "ok"
             /\ UNCHANGED failures
          \/ /\ grows /\ failures < MaxFailures
             /\ ht' = set
             /\ hashAnswer' = "out of resource"
             /\ failures' = failures + 1
       /\ Abandoned

(***************************************************************************)
(* scon_hash_table_remove_elt_at: the elements that follow the gap, up to  *)
(* the next free slot, are moved to where a walk now finds them.           *)
(***************************************************************************)
Followers(elts, i) ==
    LET cap == Cardinality(DOMAIN elts)
        run == CHOOSE n \in 1..cap : ~elts[(i + n) % cap].valid
                                     /\ \A m \in 1..(n - 1) : elts[(i + m) % cap].valid
    IN [n \in 1..(run - 1) |-> (i + n) % cap]
\* One follower. Mutant: it stays where it is.
Rehashed_stays(elts, i) == elts
Rehashed(elts, i) ==
    LET without == [elts EXCEPT ![i] = NoElt]
    IN [without EXCEPT ![Walk(without, elts[i].key)] = elts[i]]
RemovedAt(elts, i) == FoldLeft(Rehashed, [elts EXCEPT ![i] = NoElt], Followers(elts, i))

RemoveValue(k) ==
    /\ OfKind(k)
    /\ IF Holds(ht.elts, k)
       THEN /\ ht' = [ht EXCEPT !.elts = RemovedAt(@, Walk(@, k)), !.size = @ - 1,
                                !.kind = k.kind]
            /\ hashAnswer' = "ok"
            /\ Abandoned
       ELSE /\ ht' = [ht EXCEPT !.kind = k.kind]
            /\ hashAnswer' = "not found"
            /\ UNCHANGED traversal
    /\ UNCHANGED failures

get_value_uint32(k) == k.kind = "u32" /\ GetValue(k)
set_value_uint32(k, v) == k.kind = "u32" /\ SetValue(k, v)
remove_value_uint32(k) == k.kind = "u32" /\ RemoveValue(k)
get_value_uint64(k) == k.kind = "u64" /\ GetValue(k)
set_value_uint64(k, v) == k.kind = "u64" /\ SetValue(k, v)
remove_value_uint64(k) == k.kind = "u64" /\ RemoveValue(k)
get_value_ptr(k) == k.kind = "ptr" /\ GetValue(k)
set_value_ptr(k, v) == k.kind = "ptr" /\ SetValue(k, v)
remove_value_ptr(k) == k.kind = "ptr" /\ RemoveValue(k)

\* scon_hash_table_remove_all, which also forgets the kind.
remove_all ==
    /\ ht' = [NewTable(ht.capacity) EXCEPT !.trigger = ht.trigger]
    /\ hashAnswer' = "ok"
    /\ Abandoned /\ UNCHANGED failures

(***************************************************************************)
(* get_first_key and get_next_key. Between them the table may be read and  *)
(* not changed (scon_hash_table.h:353-354).                                *)
(***************************************************************************)
NextElt(n) == IF n = NoNode THEN 0 ELSE n + 1
get_next_elt ==
    LET rest == {i \in Valid(ht.elts) : i >= NextElt(node)}
    IN /\ IF rest = {}
          THEN node' = NoNode /\ more' = FALSE /\ UNCHANGED visited
          ELSE /\ node' = Min(rest) /\ more' = TRUE
               /\ visited' = Append(IF node = NoNode THEN <<>> ELSE visited,
                                     ht.elts[Min(rest)].key)
       /\ UNCHANGED <<ht, hashAnswer, failures>>

HashNext ==
    \/ \E k \in HashKeys :
          \/ get_value_uint32(k) \/ get_value_uint64(k) \/ get_value_ptr(k)
          \/ remove_value_uint32(k) \/ remove_value_uint64(k) \/ remove_value_ptr(k)
          \/ \E v \in HashValues :
                set_value_uint32(k, v) \/ set_value_uint64(k, v) \/ set_value_ptr(k, v)
    \/ remove_all \/ get_next_elt

HashSpec == HashInit /\ [][HashNext]_hashVars
-----------------------------------------------------------------------------
KeysInTable == {ht.elts[i].key : i \in Valid(ht.elts)}

HashTypeOK ==
    /\ ht.kind \in {"none", "u32", "u64", "ptr"} /\ KeysInTable \subseteq HashKeys
    /\ DOMAIN ht.elts = 0..(ht.capacity - 1) /\ ht.capacity % Block = 1
    /\ node \in 0..MaxCapacity /\ failures \in 0..MaxFailures

\* The table implements the map of its valid elements, and what get, set and remove answer
\* is what that map says: no removal hides an element from its walk, no growth
\* loses one, no key is there twice.
HashMap == [k \in KeysInTable |-> (CHOOSE e \in Range(ht.elts) : e.valid /\ e.key = k).value]
Abstract == INSTANCE KeyValues WITH Keys <- HashKeys, Values <- HashValues,
                                    map <- HashMap, answer <- hashAnswer
HashIsMap == Abstract!KeyValuesSpec

\* Every walk comes to an end: size counts the elements, and a slot stays free.
WalksEnd == /\ ht.size = Cardinality(Valid(ht.elts))
            /\ ht.size < ht.capacity

\* A traversal gives no key twice and, when it comes to its end, has given all.
FullTraversal == /\ IsInjective(visited)
                 /\ ~more => ToSet(visited) = KeysInTable

\* A table keeps room to end every probe, and a traversal gives every key once.
TablesHold == HashTypeOK /\ WalksEnd /\ FullTraversal
=============================================================================
