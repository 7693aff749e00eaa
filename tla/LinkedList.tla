----------------------------- MODULE LinkedList -----------------------------
(***************************************************************************)
(* class/scon_list.h and .c: doubly linked lists with a sentinel and a     *)
(* count. Every queue of the system is one: posted receives, messages that *)
(* wait, trackers, connections, components.                                *)
(*                                                                         *)
(* scon_list_insert at 0 counts its item twice (prepend counts it, and     *)
(* line 153). From then on the count may exceed the number of items, and   *)
(* what goes by the count alone (join, sort, remove_first) takes the       *)
(* sentinel for an item. `damage` says how far that has gone.              *)
(***************************************************************************)
EXTENDS Naturals, SequencesExt, FiniteSets, Functions

CONSTANTS
    ListNames,    \* a list stands for its sentinel as well
    Items,
    Rank,         \* what scon_list_sort compares
    InsertIndexes,\* what scon_list_insert is called with
    MaxCounted    \* bound: what insertions at 0 make the lists count together

VARIABLES
    next, prev, length,
    damage        \* "none"; "counted": an item went in at 0; "linked": the links suffered
listVars == <<next, prev, length, damage>>

Nodes == ListNames \cup Items

LinkedListInit ==
    /\ next = [n \in Nodes |-> n]
    /\ prev = [n \in Nodes |-> n]
    /\ length = [l \in ListNames |-> 0]
    /\ damage = "none"

\* The nodes from n on, up to the sentinel, along next or prev.
Walk(link, l) == IF link[l] = l THEN <<>> ELSE
    LET from[n \in 0..Cardinality(Nodes)] == IF n = 0 THEN link[l] ELSE link[from[n - 1]]
        reached == {n \in DOMAIN from : from[n] = l}
        stop == IF reached = {} THEN Cardinality(Nodes)
                ELSE CHOOSE n \in reached : \A m \in reached : n <= m
    IN [k \in 1..stop |-> from[k - 1]]
ItemsOf(l) == Walk(next, l)
Unlisted(i) == \A l \in ListNames : ~Contains(ItemsOf(l), i)

-----------------------------------------------------------------------------
\* The links with i before pos.
LinkBefore(pos, i) ==
    /\ next' = [next EXCEPT ![prev[pos]] = i, ![i] = pos]
    /\ prev' = [prev EXCEPT ![i] = prev[pos], ![pos] = i]
Longer(l, n) == length' = [length EXCEPT ![l] = @ + n]

append(l, i) == Unlisted(i) /\ LinkBefore(l, i) /\ Longer(l, 1) /\ UNCHANGED damage
prepend(l, i) == Unlisted(i) /\ LinkBefore(next[l], i) /\ Longer(l, 1) /\ UNCHANGED damage
insert_pos(l, pos, i) == Unlisted(i) /\ LinkBefore(pos, i) /\ Longer(l, 1) /\ UNCHANGED damage

\* The node that idx steps from the sentinel lead to, around it if need be.
After(l, idx) == LET at[n \in 0..idx] == IF n = 0 THEN l ELSE next[at[n - 1]] IN at[idx]

Counted == MapThenSumSet(LAMBDA l : length[l], ListNames)

\* At index 0 the item is counted by prepend and once more.
insert(l, i, idx) ==
    /\ Unlisted(i) /\ idx < length[l]
    /\ LinkBefore(next[After(l, idx)], i)
    /\ IF idx = 0 THEN Counted + 2 <= MaxCounted /\ Longer(l, 2) /\ damage' = "counted"
       ELSE Longer(l, 1) /\ UNCHANGED damage

\* What the links of a removed item are nobody asks before they are set again: an
\* item on no list links to itself.
Unlink(i) ==
    /\ next' = [next EXCEPT ![prev[i]] = next[i], ![i] = i]
    /\ prev' = [prev EXCEPT ![next[i]] = prev[i], ![i] = i]
Shorter(l) == length' = [length EXCEPT ![l] = @ - 1]

\* The last item is found by its links, the first by the count: a list that has
\* none but counts some gives its own sentinel.
remove_item(l, i) == Contains(ItemsOf(l), i) /\ Unlink(i) /\ Shorter(l) /\ UNCHANGED damage
remove_first(l) == length[l] # 0 /\ Unlink(next[l]) /\ Shorter(l) /\ UNCHANGED damage
remove_last(l) == length[l] # 0 /\ Unlink(prev[l]) /\ Shorter(l) /\ UNCHANGED damage

\* scon_list_transfer: begin up to, not including, end go before pos. The
\* assignments are made in this order. Mutant: the gap is not closed.
transfer_gap(pos, begin, end) ==
    IF pos = end THEN UNCHANGED <<next, prev>>
    ELSE /\ next' = [next EXCEPT ![prev[end]] = pos, ![prev[pos]] = begin]
         /\ prev' = [prev EXCEPT ![pos] = prev[end], ![end] = prev[begin], ![begin] = prev[pos]]
transfer(pos, begin, end) ==
    IF pos = end THEN UNCHANGED <<next, prev>>
    ELSE /\ next' = [next EXCEPT ![prev[end]] = pos, ![prev[begin]] = end, ![prev[pos]] = begin]
         /\ prev' = [prev EXCEPT ![pos] = prev[end], ![end] = prev[begin], ![begin] = prev[pos]]

\* Of a list that has no items but counts some, the sentinel is transferred.
join(l, pos, x) ==
    /\ l # x /\ length[x] # 0
    /\ transfer(pos, next[x], x)
    /\ damage' = IF next[x] = x THEN "linked" ELSE damage
    /\ length' = [length EXCEPT ![l] = @ + length[x], ![x] = 0]

\* The items from the a-th up to the b-th; nothing is done when there are none.
Moved(n, l, x) == [[length EXCEPT ![l] = @ + n] EXCEPT ![x] = @ - n]
splice(l, pos, x, a, b) ==
    LET items == ItemsOf(x)
        last == IF b = Len(items) THEN x ELSE items[b + 1]
    IN /\ a <= b /\ ~\E k \in a..b : items[k] = pos
       /\ transfer(pos, items[a], last) /\ UNCHANGED damage
       /\ length' = Moved(b - a + 1, l, x)

\* scon_list_sort: all are removed, sorted with qsort and appended. Of a list that
\* counts too many the sentinel is removed, compared and appended as well.
sort(l) ==
    LET items == ItemsOf(l)
    IN IF length[l] > Len(items) THEN damage' = "linked" /\ UNCHANGED <<next, prev, length>>
       ELSE \E s \in [1..length[l] -> ToSet(items)] :
        /\ length[l] # 0
        /\ IsInjective(s) /\ \A j, k \in DOMAIN s : j < k => Rank[s[j]] <= Rank[s[k]]
        /\ LET round == <<l>> \o s \o <<l>>
               at(i) == CHOOSE k \in 2..(Len(round) - 1) : round[k] = i
           IN /\ next' = [n \in Nodes |-> IF n = l THEN s[1]
                             ELSE IF n \in ToSet(items) THEN round[at(n) + 1] ELSE next[n]]
              /\ prev' = [n \in Nodes |-> IF n = l THEN Last(s)
                             ELSE IF n \in ToSet(items) THEN round[at(n) - 1] ELSE prev[n]]
        /\ UNCHANGED <<length, damage>>

\* Lists whose links suffered are not followed any further.
LinkedListNext == damage # "linked" /\
    \E l \in ListNames :
        \/ \E i \in Items : append(l, i) \/ prepend(l, i) \/ remove_item(l, i)
        \/ \E i \in Items, idx \in InsertIndexes : insert(l, i, idx)
        \/ remove_first(l) \/ remove_last(l) \/ sort(l)
        \/ \E pos \in {l} \cup ToSet(ItemsOf(l)) :
              \/ \E i \in Items : insert_pos(l, pos, i)
              \/ \E x \in ListNames :
                    \/ join(l, pos, x)
                    \/ \E a, b \in DOMAIN ItemsOf(x) : splice(l, pos, x, a, b)
LinkedListSpec == LinkedListInit /\ [][LinkedListNext]_listVars
-----------------------------------------------------------------------------
ListTypeOK == /\ next \in [Nodes -> Nodes] /\ prev \in [Nodes -> Nodes]
              /\ \A l \in ListNames : length[l] \in Nat
              /\ damage \in {"none", "counted", "linked"}

\* The count is the number of items (scon_list.h:403), also after items have been
\* moved between lists, as long as none was inserted at 0. It is never less: what
\* goes by the count misses no item.
LengthCounts == \A l \in ListNames :
    /\ damage = "none" => length[l] = Len(ItemsOf(l))
    /\ damage = "counted" => length[l] >= Len(ItemsOf(l))

\* The links backwards are those forwards: a walk from either end meets the same
\* items, as the removal from within a loop relies on. A wrong count alone does
\* not disturb them.
SameBothWays == \A l \in ListNames : damage # "linked" => Walk(prev, l) = Reverse(ItemsOf(l))

\* The lists are the sequences that the abstract specification describes, until a
\* list that counts too many is sorted or, without items, joined to another.
Seqs == [l \in ListNames |-> ItemsOf(l)]
Promised == INSTANCE Lists WITH seqs <- Seqs
ImplementsLists == Promised!ListsInit /\ [][damage' # "linked" => Promised!ListsNext]_Seqs

\* Lists read the same in both directions and have the length they say.
ListsHold == ListTypeOK /\ LengthCounts /\ SameBothWays
=============================================================================
