-------------------------------- MODULE Lists --------------------------------
(***************************************************************************)
(* What class/scon_list.h promises: every list is a sequence, an item is   *)
(* on one list at most. LinkedList implements it.                          *)
(***************************************************************************)
EXTENDS Naturals, SequencesExt, Functions

CONSTANTS ListNames, Items, Rank
VARIABLE seqs

Contents(l) == ToSet(seqs[l])
OnNone(i) == \A l \in ListNames : i \notin Contents(l)

ListsInit == seqs = [l \in ListNames |-> <<>>]

Put(l, i, k) == OnNone(i) /\ seqs' = [seqs EXCEPT ![l] = InsertAt(@, k, i)]
Take(l, k) == seqs' = [seqs EXCEPT ![l] = RemoveAt(@, k)]

\* Items a to b of x go before the k-th of l, which may be the same list.
Move(l, k, x, a, b) ==
    LET moved == SubSeq(seqs[x], a, b)
        Before(s, n) == SubSeq(s, 1, n - 1)
        From(s, n) == SubSeq(s, n, Len(s))
    IN IF l # x
       THEN seqs' = [seqs EXCEPT ![l] = Before(@, k) \o moved \o From(@, k),
                                 ![x] = Before(@, a) \o From(@, b + 1)]
       ELSE /\ k \notin a..b
            /\ seqs' = [seqs EXCEPT ![l] =
                 IF k < a THEN Before(@, k) \o moved \o SubSeq(@, k, a - 1) \o From(@, b + 1)
                          ELSE Before(@, a) \o SubSeq(@, b + 1, k - 1) \o moved \o From(@, k)]

\* The sort need not be stable.
Sort(l) ==
    \E s \in [DOMAIN seqs[l] -> Contents(l)] :
        /\ IsInjective(s) /\ \A j, k \in DOMAIN s : j < k => Rank[s[j]] <= Rank[s[k]]
        /\ seqs' = [seqs EXCEPT ![l] = s]

ListsNext == seqs' # seqs /\ \E l \in ListNames :
    \/ \E i \in Items, k \in 1..(Len(seqs[l]) + 1) : Put(l, i, k)
    \/ \E k \in DOMAIN seqs[l] : Take(l, k)
    \/ \E k \in 1..(Len(seqs[l]) + 1), x \in ListNames : \E a, b \in DOMAIN seqs[x] :
          a <= b /\ Move(l, k, x, a, b)
    \/ Sort(l)
ListsSpec == ListsInit /\ [][ListsNext]_seqs
=============================================================================
