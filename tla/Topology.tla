------------------------------ MODULE Topology ------------------------------
(***************************************************************************)
(* The routing trees of mca/topology: the radix tree (topology_radix.c,    *)
(* the default) and the binomial tree (topology_binomial.c). Every member  *)
(* computes its own parent, its direct children and, per child, the        *)
(* bitmap of the ranks below that child ("relatives") from its rank and    *)
(* the number of members alone; nothing is exchanged.                      *)
(***************************************************************************)
EXTENDS Integers, FiniteSets

Ranks(n) == 0..(n - 1)
Invalid == -1                    \* SCON_TOPO_ID_INVALID, the root's parent
Lifeline == 0                    \* mylifeline_id, set by *_init and never changed

-----------------------------------------------------------------------------
(* Radix tree *)

\* The loop that finds the level of a rank: the number of ranks up to and
\* including that level, and in that level. Every round adds one rank or more,
\* so `rank` rounds are enough.
Round(radix, rank, l) ==
    IF l.Sum < rank + 1
    THEN [Sum |-> l.Sum + l.NInLevel * radix, NInLevel |-> l.NInLevel * radix]
    ELSE l
Level(radix, rank) ==
    LET After[k \in Nat] == IF k = 0 THEN [Sum |-> 1, NInLevel |-> 1]
                            ELSE Round(radix, rank, After[k - 1])
    IN After[rank]

\* radix_update_topology: the parent.
radix_parent(radix, rank) ==
    LET l == Level(radix, rank)
        Sum == l.Sum - l.NInLevel
        NInPrevLevel == l.NInLevel \div radix
    IN IF rank = 0 THEN Invalid
       ELSE ((rank - Sum) % NInPrevLevel) + (Sum - NInPrevLevel)

\* radix_tree: the direct children, every NInLevel-th rank from ours on.
radix_children(radix, n, rank) ==
    {rank + i * Level(radix, rank).NInLevel : i \in 1..radix} \cap Ranks(n)

-----------------------------------------------------------------------------
(* Binomial tree *)

\* 1 << i
Bit[i \in Nat] == IF i = 0 THEN 1 ELSE 2 * Bit[i - 1]

\* scon_cube_dim: the smallest dimension of a cube with `value` corners.
scon_cube_dim(value) ==
    CHOOSE dim \in 0..value : /\ Bit[dim] >= value
                              /\ \A d \in 0..(dim - 1) : Bit[d] < value

\* scon_hibit: the highest bit set in value below bit `start`, or -1.
scon_hibit(value, start) ==
    LET Bits == {i \in 0..(start - 1) : (value \div Bit[i]) % 2 = 1}
    IN IF Bits = {} THEN -1 ELSE CHOOSE i \in Bits : \A j \in Bits : j <= i

\* binomial_tree: rank | mask for each bit above our highest.
binom_children(n, rank) ==
    LET dim == scon_cube_dim(n)
    IN {rank + Bit[i] : i \in (scon_hibit(rank, dim) + 1)..(dim - 1)} \cap Ranks(n)

\* binomial_tree(0, 0, me, ...): search down from rank 0 for ourselves; the
\* result is the rank we were found under (0 for rank 0 itself).
binom_parent(n, me) ==
    LET Search[rank \in Ranks(n)] ==
            IF me \in binom_children(n, rank) THEN rank
            ELSE LET hits == {c \in binom_children(n, rank) : Search[c] >= 0}
                 IN IF hits = {} THEN -1
                    ELSE Search[CHOOSE c \in hits : \A d \in hits : c <= d]
    IN IF me = 0 THEN 0 ELSE Search[0]

-----------------------------------------------------------------------------
(* Either tree. A topology is [tree, radix, n]. *)

parent(topo, me) ==
    IF topo.tree = "radix" THEN radix_parent(topo.radix, me)
                           ELSE binom_parent(topo.n, me)

children(topo, me) ==
    IF topo.tree = "radix" THEN radix_children(topo.radix, topo.n, me)
                           ELSE binom_children(topo.n, me)

\* The bitmap of the ranks below `me`: the children and, recursively, theirs.
relatives(topo, me) ==
    LET Below[r \in Ranks(topo.n)] ==
            UNION {{c} \cup Below[c] : c \in children(topo, r)}
    IN Below[me]

\* Mutant: looks for the target in the bitmaps only.
get_nexthop_bitmaps(topo, up, peers, below, me, target) ==
    LET down == {c \in peers : target \in below[c]}
    IN IF target = me THEN target
       ELSE IF target = Lifeline \/ down = {} THEN up
       ELSE CHOOSE c \in down : \A d \in down : c <= d
\* radix_get_nexthop / binom_get_nexthop, for a member with the parent `up`, a
\* list of downward links `peers` and the bitmaps `below` of their branches. The
\* two trees differ in whether the lifeline or our own name is tested first.
get_nexthop(topo, up, peers, below, me, target) ==
    LET down == {c \in peers : c = target \/ target \in below[c]}
    IN IF topo.tree = "binom" /\ target = me THEN target
       ELSE IF target = Lifeline THEN up
       ELSE IF target = me THEN target
       ELSE IF down # {} THEN CHOOSE c \in down : \A d \in down : c <= d
       ELSE up
=============================================================================
