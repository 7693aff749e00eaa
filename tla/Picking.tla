------------------------------ MODULE Picking ------------------------------
(***************************************************************************)
(* What is left of a list when some of its elements are taken out, where   *)
(* they stand: the events that stay active, the messages that wait on. A   *)
(* recursive function rather than SelectSeq, of which nothing can be proved.*)
(***************************************************************************)
EXTENDS Naturals, Sequences

\* The elements of the list at the places in the set, in the order of the list.
Picked(list, set) == LET F[i \in 0..Len(list)] ==
                           IF i = 0 THEN <<>>
                           ELSE F[i - 1] \o (IF i \in set THEN <<list[i]>> ELSE <<>>)
                     IN F[Len(list)]
=============================================================================
