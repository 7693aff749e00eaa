------------------------------ MODULE KeyValues ------------------------------
(***************************************************************************)
(* What a hash table promises: a map from keys to values, and of each call *)
(* the answer that map gives. HashTable implements it.                     *)
(***************************************************************************)
CONSTANTS Keys, Values
VARIABLES map, answer

None == "not found"

KeyValuesInit == map = [k \in {} |-> None] /\ answer = None

Lookup(k) == answer' = (IF k \in DOMAIN map THEN map[k] ELSE None) /\ UNCHANGED map
\* A new key may come with an error when memory runs out; it is there all the same.
Store(k, v) ==
    /\ map' = [x \in DOMAIN map \cup {k} |-> IF x = k THEN v ELSE map[x]]
    /\ answer' = "ok" \/ (k \notin DOMAIN map /\ answer' = "out of resource")
Delete(k) ==
    /\ map' = [x \in DOMAIN map \ {k} |-> map[x]]
    /\ answer' = IF k \in DOMAIN map THEN "ok" ELSE None
DeleteAll == map' = [k \in {} |-> None] /\ answer' = "ok"

KeyValuesNext ==
    /\ <<map, answer>>' # <<map, answer>>
    /\ \/ \E k \in Keys : Lookup(k) \/ Delete(k) \/ \E v \in Values : Store(k, v)
       \/ DeleteAll
KeyValuesSpec == KeyValuesInit /\ [][KeyValuesNext]_<<map, answer>>
=============================================================================
