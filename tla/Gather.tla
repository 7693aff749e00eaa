------------------------------- MODULE Gather -------------------------------
(***************************************************************************)
(* What scon_allgather and scon_barrier promise their caller, with no      *)
(* mention of trees, trackers or messages: a process that calls a          *)
(* collective gets its callback at most once, only after every member has  *)
(* called, and the callback of an allgather carries the contribution of    *)
(* every member exactly once.                                              *)
(*                                                                         *)
(* include/scon.h declares the two operations; TreeCollective models how   *)
(* mca/collectives/default implements them and is shown to implement this  *)
(* module.                                                                 *)
(***************************************************************************)
EXTENDS Naturals

CONSTANT Proc        \* the members of the SCON

VARIABLES
    kind,            \* "barrier" or "allgather"
    called,          \* called[p]: p's request was accepted
    ncallbacks,      \* ncallbacks[p]: times p's callback ran
    result           \* result[p][x]: copies of x's data the callback of p got

vars == <<kind, called, ncallbacks, result>>

\* The contents of a buffer: how often the contribution of each member is in it.
Nothing == [x \in Proc |-> 0]
Everything == [x \in Proc |-> 1]

Init ==
    /\ kind \in {"barrier", "allgather"}
    /\ called = [p \in Proc |-> FALSE]
    /\ ncallbacks = [p \in Proc |-> 0]
    /\ result = [p \in Proc |-> Nothing]

Call(p) ==
    /\ ~called[p]
    /\ called' = [called EXCEPT ![p] = TRUE]
    /\ UNCHANGED <<kind, ncallbacks, result>>

Callback(p) ==
    /\ \A q \in Proc : called[q]
    /\ ncallbacks[p] = 0
    /\ ncallbacks' = [ncallbacks EXCEPT ![p] = 1]
    /\ result' = [result EXCEPT ![p] = IF kind = "allgather" THEN Everything
                                                             ELSE Nothing]
    /\ UNCHANGED <<kind, called>>

Next == \E p \in Proc : Call(p) \/ Callback(p)

Spec == Init /\ [][Next]_vars
=============================================================================
