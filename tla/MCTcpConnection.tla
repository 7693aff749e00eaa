--------------------------- MODULE MCTcpConnection ---------------------------
(* Two members and their connection, in three settings. *)
EXTENDS TcpConnection

OneEach == [p \in {0, 1} |-> 1]
TwoEach == [p \in {0, 1} |-> 2]

MasterThread == [threaded |-> {0}, refusals |-> 0, resets |-> FALSE]
Faulty == [threaded |-> {0}, refusals |-> 1, resets |-> TRUE]
Undisturbed == [threaded |-> {}, refusals |-> 0, resets |-> FALSE]

Master == {MasterThread}
CalmAndFaulty == {Undisturbed, Faulty}
=============================================================================
