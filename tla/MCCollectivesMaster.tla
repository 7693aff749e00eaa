------------------------- MODULE MCCollectivesMaster -------------------------
(* A master with a receive thread of its own, in two settings: collectives *)
(* with an xcast between them, or xcasts alone from both ends of the tree. *)
EXTENDS MCCollectives

VARIABLE xcastsOnly
Crossing == INSTANCE Collectives WITH Rounds <- 0, Xcasters <- {0, N - 1}, Xcasts <- 2

MasterInit == xcastsOnly \in BOOLEAN /\ IF xcastsOnly THEN Crossing!Init ELSE Init
MasterNext == \/ ~xcastsOnly /\ Next /\ UNCHANGED xcastsOnly
              \/ xcastsOnly /\ Crossing!Next /\ UNCHANGED xcastsOnly
MasterSpec == MasterInit /\ [][MasterNext]_<<vars, xcastsOnly>>
=============================================================================
