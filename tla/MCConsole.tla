----------------------------- MODULE MCConsole ------------------------------
(* Two titles in one library and one in the other; two tries for the network. *)
EXTENDS Console

MCSizes == [l \in Library |-> IF l = "3ds" THEN {2} ELSE {0, 1}]

=============================================================================
