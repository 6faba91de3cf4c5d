----------------------------- MODULE MCUmdConn ------------------------------
(* UmdConn between two users, the device, the lan and the outside.         *)
EXTENDS UmdConn

\* Hosts are named by what they are.
ByName == [h \in Host |-> IF h = "gateway" THEN "dev"
                          ELSE IF h \in {"alice", "bob"} THEN "user"
                          ELSE IF h = "printer" THEN "lan" ELSE "wan"]

\* A user both ways with the outside, one way with another user.
ThreeFlows == {<<"alice", "web">>, <<"web", "alice">>, <<"alice", "bob">>}
=============================================================================
