----------------------------- MODULE MCUmdTable -----------------------------
(* UmdTable with colliding hashes.                                         *)
EXTENDS UmdTable, TLC

\* Two of the three macs, and two addresses, share a bucket.
FoldMac == [m \in Mac |-> IF m = "mac1" THEN "b0" ELSE "b1"]
FoldIp == [a \in Addr |-> IF a = NoIp THEN "b0" ELSE IF a = "ip3" THEN "b0" ELSE "b1"]

\* Documents of users a peer has bound.
PeerDumps == {[mac |-> "mac1", ip |-> "ip2"], [mac |-> "mac3", ip |-> "ip3"]}

MemSymmetry == Permutations(Obj)
=============================================================================
