\* The table with every command, documents of a peer and associate.
CONSTANTS
  Obj = {o1, o2, o3}
  Mac = {"mac1", "mac2", "mac3"}
  Ip = {"ip1", "ip2", "ip3"}
  NoIp = "0.0.0.0"
  Bucket = {"b0", "b1"}
  HashMac <- FoldMac
  HashIp <- FoldIp
  Associable = TRUE
  Dumps <- PeerDumps
SPECIFICATION Spec
SYMMETRY MemSymmetry
INVARIANTS NoDangling FoundUnlessSynced OneUnlessExtra
CHECK_DEADLOCK FALSE
