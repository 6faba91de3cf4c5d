\* Every pair of ends without a connection table; three flows with one, which
\* is collected every second tick.
CONSTANTS
  Host = {"alice", "bob", "gateway", "printer", "web"}
  Class <- ByName
  Autouser = TRUE
  Connectable = {TRUE, FALSE}
  Talk <- ThreeFlows
  TICKS = 2
  GCCONN = 1
  MaxTime = 4
SPECIFICATION ConnSpec
INVARIANTS ChargedButFromLan NoStaleConn
CHECK_DEADLOCK FALSE
