\* Two users of one station, packets and documents of a peer, until limits of
\* volume are exceeded.  No time passes.
CONSTANTS
  Obj = {o1, o2}
  Station <- OneStation
  Ip = {"ip2"}
  TICKS = 1
  IDLE = 3
  FAKE = 2
  GCUSER = 3
  Autouser = TRUE
  Fakeable = TRUE
  Reauthable = TRUE
  Limits <- VolumeLimits
  Dumps <- PeerDumps
  PktLen = {1}
  Counters = {}
  CliUntil = 0
  MaxTime = 0
  MaxFlow = 1
SPECIFICATION Spec
SYMMETRY UserSymmetry
VIEW Unlogged
INVARIANTS LanIncludesWan FlowQuota
PROPERTIES BlockedStaysOut EventsTell
CHECK_DEADLOCK FALSE
