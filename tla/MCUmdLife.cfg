\* One station, every command, the timers, a packet a session.  Commands and
\* packets stop, and the clock goes on until the last user could have left.
CONSTANTS
  Obj = {o1}
  Station <- OneStation
  Ip = {"ip1", "ip2"}
  TICKS = 1
  IDLE = 2
  FAKE = 2
  GCUSER = 2
  Autouser = TRUE
  Fakeable = TRUE
  Reauthable = TRUE
  Limits <- IdleLimits
  Dumps <- NoDumps
  PktLen = {3}
  Counters <- SomeCounters
  CliUntil = 4
  MaxTime = 14
  MaxFlow = 0
SPECIFICATION FairSpec
INVARIANTS LanIncludesWan UnboundHasNoIp TimeQuota
PROPERTIES EventsTell EventsNameIp NotCollectedEarly IdleUserLeaves
CHECK_DEADLOCK FALSE
