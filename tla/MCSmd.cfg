SPECIFICATION FairSpec
CONSTANTS
  Services = {"normal", "deamon"}
  Deamons = {"deamon"}
  Pids <- TwoPids
INVARIANTS
  NoDouble
  SonsAreKnown
PROPERTIES
  Respawned
