SPECIFICATION Spec
CONSTANTS
  Services = {"normal", "deamon"}
  Deamons = {"deamon"}
  Pids <- TwoPids
INVARIANT FreedIsUnlinked
