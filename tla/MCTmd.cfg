\* Two names, one-shot, limited and endless timers.  Commands stop early enough
\* for every limited timer to run out before the clock does.
CONSTANTS
  Timer = {n1, n2}
  Span = 100
  Delays <- SignedDelays
  Intervals = {0, 1, 2}
  Limits = {0, 1, 2}
  MaxSec = 10
  CliUntil = 2
  MaxTick = 7
SPECIFICATION FairSpec
INVARIANTS ArmedIsLive LiveIsArmed NoDrift OutInTime
PROPERTY RunsOut
CHECK_DEADLOCK FALSE
