\* Two timers in a three-ring wheel: shared slots, cascades through both outer
\* rings, callbacks between the visits of one slot.
CONSTANTS
  Timer = {t1, t2}
  SLOT = 2
  RING = 3
  Unit <- Unit2
  After = {1, 2, 5}
  ChangeTo = {3, 7}
  MaxTick = 10
SPECIFICATION Spec
SYMMETRY TimerSymmetry
INVARIANTS LinkedOnce VisitedInTime LeftMeansPending
PROPERTY ClockSpec
CHECK_DEADLOCK FALSE
