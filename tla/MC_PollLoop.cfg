CONSTANTS
  Timers = {t1, t2}
  Orders = 3
  Fibers = {f1, f2}
  Descriptors = {d1}
  Awakers = {a1}
  Main = Main
  Nobody = Nobody
  Intervals <- IntervalSet
  Repeatable = {t2}
  Mishaps = {}
  MaxClock = 4
  MaxCalls = 3
SPECIFICATION FairSpec
INVARIANTS
  WheelExact
  SleepsIdle
PROPERTIES
  Served
  StopEnds
CHECK_DEADLOCK FALSE
