CONSTANTS
  Timers = {t1, t2}
  Orders = 3
  Fibers = {f1, f2}
  Descriptors = {}
  Awakers = {}
  Main = Main
  Nobody = Nobody
  Intervals <- IntervalSet
  Repeatable = {t2}
  Mishaps = {"stopsDue"}
  MaxClock = 3
  MaxCalls = 3
SPECIFICATION FairSpec
PROPERTIES
  TimersTick
CHECK_DEADLOCK FALSE
