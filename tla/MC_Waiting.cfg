CONSTANTS
  Tasks = {t1, t2, t3}
  NoTask = NoTask
  m = m
  r = r
  s = s
  e = e
  f = f
  n = n
  p = p
  Objs = {m, s, e, f, n, p, r}
  Kind <- KindOf
  Depth = 2
  Waits <- AllWaits
  Scenes <- Programs
  MaxRecursion = 2
SPECIFICATION Spec
SYMMETRY Symmetry
INVARIANTS
  Exclusive
  Conserved
  NoLostWakeup
  LinksMatchWaiters
PROPERTIES
  WakesOne
CHECK_DEADLOCK FALSE
