CONSTANTS
  t1 = t1
  Tasks = {t1, t2}
  Fibers = {f1, f2}
  NoTask = NoTask
  NoFiber = NoFiber
  Owners = {o1, o2}
  NoOwner = NoOwner
  Programs <- ThreePrograms
  MaxCount = 3
SPECIFICATION FairOwnerSpec
INVARIANTS
  OwnersAgree
  StopReachesAll
PROPERTIES
  StopWaits
  WaitReturns
CHECK_DEADLOCK FALSE
