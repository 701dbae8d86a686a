CONSTANTS
  Tasks = {t1, t2, t3}
  Fibers = {f1, f2, f3}
  NoTask = NoTask
  NoFiber = NoFiber
SPECIFICATION FairSpec
INVARIANTS
  ListsAgree
  StoppedNeverHeld
PROPERTIES
  NeverEntered
  StopDelivered
  QueuedRuns
