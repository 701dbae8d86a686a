CONSTANTS
  a = a
  b = b
  Edges = {a, b}
  Quota <- OneCancel
SPECIFICATION FairSpec
INVARIANTS
  NoFails
  LinksPair
PROPERTIES
  Answered
CHECK_DEADLOCK FALSE
