CONSTANTS
  a = a
  b = b
  Edges = {a, b}
  Quota <- Collision
SPECIFICATION Spec
INVARIANTS
  NoFails
CHECK_DEADLOCK FALSE
