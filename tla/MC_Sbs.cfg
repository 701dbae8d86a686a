CONSTANTS
  Subs = {s1, s2, s3}
  Acts = {a1, a2}
  Owners = {o1}
  Null = Null
SPECIFICATION Spec
SYMMETRY Symmetry
INVARIANTS
  DeletedInTime
PROPERTIES
  ImplementsSignal
CHECK_DEADLOCK FALSE
