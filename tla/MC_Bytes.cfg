CONSTANTS
  alpha = alpha
  beta = beta
  Conts = {x, y}
  NoCont = NoCont
  Users = {u, v}
  Payloads <- Strings
  Byte = {alpha, beta}
  Junk = beta
  Counts = {1, 3}
  Cap = 2
  MaxSize = 3
  MaxChunks = 3
  Slips = {}
VIEW View
SYMMETRY Symmetry
SPECIFICATION Spec
INVARIANTS
  Consistent
PROPERTIES
  ImplementsFlat
CHECK_DEADLOCK FALSE
