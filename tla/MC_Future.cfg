CONSTANTS
  a = a
  b = b
  c = c
  chain1 = chain1
  chain2 = chain2
  then1 = then1
  cancel1 = cancel1
  States = {a, b, c}
  Links = {chain1, chain2, then1}
  Cancels = {cancel1}
  Src <- SrcOf
  Dst <- DstOf
  NoState = NoState
  MaxHandles = 2
  Tame = TRUE
SPECIFICATION Spec
INVARIANTS
  Counted
  AssertsHold
  NoUseAfterDelete
  Settled
PROPERTIES
  ResolvedOnce
CHECK_DEADLOCK FALSE
