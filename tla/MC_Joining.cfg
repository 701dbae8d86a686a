SPECIFICATION JoiningSpec
CONSTANTS
  Ids = {p}
  Needers = {h}
  Weights = {0, 1}
  MaxSats = 2
  MaxBans = 1
  NoNeed = NoNeed
  Nobody = Nobody
  Sessions = {v, w}
  Strangers = {s}
  Anyone = Anyone
  Pending = Pending
  Failed = Failed
  Down = Down
INVARIANTS PrioritiesFollow ToldClosedOnce SatisfiedArePursued OnlinesAreUp JoinsAreServed
PROPERTIES Pursued
CHECK_DEADLOCK FALSE
