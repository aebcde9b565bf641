SPECIFICATION FairSpec
CONSTANTS
  Requests = {"delete"}
  Scripts = {"ok"}
  Signals = FALSE
  Settled = FALSE
  LossyRR = FALSE
  Unwinding = {}
  MaxNest = 2
PROPERTY RequestAnswered
CHECK_DEADLOCK FALSE
