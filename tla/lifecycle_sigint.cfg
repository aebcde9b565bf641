SPECIFICATION FairSpec
CONSTANTS
  Requests = {"get", "api"}
  Scripts = {"ok"}
  Signals = TRUE
  Settled = TRUE
  LossyRR = FALSE
  Unwinding = {}
  MaxNest = 2
INVARIANT ForgottenOnSigint
PROPERTY SigintStopsServer
CHECK_DEADLOCK FALSE
