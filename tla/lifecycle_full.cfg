SPECIFICATION Spec
CONSTANTS
  Requests = {"get", "api", "put", "delete", "reload"}
  Scripts = {"ok", "error", "late", "fatal"}
  Signals = TRUE
  Settled = FALSE
  LossyRR = TRUE
  Unwinding = {"unwound", "skipped"}
  MaxNest = 2
INVARIANTS
  TypeOK
  FinishedHoldsNothing
  CallbacksAlone
CHECK_DEADLOCK FALSE
