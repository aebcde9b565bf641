SPECIFICATION Spec
CONSTANTS
  Requests = {"put", "delete", "reload"}
  Scripts = {"ok", "error", "late", "fatal"}
  Signals = TRUE
  Settled = TRUE
  LossyRR = FALSE
  Unwinding = {"unwound", "skipped"}
  MaxNest = 2
INVARIANT DestroyAfterLoop
CHECK_DEADLOCK FALSE
