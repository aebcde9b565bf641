SPECIFICATION FairSpec
CONSTANTS
  Requests = {"get", "api", "put", "delete", "reload"}
  Scripts = {"ok", "error"}
  Signals = FALSE
  Settled = TRUE
  LossyRR = FALSE
  Unwinding = {}
  MaxNest = 2
INVARIANTS
  DeletedIsGone
  ServerSurvives
PROPERTIES
  StartLeavesRunning
  PutReachesManager
  RequestAnswered
  ResumeReachesLoop
  ExitEndsLoop
  ImplementsAppService
CHECK_DEADLOCK FALSE
