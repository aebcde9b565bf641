SPECIFICATION FairSpec
CONSTANTS
  Main = main
  Workers = {w1, w2}
  Apps = {a1}
  DeviceIds = {d1, d2}
  NoOne = NoOne
  Lossy = TRUE
  Crashes = TRUE
INVARIANTS
  TypeOK
  OneRequest
  OwnAnswer
  DeviceIsKnown
  RegisteredOnce
  AppsListed
  StartsAgain
PROPERTIES
  RequestReturns
  ImplementsAtomicRequests
CHECK_DEADLOCK FALSE
