SPECIFICATION Spec
CONSTANTS
  Main = main
  Workers = {w1}
  Apps = {a1}
  DeviceIds = {d1, d2}
  NoOne = NoOne
  Lossy = TRUE
  Crashes = FALSE
INVARIANT NeverStale
CHECK_DEADLOCK FALSE
