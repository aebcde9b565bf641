SPECIFICATION Spec
CONSTANTS
  Tick = 4
  MaxWait = 6
  MaxExpiries = 10
  MaxTimers = 3
  Room = 10
  Below = 6
  Initial <- SomeTimers
  New <- Created
  Effects = {"clear", "throw"}
  Slack = {1}
  Late = {0, 5}
  Parks = {3, 8}
  MaxIds = 4
  MaxAge = 12
INVARIANTS
  TypeOK
  OneshotOnce
  NeverEarly
CHECK_DEADLOCK FALSE
