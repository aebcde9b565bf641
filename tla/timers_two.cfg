SPECIFICATION Spec
CONSTANTS
  Tick = 4
  MaxWait = 6
  MaxExpiries = 10
  MaxTimers = 3
  Room = 10
  Below = 6
  Initial <- TwoTimers
  New = {}
  Effects = {}
  Slack = {1, 2}
  Late = {0, 1}
  Parks = {}
  MaxIds = 2
  MaxAge = 12
INVARIANT
  LooksUpInTable
CHECK_DEADLOCK FALSE
