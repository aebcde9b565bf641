SPECIFICATION Spec
CONSTANTS
  Tick = 4
  MaxWait = 6
  MaxExpiries = 10
  MaxTimers = 3
  Room = 10
  Below = 6
  Initial <- AgentTimers
  New = {}
  Effects = {}
  Slack = {1, 2}
  Late = {0, 1}
  Parks = {}
  MaxIds = 1
  MaxAge = 36
INVARIANTS
  SteadyInterval
  LooksUpInTable
PROPERTIES
  TimersRun
CHECK_DEADLOCK FALSE
