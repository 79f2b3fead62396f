SPECIFICATION MCFairSpec
CONSTANTS
  MaxCalls = 2
  kMaxTasks = 2
  TickRange = 8
  CountRange = 8
  IdRange = 4
  Periods = {3}
  Delays = {2}
  MaxLatency = 1
  MaxLost = 1
  FollowBroken = FALSE
PROPERTY TasksFireAndRun
