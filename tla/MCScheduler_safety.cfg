SPECIFICATION MCSpec
CONSTANTS
  MaxCalls = 3
  kMaxTasks = 3
  TickRange = 16
  CountRange = 8
  IdRange = 12
  Periods = {2}
  Delays = {3}
  MaxLatency = 1
  MaxLost = 1
  FollowBroken = FALSE
INVARIANTS QueueIsSound NoTaskLost Armed WrapsAreHarmless
PROPERTY ImplementsLifecycle
