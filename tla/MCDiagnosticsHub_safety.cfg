SPECIFICATION MCSpec
CONSTANTS
  max_sinks = 2
  history_capacity = 2
  pending_capacity = 2
  RecordNumbers = {2}
  MaxRecords = 3
  MaxToggles = 2
  MaxStops = 1
  FollowInterrupted = FALSE
INVARIANTS QueueIsSound TakenOnce NothingLost
PROPERTY SinksAreServed
