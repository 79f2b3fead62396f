SPECIFICATION MCSpec
CONSTANTS
  max_sinks = 2
  history_capacity = 2
  pending_capacity = 2
  RecordNumbers = {1, 3}
  MaxRecords = 4
  MaxToggles = 2
  MaxStops = 0
  FollowInterrupted = TRUE
INVARIANT MarksAreTrue
