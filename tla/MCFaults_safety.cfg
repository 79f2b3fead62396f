SPECIFICATION MCSpec
CONSTANTS
  Running = {"runtime", "protections"}
  Boards = {a, b}
  Links = {{a, b}}
  OpStates = {idle, run}
  InitialState = idle
  Timed = {idle, run}
  Causes = {"PANIC"}
  max_propagation_targets = 1
  MaxBreaks = 1
  Erratic = {a}
  a = a
  b = b
  idle = idle
  run = run
  Declared <- TwoProtections
  Samples <- AllSamples
  NaN = NaN
  None = None
  notify_delay = 3
  events_capacity = 2
  MaxTime = 4
  MaxElapse = 3
INVARIANTS
  FaultIsEntered OnlyCurrentActionsRun OneOrderPerPeer
  FaultsAreReported HubKnowsState TimeIsMeasured
PROPERTIES FirstCauseKept PendingIsRetried RequestsAreSpaced
