SPECIFICATION Spec
CONSTANTS
  Pair = 3
  Segments = {1, 6}
  Documents = {0, 8}
  ChatHistories = {0, 4}
  MaxPairs = 3
  MaxSegments = 2
  Batch = 4
  Budget = 11
  Warn = 10
  AutoMin = 4
  MaxTurns = 5
  MaxRuns = 1
  MaxTypings = 1
  MaxFaults = 1
INVARIANTS BusyIsTheRun GaugeFollowsTheStore
PROPERTIES NothingUnasked EveryEndIsShown
CHECK_DEADLOCK FALSE
