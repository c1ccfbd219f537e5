SPECIFICATION Spec
CONSTANTS
  BatchLimit = 1
  Disconnects = TRUE
  MaxListens = 2
  MaxPlays = 1
  MaxWorkers = 2
  MaxFaults = 1
  MaxCrashes = 0
INVARIANTS
  CounterExact
PROPERTIES
  ListensGetThrough
  StoppedWorkersEnd
CHECK_DEADLOCK FALSE
