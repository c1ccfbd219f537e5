SPECIFICATION Spec
CONSTANTS
  BatchLimit = 2
  Disconnects = TRUE
  MaxListens = 2
  MaxPlays = 0
  MaxWorkers = 2
  MaxFaults = 0
  MaxCrashes = 0
INVARIANTS
  ListensStay
CHECK_DEADLOCK FALSE
