SPECIFICATION Spec
CONSTANTS
  BatchLimit = 2
  Disconnects = FALSE
  MaxListens = 3
  MaxPlays = 0
  MaxWorkers = 2
  MaxFaults = 2
  MaxCrashes = 1
INVARIANTS
  ScrobbleTypeOK
  ListensStay
  CounterExact
  SubmittedOnce
  SubmittedInOrder
CHECK_DEADLOCK FALSE
