SPECIFICATION TagSpec
CONSTANTS
  Tag <- MCOneTag
  Value = {0, 1}
  Plan <- MCOnePlan
  Scan = {1}
  App = {a1}
  Agent = {b1}
  Locks = FALSE
  MaxJob = 3
  MaxMishaps = 1
  MaxEdits = 1
INVARIANTS SlotHeld
CHECK_DEADLOCK FALSE
