SPECIFICATION TagSpec
CONSTANTS
  Tag <- MCTag
  Value = {0, 1, 2}
  Plan <- MCPlan
  Scan = {1}
  App = {a1}
  Agent = {b1}
  Locks = TRUE
  MaxJob = 2
  MaxMishaps = 1
  MaxEdits = 1

PROPERTIES OrphansFree
CHECK_DEADLOCK FALSE
