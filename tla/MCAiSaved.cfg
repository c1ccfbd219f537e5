SPECIFICATION AiSpec
CONSTANTS
  theName = theName
  Name = {theName}
  NameOf <- NamesShared
  Source = {s1, s2}
  Worker = {w1}
  Saver = {v1}
  Lease = 0
  MaxJob = 2
  MaxMishaps = 0
  MaxWishes = 0
INVARIANTS
  SavedRenderStands
CHECK_DEADLOCK FALSE
