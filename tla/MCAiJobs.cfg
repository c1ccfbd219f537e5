SPECIFICATION FairAiSpec
CONSTANTS
  theName = theName
  Name = {theName}
  NameOf <- NamesShared
  Source = {s1}
  Worker = {w1, w2}
  Saver = {v1}
  Lease = 1
  MaxJob = 2
  MaxMishaps = 1
  MaxWishes = 1
INVARIANTS
  AiTypeOK
  LeaseProtects
  OneLivePerSource
  StagedUntilDecided
PROPERTIES
  PublishedOnce
  JobsEnd
CHECK_DEADLOCK FALSE
