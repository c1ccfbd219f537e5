SPECIFICATION FairSpec
CONSTANTS
  Track <- MCTrack
  Path <- MCPath
  Source = {"P", "Q"}
  Plans <- MCPlans
  Bytes = {0, 1, 2}
  NoPath = "none"
  Unattributed = 0
INVARIANTS
  TypeOK
  CompletedMeansEverything
  RemovalsWaitForPlaylists
  DeferredOnlyAfterRecording
PROPERTIES
  ProgressNeverGoesBack
  CancelStartsNoUnit
  OpensOnItsFirstStep
  EveryRunEnds
