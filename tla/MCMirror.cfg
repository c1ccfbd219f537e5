SPECIFICATION SyncSpec
CONSTANTS
  Track <- MCTrack
  Path <- MCPath
  Source <- MCSource
  Plans = {}
  Bytes = {0}
  NoPath = NoPath
  Unattributed = 0
  Stem <- MCStem
  Profile <- MCProfile
  Original = "original"
  Lossless <- MCLossless
  Extension <- MCExtension
  CueFile <- MCCueFile
  Version = {1, 2}
  Libraries <- MCLibraries
  Scenarios <- MirrorScenarios
INVARIANTS
  SyncTypeOK
  CompletedMirrors
  CompletedContent
  CalmRunCompletes
  CompletedConverges
PROPERTIES
  ManagedListsKeepTheirFiles
  PublishedListsNameFiles
  DesiredFilesSurvive
  RetainedFilesSurvive
