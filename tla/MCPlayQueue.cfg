SPECIFICATION Spec
CONSTANTS
  Track <- MCTrack
  Lists <- MCLists
  Batches <- MCBatches
  Snapshots <- MCSnapshots
  MaxLength = 4
  Revisions = 2
INVARIANTS
  QueueTypeOK
  PassesVisitWhatPlays
PROPERTIES
  ImplementsPlayOrder
  RevisionTellsOrders
