SPECIFICATION FairSnapshotSpec
CONSTANTS
  MaxRequests = 1
  MaxParts = 1
  Frames = 3
PROPERTIES
  SnapshotAnswered
CHECK_DEADLOCK FALSE
