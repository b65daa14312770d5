SPECIFICATION Spec
CONSTANTS
  RecordCount = 4
  BatchSize = 3
  Parallelism = 2
  MaxEmpty = 2
  MaxRetries = 2
  ValueRange = 6
  MaxFaults = 2
INVARIANTS
  RowAccounting
  PositionTracksRows
  StoredIsPublished
PROPERTY
  LoopEnds
CHECK_DEADLOCK FALSE
