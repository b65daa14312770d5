SPECIFICATION Spec
CONSTANTS
  RecordCount = 4
  BatchSize = 3
  Parallelism = 2
  MaxEmpty = 1
  MaxRetries = 1
  ValueRange = 5
  MaxFaults = 0
INVARIANT
  PublishedIsStored
CHECK_DEADLOCK FALSE
