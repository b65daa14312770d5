SPECIFICATION Spec
CONSTANTS
  BatchSizes = {0, 3, 4}
  Parallelism = 2
  MaxMultiline = 1
  KeyColumns <- MCKeyColumns
  MaxFaults = 1
INVARIANTS
  ResultPartitions
  OnlyOffendersRejected
PROPERTIES
  NothingOutlivesCall
  StoreEnds
  KeepsContract
CHECK_DEADLOCK FALSE
