SPECIFICATION Spec
CONSTANTS
  Tables <- MCTables
  ParentRuns <- MCParentRuns
  Fresh <- MCFresh
  BatchSize = 2
  MaxBatches = 3
  Null = 0
INVARIANT
  KeyTuplesMatch
CHECK_DEADLOCK FALSE
