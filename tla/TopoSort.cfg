SPECIFICATION Spec
CONSTANTS
  NumObjs = 4
  MaxDeps = 2
  DepLists <- MCDepLists
INVARIANTS
  OutputRespectsDeps
  FailureIsExact
  InversionsJustified
CHECK_DEADLOCK FALSE
