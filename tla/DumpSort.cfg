SPECIFICATION Spec
CONSTANTS
  NumObjs = 15
  Kind <- MCKind
  Owner <- MCOwner
  Shell <- MCShell
  PostBound = 15
  MaxPasses = 12
  DepLists <- MCDepLists
INVARIANTS
  SortEnds
  PartsInPlace
PROPERTY
  CutsOnLoops
CHECK_DEADLOCK FALSE
