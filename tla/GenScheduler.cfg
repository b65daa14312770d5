SPECIFICATION Spec
CONSTANTS
  a1 = a1
  a2 = a2
  a3 = a3
  a4 = a4
  a5 = a5
  b1 = b1
  b2 = b2
  Main = Main
  Nobody = Nobody
  Workers = {w1, w2, w3}
  Permits = 2
  Levels <- MCLevels
  Parents <- MCParents
INVARIANTS
  PermitBound
  LevelBarrier
  ResultIsTrue
  QuietAtEnd
PROPERTIES
  KeepsPromise
  MainEnds
CHECK_DEADLOCK FALSE
