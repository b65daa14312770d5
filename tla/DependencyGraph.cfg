SPECIFICATION GraphSpec
CONSTANTS
  AllTables = {a, b, c, d}
  RefGraphs <- MCRefGraphs
INVARIANTS
  ParentsEarlier
  LostWaitsForLost
PROPERTY
  OrderIsFound
CHECK_DEADLOCK FALSE
