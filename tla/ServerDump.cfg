SPECIFICATION Spec
CONSTANTS
  Databases <- MCDatabases
  Queries <- MCQueries
  NoQuery = NoQuery
  None = None
INVARIANTS
  EveryTableWritten
  MadeOnce
  CoreReplays
PROPERTY
  ScriptEnds
CHECK_DEADLOCK FALSE
