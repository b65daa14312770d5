SPECIFICATION Spec
CONSTANTS
  Tables = {t1, t2, t3}
  Scripts <- MCScripts
  None = None
  MaxThreads = 2
  MaxCopies = 3
INVARIANTS
  CopyNeverWaits
  ScriptApplied
PROPERTY
  AnalyzeReached
CHECK_DEADLOCK FALSE
