SPECIFICATION Spec
CONSTANTS
  None = "none"
  Catalogs <- MCCatalogs
  Requests <- MCRequests
  Orders <- MCOrders
INVARIANTS ScriptOrder WrittenOnce SchemasCreated AttachedBeforeReferenced
CHECK_DEADLOCK FALSE
