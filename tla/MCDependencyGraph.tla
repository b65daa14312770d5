-------------------------- MODULE MCDependencyGraph --------------------------
(* Every graph of foreign keys over the tables of the configuration.       *)
EXTENDS DependencyGraph

MCRefGraphs == SUBSET (AllTables \X AllTables)
=============================================================================
