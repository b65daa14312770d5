----------------------------- MODULE MCTopoSort -----------------------------
(* Every list of at most MaxDeps dependencies for every object.            *)
EXTENDS TopoSort

CONSTANT MaxDeps

MCDepLists == [Objs -> UNION {[1..n -> Objs] : n \in 0..MaxDeps}]
=============================================================================
