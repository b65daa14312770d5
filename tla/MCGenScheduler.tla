--------------------------- MODULE MCGenScheduler ---------------------------
(* Three components: two parents with two children and a grandchild, a     *)
(* chain of two tables, and one that is a cycle and has no level at all.   *)
EXTENDS GenScheduler, TLC

CONSTANTS a1, a2, a3, a4, a5, b1, b2

MCLevels == << <<{a1, a2}, {a3, a4}, {a5}>>, <<{b1}, {b2}>>, <<>> >>
MCParents == (a1 :> {}) @@ (a2 :> {}) @@ (a3 :> {a1, a2}) @@ (a4 :> {a2})
               @@ (a5 :> {a3}) @@ (b1 :> {}) @@ (b2 :> {b1})
=============================================================================
