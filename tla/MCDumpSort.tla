----------------------------- MODULE MCDumpSort -----------------------------
(* One object of each kind that repairDependencyLoop knows, wired as       *)
(* getRules, getTableAttrs, getDomainConstraints and                       *)
(* addBoundaryDependencies wire them, and every choice among dependencies  *)
(* that pg_depend may add between them.                                    *)
EXTENDS DumpSort

ty == 1
shell == 2
f == 3
v == 4
r == 5
m == 6
rm == 7
t == 8
c == 9
d == 10
dom == 11
dc == 12
pk == 13
pre == 14
post == 15

MCKind == <<"type", "shell", "func", "view", "rule", "matview", "rule",
            "table", "check", "attrdef", "type", "domaincheck", "pkey",
            "pre", "post">>
MCOwner == <<0, 0, 0, 0, v, 0, m, 0, t, t, 0, dom, t, 0, 0>>
MCShell == <<shell, 0, 0, 0, 0, 0, 0, 0, 0, 0, 0, 0, 0, 0, 0>>

Wired ==
  {<<v, r>>, <<r, v>>, <<m, rm>>, <<rm, m>>, <<t, c>>, <<c, t>>,
   <<t, d>>, <<d, t>>, <<dom, dc>>, <<dc, dom>>, <<pk, t>>, <<pk, post>>,
   <<post, pre>>}
  \cup {<<pre, o>> : o \in {ty, shell, f, v, m, t, d, dom}}

(* What pg_depend may add: the input function of a type, expressions that  *)
(* call a function over a row type or a domain, queries grouped by a       *)
(* primary key, columns of a row type.                                     *)
Possible ==
  {{<<ty, f>>, <<f, ty>>}, {<<r, f>>, <<f, v>>}, {<<c, f>>, <<f, t>>},
   {<<dc, f>>, <<f, dom>>}, {<<d, f>>}, {<<rm, f>>}, {<<f, m>>},
   {<<rm, pk>>}, {<<r, pk>>}, {<<f, pk>>}, {<<t, v>>}, {<<t, m>>}}

Lists(graph) == [o \in Objs |-> Ascending({p \in Objs : <<o, p>> \in graph})]
MCDepLists == {Lists(Wired \cup UNION more) : more \in SUBSET Possible}
=============================================================================
