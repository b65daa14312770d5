----------------------------- MODULE MCServerDump -----------------------------
(***************************************************************************)
(* Small databases: every choice of tables, constraints and indexes from   *)
(* the pools below, and every choice of views, sequences, functions and    *)
(* extensions over all the tables; each dumped whole and for plans of one  *)
(* or two relations.                                                       *)
(***************************************************************************)
EXTENDS ServerDump

pa == <<"public", "a">>   \* has a homonym in s1
sa == <<"s1", "a">>
sb == <<"s1", "b">>
sp == <<"s2", "p">>       \* partitioned

Type(n)    == <<"type", n>>
OpClass(n) == <<"operator class", n>>
fa == <<"s1", "f">>   \* a function over table a of public
fh == <<"s1", "h">>   \* one that needs nothing

Table(id, kind, pk, uses) == [id |-> id, kind |-> kind, pk |-> pk, uses |-> uses]
TablePool == << Table(pa, "r", TRUE, {Type("ty")}), Table(sa, "r", TRUE, {}),
                Table(sb, "r", TRUE, {}), Table(sp, "p", TRUE, {}) >>

Con(id, table, type, ref, key, index, noInherit, uses) ==
  [id |-> id, table |-> table, type |-> type, ref |-> ref, key |-> key,
   index |-> index, noInherit |-> noInherit, uses |-> uses,
   inherited |-> FALSE, valid |-> TRUE]
Fk(id, table, ref, key) == Con(id, table, "f", ref, key, None, FALSE, {})
N(name) == <<"s1", name>>
ConPool == << Fk(N("f_pa_ix"), pa, sb, <<"s1", "ux">>),
              Con(N("c_sa"), sa, "c", None, None, None, TRUE, {Function(fh)}),
              Fk(N("f_sa_uk"), sa, sb, N("u_sb")),
              Con(N("c_sb"), sb, "c", None, None, None, FALSE, {Function(fa)}),
              Fk(N("f_sb_pa"), sb, pa, Primary),
              Fk(N("f_sb_sa"), sb, sa, Primary),
              Con(N("u_sb"), sb, "u", None, None, <<"s1", "uk">>, FALSE, {OpClass("oc")}),
              Fk(N("f_sp_sa"), sp, sa, Primary) >>
Index(id, table, unique, uses) ==
  [id |-> id, table |-> table, unique |-> unique, uses |-> uses]
IndexPool == << Index(<<"public", "ia">>, pa, FALSE, {OpClass("oc"), Function(fh)}),
                Index(<<"s1", "uk">>, sb, TRUE, {OpClass("oc")}),
                Index(<<"s1", "ux">>, sb, TRUE, {Function(fa)}) >>

View(name, uses) == [id |-> <<"s1", name>>, uses |-> uses]
ViewPool == << View("v1", {Rel(pa), Function(fh)}), View("v2", {Rel(<<"s1", "v3">>)}),
               View("v3", {Rel(sb)}) >>
Sequence(id, owner, identity) == [id |-> id, owner |-> owner, identity |-> identity]
SequencePool == << Sequence(<<"public", "q">>, pa, FALSE),
                   Sequence(<<"s1", "q">>, sb, TRUE),
                   Sequence(<<"s2", "q">>, None, FALSE) >>
Func(id, aggregate, uses) == [id |-> id, aggregate |-> aggregate, uses |-> uses]
FunctionPool == << Func(fa, FALSE, {Rel(pa)}), Func(<<"s1", "g">>, TRUE, {}),
                   Func(fh, FALSE, {}) >>

(* The second extension requires the first one and has a table.            *)
Ext  == [id |-> <<"s2", "e1">>, uses |-> {}, members |-> {Type("ty"), OpClass("oc")}]
Ext2 == [id |-> <<"public", "e2">>, uses |-> {Extension(Ext.id)}, members |-> {Rel(sa)}]

ChosenFrom(pool) ==
  {SelectSeq(pool, LAMBDA r : r.id \in S) : S \in SUBSET {r.id : r \in ToSet(pool)}}

Database(tables, cons, indexes, views, seqs, funcs, exts) ==
  [schemas |-> <<Default, "s1", "s2">>, tables |-> tables, cons |-> cons,
   indexes |-> indexes, views |-> views, seqs |-> seqs, funcs |-> funcs,
   exts |-> exts]

(* A catalogue PostgreSQL can hold: what is referenced exists, and a       *)
(* unique constraint has its index.                                        *)
Exists(tables, id) == \E t \in ToSet(tables) : t.id = id
Legal(d) ==
  /\ \A c \in ToSet(d.cons) :
       /\ Exists(d.tables, c.table)
       /\ c.type = "f" => /\ Exists(d.tables, c.ref)
                          /\ \/ c.key = Primary
                             \/ \E r \in ToSet(d.cons) : r.id = c.key
                             \/ \E x \in ToSet(d.indexes) : x.id = c.key
       /\ c.type = "u" => \E x \in ToSet(d.indexes) : x.id = c.index
  /\ \A x \in ToSet(d.indexes) :
       /\ Exists(d.tables, x.table)
       /\ x.id = <<"s1", "uk">> => \E c \in ToSet(d.cons) : c.type = "u"

KeyDatabases ==
  {d \in {Database(t, c, x, <<>>, <<>>, <<FunctionPool[1], FunctionPool[3]>>, <<Ext>>) :
            t \in ChosenFrom(TablePool), c \in ChosenFrom(ConPool),
            x \in ChosenFrom(IndexPool)} : Legal(d)}
(* A view of a view needs it.                                              *)
ViewChoices == {v \in ChosenFrom(ViewPool) :
                  (\E r \in ToSet(v) : r.id[2] = "v2") =>
                    \E r \in ToSet(v) : r.id[2] = "v3"}
ObjectDatabases ==
  {Database(TablePool, <<>>, <<>>, v, s, f, e) :
     v \in ViewChoices, s \in ChosenFrom(SequencePool), f \in ChosenFrom(FunctionPool),
     e \in {<<>>, <<Ext>>, <<Ext, Ext2>>}}
MCDatabases == KeyDatabases \cup ObjectDatabases

Relations == {pa, sa, sb}
Plans == {<<>>} \cup {<<r>> : r \in Relations} \cup {<<r, s>> : r, s \in Relations}
MCQueries == {[plan |-> p, views |-> v] :
                p \in Plans, v \in SUBSET {<<"s1", "v1">>, <<"s1", "v2">>}}
=============================================================================
