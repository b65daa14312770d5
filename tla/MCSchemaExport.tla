--------------------------- MODULE MCSchemaExport ---------------------------
(***************************************************************************)
(* A database with one of each kind of object the exporter reads, wired    *)
(* the way pg_depend records them, and the configurations of a run.        *)
(***************************************************************************)
EXTENDS SchemaExport, SequencesExt

(* Objects of user schemas need their schema.                              *)
Top(type, kind, ns, needs) ==
  [type |-> type, kind |-> kind, ns |-> ns, ext |-> None, of |-> None,
   parents |-> {}, needs |-> needs \cup ({ns} \ {None, "cat", "sys"}),
   facts |-> {}]

Part(type, kind, ns, of, needs) ==
  [Top(type, kind, ns, needs) EXCEPT !.of = of]

(* Made by the exporter itself: pg_depend knows nothing of it.             *)
Made(type, kind, ns, of) == [Part(type, kind, ns, of, {}) EXCEPT !.needs = {}]

Is_(row, facts)  == [row EXCEPT !.facts = facts]
Under(row, up)   == [row EXCEPT !.parents = up]
Member(row)      == [row EXCEPT !.ext = "ext"]
Table(kind, ns, needs) == Top("table", kind, ns, needs)
Func(needs)      == Top("func", "", "s", needs)
Global(type)     == Top(type, "", None, {})
InS(type)        == Top(type, "", "s", {})

Schemas == <<
  <<"ext", Top("extension", "", None, {"pub"})>>,
  <<"plpgsql", Is_(Global("extension"), {"builtin"})>>,
  <<"pub", Is_(Top("namespace", "public", None, {}), {"default owner", "granted"})>>,
  <<"s", Is_(Top("namespace", "user", None, {}), {"acl", "granted"})>>,
  <<"w", Top("namespace", "user", None, {})>>,
  <<"x", Member(Top("namespace", "user", None, {}))>>,
  <<"cat", Top("namespace", "catalog", None, {})>>,
  <<"sys", Top("namespace", "system", None, {})>> >>

(* Type and input function in a loop; a domain whose check uses it.        *)
TypesAndFuncs == <<
  <<"base", Is_(Top("type", "base", "s", {"base in"}), {"acl", "granted"})>>,
  <<"base shell", Made("shell", "", "s", "base")>>,
  <<"base in", Func({"base"})>>,
  <<"base[]", Top("type", "array", "s", {"base"})>>,
  <<"enum", Top("type", "enum", "s", {})>>,
  <<"range", Top("type", "range", "s", {})>>,
  <<"range shell", Made("shell", "", "s", "range")>>,
  <<"pseudo", Is_(Top("type", "pseudo", "s", {}), {"undefined"})>>,
  <<"composite", Top("type", "composite", "s", {"base"})>>,
  <<"composite class",
    Part("table", "composite", "s", "composite", {"composite"})>>,
  <<"dom", Top("type", "domain", "s", {"base"})>>,
  <<"dom check",
    Is_(Part("constraint", "check", "s", "dom", {"dom"}), {"validated"})>>,
  <<"dom late check", Part("constraint", "check", "s", "dom", {"dom"})>>,
  <<"dom loop check",
    Is_(Part("constraint", "check", "s", "dom", {"dom", "of dom"}), {"validated"})>>,
  <<"of dom", Func({"dom", "lang"})>>,
  <<"lang", Is_(Global("language"), {"trusted", "acl", "granted"})>>,
  <<"plain lang", Is_(Global("language"), {"acl", "granted"})>>,
  <<"sql", Is_(Global("language"), {"builtin"})>>,
  <<"cat func", Top("func", "", "cat", {})>>,
  <<"cast", Top("cast", "", None, {"cat func"})>>,
  <<"transform", Top("transform", "", None, {"of dom", "lang"})>>,
  <<"agg", Is_(Top("agg", "", "s", {"base in"}), {"acl", "granted"})>>,
  <<"op", Top("operator", "", "s", {"base in"})>>,
  <<"declared op", Is_(InS("operator"), {"undefined"})>>,
  <<"am", Global("access method")>>,
  <<"heap", Is_(Global("access method"), {"builtin"})>>,
  <<"opfamily", Top("opfamily", "", "s", {"am"})>>,
  <<"opclass", Top("opclass", "", "s", {"opfamily", "base"})>>,
  <<"collation", InS("collation")>>,
  <<"conversion", InS("conversion")>>,
  <<"parser", InS("parser")>>,
  <<"template", InS("template")>>,
  <<"dictionary", Top("dictionary", "", "s", {"template"})>>,
  <<"text config", Top("text config", "", "s", {"parser", "dictionary"})>>,
  <<"fdw", Is_(Global("fdw"), {"acl", "granted"})>>,
  <<"server", Is_(Top("server", "", None, {"fdw"}), {"acl", "granted", "mapped"})>>,
  <<"default acl", InS("default acl")>>,
  <<"event trigger", Top("event trigger", "", None, {"of dom"})>> >>

(* t: a serial, an identity and a generated column, checks that are inline *)
(* or in a loop through the row type; ch inherits from it.                 *)
TheTable == <<
  <<"t", Is_(Table("table", "s", {"base"}), {"acl", "granted"})>>,
  <<"t row", Part("type", "row", "s", "t", {"t"})>>,
  <<"of t", Func({"t row"})>>,
  <<"t seq", Is_(Part("table", "sequence", "s", "t", {"t"}), {"acl", "granted"})>>,
  <<"t identity", Is_(Part("table", "sequence", "s", "t", {"t"}), {"identity"})>>,
  <<"free seq", Table("sequence", "s", {})>>,
  <<"t default", Part("attrdef", "default", "s", "t", {"t", "t seq"})>>,
  <<"t plain default", Part("attrdef", "default", "s", "t", {"t"})>>,
  <<"t generated", Part("attrdef", "generated", "s", "t", {"t"})>>,
  <<"t check", Is_(Part("constraint", "check", "s", "t", {"t"}), {"validated"})>>,
  <<"t loop check",
    Is_(Part("constraint", "check", "s", "t", {"t", "of t"}), {"validated"})>>,
  <<"t late check", Part("constraint", "check", "s", "t", {"t"})>>,
  <<"t key", Under(Part("constraint", "p", "s", "t", {"t"}), {"t key index"})>>,
  <<"t key index", Part("index", "", "s", "t", {"t", "t key"})>>,
  <<"t index", Part("index", "", "s", "t", {"t"})>>,
  <<"t statistics", Part("statistics", "", "s", "t", {"t"})>>,
  <<"t trigger", Part("trigger", "", "s", "t", {"t", "of t"})>>,
  <<"t rule", Part("rule", "other", "s", "t", {"t"})>>,
  <<"t rls", Part("policy", "rls", "s", "t", {"t"})>>,
  <<"t policy", Part("policy", "policy", "s", "t", {"t"})>>,
  <<"ch", Under(Table("table", "w", {"t"}), {"t"})>>,
  <<"ch late check",
    Is_(Part("constraint", "check", "w", "ch", {"ch"}), {"inherited"})>>,
  <<"ch null", Under(Made("attrdef", "null", "w", "ch"), {"t plain default"})>>,
  <<"ch hidden null",
    Under(Is_(Made("attrdef", "null", "w", "ch"), {"hidden"}), {"t default"})>>,
  <<"ch generated",
    Under(Is_(Part("attrdef", "generated", "w", "ch", {"ch"}), {"same"}), {"t generated"})>>,
  <<"ch to t", Under(Part("fk", "", "w", "ch", {"ch", "t", "t key index"}), {"t"})>>,
  <<"publication", Global("publication")>>,
  <<"t published", Part("publication table", "", "s", "t", {"t", "publication"})>>,
  <<"s published", Part("publication schema", "", None, "s", {"s", "publication"})>>,
  <<"subscription", Global("subscription")>> >>

(* Views: plain, in a loop, over a materialized view that needs t's key;   *)
(* functions that need the key, and the rows of the materialized view.     *)
Views == <<
  <<"v", Table("view", "w", {})>>,
  <<"v query", Part("rule", "select", "w", "v", {"v", "t"})>>,
  <<"v default", Part("attrdef", "default", "w", "v", {"v"})>>,
  <<"loop view", Table("view", "s", {})>>,
  <<"loop row", Part("type", "row", "s", "loop view", {"loop view"})>>,
  <<"of loop view", Func({"loop row"})>>,
  <<"loop query", Part("rule", "select", "s", "loop view", {"loop view", "of loop view"})>>,
  <<"mv", Table("matview", "s", {})>>,
  <<"mv row", Part("type", "row", "s", "mv", {"mv"})>>,
  <<"mv query", Part("rule", "select", "s", "mv", {"mv", "t", "t key"})>>,
  <<"mv index", Part("index", "", "s", "mv", {"mv"})>>,
  <<"plain mv", Table("matview", "s", {})>>,
  <<"plain query", Part("rule", "select", "s", "plain mv", {"plain mv", "t"})>>,
  <<"over mv", Table("view", "s", {})>>,
  <<"over query", Part("rule", "select", "s", "over mv", {"over mv", "mv"})>>,
  <<"of key", Func({"t key"})>>,
  <<"of mv", Func({"mv row"})>> >>

(* pt is partitioned twice over, with a key and a plain index throughout;  *)
(* the foreign tables and the configuration tables of the extension.       *)
OtherTables == <<
  <<"pt", Table("partitioned", "s", {})>>,
  <<"p1", Is_(Under(Table("partitioned", "s", {}), {"pt"}), {"partition"})>>,
  <<"p2", Is_(Under(Table("table", "s", {}), {"p1"}), {"partition"})>>,
  <<"p1 attach", Made("table attach", "", "s", "p1")>>,
  <<"p2 attach", Made("table attach", "", "s", "p2")>>,
  <<"p2 key", Under(Part("constraint", "p", "s", "p2", {"p2", "p1 key"}), {"p2 key index"})>>,
  <<"p1 key", Under(Part("constraint", "p", "s", "p1", {"p1", "pt key"}), {"p1 key index"})>>,
  <<"pt key", Under(Part("constraint", "p", "s", "pt", {"pt"}), {"pt key index"})>>,
  <<"pt key index", Part("index", "", "s", "pt", {"pt", "pt key"})>>,
  <<"p1 key index", Part("index", "", "s", "p1", {"p1", "p1 key", "pt key index"})>>,
  <<"p2 key index", Part("index", "", "s", "p2", {"p2", "p2 key", "p1 key index"})>>,
  <<"p2 key attach", Under(Made("index attach", "", "s", "p2 key index"), {"p1 key index"})>>,
  <<"p1 key attach", Under(Made("index attach", "", "s", "p1 key index"), {"pt key index"})>>,
  <<"pt index", Part("index", "", "s", "pt", {"pt"})>>,
  <<"p1 index", Part("index", "", "s", "p1", {"p1", "pt index"})>>,
  <<"p1 index attach", Under(Made("index attach", "", "s", "p1 index"), {"pt index"})>>,
  <<"t to pt", Under(Part("fk", "", "s", "t", {"t", "pt", "pt key index"}), {"pt"})>>,
  <<"foreign", Table("foreign", "s", {"server"})>>,
  <<"conf", Is_(Member(Table("table", "pub", {})), {"config", "acl", "granted"})>>,
  <<"conf parent", Is_(Member(Table("table", "x", {})), {"config"})>>,
  <<"conf key", Under(Part("fk", "", "pub", "conf", {"conf", "conf parent"}), {"conf parent"})>>,
  <<"conf data", Made("table data", "", "pub", "conf")>>,
  <<"conf parent data", Made("table data", "", "x", "conf parent")>>,
  <<"in x", Table("table", "x", {})>>,
  <<"in cat", Table("table", "cat", {})>>,
  <<"in sys", Table("table", "sys", {})>>,
  <<"pre boundary", Global("pre boundary")>>,
  <<"post boundary", Global("post boundary")>> >>

Listing == Schemas \o TypesAndFuncs \o TheTable \o Views \o OtherTables

MCCatalogs ==
  {[o \in {Listing[i][1] : i \in DOMAIN Listing} |->
      Listing[CHOOSE i \in DOMAIN Listing : Listing[i][1] = o][2]]}

MCOrders ==
  LET place == [o \in {Listing[i][1] : i \in DOMAIN Listing} |->
                 CHOOSE i \in DOMAIN Listing : Listing[i][1] = o]
  IN {place, [o \in DOMAIN place |-> -place[o]]}

Database(noChecks, noExts, indexFile, superuser) ==
  [analyzed |-> FALSE, named |-> FALSE, tables |-> {}, views |-> {},
   noChecks |-> noChecks, noExts |-> noExts, indexFile |-> indexFile,
   superuser |-> superuser]

Query(named, tables, views) ==
  [Database(FALSE, FALSE, TRUE, TRUE) EXCEPT
     !.analyzed = TRUE, !.named = named, !.tables = tables, !.views = views]

(* The database, and queries: over tables and views, over one partition,   *)
(* over no table, and over names that match none.                          *)
MCRequests ==
  {Database(c, e, i, u) : c, e, i, u \in BOOLEAN}
  \cup {Query(TRUE, t, {}) : t \in {{"t"}, {"ch"}, {"p2"}, {"conf"}, {"t", "p2"}, {"t", "pt", "p2"},
                              {"t", "ch", "pt", "p1", "p2"}}}
  \cup {Query(TRUE, {"t"}, v) : v \in {{"v"}, {"mv", "over mv"}}}
  \cup {Query(FALSE, {}, {}), Query(TRUE, {}, {})}
=============================================================================
