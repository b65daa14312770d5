-------------------------- MODULE SchemaSelection --------------------------
(***************************************************************************)
(* getSchemaData of app/pg_ozerki/get_schema.c, and getDependencies and    *)
(* addBoundaryDependencies of app/pg_ozerki/pg_ozerki.c: which catalogue   *)
(* objects the exporter reads, which components of each it marks to be     *)
(* dumped, and the dependencies it records for the sort (module DumpSort). *)
(*                                                                         *)
(* The readers run one after the other and each may change what an earlier *)
(* one decided, so the order of Steps is part of what is modelled.         *)
(***************************************************************************)
EXTENDS Integers, Sequences, FiniteSets

CONSTANTS
  None,      \* no object
  Catalogs,  \* the databases: what each says of its objects, see Row
  Requests   \* the configurations of a run: see Request

Types == {"namespace", "extension", "type", "shell", "func", "agg",
          "operator", "access method", "opclass", "opfamily", "collation",
          "conversion", "table", "table attach", "attrdef", "index",
          "index attach", "statistics", "rule", "trigger", "constraint",
          "fk", "language", "cast", "transform", "table data", "parser",
          "dictionary", "template", "text config", "fdw", "server",
          "default acl", "event trigger", "policy", "publication",
          "publication table", "publication schema", "subscription",
          "pre boundary", "post boundary"}

(* DUMP_COMPONENT_ALL, without the comments and security labels, of which  *)
(* the exporter writes none.                                               *)
ALL == {"DEFINITION", "DATA", "ACL", "POLICY", "USERMAP"}

(* The row of an object: its DO_ type and the subdivision the code tests   *)
(* (relkind, typtype, contype, ...), schema, owning extension, the object  *)
(* it is part of, the ones it inherits from, attaches to or references,    *)
(* its pg_depend entries and the flags of its row that are set.            *)
Row(objects) ==
  [type : Types, kind : STRING, ns : objects \cup {None},
   ext : objects \cup {None}, of : objects \cup {None},
   parents : SUBSET objects, needs : SUBSET objects, facts : SUBSET STRING]

(* analyzed: a query was given; named: tableCount > 0; tables and views:   *)
(* table_include_oids and viewOids.                                        *)
Request(objects) ==
  [analyzed : BOOLEAN, named : BOOLEAN, tables : SUBSET objects,
   views : SUBSET objects, noChecks : BOOLEAN, noExts : BOOLEAN,
   indexFile : BOOLEAN, superuser : BOOLEAN]

(* The types of objects that are part of another one, and of that one;     *)
(* their readers give them the schema of it.                               *)
PartOf ==
  {<<"shell", "type">>, <<"constraint", "type">>, <<"index attach", "index">>}
  \cup {"table attach", "attrdef", "constraint", "index", "rule", "trigger",
        "fk", "policy", "publication table", "table data"} \X {"table"}

(* What the catalogues of PostgreSQL say of any object.                    *)
WellFormed(c) ==
  \A o \in DOMAIN c :
    LET row == c[o] IN
    /\ row.ns # None => c[row.ns].type = "namespace"
    /\ row.type \in {"type", "table"} => row.ns # None
    /\ row.type \in {"namespace", "extension", "language", "access method",
                     "publication schema"} => row.ns = None
    /\ row.ext # None => c[row.ext].type = "extension"
    /\ (\E pair \in PartOf : pair[1] = row.type) =>
         /\ row.of # None /\ <<row.type, c[row.of].type>> \in PartOf
         /\ row.ns = c[row.of].ns
    /\ row.kind = "composite" /\ row.of # None => c[row.of].type = "type"
    /\ row.kind = "sequence" /\ row.of # None => c[row.of].type = "table"
    /\ row.type = "table" => \A p \in row.parents : c[p].type = "table"
    /\ row.type = "index attach" => \A p \in row.parents : c[p].type = "index"
    /\ row.type = "namespace" => row.needs = {}
    /\ row.type = "extension" =>
         \A p \in row.needs : c[p].type \in {"namespace", "extension"}

ASSUME CatalogAssumption ==
  \A c \in Catalogs :
    /\ IsFiniteSet(DOMAIN c) /\ None \notin DOMAIN c
    /\ c \in [DOMAIN c -> Row(DOMAIN c)]
    /\ WellFormed(c)
    /\ Requests \subseteq Request(DOMAIN c)

VARIABLES
  catalog,     \* the objects of the database, and those made for the export
  request,     \* the configuration of this run
  step,        \* the reader to run next
  members,     \* objects recorded as members of an extension
  made,        \* objects AssignDumpId was called for
  dump,        \* dobj.dump
  contains,    \* dobj.dump_contains
  interesting, \* tables whose columns, indexes, ... are read
  separate,    \* attrdefs, constraints and rules to be dumped on their own
  deps         \* dependencies: <<o, p>> when o must come after p

marks  == <<members, made, dump, contains, interesting, separate, deps>>
selectionVars == <<catalog, request, step, marks>>

Objects   == DOMAIN catalog

Kind(o)   == catalog[o].kind
Of(o)     == catalog[o].of
Is(o, f)  == f \in catalog[o].facts
Rows(types) == {o \in Objects : catalog[o].type \in types}
Tables    == Rows({"table"})

Defined(o) == "DEFINITION" \in dump[o]

(* The order getSchemaData calls its readers in, then main's own steps.    *)
Steps == <<"extensions", "membership", "namespaces", "tables", "sequences",
  "funcs", "types", "languages", "aggregates", "operators",
  "access methods", "opclasses", "opfamilies", "parsers", "templates",
  "dictionaries", "text configs", "fdws", "servers", "default acls",
  "collations", "conversions", "casts", "transforms", "event triggers",
  "extension tables", "inherited tables", "attributes",
  "inherited attributes", "indexes", "inherited indexes", "statistics",
  "constraints", "triggers", "rules", "policies", "publications",
  "publication tables", "publication schemas", "subscriptions",
  "mark views", "mark schemas", "dependencies", "boundaries">>

StepOf(name) == CHOOSE i \in DOMAIN Steps : Steps[i] = name
Selected == step > Len(Steps)

(* With a query that names no table, only the schemas are read.            *)
NothingNamed == request.analyzed /\ ~request.named

Turn(name) ==
  /\ step = StepOf(name)
  /\ step' = IF name = "namespaces" /\ NothingNamed
               THEN StepOf("dependencies") ELSE step + 1
  /\ UNCHANGED <<catalog, request>>

SelectionInit ==
  /\ catalog \in Catalogs /\ request \in Requests
  /\ step = 1
  /\ members = {} /\ made = {} /\ interesting = {} /\ separate = {}
  /\ dump = [o \in Objects |-> {}] /\ contains = [o \in Objects |-> {}]
  /\ deps = {}

-----------------------------------------------------------------------------
(* The policy routines: which components to dump.                          *)

(* checkExtensionMembership: a member gets no more than ACL changes.       *)
MemberMask(o) == contains[catalog[o].ext] \cap {"ACL"}

MemberDeps(new) == {<<o, catalog[o].ext>> : o \in new \cap members}

(* All the "select" routines below let membership override all else.       *)
UnlessMember(o, mask) == IF o \in members THEN MemberMask(o) ELSE mask

(* include_everything is always set.                                       *)
SelectDumpableObject(o) ==
  UnlessMember(o, IF catalog[o].ns # None THEN contains[catalog[o].ns] ELSE ALL)

SelectDumpableExtension(e) == IF Is(e, "builtin") THEN {"ACL"} ELSE ALL

Asked == request.tables # {}

NamespaceContains(n) ==
  CASE Asked \/ Kind(n) = "system"   -> {}
    [] ~Asked /\ Kind(n) = "catalog" -> {"ACL"}
    [] OTHER                         -> ALL

SelectDumpableNamespace(n) ==
  UnlessMember(n, IF ~Asked /\ Kind(n) = "public" /\ Is(n, "default owner")
                    THEN ALL \ {"DEFINITION"} ELSE NamespaceContains(n))

SelectDumpableTable(t) ==
  UnlessMember(t, IF ~Asked THEN contains[catalog[t].ns]
                  ELSE IF t \in request.tables \cup request.views
                         THEN ALL ELSE {})

(* A row type follows its table.                                           *)
SelectDumpableType(t) ==
  IF Kind(t) = "row" THEN (IF Of(t) \in made THEN dump[Of(t)] ELSE {})
  ELSE UnlessMember(t, contains[catalog[t].ns])

SelectDumpableDefaultACL(d) ==
  IF catalog[d].ns # None THEN contains[catalog[d].ns] ELSE ALL

(* Both branches of the code give NONE.                                    *)
SelectDumpableCast(c) == UnlessMember(c, {})

SelectDumpableProcLang(l) ==
  UnlessMember(l, IF Is(l, "builtin") THEN {"ACL"} ELSE ALL)

SelectDumpableAccessMethod(m) ==
  UnlessMember(m, IF Is(m, "builtin") THEN {} ELSE ALL)

SelectDumpablePublicationObject(p) == UnlessMember(p, ALL)

SelectDumpableStatisticsObject(s) ==
  UnlessMember(s, IF Of(s) \in made /\ Defined(Of(s))
                    THEN contains[catalog[s].ns] ELSE {})

-----------------------------------------------------------------------------
(* The readers. mask gives the components to dump of each object a reader  *)
(* makes.                                                                  *)

AssignDumpId(mask) ==
  /\ made' = made \cup DOMAIN mask
  /\ dump' = [o \in Objects |-> IF o \in DOMAIN mask THEN mask[o] ELSE dump[o]]

Whole(new) == [o \in new |-> ALL]
LikeOwner(new) == [o \in new |-> dump[Of(o)]]

(* A reader that makes an object of every row it gets, and whose select    *)
(* routine records the dependency on the owning extension.                 *)
Reads(name, mask) ==
  /\ Turn(name)
  /\ AssignDumpId(mask)
  /\ deps' = deps \cup MemberDeps(DOMAIN mask)
  /\ UNCHANGED <<members, contains, interesting, separate>>

Dumpable(new) == [o \in new |-> SelectDumpableObject(o)]

ReadsAll(name, type) == Reads(name, Dumpable(Rows({type})))

GetExtensions ==
  /\ Turn("extensions")
  /\ AssignDumpId([e \in Rows({"extension"}) |-> SelectDumpableExtension(e)])
  /\ contains' = dump'
  /\ UNCHANGED <<members, interesting, separate, deps>>

GetExtensionMembership ==
  /\ Turn("membership")
  /\ members' = {o \in Objects : catalog[o].ext \in made}
  /\ UNCHANGED <<made, dump, contains, interesting, separate, deps>>

(* Membership overrides dump, not dump_contains.                           *)
GetNamespaces ==
  /\ Turn("namespaces")
  /\ LET new == Rows({"namespace"}) IN
       /\ AssignDumpId([n \in new |-> SelectDumpableNamespace(n)])
       /\ contains' = [o \in Objects |-> IF o \in new THEN NamespaceContains(o)
                                                      ELSE contains[o]]
       /\ deps' = deps \cup MemberDeps(new)
  /\ UNCHANGED <<members, interesting, separate>>

(* The pg_class row of a composite type is never dumped itself.            *)
GetTables ==
  /\ Turn("tables")
  /\ LET composite == {t \in Tables : Kind(t) = "composite"} IN
       /\ AssignDumpId([t \in Tables |-> IF t \in composite THEN {}
                                           ELSE SelectDumpableTable(t)])
       /\ deps' = deps \cup MemberDeps(Tables \ composite)
  /\ interesting' = {t \in Tables : dump'[t] \cap {"DEFINITION", "DATA"} # {}}
  /\ UNCHANGED <<members, contains, separate>>

(* An owned sequence goes where its table goes.                            *)
GetOwnedSeqs ==
  /\ Turn("sequences")
  /\ LET owned == {s \in Tables : Kind(s) = "sequence" /\ Of(s) # None} IN
       /\ dump' = [o \in Objects |->
                    IF o \notin owned THEN dump[o]
                    ELSE IF Is(o, "identity") THEN dump[Of(o)]
                    ELSE dump[o] \cup dump[Of(o)]]
       /\ interesting' = interesting \cup
            UNION {{s, Of(s)} : s \in {q \in owned : dump'[q] # {}}}
  /\ UNCHANGED <<members, made, contains, separate, deps>>

(* Functions of pg_catalog are read only for their ACL, a cast or a        *)
(* transform.                                                              *)
InCatalog(o) == Kind(catalog[o].ns) = "catalog"

GetFuncs ==
  Reads("funcs", Dumpable(
    {f \in Rows({"func"}) :
       \/ ~InCatalog(f) \/ Is(f, "acl")
       \/ \E c \in Rows({"cast", "transform"}) : f \in catalog[c].needs}))

(* getDomainConstraints: a domain's checks are part of it unless NOT VALID. *)
DomainChecks(types) ==
  {c \in Rows({"constraint"}) : Of(c) \in types /\ Kind(Of(c)) = "domain"}

(* Base and range types also get a shell type, not to be dumped so far.    *)
ShellTypes(types) ==
  {s \in Rows({"shell"}) : Of(s) \in types /\ Kind(Of(s)) \in {"base", "range", "array"}}

GetTypes ==
  /\ Turn("types")
  /\ LET types   == Rows({"type"})
         defined == {t \in types : "DEFINITION" \in SelectDumpableType(t)}
         checks  == DomainChecks(defined)
         shells  == ShellTypes(defined)
         apart   == {c \in checks : ~Is(c, "validated")}
     IN /\ AssignDumpId([o \in types \cup checks \cup shells |->
                          IF o \in types THEN SelectDumpableType(o)
                          ELSE IF o \in checks THEN ALL ELSE {}])
        /\ separate' = separate \cup apart
        /\ deps' = deps \cup MemberDeps({t \in types : Kind(t) # "row"})
                        \cup {<<Of(c), c>> : c \in checks \ apart}
  /\ UNCHANGED <<members, contains, interesting>>

GetProcLangs ==
  Reads("languages", [l \in Rows({"language"}) |-> SelectDumpableProcLang(l)])
GetAggregates ==
  Reads("aggregates",
        Dumpable({a \in Rows({"agg"}) : ~InCatalog(a) \/ Is(a, "acl")}))
GetOperators     == ReadsAll("operators", "operator")
GetAccessMethods ==
  Reads("access methods",
        [m \in Rows({"access method"}) |-> SelectDumpableAccessMethod(m)])
GetOpclasses     == ReadsAll("opclasses", "opclass")
GetOpfamilies    == ReadsAll("opfamilies", "opfamily")
GetTSParsers     == ReadsAll("parsers", "parser")
GetTSTemplates   == ReadsAll("templates", "template")
GetTSDictionaries ==
  ReadsAll("dictionaries", "dictionary")
GetTSConfigurations ==
  ReadsAll("text configs", "text config")
GetForeignDataWrappers == ReadsAll("fdws", "fdw")
GetForeignServers == ReadsAll("servers", "server")

(* Default ACLs cannot be members of an extension.                         *)
GetDefaultACLs ==
  /\ Turn("default acls")
  /\ AssignDumpId([d \in Rows({"default acl"}) |-> SelectDumpableDefaultACL(d)])
  /\ UNCHANGED <<members, contains, interesting, separate, deps>>

GetCollations    == ReadsAll("collations", "collation")
GetConversions   == ReadsAll("conversions", "conversion")
GetCasts         == Reads("casts", [c \in Rows({"cast"}) |-> SelectDumpableCast(c)])
GetTransforms    == ReadsAll("transforms", "transform")
GetEventTriggers ==
  ReadsAll("event triggers", "event trigger")

-----------------------------------------------------------------------------
(* Tables: what belongs to them.                                           *)

(* Config tables of extensions keep their data; a view or a partitioned    *)
(* table has none. The data of a table follows that of those it references.*)
ProcessExtensionTables ==
  /\ Turn("extension tables")
  /\ LET data == {d \in Rows({"table data"}) :
                    /\ Is(Of(d), "config")
                    /\ Kind(Of(d)) \notin {"view", "partitioned"}
                    /\ \/ Defined(catalog[Of(d)].ext)
                       \/ Of(d) \in request.tables
                       \/ "DATA" \in dump[catalog[Of(d)].ns]}
     IN /\ AssignDumpId(Whole(data))
        /\ interesting' = interesting \cup {Of(d) : d \in data}
        /\ deps' = deps \cup {<<d, Of(d)>> : d \in data}
             \cup {dd \in data \X data : \E f \in Rows({"fk"}) :
                     Of(f) = Of(dd[1]) /\ Of(dd[2]) \in catalog[f].parents}
  /\ UNCHANGED <<members, contains, separate>>

(* Partitions are created alone and attached afterwards; for that, and for *)
(* what is inherited, the parents' columns and indexes are read.           *)
FlagInhTables ==
  /\ Turn("inherited tables")
  /\ LET new == {a \in Rows({"table attach"}) :
                   Defined(Of(a)) /\ Is(Of(a), "partition")}
     IN /\ AssignDumpId(Whole(new))
        /\ deps' = deps \cup
             UNION {{a} \X ({Of(a)} \cup catalog[Of(a)].parents) : a \in new}
  /\ interesting' = interesting \cup
       UNION {catalog[t].parents : t \in {c \in Tables : dump[c] # {}}}
  /\ UNCHANGED <<members, contains, separate>>

(* Of the parts of a table: defaults and checks are written in CREATE      *)
(* TABLE, which must then come after what they need, or on their own.      *)
GetTableAttrs ==
  /\ Turn("attributes")
  /\ LET read     == {t \in interesting : Kind(t) # "sequence"}
         attrdefs == {d \in Rows({"attrdef"}) : Of(d) \in read /\ Kind(d) # "null"}
         checks   == IF request.noChecks THEN {}
                     ELSE {c \in Rows({"constraint"}) : Of(c) \in read /\ Kind(c) = "check"}
         apart    ==
           {d \in attrdefs : /\ Kind(d) # "generated"
                             /\ Kind(Of(d)) = "view" \/ Is(d, "hidden")}
           \cup {c \in checks : ~Is(c, "validated")}
     IN /\ AssignDumpId(LikeOwner(attrdefs \cup checks))
        /\ separate' = separate \cup apart
        /\ deps' = deps \cup {<<Of(o), o>> : o \in (attrdefs \cup checks) \ apart}
  /\ UNCHANGED <<members, contains, interesting>>

(* A column whose parent has a default and which has none gets DEFAULT     *)
(* NULL; a generation expression that is inherited is not written again.   *)
FlagInhAttrs ==
  /\ Turn("inherited attributes")
  /\ LET Heir(d) == /\ dump[Of(d)] # {}
                    /\ Kind(Of(d)) \notin {"sequence", "view", "matview"}
         nulls == {d \in Rows({"attrdef"}) :
                     /\ Kind(d) = "null" /\ Heir(d)
                     /\ \E p \in catalog[d].parents \cap made : Kind(p) = "default"}
         same  == {d \in Rows({"attrdef"}) \cap made :
                     /\ Kind(d) = "generated" /\ Heir(d) /\ Is(d, "same")
                     /\ catalog[d].parents # {} /\ catalog[d].parents \subseteq made
                     /\ ~Is(Of(d), "partition")}
         apart == {d \in nulls : Is(d, "hidden")}
     IN /\ AssignDumpId([d \in nulls \cup same |->
                          IF d \in nulls THEN dump[Of(d)] ELSE {}])
        /\ separate' = separate \cup apart
        /\ deps' = deps \cup {<<d, Of(d)>> : d \in apart}
  /\ UNCHANGED <<members, contains, interesting>>

(* An index that backs a constraint comes with it.                         *)
GetIndexes ==
  /\ Turn("indexes")
  /\ LET indexes == {i \in Rows({"index"}) : Of(i) \in interesting}
         keys    == {c \in Rows({"constraint"}) :
                       Of(c) \in interesting /\ Kind(c) \in {"p", "u", "x"}}
     IN /\ AssignDumpId(LikeOwner(indexes \cup keys))
        /\ separate' = separate \cup keys
  /\ UNCHANGED <<members, contains, interesting, deps>>

FlagInhIndexes ==
  /\ Turn("inherited indexes")
  /\ LET new == {a \in Rows({"index attach"}) :
                   /\ Of(a) \in made /\ catalog[a].parents \subseteq made
                   /\ Is(Of(Of(a)), "partition")}
     IN /\ AssignDumpId(Whole(new))
        /\ deps' = deps \cup
             UNION {LET ends == {Of(a)} \cup catalog[a].parents
                    IN {a} \X (ends \cup {Of(i) : i \in ends}) : a \in new}
  /\ UNCHANGED <<members, contains, interesting, separate>>

GetExtendedStatistics ==
  Reads("statistics",
        [s \in Rows({"statistics"}) |-> SelectDumpableStatisticsObject(s)])

(* Mutant: the attachments under attached indexes are forgotten.           *)
DirectAttaches(index) == {a \in Rows({"index attach"}) \cap made : index \in catalog[a].parents}

(* addConstrChildIdxDeps: the attachments under an index, at any depth,    *)
(* which are those in every set that has the direct ones and is closed.    *)
AttachesUnder(index) ==
  LET attaches  == Rows({"index attach"}) \cap made
      Closed(S) == \A a \in attaches :
        index \in catalog[a].parents \/ (\E b \in S : Of(b) \in catalog[a].parents) => a \in S
  IN {a \in attaches : \A S \in SUBSET attaches : Closed(S) => a \in S}

(* The index of the referenced table a foreign key relies on.              *)
KeyIndexes(fk) == catalog[fk].needs \cap Rows({"index"})
ToPartitioned(fk) == \E t \in catalog[fk].parents : Kind(t) = "partitioned"

GetConstraints ==
  /\ Turn("constraints")
  /\ LET new == {f \in Rows({"fk"}) : Defined(Of(f))} IN
       /\ AssignDumpId(Whole(new))
       /\ separate' = separate \cup new
       /\ deps' = deps \cup
            UNION {{f} \X UNION {AttachesUnder(i) : i \in KeyIndexes(f) \cap made}
                   : f \in {g \in new : ToPartitioned(g)}}
  /\ UNCHANGED <<members, contains, interesting>>

GetTriggers ==
  /\ Turn("triggers")
  /\ AssignDumpId(Whole({g \in Rows({"trigger"}) : Defined(Of(g))}))
  /\ UNCHANGED <<members, contains, interesting, separate, deps>>

(* The rule of a view is part of it, every other rule follows its table.   *)
GetRules ==
  /\ Turn("rules")
  /\ LET rules == Rows({"rule"})
         apart == {r \in rules : Kind(r) # "select"}
     IN /\ AssignDumpId(LikeOwner(rules))
        /\ separate' = separate \cup apart
        /\ deps' = deps \cup {<<r, Of(r)>> : r \in apart}
                        \cup {<<Of(r), r>> : r \in rules \ apart}
  /\ UNCHANGED <<members, contains, interesting>>

(* Row security being on is a policy object of its own.                    *)
GetPolicies ==
  /\ Turn("policies")
  /\ AssignDumpId(Whole({p \in Rows({"policy"}) :
                          /\ "POLICY" \in dump[Of(p)]
                          /\ Kind(Of(p)) \in {"table", "partitioned"}}))
  /\ UNCHANGED <<members, contains, interesting, separate, deps>>

GetPublications == ReadsAll("publications", "publication")

GetPublicationTables ==
  Reads("publication tables",
        [p \in {q \in Rows({"publication table"}) : Defined(Of(q))} |->
           SelectDumpablePublicationObject(p)])

GetPublicationNamespaces ==
  Reads("publication schemas",
        [p \in {q \in Rows({"publication schema"}) : dump[Of(q)] # {}} |->
           SelectDumpablePublicationObject(p)])

GetSubscriptions ==
  Reads("subscriptions",
        Dumpable({s \in Rows({"subscription"}) : request.superuser}))

Mark(these) ==
  /\ dump' = [o \in Objects |-> IF o \in these THEN dump[o] \cup {"DEFINITION"}
                                               ELSE dump[o]]
  /\ UNCHANGED <<members, made, contains, interesting, separate, deps>>

MarkViewsForDump ==
  /\ Turn("mark views")
  /\ Mark({v \in Tables \cap request.views : Kind(v) \in {"view", "matview"}})

(* Mutant: only the schemas of the tables asked for, not of their views.   *)
MarkNamedSchemas ==
  /\ Turn("mark schemas")
  /\ Mark({n \in Rows({"namespace"}) :
             Kind(n) = "user" /\ \E t \in request.tables : catalog[t].ns = n})

MarkSchemasForDump ==
  /\ Turn("mark schemas")
  /\ Mark({n \in Rows({"namespace"}) :
             Kind(n) = "user" /\ \E t \in Tables : Defined(t) /\ catalog[t].ns = n})

-----------------------------------------------------------------------------
(* What main does between reading and sorting.                             *)

(* pg_depend, among the objects made. A composite type's pg_class entry    *)
(* depends on the type there, but is needed by it here.                    *)
GetDependencies ==
  /\ Turn("dependencies")
  /\ LET recorded == {d \in made \X made : d[2] \in catalog[d[1]].needs}
         OfComposite(d) == Kind(d[1]) = "composite" /\ Of(d[1]) = d[2]
     IN deps' = deps \cup {IF OfComposite(d) THEN <<d[2], d[1]>> ELSE d : d \in recorded}
  /\ UNCHANGED <<members, made, dump, contains, interesting, separate>>

DataTypes == {"table data"}
PostTypes == {"index", "index attach", "statistics", "trigger",
              "event trigger", "default acl", "policy", "publication",
              "publication table", "publication schema", "subscription"}
PartTypes == {"rule", "constraint", "fk"}
Boundaries == {"pre boundary", "post boundary"}
PreTypes  == Types \ (DataTypes \cup PostTypes \cup PartTypes \cup Boundaries)

(* Rules and constraints are post-data only if dumped on their own.        *)
IsPost(o) == catalog[o].type \in PostTypes \/ (catalog[o].type \in PartTypes /\ o \in separate)

(* createBoundaryObjects and addBoundaryDependencies.                      *)
AddBoundaryDependencies ==
  /\ Turn("boundaries")
  /\ AssignDumpId(Whole(Rows(Boundaries)))
  /\ LET pre   == Rows({"pre boundary"})
         post  == Rows({"post boundary"})
         data  == made \cap Rows(DataTypes)
     IN deps' = deps \cup (pre \X (made \cap Rows(PreTypes)))
                     \cup (data \X pre) \cup (post \X (data \cup pre))
                     \cup ({o \in made : IsPost(o)} \X post)
  /\ UNCHANGED <<members, contains, interesting, separate>>

ReadBeforeTables ==
  GetExtensions \/ GetExtensionMembership \/ GetNamespaces

ReadSchemaObjects ==
  \/ GetFuncs \/ GetTypes \/ GetProcLangs \/ GetAggregates \/ GetOperators
  \/ GetAccessMethods \/ GetOpclasses \/ GetOpfamilies \/ GetTSParsers
  \/ GetTSTemplates \/ GetTSDictionaries \/ GetTSConfigurations
  \/ GetForeignDataWrappers \/ GetForeignServers \/ GetDefaultACLs
  \/ GetCollations \/ GetConversions \/ GetCasts \/ GetTransforms
  \/ GetEventTriggers

ReadTables ==
  \/ GetTables \/ GetOwnedSeqs \/ ProcessExtensionTables \/ FlagInhTables
  \/ GetTableAttrs \/ FlagInhAttrs \/ GetIndexes \/ FlagInhIndexes
  \/ GetExtendedStatistics \/ GetConstraints \/ GetTriggers \/ GetRules
  \/ GetPolicies

GetSchemaData ==
  \/ ReadBeforeTables \/ ReadTables \/ ReadSchemaObjects
  \/ GetPublications \/ GetPublicationTables \/ GetPublicationNamespaces
  \/ GetSubscriptions \/ MarkViewsForDump \/ MarkSchemasForDump

SelectionNext == GetSchemaData \/ GetDependencies \/ AddBoundaryDependencies

=============================================================================
