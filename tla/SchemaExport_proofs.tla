------------------------ MODULE SchemaExport_proofs ------------------------
EXTENDS SchemaExport, FiniteSetTheorems, SequenceTheorems, WellFoundedInduction, TLAPS

(***************************************************************************)
(* What the export of a schema writes, for every database and every        *)
(* configuration: each statement once, a schema before what is in it, an   *)
(* attached index before the foreign keys that rely on it.  The invariant  *)
(* IInv follows the program through its phases: while the readers run,     *)
(* which objects are made and what is selected of them; then the list of   *)
(* the archive filled from its end, an object only when all that depends   *)
(* on it has its place; then the entries in the order of that list; then   *)
(* the scripts as the subsequences of the entries.                         *)
(***************************************************************************)

(* Schemas and extensions: what they depend on is among them.              *)
Roots == Rows({"namespace", "extension"})

(* What the readers make before any other object.                          *)
Plain == {"namespace", "extension", "table"}

(* Whether o may have a statement that needs its schema.                   *)
Weighty(o) ==
  CASE catalog[o].type = "default acl"  -> "ACL" \in dump[o]
    [] catalog[o].type = "server"       -> dump[o] \cap {"DEFINITION", "USERMAP"} # {}
    [] catalog[o].type = "index attach" -> Defined(Of(o))
    [] catalog[o].type = "table attach" -> TRUE
    [] catalog[o].type \in {"table data", "pre boundary", "post boundary"} -> FALSE
    [] catalog[o].type = "type"         -> Defined(o) /\ Kind(o) # "row"
    [] OTHER                            -> Defined(o)

(* The schemas of the user, and those of them the export must create.      *)
UserSchemas == {n \in Rows({"namespace"}) : Kind(n) = "user"}
Own == UserSchemas \ members

TableBeside(o) == \E t \in Tables : Defined(t) /\ catalog[t].ns = catalog[o].ns

TypesInv ==
  /\ catalog \in Catalogs /\ request \in Requests
  /\ made \subseteq Objects
  /\ members \subseteq {o \in Objects : catalog[o].ext # None}
  /\ interesting \subseteq Tables
  /\ DOMAIN dump = Objects
  /\ deps \subseteq Objects \X Objects

RootsInv == \A d \in deps : d[1] \in Roots => d[2] \in Roots

(* The schemas are read third, and all of them; the tables fourth.         *)
SchemasInv ==
  /\ step \in 1..45
  /\ step <= 3 => made \subseteq Rows({"extension"}) /\ \A o \in Objects \ made : dump[o] = {}
  /\ step <= 4 => \A t \in Tables : dump[t] = {}
  /\ step <= 5 => made \subseteq Rows(Plain)
  /\ step > 3 => Rows({"namespace"}) \subseteq made
  /\ step > 3 /\ ~Asked => \A n \in Own : Defined(n)
  /\ step > 3 /\ Asked => \A n \in Rows({"namespace"}) : contains[n] = {}

(* With a query that names tables, a statement is made only in a schema    *)
(* that has a table to be created.                                         *)
BesideInv ==
  Asked =>
    /\ \A t \in Tables : "POLICY" \in dump[t] => Defined(t)
    /\ \A o \in made \ Tables :
         /\ catalog[o].type # "shell"
         /\ catalog[o].ns # None /\ catalog[o].type # "index attach" /\ Weighty(o) =>
              TableBeside(o)

TableSchemasInv ==
  step > 42 /\ Asked =>
    \A t \in Tables : Defined(t) /\ catalog[t].ns \in UserSchemas => Defined(catalog[t].ns)

AttachInv == \A a \in made \cap Rows({"index attach"}) : Of(a) \in made

(* The foreign key depends on the attachments in S, and S has every one to *)
(* the key it references or to an index attached by one in S.              *)
Attaches == Rows({"index attach"}) \cap made
Covers(f, S) ==
  /\ S \subseteq Attaches /\ {f} \X S \subseteq deps
  /\ \A a \in Attaches :
       catalog[a].parents \cap ((KeyIndexes(f) \cap made) \cup {Of(b) : b \in S}) # {} => a \in S

KeyInv ==
  \A f \in made \cap Rows({"fk"}) : ToPartitioned(f) => \E S : Covers(f, S)

SelectionInv ==
  /\ TypesInv /\ RootsInv /\ SchemasInv /\ BesideInv /\ TableSchemasInv
  /\ AttachInv /\ KeyInv
  /\ step <= 33 => made \cap Rows({"fk"}) = {}

-----------------------------------------------------------------------------
(* The export, once the selection is over.                                 *)

Descriptions ==
  {"ACCESS METHOD", "ACL", "AGGREGATE", "CAST", "CHECK CONSTRAINT",
   "COLLATION", "CONSTRAINT", "CONVERSION", "DEFAULT", "DEFAULT ACL",
   "DOMAIN", "EVENT TRIGGER", "EXTENSION", "FK CONSTRAINT",
   "FOREIGN DATA WRAPPER", "FOREIGN TABLE", "FUNCTION", "INDEX",
   "INDEX ATTACH", "MATERIALIZED VIEW", "OPERATOR", "OPERATOR CLASS",
   "OPERATOR FAMILY", "POLICY", "PROCEDURAL LANGUAGE", "PUBLICATION",
   "PUBLICATION TABLE", "PUBLICATION TABLES IN SCHEMA", "ROW SECURITY",
   "RULE", "SCHEMA", "SERVER", "SHELL TYPE", "STATISTICS", "SUBSCRIPTION",
   "TABLE", "TABLE ATTACH", "TEXT SEARCH CONFIGURATION",
   "TEXT SEARCH DICTIONARY", "TEXT SEARCH PARSER", "TEXT SEARCH TEMPLATE",
   "TRANSFORM", "TRIGGER", "TYPE", "USER MAPPING", "VIEW"}

EntryRecords ==
  [of : Objects, desc : Descriptions, section : {"pre", "post", "none"}, required : BOOLEAN]

(* Privileges have no section; the rest needs what the statement needs.    *)
EntryOK(e) ==
  /\ e.section = "none" <=> e.desc = "ACL"
  /\ e.desc \in {"INDEX", "EVENT TRIGGER", "DEFAULT ACL"} => e.section = "post"
  /\ catalog[e.of].type = "fk" => e.section = "post"

(* What the selection promises to the sort and the dump: a schema of the   *)
(* user's is to be created if anything that needs it may be.               *)
SchemasReady ==
  /\ Own \subseteq made
  /\ \A o \in made : catalog[o].ns \in Own /\ Weighty(o) => Defined(catalog[o].ns)

ReadyInv ==
  /\ catalog \in Catalogs /\ made \subseteq Objects /\ DOMAIN dump = Objects
  /\ deps \subseteq Objects \X Objects
  /\ RootsInv /\ KeyInv /\ SchemasReady

(* ordering is filled from its end: what depends on an object comes after  *)
(* it, and a schema is placed when only schemas and extensions are left,   *)
(* or objects in a loop, which are never placed.                           *)
PlacedInv ==
  /\ ordering \in Seq(made)
  /\ \A i, j \in 1..Len(ordering) : ordering[i] = ordering[j] => i = j

DependentsInv ==
  \A i \in 1..Len(ordering) : \A o \in made :
    <<o, ordering[i]>> \in deps => \E k \in 1..Len(ordering) : k > i /\ ordering[k] = o

SchemaAt(i) == catalog[ordering[i]].type = "namespace"

OnlyRootsLeft ==
  \A v \in Unplaced \ Roots : \E u \in Unplaced \ Roots : <<u, v>> \in deps

SchemasPlacedInv ==
  /\ (\E i \in 1..Len(ordering) : SchemaAt(i)) => OnlyRootsLeft
  /\ \A i, j \in 1..Len(ordering) : ordering[i] \notin Roots /\ SchemaAt(j) => j < i

OrderingInv == PlacedInv /\ DependentsInv /\ SchemasPlacedInv

(* The entries are those of the objects dumped so far, in their order.     *)
Printed(i) == toc[i].section # "none"

EntriesInv ==
  /\ dumped \in 0..Len(ordering)
  /\ toc \in Seq(EntryRecords) /\ \A i \in 1..Len(toc) : EntryOK(toc[i])
  /\ \A i \in 1..Len(toc) : \E k \in 1..dumped : toc[i].of = ordering[k]
  /\ \A i, j \in 1..Len(toc) :
       toc[i].of = toc[j].of /\ toc[i].desc = toc[j].desc => i = j
  /\ \A i, j \in 1..Len(toc) : \A a, b \in 1..Len(ordering) :
       i <= j /\ toc[i].of = ordering[a] /\ toc[j].of = ordering[b] => a <= b

SchemaEntriesInv ==
  /\ \A i \in 1..Len(toc) :
       Printed(i) /\ catalog[toc[i].of].ns \in Own => Defined(catalog[toc[i].of].ns)
  /\ \A k \in 1..dumped :
       SchemaAt(k) /\ Defined(ordering[k]) =>
         \E i \in 1..Len(toc) : toc[i].of = ordering[k] /\ toc[i].section = "pre"

RequiredInv == \A i \in 1..Len(toc) : Printed(i) => (toc[i].required <=> toc[i].section = "pre")

(* What the two scripts are made of.                                       *)
FirstPart  == Chosen(toc, {e \in Entries : e.required /\ RestorePass(e) = "main"})
SecondPart == Chosen(toc, {e \in Entries : Appended(e)})
IndexPart  == Chosen(toc, {e \in Entries : IsIndex(e)})

ScriptInv ==
  /\ stage = "append" => script = FirstPart
  /\ stage \in {"indexes", "done"} => script = FirstPart \o SecondPart
  /\ stage = "done" => indexScript = IF request.indexFile THEN IndexPart ELSE <<>>

IInv ==
  /\ stage \in {"read", "sort", "dump", "mark", "restore", "append", "indexes", "done"}
  /\ stage = "read" => SelectionInv /\ ordering = <<>>
  /\ stage # "read" => ReadyInv /\ OrderingInv
  /\ stage \in {"read", "sort"} => dumped = 0 /\ toc = <<>>
  /\ stage \notin {"read", "sort"} => Unplaced = {} /\ EntriesInv /\ SchemaEntriesInv
  /\ stage \in {"restore", "append", "indexes", "done"} => dumped = Len(ordering) /\ RequiredInv
  /\ stage = "mark" => dumped = Len(ordering)
  /\ ScriptInv

-----------------------------------------------------------------------------
(* The numbers of the steps.                                               *)

Number(s) ==
  IF s = "extensions" THEN 1 ELSE IF s = "membership" THEN 2 ELSE
  IF s = "namespaces" THEN 3 ELSE IF s = "tables" THEN 4 ELSE
  IF s = "sequences" THEN 5 ELSE IF s = "funcs" THEN 6 ELSE
  IF s = "types" THEN 7 ELSE IF s = "languages" THEN 8 ELSE
  IF s = "aggregates" THEN 9 ELSE IF s = "operators" THEN 10 ELSE
  IF s = "access methods" THEN 11 ELSE IF s = "opclasses" THEN 12 ELSE
  IF s = "opfamilies" THEN 13 ELSE IF s = "parsers" THEN 14 ELSE
  IF s = "templates" THEN 15 ELSE IF s = "dictionaries" THEN 16 ELSE
  IF s = "text configs" THEN 17 ELSE IF s = "fdws" THEN 18 ELSE
  IF s = "servers" THEN 19 ELSE IF s = "default acls" THEN 20 ELSE
  IF s = "collations" THEN 21 ELSE IF s = "conversions" THEN 22 ELSE
  IF s = "casts" THEN 23 ELSE IF s = "transforms" THEN 24 ELSE
  IF s = "event triggers" THEN 25 ELSE IF s = "extension tables" THEN 26 ELSE
  IF s = "inherited tables" THEN 27 ELSE IF s = "attributes" THEN 28 ELSE
  IF s = "inherited attributes" THEN 29 ELSE IF s = "indexes" THEN 30 ELSE
  IF s = "inherited indexes" THEN 31 ELSE IF s = "statistics" THEN 32 ELSE
  IF s = "constraints" THEN 33 ELSE IF s = "triggers" THEN 34 ELSE
  IF s = "rules" THEN 35 ELSE IF s = "policies" THEN 36 ELSE
  IF s = "publications" THEN 37 ELSE IF s = "publication tables" THEN 38 ELSE
  IF s = "publication schemas" THEN 39 ELSE IF s = "subscriptions" THEN 40 ELSE
  IF s = "mark views" THEN 41 ELSE IF s = "mark schemas" THEN 42 ELSE
  IF s = "dependencies" THEN 43 ELSE IF s = "boundaries" THEN 44 ELSE
  0

(* The reader at each place of Steps.                                      *)
LEMMA StepsNumbered == \A i \in 1..44 : Number(Steps[i]) = i
  <1> SUFFICES ASSUME NEW i \in 1..44 PROVE Number(Steps[i]) = i
    OBVIOUS
  <1>1. CASE i = 1
    <2>1. Steps[1] = "extensions"
      BY DEF Steps
    <2> QED
      BY <1>1, <2>1 DEF Number
  <1>2. CASE i = 2
    <2>1. Steps[2] = "membership"
      BY DEF Steps
    <2> QED
      BY <1>2, <2>1 DEF Number
  <1>3. CASE i = 3
    <2>1. Steps[3] = "namespaces"
      BY DEF Steps
    <2> QED
      BY <1>3, <2>1 DEF Number
  <1>4. CASE i = 4
    <2>1. Steps[4] = "tables"
      BY DEF Steps
    <2> QED
      BY <1>4, <2>1 DEF Number
  <1>5. CASE i = 5
    <2>1. Steps[5] = "sequences"
      BY DEF Steps
    <2> QED
      BY <1>5, <2>1 DEF Number
  <1>6. CASE i = 6
    <2>1. Steps[6] = "funcs"
      BY DEF Steps
    <2> QED
      BY <1>6, <2>1 DEF Number
  <1>7. CASE i = 7
    <2>1. Steps[7] = "types"
      BY DEF Steps
    <2> QED
      BY <1>7, <2>1 DEF Number
  <1>8. CASE i = 8
    <2>1. Steps[8] = "languages"
      BY DEF Steps
    <2> QED
      BY <1>8, <2>1 DEF Number
  <1>9. CASE i = 9
    <2>1. Steps[9] = "aggregates"
      BY DEF Steps
    <2> QED
      BY <1>9, <2>1 DEF Number
  <1>10. CASE i = 10
    <2>1. Steps[10] = "operators"
      BY DEF Steps
    <2> QED
      BY <1>10, <2>1 DEF Number
  <1>11. CASE i = 11
    <2>1. Steps[11] = "access methods"
      BY DEF Steps
    <2> QED
      BY <1>11, <2>1 DEF Number
  <1>12. CASE i = 12
    <2>1. Steps[12] = "opclasses"
      BY DEF Steps
    <2> QED
      BY <1>12, <2>1 DEF Number
  <1>13. CASE i = 13
    <2>1. Steps[13] = "opfamilies"
      BY DEF Steps
    <2> QED
      BY <1>13, <2>1 DEF Number
  <1>14. CASE i = 14
    <2>1. Steps[14] = "parsers"
      BY DEF Steps
    <2> QED
      BY <1>14, <2>1 DEF Number
  <1>15. CASE i = 15
    <2>1. Steps[15] = "templates"
      BY DEF Steps
    <2> QED
      BY <1>15, <2>1 DEF Number
  <1>16. CASE i = 16
    <2>1. Steps[16] = "dictionaries"
      BY DEF Steps
    <2> QED
      BY <1>16, <2>1 DEF Number
  <1>17. CASE i = 17
    <2>1. Steps[17] = "text configs"
      BY DEF Steps
    <2> QED
      BY <1>17, <2>1 DEF Number
  <1>18. CASE i = 18
    <2>1. Steps[18] = "fdws"
      BY DEF Steps
    <2> QED
      BY <1>18, <2>1 DEF Number
  <1>19. CASE i = 19
    <2>1. Steps[19] = "servers"
      BY DEF Steps
    <2> QED
      BY <1>19, <2>1 DEF Number
  <1>20. CASE i = 20
    <2>1. Steps[20] = "default acls"
      BY DEF Steps
    <2> QED
      BY <1>20, <2>1 DEF Number
  <1>21. CASE i = 21
    <2>1. Steps[21] = "collations"
      BY DEF Steps
    <2> QED
      BY <1>21, <2>1 DEF Number
  <1>22. CASE i = 22
    <2>1. Steps[22] = "conversions"
      BY DEF Steps
    <2> QED
      BY <1>22, <2>1 DEF Number
  <1>23. CASE i = 23
    <2>1. Steps[23] = "casts"
      BY DEF Steps
    <2> QED
      BY <1>23, <2>1 DEF Number
  <1>24. CASE i = 24
    <2>1. Steps[24] = "transforms"
      BY DEF Steps
    <2> QED
      BY <1>24, <2>1 DEF Number
  <1>25. CASE i = 25
    <2>1. Steps[25] = "event triggers"
      BY DEF Steps
    <2> QED
      BY <1>25, <2>1 DEF Number
  <1>26. CASE i = 26
    <2>1. Steps[26] = "extension tables"
      BY DEF Steps
    <2> QED
      BY <1>26, <2>1 DEF Number
  <1>27. CASE i = 27
    <2>1. Steps[27] = "inherited tables"
      BY DEF Steps
    <2> QED
      BY <1>27, <2>1 DEF Number
  <1>28. CASE i = 28
    <2>1. Steps[28] = "attributes"
      BY DEF Steps
    <2> QED
      BY <1>28, <2>1 DEF Number
  <1>29. CASE i = 29
    <2>1. Steps[29] = "inherited attributes"
      BY DEF Steps
    <2> QED
      BY <1>29, <2>1 DEF Number
  <1>30. CASE i = 30
    <2>1. Steps[30] = "indexes"
      BY DEF Steps
    <2> QED
      BY <1>30, <2>1 DEF Number
  <1>31. CASE i = 31
    <2>1. Steps[31] = "inherited indexes"
      BY DEF Steps
    <2> QED
      BY <1>31, <2>1 DEF Number
  <1>32. CASE i = 32
    <2>1. Steps[32] = "statistics"
      BY DEF Steps
    <2> QED
      BY <1>32, <2>1 DEF Number
  <1>33. CASE i = 33
    <2>1. Steps[33] = "constraints"
      BY DEF Steps
    <2> QED
      BY <1>33, <2>1 DEF Number
  <1>34. CASE i = 34
    <2>1. Steps[34] = "triggers"
      BY DEF Steps
    <2> QED
      BY <1>34, <2>1 DEF Number
  <1>35. CASE i = 35
    <2>1. Steps[35] = "rules"
      BY DEF Steps
    <2> QED
      BY <1>35, <2>1 DEF Number
  <1>36. CASE i = 36
    <2>1. Steps[36] = "policies"
      BY DEF Steps
    <2> QED
      BY <1>36, <2>1 DEF Number
  <1>37. CASE i = 37
    <2>1. Steps[37] = "publications"
      BY DEF Steps
    <2> QED
      BY <1>37, <2>1 DEF Number
  <1>38. CASE i = 38
    <2>1. Steps[38] = "publication tables"
      BY DEF Steps
    <2> QED
      BY <1>38, <2>1 DEF Number
  <1>39. CASE i = 39
    <2>1. Steps[39] = "publication schemas"
      BY DEF Steps
    <2> QED
      BY <1>39, <2>1 DEF Number
  <1>40. CASE i = 40
    <2>1. Steps[40] = "subscriptions"
      BY DEF Steps
    <2> QED
      BY <1>40, <2>1 DEF Number
  <1>41. CASE i = 41
    <2>1. Steps[41] = "mark views"
      BY DEF Steps
    <2> QED
      BY <1>41, <2>1 DEF Number
  <1>42. CASE i = 42
    <2>1. Steps[42] = "mark schemas"
      BY DEF Steps
    <2> QED
      BY <1>42, <2>1 DEF Number
  <1>43. CASE i = 43
    <2>1. Steps[43] = "dependencies"
      BY DEF Steps
    <2> QED
      BY <1>43, <2>1 DEF Number
  <1>44. CASE i = 44
    <2>1. Steps[44] = "boundaries"
      BY DEF Steps
    <2> QED
      BY <1>44, <2>1 DEF Number
  <1> QED
    BY <1>1, <1>2, <1>3, <1>4, <1>5, <1>6, <1>7, <1>8, <1>9, <1>10, <1>11, <1>12, <1>13, <1>14,
       <1>15, <1>16, <1>17, <1>18, <1>19, <1>20, <1>21, <1>22, <1>23, <1>24, <1>25, <1>26, <1>27,
       <1>28, <1>29, <1>30, <1>31, <1>32, <1>33, <1>34, <1>35, <1>36, <1>37, <1>38, <1>39, <1>40,
       <1>41, <1>42, <1>43, <1>44

(* No reader is named twice.                                               *)
LEMMA NumberOfStep ==
  ASSUME NEW i \in 1..44 PROVE StepOf(Steps[i]) = i
  <1>1. DOMAIN Steps = 1..44
    BY DEF Steps
  <1>2. Steps[StepOf(Steps[i])] = Steps[i] /\ StepOf(Steps[i]) \in 1..44
    BY <1>1 DEF StepOf
  <1> QED
    BY <1>1, <1>2, StepsNumbered


-----------------------------------------------------------------------------
(* What the rows of the catalogue are.                                     *)

(* What the assumption says of one row.                                    *)
LEMMA RowFacts ==
  ASSUME catalog \in Catalogs, NEW o \in Objects
  PROVE  /\ None \notin Objects
         /\ catalog[o].type \in Types
         /\ catalog[o].ns \in Objects \cup {None}
         /\ catalog[o].ext \in Objects \cup {None}
         /\ catalog[o].of \in Objects \cup {None}
         /\ catalog[o].parents \subseteq Objects
         /\ catalog[o].needs \subseteq Objects
  <1>1. catalog \in [Objects -> Row(Objects)] /\ None \notin Objects
    BY CatalogAssumption DEF Objects
  <1>2. catalog[o] \in Row(Objects)
    BY <1>1
  <1> QED
    BY <1>1, <1>2 DEF Row

(* Schemas, extensions and owners are objects of their kinds.              *)
LEMMA WellFormedFacts ==
  ASSUME catalog \in Catalogs, NEW o \in Objects
  PROVE  /\ catalog[o].ns # None => catalog[o].ns \in Rows({"namespace"})
         /\ catalog[o].type \in {"type", "table"} => catalog[o].ns # None
         /\ catalog[o].type \in {"namespace", "extension", "language",
              "access method", "publication schema"} => catalog[o].ns = None
         /\ catalog[o].ext # None => catalog[o].ext \in Rows({"extension"})
         /\ (\E pair \in PartOf : pair[1] = catalog[o].type) =>
              /\ Of(o) \in Objects
              /\ <<catalog[o].type, catalog[Of(o)].type>> \in PartOf
              /\ catalog[o].ns = catalog[Of(o)].ns
         /\ Kind(o) = "composite" /\ Of(o) # None => Of(o) \in Rows({"type"})
         /\ Kind(o) = "sequence" /\ Of(o) # None => Of(o) \in Tables
         /\ catalog[o].type = "table" => catalog[o].parents \subseteq Tables
         /\ catalog[o].type = "index attach" => catalog[o].parents \subseteq Rows({"index"})
         /\ catalog[o].type = "namespace" => catalog[o].needs = {}
         /\ catalog[o].type = "extension" => catalog[o].needs \subseteq Roots
  <1>1. WellFormed(catalog)
    BY CatalogAssumption
  <1> DEFINE row == catalog[o]
  <1>2. /\ row.ns # None => catalog[row.ns].type = "namespace"
        /\ row.type \in {"type", "table"} => row.ns # None
        /\ row.type \in {"namespace", "extension", "language",
             "access method", "publication schema"} => row.ns = None
        /\ row.ext # None => catalog[row.ext].type = "extension"
        /\ (\E pair \in PartOf : pair[1] = row.type) =>
             /\ row.of # None /\ <<row.type, catalog[row.of].type>> \in PartOf
             /\ row.ns = catalog[row.of].ns
        /\ row.kind = "composite" /\ row.of # None => catalog[row.of].type = "type"
        /\ row.kind = "sequence" /\ row.of # None => catalog[row.of].type = "table"
        /\ row.type = "table" => \A p \in row.parents : catalog[p].type = "table"
        /\ row.type = "index attach" => \A p \in row.parents : catalog[p].type = "index"
        /\ row.type = "namespace" => row.needs = {}
        /\ row.type = "extension" =>
             \A p \in row.needs : catalog[p].type \in {"namespace", "extension"}
    BY <1>1, Zenon DEF WellFormed, Objects
  <1> HIDE DEF row
  <1>3. /\ row.ns \in Objects \cup {None} /\ row.ext \in Objects \cup {None}
        /\ row.of \in Objects \cup {None} /\ row.needs \subseteq Objects
        /\ row.parents \subseteq Objects
    BY RowFacts DEF row
  <1>4. catalog[o] = row /\ Of(o) = row.of /\ Kind(o) = row.kind
    BY DEF row, Of, Kind
  <1>5. /\ row.ns # None => row.ns \in Rows({"namespace"})
        /\ row.ext # None => row.ext \in Rows({"extension"})
        /\ Kind(o) = "composite" /\ Of(o) # None => Of(o) \in Rows({"type"})
        /\ row.type = "extension" => row.needs \subseteq Roots
        /\ Kind(o) = "sequence" /\ Of(o) # None => Of(o) \in Tables
        /\ row.type = "table" => row.parents \subseteq Tables
        /\ row.type = "index attach" => row.parents \subseteq Rows({"index"})
    BY <1>2, <1>3, <1>4 DEF Rows, Roots, Tables
  <1> QED
    BY <1>2, <1>3, <1>4, <1>5

(* The parts of tables, and what else has an owner.                        *)
TableParts == {"table attach", "attrdef", "index", "rule", "trigger", "fk",
               "policy", "publication table", "table data"}

(* A part has the schema of what it is part of.                            *)
LEMMA PartFacts ==
  ASSUME catalog \in Catalogs, NEW o \in Objects
  PROVE  /\ catalog[o].type \in TableParts =>
              Of(o) \in Tables /\ catalog[o].ns = catalog[Of(o)].ns
         /\ catalog[o].type = "constraint" =>
              Of(o) \in Rows({"table", "type"}) /\ catalog[o].ns = catalog[Of(o)].ns
         /\ catalog[o].type = "index attach" =>
              Of(o) \in Rows({"index"}) /\ catalog[o].ns = catalog[Of(o)].ns
         /\ catalog[o].type = "shell" => Of(o) \in Rows({"type"})
  <1>1. (\E pair \in PartOf : pair[1] = catalog[o].type) =>
              /\ Of(o) \in Objects
              /\ <<catalog[o].type, catalog[Of(o)].type>> \in PartOf
              /\ catalog[o].ns = catalog[Of(o)].ns
    BY WellFormedFacts
  <1>2. /\ \A t \in TableParts \cup {"constraint"} : <<t, "table">> \in PartOf
        /\ <<"index attach", "index">> \in PartOf /\ <<"shell", "type">> \in PartOf
    BY DEF PartOf, TableParts
  <1>3. ASSUME catalog[o].type \in TableParts \cup {"constraint", "index attach", "shell"}
        PROVE  \E pair \in PartOf : pair[1] = catalog[o].type
    <2>1. \E t : <<catalog[o].type, t>> \in PartOf
      BY <1>2, <1>3 DEF PartOf, TableParts
    <2>2. PICK t : <<catalog[o].type, t>> \in PartOf
      BY <2>1
    <2> QED
      BY <2>2
  <1>4. \A s, t : <<s, t>> \in PartOf =>
          /\ s \in TableParts => t = "table"
          /\ s = "constraint" => t \in {"table", "type"}
          /\ s = "index attach" => t = "index"
          /\ s = "shell" => t = "type"
    BY DEF PartOf, TableParts
  <1> QED
    BY <1>1, <1>3, <1>4 DEF Rows, Tables

-----------------------------------------------------------------------------
(* Reading. What a reader after the tables may do: it makes new objects of *)
(* the given types, records dependencies, and creates in a schema only     *)
(* what stands beside a table.                                             *)
Reader(k, kinds, new) ==
  /\ step = k /\ step' = k + 1
  /\ UNCHANGED <<catalog, request, members, contains>>
  /\ new \subseteq Rows(kinds) /\ made' = made \cup new
  /\ interesting' \subseteq Tables
  /\ DOMAIN dump' = Objects
  /\ \A o \in Objects \ new : dump'[o] = dump[o]
  /\ deps \subseteq deps' /\ deps' \subseteq Objects \X Objects
  /\ \A d \in deps' \ deps : d[1] \in Roots => d[2] \in Roots
  /\ Asked => \A o \in new :
       /\ catalog[o].type # "shell"
       /\ catalog[o].ns # None /\ catalog[o].type # "index attach" /\ Weighty(o)' =>
            TableBeside(o)

(* Arithmetic of the step bounds in the invariant.                         *)
LEMMA NextNumber ==
  \A k \in 5..44 : /\ k + 1 <= 33 => k <= 33
                   /\ k <= 32 => k <= 33 /\ k # 42
  OBVIOUS

(* Whether an object has a statement depends on its own marks.             *)
LEMMA SameWeight ==
  ASSUME catalog' = catalog, NEW o, catalog[o].type # "index attach",
         dump'[o] = dump[o]
  PROVE  Weighty(o)' <=> Weighty(o)
  BY DEF Weighty, Defined, Kind, Of, Boundaries

(* Privileges alone need no schema.                                        *)
LEMMA LightWeight ==
  ASSUME catalog' = catalog, NEW o, dump'[o] \subseteq {"ACL"},
         catalog[o].type \notin {"index attach", "table attach", "default acl"}
  PROVE  ~Weighty(o)'
  BY DEF Weighty, Defined, Kind, Of

(* Readers that leave the tables' marks alone keep TableBeside.            *)
LEMMA StillBeside ==
  ASSUME catalog' = catalog, NEW o, TableBeside(o),
         \A t \in Tables : Defined(t) => Defined(t)'
  PROVE  TableBeside(o)'
  <1>1. PICK t \in Tables : Defined(t) /\ catalog[t].ns = catalog[o].ns
    BY DEF TableBeside
  <1>2. Defined(t)' /\ t \in Tables'
    BY <1>1 DEF Tables, Rows, Objects
  <1> QED
    BY <1>1, <1>2 DEF TableBeside

(* What depends on the catalogue only does not change.                     *)
LEMMA SameRows ==
  ASSUME catalog' = catalog
  PROVE  /\ Objects' = Objects /\ Tables' = Tables /\ Roots' = Roots
         /\ UserSchemas' = UserSchemas
         /\ \A o : /\ Of(o)' = Of(o) /\ Kind(o)' = Kind(o)
                   /\ KeyIndexes(o)' = KeyIndexes(o)
                   /\ ToPartitioned(o)' = ToPartitioned(o)
         /\ \A kinds : Rows(kinds)' = Rows(kinds)
  <1>1. Objects' = Objects
    BY DEF Objects
  <1>2. \A kinds : Rows(kinds)' = Rows(kinds)
    BY <1>1 DEF Rows
  <1>3. \A o : Of(o)' = Of(o) /\ Kind(o)' = Kind(o)
    BY DEF Of, Kind
  <1>4. \A o : KeyIndexes(o)' = KeyIndexes(o)
    BY <1>2 DEF KeyIndexes
  <1>5. \A o : ToPartitioned(o)' = ToPartitioned(o)
    BY <1>3 DEF ToPartitioned
  <1>6. Tables' = Tables /\ Roots' = Roots
    BY <1>2 DEF Tables, Roots
  <1>7. UserSchemas' = UserSchemas
    BY <1>2, <1>3 DEF UserSchemas
  <1> QED
    BY <1>1, <1>2, <1>3, <1>4, <1>5, <1>6, <1>7

(* What a foreign key depends on stays.                                    *)
LEMMA KeyFrame ==
  ASSUME KeyInv, catalog' = catalog, deps \subseteq deps',
         made' \cap Rows({"fk", "index", "index attach"})
           = made \cap Rows({"fk", "index", "index attach"})
  PROVE  KeyInv'
  <1> SUFFICES ASSUME NEW f \in made' \cap Rows({"fk"}), ToPartitioned(f)
               PROVE  \E S : Covers(f, S)'
    BY SameRows DEF KeyInv
  <1>1. f \in made \cap Rows({"fk"})
    BY DEF Rows
  <1>2. PICK S : Covers(f, S)
    BY <1>1 DEF KeyInv
  <1>3. Attaches' = Attaches
    BY SameRows DEF Attaches, Rows
  <1>4. KeyIndexes(f)' \cap made' = KeyIndexes(f) \cap made
    BY SameRows DEF KeyIndexes, Rows
  <1>5. {Of(b)' : b \in S} = {Of(b) : b \in S}
    BY SameRows
  <1>6. Covers(f, S)'
    BY <1>2, <1>3, <1>4, <1>5, Zenon DEF Covers
  <1> QED
    BY <1>6

(* A reader that makes objects of the given types, none of them a schema,  *)
(* an extension or a table, keeps what the invariant says of the others.   *)
LEMMA ReaderKeepsOthers ==
  ASSUME SelectionInv, NEW k \in 5..44, NEW kinds, NEW new, Reader(k, kinds, new),
         kinds \cap Plain = {}
  PROVE  TypesInv' /\ RootsInv' /\ SchemasInv' /\ BesideInv'
  <1> USE SameRows DEF SelectionInv
  <1>1. /\ catalog' = catalog /\ request' = request /\ members' = members
        /\ contains' = contains /\ step = k /\ step' = k + 1
    BY DEF Reader
  <1>2. new \subseteq Objects /\ new \cap (Tables \cup Roots) = {}
    BY DEF Reader, Rows, Tables, Roots, Plain
  <1>3. TypesInv'
    BY <1>1, <1>2 DEF TypesInv, Reader
  <1>4. RootsInv'
    BY <1>1 DEF RootsInv, Reader
  <1>5. \A o \in Tables \cup Roots : dump'[o] = dump[o]
    BY <1>2 DEF Reader, Tables, Roots, Rows
  <1>6. \A o \in Tables \cup Roots : Defined(o)' <=> Defined(o)
    BY <1>5 DEF Defined
  <1>7. Own' = Own /\ Own \subseteq Roots /\ Rows({"namespace"}) \subseteq Roots
    BY <1>1 DEF Own, UserSchemas, Roots, Rows
  <1>8. Asked' = Asked
    BY <1>1 DEF Asked
  <1>9. SchemasInv'
    <2>1. k + 1 \in 1..45 /\ k > 4 /\ k + 1 > 5
      OBVIOUS
    <2>2. Rows({"namespace"}) \subseteq made'
      <3>1. Rows({"namespace"}) \subseteq made
        BY <1>1, <2>1 DEF SchemasInv
      <3> QED
        BY <3>1 DEF Reader
    <2>3. ~Asked => \A n \in Own : Defined(n)'
      BY <1>1, <1>6, <1>7, <2>1 DEF SchemasInv
    <2>4. Asked => \A n \in Rows({"namespace"}) : contains'[n] = {}
      BY <1>1, <2>1 DEF SchemasInv
    <2> QED
      BY <1>1, <1>7, <1>8, <2>1, <2>2, <2>3, <2>4 DEF SchemasInv
  <1>10. BesideInv'
    <2> SUFFICES ASSUME Asked PROVE
          /\ \A t \in Tables : "POLICY" \in dump'[t] => Defined(t)'
          /\ \A o \in made' \ Tables :
               /\ catalog[o].type # "shell"
               /\ catalog[o].ns # None /\ catalog[o].type # "index attach" /\ Weighty(o)' =>
                    TableBeside(o)'
      BY <1>1, <1>8 DEF BesideInv
    <2>1. \A t \in Tables : "POLICY" \in dump'[t] => Defined(t)'
      BY <1>5, <1>6 DEF BesideInv
    <2>2. ASSUME NEW o \in made' \ Tables
          PROVE /\ catalog[o].type # "shell"
                /\ catalog[o].ns # None /\ catalog[o].type # "index attach" /\ Weighty(o)' =>
                     TableBeside(o)
      <3>1. CASE o \in new
        BY <3>1 DEF Reader
      <3>2. CASE o \notin new
        <4>1. o \in made \ Tables /\ o \in Objects \ new
          BY <3>2, <2>2 DEF Reader, TypesInv
        <4>2. dump'[o] = dump[o]
          BY <4>1 DEF Reader
        <4>3. catalog[o].type # "index attach" => (Weighty(o)' <=> Weighty(o))
          BY <4>2, <1>1, SameWeight
        <4> QED
          BY <4>1, <4>3 DEF BesideInv
      <3> QED
        BY <3>1, <3>2
    <2>3. \A o : TableBeside(o) => TableBeside(o)'
      BY <1>1, <1>6, StillBeside
    <2> QED
      BY <2>1, <2>2, <2>3
  <1> QED
    BY <1>3, <1>4, <1>9, <1>10

(* Between the tables and the marks nothing is said of the tables' schemas; *)
(* after the marks no table becomes defined.                               *)
LEMMA ReaderKeepsSchemas ==
  ASSUME SelectionInv, NEW k \in 5..44, k # 42, NEW kinds, NEW new,
         Reader(k, kinds, new), kinds \cap Plain = {}
  PROVE  TableSchemasInv'
  <1> USE SameRows DEF SelectionInv
  <1>1. /\ catalog' = catalog /\ request' = request /\ step = k /\ step' = k + 1
    BY DEF Reader
  <1>2. \A o \in Tables \cup Rows({"namespace"}) : o \in Objects \ new
    BY DEF Reader, Rows, Tables, Plain
  <1>3. \A o \in Tables \cup Rows({"namespace"}) : Defined(o)' <=> Defined(o)
    BY <1>2 DEF Reader, Defined
  <1>4. Asked' = Asked
    BY <1>1 DEF Asked
  <1>5. UserSchemas \subseteq Rows({"namespace"})
    BY DEF UserSchemas
  <1>6. k + 1 > 42 => k > 42
    OBVIOUS
  <1> QED
    BY <1>1, <1>3, <1>4, <1>5, <1>6 DEF TableSchemasInv

(* A reader that makes no index, attachment or foreign key.                *)
LEMMA OrdinaryReader ==
  ASSUME SelectionInv, NEW k \in 5..44, k # 42, NEW kinds, NEW new,
         Reader(k, kinds, new),
         kinds \cap (Plain \cup {"fk", "index", "index attach"}) = {}
  PROVE  SelectionInv'
  <1> USE SameRows
  <1>1. catalog' = catalog /\ deps \subseteq deps' /\ step = k /\ step' = k + 1
    BY DEF Reader
  <1>2. made' \cap Rows({"fk", "index", "index attach"})
          = made \cap Rows({"fk", "index", "index attach"})
    BY DEF Reader, Rows
  <1>3. KeyInv'
    BY <1>1, <1>2, KeyFrame DEF SelectionInv
  <1>4. AttachInv'
    <2> SUFFICES ASSUME NEW a \in made' \cap Rows({"index attach"}) PROVE Of(a) \in made'
      BY <1>1 DEF AttachInv
    <2>1. a \in made \cap Rows({"index attach"})
      BY <1>2 DEF Rows
    <2> QED
      BY <2>1 DEF SelectionInv, AttachInv, Reader
  <1>5. step' <= 33 => made' \cap Rows({"fk"})' = {}
    <2>1. k + 1 <= 33 => k <= 33
      BY NextNumber
    <2>2. step <= 33 => made \cap Rows({"fk"}) = {}
      BY DEF SelectionInv
    <2>3. made' \cap Rows({"fk"}) = made \cap Rows({"fk"})
      BY <1>2 DEF Rows
    <2> QED
      BY <1>1, <2>1, <2>2, <2>3
  <1> QED
    BY <1>3, <1>4, <1>5, ReaderKeepsOthers, ReaderKeepsSchemas DEF SelectionInv, Plain

(* Before the foreign keys are read.                                       *)
LEMMA EarlyReader ==
  ASSUME SelectionInv, NEW k \in 5..44, k <= 32, NEW kinds, NEW new,
         Reader(k, kinds, new), kinds \cap (Plain \cup {"fk"}) = {},
         \A a \in new : catalog[a].type = "index attach" => Of(a) \in made
  PROVE  SelectionInv'
  <1> USE SameRows
  <1>1. catalog' = catalog /\ step = k
    BY DEF Reader
  <1>2. made' \cap Rows({"fk"})' = {}
    <2>1. made \cap Rows({"fk"}) = {}
      <3>1. step <= 33
        BY <1>1, NextNumber
      <3> QED
        BY <3>1 DEF SelectionInv
    <2>2. new \cap Rows({"fk"}) = {}
      BY DEF Reader, Rows
    <2> QED
      BY <1>1, <2>1, <2>2 DEF Reader
  <1>3. KeyInv'
    BY <1>1, <1>2 DEF KeyInv
  <1>4. AttachInv'
    <2> SUFFICES ASSUME NEW a \in made' \cap Rows({"index attach"}) PROVE Of(a) \in made'
      BY <1>1 DEF AttachInv
    <2>1. catalog[a].type = "index attach" /\ (a \in new \/ a \in made \cap Rows({"index attach"}))
      BY DEF Rows, Reader
    <2>2. Of(a) \in made
      BY <2>1 DEF SelectionInv, AttachInv
    <2> QED
      BY <2>2 DEF Reader
  <1>5. k # 42 /\ kinds \cap Plain = {}
    BY NextNumber
  <1> QED
    BY <1>2, <1>3, <1>4, <1>5, ReaderKeepsOthers, ReaderKeepsSchemas DEF SelectionInv

-----------------------------------------------------------------------------
(* The readers that take the rows of one type.                             *)

(* A reader is called once, in its turn.                                   *)
LEMMA TurnFacts ==
  ASSUME NEW k \in 1..44, k # 3, Turn(Steps[k])
  PROVE  step = k /\ step' = k + 1 /\ catalog' = catalog /\ request' = request
  <1>1. step = k
    BY NumberOfStep DEF Turn
  <1>2. Steps[3] = "namespaces"
    BY DEF Steps
  <1>3. Steps[k] # "namespaces"
    BY <1>2, StepsNumbered
  <1> QED
    BY <1>1, <1>3 DEF Turn

(* Members of an extension depend on extensions only.                      *)
LEMMA MemberDepsFacts ==
  ASSUME TypesInv, NEW new, new \subseteq Objects
  PROVE  MemberDeps(new) \subseteq Objects \X Objects /\ \A d \in MemberDeps(new) : d[2] \in Roots
  <1> SUFFICES ASSUME NEW o \in new \cap members
               PROVE  <<o, catalog[o].ext>> \in Objects \X Objects /\ catalog[o].ext \in Roots
    BY DEF MemberDeps
  <1>1. o \in Objects /\ catalog[o].ext # None
    BY DEF TypesInv
  <1>2. catalog[o].ext \in Rows({"extension"})
    BY <1>1, WellFormedFacts DEF TypesInv
  <1> QED
    BY <1>1, <1>2 DEF Rows, Roots

(* AssignDumpId makes the objects of a mask and marks them.                *)
LEMMA AssignFacts ==
  ASSUME NEW mask, AssignDumpId(mask), catalog' = catalog
  PROVE  /\ made' = made \cup DOMAIN mask /\ DOMAIN dump' = Objects
         /\ \A o \in Objects \ DOMAIN mask : dump'[o] = dump[o]
         /\ \A o \in Objects \cap DOMAIN mask : dump'[o] = mask[o]
  BY DEF AssignDumpId

(* The rows of some types.                                                 *)
LEMMA RowTypes ==
  \A types : \A o \in Rows(types) : o \in Objects /\ catalog[o].type \in types
  BY DEF Rows

(* The types whose readers are not of this kind.                           *)
Special == {"namespace", "extension", "table", "fk", "index", "index attach",
            "table attach", "default acl", "shell"}

(* The readers of one type of object.                                      *)
LEMMA ReadsOneType ==
  ASSUME SelectionInv, NEW k \in 5..44, k # 42, NEW mask, Reads(Steps[k], mask),
         NEW type, DOMAIN mask \subseteq Rows({type}),
         type \notin Special,
         Asked => \A o \in DOMAIN mask :
           catalog[o].ns # None => mask[o] \subseteq {"ACL"} \/ TableBeside(o)
  PROVE  SelectionInv'
  <1> DEFINE new == DOMAIN mask
  <1>1. step = k /\ step' = k + 1 /\ catalog' = catalog /\ request' = request
    <2>1. k \in 1..44 /\ k # 3
      OBVIOUS
    <2> QED
      BY <2>1, TurnFacts DEF Reads
  <1>2. new \subseteq Objects
    BY RowTypes
  <1>3. /\ made' = made \cup new /\ DOMAIN dump' = Objects
        /\ \A o \in Objects \ new : dump'[o] = dump[o]
        /\ \A o \in new : dump'[o] = mask[o]
    BY <1>1, <1>2, AssignFacts DEF Reads
  <1>4. TypesInv
    BY DEF SelectionInv
  <1>5. /\ deps \subseteq deps' /\ deps' \subseteq Objects \X Objects
        /\ \A d \in deps' \ deps : d[1] \in Roots => d[2] \in Roots
    BY <1>2, <1>4, MemberDepsFacts DEF Reads, TypesInv
  <1>6. ASSUME Asked, NEW o \in new
        PROVE  /\ catalog[o].type # "shell"
               /\ catalog[o].ns # None /\ catalog[o].type # "index attach" /\ Weighty(o)' =>
                    TableBeside(o)
    <2>1. catalog[o].type = type
      BY RowTypes
    <2>2. dump'[o] \subseteq {"ACL"} => ~Weighty(o)'
      BY <1>1, <2>1, LightWeight DEF Special
    <2> QED
      BY <1>3, <1>6, <2>1, <2>2 DEF Special
  <1>7. Reader(k, {type}, new)
    BY <1>1, <1>3, <1>4, <1>5, <1>6 DEF Reader, Reads, TypesInv
  <1>8. {type} \cap (Plain \cup {"fk", "index", "index attach"}) = {}
    BY DEF Plain, Special
  <1> QED
    BY <1>7, <1>8, OrdinaryReader

(* selectDumpableObject leaves privileges at most when a query names       *)
(* tables.                                                                 *)
LEMMA DumpableIsLight ==
  ASSUME SelectionInv, step > 3, Asked, NEW o \in Objects, catalog[o].ns # None
  PROVE  /\ SelectDumpableObject(o) \subseteq {"ACL"}
         /\ \A mask : mask \subseteq {"ACL"} => UnlessMember(o, mask) \subseteq {"ACL"}
         /\ contains[catalog[o].ns] = {}
  <1>1. contains[catalog[o].ns] = {}
    <2>1. catalog[o].ns \in Rows({"namespace"})
      BY WellFormedFacts DEF SelectionInv, TypesInv
    <2> QED
      BY <2>1 DEF SelectionInv, SchemasInv
  <1> QED
    BY <1>1 DEF SelectDumpableObject, UnlessMember, MemberMask

(* The same, where selectDumpableObject decides.                           *)
LEMMA ReadsDumpable ==
  ASSUME SelectionInv, NEW k \in 5..44, k # 42, NEW type, NEW rows, rows \subseteq Rows({type}),
         Reads(Steps[k], Dumpable(rows)),
         type \notin Special
  PROVE  SelectionInv'
  <1>1. DOMAIN Dumpable(rows) = rows /\ \A o \in rows : Dumpable(rows)[o] = SelectDumpableObject(o)
    BY DEF Dumpable
  <1>2. step = k /\ k > 3
    <2>1. k \in 1..44 /\ k # 3
      OBVIOUS
    <2> QED
      BY <2>1, TurnFacts DEF Reads
  <1>3. Asked => \A o \in rows : catalog[o].ns # None => SelectDumpableObject(o) \subseteq {"ACL"}
    BY <1>2, DumpableIsLight, RowTypes
  <1> DEFINE mask == Dumpable(rows)
  <1>4. /\ Reads(Steps[k], mask) /\ DOMAIN mask \subseteq Rows({type})
        /\ Asked => \A o \in DOMAIN mask :
             catalog[o].ns # None => mask[o] \subseteq {"ACL"} \/ TableBeside(o)
    BY <1>1, <1>3
  <1> HIDE DEF mask
  <1> QED
    BY <1>4, ReadsOneType

(* The same, for every row of the type.                                    *)
LEMMA ReadsAllDumpable ==
  ASSUME SelectionInv, NEW k \in 5..44, k # 42, NEW type, ReadsAll(Steps[k], type),
         type \notin Special
  PROVE  SelectionInv'
  BY ReadsDumpable DEF ReadsAll
(* The readers of schemas' objects whose rows are all taken.               *)
LEMMA ReadsAllReaders ==
  ASSUME SelectionInv,
         \/ GetOperators
         \/ GetOpclasses
         \/ GetOpfamilies
         \/ GetTSParsers
         \/ GetTSTemplates
         \/ GetTSDictionaries
         \/ GetTSConfigurations
         \/ GetForeignDataWrappers
         \/ GetForeignServers
         \/ GetCollations
         \/ GetConversions
         \/ GetTransforms
         \/ GetEventTriggers
         \/ GetPublications
  PROVE  SelectionInv'
  <1>1. CASE GetOperators
    <2>1. Steps[10] = "operators"
      BY DEF Steps
    <2>2. ReadsAll(Steps[10], "operator")
      BY <1>1, <2>1 DEF GetOperators
    <2>3. 10 \in 5..44 /\ 10 # 42 /\ "operator" \notin Special
      BY DEF Special
    <2> QED
      BY <2>2, <2>3, ReadsAllDumpable
  <1>2. CASE GetOpclasses
    <2>1. Steps[12] = "opclasses"
      BY DEF Steps
    <2>2. ReadsAll(Steps[12], "opclass")
      BY <1>2, <2>1 DEF GetOpclasses
    <2>3. 12 \in 5..44 /\ 12 # 42 /\ "opclass" \notin Special
      BY DEF Special
    <2> QED
      BY <2>2, <2>3, ReadsAllDumpable
  <1>3. CASE GetOpfamilies
    <2>1. Steps[13] = "opfamilies"
      BY DEF Steps
    <2>2. ReadsAll(Steps[13], "opfamily")
      BY <1>3, <2>1 DEF GetOpfamilies
    <2>3. 13 \in 5..44 /\ 13 # 42 /\ "opfamily" \notin Special
      BY DEF Special
    <2> QED
      BY <2>2, <2>3, ReadsAllDumpable
  <1>4. CASE GetTSParsers
    <2>1. Steps[14] = "parsers"
      BY DEF Steps
    <2>2. ReadsAll(Steps[14], "parser")
      BY <1>4, <2>1 DEF GetTSParsers
    <2>3. 14 \in 5..44 /\ 14 # 42 /\ "parser" \notin Special
      BY DEF Special
    <2> QED
      BY <2>2, <2>3, ReadsAllDumpable
  <1>5. CASE GetTSTemplates
    <2>1. Steps[15] = "templates"
      BY DEF Steps
    <2>2. ReadsAll(Steps[15], "template")
      BY <1>5, <2>1 DEF GetTSTemplates
    <2>3. 15 \in 5..44 /\ 15 # 42 /\ "template" \notin Special
      BY DEF Special
    <2> QED
      BY <2>2, <2>3, ReadsAllDumpable
  <1>6. CASE GetTSDictionaries
    <2>1. Steps[16] = "dictionaries"
      BY DEF Steps
    <2>2. ReadsAll(Steps[16], "dictionary")
      BY <1>6, <2>1 DEF GetTSDictionaries
    <2>3. 16 \in 5..44 /\ 16 # 42 /\ "dictionary" \notin Special
      BY DEF Special
    <2> QED
      BY <2>2, <2>3, ReadsAllDumpable
  <1>7. CASE GetTSConfigurations
    <2>1. Steps[17] = "text configs"
      BY DEF Steps
    <2>2. ReadsAll(Steps[17], "text config")
      BY <1>7, <2>1 DEF GetTSConfigurations
    <2>3. 17 \in 5..44 /\ 17 # 42 /\ "text config" \notin Special
      BY DEF Special
    <2> QED
      BY <2>2, <2>3, ReadsAllDumpable
  <1>8. CASE GetForeignDataWrappers
    <2>1. Steps[18] = "fdws"
      BY DEF Steps
    <2>2. ReadsAll(Steps[18], "fdw")
      BY <1>8, <2>1 DEF GetForeignDataWrappers
    <2>3. 18 \in 5..44 /\ 18 # 42 /\ "fdw" \notin Special
      BY DEF Special
    <2> QED
      BY <2>2, <2>3, ReadsAllDumpable
  <1>9. CASE GetForeignServers
    <2>1. Steps[19] = "servers"
      BY DEF Steps
    <2>2. ReadsAll(Steps[19], "server")
      BY <1>9, <2>1 DEF GetForeignServers
    <2>3. 19 \in 5..44 /\ 19 # 42 /\ "server" \notin Special
      BY DEF Special
    <2> QED
      BY <2>2, <2>3, ReadsAllDumpable
  <1>10. CASE GetCollations
    <2>1. Steps[21] = "collations"
      BY DEF Steps
    <2>2. ReadsAll(Steps[21], "collation")
      BY <1>10, <2>1 DEF GetCollations
    <2>3. 21 \in 5..44 /\ 21 # 42 /\ "collation" \notin Special
      BY DEF Special
    <2> QED
      BY <2>2, <2>3, ReadsAllDumpable
  <1>11. CASE GetConversions
    <2>1. Steps[22] = "conversions"
      BY DEF Steps
    <2>2. ReadsAll(Steps[22], "conversion")
      BY <1>11, <2>1 DEF GetConversions
    <2>3. 22 \in 5..44 /\ 22 # 42 /\ "conversion" \notin Special
      BY DEF Special
    <2> QED
      BY <2>2, <2>3, ReadsAllDumpable
  <1>12. CASE GetTransforms
    <2>1. Steps[24] = "transforms"
      BY DEF Steps
    <2>2. ReadsAll(Steps[24], "transform")
      BY <1>12, <2>1 DEF GetTransforms
    <2>3. 24 \in 5..44 /\ 24 # 42 /\ "transform" \notin Special
      BY DEF Special
    <2> QED
      BY <2>2, <2>3, ReadsAllDumpable
  <1>13. CASE GetEventTriggers
    <2>1. Steps[25] = "event triggers"
      BY DEF Steps
    <2>2. ReadsAll(Steps[25], "event trigger")
      BY <1>13, <2>1 DEF GetEventTriggers
    <2>3. 25 \in 5..44 /\ 25 # 42 /\ "event trigger" \notin Special
      BY DEF Special
    <2> QED
      BY <2>2, <2>3, ReadsAllDumpable
  <1>14. CASE GetPublications
    <2>1. Steps[37] = "publications"
      BY DEF Steps
    <2>2. ReadsAll(Steps[37], "publication")
      BY <1>14, <2>1 DEF GetPublications
    <2>3. 37 \in 5..44 /\ 37 # 42 /\ "publication" \notin Special
      BY DEF Special
    <2> QED
      BY <2>2, <2>3, ReadsAllDumpable
  <1> QED
    BY <1>1, <1>2, <1>3, <1>4, <1>5, <1>6, <1>7, <1>8, <1>9, <1>10, <1>11, <1>12, <1>13, <1>14

(* The readers that skip rows or have a select routine of their own.       *)
LEMMA ReadsSomeReaders ==
  ASSUME SelectionInv, GetFuncs \/ GetAggregates \/ GetSubscriptions
  PROVE  SelectionInv'
  <1>1. CASE GetFuncs
    <2>1. Steps[6] = "funcs"
      BY DEF Steps
    <2>2. \E rows : rows \subseteq Rows({"func"}) /\ Reads(Steps[6], Dumpable(rows))
      BY <1>1, <2>1 DEF GetFuncs
    <2>3. 6 \in 5..44 /\ 6 # 42 /\ "func" \notin Special
      BY DEF Special
    <2> QED
      BY <2>2, <2>3, ReadsDumpable
  <1>2. CASE GetAggregates
    <2>1. Steps[9] = "aggregates"
      BY DEF Steps
    <2>2. \E rows : rows \subseteq Rows({"agg"}) /\ Reads(Steps[9], Dumpable(rows))
      BY <1>2, <2>1 DEF GetAggregates
    <2>3. 9 \in 5..44 /\ 9 # 42 /\ "agg" \notin Special
      BY DEF Special
    <2> QED
      BY <2>2, <2>3, ReadsDumpable
  <1>3. CASE GetSubscriptions
    <2>1. Steps[40] = "subscriptions"
      BY DEF Steps
    <2>2. \E rows : rows \subseteq Rows({"subscription"}) /\ Reads(Steps[40], Dumpable(rows))
      BY <1>3, <2>1 DEF GetSubscriptions
    <2>3. 40 \in 5..44 /\ 40 # 42 /\ "subscription" \notin Special
      BY DEF Special
    <2> QED
      BY <2>2, <2>3, ReadsDumpable
  <1> QED
    BY <1>1, <1>2, <1>3

(* A part of a table to be created is in the schema of that table.         *)
LEMMA BesideItsTable ==
  ASSUME catalog \in Catalogs, NEW o \in Objects,
         catalog[o].type \in TableParts \cup {"constraint"},
         Of(o) \in Tables, Defined(Of(o))
  PROVE  TableBeside(o)
  BY PartFacts DEF TableBeside

(* Objects without a schema.                                               *)
LEMMA ReadsGlobals ==
  ASSUME SelectionInv,
         GetProcLangs \/ GetAccessMethods \/ GetPublicationNamespaces
  PROVE  SelectionInv'
  <1>0. \A o \in Rows({"language", "access method", "publication schema"}) : catalog[o].ns = None
    <2> SUFFICES ASSUME NEW o \in Rows({"language", "access method", "publication schema"})
                 PROVE  catalog[o].ns = None
      OBVIOUS
    <2>1. o \in Objects
      BY DEF Rows
    <2> QED
      BY <2>1, WellFormedFacts DEF Rows, SelectionInv, TypesInv
  <1>1. CASE GetProcLangs
    <2>1. Steps[8] = "languages"
      BY DEF Steps
    <2> DEFINE mask == [l \in Rows({"language"}) |-> SelectDumpableProcLang(l)]
    <2>2. Reads(Steps[8], mask) /\ DOMAIN mask = Rows({"language"})
      BY <1>1, <2>1 DEF GetProcLangs
    <2>3. \A o \in DOMAIN mask : catalog[o].ns = None
      BY <1>0, <2>2 DEF Rows
    <2>4. 8 \in 5..44 /\ 8 # 42 /\ "language" \notin Special
      BY DEF Special
    <2> HIDE DEF mask
    <2> QED
      BY <2>2, <2>3, <2>4, ReadsOneType
  <1>2. CASE GetAccessMethods
    <2>1. Steps[11] = "access methods"
      BY DEF Steps
    <2> DEFINE mask == [m \in Rows({"access method"}) |-> SelectDumpableAccessMethod(m)]
    <2>2. Reads(Steps[11], mask) /\ DOMAIN mask = Rows({"access method"})
      BY <1>2, <2>1 DEF GetAccessMethods
    <2>3. \A o \in DOMAIN mask : catalog[o].ns = None
      BY <1>0, <2>2 DEF Rows
    <2>4. 11 \in 5..44 /\ 11 # 42 /\ "access method" \notin Special
      BY DEF Special
    <2> HIDE DEF mask
    <2> QED
      BY <2>2, <2>3, <2>4, ReadsOneType
  <1>3. CASE GetPublicationNamespaces
    <2>1. Steps[39] = "publication schemas"
      BY DEF Steps
    <2> DEFINE mask == [p \in {q \in Rows({"publication schema"}) : dump[Of(q)] # {}} |->
                          SelectDumpablePublicationObject(p)]
    <2>2. Reads(Steps[39], mask) /\ DOMAIN mask \subseteq Rows({"publication schema"})
      BY <1>3, <2>1 DEF GetPublicationNamespaces
    <2>3. \A o \in DOMAIN mask : catalog[o].ns = None
      BY <1>0, <2>2 DEF Rows
    <2>4. 39 \in 5..44 /\ 39 # 42 /\ "publication schema" \notin Special
      BY DEF Special
    <2> HIDE DEF mask
    <2> QED
      BY <2>2, <2>3, <2>4, ReadsOneType
  <1> QED
    BY <1>1, <1>2, <1>3

(* Objects that follow the schema of a table.                              *)
LEMMA ReadsLight ==
  ASSUME SelectionInv, GetCasts \/ GetExtendedStatistics \/ GetPublicationTables
  PROVE  SelectionInv'
  <1>1. CASE GetCasts
    <2>1. Steps[23] = "casts"
      BY DEF Steps
    <2> DEFINE mask == [c \in Rows({"cast"}) |-> SelectDumpableCast(c)]
    <2>2. Reads(Steps[23], mask) /\ DOMAIN mask = Rows({"cast"})
      BY <1>1, <2>1 DEF GetCasts
    <2>3. \A o \in DOMAIN mask : mask[o] \subseteq {"ACL"}
      BY DEF SelectDumpableCast, UnlessMember, MemberMask
    <2>4. 23 \in 5..44 /\ 23 # 42 /\ "cast" \notin Special
      BY DEF Special
    <2> HIDE DEF mask
    <2> QED
      BY <2>2, <2>3, <2>4, ReadsOneType
  <1>2. CASE GetExtendedStatistics
    <2>1. Steps[32] = "statistics"
      BY DEF Steps
    <2> DEFINE mask == [s \in Rows({"statistics"}) |-> SelectDumpableStatisticsObject(s)]
    <2>2. Reads(Steps[32], mask) /\ DOMAIN mask = Rows({"statistics"})
      BY <1>2, <2>1 DEF GetExtendedStatistics
    <2>3. step > 3
      <3>1. step = 32
        BY <2>2, TurnFacts DEF Reads
      <3> QED
        BY <3>1
    <2>4. ASSUME Asked, NEW o \in Rows({"statistics"}), catalog[o].ns # None
          PROVE  SelectDumpableStatisticsObject(o) \subseteq {"ACL"}
      <3>1. o \in Objects
        BY DEF Rows
      <3>2. contains[catalog[o].ns] = {}
            /\ \A m : m \subseteq {"ACL"} => UnlessMember(o, m) \subseteq {"ACL"}
        BY <2>3, <2>4, <3>1, DumpableIsLight
      <3> QED
        BY <3>2 DEF SelectDumpableStatisticsObject
    <2>5. Asked => \A o \in DOMAIN mask : catalog[o].ns # None => mask[o] \subseteq {"ACL"}
      BY <2>4
    <2>6. 32 \in 5..44 /\ 32 # 42 /\ "statistics" \notin Special
      BY DEF Special
    <2> HIDE DEF mask
    <2> QED
      BY <2>2, <2>5, <2>6, ReadsOneType
  <1>3. CASE GetPublicationTables
    <2>1. Steps[38] = "publication tables"
      BY DEF Steps
    <2> DEFINE mask == [p \in {q \in Rows({"publication table"}) : Defined(Of(q))} |->
                          SelectDumpablePublicationObject(p)]
    <2>2. Reads(Steps[38], mask) /\ DOMAIN mask \subseteq Rows({"publication table"})
      BY <1>3, <2>1 DEF GetPublicationTables
    <2>3. ASSUME NEW o \in DOMAIN mask PROVE TableBeside(o)
      <3>1. o \in Objects /\ catalog[o].type = "publication table" /\ Defined(Of(o))
        BY <2>3 DEF Rows
      <3>2. Of(o) \in Tables /\ catalog[o].type \in TableParts
        BY <3>1, PartFacts DEF TableParts, SelectionInv, TypesInv
      <3> QED
        BY <3>1, <3>2, BesideItsTable DEF SelectionInv, TypesInv
    <2>4. 38 \in 5..44 /\ 38 # 42 /\ "publication table" \notin Special
      BY DEF Special
    <2> HIDE DEF mask
    <2> QED
      BY <2>2, <2>3, <2>4, ReadsOneType
  <1> QED
    BY <1>1, <1>2, <1>3

-----------------------------------------------------------------------------
(* The readers of types, of default privileges and of the parts of tables. *)

(* getTypes: the shell types and the checks of domains with the types.     *)
LEMMA TypesReader == ASSUME SelectionInv, GetTypes PROVE SelectionInv'
  <1> DEFINE types   == Rows({"type"})
             defined == {t \in types : "DEFINITION" \in SelectDumpableType(t)}
             checks  == DomainChecks(defined)
             shells  == ShellTypes(defined)
             apart   == {c \in checks : ~Is(c, "validated")}
             mask    == [o \in types \cup checks \cup shells |->
                          IF o \in types THEN SelectDumpableType(o)
                          ELSE IF o \in checks THEN ALL ELSE {}]
  <1>0. Steps[7] = "types"
    BY DEF Steps
  <1>1. step = 7 /\ step' = 7 + 1 /\ catalog' = catalog /\ request' = request
    BY <1>0, TurnFacts DEF GetTypes
  <1>2. /\ AssignDumpId(mask)
        /\ deps' = deps \cup MemberDeps({t \in types : Kind(t) # "row"})
                        \cup {<<Of(c), c>> : c \in checks \ apart}
        /\ UNCHANGED <<members, contains, interesting>>
    BY DEF GetTypes
  <1>3. types \subseteq Objects /\ checks \subseteq Rows({"constraint"}) /\ shells \subseteq Rows({"shell"})
    BY DEF Rows, DomainChecks, ShellTypes
  <1>4. /\ checks \subseteq Objects /\ shells \subseteq Objects
        /\ \A c \in checks : catalog[c].type = "constraint" /\ Of(c) \in defined /\ Kind(Of(c)) = "domain"
        /\ \A s \in shells : catalog[s].type = "shell" /\ Of(s) \in defined /\ Kind(Of(s)) \in {"base", "range", "array"}
        /\ \A t \in types : t \in Objects /\ catalog[t].type = "type"
        /\ \A t \in defined : t \in Objects /\ catalog[t].type = "type"
    BY DEF Rows, DomainChecks, ShellTypes
  <1>5. TypesInv /\ catalog \in Catalogs
    BY DEF SelectionInv, TypesInv
  <1>6. ASSUME Asked, NEW t \in types, Kind(t) # "row" PROVE SelectDumpableType(t) \subseteq {"ACL"}
    <2>1. catalog[t].ns # None /\ t \in Objects
      BY <1>4, <1>5, WellFormedFacts
    <2>2. contains[catalog[t].ns] = {} /\ \A m : m \subseteq {"ACL"} => UnlessMember(t, m) \subseteq {"ACL"}
      BY <1>1, <1>6, <2>1, DumpableIsLight
    <2> QED
      BY <1>6, <2>2 DEF SelectDumpableType
  <1>7. Asked => \A t \in defined : Kind(t) = "row"
    BY <1>6
  <1>8. Asked => checks = {} /\ shells = {}
    BY <1>4, <1>7
  <1>9. DOMAIN mask = types \cup checks \cup shells /\ DOMAIN mask \subseteq Objects
    BY <1>3, <1>4
  <1>10. /\ made' = made \cup DOMAIN mask /\ DOMAIN dump' = Objects
         /\ \A o \in Objects \ DOMAIN mask : dump'[o] = dump[o]
         /\ \A o \in DOMAIN mask : dump'[o] = mask[o]
    <2> HIDE DEF mask
    <2> QED
      BY <1>1, <1>2, <1>9, AssignFacts
  <1>11. \A t \in types : mask[t] = SelectDumpableType(t)
    OBVIOUS
  <1> HIDE DEF mask, checks, shells, apart
  <1>12. ASSUME Asked, NEW o \in DOMAIN mask
         PROVE  catalog[o].type # "shell" /\ (Weighty(o)' => TableBeside(o))
    <2>1. o \in types /\ catalog[o].type = "type"
      BY <1>4, <1>8, <1>9, <1>12
    <2>2. CASE Kind(o) = "row"
      <3>1. ~Weighty(o)'
        BY <1>1, <2>1, <2>2 DEF Weighty, Kind
      <3> QED
        BY <2>1, <3>1
    <2>3. CASE Kind(o) # "row"
      <3>1. dump'[o] \subseteq {"ACL"}
        BY <1>6, <1>10, <1>11, <1>12, <2>1, <2>3
      <3>2. ~Weighty(o)'
        BY <1>1, <2>1, <3>1, LightWeight
      <3> QED
        BY <2>1, <3>2
    <2> QED
      BY <2>2, <2>3
  <1>13. /\ deps \subseteq deps' /\ deps' \subseteq Objects \X Objects
         /\ \A d \in deps' \ deps : d[1] \in Roots => d[2] \in Roots
    <2>1. {t \in types : Kind(t) # "row"} \subseteq Objects
      BY <1>3
    <2>2. MemberDeps({t \in types : Kind(t) # "row"}) \subseteq Objects \X Objects
          /\ \A d \in MemberDeps({t \in types : Kind(t) # "row"}) : d[2] \in Roots
      BY <1>5, <2>1, MemberDepsFacts, Zenon
    <2>3. \A c \in checks : Of(c) \in Objects \ Roots /\ c \in Objects
      BY <1>4 DEF Roots, Rows
    <2>4. deps \subseteq Objects \X Objects
      BY <1>5 DEF TypesInv
    <2>5. {<<Of(c), c>> : c \in checks \ apart} \subseteq (Objects \ Roots) \X Objects
      BY <2>3
    <2> HIDE DEF types
    <2> QED
      BY <1>2, <2>2, <2>4, <2>5
  <1>14. DOMAIN mask \subseteq Rows({"type", "constraint", "shell"})
    BY <1>4, <1>9 DEF Rows
  <1>15. interesting' \subseteq Tables
    BY <1>2, <1>5 DEF TypesInv
  <1> HIDE DEF types, defined
  <1>16. Reader(7, {"type", "constraint", "shell"}, DOMAIN mask)
    BY <1>1, <1>2, <1>10, <1>12, <1>13, <1>14, <1>15, Zenon DEF Reader
  <1>17. {"type", "constraint", "shell"} \cap (Plain \cup {"fk"}) = {}
         /\ \A a \in DOMAIN mask : catalog[a].type # "index attach"
    BY <1>14 DEF Plain, Rows
  <1>18. 7 \in 5..44 /\ 7 <= 32
    OBVIOUS
  <1> QED
    BY <1>16, <1>17, <1>18, EarlyReader

(* getDefaultACLs: default privileges may name a schema.                   *)
LEMMA DefaultACLsReader == ASSUME SelectionInv, GetDefaultACLs PROVE SelectionInv'
  <1> DEFINE rows == Rows({"default acl"})
             mask == [d \in rows |-> SelectDumpableDefaultACL(d)]
  <1>0. Steps[20] = "default acls"
    BY DEF Steps
  <1>1. step = 20 /\ step' = 20 + 1 /\ catalog' = catalog /\ request' = request
    <2>1. Turn("default acls")
      BY DEF GetDefaultACLs
    <2>2. 20 \in 1..44 /\ 20 # 3
      OBVIOUS
    <2> QED
      BY <1>0, <2>1, <2>2, TurnFacts
  <1>2. AssignDumpId(mask) /\ UNCHANGED <<members, contains, interesting, deps>>
    BY DEF GetDefaultACLs
  <1>3. DOMAIN mask = rows /\ rows \subseteq Objects /\ \A d \in rows : catalog[d].type = "default acl"
    BY DEF Rows
  <1>4. \A d \in rows : mask[d] = SelectDumpableDefaultACL(d)
    OBVIOUS
  <1> HIDE DEF mask, rows
  <1>5. /\ made' = made \cup rows /\ DOMAIN dump' = Objects
        /\ \A o \in Objects \ rows : dump'[o] = dump[o]
        /\ \A o \in rows : dump'[o] = mask[o]
    BY <1>1, <1>2, <1>3, AssignFacts
  <1>6. ASSUME Asked, NEW o \in rows, catalog[o].ns # None PROVE ~Weighty(o)'
    <2>0. o \in Objects
      BY <1>3, <1>6
    <2>3. step > 3
      BY <1>1
    <2>1. contains[catalog[o].ns] = {}
      BY <2>0, <2>3, <1>6, DumpableIsLight
    <2>2. dump'[o] = {}
      BY <1>4, <1>5, <1>6, <2>1 DEF SelectDumpableDefaultACL
    <2> QED
      BY <1>1, <1>3, <2>2 DEF Weighty
  <1>7. TypesInv
    BY DEF SelectionInv
  <1>8. Asked => \A o \in rows :
           /\ catalog[o].type # "shell"
           /\ catalog[o].ns # None /\ catalog[o].type # "index attach" /\ Weighty(o)' =>
                TableBeside(o)
    BY <1>3, <1>6
  <1>9. deps' = deps /\ deps \subseteq Objects \X Objects /\ interesting' \subseteq Tables
    BY <1>2, <1>7 DEF TypesInv
  <1>10. Reader(20, {"default acl"}, rows)
    BY <1>1, <1>2, <1>5, <1>8, <1>9 DEF Reader, rows
  <1>11. {"default acl"} \cap (Plain \cup {"fk"}) = {} /\ 20 \in 5..44 /\ 20 <= 32
    BY DEF Plain
  <1>12. \A a \in rows : catalog[a].type # "index attach"
    BY <1>3
  <1> QED
    BY <1>10, <1>11, <1>12, EarlyReader

(* A reader of parts of tables keeps the invariant if it marks them only   *)
(* where their table is to be created.                                     *)
LEMMA PartsAreReader ==
  ASSUME TypesInv, NEW k \in Nat, NEW mask, NEW kinds,
         kinds \subseteq TableParts \cup {"constraint"},
         step = k, step' = k + 1, UNCHANGED <<catalog, request, members, contains>>,
         interesting' \subseteq Tables, AssignDumpId(mask), DOMAIN mask \subseteq Rows(kinds),
         \A o \in DOMAIN mask :
           Of(o) \in Tables /\ (Asked /\ Weighty(o)' => Defined(Of(o))),
         deps \subseteq deps',
         \A d \in deps' \ deps : d \in (Objects \ Roots) \X Objects
  PROVE  Reader(k, kinds, DOMAIN mask)
  <1> DEFINE new == DOMAIN mask
  <1>1. new \subseteq Objects /\ \A o \in new : catalog[o].type \in kinds
    BY DEF Rows
  <1>2. /\ made' = made \cup new /\ DOMAIN dump' = Objects
        /\ \A o \in Objects \ new : dump'[o] = dump[o]
    BY <1>1, AssignFacts
  <1>3. ASSUME Asked, NEW o \in new
        PROVE  catalog[o].type # "shell" /\ (Weighty(o)' => TableBeside(o))
    <2>1. catalog[o].type \in TableParts \cup {"constraint"} /\ catalog[o].type # "shell"
      BY <1>1 DEF TableParts
    <2>2. Weighty(o)' => Defined(Of(o)) /\ Of(o) \in Tables
      BY <1>3
    <2>3. catalog \in Catalogs /\ o \in Objects
      BY <1>1 DEF TypesInv
    <2> QED
      BY <2>1, <2>2, <2>3, BesideItsTable
  <1>4. deps' \subseteq Objects \X Objects /\ \A d \in deps' \ deps : d[1] \notin Roots
    BY DEF TypesInv
  <1> QED
    BY <1>2, <1>3, <1>4 DEF Reader

(* A part that follows its owner is written with it only.                  *)
LEMMA LikeOwnerWeight ==
  ASSUME catalog' = catalog, NEW o, dump'[o] = dump[Of(o)] \/ dump'[o] = {},
         catalog[o].type \in {"attrdef", "constraint", "index", "rule"}, Weighty(o)'
  PROVE  Defined(Of(o))
  BY DEF Weighty, Defined, Of

(* processExtensionTables.                                                 *)
LEMMA ExtensionTablesReader == ASSUME SelectionInv, ProcessExtensionTables PROVE SelectionInv'
  <1>0. Steps[26] = "extension tables"
    BY DEF Steps
  <1>1. Turn("extension tables")
    BY DEF ProcessExtensionTables
  <1>2. step = 26 /\ step' = 26 + 1 /\ catalog' = catalog /\ request' = request
    <2>1. 26 \in 1..44 /\ 26 # 3
      OBVIOUS
    <2> QED
      BY <1>0, <1>1, <2>1, TurnFacts
  <1>3. PICK data :
          /\ data \subseteq Rows({"table data"})
          /\ AssignDumpId(Whole(data))
          /\ interesting' = interesting \cup {Of(d) : d \in data}
          /\ deps' = deps \cup {<<d, Of(d)>> : d \in data}
               \cup {dd \in data \X data : \E f \in Rows({"fk"}) :
                       Of(f) = Of(dd[1]) /\ Of(dd[2]) \in catalog[f].parents}
          /\ UNCHANGED <<members, contains, separate>>
    BY DEF ProcessExtensionTables
  <1>4. TypesInv
    BY DEF SelectionInv
  <1>5. \A d \in data : /\ d \in Objects \ Roots /\ catalog[d].type = "table data"
                        /\ Of(d) \in Tables
    BY <1>3, <1>4, PartFacts DEF Rows, Roots, TableParts, TypesInv
  <1>6. DOMAIN Whole(data) = data
    BY DEF Whole
  <1>7. \A d \in data : ~Weighty(d)'
    BY <1>2, <1>5 DEF Weighty
  <1>8. interesting' \subseteq Tables
    BY <1>3, <1>4, <1>5 DEF TypesInv
  <1>9. deps \subseteq deps' /\ \A d \in deps' \ deps : d \in (Objects \ Roots) \X Objects
    <2> DEFINE own  == {<<d, Of(d)>> : d \in data}
               refs == {dd \in data \X data : \E f \in Rows({"fk"}) :
                          Of(f) = Of(dd[1]) /\ Of(dd[2]) \in catalog[f].parents}
    <2>1. \A d \in data : Of(d) \in Objects
      BY <1>5 DEF Tables, Rows
    <2>2. own \subseteq (Objects \ Roots) \X Objects
      <3> SUFFICES ASSUME NEW d \in data
                   PROVE  <<d, Of(d)>> \in (Objects \ Roots) \X Objects
        OBVIOUS
      <3> QED
        BY <1>5, <2>1
    <2>3. refs \subseteq (Objects \ Roots) \X Objects
      <3>1. refs \subseteq data \X data
        OBVIOUS
      <3>2. data \subseteq Objects \ Roots
        BY <1>5
      <3> HIDE DEF refs
      <3> QED
        BY <3>1, <3>2
    <2>4. deps' = deps \cup own \cup refs
      BY <1>3
    <2> HIDE DEF own, refs
    <2> QED
      BY <2>2, <2>3, <2>4
  <1>10. /\ {"table data"} \subseteq TableParts \cup {"constraint"}
         /\ {"table data"} \cap (Plain \cup {"fk"}) = {} /\ 26 \in 5..44 /\ 26 <= 32 /\ 26 \in Nat
    <2>1. {"table data"} \subseteq TableParts \cup {"constraint"}
      BY DEF TableParts
    <2>2. {"table data"} \cap (Plain \cup {"fk"}) = {}
      BY DEF Plain
    <2>3. 26 \in 5..44 /\ 26 <= 32 /\ 26 \in Nat
      OBVIOUS
    <2> QED
      BY <2>1, <2>2, <2>3
  <1>11. data \subseteq Rows({"table data"})
    BY <1>3
  <1>12. \A d \in data : Of(d) \in Tables /\ (Asked /\ Weighty(d)' => Defined(Of(d)))
    BY <1>5, <1>7
  <1>13. UNCHANGED <<catalog, request, members, contains>>
    BY <1>2, <1>3
  <1>14. Reader(26, {"table data"}, data)
    <2> DEFINE mask == Whole(data)
    <2>1. AssignDumpId(mask) /\ DOMAIN mask = data
      BY <1>3, <1>6
    <2> HIDE DEF mask
    <2> QED
      BY <1>2, <1>4, <1>8, <1>9, <1>10, <1>11, <1>12, <1>13, <2>1, PartsAreReader
  <1>15. \A a \in data : catalog[a].type # "index attach"
    BY <1>5
  <1> QED
    BY <1>10, <1>14, <1>15, EarlyReader

(* flagInhTables.                                                          *)
LEMMA InheritedTablesReader == ASSUME SelectionInv, FlagInhTables PROVE SelectionInv'
  <1>0. Steps[27] = "inherited tables"
    BY DEF Steps
  <1>1. Turn("inherited tables")
    BY DEF FlagInhTables
  <1>2. step = 27 /\ step' = 27 + 1 /\ catalog' = catalog /\ request' = request
    <2>1. 27 \in 1..44 /\ 27 # 3
      OBVIOUS
    <2> QED
      BY <1>0, <1>1, <2>1, TurnFacts
  <1>3. PICK new :
          /\ new \subseteq {a \in Rows({"table attach"}) : Defined(Of(a))}
          /\ AssignDumpId(Whole(new))
          /\ deps' = deps \cup
               UNION {{a} \X ({Of(a)} \cup catalog[Of(a)].parents) : a \in new}
    BY DEF FlagInhTables
  <1>4. /\ interesting' = interesting \cup
             UNION {catalog[t].parents : t \in {c \in Tables : dump[c] # {}}}
        /\ UNCHANGED <<members, contains, separate>>
    BY DEF FlagInhTables
  <1>5. TypesInv /\ catalog \in Catalogs
    BY DEF SelectionInv, TypesInv
  <1>6. \A a \in new : /\ a \in Objects \ Roots /\ catalog[a].type = "table attach"
                       /\ Of(a) \in Tables /\ Defined(Of(a))
    BY <1>3, <1>5, PartFacts DEF Rows, Roots, TableParts
  <1>7. DOMAIN Whole(new) = new
    BY DEF Whole
  <1>8. \A t \in Tables : catalog[t].parents \subseteq Tables
    BY <1>5, WellFormedFacts DEF Tables, Rows
  <1>9. interesting' \subseteq Tables
    BY <1>4, <1>5, <1>8 DEF TypesInv
  <1>10. deps \subseteq deps' /\ \A d \in deps' \ deps : d \in (Objects \ Roots) \X Objects
    <2>1. \A a \in new : {a} \X ({Of(a)} \cup catalog[Of(a)].parents) \subseteq (Objects \ Roots) \X Objects
      BY <1>6, <1>8 DEF Tables, Rows
    <2> QED
      BY <1>3, <2>1
  <1>11. /\ {"table attach"} \subseteq TableParts \cup {"constraint"}
         /\ {"table attach"} \cap (Plain \cup {"fk"}) = {} /\ 27 \in 5..44 /\ 27 <= 32 /\ 27 \in Nat
    <2>1. {"table attach"} \subseteq TableParts \cup {"constraint"}
      BY DEF TableParts
    <2>2. {"table attach"} \cap (Plain \cup {"fk"}) = {}
      BY DEF Plain
    <2>3. 27 \in 5..44 /\ 27 <= 32 /\ 27 \in Nat
      OBVIOUS
    <2> QED
      BY <2>1, <2>2, <2>3
  <1>12. UNCHANGED <<catalog, request, members, contains>>
    BY <1>2, <1>4
  <1>13. Reader(27, {"table attach"}, new)
    <2> DEFINE mask == Whole(new)
    <2>1. AssignDumpId(mask) /\ DOMAIN mask = new
      BY <1>3, <1>7
    <2>2. new \subseteq Rows({"table attach"})
      BY <1>6 DEF Rows
    <2> HIDE DEF mask
    <2> QED
      BY <1>2, <1>5, <1>6, <1>9, <1>10, <1>11, <1>12, <2>1, <2>2, PartsAreReader
  <1>14. \A a \in new : catalog[a].type # "index attach"
    BY <1>6
  <1> QED
    BY <1>11, <1>13, <1>14, EarlyReader

(* A reader of parts of tables, whose statements come with the table's.    *)
LEMMA PartsReader ==
  ASSUME SelectionInv, NEW k \in 5..44, k # 42, Turn(Steps[k]),
         NEW mask, NEW kinds, kinds \subseteq (TableParts \cup {"constraint"}) \ {"fk"},
         k <= 32 \/ "index" \notin kinds,
         AssignDumpId(mask), DOMAIN mask \subseteq Rows(kinds),
         UNCHANGED <<members, contains>>, interesting' \subseteq Tables,
         \A o \in DOMAIN mask : Of(o) \in Tables,
         Asked => \A o \in DOMAIN mask :
           \/ Defined(Of(o))
           \/ /\ catalog[o].type \in {"attrdef", "constraint", "index", "rule"}
              /\ mask[o] = dump[Of(o)] \/ mask[o] = {},
         deps \subseteq deps',
         \A d \in deps' \ deps : d \in (Objects \ Roots) \X Objects
  PROVE  SelectionInv'
  <1>1. step = k /\ step' = k + 1 /\ catalog' = catalog /\ request' = request
    <2>1. k \in 1..44 /\ k # 3
      OBVIOUS
    <2> QED
      BY <2>1, TurnFacts
  <1>2. DOMAIN mask \subseteq Objects /\ \A o \in DOMAIN mask : catalog[o].type \in kinds
    BY DEF Rows
  <1>3. \A o \in DOMAIN mask : dump'[o] = mask[o]
    BY <1>1, <1>2, AssignFacts
  <1>4. ASSUME Asked, NEW o \in DOMAIN mask, Weighty(o)' PROVE Defined(Of(o))
    <2>1. CASE /\ catalog[o].type \in {"attrdef", "constraint", "index", "rule"}
               /\ mask[o] = dump[Of(o)] \/ mask[o] = {}
      BY <1>1, <1>3, <1>4, <2>1, LikeOwnerWeight
    <2> QED
      BY <1>4, <2>1
  <1>5. TypesInv
    BY DEF SelectionInv
  <1>6. Reader(k, kinds, DOMAIN mask)
    <2>1. k \in Nat /\ kinds \subseteq TableParts \cup {"constraint"}
      OBVIOUS
    <2> QED
      BY <1>1, <1>4, <1>5, <2>1, PartsAreReader
  <1>7. kinds \cap (Plain \cup {"fk", "index attach"}) = {}
    BY DEF Plain, TableParts
  <1>8. CASE "index" \notin kinds
    BY <1>6, <1>7, <1>8, OrdinaryReader
  <1>9. CASE k <= 32
    <2>1. \A a \in DOMAIN mask : catalog[a].type # "index attach"
      BY <1>2, <1>7
    <2> QED
      BY <1>6, <1>7, <1>9, <2>1, EarlyReader
  <1> QED
    BY <1>8, <1>9

(* Parts of tables and their tables are neither schemas nor extensions.    *)
LEMMA PartRows ==
  ASSUME TypesInv, NEW kinds, kinds \subseteq TableParts, NEW o \in Rows(kinds)
  PROVE  o \in Objects \ Roots /\ Of(o) \in Tables /\ Of(o) \in Objects \ Roots
  <1>1. o \in Objects /\ catalog[o].type \in TableParts
    BY DEF Rows
  <1>2. Of(o) \in Tables
    BY <1>1, PartFacts DEF TypesInv
  <1> QED
    BY <1>1, <1>2 DEF Rows, Tables, Roots, TableParts

(* getTableAttrs.                                                          *)
LEMMA TableAttrsReader == ASSUME SelectionInv, GetTableAttrs PROVE SelectionInv'
  <1> DEFINE read     == {t \in interesting : Kind(t) # "sequence"}
             attrdefs == {d \in Rows({"attrdef"}) : Of(d) \in read /\ Kind(d) # "null"}
             checks   == IF request.noChecks THEN {}
                         ELSE {c \in Rows({"constraint"}) : Of(c) \in read /\ Kind(c) = "check"}
             apart    ==
               {d \in attrdefs : /\ Kind(d) # "generated"
                                 /\ Kind(Of(d)) = "view" \/ Is(d, "hidden")}
               \cup {c \in checks : ~Is(c, "validated")}
             new      == attrdefs \cup checks
             mask     == LikeOwner(new)
             inline   == {<<Of(o), o>> : o \in new \ apart}
  <1>1. Steps[28] = "attributes"
    BY DEF Steps
  <1>2. Turn(Steps[28]) /\ AssignDumpId(mask) /\ deps' = deps \cup inline
        /\ UNCHANGED <<members, contains, interesting>>
    BY <1>1 DEF GetTableAttrs
  <1>3. interesting \subseteq Tables
    BY DEF SelectionInv, TypesInv
  <1>4. \A o \in new : /\ o \in Rows({"attrdef", "constraint"}) /\ Of(o) \in Tables
                       /\ catalog[o].type \in {"attrdef", "constraint"}
    BY <1>3 DEF Rows
  <1>5. \A o \in new : o \in Objects /\ Of(o) \in Objects \ Roots
    BY <1>4 DEF Rows, Tables, Roots
  <1>6. inline \subseteq (Objects \ Roots) \X Objects
    <2> HIDE DEF new, apart
    <2> QED
      BY <1>5
  <1>7. DOMAIN mask = new /\ \A o \in new : mask[o] = dump[Of(o)]
    BY DEF LikeOwner
  <1>8. 28 \in 5..44 /\ 28 # 42 /\ 28 <= 32
    OBVIOUS
  <1>9. {"attrdef", "constraint"} \subseteq (TableParts \cup {"constraint"}) \ {"fk"}
    BY DEF TableParts
  <1>10. deps \subseteq deps' /\ \A d \in deps' \ deps : d \in (Objects \ Roots) \X Objects
    <2> HIDE DEF inline
    <2> QED
      BY <1>2, <1>6
  <1> HIDE DEF mask, new, inline, apart
  <1>11. DOMAIN mask \subseteq Rows({"attrdef", "constraint"})
    BY <1>4, <1>7
  <1> QED
    BY <1>2, <1>3, <1>4, <1>7, <1>8, <1>9, <1>10, <1>11, PartsReader

(* flagInhAttrs.                                                           *)
LEMMA InheritedAttrsReader == ASSUME SelectionInv, FlagInhAttrs PROVE SelectionInv'
  <1>1. Steps[29] = "inherited attributes"
    BY DEF Steps
  <1>2. PICK nulls, same, apart :
          /\ nulls \subseteq Rows({"attrdef"}) /\ same \subseteq Rows({"attrdef"}) /\ apart \subseteq nulls
          /\ AssignDumpId([d \in nulls \cup same |-> IF d \in nulls THEN dump[Of(d)] ELSE {}])
          /\ deps' = deps \cup {<<d, Of(d)>> : d \in apart}
    <2> DEFINE Heir(d) == /\ dump[Of(d)] # {}
                          /\ Kind(Of(d)) \notin {"sequence", "view", "matview"}
               nulls == {d \in Rows({"attrdef"}) :
                           /\ Kind(d) = "null" /\ Heir(d)
                           /\ \E p \in catalog[d].parents \cap made : Kind(p) = "default"}
               same  == {d \in Rows({"attrdef"}) \cap made :
                           /\ Kind(d) = "generated" /\ Heir(d) /\ Is(d, "same")
                           /\ catalog[d].parents # {} /\ catalog[d].parents \subseteq made
                           /\ ~Is(Of(d), "partition")}
               apart == {d \in nulls : Is(d, "hidden")}
    <2>1. /\ AssignDumpId([d \in nulls \cup same |-> IF d \in nulls THEN dump[Of(d)] ELSE {}])
          /\ deps' = deps \cup {<<d, Of(d)>> : d \in apart}
      BY DEF FlagInhAttrs
    <2>2. nulls \subseteq Rows({"attrdef"}) /\ same \subseteq Rows({"attrdef"}) /\ apart \subseteq nulls
      OBVIOUS
    <2> HIDE DEF nulls, same, apart
    <2> QED
      BY <2>1, <2>2
  <1> DEFINE mask == [d \in nulls \cup same |-> IF d \in nulls THEN dump[Of(d)] ELSE {}]
  <1>3. Turn(Steps[29]) /\ UNCHANGED <<members, contains, interesting>>
    BY <1>1 DEF FlagInhAttrs
  <1>4. TypesInv /\ interesting' \subseteq Tables
    BY <1>3 DEF SelectionInv, TypesInv
  <1>5. {"attrdef"} \subseteq TableParts /\ {"attrdef"} \subseteq (TableParts \cup {"constraint"}) \ {"fk"}
    BY DEF TableParts
  <1>6. \A o \in Rows({"attrdef"}) : o \in Objects \ Roots /\ Of(o) \in Tables /\ Of(o) \in Objects
    BY <1>4, <1>5, PartRows
  <1>7. deps \subseteq deps' /\ \A d \in deps' \ deps : d \in (Objects \ Roots) \X Objects
    <2>1. {<<d, Of(d)>> : d \in apart} \subseteq (Objects \ Roots) \X Objects
      BY <1>2, <1>6
    <2> QED
      BY <1>2, <2>1
  <1>8. /\ DOMAIN mask = nulls \cup same
        /\ \A o \in DOMAIN mask : mask[o] = dump[Of(o)] \/ mask[o] = {}
    OBVIOUS
  <1>9. AssignDumpId(mask)
    BY <1>2
  <1>10. 29 \in 5..44 /\ 29 # 42 /\ 29 <= 32
    OBVIOUS
  <1> HIDE DEF mask
  <1>11. /\ DOMAIN mask \subseteq Rows({"attrdef"}) /\ \A o \in DOMAIN mask : Of(o) \in Tables
         /\ \A o \in DOMAIN mask : catalog[o].type = "attrdef"
    BY <1>2, <1>6, <1>8 DEF Rows
  <1> QED
    BY <1>3, <1>4, <1>5, <1>7, <1>8, <1>9, <1>10, <1>11, PartsReader

(* getIndexes, with the constraints that indexes belong to.                *)
LEMMA IndexesReader == ASSUME SelectionInv, GetIndexes PROVE SelectionInv'
  <1>1. Steps[30] = "indexes"
    BY DEF Steps
  <1>2. PICK new :
          /\ new \subseteq {i \in Rows({"index", "constraint"}) : Of(i) \in interesting}
          /\ AssignDumpId(LikeOwner(new))
    <2> DEFINE indexes == {i \in Rows({"index"}) : Of(i) \in interesting}
               keys    == {c \in Rows({"constraint"}) :
                             Of(c) \in interesting /\ Kind(c) \in {"p", "u", "x"}}
    <2>1. AssignDumpId(LikeOwner(indexes \cup keys))
      BY DEF GetIndexes
    <2>2. indexes \cup keys \subseteq {i \in Rows({"index", "constraint"}) : Of(i) \in interesting}
      BY DEF Rows
    <2> HIDE DEF indexes, keys
    <2> QED
      BY <2>1, <2>2
  <1> DEFINE mask == LikeOwner(new)
  <1>3. Turn(Steps[30]) /\ UNCHANGED <<members, contains, interesting, deps>>
    BY <1>1 DEF GetIndexes
  <1>4. interesting \subseteq Tables
    BY <1>3 DEF SelectionInv, TypesInv
  <1>5. {"index", "constraint"} \subseteq (TableParts \cup {"constraint"}) \ {"fk"}
    BY DEF TableParts
  <1>6. \A o \in new : catalog[o].type \in {"index", "constraint"}
    BY <1>2 DEF Rows
  <1>7. DOMAIN mask = new /\ AssignDumpId(mask)
        /\ \A o \in DOMAIN mask : mask[o] = dump[Of(o)] \/ mask[o] = {}
    BY <1>2 DEF LikeOwner
  <1>8. 30 \in 5..44 /\ 30 # 42 /\ 30 <= 32
    OBVIOUS
  <1>9. deps \subseteq deps' /\ \A d \in deps' \ deps : d \in (Objects \ Roots) \X Objects
    BY <1>3
  <1> HIDE DEF mask
  <1>10. /\ DOMAIN mask \subseteq Rows({"index", "constraint"}) /\ interesting' \subseteq Tables
         /\ \A o \in DOMAIN mask : Of(o) \in Tables
         /\ \A o \in DOMAIN mask : catalog[o].type \in {"attrdef", "constraint", "index", "rule"}
    BY <1>2, <1>3, <1>4, <1>6, <1>7
  <1> QED
    BY <1>3, <1>5, <1>7, <1>8, <1>9, <1>10, PartsReader

(* flagInhIndexes: an attachment for each attached index.                  *)
LEMMA InheritedIndexesReader == ASSUME SelectionInv, FlagInhIndexes PROVE SelectionInv'
  <1>1. Steps[31] = "inherited indexes"
    BY DEF Steps
  <1>2. Turn(Steps[31]) /\ UNCHANGED <<members, contains, interesting>>
    BY <1>1 DEF FlagInhIndexes
  <1>3. step = 31 /\ step' = 31 + 1 /\ catalog' = catalog /\ request' = request
    <2>1. 31 \in 1..44 /\ 31 # 3
      OBVIOUS
    <2> QED
      BY <1>2, <2>1, TurnFacts
  <1> DEFINE Ends(a) == {Of(a)} \cup catalog[a].parents
             Needed(a) == {a} \X (Ends(a) \cup {Of(i) : i \in Ends(a)})
  <1>4. PICK new :
          /\ new \subseteq {a \in Rows({"index attach"}) : Of(a) \in made}
          /\ AssignDumpId(Whole(new))
          /\ deps' = deps \cup UNION {Needed(a) : a \in new}
    BY DEF FlagInhIndexes
  <1>5. TypesInv /\ catalog \in Catalogs
    BY DEF SelectionInv, TypesInv
  <1>6. ASSUME NEW a \in new
        PROVE  /\ a \in Objects \ Roots /\ catalog[a].type = "index attach" /\ Of(a) \in made
               /\ Ends(a) \subseteq Rows({"index"})
    <2>1. a \in Objects /\ catalog[a].type = "index attach" /\ Of(a) \in made
      BY <1>4 DEF Rows
    <2>2. Of(a) \in Rows({"index"})
      BY <1>5, <2>1, PartFacts
    <2>3. catalog[a].parents \subseteq Rows({"index"})
      BY <1>5, <2>1, WellFormedFacts
    <2> QED
      BY <2>1, <2>2, <2>3 DEF Roots, Rows
  <1>7. \A i \in Rows({"index"}) : i \in Objects /\ Of(i) \in Objects
    <2>1. {"index"} \subseteq TableParts
      BY DEF TableParts
    <2> QED
      BY <1>5, <2>1, PartRows
  <1>8. deps \subseteq deps' /\ \A d \in deps' \ deps : d \in (Objects \ Roots) \X Objects
    <2>1. ASSUME NEW a \in new PROVE Needed(a) \subseteq (Objects \ Roots) \X Objects
      <3>1. a \in Objects \ Roots /\ Ends(a) \subseteq Rows({"index"})
        BY <1>6
      <3>2. Ends(a) \cup {Of(i) : i \in Ends(a)} \subseteq Objects
        BY <1>7, <3>1
      <3> QED
        BY <3>1, <3>2
    <2> HIDE DEF Needed
    <2> QED
      BY <1>4, <2>1
  <1> HIDE DEF Ends, Needed
  <1> DEFINE mask == Whole(new)
  <1>9. DOMAIN mask = new /\ AssignDumpId(mask)
    BY <1>4 DEF Whole
  <1>10. new \subseteq Rows({"index attach"}) /\ new \subseteq Objects
    BY <1>4 DEF Rows
  <1> HIDE DEF mask
  <1>11. /\ made' = made \cup new /\ DOMAIN dump' = Objects
         /\ \A o \in Objects \ new : dump'[o] = dump[o]
    BY <1>3, <1>9, AssignFacts
  <1>12. /\ deps' \subseteq Objects \X Objects /\ interesting' \subseteq Tables
         /\ \A d \in deps' \ deps : d[1] \notin Roots
    BY <1>2, <1>5, <1>8 DEF TypesInv
  <1>13. \A o \in new : catalog[o].type = "index attach"
    BY <1>6
  <1>14. Reader(31, {"index attach"}, new)
    BY <1>2, <1>3, <1>8, <1>10, <1>11, <1>12, <1>13 DEF Reader
  <1>15. {"index attach"} \cap (Plain \cup {"fk"}) = {}
    BY DEF Plain
  <1>16. 31 \in 5..44 /\ 31 <= 32
    OBVIOUS
  <1> QED
    BY <1>6, <1>14, <1>15, <1>16, EarlyReader

(* getTriggers.                                                            *)
LEMMA TriggersReader == ASSUME SelectionInv, GetTriggers PROVE SelectionInv'
  <1>1. Steps[34] = "triggers"
    BY DEF Steps
  <1> DEFINE new  == {g \in Rows({"trigger"}) : Defined(Of(g))}
             mask == Whole(new)
  <1>2. Turn(Steps[34]) /\ AssignDumpId(mask) /\ UNCHANGED <<members, contains, interesting, deps>>
    BY <1>1 DEF GetTriggers
  <1>3. TypesInv /\ interesting' \subseteq Tables
    BY <1>2 DEF SelectionInv, TypesInv
  <1>4. {"trigger"} \subseteq TableParts /\ {"trigger"} \subseteq (TableParts \cup {"constraint"}) \ {"fk"}
    BY DEF TableParts
  <1>5. \A o \in new : Of(o) \in Tables /\ Defined(Of(o))
    BY <1>3, <1>4, PartRows
  <1>6. DOMAIN mask = new /\ new \subseteq Rows({"trigger"})
    BY DEF Whole
  <1>7. 34 \in 5..44 /\ 34 # 42 /\ "index" \notin {"trigger"}
    OBVIOUS
  <1>8. deps \subseteq deps' /\ \A d \in deps' \ deps : d \in (Objects \ Roots) \X Objects
    BY <1>2
  <1> HIDE DEF mask, new
  <1>9. \A o \in DOMAIN mask : Of(o) \in Tables /\ Defined(Of(o))
    BY <1>5, <1>6
  <1> QED
    BY <1>2, <1>3, <1>4, <1>6, <1>7, <1>8, <1>9, PartsReader

(* getRules.                                                               *)
LEMMA RulesReader == ASSUME SelectionInv, GetRules PROVE SelectionInv'
  <1>1. Steps[35] = "rules"
    BY DEF Steps
  <1> DEFINE rules == Rows({"rule"})
             apart == {r \in rules : Kind(r) # "select"}
             mask  == LikeOwner(rules)
             after == {<<r, Of(r)>> : r \in apart}
             ahead == {<<Of(r), r>> : r \in rules \ apart}
  <1>2. Turn(Steps[35]) /\ AssignDumpId(mask) /\ UNCHANGED <<members, contains, interesting>>
        /\ deps' = deps \cup after \cup ahead
    BY <1>1 DEF GetRules
  <1>3. TypesInv /\ interesting' \subseteq Tables
    BY <1>2 DEF SelectionInv, TypesInv
  <1>4. {"rule"} \subseteq TableParts /\ {"rule"} \subseteq (TableParts \cup {"constraint"}) \ {"fk"}
    BY DEF TableParts
  <1>5. \A o \in rules : o \in Objects \ Roots /\ Of(o) \in Tables /\ Of(o) \in Objects \ Roots
    BY <1>3, <1>4, PartRows
  <1>6. after \subseteq (Objects \ Roots) \X Objects /\ ahead \subseteq (Objects \ Roots) \X Objects
    <2> HIDE DEF rules
    <2> QED
      BY <1>5
  <1>7. DOMAIN mask = rules /\ \A o \in DOMAIN mask : mask[o] = dump[Of(o)]
    BY DEF LikeOwner
  <1>8. 35 \in 5..44 /\ 35 # 42 /\ "index" \notin {"rule"}
    OBVIOUS
  <1>9. \A o \in rules : catalog[o].type = "rule"
    BY DEF Rows
  <1>10. deps \subseteq deps' /\ \A d \in deps' \ deps : d \in (Objects \ Roots) \X Objects
    <2> HIDE DEF after, ahead
    <2> QED
      BY <1>2, <1>6
  <1>11. DOMAIN mask \subseteq Rows({"rule"})
    BY <1>7
  <1> HIDE DEF mask, rules
  <1>12. \A o \in DOMAIN mask : Of(o) \in Tables /\ catalog[o].type = "rule" /\ mask[o] = dump[Of(o)]
    BY <1>5, <1>7, <1>9
  <1> QED
    BY <1>2, <1>3, <1>4, <1>8, <1>10, <1>11, <1>12, PartsReader

(* getPolicies.                                                            *)
LEMMA PoliciesReader == ASSUME SelectionInv, GetPolicies PROVE SelectionInv'
  <1>1. Steps[36] = "policies"
    BY DEF Steps
  <1> DEFINE new  == {p \in Rows({"policy"}) :
                        /\ "POLICY" \in dump[Of(p)]
                        /\ Kind(Of(p)) \in {"table", "partitioned"}}
             mask == Whole(new)
  <1>2. Turn(Steps[36]) /\ AssignDumpId(mask) /\ UNCHANGED <<members, contains, interesting, deps>>
    BY <1>1 DEF GetPolicies
  <1>3. TypesInv /\ interesting' \subseteq Tables
    BY <1>2 DEF SelectionInv, TypesInv
  <1>4. {"policy"} \subseteq TableParts /\ {"policy"} \subseteq (TableParts \cup {"constraint"}) \ {"fk"}
    BY DEF TableParts
  <1>5. \A o \in new : Of(o) \in Tables /\ "POLICY" \in dump[Of(o)]
    BY <1>3, <1>4, PartRows
  <1>6. DOMAIN mask = new /\ new \subseteq Rows({"policy"})
    BY DEF Whole
  <1>7. 36 \in 5..44 /\ 36 # 42 /\ "index" \notin {"policy"}
    OBVIOUS
  <1>8. deps \subseteq deps' /\ \A d \in deps' \ deps : d \in (Objects \ Roots) \X Objects
    BY <1>2
  <1>9. Asked => \A t \in Tables : "POLICY" \in dump[t] => Defined(t)
    BY DEF SelectionInv, BesideInv
  <1> HIDE DEF mask, new
  <1>10. \A o \in DOMAIN mask : Of(o) \in Tables /\ (Asked => Defined(Of(o)))
    BY <1>5, <1>6, <1>9
  <1> QED
    BY <1>2, <1>3, <1>4, <1>6, <1>7, <1>8, <1>10, PartsReader

(* What is attached under an index is closed under attaching.              *)
LEMMA UnderClosed ==
  ASSUME NEW i, NEW a \in Attaches,
         i \in catalog[a].parents \/ \E b \in AttachesUnder(i) : Of(b) \in catalog[a].parents
  PROVE  a \in AttachesUnder(i)
  BY DEF AttachesUnder, Attaches

(* getConstraints: the attachments under the key a foreign key references  *)
(* cover the tree, because AttachesUnder is closed under what is attached. *)
LEMMA ConstraintsReader == ASSUME SelectionInv, GetConstraints PROVE SelectionInv'
  <1> USE SameRows
  <1>1. Steps[33] = "constraints"
    BY DEF Steps
  <1> DEFINE new       == {f \in Rows({"fk"}) : Defined(Of(f))}
             mask      == Whole(new)
             Under(f)  == UNION {AttachesUnder(i) : i \in KeyIndexes(f) \cap made}
             parted    == {g \in new : ToPartitioned(g)}
             relied    == UNION {{f} \X Under(f) : f \in parted}
  <1>2. /\ Turn(Steps[33]) /\ AssignDumpId(mask) /\ UNCHANGED <<members, contains, interesting>>
        /\ deps' = deps \cup relied
    BY <1>1 DEF GetConstraints
  <1>3. step = 33 /\ step' = 33 + 1 /\ catalog' = catalog /\ request' = request
    <2>1. 33 \in 1..44 /\ 33 # 3
      OBVIOUS
    <2> QED
      BY <1>2, <2>1, TurnFacts
  <1>4. TypesInv /\ interesting' \subseteq Tables
    BY <1>2 DEF SelectionInv, TypesInv
  <1>5. {"fk"} \subseteq TableParts
    BY DEF TableParts
  <1>6. \A o \in new : o \in Objects \ Roots /\ Of(o) \in Tables /\ Defined(Of(o))
    BY <1>4, <1>5, PartRows
  <1>7. \A f : Under(f) \subseteq Attaches
    BY DEF AttachesUnder, Attaches
  <1>8. Attaches \subseteq Objects
    BY DEF Attaches, Rows
  <1> HIDE DEF Under
  <1>9. deps \subseteq deps' /\ \A d \in deps' \ deps : d \in (Objects \ Roots) \X Objects
    <2>1. relied \subseteq (Objects \ Roots) \X Objects
      BY <1>6, <1>7, <1>8
    <2> HIDE DEF relied
    <2> QED
      BY <1>2, <2>1
  <1>10. DOMAIN mask = new /\ new \subseteq Rows({"fk"})
    BY DEF Whole
  <1> HIDE DEF mask
  <1>11. Reader(33, {"fk"}, new)
    <2>1. UNCHANGED <<catalog, request, members, contains>>
      BY <1>2, <1>3
    <2>2. \A o \in DOMAIN mask : Of(o) \in Tables /\ (Asked /\ Weighty(o)' => Defined(Of(o)))
      BY <1>6, <1>10
    <2>3. 33 \in Nat /\ {"fk"} \subseteq TableParts \cup {"constraint"}
      BY <1>5
    <2>4. DOMAIN mask \subseteq Rows({"fk"})
      BY <1>10
    <2>5. Reader(33, {"fk"}, DOMAIN mask)
      <3> HIDE DEF new
      <3> QED
        BY <1>2, <1>3, <1>4, <1>9, <2>1, <2>2, <2>3, <2>4, PartsAreReader
    <2> QED
      BY <1>10, <2>5
  <1>12. Attaches' = Attaches /\ made' = made \cup new
         /\ \A f : KeyIndexes(f)' \cap made' = KeyIndexes(f) \cap made
    <2>1. made' = made \cup new
      BY <1>2, <1>10 DEF AssignDumpId
    <2>2. new \cap Rows({"index", "index attach"}) = {}
      BY DEF Rows
    <2> QED
      BY <1>3, <2>1, <2>2 DEF Attaches, KeyIndexes, Rows
  <1>13. KeyInv'
    <2> SUFFICES ASSUME NEW f \in made' \cap Rows({"fk"}), ToPartitioned(f)
                 PROVE  \E S : Covers(f, S)'
      BY <1>3 DEF KeyInv
    <2>1. f \in new
      BY <1>3, <1>12 DEF SelectionInv
    <2>2. {f} \X Under(f) \subseteq deps'
      <3>1. f \in parted
        BY <2>1
      <3> QED
        BY <1>2, <3>1
    <2>3. ASSUME NEW a \in Attaches,
                 catalog[a].parents \cap ((KeyIndexes(f) \cap made) \cup {Of(b) : b \in Under(f)}) # {}
          PROVE  a \in Under(f)
      <3>1. PICK p \in catalog[a].parents :
              p \in KeyIndexes(f) \cap made \/ \E b \in Under(f) : p = Of(b)
        BY <2>3
      <3>2. CASE p \in KeyIndexes(f) \cap made
        BY <3>2, UnderClosed DEF Under
      <3>3. CASE \E b \in Under(f) : p = Of(b)
        <4>1. PICK i \in KeyIndexes(f) \cap made : \E b \in AttachesUnder(i) : p = Of(b)
          BY <3>3 DEF Under
        <4>2. a \in AttachesUnder(i)
          BY <4>1, UnderClosed
        <4> QED
          BY <4>2 DEF Under
      <3> QED
        BY <3>1, <3>2, <3>3
    <2>4. {Of(b)' : b \in Under(f)} = {Of(b) : b \in Under(f)}
      BY <1>3
    <2>5. \A S : S = Under(f) => Covers(f, S)'
      BY <1>3, <1>7, <1>12, <2>2, <2>3, <2>4, Zenon DEF Covers
    <2> QED
      BY <2>5
  <1>14. AttachInv'
    <2> SUFFICES ASSUME NEW a \in made' \cap Rows({"index attach"}) PROVE Of(a) \in made'
      BY <1>3 DEF AttachInv
    <2>1. a \in made \cap Rows({"index attach"})
      BY <1>3, <1>12 DEF Attaches
    <2> QED
      BY <1>12, <2>1 DEF SelectionInv, AttachInv
  <1>15. 33 \in 5..44 /\ 33 # 42 /\ ~(33 + 1 <= 33)
    OBVIOUS
  <1>16. {"fk"} \cap Plain = {}
    BY DEF Plain
  <1> HIDE DEF new, relied, parted
  <1>17. TypesInv' /\ RootsInv' /\ SchemasInv' /\ BesideInv' /\ TableSchemasInv'
    BY <1>11, <1>15, <1>16, ReaderKeepsOthers, ReaderKeepsSchemas
  <1> QED
    BY <1>3, <1>13, <1>14, <1>15, <1>17 DEF SelectionInv

-----------------------------------------------------------------------------
(* The marks, and what main adds before the sort.                          *)

(* The two marks at the end only add definitions.                          *)
LEMMA Marks ==
  ASSUME SelectionInv, NEW k \in {41, 42}, Turn(Steps[k]), NEW these, Mark(these),
         these \subseteq Rows({"table", "namespace"})
  PROVE  /\ step = k /\ step' = k + 1 /\ catalog' = catalog /\ request' = request
         /\ \A o \in Objects : dump'[o] =
              IF o \in these THEN dump[o] \cup {"DEFINITION"} ELSE dump[o]
         /\ TypesInv' /\ RootsInv' /\ SchemasInv' /\ BesideInv' /\ AttachInv' /\ KeyInv'
         /\ step' > 33
  <1> USE SameRows DEF SelectionInv
  <1>1. step = k /\ step' = k + 1 /\ catalog' = catalog /\ request' = request
    <2>1. k \in 1..44 /\ k # 3
      OBVIOUS
    <2> QED
      BY <2>1, TurnFacts
  <1>2. UNCHANGED <<members, made, contains, interesting, separate, deps>>
    BY DEF Mark
  <1>3. /\ DOMAIN dump' = Objects
        /\ \A o \in Objects : dump'[o] =
             IF o \in these THEN dump[o] \cup {"DEFINITION"} ELSE dump[o]
    BY DEF Mark
  <1>4. TypesInv'
    BY <1>1, <1>2, <1>3 DEF TypesInv
  <1>5. RootsInv' /\ AttachInv'
    BY <1>1, <1>2 DEF RootsInv, AttachInv
  <1>6. KeyInv'
    BY <1>1, <1>2, KeyFrame
  <1>7. \A o \in Objects : Defined(o) => Defined(o)'
    BY <1>3 DEF Defined
  <1>8. Asked' = Asked /\ Own' = Own /\ Own \subseteq Objects
    BY <1>1, <1>2 DEF Asked, Own, UserSchemas, Rows
  <1>9. k > 33 /\ k > 5 /\ k + 1 > 5 /\ k + 1 > 33 /\ k + 1 \in 1..45 /\ k > 3
    OBVIOUS
  <1>10. SchemasInv'
    BY <1>1, <1>2, <1>7, <1>8, <1>9 DEF SchemasInv
  <1>11. BesideInv'
    <2> SUFFICES ASSUME Asked PROVE
          /\ \A t \in Tables : "POLICY" \in dump'[t] => Defined(t)'
          /\ \A o \in made \ Tables :
               /\ catalog[o].type # "shell"
               /\ catalog[o].ns # None /\ catalog[o].type # "index attach" /\ Weighty(o)' =>
                    TableBeside(o)'
      BY <1>1, <1>2, <1>8 DEF BesideInv
    <2>1. ASSUME NEW t \in Tables, "POLICY" \in dump'[t] PROVE Defined(t)'
      <3>1. t \in Objects
        BY DEF Tables, Rows
      <3>2. "POLICY" \in dump[t]
        BY <1>3, <2>1, <3>1
      <3> QED
        BY <1>7, <3>1, <3>2 DEF BesideInv
    <2>2. ASSUME NEW o \in made \ Tables, catalog[o].ns # None,
                 catalog[o].type # "index attach", Weighty(o)'
          PROVE  TableBeside(o)'
      <3>1. o \in Objects
        BY DEF TypesInv
      <3>2. o \notin these
        <4>1. catalog[o].type # "namespace"
          BY <2>2, <3>1, WellFormedFacts DEF TypesInv
        <4> QED
          BY <2>2, <4>1 DEF Rows, Tables
      <3>3. dump'[o] = dump[o]
        BY <1>3, <3>1, <3>2
      <3>4. Weighty(o)
        BY <1>1, <2>2, <3>3, SameWeight
      <3>5. TableBeside(o)
        BY <2>2, <3>4 DEF BesideInv
      <3>6. \A t \in Tables : Defined(t) => Defined(t)'
        BY <1>7 DEF Tables, Rows
      <3> QED
        BY <1>1, <3>5, <3>6, StillBeside
    <2>3. \A o \in made \ Tables : catalog[o].type # "shell"
      BY DEF BesideInv
    <2> QED
      BY <2>1, <2>2, <2>3
  <1> QED
    BY <1>1, <1>3, <1>4, <1>5, <1>6, <1>9, <1>10, <1>11

(* mark_views_for_dump.                                                    *)
LEMMA MarkViewsStep == ASSUME SelectionInv, MarkViewsForDump PROVE SelectionInv'
  <1>1. Steps[41] = "mark views"
    BY DEF Steps
  <1>2. PICK these : these \subseteq Tables /\ Mark(these) /\ Turn(Steps[41])
    BY <1>1 DEF MarkViewsForDump
  <1>3. these \subseteq Rows({"table", "namespace"}) /\ 41 \in {41, 42}
    BY <1>2 DEF Tables, Rows
  <1>4. /\ step' = 41 + 1 /\ step' > 33
        /\ TypesInv' /\ RootsInv' /\ SchemasInv' /\ BesideInv' /\ AttachInv' /\ KeyInv'
    BY <1>2, <1>3, Marks
  <1>5. ~(step' > 42) /\ ~(step' <= 33)
    BY <1>4
  <1>6. TableSchemasInv'
    BY <1>5 DEF TableSchemasInv
  <1> QED
    BY <1>4, <1>5, <1>6 DEF SelectionInv

(* mark_schemas_for_dump: after it the schema of every table to be created *)
(* is to be created too.                                                   *)
LEMMA MarkSchemasStep == ASSUME SelectionInv, MarkSchemasForDump PROVE SelectionInv'
  <1> USE SameRows
  <1>1. Steps[42] = "mark schemas"
    BY DEF Steps
  <1> DEFINE these == {n \in Rows({"namespace"}) :
                         Kind(n) = "user" /\ \E t \in Tables : Defined(t) /\ catalog[t].ns = n}
  <1>2. Mark(these) /\ Turn(Steps[42])
    BY <1>1 DEF MarkSchemasForDump
  <1>3. these \subseteq Rows({"table", "namespace"}) /\ 42 \in {41, 42}
    BY DEF Rows
  <1>4. \A n \in UserSchemas : (\E t \in Tables : Defined(t) /\ catalog[t].ns = n) => n \in these
    BY DEF UserSchemas
  <1>5. these \cap Tables = {}
    BY DEF Rows, Tables
  <1> HIDE DEF these
  <1>6. /\ step' = 42 + 1 /\ step' > 33 /\ catalog' = catalog
        /\ \A o \in Objects : dump'[o] =
             IF o \in these THEN dump[o] \cup {"DEFINITION"} ELSE dump[o]
        /\ TypesInv' /\ RootsInv' /\ SchemasInv' /\ BesideInv' /\ AttachInv' /\ KeyInv'
    BY <1>2, <1>3, Marks
  <1>7. ~(step' <= 33)
    BY <1>6
  <1>8. TableSchemasInv'
    <2> SUFFICES ASSUME NEW t \in Tables, Defined(t)', catalog[t].ns \in UserSchemas
                 PROVE  Defined(catalog[t].ns)'
      BY <1>6 DEF TableSchemasInv
    <2>1. t \in Objects /\ t \notin these
      BY <1>5 DEF Tables, Rows
    <2>2. Defined(t)
      BY <1>6, <2>1 DEF Defined
    <2>3. catalog[t].ns \in these /\ catalog[t].ns \in Objects
      BY <1>4, <2>2 DEF UserSchemas, Rows
    <2> QED
      BY <1>6, <2>3 DEF Defined
  <1> QED
    BY <1>6, <1>7, <1>8 DEF SelectionInv

(* getDependencies.                                                        *)
LEMMA DependenciesStep == ASSUME SelectionInv, GetDependencies PROVE SelectionInv'
  <1>1. Steps[43] = "dependencies"
    BY DEF Steps
  <1> DEFINE recorded == {d \in made \X made : d[2] \in catalog[d[1]].needs}
             OfComposite(d) == Kind(d[1]) = "composite" /\ Of(d[1]) = d[2]
             Turned(d) == IF OfComposite(d) THEN <<d[2], d[1]>> ELSE d
             new == {Turned(d) : d \in recorded}
  <1>2. /\ Turn(Steps[43]) /\ deps' = deps \cup new
        /\ UNCHANGED <<members, made, dump, contains, interesting, separate>>
    BY <1>1 DEF GetDependencies
  <1>3. step = 43 /\ step' = 43 + 1 /\ catalog' = catalog /\ request' = request
    <2>1. 43 \in 1..44 /\ 43 # 3
      OBVIOUS
    <2> QED
      BY <1>2, <2>1, TurnFacts
  <1>4. TypesInv
    BY DEF SelectionInv
  <1>5. ASSUME NEW d \in recorded
        PROVE  Turned(d) \in Objects \X Objects /\ (Turned(d)[1] \in Roots => Turned(d)[2] \in Roots)
    <2>1. d[1] \in Objects /\ d[2] \in Objects /\ d = <<d[1], d[2]>> /\ d[2] \in catalog[d[1]].needs
      BY <1>4 DEF TypesInv
    <2>2. CASE OfComposite(d)
      <3>1. Turned(d) = <<d[2], d[1]>>
        BY <2>2
      <3>2. None \notin Objects
        BY <1>4, <2>1, RowFacts DEF TypesInv
      <3>3. d[2] \in Rows({"type"})
        BY <1>4, <2>1, <2>2, <3>2, WellFormedFacts DEF TypesInv
      <3>4. d[2] \notin Roots
        BY <3>3 DEF Rows, Roots
      <3> QED
        BY <2>1, <3>1, <3>4
    <2>3. CASE ~OfComposite(d)
      <3>1. Turned(d) = d
        BY <2>3
      <3>2. d[1] \in Roots => d[2] \in Roots
        <4>1. d[1] \in Roots => catalog[d[1]].type \in {"namespace", "extension"}
          BY DEF Roots, Rows
        <4> QED
          BY <1>4, <2>1, <4>1, WellFormedFacts DEF TypesInv
      <3> QED
        BY <2>1, <3>1, <3>2
    <2> QED
      BY <2>2, <2>3
  <1> HIDE DEF Turned, recorded
  <1>6. /\ deps \subseteq deps' /\ deps' \subseteq Objects \X Objects
        /\ \A d \in deps' \ deps : d[1] \in Roots => d[2] \in Roots
    BY <1>2, <1>4, <1>5 DEF TypesInv
  <1>7. {} \subseteq Rows({}) /\ made' = made \cup {} /\ interesting' \subseteq Tables
        /\ DOMAIN dump' = Objects
    BY <1>2, <1>4 DEF TypesInv
  <1>8. Reader(43, {}, {})
    BY <1>2, <1>3, <1>6, <1>7 DEF Reader
  <1>9. 43 \in 5..44 /\ 43 # 42
    OBVIOUS
  <1>10. {} \cap (Plain \cup {"fk", "index", "index attach"}) = {}
    OBVIOUS
  <1> HIDE DEF new, OfComposite
  <1> QED
    BY <1>8, <1>9, <1>10, OrdinaryReader

(* addBoundaryDependencies: a schema gets none.                            *)
LEMMA BoundariesStep == ASSUME SelectionInv, AddBoundaryDependencies PROVE SelectionInv'
  <1>1. Steps[44] = "boundaries"
    BY DEF Steps
  <1> DEFINE new  == Rows(Boundaries)
             mask == Whole(new)
             pre  == Rows({"pre boundary"})
             post == Rows({"post boundary"})
             data == made \cap Rows(DataTypes)
             late == {o \in made : IsPost(o)}
  <1>2. /\ Turn(Steps[44]) /\ AssignDumpId(mask)
        /\ deps' = deps \cup (pre \X (made \cap Rows(PreTypes)))
                     \cup (data \X pre) \cup (post \X (data \cup pre))
                     \cup (late \X post)
        /\ UNCHANGED <<members, contains, interesting, separate>>
    BY <1>1 DEF AddBoundaryDependencies
  <1>3. step = 44 /\ step' = 44 + 1 /\ catalog' = catalog /\ request' = request
    <2>1. 44 \in 1..44 /\ 44 # 3
      OBVIOUS
    <2> QED
      BY <1>2, <2>1, TurnFacts
  <1>4. TypesInv
    BY DEF SelectionInv
  <1>5. /\ pre \subseteq Objects \ Roots /\ post \subseteq Objects \ Roots
        /\ data \subseteq Objects \ Roots /\ made \subseteq Objects
        /\ late \subseteq Objects \ Roots
    BY <1>4 DEF TypesInv, Roots, Rows, DataTypes, IsPost, PostTypes, PartTypes
  <1>6. DOMAIN mask = new /\ new \subseteq Objects /\ \A o \in new : catalog[o].type \in Boundaries
    BY DEF Whole, Rows
  <1> HIDE DEF mask, pre, post, data, late
  <1>7. deps \subseteq deps' /\ \A d \in deps' \ deps : d \in (Objects \ Roots) \X Objects
    BY <1>2, <1>5
  <1>8. /\ deps' \subseteq Objects \X Objects /\ interesting' \subseteq Tables
        /\ \A d \in deps' \ deps : d[1] \notin Roots
    BY <1>2, <1>4, <1>7 DEF TypesInv
  <1>9. /\ made' = made \cup new /\ DOMAIN dump' = Objects
        /\ \A o \in Objects \ new : dump'[o] = dump[o]
    BY <1>2, <1>3, <1>6, AssignFacts
  <1>10. \A o \in new : catalog[o].type # "shell" /\ ~Weighty(o)'
    BY <1>3, <1>6 DEF Weighty, Boundaries
  <1>11. new \subseteq Rows(Boundaries)
    OBVIOUS
  <1> HIDE DEF new
  <1>12. Reader(44, Boundaries, new)
    BY <1>2, <1>3, <1>7, <1>8, <1>9, <1>10, <1>11 DEF Reader
  <1>13. Boundaries \cap (Plain \cup {"fk", "index", "index attach"}) = {}
    BY DEF Plain, Boundaries
  <1>14. 44 \in 5..44 /\ 44 # 42
    OBVIOUS
  <1> QED
    BY <1>12, <1>13, <1>14, OrdinaryReader

-----------------------------------------------------------------------------
(* The readers of extensions, schemas and tables.                          *)

(* While only these are read, most of the invariant is about nothing.      *)
LEMMA PlainStep ==
  ASSUME TypesInv, RootsInv, catalog' = catalog, request' = request,
         made' \subseteq Rows(Plain),
         members' \subseteq {o \in Objects : catalog[o].ext # None},
         interesting' \subseteq Tables, DOMAIN dump' = Objects,
         deps' \subseteq Objects \X Objects, \A d \in deps' \ deps : d[2] \in Roots,
         Asked => \A t \in Tables : "POLICY" \in dump'[t] => Defined(t)',
         SchemasInv', TableSchemasInv'
  PROVE  SelectionInv'
  <1> USE SameRows
  <1>1. TypesInv'
    <2>1. made' \subseteq Objects
      BY DEF Rows
    <2> QED
      BY <2>1 DEF TypesInv
  <1>2. RootsInv'
    BY DEF RootsInv
  <1>3. /\ made' \cap Rows({"fk", "index", "index attach"}) = {}
        /\ \A o \in made' \ Tables : catalog[o].ns = None /\ catalog[o].type # "shell"
    <2>1. ASSUME NEW o \in made' \ Tables PROVE catalog[o].ns = None /\ catalog[o].type # "shell"
      <3>1. o \in Objects /\ catalog[o].type \in {"namespace", "extension"}
        BY <2>1 DEF Rows, Plain, Tables
      <3> QED
        BY <3>1, WellFormedFacts DEF TypesInv
    <2> QED
      BY <2>1 DEF Rows, Plain
  <1>4. BesideInv'
    BY <1>3 DEF BesideInv, Asked
  <1>5. AttachInv'
    BY <1>3 DEF AttachInv, Rows
  <1>6. made' \cap Rows({"fk"})' = {}
    BY <1>3 DEF Rows
  <1>7. KeyInv'
    BY <1>6 DEF KeyInv
  <1> QED
    BY <1>1, <1>2, <1>4, <1>5, <1>6, <1>7 DEF SelectionInv

(* Before the first reader.                                                *)
LEMMA SelectionStart == SelectionInit => SelectionInv
  <1> SUFFICES ASSUME SelectionInit PROVE SelectionInv
    OBVIOUS
  <1>1. /\ catalog \in Catalogs /\ request \in Requests /\ step = 1
        /\ members = {} /\ made = {} /\ interesting = {} /\ deps = {}
        /\ DOMAIN dump = Objects /\ \A o \in Objects : dump[o] = {}
    BY DEF SelectionInit
  <1>2. Tables \subseteq Objects
    BY DEF Tables, Rows
  <1>3. TypesInv
    BY <1>1 DEF TypesInv
  <1>4. SchemasInv
    BY <1>1, <1>2 DEF SchemasInv
  <1>5. BesideInv
    BY <1>1, <1>2 DEF BesideInv
  <1>6. RootsInv /\ TableSchemasInv /\ AttachInv /\ KeyInv
    BY <1>1 DEF RootsInv, TableSchemasInv, AttachInv, KeyInv
  <1> QED
    BY <1>1, <1>3, <1>4, <1>5, <1>6 DEF SelectionInv

(* getExtensions.                                                          *)
LEMMA ExtensionsReader == ASSUME SelectionInv, GetExtensions PROVE SelectionInv'
  <1> USE SameRows
  <1> DEFINE mask == [e \in Rows({"extension"}) |-> SelectDumpableExtension(e)]
  <1>1. Steps[1] = "extensions"
    BY DEF Steps
  <1>2. /\ Turn(Steps[1]) /\ AssignDumpId(mask)
        /\ UNCHANGED <<members, interesting, separate, deps>>
    BY <1>1 DEF GetExtensions
  <1>3. step = 1 /\ step' = 1 + 1 /\ catalog' = catalog /\ request' = request
    <2>1. 1 \in 1..44 /\ 1 # 3
      OBVIOUS
    <2> QED
      BY <1>2, <2>1, TurnFacts
  <1>4. DOMAIN mask = Rows({"extension"})
    OBVIOUS
  <1> HIDE DEF mask
  <1>5. /\ made' = made \cup Rows({"extension"}) /\ DOMAIN dump' = Objects
        /\ \A o \in Objects \ Rows({"extension"}) : dump'[o] = dump[o]
    BY <1>2, <1>3, <1>4, AssignFacts
  <1>6. TypesInv /\ RootsInv /\ SchemasInv
    BY DEF SelectionInv
  <1>7. made' \subseteq Rows({"extension"}) /\ \A o \in Objects \ made' : dump'[o] = {}
    BY <1>3, <1>5, <1>6 DEF SchemasInv
  <1>8. made' \subseteq Rows(Plain)
    BY <1>7 DEF Plain, Rows
  <1>9. \A t \in Tables : dump'[t] = {}
    BY <1>3, <1>5, <1>6 DEF SchemasInv, Tables, Rows
  <1>10. step' \in 1..45 /\ ~(step' > 3) /\ ~(step' > 42)
    BY <1>3
  <1>11. SchemasInv' /\ TableSchemasInv'
    BY <1>3, <1>7, <1>8, <1>9, <1>10 DEF SchemasInv, TableSchemasInv
  <1>12. deps' = deps /\ deps \subseteq Objects \X Objects /\ interesting' \subseteq Tables
         /\ members' \subseteq {o \in Objects : catalog[o].ext # None}
    BY <1>2, <1>6 DEF TypesInv
  <1> QED
    BY <1>3, <1>5, <1>6, <1>8, <1>9, <1>11, <1>12, PlainStep

(* getExtensionMembership.                                                 *)
LEMMA MembershipReader == ASSUME SelectionInv, GetExtensionMembership PROVE SelectionInv'
  <1> USE SameRows
  <1>1. Steps[2] = "membership"
    BY DEF Steps
  <1>2. /\ Turn(Steps[2]) /\ members' = {o \in Objects : catalog[o].ext \in made}
        /\ UNCHANGED <<made, dump, contains, interesting, separate, deps>>
    BY <1>1 DEF GetExtensionMembership
  <1>3. step = 2 /\ step' = 2 + 1 /\ catalog' = catalog /\ request' = request
    <2>1. 2 \in 1..44 /\ 2 # 3
      OBVIOUS
    <2> QED
      BY <1>2, <2>1, TurnFacts
  <1>4. TypesInv /\ RootsInv /\ SchemasInv
    BY DEF SelectionInv
  <1>5. made' \subseteq Rows({"extension"}) /\ \A o \in Objects \ made' : dump'[o] = {}
    BY <1>2, <1>3, <1>4 DEF SchemasInv
  <1>6. made' \subseteq Rows(Plain)
    BY <1>5 DEF Plain, Rows
  <1>7. \A t \in Tables : dump'[t] = {}
    BY <1>2, <1>3, <1>4 DEF SchemasInv
  <1>8. step' \in 1..45 /\ ~(step' > 3) /\ ~(step' > 42)
    BY <1>3
  <1>9. SchemasInv' /\ TableSchemasInv'
    BY <1>3, <1>5, <1>6, <1>7, <1>8 DEF SchemasInv, TableSchemasInv
  <1>10. members' \subseteq {o \in Objects : catalog[o].ext # None}
    <2> SUFFICES ASSUME NEW o \in Objects, catalog[o].ext \in made PROVE catalog[o].ext # None
      BY <1>2
    <2> QED
      BY <1>4, RowFacts DEF TypesInv
  <1>11. deps' = deps /\ deps \subseteq Objects \X Objects /\ interesting' \subseteq Tables
         /\ DOMAIN dump' = Objects
    BY <1>2, <1>4 DEF TypesInv
  <1> QED
    BY <1>3, <1>4, <1>6, <1>7, <1>9, <1>10, <1>11, PlainStep

(* getNamespaces: all schemas, and with a query none to be created yet.    *)
LEMMA NamespacesReader == ASSUME SelectionInv, GetNamespaces PROVE SelectionInv'
  <1> USE SameRows
  <1> DEFINE new  == Rows({"namespace"})
             mask == [n \in new |-> SelectDumpableNamespace(n)]
  <1>1. Steps[3] = "namespaces" /\ Steps[43] = "dependencies"
    BY DEF Steps
  <1>2. StepOf("namespaces") = 3 /\ StepOf("dependencies") = 43
    <2>1. 3 \in 1..44 /\ 43 \in 1..44
      OBVIOUS
    <2> QED
      BY <1>1, <2>1, NumberOfStep
  <1>3. /\ step = 3 /\ step' \in {3 + 1, 43} /\ catalog' = catalog /\ request' = request
        /\ AssignDumpId(mask) /\ deps' = deps \cup MemberDeps(new)
        /\ contains' = [o \in Objects |-> IF o \in new THEN NamespaceContains(o)
                                                      ELSE contains[o]]
        /\ UNCHANGED <<members, interesting, separate>>
    BY <1>2 DEF GetNamespaces, Turn
  <1>4. DOMAIN mask = new /\ \A n \in new : mask[n] = SelectDumpableNamespace(n)
    OBVIOUS
  <1>5. new \subseteq Objects /\ new \cap Tables = {}
    BY DEF Rows, Tables
  <1> HIDE DEF mask, new
  <1>6. /\ made' = made \cup new /\ DOMAIN dump' = Objects
        /\ \A o \in Objects \ new : dump'[o] = dump[o]
        /\ \A o \in new : dump'[o] = SelectDumpableNamespace(o)
    BY <1>3, <1>4, <1>5, AssignFacts
  <1>7. TypesInv /\ RootsInv /\ SchemasInv
    BY DEF SelectionInv
  <1>8. made \subseteq Rows({"extension"})
    BY <1>3, <1>7 DEF SchemasInv
  <1>9. made' \subseteq Rows(Plain)
    BY <1>6, <1>8 DEF Plain, Rows, new
  <1>10. \A t \in Tables : dump'[t] = {}
    <2>1. \A t \in Tables : dump[t] = {} /\ t \in Objects \ new
      BY <1>3, <1>5, <1>7 DEF SchemasInv, Tables, Rows
    <2> QED
      BY <1>6, <2>1
  <1>11. ASSUME ~Asked, NEW n \in Own PROVE Defined(n)'
    <2>1. n \in new /\ n \notin members /\ Kind(n) = "user"
      BY <1>11 DEF Own, UserSchemas, new
    <2>2. NamespaceContains(n) = ALL
      BY <1>11, <2>1 DEF NamespaceContains
    <2>3. dump'[n] = ALL
      BY <1>6, <2>1, <2>2 DEF SelectDumpableNamespace, UnlessMember
    <2> QED
      BY <2>3 DEF Defined, ALL
  <1>12. Asked => \A n \in new : contains'[n] = {}
    BY <1>3, <1>5 DEF NamespaceContains
  <1>13. Asked' = Asked /\ Own' = Own
    BY <1>3 DEF Asked, Own
  <1>14. step' \in 1..45 /\ ~(step' <= 3)
    BY <1>3
  <1>15. SchemasInv'
    BY <1>3, <1>6, <1>9, <1>10, <1>11, <1>12, <1>13, <1>14 DEF SchemasInv, new
  <1>16. TableSchemasInv'
    BY <1>3, <1>10 DEF TableSchemasInv, Defined
  <1>17. deps' \subseteq Objects \X Objects /\ \A d \in deps' \ deps : d[2] \in Roots
    <2>1. /\ MemberDeps(new) \subseteq Objects \X Objects
          /\ \A d \in MemberDeps(new) : d[2] \in Roots
      BY <1>5, <1>7, MemberDepsFacts, Zenon
    <2> QED
      BY <1>3, <1>7, <2>1 DEF TypesInv
  <1>18. interesting' \subseteq Tables /\ members' \subseteq {o \in Objects : catalog[o].ext # None}
    BY <1>3, <1>7 DEF TypesInv
  <1> QED
    BY <1>3, <1>6, <1>7, <1>9, <1>10, <1>15, <1>16, <1>17, <1>18, PlainStep

(* Between the schemas and the other objects.                              *)
LEMMA AfterSchemas ==
  ASSUME TypesInv, SchemasInv, catalog' = catalog, request' = request,
         members' = members, contains' = contains, made \subseteq made',
         made' \subseteq Rows(Plain), \A n \in Rows({"namespace"}) : dump'[n] = dump[n],
         step \in {4, 5}, step' = step + 1
  PROVE  SchemasInv' /\ TableSchemasInv'
  <1> USE SameRows
  <1>1. Asked' = Asked /\ Own' = Own /\ Own \subseteq Rows({"namespace"})
    BY DEF Asked, Own, UserSchemas
  <1>2. \A n \in Own : Defined(n)' <=> Defined(n)
    BY <1>1 DEF Defined
  <1>3. step > 3 /\ step' \in 1..45 /\ ~(step' <= 4) /\ ~(step' > 42)
    OBVIOUS
  <1>4. SchemasInv'
    BY <1>1, <1>2, <1>3 DEF SchemasInv
  <1> QED
    BY <1>3, <1>4 DEF TableSchemasInv

(* getTables.                                                              *)
LEMMA TablesReader == ASSUME SelectionInv, GetTables PROVE SelectionInv'
  <1> DEFINE composite == {t \in Tables : Kind(t) = "composite"}
             mask == [t \in Tables |-> IF t \in composite THEN {} ELSE SelectDumpableTable(t)]
  <1>1. Steps[4] = "tables"
    BY DEF Steps
  <1>2. /\ Turn(Steps[4]) /\ AssignDumpId(mask)
        /\ deps' = deps \cup MemberDeps(Tables \ composite)
        /\ interesting' \subseteq Tables /\ UNCHANGED <<members, contains, separate>>
    BY <1>1 DEF GetTables
  <1>3. step = 4 /\ step' = 4 + 1 /\ catalog' = catalog /\ request' = request
    <2>1. 4 \in 1..44 /\ 4 # 3
      OBVIOUS
    <2> QED
      BY <1>2, <2>1, TurnFacts
  <1>4. DOMAIN mask = Tables /\ \A t \in Tables : mask[t] = {} \/ mask[t] = SelectDumpableTable(t)
    OBVIOUS
  <1>5. Tables \subseteq Objects /\ Tables \cap Rows({"namespace"}) = {} /\ Rows({"namespace"}) \subseteq Objects
    BY DEF Rows, Tables
  <1> HIDE DEF mask
  <1>6. /\ made' = made \cup Tables /\ DOMAIN dump' = Objects
        /\ \A o \in Objects \ Tables : dump'[o] = dump[o]
        /\ \A o \in Tables : dump'[o] = {} \/ dump'[o] = SelectDumpableTable(o)
    <2>1. \A o \in Tables : dump'[o] = mask[o]
      BY <1>2, <1>3, <1>4, <1>5, AssignFacts
    <2> QED
      BY <1>2, <1>3, <1>4, <2>1, AssignFacts
  <1>7. TypesInv /\ RootsInv /\ SchemasInv
    BY DEF SelectionInv
  <1>8. made' \subseteq Rows(Plain)
    <2>1. made \subseteq Rows(Plain)
      BY <1>3, <1>7 DEF SchemasInv
    <2> QED
      BY <1>6, <2>1 DEF Plain, Rows, Tables
  <1>9. SchemasInv' /\ TableSchemasInv'
    <2>1. \A n \in Rows({"namespace"}) : dump'[n] = dump[n]
      BY <1>5, <1>6
    <2>2. made \subseteq made' /\ step \in {4, 5} /\ step' = step + 1
      BY <1>3, <1>6
    <2> QED
      BY <1>2, <1>3, <1>7, <1>8, <2>1, <2>2, AfterSchemas
  <1>10. ASSUME Asked, NEW t \in Tables, "POLICY" \in dump'[t] PROVE Defined(t)'
    <2>1. dump'[t] = SelectDumpableTable(t)
      BY <1>6, <1>10
    <2>2. dump'[t] = ALL
      BY <1>10, <2>1 DEF SelectDumpableTable, UnlessMember, MemberMask
    <2> QED
      BY <2>2 DEF Defined, ALL
  <1>11. deps' \subseteq Objects \X Objects /\ \A d \in deps' \ deps : d[2] \in Roots
    <2>1. Tables \ composite \subseteq Objects
      BY <1>5
    <2>2. /\ MemberDeps(Tables \ composite) \subseteq Objects \X Objects
          /\ \A d \in MemberDeps(Tables \ composite) : d[2] \in Roots
      BY <1>7, <2>1, MemberDepsFacts, Zenon
    <2> HIDE DEF composite
    <2> QED
      BY <1>2, <1>7, <2>2 DEF TypesInv
  <1>12. members' \subseteq {o \in Objects : catalog[o].ext # None}
    BY <1>2, <1>7 DEF TypesInv
  <1> HIDE DEF composite
  <1> QED
    BY <1>2, <1>3, <1>6, <1>7, <1>8, <1>9, <1>10, <1>11, <1>12, PlainStep

(* getOwnedSeqs.                                                           *)
LEMMA OwnedSeqsReader == ASSUME SelectionInv, GetOwnedSeqs PROVE SelectionInv'
  <1> DEFINE owned == {s \in Tables : Kind(s) = "sequence" /\ Of(s) # None}
             taken == {q \in owned : dump'[q] # {}}
  <1>1. Steps[5] = "sequences"
    BY DEF Steps
  <1>2. /\ Turn(Steps[5])
        /\ dump' = [o \in Objects |->
                    IF o \notin owned THEN dump[o]
                    ELSE IF Is(o, "identity") THEN dump[Of(o)]
                    ELSE dump[o] \cup dump[Of(o)]]
        /\ interesting' = interesting \cup UNION {{s, Of(s)} : s \in taken}
        /\ UNCHANGED <<members, made, contains, separate, deps>>
    BY <1>1 DEF GetOwnedSeqs
  <1>3. step = 5 /\ step' = 5 + 1 /\ catalog' = catalog /\ request' = request
    <2>1. 5 \in 1..44 /\ 5 # 3
      OBVIOUS
    <2> QED
      BY <1>2, <2>1, TurnFacts
  <1>4. TypesInv /\ RootsInv /\ SchemasInv
    BY DEF SelectionInv
  <1>5. \A s \in owned : s \in Tables /\ s \in Objects /\ Of(s) \in Tables
    <2> SUFFICES ASSUME NEW s \in owned PROVE s \in Objects /\ Of(s) \in Tables
      OBVIOUS
    <2>1. s \in Objects
      BY DEF Tables, Rows
    <2> QED
      BY <1>4, <2>1, WellFormedFacts DEF TypesInv
  <1>6. owned \cap Rows({"namespace"}) = {} /\ Rows({"namespace"}) \subseteq Objects
        /\ Tables \subseteq Objects /\ taken \subseteq owned
    BY DEF Rows, Tables
  <1> HIDE DEF owned, taken
  <1>7. DOMAIN dump' = Objects
        /\ \A o \in Objects : \/ dump'[o] = dump[o]
                              \/ o \in owned /\ dump'[o] \in {dump[Of(o)], dump[o] \cup dump[Of(o)]}
    BY <1>2
  <1>8. made' \subseteq Rows(Plain)
    BY <1>2, <1>3, <1>4 DEF SchemasInv
  <1>9. SchemasInv' /\ TableSchemasInv'
    <2>1. \A n \in Rows({"namespace"}) : dump'[n] = dump[n]
      BY <1>6, <1>7
    <2>2. made \subseteq made' /\ step \in {4, 5} /\ step' = step + 1
      BY <1>2, <1>3
    <2> QED
      BY <1>2, <1>3, <1>4, <1>8, <2>1, <2>2, AfterSchemas
  <1>10. ASSUME Asked, NEW t \in Tables, "POLICY" \in dump'[t] PROVE Defined(t)'
    <2>1. \A s \in Tables : "POLICY" \in dump[s] => "DEFINITION" \in dump[s]
      BY <1>10 DEF SelectionInv, BesideInv, Defined
    <2>2. "DEFINITION" \in dump'[t]
      BY <1>5, <1>6, <1>7, <1>10, <2>1
    <2> QED
      BY <2>2 DEF Defined
  <1>11. deps' \subseteq Objects \X Objects /\ \A d \in deps' \ deps : d[2] \in Roots
    BY <1>2, <1>4 DEF TypesInv
  <1>12. members' \subseteq {o \in Objects : catalog[o].ext # None} /\ interesting' \subseteq Tables
    BY <1>2, <1>4, <1>5, <1>6 DEF TypesInv
  <1> QED
    BY <1>3, <1>4, <1>7, <1>8, <1>9, <1>10, <1>11, <1>12, PlainStep

(* Every reader keeps the invariant.                                       *)
LEMMA SelectionStep == ASSUME SelectionInv, SelectionNext PROVE SelectionInv'
  <1>1. CASE ReadBeforeTables
    BY <1>1, ExtensionsReader, MembershipReader, NamespacesReader DEF ReadBeforeTables
  <1>2. CASE ReadTables
    <2>1. CASE GetTables \/ GetOwnedSeqs \/ ProcessExtensionTables \/ FlagInhTables
      BY <2>1, TablesReader, OwnedSeqsReader, ExtensionTablesReader, InheritedTablesReader
    <2>2. CASE GetTableAttrs \/ FlagInhAttrs \/ GetIndexes \/ FlagInhIndexes
      BY <2>2, TableAttrsReader, InheritedAttrsReader, IndexesReader, InheritedIndexesReader
    <2>3. CASE \/ GetExtendedStatistics \/ GetConstraints \/ GetTriggers \/ GetRules
               \/ GetPolicies
      BY <2>3, ReadsLight, ConstraintsReader, TriggersReader, RulesReader, PoliciesReader
    <2> QED
      BY <1>2, <2>1, <2>2, <2>3 DEF ReadTables
  <1>3. CASE ReadSchemaObjects
    BY <1>3, ReadsAllReaders, ReadsSomeReaders, TypesReader, ReadsGlobals, DefaultACLsReader,
       ReadsLight DEF ReadSchemaObjects
  <1>4. CASE GetPublications \/ GetPublicationTables \/ GetPublicationNamespaces \/ GetSubscriptions
    BY <1>4, ReadsAllReaders, ReadsLight, ReadsGlobals, ReadsSomeReaders
  <1>5. CASE MarkViewsForDump \/ MarkSchemasForDump \/ GetDependencies \/ AddBoundaryDependencies
    BY <1>5, MarkViewsStep, MarkSchemasStep, DependenciesStep, BoundariesStep
  <1> QED
    BY <1>1, <1>2, <1>3, <1>4, <1>5 DEF SelectionNext, GetSchemaData

-----------------------------------------------------------------------------
(* Sequences.                                                              *)

(* A set of natural numbers has a least one.                               *)
LEMMA Least ==
  ASSUME NEW S, S \subseteq Nat, S # {}
  PROVE  \E x \in S : \A y \in S : x <= y
  <1>1. PICK x \in S : \A y \in S : ~(<<y, x>> \in OpToRel(<, Nat))
    BY NatLessThanWellFounded, WFMin
  <1>2. \A y \in S : ~(y < x)
    BY <1>1 DEF OpToRel
  <1> QED
    BY <1>2

(* What holds of 0 and passes on to the successor.                         *)
LEMMA Induction ==
  ASSUME NEW S, 0 \in S, \A n \in Nat : n \in S => n + 1 \in S
  PROVE  Nat \subseteq S
  <1> DEFINE T == Nat \ S
  <1> SUFFICES ASSUME T # {} PROVE FALSE
    OBVIOUS
  <1>1. PICK x \in T : \A y \in T : x <= y
    <2>1. T \subseteq Nat
      OBVIOUS
    <2> HIDE DEF T
    <2> QED
      BY <2>1, Least
  <1>2. x \in Nat /\ x \notin S /\ x # 0
    BY <1>1
  <1>3. x - 1 \in Nat /\ x - 1 \in S
    BY <1>1, <1>2
  <1>4. (x - 1) + 1 \in S
    BY <1>3
  <1> QED
    BY <1>4, <1>2

(* The recursion of Chosen, up to the n-th entry.                          *)
Choosing(h, s, S, n) ==
  /\ h[0] = <<>>
  /\ \A j \in 1..n : h[j] = IF s[j] \in S THEN Append(h[j - 1], s[j]) ELSE h[j - 1]

(* The recursive function in Chosen exists.                                *)
LEMMA ChoosingExists ==
  ASSUME NEW s, NEW S, NEW n \in Nat
  PROVE  \E h : h = [j \in 0..n |-> h[j]] /\ Choosing(h, s, S, n)
  <1> DEFINE P(m) == \E h : h = [j \in 0..m |-> h[j]] /\ Choosing(h, s, S, m)
             T == {m \in Nat : P(m)}
  <1>1. 0 \in T
    <2> DEFINE h == [j \in 0..0 |-> <<>>]
    <2>1. h = [j \in 0..0 |-> h[j]] /\ h[0] = <<>>
      OBVIOUS
    <2> HIDE DEF h
    <2>2. Choosing(h, s, S, 0)
      BY <2>1 DEF Choosing
    <2> QED
      BY <2>1, <2>2
  <1>2. ASSUME NEW m \in Nat, m \in T PROVE m + 1 \in T
    <2>1. PICK g : g = [j \in 0..m |-> g[j]] /\ Choosing(g, s, S, m)
      BY <1>2
    <2> DEFINE last == IF s[m + 1] \in S THEN Append(g[m], s[m + 1]) ELSE g[m]
               h == [j \in 0..(m + 1) |-> IF j = m + 1 THEN last ELSE g[j]]
    <2> HIDE DEF last
    <2>2. /\ h = [j \in 0..(m + 1) |-> h[j]]
          /\ h[m + 1] = last /\ \A j \in 0..m : h[j] = g[j]
      OBVIOUS
    <2> HIDE DEF h
    <2>3. Choosing(h, s, S, m + 1)
      <3> SUFFICES ASSUME NEW j \in 1..(m + 1)
                   PROVE  h[j] = IF s[j] \in S THEN Append(h[j - 1], s[j]) ELSE h[j - 1]
        <4>1. 0 \in 0..m
          OBVIOUS
        <4>2. h[0] = <<>>
          BY <2>1, <2>2, <4>1 DEF Choosing
        <4> QED
          BY <4>2 DEF Choosing
      <3>1. CASE j = m + 1
        <4>1. j - 1 = m /\ m \in 0..m
          BY <3>1
        <4>2. h[j - 1] = g[j - 1] /\ h[j] = last
          BY <2>2, <3>1, <4>1
        <4> QED
          BY <3>1, <4>1, <4>2 DEF last
      <3>2. CASE j # m + 1
        <4>1. j \in 1..m /\ j \in 0..m /\ j - 1 \in 0..m
          BY <3>2
        <4>2. h[j] = g[j] /\ h[j - 1] = g[j - 1]
          BY <2>2, <4>1
        <4> QED
          BY <2>1, <4>1, <4>2 DEF Choosing
      <3> QED
        BY <3>1, <3>2
    <2>4. P(m + 1)
      BY <2>2, <2>3
    <2> QED
      BY <2>4
  <1>3. Nat \subseteq T
    <2> HIDE DEF T
    <2> QED
      BY <1>1, <1>2, Induction
  <1> QED
    BY <1>3

(* places says where in the first m elements of s those of c are: all that *)
(* are in S, in their order.                                               *)
Picks(places, c, s, S, m) ==
  /\ places \in [1..Len(c) -> 1..m]
  /\ \A k \in 1..Len(c) : c[k] = s[places[k]] /\ c[k] \in S
  /\ \A j, k \in 1..Len(c) : j < k => places[j] < places[k]
  /\ \A i \in 1..m : s[i] \in S => \E k \in 1..Len(c) : places[k] = i

(* One more entry is looked at.                                            *)
LEMMA PickOne ==
  ASSUME NEW T, NEW s \in Seq(T), NEW S, NEW m \in Nat, m + 1 \in 1..Len(s),
         NEW c \in Seq(T), NEW places, Picks(places, c, s, S, m)
  PROVE  /\ s[m + 1] \in S => /\ Append(c, s[m + 1]) \in Seq(T)
                              /\ \E p : Picks(p, Append(c, s[m + 1]), s, S, m + 1)
         /\ s[m + 1] \notin S => \E p : Picks(p, c, s, S, m + 1)
  <1>1. s[m + 1] \in T /\ Len(c) \in Nat
    BY ElementOfSeq, LenProperties
  <1>2. ASSUME s[m + 1] \notin S PROVE Picks(places, c, s, S, m + 1)
    <2>1. \A i \in 1..(m + 1) : i \in 1..m \/ i = m + 1
      OBVIOUS
    <2>2. 1..m \subseteq 1..(m + 1)
      OBVIOUS
    <2> QED
      BY <1>1, <1>2, <2>1, <2>2 DEF Picks
  <1>3. ASSUME s[m + 1] \in S
        PROVE  /\ Append(c, s[m + 1]) \in Seq(T)
               /\ \E p : Picks(p, Append(c, s[m + 1]), s, S, m + 1)
    <2> DEFINE n == Len(c)
               d == Append(c, s[m + 1])
               p == [k \in 1..(n + 1) |-> IF k = n + 1 THEN m + 1 ELSE places[k]]
    <2>1. /\ d \in Seq(T) /\ Len(d) = n + 1 /\ d[n + 1] = s[m + 1]
          /\ \A k \in 1..n : d[k] = c[k]
      BY <1>1, AppendProperties
    <2>2. \A k \in 1..n : places[k] \in 1..m
      BY DEF Picks
    <2>3. n \in Nat
      BY <1>1
    <2>4. \A k \in 1..n : p[k] = places[k] /\ p[n + 1] = m + 1
      BY <2>3
    <2>5. p[n + 1] = m + 1
      BY <2>3
    <2>6. p \in [1..(n + 1) -> 1..(m + 1)]
      BY <2>2, <2>3
    <2> HIDE DEF p, d
    <2>7. \A k \in 1..(n + 1) : d[k] = s[p[k]] /\ d[k] \in S
      <3> SUFFICES ASSUME NEW k \in 1..(n + 1) PROVE d[k] = s[p[k]] /\ d[k] \in S
        OBVIOUS
      <3>1. CASE k = n + 1
        BY <1>3, <2>1, <2>5, <3>1
      <3>2. CASE k # n + 1
        <4>1. k \in 1..n
          BY <2>3, <3>2
        <4> QED
          BY <2>1, <2>4, <4>1 DEF Picks
      <3> QED
        BY <3>1, <3>2
    <2>8. \A j, k \in 1..(n + 1) : j < k => p[j] < p[k]
      <3> SUFFICES ASSUME NEW j \in 1..(n + 1), NEW k \in 1..(n + 1), j < k PROVE p[j] < p[k]
        OBVIOUS
      <3>1. j \in 1..n /\ places[j] \in 1..m /\ p[j] = places[j]
        BY <2>2, <2>3, <2>4
      <3>2. CASE k = n + 1
        BY <2>5, <3>1, <3>2
      <3>3. CASE k # n + 1
        <4>1. k \in 1..n
          BY <2>3, <3>3
        <4> QED
          BY <2>4, <3>1, <4>1 DEF Picks
      <3> QED
        BY <3>2, <3>3
    <2>9. \A i \in 1..(m + 1) : s[i] \in S => \E k \in 1..(n + 1) : p[k] = i
      <3> SUFFICES ASSUME NEW i \in 1..(m + 1), s[i] \in S PROVE \E k \in 1..(n + 1) : p[k] = i
        OBVIOUS
      <3>1. CASE i = m + 1
        <4>1. n + 1 \in 1..(n + 1)
          BY <2>3
        <4> QED
          BY <2>5, <3>1, <4>1
      <3>2. CASE i # m + 1
        <4>1. i \in 1..m
          BY <3>2
        <4>2. PICK k \in 1..n : places[k] = i
          BY <4>1 DEF Picks
        <4>3. k \in 1..(n + 1)
          BY <2>3
        <4> QED
          BY <2>4, <4>2, <4>3
      <3> QED
        BY <3>1, <3>2
    <2>10. Picks(p, d, s, S, m + 1)
      BY <2>1, <2>6, <2>7, <2>8, <2>9 DEF Picks
    <2> QED
      BY <2>1, <2>10 DEF d
  <1> QED
    BY <1>2, <1>3

(* What is chosen of a sequence.                                           *)
LEMMA ChosenPicks ==
  ASSUME NEW T, NEW s \in Seq(T), NEW S
  PROVE  /\ Chosen(s, S) \in Seq(T)
         /\ \E places : Picks(places, Chosen(s, S), s, S, Len(s))
  <1> DEFINE n == Len(s)
             Rec(g) == [j \in 0..n |-> IF j = 0 THEN <<>>
                                       ELSE IF s[j] \in S THEN Append(g[j - 1], s[j])
                                       ELSE g[j - 1]]
             f == CHOOSE g : g = Rec(g)
  <1>1. Chosen(s, S) = f[n]
    BY DEF Chosen
  <1>2. n \in Nat
    BY LenProperties
  <1>3. PICK h : h = [j \in 0..n |-> h[j]] /\ Choosing(h, s, S, n)
    BY <1>2, ChoosingExists
  <1>4. h = Rec(h)
    <2>1. \A j \in 0..n : h[j] = IF j = 0 THEN <<>>
                                 ELSE IF s[j] \in S THEN Append(h[j - 1], s[j])
                                 ELSE h[j - 1]
      <3> SUFFICES ASSUME NEW j \in 0..n
                   PROVE  h[j] = IF j = 0 THEN <<>>
                                 ELSE IF s[j] \in S THEN Append(h[j - 1], s[j])
                                 ELSE h[j - 1]
        OBVIOUS
      <3>1. j = 0 \/ j \in 1..n
        BY <1>2
      <3> HIDE DEF n
      <3> QED
        BY <1>3, <3>1 DEF Choosing
    <2> QED
      BY <1>3, <2>1
  <1>5. f = Rec(f)
    <2> HIDE DEF Rec
    <2> QED
      BY <1>4
  <1> HIDE DEF f
  <1>6. /\ f[0] = <<>>
        /\ \A j \in 1..n : f[j] = IF s[j] \in S THEN Append(f[j - 1], s[j]) ELSE f[j - 1]
    <2>1. \A j \in 0..n : f[j] = IF j = 0 THEN <<>>
                                 ELSE IF s[j] \in S THEN Append(f[j - 1], s[j])
                                 ELSE f[j - 1]
      BY <1>5
    <2> QED
      BY <1>2, <2>1
  <1> DEFINE Good(m) == f[m] \in Seq(T) /\ \E places : Picks(places, f[m], s, S, m)
             N == {m \in Nat : m \in 0..n => Good(m)}
  <1> HIDE DEF n
  <1>7. 0 \in N
    <2>1. <<>> \in Seq(T) /\ Len(<<>>) = 0
      BY EmptySeq
    <2>2. [k \in 1..0 |-> 0] \in [1..0 -> 1..0]
      OBVIOUS
    <2>3. Picks([k \in 1..0 |-> 0], <<>>, s, S, 0)
      BY <2>1, <2>2 DEF Picks
    <2> QED
      BY <1>6, <2>1, <2>3
  <1>8. ASSUME NEW m \in Nat, m \in N PROVE m + 1 \in N
    <2> SUFFICES ASSUME m + 1 \in 0..n PROVE Good(m + 1)
      OBVIOUS
    <2>1. m \in 0..n /\ m + 1 \in 1..n /\ (m + 1) - 1 = m
      BY <1>2
    <2>2. f[m] \in Seq(T) /\ \E places : Picks(places, f[m], s, S, m)
      BY <1>8, <2>1
    <2>3. f[m + 1] = IF s[m + 1] \in S THEN Append(f[m], s[m + 1]) ELSE f[m]
      BY <1>6, <2>1
    <2> QED
      BY <2>1, <2>2, <2>3, PickOne DEF n
  <1>9. Nat \subseteq N
    <2> HIDE DEF N
    <2> QED
      BY <1>7, <1>8, Induction
  <1>10. Good(n)
    <2> HIDE DEF Good
    <2> QED
      BY <1>2, <1>9
  <1> QED
    BY <1>1, <1>10 DEF n

-----------------------------------------------------------------------------
(* What the entries of an object are.                                      *)

Fits(o, s) ==
  /\ s \in Seq(EntryRecords)
  /\ \A i \in 1..Len(s) : /\ s[i].of = o /\ EntryOK(s[i])
                          /\ s[i].section # "none" => Weighty(o)
  /\ \A i, j \in 1..Len(s) : s[i].desc = s[j].desc => i = j

Ordinary == {"ACL", "INDEX", "EVENT TRIGGER", "DEFAULT ACL"}

(* No entry at all.                                                        *)
LEMMA FitsNone == ASSUME NEW o PROVE Fits(o, <<>>)
  <1>1. <<>> \in Seq(EntryRecords) /\ Len(<<>>) = 0
    BY EmptySeq
  <1> QED
    BY <1>1 DEF Fits

(* The empty sequence has no places.                                       *)
LEMMA NoPlaces == \A j \in 1..Len(<<>>) : FALSE
  BY EmptySeq

(* A sequence of one.                                                      *)
LEMMA OneTuple ==
  ASSUME NEW T, NEW e \in T
  PROVE  /\ <<e>> \in Seq(T) /\ Len(<<e>>) = 1 /\ <<e>>[1] = e
         /\ \A i \in 1..Len(<<e>>) : <<e>>[i] = e /\ i = 1
  OBVIOUS

(* One entry of an object.                                                 *)
LEMMA FitsOne ==
  ASSUME NEW o \in Objects, NEW desc \in Descriptions, NEW section \in {"pre", "post", "none"},
         section = "none" => desc = "ACL", desc = "ACL" => section = "none",
         desc \in {"INDEX", "EVENT TRIGGER", "DEFAULT ACL"} => section = "post",
         catalog[o].type = "fk" => section = "post",
         section # "none" => Weighty(o)
  PROVE  Fits(o, <<Entry(o, desc, section)>>)
  <1>1. PICK e : e = Entry(o, desc, section)
    OBVIOUS
  <1>2. /\ e \in EntryRecords /\ e.of = o /\ e.desc = desc /\ e.section = section
    BY <1>1 DEF Entry, EntryRecords
  <1>3. EntryOK(e)
    BY <1>2 DEF EntryOK
  <1>4. PICK s : s = <<e>>
    OBVIOUS
  <1>5. s \in Seq(EntryRecords) /\ s[1] = e /\ \A i \in 1..Len(s) : i = 1 /\ s[i] = e
    BY <1>2, <1>4, OneTuple, Zenon
  <1>7. Fits(o, s)
    BY <1>2, <1>3, <1>5, Zenon DEF Fits
  <1> QED
    BY <1>1, <1>4, <1>7

(* Entries that differ in their descriptions.                              *)
LEMMA FitsBoth ==
  ASSUME NEW o, NEW s, NEW r, Fits(o, s), Fits(o, r),
         \A i \in 1..Len(s) : \A j \in 1..Len(r) : s[i].desc # r[j].desc
  PROVE  Fits(o, s \o r)
  <1> DEFINE q == s \o r
  <1>1. /\ q \in Seq(EntryRecords) /\ Len(q) = Len(s) + Len(r)
        /\ \A i \in 1..Len(s) : q[i] = s[i]
        /\ \A i \in (Len(s) + 1)..(Len(s) + Len(r)) : q[i] = r[i - Len(s)]
        /\ Len(s) \in Nat /\ Len(r) \in Nat
    BY ConcatProperties, LenProperties DEF Fits
  <1> HIDE DEF q
  <1>2. \A i \in 1..Len(q) :
          \/ i \in 1..Len(s) /\ q[i] = s[i]
          \/ i > Len(s) /\ i - Len(s) \in 1..Len(r) /\ q[i] = r[i - Len(s)]
    BY <1>1
  <1>3. \A i \in 1..Len(q) : /\ q[i].of = o /\ EntryOK(q[i])
                             /\ q[i].section # "none" => Weighty(o)
    BY <1>2 DEF Fits
  <1>4. ASSUME NEW i \in 1..Len(q), NEW j \in 1..Len(q), q[i].desc = q[j].desc PROVE i = j
    <2>1. CASE i \in 1..Len(s) /\ q[i] = s[i]
      <3>1. j \in 1..Len(s) /\ q[j] = s[j]
        BY <1>2, <1>4, <2>1
      <3> QED
        BY <1>4, <2>1, <3>1 DEF Fits
    <2>2. CASE i > Len(s) /\ i - Len(s) \in 1..Len(r) /\ q[i] = r[i - Len(s)]
      <3>1. j > Len(s) /\ j - Len(s) \in 1..Len(r) /\ q[j] = r[j - Len(s)]
        BY <1>2, <1>4, <2>2
      <3>2. i - Len(s) = j - Len(s)
        BY <1>4, <2>2, <3>1 DEF Fits
      <3> QED
        BY <1>1, <3>2
    <2> QED
      BY <1>2, <2>1, <2>2
  <1>5. Fits(o, q)
    BY <1>1, <1>3, <1>4 DEF Fits
  <1> QED
    BY <1>5 DEF q

(* dumpACL.                                                                *)
LEMMA PrivilegesFit ==
  ASSUME NEW o \in Objects, catalog[o].type # "fk"
  PROVE  Fits(o, Privileges(o)) /\ \A i \in 1..Len(Privileges(o)) : Privileges(o)[i].desc = "ACL"
  <1>1. CASE Privileges(o) = <<>>
    BY <1>1, FitsNone, EmptySeq
  <1>2. CASE Privileges(o) = <<Entry(o, "ACL", "none")>>
    <2>1. Fits(o, <<Entry(o, "ACL", "none")>>)
      <3>1. "ACL" \in Descriptions /\ "ACL" \notin {"INDEX", "EVENT TRIGGER", "DEFAULT ACL"}
        BY DEF Descriptions
      <3> QED
        BY <3>1, FitsOne
    <2>2. \A e : e.desc = "ACL" => \A i \in 1..Len(<<e>>) : <<e>>[i].desc = "ACL"
      OBVIOUS
    <2>3. Entry(o, "ACL", "none").desc = "ACL"
      BY DEF Entry
    <2> QED
      BY <1>2, <2>1, <2>2, <2>3
  <1> QED
    BY <1>1, <1>2 DEF Privileges

(* A statement, and the privileges after it.                               *)
LEMMA StatementFits ==
  ASSUME NEW o \in Objects, NEW desc \in Descriptions, NEW section \in {"pre", "post"},
         desc # "ACL", desc \in Ordinary => section = "post",
         catalog[o].type = "fk" => section = "post", Defined(o) => Weighty(o)
  PROVE  /\ Fits(o, Statement(o, desc, section))
         /\ \A i \in 1..Len(Statement(o, desc, section)) :
              Statement(o, desc, section)[i].desc = desc
         /\ catalog[o].type # "fk" => Fits(o, Statement(o, desc, section) \o Privileges(o))
  <1> DEFINE s == Statement(o, desc, section)
  <1>1. Fits(o, s) /\ \A i \in 1..Len(s) : s[i].desc = desc
    <2>1. CASE ~Defined(o)
      BY <2>1, FitsNone, EmptySeq DEF Statement
    <2>2. CASE Defined(o)
      <3>1. s = <<Entry(o, desc, section)>>
        BY <2>2 DEF Statement
      <3>2. Fits(o, <<Entry(o, desc, section)>>)
        BY <2>2, FitsOne DEF Ordinary
      <3>3. \A e : e.desc = desc => \A i \in 1..Len(<<e>>) : <<e>>[i].desc = desc
        OBVIOUS
      <3>4. Entry(o, desc, section).desc = desc
        BY DEF Entry
      <3> QED
        BY <3>1, <3>2, <3>3, <3>4
    <2> QED
      BY <2>1, <2>2
  <1>2. ASSUME catalog[o].type # "fk" PROVE Fits(o, s \o Privileges(o))
    <2> HIDE DEF s
    <2> QED
      BY <1>1, <1>2, PrivilegesFit, FitsBoth
  <1> QED
    BY <1>1, <1>2

(* Of most types every statement needs the schema.                         *)
LEMMA DefinedIsWeighty ==
  ASSUME NEW o, Defined(o),
         catalog[o].type \notin {"default acl", "index attach", "table data", "type"} \cup Boundaries
  PROVE  Weighty(o)
  BY DEF Weighty, Defined, Boundaries

(* The types with one statement.                                           *)
LEMMA OneStatementFits ==
  ASSUME NEW o \in Objects, Requested(o) # {},
         catalog[o].type \in {"namespace", "shell", "agg", "access method", "opclass", "opfamily", "collation", "conversion", "statistics", "trigger", "event trigger", "cast", "transform", "parser", "dictionary", "template", "text config", "fdw", "publication", "publication table", "publication schema", "subscription"}
  PROVE  Fits(o, EntriesOf(o))
  <1> DEFINE type == catalog[o].type
  <1>0. Defined(o) => Weighty(o)
    BY DefinedIsWeighty DEF Boundaries
  <1>1. CASE type = "namespace"
    <2>1. EntriesOf(o) = Statement(o, "SCHEMA", "pre") \o Privileges(o)
      BY <1>1 DEF EntriesOf, DumpNamespace
    <2>2. "SCHEMA" \in Descriptions /\ "SCHEMA" # "ACL" /\ ("SCHEMA" \in Ordinary => "pre" = "post")
      BY DEF Descriptions, Ordinary
    <2>3. catalog[o].type # "fk" /\ "pre" \in {"pre", "post"}
      BY <1>1
    <2> HIDE DEF type
    <2> QED
      BY <1>0, <2>1, <2>2, <2>3, StatementFits
  <1>2. CASE type = "shell"
    <2>1. EntriesOf(o) = Statement(o, "SHELL TYPE", "pre")
      BY <1>2 DEF EntriesOf, DumpShellType
    <2>2. "SHELL TYPE" \in Descriptions /\ "SHELL TYPE" # "ACL" /\ ("SHELL TYPE" \in Ordinary => "pre" = "post")
      BY DEF Descriptions, Ordinary
    <2>3. catalog[o].type # "fk" /\ "pre" \in {"pre", "post"}
      BY <1>2
    <2> HIDE DEF type
    <2> QED
      BY <1>0, <2>1, <2>2, <2>3, StatementFits
  <1>3. CASE type = "agg"
    <2>1. EntriesOf(o) = Statement(o, "AGGREGATE", "pre") \o Privileges(o)
      BY <1>3 DEF EntriesOf, DumpAgg
    <2>2. "AGGREGATE" \in Descriptions /\ "AGGREGATE" # "ACL" /\ ("AGGREGATE" \in Ordinary => "pre" = "post")
      BY DEF Descriptions, Ordinary
    <2>3. catalog[o].type # "fk" /\ "pre" \in {"pre", "post"}
      BY <1>3
    <2> HIDE DEF type
    <2> QED
      BY <1>0, <2>1, <2>2, <2>3, StatementFits
  <1>4. CASE type = "access method"
    <2>1. EntriesOf(o) = Statement(o, "ACCESS METHOD", "pre")
      BY <1>4 DEF EntriesOf, DumpAccessMethod
    <2>2. "ACCESS METHOD" \in Descriptions /\ "ACCESS METHOD" # "ACL" /\ ("ACCESS METHOD" \in Ordinary => "pre" = "post")
      BY DEF Descriptions, Ordinary
    <2>3. catalog[o].type # "fk" /\ "pre" \in {"pre", "post"}
      BY <1>4
    <2> HIDE DEF type
    <2> QED
      BY <1>0, <2>1, <2>2, <2>3, StatementFits
  <1>5. CASE type = "opclass"
    <2>1. EntriesOf(o) = Statement(o, "OPERATOR CLASS", "pre")
      BY <1>5 DEF EntriesOf, DumpOpclass
    <2>2. "OPERATOR CLASS" \in Descriptions /\ "OPERATOR CLASS" # "ACL" /\ ("OPERATOR CLASS" \in Ordinary => "pre" = "post")
      BY DEF Descriptions, Ordinary
    <2>3. catalog[o].type # "fk" /\ "pre" \in {"pre", "post"}
      BY <1>5
    <2> HIDE DEF type
    <2> QED
      BY <1>0, <2>1, <2>2, <2>3, StatementFits
  <1>6. CASE type = "opfamily"
    <2>1. EntriesOf(o) = Statement(o, "OPERATOR FAMILY", "pre")
      BY <1>6 DEF EntriesOf, DumpOpfamily
    <2>2. "OPERATOR FAMILY" \in Descriptions /\ "OPERATOR FAMILY" # "ACL" /\ ("OPERATOR FAMILY" \in Ordinary => "pre" = "post")
      BY DEF Descriptions, Ordinary
    <2>3. catalog[o].type # "fk" /\ "pre" \in {"pre", "post"}
      BY <1>6
    <2> HIDE DEF type
    <2> QED
      BY <1>0, <2>1, <2>2, <2>3, StatementFits
  <1>7. CASE type = "collation"
    <2>1. EntriesOf(o) = Statement(o, "COLLATION", "pre")
      BY <1>7 DEF EntriesOf, DumpCollation
    <2>2. "COLLATION" \in Descriptions /\ "COLLATION" # "ACL" /\ ("COLLATION" \in Ordinary => "pre" = "post")
      BY DEF Descriptions, Ordinary
    <2>3. catalog[o].type # "fk" /\ "pre" \in {"pre", "post"}
      BY <1>7
    <2> HIDE DEF type
    <2> QED
      BY <1>0, <2>1, <2>2, <2>3, StatementFits
  <1>8. CASE type = "conversion"
    <2>1. EntriesOf(o) = Statement(o, "CONVERSION", "pre")
      BY <1>8 DEF EntriesOf, DumpConversion
    <2>2. "CONVERSION" \in Descriptions /\ "CONVERSION" # "ACL" /\ ("CONVERSION" \in Ordinary => "pre" = "post")
      BY DEF Descriptions, Ordinary
    <2>3. catalog[o].type # "fk" /\ "pre" \in {"pre", "post"}
      BY <1>8
    <2> HIDE DEF type
    <2> QED
      BY <1>0, <2>1, <2>2, <2>3, StatementFits
  <1>9. CASE type = "statistics"
    <2>1. EntriesOf(o) = Statement(o, "STATISTICS", "post")
      BY <1>9 DEF EntriesOf, DumpStatisticsExt
    <2>2. "STATISTICS" \in Descriptions /\ "STATISTICS" # "ACL" /\ ("STATISTICS" \in Ordinary => "post" = "post")
      BY DEF Descriptions, Ordinary
    <2>3. catalog[o].type # "fk" /\ "post" \in {"pre", "post"}
      BY <1>9
    <2> HIDE DEF type
    <2> QED
      BY <1>0, <2>1, <2>2, <2>3, StatementFits
  <1>10. CASE type = "trigger"
    <2>1. EntriesOf(o) = Statement(o, "TRIGGER", "post")
      BY <1>10 DEF EntriesOf, DumpTrigger
    <2>2. "TRIGGER" \in Descriptions /\ "TRIGGER" # "ACL" /\ ("TRIGGER" \in Ordinary => "post" = "post")
      BY DEF Descriptions, Ordinary
    <2>3. catalog[o].type # "fk" /\ "post" \in {"pre", "post"}
      BY <1>10
    <2> HIDE DEF type
    <2> QED
      BY <1>0, <2>1, <2>2, <2>3, StatementFits
  <1>11. CASE type = "event trigger"
    <2>1. EntriesOf(o) = Statement(o, "EVENT TRIGGER", "post")
      BY <1>11 DEF EntriesOf, DumpEventTrigger
    <2>2. "EVENT TRIGGER" \in Descriptions /\ "EVENT TRIGGER" # "ACL" /\ ("EVENT TRIGGER" \in Ordinary => "post" = "post")
      BY DEF Descriptions, Ordinary
    <2>3. catalog[o].type # "fk" /\ "post" \in {"pre", "post"}
      BY <1>11
    <2> HIDE DEF type
    <2> QED
      BY <1>0, <2>1, <2>2, <2>3, StatementFits
  <1>12. CASE type = "cast"
    <2>1. EntriesOf(o) = Statement(o, "CAST", "pre")
      BY <1>12 DEF EntriesOf, DumpCast
    <2>2. "CAST" \in Descriptions /\ "CAST" # "ACL" /\ ("CAST" \in Ordinary => "pre" = "post")
      BY DEF Descriptions, Ordinary
    <2>3. catalog[o].type # "fk" /\ "pre" \in {"pre", "post"}
      BY <1>12
    <2> HIDE DEF type
    <2> QED
      BY <1>0, <2>1, <2>2, <2>3, StatementFits
  <1>13. CASE type = "transform"
    <2>1. EntriesOf(o) = Statement(o, "TRANSFORM", "pre")
      BY <1>13 DEF EntriesOf, DumpTransform
    <2>2. "TRANSFORM" \in Descriptions /\ "TRANSFORM" # "ACL" /\ ("TRANSFORM" \in Ordinary => "pre" = "post")
      BY DEF Descriptions, Ordinary
    <2>3. catalog[o].type # "fk" /\ "pre" \in {"pre", "post"}
      BY <1>13
    <2> HIDE DEF type
    <2> QED
      BY <1>0, <2>1, <2>2, <2>3, StatementFits
  <1>14. CASE type = "parser"
    <2>1. EntriesOf(o) = Statement(o, "TEXT SEARCH PARSER", "pre")
      BY <1>14 DEF EntriesOf, DumpTSParser
    <2>2. "TEXT SEARCH PARSER" \in Descriptions /\ "TEXT SEARCH PARSER" # "ACL" /\ ("TEXT SEARCH PARSER" \in Ordinary => "pre" = "post")
      BY DEF Descriptions, Ordinary
    <2>3. catalog[o].type # "fk" /\ "pre" \in {"pre", "post"}
      BY <1>14
    <2> HIDE DEF type
    <2> QED
      BY <1>0, <2>1, <2>2, <2>3, StatementFits
  <1>15. CASE type = "dictionary"
    <2>1. EntriesOf(o) = Statement(o, "TEXT SEARCH DICTIONARY", "pre")
      BY <1>15 DEF EntriesOf, DumpTSDictionary
    <2>2. "TEXT SEARCH DICTIONARY" \in Descriptions /\ "TEXT SEARCH DICTIONARY" # "ACL" /\ ("TEXT SEARCH DICTIONARY" \in Ordinary => "pre" = "post")
      BY DEF Descriptions, Ordinary
    <2>3. catalog[o].type # "fk" /\ "pre" \in {"pre", "post"}
      BY <1>15
    <2> HIDE DEF type
    <2> QED
      BY <1>0, <2>1, <2>2, <2>3, StatementFits
  <1>16. CASE type = "template"
    <2>1. EntriesOf(o) = Statement(o, "TEXT SEARCH TEMPLATE", "pre")
      BY <1>16 DEF EntriesOf, DumpTSTemplate
    <2>2. "TEXT SEARCH TEMPLATE" \in Descriptions /\ "TEXT SEARCH TEMPLATE" # "ACL" /\ ("TEXT SEARCH TEMPLATE" \in Ordinary => "pre" = "post")
      BY DEF Descriptions, Ordinary
    <2>3. catalog[o].type # "fk" /\ "pre" \in {"pre", "post"}
      BY <1>16
    <2> HIDE DEF type
    <2> QED
      BY <1>0, <2>1, <2>2, <2>3, StatementFits
  <1>17. CASE type = "text config"
    <2>1. EntriesOf(o) = Statement(o, "TEXT SEARCH CONFIGURATION", "pre")
      BY <1>17 DEF EntriesOf, DumpTSConfig
    <2>2. "TEXT SEARCH CONFIGURATION" \in Descriptions /\ "TEXT SEARCH CONFIGURATION" # "ACL" /\ ("TEXT SEARCH CONFIGURATION" \in Ordinary => "pre" = "post")
      BY DEF Descriptions, Ordinary
    <2>3. catalog[o].type # "fk" /\ "pre" \in {"pre", "post"}
      BY <1>17
    <2> HIDE DEF type
    <2> QED
      BY <1>0, <2>1, <2>2, <2>3, StatementFits
  <1>18. CASE type = "fdw"
    <2>1. EntriesOf(o) = Statement(o, "FOREIGN DATA WRAPPER", "pre") \o Privileges(o)
      BY <1>18 DEF EntriesOf, DumpForeignDataWrapper
    <2>2. "FOREIGN DATA WRAPPER" \in Descriptions /\ "FOREIGN DATA WRAPPER" # "ACL" /\ ("FOREIGN DATA WRAPPER" \in Ordinary => "pre" = "post")
      BY DEF Descriptions, Ordinary
    <2>3. catalog[o].type # "fk" /\ "pre" \in {"pre", "post"}
      BY <1>18
    <2> HIDE DEF type
    <2> QED
      BY <1>0, <2>1, <2>2, <2>3, StatementFits
  <1>19. CASE type = "publication"
    <2>1. EntriesOf(o) = Statement(o, "PUBLICATION", "post")
      BY <1>19 DEF EntriesOf, DumpPublication
    <2>2. "PUBLICATION" \in Descriptions /\ "PUBLICATION" # "ACL" /\ ("PUBLICATION" \in Ordinary => "post" = "post")
      BY DEF Descriptions, Ordinary
    <2>3. catalog[o].type # "fk" /\ "post" \in {"pre", "post"}
      BY <1>19
    <2> HIDE DEF type
    <2> QED
      BY <1>0, <2>1, <2>2, <2>3, StatementFits
  <1>20. CASE type = "publication table"
    <2>1. EntriesOf(o) = Statement(o, "PUBLICATION TABLE", "post")
      BY <1>20 DEF EntriesOf, DumpPublicationTable
    <2>2. "PUBLICATION TABLE" \in Descriptions /\ "PUBLICATION TABLE" # "ACL" /\ ("PUBLICATION TABLE" \in Ordinary => "post" = "post")
      BY DEF Descriptions, Ordinary
    <2>3. catalog[o].type # "fk" /\ "post" \in {"pre", "post"}
      BY <1>20
    <2> HIDE DEF type
    <2> QED
      BY <1>0, <2>1, <2>2, <2>3, StatementFits
  <1>21. CASE type = "publication schema"
    <2>1. EntriesOf(o) = Statement(o, "PUBLICATION TABLES IN SCHEMA", "post")
      BY <1>21 DEF EntriesOf, DumpPublicationNamespace
    <2>2. "PUBLICATION TABLES IN SCHEMA" \in Descriptions /\ "PUBLICATION TABLES IN SCHEMA" # "ACL" /\ ("PUBLICATION TABLES IN SCHEMA" \in Ordinary => "post" = "post")
      BY DEF Descriptions, Ordinary
    <2>3. catalog[o].type # "fk" /\ "post" \in {"pre", "post"}
      BY <1>21
    <2> HIDE DEF type
    <2> QED
      BY <1>0, <2>1, <2>2, <2>3, StatementFits
  <1>22. CASE type = "subscription"
    <2>1. EntriesOf(o) = Statement(o, "SUBSCRIPTION", "post")
      BY <1>22 DEF EntriesOf, DumpSubscription
    <2>2. "SUBSCRIPTION" \in Descriptions /\ "SUBSCRIPTION" # "ACL" /\ ("SUBSCRIPTION" \in Ordinary => "post" = "post")
      BY DEF Descriptions, Ordinary
    <2>3. catalog[o].type # "fk" /\ "post" \in {"pre", "post"}
      BY <1>22
    <2> HIDE DEF type
    <2> QED
      BY <1>0, <2>1, <2>2, <2>3, StatementFits
  <1> QED
    BY <1>1, <1>2, <1>3, <1>4, <1>5, <1>6, <1>7, <1>8, <1>9, <1>10, <1>11, <1>12, <1>13, <1>14,
       <1>15, <1>16, <1>17, <1>18, <1>19, <1>20, <1>21, <1>22

(* The types that may have none, or a choice.                              *)
LEMMA SomeStatementFits ==
  ASSUME NEW o \in Objects, Requested(o) # {},
         catalog[o].type \in {"extension", "operator", "func", "attrdef", "index", "rule", "policy", "fk", "constraint"}
  PROVE  Fits(o, EntriesOf(o))
  <1> DEFINE type == catalog[o].type
  <1>0. Defined(o) => Weighty(o)
    BY DefinedIsWeighty DEF Boundaries
  <1>1. CASE type = "extension"
    <2>1. \/ EntriesOf(o) = <<>>
          \/ EntriesOf(o) = Statement(o, "EXTENSION", "pre")
      BY <1>1 DEF EntriesOf, DumpExtension
    <2>2. /\ "EXTENSION" \in Descriptions /\ "EXTENSION" # "ACL" /\ ("EXTENSION" \in Ordinary => "pre" = "post")
      BY DEF Descriptions, Ordinary
    <2>3. catalog[o].type # "fk" /\ "pre" \in {"pre", "post"}
      BY <1>1
    <2> HIDE DEF type
    <2> QED
      BY <1>0, <2>1, <2>2, <2>3, StatementFits, FitsNone
  <1>2. CASE type = "operator"
    <2>1. \/ EntriesOf(o) = <<>>
          \/ EntriesOf(o) = Statement(o, "OPERATOR", "pre")
      BY <1>2 DEF EntriesOf, DumpOpr
    <2>2. /\ "OPERATOR" \in Descriptions /\ "OPERATOR" # "ACL" /\ ("OPERATOR" \in Ordinary => "pre" = "post")
      BY DEF Descriptions, Ordinary
    <2>3. catalog[o].type # "fk" /\ "pre" \in {"pre", "post"}
      BY <1>2
    <2> HIDE DEF type
    <2> QED
      BY <1>0, <2>1, <2>2, <2>3, StatementFits, FitsNone
  <1>3. CASE type = "func"
    <2>1. \/ EntriesOf(o) = Statement(o, "FUNCTION", "pre") \o Privileges(o)
          \/ EntriesOf(o) = Statement(o, "FUNCTION", "post") \o Privileges(o)
      BY <1>3 DEF EntriesOf, DumpFunc
    <2>2. /\ "FUNCTION" \in Descriptions /\ "FUNCTION" # "ACL" /\ ("FUNCTION" \in Ordinary => "pre" = "post")
      BY DEF Descriptions, Ordinary
    <2>3. catalog[o].type # "fk" /\ "post" \in {"pre", "post"} /\ "pre" \in {"pre", "post"}
      BY <1>3
    <2> HIDE DEF type
    <2> QED
      BY <1>0, <2>1, <2>2, <2>3, StatementFits, FitsNone
  <1>4. CASE type = "attrdef"
    <2>1. \/ EntriesOf(o) = <<>>
          \/ EntriesOf(o) = Statement(o, "DEFAULT", "pre")
      BY <1>4 DEF EntriesOf, DumpAttrDef
    <2>2. /\ "DEFAULT" \in Descriptions /\ "DEFAULT" # "ACL" /\ ("DEFAULT" \in Ordinary => "pre" = "post")
      BY DEF Descriptions, Ordinary
    <2>3. catalog[o].type # "fk" /\ "pre" \in {"pre", "post"}
      BY <1>4
    <2> HIDE DEF type
    <2> QED
      BY <1>0, <2>1, <2>2, <2>3, StatementFits, FitsNone
  <1>5. CASE type = "index"
    <2>1. \/ EntriesOf(o) = <<>>
          \/ EntriesOf(o) = Statement(o, "INDEX", "post")
      BY <1>5 DEF EntriesOf, DumpIndex
    <2>2. /\ "INDEX" \in Descriptions /\ "INDEX" # "ACL" /\ ("INDEX" \in Ordinary => "post" = "post")
      BY DEF Descriptions, Ordinary
    <2>3. catalog[o].type # "fk" /\ "post" \in {"pre", "post"}
      BY <1>5
    <2> HIDE DEF type
    <2> QED
      BY <1>0, <2>1, <2>2, <2>3, StatementFits, FitsNone
  <1>6. CASE type = "rule"
    <2>1. \/ EntriesOf(o) = <<>>
          \/ EntriesOf(o) = Statement(o, "RULE", "post")
      BY <1>6 DEF EntriesOf, DumpRule
    <2>2. /\ "RULE" \in Descriptions /\ "RULE" # "ACL" /\ ("RULE" \in Ordinary => "post" = "post")
      BY DEF Descriptions, Ordinary
    <2>3. catalog[o].type # "fk" /\ "post" \in {"pre", "post"}
      BY <1>6
    <2> HIDE DEF type
    <2> QED
      BY <1>0, <2>1, <2>2, <2>3, StatementFits, FitsNone
  <1>7. CASE type = "policy"
    <2>1. \/ EntriesOf(o) = <<>>
          \/ EntriesOf(o) = Statement(o, "ROW SECURITY", "post")
          \/ EntriesOf(o) = Statement(o, "POLICY", "post")
      BY <1>7 DEF EntriesOf, DumpPolicy
    <2>2. /\ "POLICY" \in Descriptions /\ "POLICY" # "ACL" /\ ("POLICY" \in Ordinary => "post" = "post")
          /\ "ROW SECURITY" \in Descriptions /\ "ROW SECURITY" # "ACL" /\ ("ROW SECURITY" \in Ordinary => "post" = "post")
      BY DEF Descriptions, Ordinary
    <2>3. catalog[o].type # "fk" /\ "post" \in {"pre", "post"}
      BY <1>7
    <2> HIDE DEF type
    <2> QED
      BY <1>0, <2>1, <2>2, <2>3, StatementFits, FitsNone
  <1>8. CASE type = "fk"
    <2>1. \/ EntriesOf(o) = <<>>
          \/ EntriesOf(o) = Statement(o, "FK CONSTRAINT", "post")
      BY <1>8 DEF EntriesOf, DumpConstraint
    <2>2. /\ "FK CONSTRAINT" \in Descriptions /\ "FK CONSTRAINT" # "ACL" /\ ("FK CONSTRAINT" \in Ordinary => "post" = "post")
      BY DEF Descriptions, Ordinary
    <2>3. "post" \in {"pre", "post"}
      BY <1>8
    <2> HIDE DEF type
    <2> QED
      BY <1>0, <2>1, <2>2, <2>3, StatementFits, FitsNone
  <1>9. CASE type = "constraint"
    <2>1. \/ EntriesOf(o) = <<>>
          \/ EntriesOf(o) = Statement(o, "CONSTRAINT", "post")
          \/ EntriesOf(o) = Statement(o, "CHECK CONSTRAINT", "post")
      BY <1>9 DEF EntriesOf, DumpConstraint
    <2>2. /\ "CHECK CONSTRAINT" \in Descriptions /\ "CHECK CONSTRAINT" # "ACL" /\ ("CHECK CONSTRAINT" \in Ordinary => "post" = "post")
          /\ "CONSTRAINT" \in Descriptions /\ "CONSTRAINT" # "ACL" /\ ("CONSTRAINT" \in Ordinary => "post" = "post")
      BY DEF Descriptions, Ordinary
    <2>3. catalog[o].type # "fk" /\ "post" \in {"pre", "post"}
      BY <1>9
    <2> HIDE DEF type
    <2> QED
      BY <1>0, <2>1, <2>2, <2>3, StatementFits, FitsNone
  <1> QED
    BY <1>1, <1>2, <1>3, <1>4, <1>5, <1>6, <1>7, <1>8, <1>9

(* dumpType, for each kind of type.                                        *)
LEMMA TypeFits ==
  ASSUME NEW o \in Objects, catalog[o].type = "type" PROVE Fits(o, DumpType(o))
  <1>1. CASE DumpType(o) = <<>>
    BY <1>1, FitsNone
  <1>2. CASE Kind(o) \in {"base", "domain", "composite", "enum", "range", "pseudo"}
    <2>1. Defined(o) => Weighty(o)
      BY <1>2 DEF Weighty, Boundaries
    <2>2. Fits(o, Statement(o, "TYPE", "pre") \o Privileges(o))
          /\ Fits(o, Statement(o, "DOMAIN", "pre") \o Privileges(o))
      <3>1. /\ "TYPE" \in Descriptions /\ "TYPE" # "ACL" /\ "TYPE" \notin Ordinary
            /\ "DOMAIN" \in Descriptions /\ "DOMAIN" # "ACL" /\ "DOMAIN" \notin Ordinary
        BY DEF Descriptions, Ordinary
      <3>2. catalog[o].type # "fk" /\ "pre" \in {"pre", "post"}
        OBVIOUS
      <3> QED
        BY <2>1, <3>1, <3>2, StatementFits
    <2>3. \/ DumpType(o) = Statement(o, "TYPE", "pre") \o Privileges(o)
          \/ DumpType(o) = Statement(o, "DOMAIN", "pre") \o Privileges(o)
          \/ DumpType(o) = <<>>
      BY <1>2 DEF DumpType, DumpBaseType, DumpDomain, DumpCompositeType, DumpEnumType,
                  DumpRangeType, DumpUndefinedType
    <2> QED
      BY <1>1, <2>2, <2>3
  <1>3. CASE Kind(o) \notin {"base", "domain", "composite", "enum", "range", "pseudo"}
    BY <1>3, <1>1 DEF DumpType
  <1> QED
    BY <1>2, <1>3

(* dumpTable, the policies included.                                       *)
LEMMA TableFits ==
  ASSUME NEW o \in Objects, catalog[o].type = "table" PROVE Fits(o, DumpTable(o))
  <1>1. Defined(o) => Weighty(o)
    BY DefinedIsWeighty DEF Boundaries
  <1>2. CASE Kind(o) = "sequence"
    <2>1. DumpTable(o) = <<>> \o Privileges(o)
      BY <1>2 DEF DumpTable
    <2>2. \A i \in 1..Len(<<>>) : FALSE
      BY EmptySeq
    <2> QED
      BY <2>1, <2>2, FitsNone, PrivilegesFit, FitsBoth
  <1>3. CASE Kind(o) # "sequence"
    <2>1. PICK desc \in {"VIEW", "MATERIALIZED VIEW", "FOREIGN TABLE", "TABLE"}, section \in {"pre", "post"} :
            DumpTableSchema(o) = Statement(o, desc, section)
      BY DEF DumpTableSchema
    <2>2. DumpTable(o) = Statement(o, desc, section) \o Privileges(o)
      BY <1>3, <2>1 DEF DumpTable
    <2>3. desc \in Descriptions /\ desc # "ACL" /\ desc \notin Ordinary
      BY DEF Descriptions, Ordinary
    <2>4. catalog[o].type # "fk"
      OBVIOUS
    <2> QED
      BY <1>1, <2>2, <2>3, <2>4, StatementFits
  <1> QED
    BY <1>2, <1>3

(* dumpForeignServer with its user mappings.                               *)
LEMMA ServerFits ==
  ASSUME NEW o \in Objects, catalog[o].type = "server" PROVE Fits(o, DumpForeignServer(o))
  <1>1. Defined(o) => Weighty(o)
    BY DefinedIsWeighty DEF Boundaries
  <1> DEFINE s == Statement(o, "SERVER", "pre")
             p == Privileges(o)
             u == DumpUserMappings(o)
  <1>2. /\ Fits(o, s) /\ \A i \in 1..Len(s) : s[i].desc = "SERVER"
        /\ Fits(o, s \o p)
    <2>1. "SERVER" \in Descriptions /\ "SERVER" # "ACL" /\ "SERVER" \notin Ordinary
      BY DEF Descriptions, Ordinary
    <2>2. catalog[o].type # "fk" /\ "pre" \in {"pre", "post"}
      OBVIOUS
    <2> QED
      BY <1>1, <2>1, <2>2, StatementFits
  <1>3. Fits(o, p) /\ \A i \in 1..Len(p) : p[i].desc = "ACL"
    BY PrivilegesFit
  <1>4. Fits(o, u) /\ \A i \in 1..Len(u) : u[i].desc = "USER MAPPING"
    <2>1. CASE u = <<>>
      BY <2>1, FitsNone, EmptySeq
    <2>2. CASE u = <<Entry(o, "USER MAPPING", "pre")>> /\ "USERMAP" \in Requested(o)
      <3>1. Weighty(o)
        BY <2>2 DEF Weighty, Requested, Boundaries
      <3>2. Fits(o, <<Entry(o, "USER MAPPING", "pre")>>)
        <4>1. /\ "USER MAPPING" \in Descriptions /\ "USER MAPPING" # "ACL"
              /\ "USER MAPPING" \notin {"INDEX", "EVENT TRIGGER", "DEFAULT ACL"}
          BY DEF Descriptions
        <4>2. catalog[o].type # "fk" /\ "pre" \in {"pre", "post", "none"} /\ "pre" # "none"
          OBVIOUS
        <4> HIDE DEF s, p, u
        <4> QED
          BY <3>1, <4>1, <4>2, FitsOne
      <3>3. \A e : e.desc = "USER MAPPING" => \A i \in 1..Len(<<e>>) : <<e>>[i].desc = "USER MAPPING"
        BY OneTuple
      <3>4. Entry(o, "USER MAPPING", "pre").desc = "USER MAPPING"
        BY DEF Entry
      <3> QED
        BY <2>2, <3>2, <3>3, <3>4
    <2> QED
      BY <2>1, <2>2 DEF DumpUserMappings
  <1>5. \A i \in 1..Len(s \o p) : (s \o p)[i].desc \in {"SERVER", "ACL"}
    <2> DEFINE q == s \o p
    <2>1. /\ s \in Seq(EntryRecords) /\ p \in Seq(EntryRecords)
      BY <1>2, <1>3 DEF Fits
    <2> HIDE DEF s, p
    <2>2. /\ Len(q) = Len(s) + Len(p) /\ Len(s) \in Nat /\ Len(p) \in Nat
          /\ \A i \in 1..Len(s) : q[i] = s[i]
          /\ \A i \in (Len(s) + 1)..(Len(s) + Len(p)) : q[i] = p[i - Len(s)]
      BY <2>1, ConcatProperties, LenProperties
    <2> HIDE DEF q
    <2>3. \A i \in 1..Len(q) : \/ i \in 1..Len(s) /\ q[i] = s[i]
                               \/ i - Len(s) \in 1..Len(p) /\ q[i] = p[i - Len(s)]
      BY <2>2
    <2>4. \A i \in 1..Len(q) : q[i].desc \in {"SERVER", "ACL"}
      BY <1>2, <1>3, <2>3
    <2> QED
      BY <2>4 DEF q
  <1>6. DumpForeignServer(o) = (s \o p) \o u
    BY DEF DumpForeignServer
  <1> HIDE DEF s, p, u
  <1>7. \A i \in 1..Len(s \o p) : \A j \in 1..Len(u) : (s \o p)[i].desc # u[j].desc
    BY <1>4, <1>5
  <1> QED
    BY <1>2, <1>4, <1>6, <1>7, FitsBoth

(* The types with a statement of another kind.                             *)
LEMMA OtherFits ==
  ASSUME NEW o \in Objects, Requested(o) # {},
         catalog[o].type \in {"type", "table", "server", "table attach", "index attach",
                              "default acl", "language", "table data"} \cup Boundaries
  PROVE  Fits(o, EntriesOf(o))
  <1> DEFINE type == catalog[o].type
  <1>1. CASE type = "type"
    <2>1. EntriesOf(o) = DumpType(o)
      BY <1>1 DEF EntriesOf
    <2> QED
      BY <1>1, <2>1, TypeFits
  <1>2. CASE type = "table"
    <2>1. EntriesOf(o) = DumpTable(o)
      BY <1>2 DEF EntriesOf
    <2> QED
      BY <1>2, <2>1, TableFits
  <1>3. CASE type = "server"
    <2>1. EntriesOf(o) = DumpForeignServer(o)
      BY <1>3 DEF EntriesOf
    <2> QED
      BY <1>3, <2>1, ServerFits
  <1>4. CASE type = "table attach"
    <2>1. EntriesOf(o) = <<Entry(o, "TABLE ATTACH", "pre")>>
      BY <1>4 DEF EntriesOf, DumpTableAttach
    <2>2. Weighty(o)
      BY <1>4 DEF Weighty, Boundaries
    <2>3. /\ "TABLE ATTACH" \in Descriptions /\ "TABLE ATTACH" # "ACL"
          /\ "TABLE ATTACH" \notin {"INDEX", "EVENT TRIGGER", "DEFAULT ACL"}
      BY DEF Descriptions
    <2>4. catalog[o].type # "fk" /\ "pre" \in {"pre", "post", "none"} /\ "pre" # "none"
      BY <1>4
    <2> HIDE DEF type
    <2> QED
      BY <2>1, <2>2, <2>3, <2>4, FitsOne
  <1>5. CASE type = "index attach"
    <2>1. \/ EntriesOf(o) = <<>>
          \/ EntriesOf(o) = <<Entry(o, "INDEX ATTACH", "post")>> /\ Defined(Of(o))
      BY <1>5 DEF EntriesOf, DumpIndexAttach
    <2>2. Defined(Of(o)) => Weighty(o)
      BY <1>5 DEF Weighty, Boundaries
    <2>3. /\ "INDEX ATTACH" \in Descriptions /\ "INDEX ATTACH" # "ACL"
          /\ "INDEX ATTACH" \notin {"INDEX", "EVENT TRIGGER", "DEFAULT ACL"}
      BY DEF Descriptions
    <2>4. catalog[o].type # "fk" /\ "post" \in {"pre", "post", "none"} /\ "post" # "none"
      BY <1>5
    <2> HIDE DEF type
    <2> QED
      BY <2>1, <2>2, <2>3, <2>4, FitsOne, FitsNone
  <1>6. CASE type = "default acl"
    <2>1. \/ EntriesOf(o) = <<>>
          \/ EntriesOf(o) = <<Entry(o, "DEFAULT ACL", "post")>> /\ "ACL" \in Requested(o)
      BY <1>6 DEF EntriesOf, DumpDefaultACL
    <2>2. "ACL" \in Requested(o) => Weighty(o)
      BY <1>6 DEF Weighty, Requested, Boundaries
    <2>3. "DEFAULT ACL" \in Descriptions /\ "DEFAULT ACL" # "ACL"
      BY DEF Descriptions
    <2>4. catalog[o].type # "fk" /\ "post" \in {"pre", "post", "none"} /\ "post" # "none"
      BY <1>6
    <2> HIDE DEF type
    <2> QED
      BY <2>1, <2>2, <2>3, <2>4, FitsOne, FitsNone
  <1>7. CASE type = "language"
    <2>1. Defined(o) => Weighty(o)
      BY <1>7, DefinedIsWeighty DEF Boundaries
    <2> DEFINE s == Statement(o, "PROCEDURAL LANGUAGE", "pre")
    <2>2. EntriesOf(o) = s \o Privileges(o) \/ EntriesOf(o) = s \o <<>>
      BY <1>7 DEF EntriesOf, DumpProcLang
    <2>3. Fits(o, s) /\ Fits(o, s \o Privileges(o))
      <3>1. /\ "PROCEDURAL LANGUAGE" \in Descriptions /\ "PROCEDURAL LANGUAGE" # "ACL"
            /\ "PROCEDURAL LANGUAGE" \notin Ordinary
        BY DEF Descriptions, Ordinary
      <3>2. catalog[o].type # "fk" /\ "pre" \in {"pre", "post"}
        BY <1>7
      <3> HIDE DEF type
      <3> QED
        BY <2>1, <3>1, <3>2, StatementFits
    <2> HIDE DEF s
    <2>4. \A j \in 1..Len(<<>>) : FALSE
      BY NoPlaces
    <2>5. Fits(o, s \o <<>>)
      BY <2>3, <2>4, FitsNone, FitsBoth
    <2> QED
      BY <2>2, <2>3, <2>5
  <1>8. CASE type \in {"table data"} \cup Boundaries
    <2>1. EntriesOf(o) = <<>>
      BY <1>8 DEF EntriesOf, Boundaries
    <2> QED
      BY <2>1, FitsNone
  <1> QED
    BY <1>1, <1>2, <1>3, <1>4, <1>5, <1>6, <1>7, <1>8

(* The entries of every object.                                            *)
LEMMA EntriesFit == ASSUME catalog \in Catalogs, NEW o \in Objects PROVE Fits(o, EntriesOf(o))
  <1>1. CASE Requested(o) = {}
    <2>1. EntriesOf(o) = <<>>
      BY <1>1 DEF EntriesOf
    <2> QED
      BY <2>1, FitsNone
  <1>2. CASE Requested(o) # {}
    <2>1. catalog[o].type \in Types
      BY RowFacts
    <2>2. \/ catalog[o].type \in {"type", "table", "server", "table attach", "index attach",
                              "default acl", "language", "table data"} \cup Boundaries
          \/ catalog[o].type \in {"namespace", "shell", "agg", "access method", "opclass",
            "opfamily", "collation", "conversion", "statistics", "trigger", "event trigger", "cast",
            "transform", "parser", "dictionary", "template", "text config", "fdw", "publication",
            "publication table", "publication schema", "subscription"}
          \/ catalog[o].type \in {"extension", "operator", "func", "attrdef", "index", "rule", "policy", "fk", "constraint"}
      BY <2>1 DEF Types, Boundaries
    <2> QED
      BY <1>2, <2>2, OneStatementFits, SomeStatementFits, OtherFits
  <1> QED
    BY <1>1, <1>2

(* A schema to be created has an entry, its first.                         *)
LEMMA SchemaEntry ==
  ASSUME NEW n \in Rows({"namespace"}), Defined(n)
  PROVE  \E i \in 1..Len(EntriesOf(n)) : EntriesOf(n)[i].of = n /\ EntriesOf(n)[i].section = "pre"
  <1>1. "DEFINITION" \in Requested(n)
    BY DEF Requested, Components, Defined
  <1>2. catalog[n].type = "namespace"
    BY DEF Rows
  <1>3. EntriesOf(n) = <<Entry(n, "SCHEMA", "pre")>> \o Privileges(n)
    BY <1>1, <1>2 DEF EntriesOf, DumpNamespace, Statement
  <1>4. PICK e : e = Entry(n, "SCHEMA", "pre")
    OBVIOUS
  <1>5. e \in {e} /\ e.of = n /\ e.section = "pre"
    BY <1>4 DEF Entry
  <1>6. PICK s : s = <<e>>
    OBVIOUS
  <1>7. s \in Seq({e}) /\ s \in Seq({e} \cup EntryRecords) /\ Len(s) = 1 /\ s[1] = e
    BY <1>5, <1>6, OneTuple
  <1>8. PICK p : p = Privileges(n) /\ p \in Seq(EntryRecords)
    BY <1>2, PrivilegesFit DEF Fits, Rows
  <1>9. p \in Seq({e} \cup EntryRecords) /\ Len(p) \in Nat
    BY <1>8, SeqMonotonic, LenProperties
  <1>10. Len(s \o p) = 1 + Len(p) /\ (s \o p)[1] = e
    BY <1>7, <1>9, ConcatProperties
  <1>11. EntriesOf(n) = s \o p /\ 1 \in 1..Len(s \o p)
    BY <1>3, <1>4, <1>6, <1>8, <1>9, <1>10
  <1> QED
    BY <1>5, <1>10, <1>11

-----------------------------------------------------------------------------
(* The order of the types: schemas before all others.                      *)

Known(t) == \E i \in 1..39 : t \in TypePriorities[i]

(* Every type of object has its case in dumpDumpableObject.                *)
LEMMA EveryTypeKnown == \A t \in Types : Known(t)
  <1>1. Known("namespace")
    <2>1. TypePriorities[1] = {"namespace"} /\ 1 \in 1..39
      BY DEF TypePriorities
    <2> QED
      BY <2>1 DEF Known
  <1>2. Known("language")
    <2>1. TypePriorities[2] = {"language"} /\ 2 \in 1..39
      BY DEF TypePriorities
    <2> QED
      BY <2>1 DEF Known
  <1>3. Known("collation")
    <2>1. TypePriorities[3] = {"collation"} /\ 3 \in 1..39
      BY DEF TypePriorities
    <2> QED
      BY <2>1 DEF Known
  <1>4. Known("transform")
    <2>1. TypePriorities[4] = {"transform"} /\ 4 \in 1..39
      BY DEF TypePriorities
    <2> QED
      BY <2>1 DEF Known
  <1>5. Known("extension")
    <2>1. TypePriorities[5] = {"extension"} /\ 5 \in 1..39
      BY DEF TypePriorities
    <2> QED
      BY <2>1 DEF Known
  <1>6. Known("type") /\ Known("shell")
    <2>1. TypePriorities[6] = {"type", "shell"} /\ 6 \in 1..39
      BY DEF TypePriorities
    <2> QED
      BY <2>1 DEF Known
  <1>7. Known("cast")
    <2>1. TypePriorities[7] = {"cast"} /\ 7 \in 1..39
      BY DEF TypePriorities
    <2> QED
      BY <2>1 DEF Known
  <1>8. Known("func")
    <2>1. TypePriorities[8] = {"func"} /\ 8 \in 1..39
      BY DEF TypePriorities
    <2> QED
      BY <2>1 DEF Known
  <1>9. Known("agg")
    <2>1. TypePriorities[9] = {"agg"} /\ 9 \in 1..39
      BY DEF TypePriorities
    <2> QED
      BY <2>1 DEF Known
  <1>10. Known("access method")
    <2>1. TypePriorities[10] = {"access method"} /\ 10 \in 1..39
      BY DEF TypePriorities
    <2> QED
      BY <2>1 DEF Known
  <1>11. Known("operator")
    <2>1. TypePriorities[11] = {"operator"} /\ 11 \in 1..39
      BY DEF TypePriorities
    <2> QED
      BY <2>1 DEF Known
  <1>12. Known("opclass") /\ Known("opfamily")
    <2>1. TypePriorities[12] = {"opclass", "opfamily"} /\ 12 \in 1..39
      BY DEF TypePriorities
    <2> QED
      BY <2>1 DEF Known
  <1>13. Known("conversion")
    <2>1. TypePriorities[13] = {"conversion"} /\ 13 \in 1..39
      BY DEF TypePriorities
    <2> QED
      BY <2>1 DEF Known
  <1>14. Known("parser")
    <2>1. TypePriorities[14] = {"parser"} /\ 14 \in 1..39
      BY DEF TypePriorities
    <2> QED
      BY <2>1 DEF Known
  <1>15. Known("template")
    <2>1. TypePriorities[15] = {"template"} /\ 15 \in 1..39
      BY DEF TypePriorities
    <2> QED
      BY <2>1 DEF Known
  <1>16. Known("dictionary")
    <2>1. TypePriorities[16] = {"dictionary"} /\ 16 \in 1..39
      BY DEF TypePriorities
    <2> QED
      BY <2>1 DEF Known
  <1>17. Known("text config")
    <2>1. TypePriorities[17] = {"text config"} /\ 17 \in 1..39
      BY DEF TypePriorities
    <2> QED
      BY <2>1 DEF Known
  <1>18. Known("fdw")
    <2>1. TypePriorities[18] = {"fdw"} /\ 18 \in 1..39
      BY DEF TypePriorities
    <2> QED
      BY <2>1 DEF Known
  <1>19. Known("server")
    <2>1. TypePriorities[19] = {"server"} /\ 19 \in 1..39
      BY DEF TypePriorities
    <2> QED
      BY <2>1 DEF Known
  <1>20. Known("table")
    <2>1. TypePriorities[20] = {"table"} /\ 20 \in 1..39
      BY DEF TypePriorities
    <2> QED
      BY <2>1 DEF Known
  <1>21. Known("table attach")
    <2>1. TypePriorities[21] = {"table attach"} /\ 21 \in 1..39
      BY DEF TypePriorities
    <2> QED
      BY <2>1 DEF Known
  <1>22. Known("attrdef")
    <2>1. TypePriorities[22] = {"attrdef"} /\ 22 \in 1..39
      BY DEF TypePriorities
    <2> QED
      BY <2>1 DEF Known
  <1>23. Known("pre boundary")
    <2>1. TypePriorities[23] = {"pre boundary"} /\ 23 \in 1..39
      BY DEF TypePriorities
    <2> QED
      BY <2>1 DEF Known
  <1>24. Known("table data")
    <2>1. TypePriorities[24] = {"table data"} /\ 24 \in 1..39
      BY DEF TypePriorities
    <2> QED
      BY <2>1 DEF Known
  <1>25. Known("post boundary")
    <2>1. TypePriorities[25] = {"post boundary"} /\ 25 \in 1..39
      BY DEF TypePriorities
    <2> QED
      BY <2>1 DEF Known
  <1>26. Known("constraint")
    <2>1. TypePriorities[26] = {"constraint"} /\ 26 \in 1..39
      BY DEF TypePriorities
    <2> QED
      BY <2>1 DEF Known
  <1>27. Known("index")
    <2>1. TypePriorities[27] = {"index"} /\ 27 \in 1..39
      BY DEF TypePriorities
    <2> QED
      BY <2>1 DEF Known
  <1>28. Known("index attach")
    <2>1. TypePriorities[28] = {"index attach"} /\ 28 \in 1..39
      BY DEF TypePriorities
    <2> QED
      BY <2>1 DEF Known
  <1>29. Known("statistics")
    <2>1. TypePriorities[29] = {"statistics"} /\ 29 \in 1..39
      BY DEF TypePriorities
    <2> QED
      BY <2>1 DEF Known
  <1>30. Known("rule")
    <2>1. TypePriorities[30] = {"rule"} /\ 30 \in 1..39
      BY DEF TypePriorities
    <2> QED
      BY <2>1 DEF Known
  <1>31. Known("trigger")
    <2>1. TypePriorities[31] = {"trigger"} /\ 31 \in 1..39
      BY DEF TypePriorities
    <2> QED
      BY <2>1 DEF Known
  <1>32. Known("fk")
    <2>1. TypePriorities[32] = {"fk"} /\ 32 \in 1..39
      BY DEF TypePriorities
    <2> QED
      BY <2>1 DEF Known
  <1>33. Known("policy")
    <2>1. TypePriorities[33] = {"policy"} /\ 33 \in 1..39
      BY DEF TypePriorities
    <2> QED
      BY <2>1 DEF Known
  <1>34. Known("publication")
    <2>1. TypePriorities[34] = {"publication"} /\ 34 \in 1..39
      BY DEF TypePriorities
    <2> QED
      BY <2>1 DEF Known
  <1>35. Known("publication table")
    <2>1. TypePriorities[35] = {"publication table"} /\ 35 \in 1..39
      BY DEF TypePriorities
    <2> QED
      BY <2>1 DEF Known
  <1>36. Known("publication schema")
    <2>1. TypePriorities[36] = {"publication schema"} /\ 36 \in 1..39
      BY DEF TypePriorities
    <2> QED
      BY <2>1 DEF Known
  <1>37. Known("subscription")
    <2>1. TypePriorities[37] = {"subscription"} /\ 37 \in 1..39
      BY DEF TypePriorities
    <2> QED
      BY <2>1 DEF Known
  <1>38. Known("default acl")
    <2>1. TypePriorities[38] = {"default acl"} /\ 38 \in 1..39
      BY DEF TypePriorities
    <2> QED
      BY <2>1 DEF Known
  <1>39. Known("event trigger")
    <2>1. TypePriorities[39] = {"event trigger"} /\ 39 \in 1..39
      BY DEF TypePriorities
    <2> QED
      BY <2>1 DEF Known
  <1> QED
    BY <1>1, <1>2, <1>3, <1>4, <1>5, <1>6, <1>7, <1>8,
       <1>9, <1>10, <1>11, <1>12, <1>13, <1>14, <1>15, <1>16,
       <1>17, <1>18, <1>19, <1>20, <1>21, <1>22, <1>23, <1>24,
       <1>25, <1>26, <1>27, <1>28, <1>29, <1>30, <1>31, <1>32,
       <1>33, <1>34, <1>35, <1>36, <1>37, <1>38, <1>39 DEF Types

(* Schemas have the first priority to themselves.                          *)
LEMMA OnlyFirst == \A i \in 2..39 : "namespace" \notin TypePriorities[i]
  <1> SUFFICES ASSUME NEW i \in 2..39 PROVE "namespace" \notin TypePriorities[i]
    OBVIOUS
  <1>2. CASE i = 2
    BY <1>2 DEF TypePriorities
  <1>3. CASE i = 3
    BY <1>3 DEF TypePriorities
  <1>4. CASE i = 4
    BY <1>4 DEF TypePriorities
  <1>5. CASE i = 5
    BY <1>5 DEF TypePriorities
  <1>6. CASE i = 6
    BY <1>6 DEF TypePriorities
  <1>7. CASE i = 7
    BY <1>7 DEF TypePriorities
  <1>8. CASE i = 8
    BY <1>8 DEF TypePriorities
  <1>9. CASE i = 9
    BY <1>9 DEF TypePriorities
  <1>10. CASE i = 10
    BY <1>10 DEF TypePriorities
  <1>11. CASE i = 11
    BY <1>11 DEF TypePriorities
  <1>12. CASE i = 12
    BY <1>12 DEF TypePriorities
  <1>13. CASE i = 13
    BY <1>13 DEF TypePriorities
  <1>14. CASE i = 14
    BY <1>14 DEF TypePriorities
  <1>15. CASE i = 15
    BY <1>15 DEF TypePriorities
  <1>16. CASE i = 16
    BY <1>16 DEF TypePriorities
  <1>17. CASE i = 17
    BY <1>17 DEF TypePriorities
  <1>18. CASE i = 18
    BY <1>18 DEF TypePriorities
  <1>19. CASE i = 19
    BY <1>19 DEF TypePriorities
  <1>20. CASE i = 20
    BY <1>20 DEF TypePriorities
  <1>21. CASE i = 21
    BY <1>21 DEF TypePriorities
  <1>22. CASE i = 22
    BY <1>22 DEF TypePriorities
  <1>23. CASE i = 23
    BY <1>23 DEF TypePriorities
  <1>24. CASE i = 24
    BY <1>24 DEF TypePriorities
  <1>25. CASE i = 25
    BY <1>25 DEF TypePriorities
  <1>26. CASE i = 26
    BY <1>26 DEF TypePriorities
  <1>27. CASE i = 27
    BY <1>27 DEF TypePriorities
  <1>28. CASE i = 28
    BY <1>28 DEF TypePriorities
  <1>29. CASE i = 29
    BY <1>29 DEF TypePriorities
  <1>30. CASE i = 30
    BY <1>30 DEF TypePriorities
  <1>31. CASE i = 31
    BY <1>31 DEF TypePriorities
  <1>32. CASE i = 32
    BY <1>32 DEF TypePriorities
  <1>33. CASE i = 33
    BY <1>33 DEF TypePriorities
  <1>34. CASE i = 34
    BY <1>34 DEF TypePriorities
  <1>35. CASE i = 35
    BY <1>35 DEF TypePriorities
  <1>36. CASE i = 36
    BY <1>36 DEF TypePriorities
  <1>37. CASE i = 37
    BY <1>37 DEF TypePriorities
  <1>38. CASE i = 38
    BY <1>38 DEF TypePriorities
  <1>39. CASE i = 39
    BY <1>39 DEF TypePriorities
  <1> QED
    BY <1>2, <1>3, <1>4, <1>5, <1>6, <1>7, <1>8, <1>9,
       <1>10, <1>11, <1>12, <1>13, <1>14, <1>15, <1>16, <1>17,
       <1>18, <1>19, <1>20, <1>21, <1>22, <1>23, <1>24, <1>25,
       <1>26, <1>27, <1>28, <1>29, <1>30, <1>31, <1>32, <1>33,
       <1>34, <1>35, <1>36, <1>37, <1>38, <1>39

(* Every type has a priority, and schemas the least.                       *)
LEMMA SchemasFirst ==
  /\ \A t \in Types : Priority[t] \in 1..39
  /\ \A t \in Types \ {"namespace"} : Priority[t] > Priority["namespace"]
  <1>1. DOMAIN TypePriorities = 1..39 /\ TypePriorities[1] = {"namespace"}
    BY DEF TypePriorities
  <1>2. \A t \in Types : Priority[t] = CHOOSE i \in 1..39 : t \in TypePriorities[i]
    BY <1>1 DEF Priority
  <1>3. \A t \in Types : Priority[t] \in 1..39 /\ t \in TypePriorities[Priority[t]]
    BY <1>2, EveryTypeKnown DEF Known
  <1>4. "namespace" \in Types
    BY DEF Types
  <1>5. \A i \in 1..39 : i = 1 \/ i \in 2..39
    OBVIOUS
  <1>6. Priority["namespace"] = 1
    BY <1>3, <1>4, <1>5, OnlyFirst
  <1>7. ASSUME NEW t \in Types \ {"namespace"} PROVE Priority[t] # 1
    BY <1>1, <1>3, <1>7
  <1> QED
    BY <1>3, <1>5, <1>6, <1>7

-----------------------------------------------------------------------------
(* A set that chains of dependencies never leave holds all that is behind  *)
(* its members.                                                            *)

FirstOfPairs(pairs, seen) == {d[1] : d \in {e \in pairs : e[2] \in seen}}

ClosedUnder(pairs, C) == FirstOfPairs(pairs, C) \subseteq C

(* The function in Behind stays in a finite set that is closed.            *)
LEMMA Grows ==
  ASSUME NEW pairs, NEW g, NEW C, IsFiniteSet(C), ClosedUnder(pairs, C),
         \A seen \in SUBSET C :
           g[seen] = IF FirstOfPairs(pairs, seen) \subseteq seen THEN seen
                     ELSE g[seen \cup FirstOfPairs(pairs, seen)]
  PROVE  \A seen \in SUBSET C : g[seen] \subseteq C
  <1> DEFINE N == {n \in Nat : \A seen \in SUBSET C :
                     Cardinality(C \ seen) <= n => g[seen] \subseteq C}
  <1>1. ASSUME NEW seen \in SUBSET C, ~(FirstOfPairs(pairs, seen) \subseteq seen)
        PROVE  LET more == seen \cup FirstOfPairs(pairs, seen) IN
               /\ more \in SUBSET C /\ g[seen] = g[more]
               /\ Cardinality(C \ more) \in Nat /\ Cardinality(C \ seen) \in Nat
               /\ Cardinality(C \ more) < Cardinality(C \ seen)
    <2> DEFINE new == FirstOfPairs(pairs, seen)
               more == seen \cup new
    <2>1. new \subseteq C
      BY DEF FirstOfPairs, ClosedUnder
    <2>2. g[seen] = g[more]
      BY <1>1
    <2> HIDE DEF new
    <2>3. more \in SUBSET C /\ C \ more \subseteq C \ seen /\ C \ more # C \ seen
      BY <1>1, <2>1 DEF new
    <2>4. IsFiniteSet(C \ seen)
      BY FS_Difference
    <2> HIDE DEF more
    <2>5. /\ IsFiniteSet(C \ more) /\ Cardinality(C \ more) <= Cardinality(C \ seen)
          /\ Cardinality(C \ more) # Cardinality(C \ seen)
      BY <2>3, <2>4, FS_Subset
    <2>6. Cardinality(C \ more) \in Nat /\ Cardinality(C \ seen) \in Nat
      BY <2>4, <2>5, FS_CardinalityType
    <2>7. Cardinality(C \ more) < Cardinality(C \ seen)
      BY <2>5, <2>6
    <2> QED
      BY <2>2, <2>3, <2>6, <2>7 DEF more, new
  <1>2. 0 \in N
    <2> SUFFICES ASSUME NEW seen \in SUBSET C, Cardinality(C \ seen) <= 0
                 PROVE  g[seen] \subseteq C
      OBVIOUS
    <2>1. CASE FirstOfPairs(pairs, seen) \subseteq seen
      BY <2>1
    <2>2. CASE ~(FirstOfPairs(pairs, seen) \subseteq seen)
      <3> DEFINE more == seen \cup FirstOfPairs(pairs, seen)
      <3>1. /\ Cardinality(C \ more) \in Nat /\ Cardinality(C \ seen) \in Nat
            /\ Cardinality(C \ more) < Cardinality(C \ seen)
        BY <1>1, <2>2
      <3> HIDE DEF more
      <3> QED
        BY <3>1
    <2> QED
      BY <2>1, <2>2
  <1>3. ASSUME NEW n \in Nat, n \in N PROVE n + 1 \in N
    <2> SUFFICES ASSUME NEW seen \in SUBSET C, Cardinality(C \ seen) <= n + 1
                 PROVE  g[seen] \subseteq C
      OBVIOUS
    <2>1. CASE FirstOfPairs(pairs, seen) \subseteq seen
      BY <2>1
    <2>2. CASE ~(FirstOfPairs(pairs, seen) \subseteq seen)
      <3> DEFINE more == seen \cup FirstOfPairs(pairs, seen)
      <3>1. /\ more \in SUBSET C /\ g[seen] = g[more]
            /\ Cardinality(C \ more) \in Nat /\ Cardinality(C \ seen) \in Nat
            /\ Cardinality(C \ more) < Cardinality(C \ seen)
        BY <1>1, <2>2
      <3> HIDE DEF more
      <3>2. Cardinality(C \ more) <= n
        BY <3>1
      <3>3. g[more] \subseteq C
        BY <1>3, <3>1, <3>2
      <3> QED
        BY <3>1, <3>3
    <2> QED
      BY <2>1, <2>2
  <1>4. Nat \subseteq N
    <2> HIDE DEF N
    <2> QED
      BY <1>2, <1>3, Induction
  <1>5. ASSUME NEW seen \in SUBSET C PROVE g[seen] \subseteq C
    <2>1. Cardinality(C \ seen) \in Nat
      BY FS_Difference, FS_CardinalityType
    <2>2. Cardinality(C \ seen) \in N
      BY <1>4, <2>1
    <2>3. Cardinality(C \ seen) <= Cardinality(C \ seen)
      BY <2>1
    <2> QED
      BY <2>2, <2>3
  <1> QED
    BY <1>5

(* Behind is in every closed set that holds what it starts from.           *)
LEMMA BehindStaysIn ==
  ASSUME IsFiniteSet(Objects), NEW pairs, pairs \subseteq Objects \X Objects,
         NEW these, NEW C, C \subseteq Objects, these \subseteq C, ClosedUnder(pairs, C)
  PROVE  Behind(pairs, these) \subseteq C
  <1> DEFINE Before(seen) == {d[1] : d \in {e \in pairs : e[2] \in seen}}
             Rec(g) == [seen \in SUBSET Objects |->
                         IF Before(seen) \subseteq seen THEN seen
                         ELSE g[seen \cup Before(seen)]]
             grow == CHOOSE g : g = Rec(g)
             Holds(seen) == {D \in SUBSET Objects : seen \subseteq D /\ Before(D) \subseteq D}
             hull == [seen \in SUBSET Objects |-> {o \in Objects : \A D \in Holds(seen) : o \in D}]
  <1>1. Behind(pairs, these) = grow[Before(these)]
    BY DEF Behind
  <1>2. \A seen \in SUBSET Objects : Before(seen) \in SUBSET Objects
    OBVIOUS
  <1>3. \A seen, D : seen \subseteq D => Before(seen) \subseteq Before(D)
    OBVIOUS
  <1>4. \A seen : Before(seen) = FirstOfPairs(pairs, seen)
    BY DEF FirstOfPairs
  <1> HIDE DEF Before
  <1>5. hull = Rec(hull)
    <2>1. ASSUME NEW seen \in SUBSET Objects
          PROVE  hull[seen] = IF Before(seen) \subseteq seen THEN seen
                              ELSE hull[seen \cup Before(seen)]
      <3>1. CASE Before(seen) \subseteq seen
        <4>1. seen \in Holds(seen)
          BY <3>1
        <4>2. hull[seen] = seen
          BY <4>1
        <4> QED
          BY <3>1, <4>2
      <3>2. CASE ~(Before(seen) \subseteq seen)
        <4> DEFINE more == seen \cup Before(seen)
        <4>1. more \in SUBSET Objects
          BY <1>2
        <4>2. \A D : seen \subseteq D /\ Before(D) \subseteq D <=> more \subseteq D /\ Before(D) \subseteq D
          BY <1>3
        <4>3. Holds(seen) = Holds(more)
          BY <4>2
        <4> HIDE DEF more, Holds
        <4>4. hull[seen] = hull[more]
          BY <4>1, <4>3
        <4> QED
          BY <3>2, <4>4 DEF more
      <3> QED
        BY <3>1, <3>2
    <2> QED
      BY <2>1
  <1>6. grow = Rec(grow)
    <2> HIDE DEF Rec, hull
    <2> QED
      BY <1>5
  <1> HIDE DEF grow
  <1>7. \A seen \in SUBSET C :
           grow[seen] = IF FirstOfPairs(pairs, seen) \subseteq seen THEN seen
                        ELSE grow[seen \cup FirstOfPairs(pairs, seen)]
    <2>1. \A seen \in SUBSET Objects :
            grow[seen] = IF Before(seen) \subseteq seen THEN seen
                         ELSE grow[seen \cup Before(seen)]
      BY <1>6
    <2> QED
      BY <1>4, <2>1
  <1>8. IsFiniteSet(C)
    BY FS_Subset
  <1>9. Before(these) \subseteq C
    BY <1>3, <1>4 DEF ClosedUnder
  <1>10. \A seen \in SUBSET C : grow[seen] \subseteq C
    BY <1>7, <1>8, Grows
  <1> QED
    BY <1>1, <1>9, <1>10

-----------------------------------------------------------------------------
(* The end of the selection, and the repair of the loops.                  *)

(* What the invariant of the readers says when they are done.              *)
LEMMA SelectionEnds ==
  ASSUME SelectionInv, Selected
  PROVE  SchemasReady /\ (Asked => \A o \in made : catalog[o].type # "shell")
  <1>1. step = 45
    <2>1. Len(Steps) = 44
      BY DEF Steps
    <2>2. step > 44 /\ step \in 1..45
      BY <2>1 DEF Selected, SelectionInv, SchemasInv
    <2> QED
      BY <2>2
  <1>2. step > 3 /\ step > 42
    BY <1>1
  <1>3. catalog \in Catalogs /\ made \subseteq Objects
    BY DEF SelectionInv, TypesInv
  <1>4. Own \subseteq made /\ Own \subseteq UserSchemas /\ None \notin Own
    <2>1. Own \subseteq Rows({"namespace"}) /\ Own \subseteq UserSchemas
      BY DEF Own, UserSchemas
    <2>2. Rows({"namespace"}) \subseteq made
      BY <1>2 DEF SelectionInv, SchemasInv
    <2>3. None \notin Objects
      BY <1>3, CatalogAssumption DEF Objects
    <2> QED
      BY <1>3, <2>1, <2>2, <2>3
  <1>5. CASE ~Asked
    <2>1. \A n \in Own : Defined(n)
      BY <1>2, <1>5 DEF SelectionInv, SchemasInv
    <2> QED
      BY <1>4, <1>5, <2>1 DEF SchemasReady
  <1>6. CASE Asked
    <2>1. \A t \in Tables : Defined(t) /\ catalog[t].ns \in UserSchemas => Defined(catalog[t].ns)
      BY <1>2, <1>6 DEF SelectionInv, TableSchemasInv
    <2>2. \A o \in made \ Tables :
            /\ catalog[o].type # "shell"
            /\ catalog[o].ns # None /\ catalog[o].type # "index attach" /\ Weighty(o) =>
                 TableBeside(o)
      BY <1>6 DEF SelectionInv, BesideInv
    <2>3. ASSUME NEW o \in made, catalog[o].ns \in Own, Weighty(o) PROVE Defined(catalog[o].ns)
      <3>1. \A p : TableBeside(p) /\ catalog[p].ns \in Own => Defined(catalog[p].ns)
        BY <1>4, <2>1 DEF TableBeside
      <3>2. CASE o \in Tables
        <4>1. catalog[o].type = "table"
          BY <3>2 DEF Tables, Rows
        <4>2. Defined(o)
          BY <2>3, <4>1 DEF Weighty, Boundaries
        <4> QED
          BY <1>4, <2>1, <2>3, <3>2, <4>2
      <3>3. CASE o \notin Tables /\ catalog[o].type # "index attach"
        <4>1. TableBeside(o)
          BY <1>4, <2>2, <2>3, <3>3
        <4> QED
          BY <2>3, <3>1, <4>1
      <3>4. CASE catalog[o].type = "index attach"
        <4>1. Of(o) \in Rows({"index"}) /\ catalog[o].ns = catalog[Of(o)].ns
          BY <1>3, <3>4, PartFacts
        <4>2. Of(o) \in made
          BY <1>3, <3>4 DEF SelectionInv, AttachInv, Rows
        <4>3. catalog[Of(o)].type = "index"
          BY <4>1 DEF Rows
        <4>4. Of(o) \notin Tables
          BY <4>3 DEF Tables, Rows
        <4>5. Defined(Of(o))
          BY <2>3, <3>4 DEF Weighty
        <4>6. Weighty(Of(o))
          BY <4>3, <4>5 DEF Weighty, Boundaries
        <4>7. TableBeside(Of(o))
          BY <1>4, <2>2, <2>3, <4>1, <4>2, <4>3, <4>4, <4>6
        <4> QED
          BY <2>3, <3>1, <4>1, <4>7
      <3> QED
        BY <3>2, <3>3, <3>4
    <2>4. \A o \in Tables : catalog[o].type # "shell"
      BY DEF Tables, Rows
    <2> QED
      BY <1>4, <2>2, <2>3, <2>4 DEF SchemasReady
  <1> QED
    BY <1>5, <1>6

(* What the repair adds comes of parts and functions; what it takes away   *)
(* is never a dependency of a foreign key on an attachment.                *)
LEMMA UnloopedPairs ==
  ASSUME catalog \in Catalogs, made \subseteq Objects, deps \subseteq Objects \X Objects,
         NEW apart, apart \subseteq Parts
  PROVE  /\ Unlooped(apart) \subseteq Objects \X Objects
         /\ \A d \in Unlooped(apart) :
              d \in deps \/ catalog[d[1]].type \in {"rule", "constraint", "attrdef", "func"}
         /\ \A f, a : <<f, a>> \in deps /\ catalog[f].type = "fk"
                        /\ catalog[a].type = "index attach" => <<f, a>> \in Unlooped(apart)
  <1> DEFINE inline == Parts \ apart
             post == Rows({"post boundary"})
             gone == {<<p, Of(p)>> : p \in inline} \cup {<<Of(p), p>> : p \in apart}
                       \cup {<<d[2], d[1]>> : d \in TypeFuncLoops}
             parted == {<<p, Of(p)>> : p \in apart}
             later == {p \in apart : catalog[p].type # "attrdef"} \X post
             shells == UNION {{d[2]} \X ShellOf(d) : d \in TypeFuncLoops}
  <1>1. Unlooped(apart) = (deps \ gone) \cup parted \cup later \cup shells
    BY DEF Unlooped
  <1>2. \A p \in Parts : catalog[p].type \in {"rule", "constraint", "attrdef"}
    BY DEF Parts
  <1>3. \A d \in TypeFuncLoops : catalog[d[2]].type = "func"
    BY DEF TypeFuncLoops
  <1>4. \A d \in parted \cup later : catalog[d[1]].type \in {"rule", "constraint", "attrdef"}
    <2>1. \A d \in parted : \E p \in apart : d[1] = p
      OBVIOUS
    <2>2. \A d \in later : d[1] \in apart
      OBVIOUS
    <2> HIDE DEF parted, later
    <2> QED
      BY <1>2, <2>1, <2>2
  <1>5. \A d \in shells : catalog[d[1]].type = "func"
    <2>1. \A d \in shells : \E e \in TypeFuncLoops : d[1] = e[2]
      OBVIOUS
    <2> QED
      BY <1>3, <2>1
  <1>6. \A f, a : <<f, a>> \in gone =>
          catalog[f].type # "fk" \/ catalog[a].type # "index attach"
    <2> SUFFICES ASSUME NEW f, NEW a, <<f, a>> \in gone
                 PROVE  catalog[f].type # "fk" \/ catalog[a].type # "index attach"
      OBVIOUS
    <2>1. \/ \E p \in Parts : f = p
          \/ \E p \in Parts : a = p
          \/ \E d \in TypeFuncLoops : f = d[2]
      BY Zenon
    <2> HIDE DEF gone
    <2> QED
      BY <1>2, <1>3, <2>1
  <1>7. parted \subseteq Objects \X Objects /\ later \subseteq Objects \X Objects
    <2>1. \A p \in apart : p \in Objects
      BY DEF Parts
    <2>2. \A p \in apart : Of(p) \in Objects
      <3>1. \A p \in apart : catalog[p].type \in TableParts \cup {"constraint"}
        BY <1>2 DEF TableParts
      <3> QED
        BY <2>1, <3>1, PartFacts DEF Rows, Tables
    <2>3. post \subseteq Objects
      BY DEF Rows
    <2>4. parted \subseteq Objects \X Objects
      BY <2>1, <2>2
    <2>5. later \subseteq apart \X post
      OBVIOUS
    <2>6. apart \X post \subseteq Objects \X Objects
      <3> HIDE DEF post
      <3> QED
        BY <2>1, <2>3
    <2> QED
      BY <2>4, <2>5, <2>6
  <1>8. shells \subseteq Objects \X Objects
    <2>1. \A d \in TypeFuncLoops : d[2] \in Objects
      <3>1. TypeFuncLoops \subseteq Objects \X Objects
        BY DEF TypeFuncLoops
      <3> QED
        BY <3>1
    <2>2. \A d : ShellOf(d) \subseteq Objects
      BY DEF ShellOf
    <2>3. \A e \in shells : \E d \in TypeFuncLoops : \E s \in ShellOf(d) : e = <<d[2], s>>
      OBVIOUS
    <2> HIDE DEF shells
    <2>4. \A e \in shells : \E a, s \in Objects : e = <<a, s>>
      BY <2>1, <2>2, <2>3
    <2> QED
      BY <2>4
  <1> HIDE DEF gone, parted, later, shells
  <1> QED
    BY <1>1, <1>4, <1>5, <1>6, <1>7, <1>8

(* A schema to be created stays one, and what needs none still needs none. *)
LEMMA ReadyFrame ==
  ASSUME SchemasReady, catalog' = catalog, made' = made, members' = members,
         \A o \in made : Weighty(o)' => Weighty(o),
         \A n \in Own : Defined(n) => Defined(n)'
  PROVE  SchemasReady'
  <1>1. Own' = Own
    BY SameRows DEF Own
  <1>2. Own \subseteq made
    BY DEF SchemasReady
  <1>3. ASSUME NEW o \in made, catalog[o].ns \in Own, Weighty(o)' PROVE Defined(catalog[o].ns)'
    BY <1>3 DEF SchemasReady
  <1>4. (\A o \in made : catalog[o].ns \in Own /\ Weighty(o) => Defined(catalog[o].ns))'
    BY <1>1, <1>3
  <1> QED
    BY <1>1, <1>2, <1>4 DEF SchemasReady

(* The repair of loops leaves schemas and foreign keys alone.              *)
LEMMA RepairStep == ASSUME SelectionInv, Repair PROVE ReadyInv'
  <1>1. SchemasReady /\ (Asked => \A o \in made : catalog[o].type # "shell")
    BY SelectionEnds DEF Repair
  <1>2. /\ catalog' = catalog /\ made' = made /\ members' = members /\ request' = request
        /\ catalog \in Catalogs /\ made \subseteq Objects /\ DOMAIN dump = Objects
        /\ RootsInv /\ KeyInv /\ deps \subseteq Objects \X Objects
    BY DEF Repair, SelectionInv, TypesInv
  <1>3. PICK apart, late :
          /\ apart \subseteq Parts
          /\ deps' = Unlooped(apart) \ (Rows({"pre boundary"}) \X late)
    <2> DEFINE apart == {p \in Parts : Looped(p)}
               fixed == Unlooped(apart)
               late  == Behind(fixed, Rows({"post boundary"})) \cap Rows(PreTypes)
    <2>1. deps' = fixed \ (Rows({"pre boundary"}) \X late)
      BY Zenon DEF Repair
    <2>2. apart \subseteq Parts
      OBVIOUS
    <2> HIDE DEF apart, late
    <2> QED
      BY <2>1, <2>2
  <1>4. /\ deps' \subseteq Objects \X Objects
        /\ \A d \in deps' :
             d \in deps \/ catalog[d[1]].type \in {"rule", "constraint", "attrdef", "func"}
        /\ \A f, a : <<f, a>> \in deps /\ catalog[f].type = "fk"
                       /\ catalog[a].type = "index attach" => <<f, a>> \in deps'
    <2>1. /\ Unlooped(apart) \subseteq Objects \X Objects
          /\ \A d \in Unlooped(apart) :
               d \in deps \/ catalog[d[1]].type \in {"rule", "constraint", "attrdef", "func"}
          /\ \A f, a : <<f, a>> \in deps /\ catalog[f].type = "fk"
                         /\ catalog[a].type = "index attach" => <<f, a>> \in Unlooped(apart)
      BY <1>2, <1>3, UnloopedPairs
    <2>2. \A f, a : <<f, a>> \in Rows({"pre boundary"}) \X late => catalog[f].type # "fk"
      BY DEF Rows
    <2> QED
      BY <1>3, <2>1, <2>2
  <1>5. RootsInv'
    <2>1. \A r \in Roots : catalog[r].type \notin {"rule", "constraint", "attrdef", "func"}
      BY DEF Roots, Rows
    <2>2. \A d \in deps' : d[1] \in Roots => d[2] \in Roots
      BY <1>2, <1>4, <2>1 DEF RootsInv
    <2> QED
      BY <1>2, <2>2, SameRows DEF RootsInv
  <1>6. KeyInv'
    <2> SUFFICES ASSUME NEW f \in made' \cap Rows({"fk"}), ToPartitioned(f)
                 PROVE  \E S : Covers(f, S)'
      BY <1>2, SameRows DEF KeyInv
    <2>1. f \in made \cap Rows({"fk"}) /\ catalog[f].type = "fk"
      BY <1>2 DEF Rows
    <2>2. PICK S : Covers(f, S)
      BY <1>2, <2>1 DEF KeyInv
    <2>3. Attaches' = Attaches
      BY <1>2, SameRows DEF Attaches
    <2>4. KeyIndexes(f)' \cap made' = KeyIndexes(f) \cap made
      BY <1>2, SameRows
    <2>5. {Of(b)' : b \in S} = {Of(b) : b \in S}
      BY <1>2, SameRows
    <2>6. {f} \X S \subseteq deps'
      <3>1. \A a \in S : <<f, a>> \in deps /\ catalog[a].type = "index attach"
        BY <2>2 DEF Covers, Attaches, Rows
      <3>2. \A a \in S : <<f, a>> \in deps'
        BY <1>4, <2>1, <3>1
      <3> QED
        BY <3>2
    <2>7. /\ S \subseteq Attaches
          /\ \A a \in Attaches :
               catalog[a].parents \cap ((KeyIndexes(f) \cap made) \cup {Of(b) : b \in S}) # {} => a \in S
      BY <2>2 DEF Covers
    <2>8. Covers(f, S)'
      BY <1>2, <2>3, <2>4, <2>5, <2>6, <2>7, Zenon DEF Covers
    <2> QED
      BY <2>8
  <1>7. /\ DOMAIN dump' = Objects /\ \A o \in Objects : dump[o] \subseteq dump'[o]
        /\ Asked => \A o \in Objects : dump'[o] = dump[o]
    <2> DEFINE Callers(s) == {d \in TypeFuncLoops : s \in ShellOf(d) /\ dump[d[2]] # {}}
    <2>1. dump' = [s \in Objects |->
             dump[s] \cup UNION {dump[d[2]] \cup {"DEFINITION"} : d \in Callers(s)}]
      BY Zenon DEF Repair
    <2>2. ASSUME Asked PROVE \A s : Callers(s) = {}
      BY <1>1, <2>2 DEF ShellOf
    <2> HIDE DEF Callers
    <2>3. ASSUME Asked PROVE \A s \in Objects : dump'[s] = dump[s]
      BY <2>1, <2>2, <2>3
    <2> QED
      BY <1>2, <2>1, <2>3
  <1>8. \A n \in Own : Defined(n) => Defined(n)'
    <2>1. Own \subseteq Objects
      BY <1>1, <1>2 DEF SchemasReady
    <2> QED
      BY <1>7, <2>1 DEF Defined
  <1>9. SchemasReady'
    <2>1. CASE Asked
      <3>1. ASSUME NEW o \in made, Weighty(o)' PROVE Weighty(o)
        <4>1. o \in Objects /\ dump'[o] = dump[o]
          BY <1>2, <1>7, <2>1
        <4>2. CASE catalog[o].type = "index attach"
          <5>1. Of(o) \in Objects
            BY <1>2, <4>1, <4>2, PartFacts DEF Rows
          <5>2. dump'[Of(o)] = dump[Of(o)]
            BY <1>7, <2>1, <5>1
          <5> QED
            BY <1>2, <3>1, <4>2, <5>2 DEF Weighty, Defined, Of
        <4> QED
          BY <1>2, <3>1, <4>1, <4>2, SameWeight
      <3> QED
        BY <1>1, <1>2, <1>8, <3>1, ReadyFrame
    <2>2. CASE ~Asked
      <3>1. \A n \in Own : Defined(n)
        <4>1. step > 3
          <5>1. Len(Steps) = 44
            BY DEF Steps
          <5>2. step > 44 /\ step \in 1..45
            BY <5>1 DEF Repair, Selected, SelectionInv, SchemasInv
          <5> QED
            BY <5>2
        <4> QED
          BY <2>2, <4>1 DEF SelectionInv, SchemasInv
      <3>2. Own' = Own
        BY <1>2, SameRows DEF Own
      <3>3. \A n \in Own' : Defined(n)'
        BY <1>8, <3>1, <3>2
      <3>4. Own' \subseteq made'
        BY <1>1, <1>2, <3>2 DEF SchemasReady
      <3> QED
        BY <3>3, <3>4 DEF SchemasReady
    <2> QED
      BY <2>1, <2>2
  <1> QED
    BY <1>2, <1>4, <1>5, <1>6, <1>7, <1>9, SameRows DEF ReadyInv

-----------------------------------------------------------------------------
(* The sort.                                                               *)

(* An object in front of those placed before.                              *)
LEMMA Prepend ==
  ASSUME NEW T, NEW s \in Seq(T), NEW e \in T, NEW q, q = <<e>> \o s
  PROVE  /\ q \in Seq(T) /\ Len(q) = Len(s) + 1 /\ q[1] = e /\ Len(s) \in Nat
         /\ \A i \in 1..Len(s) : i + 1 \in 1..Len(q) /\ q[i + 1] = s[i]
         /\ \A i \in 1..Len(q) : i = 1 \/ (i - 1 \in 1..Len(s) /\ q[i] = s[i - 1])
  <1>1. PICK h : h = <<e>>
    OBVIOUS
  <1>2. h \in Seq(T) /\ Len(h) = 1 /\ h[1] = e
    BY <1>1, OneTuple
  <1>3. /\ q \in Seq(T) /\ Len(q) = Len(h) + Len(s) /\ Len(s) \in Nat
        /\ \A i \in 1..Len(h) : q[i] = h[i]
        /\ \A i \in (Len(h) + 1)..(Len(h) + Len(s)) : q[i] = s[i - Len(h)]
    BY <1>1, <1>2, ConcatProperties, LenProperties
  <1> QED
    BY <1>2, <1>3

(* What the sort puts in front.                                            *)
LEMMA Placing ==
  ASSUME PlacedInv, SortNext
  PROVE  \E o \in made :
           /\ o \in Unplaced /\ ordering' = <<o>> \o ordering /\ Unplaced' = Unplaced \ {o}
           /\ \A i \in 1..Len(ordering) : ordering[i] # o
           /\ \A u \in Unplaced : <<u, o>> \notin deps
           /\ \A v \in Unplaced : \/ ~ComesAfter(v, o)
                                  \/ \E d \in deps : d[1] \in Unplaced /\ d[2] = v
  <1>1. PICK o \in Heap : /\ \A p \in Heap : ~ComesAfter(p, o)
                          /\ ordering' = <<o>> \o ordering
    BY DEF SortNext
  <1>2. made' = made /\ deps' = deps
    BY DEF SortNext, selectionVars, marks
  <1>3. o \in Unplaced /\ \A u \in Unplaced : <<u, o>> \notin deps
    BY <1>1 DEF Heap
  <1>4. DOMAIN ordering = 1..Len(ordering) /\ Len(ordering) \in Nat
    BY LenProperties DEF PlacedInv
  <1>5. o \in made /\ \A i \in 1..Len(ordering) : ordering[i] # o
    BY <1>3, <1>4 DEF Unplaced
  <1>6. Unplaced' = Unplaced \ {o}
    <2> DEFINE q == <<o>> \o ordering
    <2>1. /\ q \in Seq(made) /\ Len(q) = Len(ordering) + 1 /\ q[1] = o
          /\ \A i \in 1..Len(ordering) : i + 1 \in 1..Len(q) /\ q[i + 1] = ordering[i]
          /\ \A i \in 1..Len(q) : i = 1 \/ (i - 1 \in 1..Len(ordering) /\ q[i] = ordering[i - 1])
      BY <1>5, Prepend DEF PlacedInv
    <2> HIDE DEF q
    <2>2. DOMAIN q = 1..Len(q) /\ 1 \in 1..Len(q)
      BY <1>4, <2>1, LenProperties
    <2>3. \A x : (\E i \in DOMAIN q : x = q[i])
                   <=> x = o \/ \E i \in DOMAIN ordering : x = ordering[i]
      <3>1. ASSUME NEW i \in DOMAIN q
            PROVE  q[i] = o \/ \E k \in DOMAIN ordering : q[i] = ordering[k]
        BY <1>4, <2>1, <2>2
      <3>2. ASSUME NEW i \in DOMAIN ordering PROVE \E k \in DOMAIN q : ordering[i] = q[k]
        BY <1>4, <2>1, <2>2
      <3>3. \E i \in DOMAIN q : q[i] = o
        BY <2>1, <2>2
      <3> QED
        BY <3>1, <3>2, <3>3
    <2>4. ordering' = q
      BY <1>1 DEF q
    <2> QED
      BY <1>2, <2>3, <2>4 DEF Unplaced
  <1>7. \A v \in Unplaced : v \in Heap \/ \E d \in deps : d[1] \in Unplaced /\ d[2] = v
    BY DEF Heap
  <1> QED
    BY <1>1, <1>3, <1>5, <1>6, <1>7

(* The sort and the passes leave the selection alone.                      *)
LEMMA ReadyStays == ASSUME ReadyInv, selectionVars' = selectionVars PROVE ReadyInv'
  <1>1. /\ dump' = dump /\ members' = members /\ catalog' = catalog /\ made' = made
        /\ deps' = deps
    BY DEF selectionVars, marks
  <1>2. SchemasReady'
    <2>1. \A p : (Weighty(p)' <=> Weighty(p)) /\ (Defined(p)' <=> Defined(p))
      BY <1>1 DEF Weighty, Defined, Of, Kind
    <2> QED
      BY <1>1, <2>1, ReadyFrame DEF ReadyInv
  <1>3. KeyInv'
    BY <1>1, KeyFrame DEF ReadyInv
  <1>4. RootsInv'
    BY <1>1, SameRows DEF ReadyInv, RootsInv
  <1> QED
    BY <1>1, <1>2, <1>3, <1>4, SameRows DEF ReadyInv

(* A place is filled: all that depends on the object has one already, and  *)
(* a schema is taken only when the heap has nothing else.                  *)
LEMMA SortStep == ASSUME ReadyInv, OrderingInv, SortNext PROVE ReadyInv' /\ OrderingInv'
  <1>1. PICK o \in made :
           /\ o \in Unplaced /\ ordering' = <<o>> \o ordering /\ Unplaced' = Unplaced \ {o}
           /\ \A i \in 1..Len(ordering) : ordering[i] # o
           /\ \A u \in Unplaced : <<u, o>> \notin deps
           /\ \A v \in Unplaced : \/ ~ComesAfter(v, o)
                                  \/ \E d \in deps : d[1] \in Unplaced /\ d[2] = v
    BY Placing DEF OrderingInv
  <1>2. /\ selectionVars' = selectionVars /\ made' = made /\ deps' = deps /\ catalog' = catalog
        /\ Roots' = Roots /\ ordering \in Seq(made)
    BY SameRows DEF SortNext, selectionVars, marks, OrderingInv, PlacedInv
  <1>3. ReadyInv'
    BY <1>2, ReadyStays
  <1>4. /\ ordering' \in Seq(made) /\ Len(ordering') = Len(ordering) + 1
        /\ ordering'[1] = o /\ Len(ordering) \in Nat
        /\ \A i \in 1..Len(ordering) : i + 1 \in 1..Len(ordering') /\ ordering'[i + 1] = ordering[i]
        /\ \A i \in 1..Len(ordering') :
             i = 1 \/ (i - 1 \in 1..Len(ordering) /\ ordering'[i] = ordering[i - 1])
    BY <1>1, <1>2, Prepend
  <1>5. PlacedInv'
    <2> SUFFICES ASSUME NEW i \in 1..Len(ordering'), NEW j \in 1..Len(ordering'),
                        ordering'[i] = ordering'[j]
                 PROVE  i = j
      BY <1>2, <1>4 DEF PlacedInv
    <2>1. i = 1 <=> j = 1
      BY <1>1, <1>4
    <2>2. CASE i # 1
      <3>1. /\ i - 1 \in 1..Len(ordering) /\ j - 1 \in 1..Len(ordering)
            /\ ordering[i - 1] = ordering[j - 1]
        BY <1>4, <2>1, <2>2
      <3>2. i - 1 = j - 1
        BY <3>1 DEF OrderingInv, PlacedInv
      <3> QED
        BY <1>4, <3>2
    <2> QED
      BY <2>1, <2>2
  <1>6. DependentsInv'
    <2> SUFFICES ASSUME NEW i \in 1..Len(ordering'), NEW p \in made, <<p, ordering'[i]>> \in deps
                 PROVE  \E k \in 1..Len(ordering') : k > i /\ ordering'[k] = p
      BY <1>2 DEF DependentsInv
    <2>1. CASE i = 1
      <3>1. p \notin Unplaced
        BY <1>1, <1>4, <2>1
      <3>2. PICK k \in 1..Len(ordering) : ordering[k] = p
        BY <1>2, <3>1, LenProperties DEF Unplaced
      <3>3. k + 1 \in 1..Len(ordering') /\ ordering'[k + 1] = p /\ k + 1 > i
        BY <1>4, <2>1, <3>2
      <3> QED
        BY <3>3
    <2>2. CASE i # 1
      <3>1. i - 1 \in 1..Len(ordering) /\ ordering'[i] = ordering[i - 1]
        BY <1>4, <2>2
      <3>2. PICK k \in 1..Len(ordering) : k > i - 1 /\ ordering[k] = p
        BY <3>1 DEF OrderingInv, DependentsInv
      <3>3. k + 1 \in 1..Len(ordering') /\ ordering'[k + 1] = p /\ k + 1 > i
        BY <1>4, <3>2
      <3> QED
        BY <3>3
    <2> QED
      BY <2>1, <2>2
  <1>7. made \subseteq Objects /\ deps \subseteq Objects \X Objects /\ catalog \in Catalogs
        /\ \A d \in deps : d[1] \in Roots => d[2] \in Roots
    BY DEF ReadyInv, RootsInv
  (* Nothing but roots is put in front of a schema.                        *)
  <1>8. ASSUME o \notin Roots, NEW j \in 1..Len(ordering), SchemaAt(j) PROVE FALSE
    <2>1. OnlyRootsLeft
      BY <1>8 DEF OrderingInv, SchemasPlacedInv
    <2>2. PICK u \in Unplaced \ Roots : <<u, o>> \in deps
      BY <1>1, <1>8, <2>1 DEF OnlyRootsLeft
    <2> QED
      BY <1>1, <2>2
  <1>9. ASSUME catalog[o].type = "namespace"
        PROVE  \A v \in Unplaced \ Roots : \E u \in Unplaced \ Roots : <<u, v>> \in deps
    <2> SUFFICES ASSUME NEW v \in Unplaced \ Roots
                 PROVE  \E u \in Unplaced \ Roots : <<u, v>> \in deps
      OBVIOUS
    <2>1. v \in Objects
      BY <1>7 DEF Unplaced
    <2>2. catalog[v].type \in Types \ {"namespace"}
      BY <1>7, <2>1, RowFacts DEF Roots, Rows
    <2>3. ComesAfter(v, o)
      <3>1. Priority[catalog[v].type] > Priority["namespace"]
        BY <2>2, SchemasFirst
      <3> QED
        BY <1>9, <3>1 DEF ComesAfter
    <2>4. PICK d \in deps : d[1] \in Unplaced /\ d[2] = v
      BY <1>1, <2>3
    <2>5. d = <<d[1], d[2]>> /\ d[1] \notin Roots
      BY <1>7, <2>4
    <2> QED
      BY <2>4, <2>5
  <1>10. ASSUME NEW j \in 1..Len(ordering'), SchemaAt(j)' PROVE OnlyRootsLeft'
    <2>1. \A v \in Unplaced \ Roots : \E u \in Unplaced \ Roots : <<u, v>> \in deps
      <3>1. CASE j = 1
        BY <1>2, <1>4, <1>9, <1>10, <3>1 DEF SchemaAt
      <3>2. CASE j # 1
        <4>1. j - 1 \in 1..Len(ordering) /\ SchemaAt(j - 1)
          BY <1>2, <1>4, <1>10, <3>2 DEF SchemaAt
        <4> QED
          BY <4>1 DEF OrderingInv, SchemasPlacedInv, OnlyRootsLeft
      <3> QED
        BY <3>1, <3>2
    <2>2. o \in Roots
      <3>1. CASE j = 1
        <4>1. catalog[o].type = "namespace"
          BY <1>2, <1>4, <1>10, <3>1 DEF SchemaAt
        <4> QED
          BY <1>7, <4>1 DEF Roots, Rows
      <3>2. CASE j # 1
        <4>1. j - 1 \in 1..Len(ordering) /\ SchemaAt(j - 1)
          BY <1>2, <1>4, <1>10, <3>2 DEF SchemaAt
        <4> QED
          BY <1>8, <4>1
      <3> QED
        BY <3>1, <3>2
    <2>3. \A v \in Unplaced' \ Roots : \E u \in Unplaced' \ Roots : <<u, v>> \in deps
      BY <1>1, <2>1, <2>2
    <2> QED
      BY <1>2, <2>3 DEF OnlyRootsLeft
  <1>11. ASSUME NEW i \in 1..Len(ordering'), NEW j \in 1..Len(ordering'),
                ordering'[i] \notin Roots, SchemaAt(j)'
         PROVE  j < i
    <2>1. i # j
      <3>1. catalog[ordering'[j]].type = "namespace" /\ ordering'[j] \in made
        BY <1>2, <1>4, <1>11, ElementOfSeq DEF SchemaAt
      <3>2. ordering'[j] \in Roots
        BY <1>7, <3>1 DEF Roots, Rows
      <3> QED
        BY <1>11, <3>2
    <2>2. CASE j # 1
      <3>1. j - 1 \in 1..Len(ordering) /\ SchemaAt(j - 1)
        BY <1>2, <1>4, <1>11, <2>2 DEF SchemaAt
      <3>2. i # 1
        BY <1>4, <1>8, <1>11, <3>1
      <3>3. i - 1 \in 1..Len(ordering) /\ ordering[i - 1] \notin Roots
        BY <1>4, <1>11, <3>2
      <3>4. j - 1 < i - 1
        BY <3>1, <3>3 DEF OrderingInv, SchemasPlacedInv
      <3> QED
        BY <1>4, <3>4
    <2> QED
      BY <1>4, <2>1, <2>2
  <1>12. SchemasPlacedInv'
    BY <1>2, <1>10, <1>11 DEF SchemasPlacedInv
  <1> QED
    BY <1>3, <1>5, <1>6, <1>12 DEF OrderingInv

-----------------------------------------------------------------------------
(* The dump.                                                               *)

(* What the ordering promises depends on the ordering only.                *)
LEMMA OrderingFrame ==
  ASSUME OrderingInv, catalog' = catalog, made' = made, deps' = deps, ordering' = ordering
  PROVE  OrderingInv' /\ Unplaced' = Unplaced
  <1>1. Unplaced' = Unplaced /\ Roots' = Roots
    BY SameRows DEF Unplaced
  <1>2. PlacedInv' /\ DependentsInv'
    BY DEF OrderingInv, PlacedInv, DependentsInv
  <1>3. OnlyRootsLeft' <=> OnlyRootsLeft
    BY <1>1 DEF OnlyRootsLeft
  <1>4. SchemasPlacedInv'
    BY <1>1, <1>3 DEF OrderingInv, SchemasPlacedInv, SchemaAt
  <1> QED
    BY <1>1, <1>2, <1>4 DEF OrderingInv

(* An object whose marks shrink needs no schema it did not need.           *)
LEMMA LosesWeight ==
  ASSUME catalog' = catalog, NEW p, dump'[p] \subseteq dump[p],
         catalog[p].type = "index attach" => dump'[Of(p)] \subseteq dump[Of(p)],
         Weighty(p)'
  PROVE  Weighty(p)
  BY DEF Weighty, Defined, Kind, Of

(* A concatenation, element by element.                                    *)
LEMMA Joined ==
  ASSUME NEW T, NEW s \in Seq(T), NEW r \in Seq(T), NEW q, q = s \o r
  PROVE  /\ q \in Seq(T) /\ Len(q) = Len(s) + Len(r) /\ Len(s) \in Nat /\ Len(r) \in Nat
         /\ \A i \in 1..Len(s) : i \in 1..Len(q) /\ q[i] = s[i]
         /\ \A i \in 1..Len(r) : i + Len(s) \in 1..Len(q) /\ q[i + Len(s)] = r[i]
         /\ \A i \in 1..Len(q) :
              \/ i \in 1..Len(s) /\ q[i] = s[i]
              \/ i > Len(s) /\ i - Len(s) \in 1..Len(r) /\ q[i] = r[i - Len(s)]
  <1>1. /\ q \in Seq(T) /\ Len(q) = Len(s) + Len(r) /\ Len(s) \in Nat /\ Len(r) \in Nat
        /\ \A i \in 1..Len(s) : q[i] = s[i]
        /\ \A i \in (Len(s) + 1)..(Len(s) + Len(r)) : q[i] = r[i - Len(s)]
    BY ConcatProperties, LenProperties
  <1>2. ASSUME NEW i \in 1..Len(r)
        PROVE  i + Len(s) \in 1..Len(q) /\ q[i + Len(s)] = r[i]
    <2>1. /\ i + Len(s) \in (Len(s) + 1)..(Len(s) + Len(r)) /\ (i + Len(s)) - Len(s) = i
          /\ i + Len(s) \in 1..Len(q)
      BY <1>1
    <2> QED
      BY <1>1, <2>1
  <1>3. ASSUME NEW i \in 1..Len(q)
        PROVE  \/ i \in 1..Len(s) /\ q[i] = s[i]
               \/ i > Len(s) /\ i - Len(s) \in 1..Len(r) /\ q[i] = r[i - Len(s)]
    BY <1>1
  <1>4. \A i \in 1..Len(s) : i \in 1..Len(q)
    BY <1>1
  <1> QED
    BY <1>1, <1>2, <1>3, <1>4

(* What dumping one object changes, and what its entries are.              *)
LEMMA Dumping ==
  ASSUME ReadyInv, PlacedInv, EntriesInv, DumpNext
  PROVE  LET o == ordering[dumped + 1] IN
         /\ o \in made /\ dumped + 1 \in 1..Len(ordering) /\ dumped \in Nat
         /\ DOMAIN dump' = Objects
         /\ \A p \in Objects : dump'[p] \subseteq dump[p]
         /\ \A p \in Objects : Defined(p)' <=> Defined(p)
         /\ \A p \in made : Weighty(p)' => Weighty(p)
         /\ Fits(o, EntriesOf(o))
         /\ catalog[o].type = "namespace" /\ Defined(o) =>
              \E i \in 1..Len(EntriesOf(o)) :
                EntriesOf(o)[i].of = o /\ EntriesOf(o)[i].section = "pre"
  <1> DEFINE o == ordering[dumped + 1]
  <1>1. dumped + 1 \in 1..Len(ordering) /\ dumped \in Nat
    <2>1. Len(ordering) \in Nat /\ dumped \in 0..Len(ordering) /\ dumped < Len(ordering)
      BY LenProperties DEF PlacedInv, EntriesInv, DumpNext
    <2> QED
      BY <2>1
  <1>2. o \in made
    BY <1>1, ElementOfSeq DEF PlacedInv
  <1>3. o \in Objects /\ DOMAIN dump = Objects /\ catalog \in Catalogs /\ made \subseteq Objects
    BY <1>2 DEF ReadyInv
  <1>4. catalog' = catalog /\ dump' = [dump EXCEPT ![o] = Requested(o)]
    BY DEF DumpNext
  <1> HIDE DEF o
  <1>5. DOMAIN dump' = Objects
    BY <1>3, <1>4
  <1>6. \A p \in Objects : dump'[p] = IF p = o THEN dump[o] \cap Components(o) ELSE dump[p]
    BY <1>3, <1>4 DEF Requested
  <1>7. \A p \in Objects : dump'[p] \subseteq dump[p]
    BY <1>6
  <1>8. \A p \in Objects : Defined(p)' <=> Defined(p)
    <2>1. "DEFINITION" \in Components(o)
      BY DEF Components
    <2> QED
      BY <1>6, <2>1 DEF Defined
  <1>9. ASSUME NEW p \in made, Weighty(p)' PROVE Weighty(p)
    <2>1. catalog[p].type = "index attach" => Of(p) \in Objects
      BY <1>3, PartFacts DEF Rows
    <2> QED
      BY <1>3, <1>4, <1>7, <1>9, <2>1, LosesWeight
  <1>10. Fits(o, EntriesOf(o))
    BY <1>3, EntriesFit
  <1>11. catalog[o].type = "namespace" /\ Defined(o) =>
              \E i \in 1..Len(EntriesOf(o)) :
                EntriesOf(o)[i].of = o /\ EntriesOf(o)[i].section = "pre"
    BY <1>3, SchemaEntry DEF Rows
  <1> QED
    BY <1>1, <1>2, <1>5, <1>7, <1>8, <1>9, <1>10, <1>11 DEF o

(* The next object is dumped: its entries go behind those of the objects   *)
(* before it.                                                              *)
LEMMA DumpStep ==
  ASSUME ReadyInv, OrderingInv, EntriesInv, SchemaEntriesInv, DumpNext
  PROVE  ReadyInv' /\ OrderingInv' /\ EntriesInv' /\ SchemaEntriesInv' /\ Unplaced' = Unplaced
  <1> DEFINE o == ordering[dumped + 1]
             s == EntriesOf(o)
             m == Len(toc)
  <1>1. /\ o \in made /\ dumped + 1 \in 1..Len(ordering) /\ dumped \in Nat
        /\ DOMAIN dump' = Objects
        /\ \A p \in Objects : Defined(p)' <=> Defined(p)
        /\ \A p \in made : Weighty(p)' => Weighty(p)
        /\ Fits(o, s)
        /\ catalog[o].type = "namespace" /\ Defined(o) =>
              \E i \in 1..Len(s) : s[i].of = o /\ s[i].section = "pre"
    BY Dumping DEF OrderingInv
  <1>2. /\ catalog' = catalog /\ made' = made /\ members' = members /\ deps' = deps
        /\ ordering' = ordering /\ dumped' = dumped + 1 /\ toc' = toc \o s
    BY DEF DumpNext
  <1>3. Own' = Own /\ Own \subseteq made /\ made \subseteq Objects /\ catalog \in Catalogs
    BY <1>2, SameRows DEF Own, ReadyInv, SchemasReady
  <1>4. SchemasReady'
    BY <1>1, <1>2, <1>3, ReadyFrame DEF ReadyInv
  <1>5. ReadyInv'
    <2>1. KeyInv'
      BY <1>2, KeyFrame DEF ReadyInv
    <2>2. RootsInv'
      BY <1>2, SameRows DEF ReadyInv, RootsInv
    <2> QED
      BY <1>1, <1>2, <1>4, <2>1, <2>2, SameRows DEF ReadyInv
  <1>6. OrderingInv' /\ Unplaced' = Unplaced
    BY <1>2, OrderingFrame
  <1> HIDE DEF s
  <1>7. toc \in Seq(EntryRecords) /\ s \in Seq(EntryRecords)
    BY <1>1 DEF EntriesInv, Fits
  <1>8. /\ toc' \in Seq(EntryRecords) /\ Len(toc') = m + Len(s) /\ m \in Nat /\ Len(s) \in Nat
        /\ \A i \in 1..m : i \in 1..Len(toc') /\ toc'[i] = toc[i]
        /\ \A i \in 1..Len(s) : i + m \in 1..Len(toc') /\ toc'[i + m] = s[i]
        /\ \A i \in 1..Len(toc') :
             \/ i \in 1..m /\ toc'[i] = toc[i]
             \/ i > m /\ i - m \in 1..Len(s) /\ toc'[i] = s[i - m]
    BY <1>2, <1>7, Joined
  <1>9. /\ \A i \in 1..m : EntryOK(toc[i]) /\ \E k \in 1..dumped : toc[i].of = ordering[k]
        /\ \A i, j \in 1..m : toc[i].of = toc[j].of /\ toc[i].desc = toc[j].desc => i = j
        /\ \A i, j \in 1..m : \A a, b \in 1..Len(ordering) :
             i <= j /\ toc[i].of = ordering[a] /\ toc[j].of = ordering[b] => a <= b
        /\ dumped \in 0..Len(ordering)
    BY DEF EntriesInv
  <1>10. /\ \A i \in 1..Len(s) : /\ s[i].of = o /\ EntryOK(s[i])
                                 /\ s[i].section # "none" => Weighty(o)
         /\ \A i, j \in 1..Len(s) : s[i].desc = s[j].desc => i = j
    BY <1>1 DEF Fits
  <1>11. \A k \in 1..Len(ordering) : ordering[k] = o => k = dumped + 1
    BY <1>1 DEF OrderingInv, PlacedInv
  <1>12. Len(ordering) \in Nat
    BY LenProperties DEF OrderingInv, PlacedInv
  <1> HIDE DEF o, m
  (* Where an entry comes from.                                            *)
  <1>13. ASSUME NEW i \in 1..Len(toc')
         PROVE  \/ i \in 1..m /\ toc'[i] = toc[i] /\ \E k \in 1..dumped : toc'[i].of = ordering[k]
                \/ /\ i > m /\ i - m \in 1..Len(s) /\ toc'[i] = s[i - m] /\ toc'[i].of = o
    BY <1>8, <1>9, <1>10
  <1>14. (\A i \in 1..Len(toc) : EntryOK(toc[i]))'
    <2>1. \A i \in 1..Len(toc') : EntryOK(toc'[i])
      BY <1>8, <1>9, <1>10
    <2>2. ASSUME NEW i \in 1..Len(toc') PROVE (EntryOK(toc[i]))'
      <3>1. EntryOK(toc'[i])
        BY <2>1
      <3> QED
        BY <1>2, <3>1 DEF EntryOK
    <2> QED
      BY <2>2
  <1>15. \A i \in 1..Len(toc') : \E k \in 1..(dumped + 1) : toc'[i].of = ordering[k]
    <2>1. o = ordering[dumped + 1] /\ dumped + 1 \in 1..(dumped + 1)
          /\ \A k \in 1..dumped : k \in 1..(dumped + 1)
      BY <1>1 DEF o
    <2> QED
      BY <1>13, <2>1
  <1>16. ASSUME NEW i \in 1..Len(toc'), NEW k \in 1..Len(ordering), toc'[i].of = ordering[k]
         PROVE  IF i \in 1..m THEN k <= dumped ELSE k = dumped + 1
    <2>1. CASE i \in 1..m
      <3>1. PICK l \in 1..dumped : toc'[i].of = ordering[l]
        BY <1>8, <1>13, <2>1
      <3>2. l \in 1..Len(ordering)
        BY <1>1, <1>12
      <3>3. k = l
        BY <1>16, <3>1, <3>2 DEF OrderingInv, PlacedInv
      <3> QED
        BY <1>1, <2>1, <3>3
    <2>2. CASE i \notin 1..m
      BY <1>11, <1>13, <1>16, <2>2
    <2> QED
      BY <2>1, <2>2
  <1>17. ASSUME NEW i \in 1..Len(toc'), NEW j \in 1..Len(toc'),
                toc'[i].of = toc'[j].of, toc'[i].desc = toc'[j].desc
         PROVE  i = j
    <2>1. PICK k \in 1..(dumped + 1) : toc'[i].of = ordering[k]
      BY <1>15
    <2>2. k \in 1..Len(ordering) /\ toc'[j].of = ordering[k]
      BY <1>1, <1>12, <1>17, <2>1
    <2>3. i \in 1..m <=> j \in 1..m
      BY <1>1, <1>16, <2>1, <2>2
    <2>4. CASE i \in 1..m
      BY <1>8, <1>9, <1>17, <2>3, <2>4
    <2>5. CASE i \notin 1..m
      <3>1. i - m \in 1..Len(s) /\ j - m \in 1..Len(s) /\ s[i - m].desc = s[j - m].desc
        BY <1>8, <1>17, <2>3, <2>5
      <3>2. i - m = j - m
        BY <1>10, <3>1
      <3> QED
        BY <1>8, <3>2
    <2> QED
      BY <2>4, <2>5
  <1>18. ASSUME NEW i \in 1..Len(toc'), NEW j \in 1..Len(toc'),
                NEW a \in 1..Len(ordering), NEW b \in 1..Len(ordering),
                i <= j, toc'[i].of = ordering[a], toc'[j].of = ordering[b]
         PROVE  a <= b
    <2>1. CASE j \in 1..m
      <3>1. i \in 1..m
        BY <1>8, <1>18, <2>1
      <3> QED
        BY <1>8, <1>9, <1>18, <2>1, <3>1
    <2>2. CASE j \notin 1..m
      <3>1. b = dumped + 1
        BY <1>16, <1>18, <2>2
      <3>2. a <= dumped \/ a = dumped + 1
        BY <1>16, <1>18
      <3> QED
        BY <1>1, <3>1, <3>2
    <2> QED
      BY <2>1, <2>2
  <1>19. EntriesInv'
    <2>1. dumped + 1 \in 0..Len(ordering)
      BY <1>1, <1>12
    <2>2. /\ (\A i \in 1..Len(toc) : \E k \in 1..dumped : toc[i].of = ordering[k])'
          /\ (\A i, j \in 1..Len(toc) :
                toc[i].of = toc[j].of /\ toc[i].desc = toc[j].desc => i = j)'
          /\ (\A i, j \in 1..Len(toc) : \A a, b \in 1..Len(ordering) :
                i <= j /\ toc[i].of = ordering[a] /\ toc[j].of = ordering[b] => a <= b)'
      BY <1>2, <1>15, <1>17, <1>18
    <2>3. EntryRecords' = EntryRecords
      BY <1>2, SameRows DEF EntryRecords
    <2>4. dumped' \in 0..Len(ordering') /\ toc' \in Seq(EntryRecords')
      BY <1>2, <1>8, <2>1, <2>3
    <2> QED
      BY <1>14, <2>2, <2>4 DEF EntriesInv
  <1>20. ASSUME NEW i \in 1..Len(toc'), toc'[i].section # "none", catalog[toc'[i].of].ns \in Own
         PROVE  Defined(catalog[toc'[i].of].ns)
    <2>1. CASE i \in 1..m
      BY <1>8, <1>20, <2>1 DEF SchemaEntriesInv, Printed, m
    <2>2. CASE i \notin 1..m
      <3>1. toc'[i].of = o /\ Weighty(o)
        BY <1>8, <1>10, <1>20, <2>2
      <3> QED
        BY <1>1, <1>20, <3>1 DEF ReadyInv, SchemasReady
    <2> QED
      BY <2>1, <2>2
  <1>21. ASSUME NEW k \in 1..(dumped + 1), catalog[ordering[k]].type = "namespace",
                Defined(ordering[k])
         PROVE  \E i \in 1..Len(toc') : toc'[i].of = ordering[k] /\ toc'[i].section = "pre"
    <2>1. CASE k \in 1..dumped
      <3>1. PICK i \in 1..m : toc[i].of = ordering[k] /\ toc[i].section = "pre"
        BY <1>21, <2>1 DEF SchemaEntriesInv, SchemaAt, m
      <3> QED
        BY <1>8, <3>1
    <2>2. CASE k = dumped + 1
      <3>1. ordering[k] = o
        BY <2>2 DEF o
      <3>2. PICK i \in 1..Len(s) : s[i].of = o /\ s[i].section = "pre"
        BY <1>1, <1>21, <3>1
      <3> QED
        BY <1>8, <3>1, <3>2
    <2> QED
      BY <1>1, <2>1, <2>2
  <1>22. SchemaEntriesInv'
    <2>1. \A i \in 1..Len(toc') :
            toc'[i].section # "none" /\ catalog[toc'[i].of].ns \in Own =>
              "DEFINITION" \in dump'[catalog[toc'[i].of].ns]
      BY <1>1, <1>2, <1>3, <1>20 DEF Defined
    <2>2. \A k \in 1..(dumped + 1) : ordering[k] \in Objects
      <3>1. \A k \in 1..(dumped + 1) : k \in 1..Len(ordering)
        BY <1>1, <1>12
      <3> QED
        BY <1>3, <3>1, ElementOfSeq DEF OrderingInv, PlacedInv
    <2>3. \A k \in 1..(dumped + 1) :
            catalog[ordering[k]].type = "namespace" /\ "DEFINITION" \in dump'[ordering[k]] =>
              \E i \in 1..Len(toc') : toc'[i].of = ordering[k] /\ toc'[i].section = "pre"
      BY <1>1, <1>2, <1>21, <2>2 DEF Defined
    <2> QED
      BY <1>2, <1>3, <2>1, <2>3 DEF SchemaEntriesInv, Printed, SchemaAt, Defined
  <1> QED
    BY <1>5, <1>6, <1>19, <1>22

-----------------------------------------------------------------------------
(* The choice of the entries to restore.                                   *)

(* The scripts are written from entries that stay.                         *)
LEMMA EntriesStay ==
  ASSUME EntriesInv, SchemaEntriesInv, selectionVars' = selectionVars,
         ordering' = ordering, dumped' = dumped, toc' = toc
  PROVE  EntriesInv' /\ SchemaEntriesInv' /\ (RequiredInv => RequiredInv')
  <1>1. catalog' = catalog /\ members' = members /\ dump' = dump
    BY DEF selectionVars, marks
  <1>2. EntryRecords' = EntryRecords /\ Own' = Own
    BY <1>1, SameRows DEF EntryRecords, Own
  <1>3. EntriesInv'
    <2>1. (\A i \in 1..Len(toc) : EntryOK(toc[i]))'
      BY <1>1 DEF EntriesInv, EntryOK
    <2>2. dumped' \in 0..Len(ordering') /\ toc' \in Seq(EntryRecords')
      BY <1>2 DEF EntriesInv
    <2>3. /\ (\A i \in 1..Len(toc) : \E k \in 1..dumped : toc[i].of = ordering[k])'
          /\ (\A i, j \in 1..Len(toc) :
                toc[i].of = toc[j].of /\ toc[i].desc = toc[j].desc => i = j)'
          /\ (\A i, j \in 1..Len(toc) : \A a, b \in 1..Len(ordering) :
                i <= j /\ toc[i].of = ordering[a] /\ toc[j].of = ordering[b] => a <= b)'
      <3>1. /\ \A i \in 1..Len(toc) : \E k \in 1..dumped : toc[i].of = ordering[k]
            /\ \A i, j \in 1..Len(toc) :
                 toc[i].of = toc[j].of /\ toc[i].desc = toc[j].desc => i = j
            /\ \A i, j \in 1..Len(toc) : \A a, b \in 1..Len(ordering) :
                 i <= j /\ toc[i].of = ordering[a] /\ toc[j].of = ordering[b] => a <= b
        BY DEF EntriesInv
      <3> QED
        BY <3>1
    <2> QED
      BY <2>1, <2>2, <2>3 DEF EntriesInv
  <1>4. SchemaEntriesInv'
    BY <1>1, <1>2 DEF SchemaEntriesInv, Printed, SchemaAt, Defined
  <1>5. RequiredInv => RequiredInv'
    BY DEF RequiredInv, Printed
  <1> QED
    BY <1>3, <1>4, <1>5

(* A statement is in its own section.                                      *)
LEMMA OwnSection ==
  ASSUME NEW i \in Nat, i > 0, Printed(i)
  PROVE  CurSection(i) = toc[i].section
  <1> DEFINE before == {j \in 1..i : toc[j].section # "none"}
             last == CHOOSE j \in before : \A k \in before : k <= j
  <1>1. i \in before /\ \A k \in before : k <= i /\ k \in Nat
    BY DEF Printed
  <1>2. last \in before /\ \A k \in before : k <= last
    <2>1. \E j \in before : \A k \in before : k <= j
      BY <1>1
    <2> HIDE DEF before
    <2> QED
      BY <2>1
  <1>3. CurSection(i) = toc[last].section
    BY <1>1 DEF CurSection
  <1> HIDE DEF last, before
  <1>4. last = i
    BY <1>1, <1>2
  <1> QED
    BY <1>3, <1>4

(* The entries chosen for the first pass are those of the pre-data         *)
(* section.                                                                *)
LEMMA MarkStep ==
  ASSUME EntriesInv, SchemaEntriesInv, ProcessArchiveRestoreOptions
  PROVE  EntriesInv' /\ SchemaEntriesInv' /\ RequiredInv'
  <1> DEFINE n == Len(toc)
  <1>1. /\ toc' = [i \in DOMAIN toc |-> [toc[i] EXCEPT !.required = Required(i)]]
        /\ selectionVars' = selectionVars /\ ordering' = ordering /\ dumped' = dumped
    BY DEF ProcessArchiveRestoreOptions
  <1>2. catalog' = catalog /\ members' = members /\ dump' = dump
    BY <1>1 DEF selectionVars, marks
  <1>3. EntryRecords' = EntryRecords /\ Own' = Own
    BY <1>2, SameRows DEF EntryRecords, Own
  <1>4. n \in Nat /\ DOMAIN toc = 1..n /\ \A i \in 1..n : toc[i] \in EntryRecords
    BY LenProperties, ElementOfSeq DEF EntriesInv
  <1> HIDE DEF n
  <1>5. ASSUME NEW i \in 1..n
        PROVE  /\ toc'[i] \in EntryRecords
               /\ toc'[i].of = toc[i].of /\ toc'[i].desc = toc[i].desc
               /\ toc'[i].section = toc[i].section
               /\ toc'[i].required = Required(i)
    <2>1. toc'[i] = [toc[i] EXCEPT !.required = Required(i)] /\ toc[i] \in EntryRecords
      BY <1>1, <1>4
    <2>2. Required(i) \in BOOLEAN
      BY DEF Required
    <2> QED
      BY <2>1, <2>2 DEF EntryRecords
  <1>6. toc' \in [1..n -> EntryRecords]
    <2>1. DOMAIN toc' = 1..n /\ toc' = [i \in 1..n |-> toc'[i]]
      BY <1>1, <1>4
    <2> QED
      BY <1>5, <2>1
  <1>7. toc' \in Seq(EntryRecords) /\ Len(toc') = n
    BY <1>4, <1>6, SeqDef
  <1>8. (\A i \in 1..Len(toc) : EntryOK(toc[i]))'
    <2> SUFFICES ASSUME NEW i \in 1..n PROVE (EntryOK(toc[i]))'
      BY <1>7
    <2>1. EntryOK(toc[i])
      BY DEF EntriesInv, n
    <2> QED
      BY <1>2, <1>5, <2>1 DEF EntryOK
  <1>9. EntriesInv'
    <2>1. /\ dumped \in 0..Len(ordering)
          /\ \A i \in 1..n : \E k \in 1..dumped : toc[i].of = ordering[k]
          /\ \A i, j \in 1..n : toc[i].of = toc[j].of /\ toc[i].desc = toc[j].desc => i = j
          /\ \A i, j \in 1..n : \A a, b \in 1..Len(ordering) :
               i <= j /\ toc[i].of = ordering[a] /\ toc[j].of = ordering[b] => a <= b
      BY DEF EntriesInv, n
    <2>2. /\ \A i \in 1..n : \E k \in 1..dumped : toc'[i].of = ordering[k]
          /\ \A i, j \in 1..n : toc'[i].of = toc'[j].of /\ toc'[i].desc = toc'[j].desc => i = j
          /\ \A i, j \in 1..n : \A a, b \in 1..Len(ordering) :
               i <= j /\ toc'[i].of = ordering[a] /\ toc'[j].of = ordering[b] => a <= b
      BY <1>5, <2>1
    <2>3. /\ (\A i \in 1..Len(toc) : \E k \in 1..dumped : toc[i].of = ordering[k])'
          /\ (\A i, j \in 1..Len(toc) :
                toc[i].of = toc[j].of /\ toc[i].desc = toc[j].desc => i = j)'
          /\ (\A i, j \in 1..Len(toc) : \A a, b \in 1..Len(ordering) :
                i <= j /\ toc[i].of = ordering[a] /\ toc[j].of = ordering[b] => a <= b)'
      BY <1>1, <1>7, <2>2
    <2>4. dumped' \in 0..Len(ordering') /\ toc' \in Seq(EntryRecords')
      BY <1>1, <1>3, <1>7, <2>1
    <2> QED
      BY <1>8, <2>3, <2>4 DEF EntriesInv
  <1>10. SchemaEntriesInv'
    <2>1. /\ \A i \in 1..n : toc[i].section # "none" /\ catalog[toc[i].of].ns \in Own =>
               Defined(catalog[toc[i].of].ns)
          /\ \A k \in 1..dumped : SchemaAt(k) /\ Defined(ordering[k]) =>
               \E i \in 1..n : toc[i].of = ordering[k] /\ toc[i].section = "pre"
      BY DEF SchemaEntriesInv, Printed, n
    <2>2. /\ \A i \in 1..n : toc'[i].section # "none" /\ catalog[toc'[i].of].ns \in Own =>
               Defined(catalog[toc'[i].of].ns)
          /\ \A k \in 1..dumped : SchemaAt(k) /\ Defined(ordering[k]) =>
               \E i \in 1..n : toc'[i].of = ordering[k] /\ toc'[i].section = "pre"
      BY <1>5, <2>1
    <2> QED
      BY <1>1, <1>2, <1>3, <1>7, <2>2 DEF SchemaEntriesInv, Printed, SchemaAt, Defined
  <1>11. RequiredInv'
    <2>1. ASSUME NEW i \in 1..n, toc'[i].section # "none"
          PROVE  toc'[i].required <=> toc'[i].section = "pre"
      <3>1. Printed(i) /\ i \in Nat /\ i > 0
        BY <1>4, <1>5, <2>1 DEF Printed
      <3>2. CurSection(i) = toc[i].section
        BY <3>1, OwnSection
      <3>3. toc[i].section \in {"pre", "post", "none"}
        BY <1>4 DEF EntryRecords
      <3>4. Required(i) <=> toc[i].section = "pre"
        BY <3>2, <3>3 DEF Required
      <3> QED
        BY <1>5, <3>4
    <2> QED
      BY <1>7, <2>1 DEF RequiredInv, Printed
  <1> QED
    BY <1>9, <1>10, <1>11

-----------------------------------------------------------------------------
(* The invariant.                                                          *)

(* The invariant holds at the start.                                       *)
LEMMA ExportStart == Init => IInv
  <1> SUFFICES ASSUME Init PROVE IInv
    OBVIOUS
  <1>1. SelectionInv
    BY SelectionStart DEF Init
  <1> QED
    BY <1>1 DEF Init, IInv, ScriptInv

(* What the scripts are made of stays.                                     *)
LEMMA ScriptFrame ==
  ASSUME ScriptInv, stage' = stage, script' = script, indexScript' = indexScript,
         stage \in {"append", "indexes", "done"} => toc' = toc,
         stage = "done" => request' = request
  PROVE  ScriptInv'
  <1>1. CASE stage \notin {"append", "indexes", "done"}
    BY <1>1 DEF ScriptInv
  <1>2. CASE stage \in {"append", "indexes", "done"}
    <2>1. toc' = toc
      BY <1>2
    <2>2. FirstPart' = FirstPart /\ SecondPart' = SecondPart /\ IndexPart' = IndexPart
      BY <2>1 DEF FirstPart, SecondPart, IndexPart, Entries, Chosen
    <2> QED
      BY <1>2, <2>2 DEF ScriptInv
  <1> QED
    BY <1>1, <1>2

(* The invariant of the readers is about their variables.                  *)
LEMMA SelectionStutter == ASSUME SelectionInv, selectionVars' = selectionVars PROVE SelectionInv'
  <1>1. /\ catalog' = catalog /\ request' = request /\ step' = step /\ members' = members
        /\ made' = made /\ dump' = dump /\ contains' = contains /\ interesting' = interesting
        /\ deps' = deps
    BY DEF selectionVars, marks
  <1>2. /\ Objects' = Objects /\ Tables' = Tables /\ Roots' = Roots /\ UserSchemas' = UserSchemas
        /\ \A kinds : Rows(kinds)' = Rows(kinds)
        /\ \A o : Of(o)' = Of(o) /\ Kind(o)' = Kind(o)
        /\ Own' = Own /\ (Asked' <=> Asked)
        /\ \A o : (Defined(o)' <=> Defined(o)) /\ (Weighty(o)' <=> Weighty(o))
    <2>1. \A o : Defined(o)' <=> Defined(o)
      BY <1>1 DEF Defined
    <2>2. \A o : Weighty(o)' <=> Weighty(o)
      BY <1>1, <2>1, SameRows DEF Weighty
    <2> QED
      BY <1>1, <2>1, <2>2, SameRows DEF Own, Asked
  <1>3. TypesInv' /\ RootsInv'
    BY <1>1, <1>2 DEF SelectionInv, TypesInv, RootsInv
  <1>4. SchemasInv'
    BY <1>1, <1>2 DEF SelectionInv, SchemasInv
  <1>5. \A o : TableBeside(o)' <=> TableBeside(o)
    BY <1>1, <1>2 DEF TableBeside
  <1>6. BesideInv'
    BY <1>1, <1>2, <1>5 DEF SelectionInv, BesideInv
  <1>7. TableSchemasInv' /\ AttachInv'
    BY <1>1, <1>2 DEF SelectionInv, TableSchemasInv, AttachInv
  <1>8. KeyInv'
    BY <1>1, KeyFrame DEF SelectionInv
  <1> QED
    BY <1>1, <1>2, <1>3, <1>4, <1>6, <1>7, <1>8 DEF SelectionInv

(* The invariant is inductive: one case for each reader and each phase.    *)
LEMMA ExportStep == ASSUME IInv, [Next]_vars PROVE IInv'
  <1>1. CASE Read
    <2>1. stage = "read" /\ SelectionInv /\ SelectionNext /\ ScriptInv
          /\ ordering = <<>> /\ dumped = 0 /\ toc = <<>>
          /\ UNCHANGED exportVars
      BY <1>1 DEF Read, IInv
    <2>2. SelectionInv'
      BY <2>1, SelectionStep
    <2>3. UNCHANGED <<names, stage, ordering, dumped, toc, script, indexScript>>
      BY <2>1 DEF exportVars
    <2>4. ScriptInv'
      BY <2>1, <2>3 DEF ScriptInv
    <2> QED
      BY <2>1, <2>2, <2>3, <2>4 DEF IInv
  <1>2. CASE Repair
    <2>1. stage = "read" /\ SelectionInv /\ ordering = <<>> /\ dumped = 0 /\ toc = <<>>
      BY <1>2 DEF Repair, IInv
    <2>2. stage' = "sort" /\ ordering' = <<>> /\ dumped' = 0 /\ toc' = <<>>
      BY <1>2, <2>1 DEF Repair
    <2>3. ReadyInv'
      BY <1>2, <2>1, RepairStep
    <2>4. OrderingInv'
      <3>1. \A i \in 1..Len(ordering') : FALSE
        BY <2>2, NoPlaces
      <3>2. ordering' \in Seq(made')
        BY <2>2, EmptySeq
      <3> QED
        BY <3>1, <3>2 DEF OrderingInv, PlacedInv, DependentsInv, SchemasPlacedInv
    <2>5. ScriptInv'
      BY <2>2 DEF ScriptInv
    <2> QED
      BY <2>2, <2>3, <2>4, <2>5 DEF IInv
  <1>3. CASE SortNext
    <2>1. stage = "sort" /\ ReadyInv /\ OrderingInv /\ dumped = 0 /\ toc = <<>>
      BY <1>3 DEF SortNext, IInv
    <2>2. stage' = "sort" /\ dumped' = 0 /\ toc' = <<>>
      BY <1>3, <2>1 DEF SortNext
    <2>3. ReadyInv' /\ OrderingInv'
      BY <1>3, <2>1, SortStep
    <2>4. ScriptInv'
      BY <2>2 DEF ScriptInv
    <2> QED
      BY <2>2, <2>3, <2>4 DEF IInv
  <1>4. CASE AllSorted
    <2>1. /\ stage = "sort" /\ ReadyInv /\ OrderingInv /\ dumped = 0 /\ toc = <<>> /\ Unplaced = {}
          /\ stage' = "dump" /\ selectionVars' = selectionVars /\ ordering' = ordering
          /\ dumped' = 0 /\ toc' = <<>>
      BY <1>4 DEF AllSorted, IInv
    <2>2. ReadyInv' /\ OrderingInv' /\ Unplaced' = {}
      <3>1. catalog' = catalog /\ made' = made /\ deps' = deps
        BY <2>1 DEF selectionVars, marks
      <3> QED
        BY <2>1, <3>1, ReadyStays, OrderingFrame
    <2>3. EntriesInv' /\ SchemaEntriesInv'
      <3>1. \A i \in 1..Len(toc') : FALSE
        BY <2>1, NoPlaces
      <3>2. toc' \in Seq(EntryRecords')
        BY <2>1, EmptySeq
      <3>3. dumped' \in 0..Len(ordering')
        BY <2>1, LenProperties DEF OrderingInv, PlacedInv
      <3>4. \A k \in 1..dumped' : FALSE
        BY <2>1
      <3> QED
        BY <3>1, <3>2, <3>3, <3>4 DEF EntriesInv, SchemaEntriesInv
    <2>4. ScriptInv'
      BY <2>1 DEF ScriptInv
    <2> QED
      BY <2>1, <2>2, <2>3, <2>4 DEF IInv
  <1>5. CASE DumpNext
    <2>1. /\ stage = "dump" /\ ReadyInv /\ OrderingInv /\ EntriesInv /\ SchemaEntriesInv
          /\ Unplaced = {} /\ stage' = "dump"
      BY <1>5 DEF DumpNext, IInv
    <2>2. ReadyInv' /\ OrderingInv' /\ EntriesInv' /\ SchemaEntriesInv' /\ Unplaced' = {}
      BY <1>5, <2>1, DumpStep
    <2>3. ScriptInv'
      BY <2>1 DEF ScriptInv
    <2> QED
      BY <2>1, <2>2, <2>3 DEF IInv
  <1>6. ASSUME stage \in {"dump", "mark", "restore", "append", "indexes", "done"},
               UNCHANGED <<selectionVars, ordering, dumped>>
        PROVE  /\ ReadyInv' /\ OrderingInv' /\ Unplaced' = {}
               /\ EntriesInv /\ SchemaEntriesInv
               /\ toc' = toc => /\ EntriesInv' /\ SchemaEntriesInv'
                                /\ RequiredInv => RequiredInv'
    <2>1. ReadyInv /\ OrderingInv /\ EntriesInv /\ SchemaEntriesInv /\ Unplaced = {}
      BY <1>6 DEF IInv
    <2>2. catalog' = catalog /\ made' = made /\ deps' = deps
      BY <1>6 DEF selectionVars, marks
    <2> QED
      BY <1>6, <2>1, <2>2, ReadyStays, OrderingFrame, EntriesStay
  <1>7. CASE AllDumped
    <2>1. /\ stage = "dump" /\ dumped = Len(ordering) /\ stage' = "mark"
          /\ UNCHANGED <<selectionVars, ordering, dumped, toc>>
      BY <1>7 DEF AllDumped
    <2>2. /\ ReadyInv' /\ OrderingInv' /\ Unplaced' = {}
          /\ EntriesInv' /\ SchemaEntriesInv'
      BY <1>6, <2>1
    <2>3. ScriptInv'
      BY <2>1 DEF ScriptInv
    <2> QED
      BY <2>1, <2>2, <2>3 DEF IInv
  <1>8. CASE ProcessArchiveRestoreOptions
    <2>1. /\ stage = "mark" /\ stage' = "restore"
          /\ UNCHANGED <<selectionVars, ordering, dumped>>
      BY <1>8 DEF ProcessArchiveRestoreOptions
    <2>2. /\ ReadyInv' /\ OrderingInv' /\ Unplaced' = {}
          /\ EntriesInv /\ SchemaEntriesInv /\ dumped' = Len(ordering')
      BY <1>6, <2>1 DEF IInv
    <2>3. EntriesInv' /\ SchemaEntriesInv' /\ RequiredInv'
      BY <1>8, <2>2, MarkStep
    <2>4. ScriptInv'
      BY <2>1 DEF ScriptInv
    <2> QED
      BY <2>1, <2>2, <2>3, <2>4 DEF IInv
  <1>9. ASSUME stage \in {"restore", "append", "indexes", "done"},
               UNCHANGED <<selectionVars, ordering, dumped, toc>>
        PROVE  /\ ReadyInv' /\ OrderingInv' /\ Unplaced' = {}
               /\ EntriesInv' /\ SchemaEntriesInv' /\ RequiredInv' /\ dumped' = Len(ordering')
               /\ FirstPart' = FirstPart /\ SecondPart' = SecondPart /\ IndexPart' = IndexPart
               /\ request' = request
    <2>1. RequiredInv /\ dumped = Len(ordering)
      BY <1>9 DEF IInv
    <2>2. FirstPart' = FirstPart /\ SecondPart' = SecondPart /\ IndexPart' = IndexPart
      BY <1>9 DEF FirstPart, SecondPart, IndexPart, Entries, Chosen
    <2>3. request' = request
      BY <1>9 DEF selectionVars
    <2> QED
      BY <1>6, <1>9, <2>1, <2>2, <2>3
  <1>10. CASE RestoreArchive
    <2>1. /\ stage = "restore" /\ stage' = "append" /\ script' = FirstPart
          /\ UNCHANGED <<selectionVars, ordering, dumped, toc>>
      BY <1>10 DEF RestoreArchive, FirstPart
    <2>2. ScriptInv'
      BY <1>9, <2>1 DEF ScriptInv
    <2> QED
      BY <1>9, <2>1, <2>2 DEF IInv
  <1>11. CASE AppendPostData
    <2>1. /\ stage = "append" /\ stage' = "indexes" /\ script' = script \o SecondPart
          /\ UNCHANGED <<selectionVars, ordering, dumped, toc>>
      BY <1>11 DEF AppendPostData, SecondPart
    <2>2. script = FirstPart
      BY <2>1 DEF IInv, ScriptInv
    <2>3. ScriptInv'
      BY <1>9, <2>1, <2>2 DEF ScriptInv
    <2> QED
      BY <1>9, <2>1, <2>3 DEF IInv
  <1>12. CASE WriteIndexes
    <2>1. /\ stage = "indexes" /\ stage' = "done" /\ script' = script
          /\ indexScript' = IF request.indexFile THEN IndexPart ELSE <<>>
          /\ UNCHANGED <<selectionVars, ordering, dumped, toc>>
      BY <1>12 DEF WriteIndexes, IndexPart
    <2>2. script = FirstPart \o SecondPart
      BY <2>1 DEF IInv, ScriptInv
    <2>3. ScriptInv'
      BY <1>9, <2>1, <2>2 DEF ScriptInv
    <2> QED
      BY <1>9, <2>1, <2>3 DEF IInv
  <1>13. CASE UNCHANGED vars
    <2>1. UNCHANGED <<selectionVars, names, stage, ordering, dumped, toc, script, indexScript>>
      BY <1>13 DEF vars, exportVars
    <2>2. request' = request /\ ScriptInv
      BY <2>1 DEF selectionVars, IInv
    <2>3. ScriptInv'
      BY <2>1, <2>2, ScriptFrame
    <2>4. CASE stage = "read"
      <3>1. SelectionInv'
        BY <2>1, <2>4, SelectionStutter DEF IInv
      <3> QED
        BY <2>1, <2>3, <2>4, <3>1 DEF IInv
    <2>5. CASE stage = "sort"
      <3>1. catalog' = catalog /\ made' = made /\ deps' = deps
        BY <2>1 DEF selectionVars, marks
      <3>2. ReadyInv' /\ OrderingInv'
        BY <2>1, <2>5, <3>1, ReadyStays, OrderingFrame DEF IInv
      <3> QED
        BY <2>1, <2>3, <2>5, <3>2 DEF IInv
    <2>6. CASE stage \in {"dump", "mark"}
      <3>1. /\ ReadyInv' /\ OrderingInv' /\ Unplaced' = {}
            /\ EntriesInv' /\ SchemaEntriesInv'
        BY <1>6, <2>1, <2>6
      <3> QED
        BY <2>1, <2>3, <2>6, <3>1 DEF IInv
    <2>7. CASE stage \in {"restore", "append", "indexes", "done"}
      BY <1>9, <2>1, <2>3, <2>7 DEF IInv
    <2> QED
      BY <2>4, <2>5, <2>6, <2>7 DEF IInv
  <1> QED
    BY <1>1, <1>2, <1>3, <1>4, <1>5, <1>7, <1>8, <1>10, <1>11, <1>12, <1>13 DEF Next

(* The invariant of the whole run of main, from the first reader to the    *)
(* index file, for every database, every configuration and every order of  *)
(* names.                                                                  *)
THEOREM ExportInvariance == Spec => []IInv
  <1>1. Init => IInv
    BY ExportStart
  <1>2. IInv /\ [Next]_vars => IInv'
    BY ExportStep
  <1> QED
    BY <1>1, <1>2, PTL DEF Spec

-----------------------------------------------------------------------------
(* The two files.                                                          *)

(* An entry at exactly one place of a file.                                *)
LEMMA OneCopy ==
  ASSUME NEW file, NEW e, NEW k \in DOMAIN file, \A j \in DOMAIN file : file[j] = e <=> j = k
  PROVE  Copies(file, e) = 1
  <1>1. {i \in DOMAIN file : file[i] = e} = {k}
    OBVIOUS
  <1> QED
    BY <1>1, FS_Singleton DEF Copies

(* An entry at no place of a file.                                         *)
LEMMA NoCopy ==
  ASSUME NEW file, NEW e, \A j \in DOMAIN file : file[j] # e
  PROVE  Copies(file, e) = 0
  <1>1. {i \in DOMAIN file : file[i] = e} = {}
    OBVIOUS
  <1> QED
    BY <1>1, FS_EmptySet DEF Copies

(* where says which entry of the archive each one of the schema file is.   *)
Written(where) ==
  /\ where \in [1..Len(script) -> 1..Len(toc)]
  /\ \A k \in 1..Len(script) :
       /\ script[k] = toc[where[k]] /\ Printed(where[k])
       /\ script[k].desc # "INDEX"
  /\ \A j, k \in 1..Len(script) : j < k =>
       \/ script[j].section = "pre" /\ script[k].section = "post"
       \/ script[j].section = script[k].section /\ where[j] < where[k]
  /\ \A i \in 1..Len(toc) : Printed(i) /\ toc[i].desc # "INDEX" =>
       \E k \in 1..Len(script) : where[k] = i

(* No two entries of the archive are equal.                                *)
LEMMA DistinctEntries ==
  ASSUME EntriesInv, NEW i \in 1..Len(toc), NEW j \in 1..Len(toc), toc[i] = toc[j]
  PROVE  i = j
  BY DEF EntriesInv

(* Which entries each part of the files takes.                             *)
LEMMA PartsOfScript ==
  ASSUME EntriesInv, RequiredInv, NEW i \in 1..Len(toc)
  PROVE  /\ toc[i] \in EntryRecords /\ toc[i] \in Entries /\ EntryOK(toc[i])
         /\ (toc[i].required /\ RestorePass(toc[i]) = "main") <=> toc[i].section = "pre"
         /\ IsIndex(toc[i]) <=> toc[i].desc = "INDEX"
         /\ Appended(toc[i]) <=> toc[i].section = "post" /\ toc[i].desc # "INDEX"
  <1>1. toc[i] \in EntryRecords /\ EntryOK(toc[i]) /\ i \in DOMAIN toc
    BY ElementOfSeq, LenProperties DEF EntriesInv
  <1>2. toc[i] \in Entries
    BY <1>1 DEF Entries
  <1>3. (toc[i].required /\ RestorePass(toc[i]) = "main") <=> toc[i].section = "pre"
    <2>1. CASE Printed(i)
      <3>1. toc[i].required <=> toc[i].section = "pre"
        BY <2>1 DEF RequiredInv
      <3>2. toc[i].section = "pre" => toc[i].desc \notin {"ACL", "DEFAULT ACL", "EVENT TRIGGER"}
        BY <1>1, <2>1 DEF EntryOK, Printed
      <3>3. toc[i].section = "pre" => RestorePass(toc[i]) = "main"
        BY <3>2 DEF RestorePass
      <3> QED
        BY <3>1, <3>3
    <2>2. CASE ~Printed(i)
      <3>1. toc[i].desc = "ACL" /\ toc[i].section = "none"
        BY <1>1, <2>2 DEF EntryOK, Printed
      <3>2. RestorePass(toc[i]) = "acl"
        BY <3>1 DEF RestorePass
      <3> QED
        BY <3>1, <3>2
    <2> QED
      BY <2>1, <2>2
  <1>4. IsIndex(toc[i]) <=> toc[i].desc = "INDEX"
    BY <1>1 DEF IsIndex, EntryOK
  <1>5. Appended(toc[i]) <=> toc[i].section = "post" /\ toc[i].desc # "INDEX"
    BY <1>4 DEF Appended, IsIndex
  <1> QED
    BY <1>1, <1>2, <1>3, <1>4, <1>5

(* The schema file: each printed entry but the plain indexes once, post-   *)
(* data ones last, and otherwise in the order of the archive.              *)
LEMMA ScriptWritten ==
  ASSUME IInv, Done
  PROVE  script \in Seq(EntryRecords) /\ \E where : Written(where)
  <1> DEFINE S == {e \in Entries : e.required /\ RestorePass(e) = "main"}
             R == {e \in Entries : Appended(e)}
             n == Len(toc)
  <1>1. EntriesInv /\ RequiredInv /\ script = FirstPart \o SecondPart /\ toc \in Seq(EntryRecords)
    BY DEF IInv, Done, ScriptInv, EntriesInv
  <1>2. /\ FirstPart \in Seq(EntryRecords) /\ \E p : Picks(p, FirstPart, toc, S, n)
        /\ SecondPart \in Seq(EntryRecords) /\ \E p : Picks(p, SecondPart, toc, R, n)
    BY <1>1, ChosenPicks DEF FirstPart, SecondPart
  <1>3. PICK c : c = FirstPart
    OBVIOUS
  <1>4. PICK d : d = SecondPart
    OBVIOUS
  <1>5. PICK p : Picks(p, c, toc, S, n)
    BY <1>2, <1>3
  <1>6. PICK q : Picks(q, d, toc, R, n)
    BY <1>2, <1>4
  <1>7. \A i \in 1..n : /\ toc[i] \in S <=> toc[i].section = "pre"
                        /\ toc[i] \in R <=> toc[i].section = "post" /\ toc[i].desc # "INDEX"
                        /\ EntryOK(toc[i]) /\ toc[i].section \in {"pre", "post", "none"}
    <2> SUFFICES ASSUME NEW i \in 1..n
                 PROVE  /\ toc[i] \in S <=> toc[i].section = "pre"
                        /\ toc[i] \in R <=> toc[i].section = "post" /\ toc[i].desc # "INDEX"
                        /\ EntryOK(toc[i]) /\ toc[i].section \in {"pre", "post", "none"}
      OBVIOUS
    <2>1. /\ toc[i] \in EntryRecords /\ toc[i] \in Entries /\ EntryOK(toc[i])
          /\ (toc[i].required /\ RestorePass(toc[i]) = "main") <=> toc[i].section = "pre"
          /\ Appended(toc[i]) <=> toc[i].section = "post" /\ toc[i].desc # "INDEX"
      BY <1>1, PartsOfScript
    <2>2. toc[i].section \in {"pre", "post", "none"}
      BY <2>1 DEF EntryRecords
    <2> QED
      BY <2>1, <2>2
  <1> HIDE DEF S, R, n
  <1>8. /\ script \in Seq(EntryRecords) /\ Len(script) = Len(c) + Len(d)
        /\ Len(c) \in Nat /\ Len(d) \in Nat
        /\ \A i \in 1..Len(c) : i \in 1..Len(script) /\ script[i] = c[i]
        /\ \A i \in 1..Len(d) : i + Len(c) \in 1..Len(script) /\ script[i + Len(c)] = d[i]
        /\ \A i \in 1..Len(script) :
             \/ i \in 1..Len(c) /\ script[i] = c[i]
             \/ i > Len(c) /\ i - Len(c) \in 1..Len(d) /\ script[i] = d[i - Len(c)]
    BY <1>1, <1>2, <1>3, <1>4, Joined
  <1>9. /\ \A k \in 1..Len(c) : p[k] \in 1..n /\ c[k] = toc[p[k]] /\ c[k] \in S
        /\ \A j, k \in 1..Len(c) : j < k => p[j] < p[k]
        /\ \A i \in 1..n : toc[i] \in S => \E k \in 1..Len(c) : p[k] = i
    BY <1>5 DEF Picks
  <1>10. /\ \A k \in 1..Len(d) : q[k] \in 1..n /\ d[k] = toc[q[k]] /\ d[k] \in R
         /\ \A j, k \in 1..Len(d) : j < k => q[j] < q[k]
         /\ \A i \in 1..n : toc[i] \in R => \E k \in 1..Len(d) : q[k] = i
    BY <1>6 DEF Picks
  <1> DEFINE where == [k \in 1..Len(script) |-> IF k <= Len(c) THEN p[k] ELSE q[k - Len(c)]]
  <1>11. ASSUME NEW k \in 1..Len(script)
         PROVE  \/ /\ k \in 1..Len(c) /\ where[k] = p[k] /\ script[k] = toc[where[k]]
                   /\ where[k] \in 1..n /\ script[k].section = "pre"
                \/ /\ k > Len(c) /\ k - Len(c) \in 1..Len(d) /\ where[k] = q[k - Len(c)]
                   /\ script[k] = toc[where[k]] /\ where[k] \in 1..n
                   /\ script[k].section = "post" /\ script[k].desc # "INDEX"
    <2>1. CASE k \in 1..Len(c)
      <3>1. where[k] = p[k]
        BY <1>8, <2>1
      <3> HIDE DEF where
      <3>2. script[k] = c[k] /\ c[k] = toc[p[k]] /\ c[k] \in S /\ p[k] \in 1..n
        BY <1>8, <1>9, <2>1
      <3>3. c[k].section = "pre"
        BY <1>7, <3>2
      <3> QED
        BY <2>1, <3>1, <3>2, <3>3
    <2>2. CASE k > Len(c) /\ k - Len(c) \in 1..Len(d) /\ script[k] = d[k - Len(c)]
      <3>1. where[k] = q[k - Len(c)]
        BY <1>8, <2>2
      <3> HIDE DEF where
      <3>2. d[k - Len(c)] = toc[q[k - Len(c)]] /\ d[k - Len(c)] \in R /\ q[k - Len(c)] \in 1..n
        BY <1>10, <2>2
      <3>3. script[k].section = "post" /\ script[k].desc # "INDEX"
        BY <1>7, <2>2, <3>2
      <3> QED
        BY <2>2, <3>1, <3>2, <3>3
    <2> QED
      BY <1>8, <2>1, <2>2
  <1>12. where \in [1..Len(script) -> 1..n]
    BY <1>11
  <1>13. \A i \in 1..n : toc[i].section = "pre" => toc[i].desc # "INDEX"
    BY <1>7 DEF EntryOK
  <1>14. \A i \in 1..Len(c) : where[i] = p[i]
    BY <1>8
  <1>15. \A i \in 1..Len(d) : where[i + Len(c)] = q[i]
    <2> SUFFICES ASSUME NEW i \in 1..Len(d) PROVE where[i + Len(c)] = q[i]
      OBVIOUS
    <2>1. i + Len(c) \in 1..Len(script) /\ ~(i + Len(c) <= Len(c)) /\ (i + Len(c)) - Len(c) = i
      BY <1>8
    <2> QED
      BY <2>1
  <1> HIDE DEF where
  <1>16. \A k \in 1..Len(script) :
           /\ script[k] = toc[where[k]] /\ Printed(where[k])
           /\ script[k].desc # "INDEX"
    BY <1>11, <1>13 DEF Printed
  <1>17. ASSUME NEW j \in 1..Len(script), NEW k \in 1..Len(script), j < k
         PROVE  \/ script[j].section = "pre" /\ script[k].section = "post"
                \/ script[j].section = script[k].section /\ where[j] < where[k]
    <2>1. CASE k \in 1..Len(c)
      <3>1. j \in 1..Len(c)
        BY <1>8, <1>17, <2>1
      <3>2. p[j] < p[k]
        BY <1>9, <1>17, <2>1, <3>1
      <3>3. where[j] = p[j] /\ where[k] = p[k]
        BY <1>14, <2>1, <3>1
      <3>4. script[j].section = "pre" /\ script[k].section = "pre"
        BY <1>8, <1>11, <2>1, <3>1
      <3> QED
        BY <3>2, <3>3, <3>4
    <2>2. CASE k \notin 1..Len(c) /\ j \in 1..Len(c)
      <3>1. script[j].section = "pre" /\ script[k].section = "post"
        BY <1>8, <1>11, <2>2
      <3> QED
        BY <3>1
    <2>3. CASE k \notin 1..Len(c) /\ j \notin 1..Len(c)
      <3>1. /\ j - Len(c) \in 1..Len(d) /\ where[j] = q[j - Len(c)] /\ script[j].section = "post"
            /\ k - Len(c) \in 1..Len(d) /\ where[k] = q[k - Len(c)] /\ script[k].section = "post"
        BY <1>11, <2>3
      <3>2. j - Len(c) < k - Len(c)
        BY <1>8, <1>17
      <3>3. q[j - Len(c)] < q[k - Len(c)]
        BY <1>10, <3>1, <3>2
      <3> QED
        BY <3>1, <3>3
    <2> QED
      BY <2>1, <2>2, <2>3
  <1>18. ASSUME NEW i \in 1..n, Printed(i), toc[i].desc # "INDEX"
         PROVE  \E k \in 1..Len(script) : where[k] = i
    <2>1. CASE toc[i].section = "pre"
      <3>1. PICK k \in 1..Len(c) : p[k] = i
        BY <1>7, <1>9, <2>1
      <3> QED
        BY <1>8, <1>14, <3>1
    <2>2. CASE toc[i].section # "pre"
      <3>1. toc[i].section = "post"
        BY <1>7, <1>18, <2>2 DEF Printed
      <3>2. PICK k \in 1..Len(d) : q[k] = i
        BY <1>7, <1>10, <1>18, <3>1
      <3> QED
        BY <1>8, <1>15, <3>2
    <2> QED
      BY <2>1, <2>2
  <1>19. Written(where)
    BY <1>12, <1>16, <1>17, <1>18 DEF Written, n
  <1> QED
    BY <1>8, <1>19

(* No entry is printed twice, since no section is in both passes.          *)
LEMMA WhereOnce ==
  ASSUME NEW where, Written(where), script \in Seq(EntryRecords),
         NEW j \in 1..Len(script), NEW k \in 1..Len(script), where[j] = where[k]
  PROVE  j = k
  <1>1. \A a, b \in 1..Len(script) : a < b => where[a] # where[b]
    <2> SUFFICES ASSUME NEW a \in 1..Len(script), NEW b \in 1..Len(script), a < b,
                        where[a] = where[b]
                 PROVE  FALSE
      OBVIOUS
    <2>1. script[a] = script[b]
      BY DEF Written
    <2>2. script[a].section = script[b].section
      BY <2>1
    <2>3. where[a] < where[b]
      BY <2>2 DEF Written
    <2>4. where[a] \in Nat
      <3>1. where[a] \in 1..Len(toc)
        BY DEF Written
      <3> QED
        BY <3>1
    <2> QED
      BY <2>3, <2>4
  <1>2. j < k \/ k < j \/ j = k
    OBVIOUS
  <1> QED
    BY <1>1, <1>2

(* The index file holds the plain indexes, once each.                      *)
LEMMA IndexOnce ==
  ASSUME IInv, Done, NEW i \in 1..Len(toc)
  PROVE  Copies(indexScript, toc[i]) = IF toc[i].desc = "INDEX" /\ request.indexFile THEN 1 ELSE 0
  <1>1. EntriesInv /\ RequiredInv /\ toc \in Seq(EntryRecords)
        /\ indexScript = IF request.indexFile THEN IndexPart ELSE <<>>
    BY DEF IInv, Done, ScriptInv, EntriesInv
  <1>2. CASE ~request.indexFile
    <2>1. DOMAIN indexScript = {}
      BY <1>1, <1>2
    <2>2. Copies(indexScript, toc[i]) = 0
      BY <2>1, NoCopy
    <2> QED
      BY <1>2, <2>2
  <1>3. CASE request.indexFile
    <2> DEFINE S == {e \in Entries : IsIndex(e)}
    <2>1. IndexPart \in Seq(EntryRecords) /\ \E p : Picks(p, IndexPart, toc, S, Len(toc))
      BY <1>1, ChosenPicks DEF IndexPart
    <2>2. \A k \in 1..Len(toc) : toc[k] \in S <=> toc[k].desc = "INDEX"
      BY <1>1, PartsOfScript
    <2> HIDE DEF S
    <2>3. PICK p : Picks(p, indexScript, toc, S, Len(toc))
      BY <1>1, <1>3, <2>1
    <2>4. DOMAIN indexScript = 1..Len(indexScript) /\ Len(indexScript) \in Nat
      BY <1>1, <1>3, <2>1, LenProperties
    <2>5. /\ \A k \in 1..Len(indexScript) : /\ p[k] \in 1..Len(toc)
                                            /\ indexScript[k] = toc[p[k]] /\ indexScript[k] \in S
          /\ \A j, k \in 1..Len(indexScript) : j < k => p[j] < p[k]
          /\ \A k \in 1..Len(toc) : toc[k] \in S => \E l \in 1..Len(indexScript) : p[l] = k
      BY <2>3 DEF Picks
    <2>6. CASE toc[i].desc = "INDEX"
      <3>1. PICK k \in 1..Len(indexScript) : p[k] = i
        BY <2>2, <2>5, <2>6
      <3>2. ASSUME NEW j \in 1..Len(indexScript), indexScript[j] = toc[i] PROVE j = k
        <4>1. p[j] = i
          BY <1>1, <2>5, <3>2, DistinctEntries
        <4>2. ~(j < k) /\ ~(k < j)
          BY <2>5, <3>1, <4>1
        <4> QED
          BY <2>4, <4>2
      <3>3. indexScript[k] = toc[i]
        BY <2>5, <3>1
      <3>4. Copies(indexScript, toc[i]) = 1
        BY <2>4, <3>2, <3>3, OneCopy
      <3> QED
        BY <1>3, <2>6, <3>4
    <2>7. CASE toc[i].desc # "INDEX"
      <3>1. \A j \in DOMAIN indexScript : indexScript[j] # toc[i]
        BY <2>2, <2>4, <2>5, <2>7
      <3>2. Copies(indexScript, toc[i]) = 0
        BY <3>1, NoCopy
      <3> QED
        BY <2>7, <3>2
    <2> QED
      BY <2>6, <2>7
  <1> QED
    BY <1>2, <1>3

(* The schema file holds everything else, once, but the privileges.        *)
LEMMA ScriptOnce ==
  ASSUME IInv, Done, NEW i \in 1..Len(toc)
  PROVE  Copies(script, toc[i]) = IF toc[i].desc \in {"INDEX", "ACL"} THEN 0 ELSE 1
  <1>1. EntriesInv /\ EntryOK(toc[i])
    BY DEF IInv, Done, EntriesInv
  <1>2. script \in Seq(EntryRecords) /\ \E where : Written(where)
    BY ScriptWritten
  <1>3. PICK where : Written(where)
    BY <1>2
  <1>4. DOMAIN script = 1..Len(script)
    BY <1>2, LenProperties
  <1>5. \A k \in 1..Len(script) : /\ where[k] \in 1..Len(toc) /\ script[k] = toc[where[k]]
                                  /\ script[k].section # "none" /\ script[k].desc # "INDEX"
    BY <1>3 DEF Written, Printed
  <1>6. toc[i].section = "none" <=> toc[i].desc = "ACL"
    BY <1>1 DEF EntryOK
  <1>7. CASE toc[i].desc \in {"INDEX", "ACL"}
    <2>1. \A k \in DOMAIN script : script[k] # toc[i]
      BY <1>4, <1>5, <1>6, <1>7
    <2> QED
      BY <1>7, <2>1, NoCopy
  <1>8. CASE toc[i].desc \notin {"INDEX", "ACL"}
    <2>1. PICK k \in 1..Len(script) : where[k] = i
      BY <1>3, <1>6, <1>8 DEF Written, Printed
    <2>2. ASSUME NEW j \in 1..Len(script), script[j] = toc[i] PROVE j = k
      <3>1. where[j] = i
        BY <1>1, <1>5, <2>2, DistinctEntries
      <3> QED
        BY <1>2, <1>3, <2>1, <3>1, WhereOnce
    <2>3. script[k] = toc[i]
      BY <1>5, <2>1
    <2> QED
      BY <1>4, <1>8, <2>2, <2>3, OneCopy
  <1> QED
    BY <1>7, <1>8

(* Both files together.                                                    *)
LEMMA EachWrittenOnce == IInv => WrittenOnce
  <1> SUFFICES ASSUME IInv, Done, NEW i \in DOMAIN toc
               PROVE  /\ Copies(toc, toc[i]) = 1
                      /\ Copies(indexScript, toc[i]) =
                           IF toc[i].desc = "INDEX" /\ request.indexFile THEN 1 ELSE 0
                      /\ Copies(script, toc[i]) =
                           IF toc[i].desc \in {"INDEX", "ACL"} THEN 0 ELSE 1
    BY DEF WrittenOnce
  <1>1. EntriesInv
    BY DEF IInv, Done
  <1>2. DOMAIN toc = 1..Len(toc)
    BY <1>1, LenProperties DEF EntriesInv
  <1>3. \A j \in DOMAIN toc : toc[j] = toc[i] <=> j = i
    BY <1>1, <1>2, DistinctEntries
  <1> QED
    BY <1>2, <1>3, OneCopy, IndexOnce, ScriptOnce

(* Each statement of the archive is in the file it belongs to, once.       *)
THEOREM StatementsWrittenOnce == Spec => []WrittenOnce
  <1>1. IInv => WrittenOnce
    BY EachWrittenOnce
  <1> QED
    BY <1>1, ExportInvariance, PTL

-----------------------------------------------------------------------------
(* Schemas before what is in them.                                         *)

(* The schema of a printed statement has a statement of its own, and the   *)
(* sort placed it in front.                                                *)
LEMMA SchemaBefore ==
  ASSUME IInv, Done, NEW i \in 1..Len(script), NEW n, n = catalog[script[i].of].ns,
         n # None, Kind(n) = "user", n \notin members
  PROVE  \E j \in 1..(i - 1) : script[j].of = n
  <1>1. ReadyInv /\ OrderingInv /\ Unplaced = {} /\ EntriesInv /\ SchemaEntriesInv
        /\ dumped = Len(ordering)
    BY DEF IInv, Done
  <1>2. script \in Seq(EntryRecords) /\ \E where : Written(where)
    BY ScriptWritten
  <1>3. PICK where : Written(where)
    BY <1>2
  <1>4. PICK w \in 1..Len(toc) : w = where[i] /\ script[i] = toc[w] /\ Printed(w)
    BY <1>3 DEF Written
  <1>5. PICK o : o = toc[w].of
    OBVIOUS
  <1>6. toc[w] \in EntryRecords
    BY <1>1, ElementOfSeq DEF EntriesInv
  <1>7. o \in Objects /\ catalog \in Catalogs /\ n = catalog[o].ns
    BY <1>1, <1>4, <1>5, <1>6 DEF ReadyInv, EntryRecords
  <1>8. n \in Own /\ o \notin Roots
    <2>1. n \in Rows({"namespace"})
      BY <1>7, WellFormedFacts
    <2>2. catalog[o].type \notin {"namespace", "extension"}
      BY <1>7, WellFormedFacts
    <2> QED
      BY <2>1, <2>2 DEF Own, UserSchemas, Roots, Rows
  <1>9. Defined(n)
    BY <1>1, <1>4, <1>5, <1>7, <1>8 DEF SchemaEntriesInv
  <1>10. DOMAIN ordering = 1..Len(ordering) /\ Len(ordering) \in Nat
    BY <1>1, LenProperties DEF OrderingInv, PlacedInv
  <1>11. PICK k \in 1..Len(ordering) : ordering[k] = n
    <2>1. n \in made
      BY <1>1, <1>8 DEF ReadyInv, SchemasReady
    <2> QED
      BY <1>1, <1>10, <2>1 DEF Unplaced
  <1>12. SchemaAt(k)
    BY <1>8, <1>11 DEF SchemaAt, Own, UserSchemas, Rows
  <1>13. PICK t \in 1..Len(toc) : toc[t].of = n /\ toc[t].section = "pre"
    BY <1>1, <1>9, <1>11, <1>12 DEF SchemaEntriesInv
  <1>14. PICK l \in 1..Len(ordering) : ordering[l] = o
    <2>1. PICK l \in 1..dumped : toc[w].of = ordering[l]
      BY <1>1 DEF EntriesInv
    <2> QED
      BY <1>1, <1>5, <2>1
  <1>15. k < l
    BY <1>1, <1>8, <1>12, <1>14 DEF OrderingInv, SchemasPlacedInv
  <1>16. PICK j \in 1..Len(script) : where[j] = t
    <2>1. toc[t].desc # "INDEX" /\ Printed(t)
      BY <1>1, <1>13 DEF EntriesInv, EntryOK, Printed
    <2> QED
      BY <1>3, <2>1 DEF Written
  <1>17. script[j] = toc[t] /\ script[j].of = n /\ script[j].section = "pre"
    BY <1>3, <1>13, <1>16 DEF Written
  <1>18. j # i
    <2>1. o # n
      BY <1>8 DEF Own, UserSchemas, Roots, Rows
    <2> QED
      BY <1>4, <1>5, <1>17, <2>1
  <1>19. ~(i < j)
    <2> SUFFICES ASSUME i < j PROVE FALSE
      OBVIOUS
    <2>1. where[i] < where[j]
      BY <1>3, <1>17 DEF Written
    <2>2. w < t
      BY <1>4, <1>16, <2>1
    <2>3. l <= k
      BY <1>1, <1>5, <1>11, <1>13, <1>14, <2>2 DEF EntriesInv
    <2> QED
      BY <1>10, <1>15, <2>3
  <1>20. j \in 1..(i - 1)
    BY <1>18, <1>19
  <1> QED
    BY <1>17, <1>20

(* SchemasCreated follows.                                                 *)
LEMMA SchemasBefore == IInv => SchemasCreated
  <1> SUFFICES ASSUME IInv, Done, NEW i \in DOMAIN script,
                      catalog[script[i].of].ns # None,
                      Kind(catalog[script[i].of].ns) = "user",
                      catalog[script[i].of].ns \notin members
               PROVE  \E j \in 1..(i - 1) : script[j].of = catalog[script[i].of].ns
    BY DEF SchemasCreated
  <1>1. i \in 1..Len(script)
    BY ScriptWritten, LenProperties
  <1> QED
    BY <1>1, SchemaBefore

(* A statement in a schema of the user's comes after the schema's own, for *)
(* every database and every configuration.                                 *)
THEOREM SchemasBeforeContents == Spec => []SchemasCreated
  <1>1. IInv => SchemasCreated
    BY SchemasBefore
  <1> QED
    BY <1>1, ExportInvariance, PTL

-----------------------------------------------------------------------------
(* Foreign keys after the attachments they rely on.                        *)

(* A foreign key depends on all attachments behind its key: what it covers *)
(* is closed, and the tree is the least such set.                          *)
LEMMA TreeCovered ==
  ASSUME ReadyInv, NEW f \in made, catalog[f].type = "fk", ToPartitioned(f),
         NEW under, under = UNION {{Of(a)} \X catalog[a].parents : a \in Attaches},
         NEW keys, keys = KeyIndexes(f) \cap made,
         NEW a \in Attaches, catalog[a].parents \cap (keys \cup Behind(under, keys)) # {}
  PROVE  <<f, a>> \in deps
  <1>1. catalog \in Catalogs /\ made \subseteq Objects /\ KeyInv
    BY DEF ReadyInv
  <1>2. PICK S : Covers(f, S)
    <2>1. f \in made \cap Rows({"fk"})
      BY <1>1 DEF Rows
    <2> QED
      BY <1>1, <2>1 DEF KeyInv
  <1>3. /\ S \subseteq Attaches /\ {f} \X S \subseteq deps
        /\ \A b \in Attaches :
             catalog[b].parents \cap (keys \cup {Of(c) : c \in S}) # {} => b \in S
    BY <1>2 DEF Covers
  <1> DEFINE C == {Of(c) : c \in S}
  <1>4. ASSUME NEW b \in Attaches
        PROVE  b \in Objects /\ Of(b) \in Objects /\ catalog[b].parents \subseteq Objects
    <2>1. b \in Objects /\ catalog[b].type = "index attach"
      BY DEF Attaches, Rows
    <2> QED
      BY <1>1, <2>1, PartFacts, RowFacts DEF Rows
  <1>5. \A d \in under : \E b \in Attaches : d[1] = Of(b) /\ d[2] \in catalog[b].parents
                                             /\ d = <<d[1], d[2]>>
    OBVIOUS
  <1>6. under \subseteq Objects \X Objects
    BY <1>4, <1>5
  <1>7. C \subseteq Objects
    BY <1>3, <1>4
  <1>8. FirstOfPairs(under, keys \cup C) \subseteq C
    <2> SUFFICES ASSUME NEW d \in under, d[2] \in keys \cup C PROVE d[1] \in C
      BY DEF FirstOfPairs
    <2>1. PICK b \in Attaches : d[1] = Of(b) /\ d[2] \in catalog[b].parents
      BY <1>5
    <2>2. b \in S
      BY <1>3, <2>1
    <2> QED
      BY <2>1, <2>2
  <1>9. IsFiniteSet(Objects)
    BY <1>1, CatalogAssumption DEF Objects
  <1> DEFINE D == keys \cup C
  <1>10. D \subseteq Objects /\ keys \subseteq D /\ ClosedUnder(under, D)
    <2>1. keys \subseteq Objects
      BY <1>1
    <2> QED
      BY <1>7, <1>8, <2>1 DEF ClosedUnder
  <1>11. Behind(under, keys) \subseteq D
    <2> HIDE DEF D
    <2> QED
      BY <1>6, <1>9, <1>10, BehindStaysIn
  <1>12. catalog[a].parents \cap D # {}
    BY <1>11
  <1>13. a \in S
    BY <1>3, <1>12
  <1> QED
    BY <1>3, <1>13

(* An attachment is printed before the foreign keys that depend on it.     *)
LEMMA AttachmentFirst ==
  ASSUME IInv, Done, NEW f, catalog[f].type = "fk", NEW a \in Attaches, <<f, a>> \in deps,
         f \in made, NEW i \in 1..Len(script), NEW j \in 1..Len(script),
         script[j].of = f, script[i].of = a
  PROVE  i < j
  <1>1. OrderingInv /\ EntriesInv /\ dumped = Len(ordering)
    BY DEF IInv, Done
  <1>2. script \in Seq(EntryRecords) /\ \E where : Written(where)
    BY ScriptWritten
  <1>3. PICK where : Written(where)
    BY <1>2
  <1>4. /\ where[i] \in 1..Len(toc) /\ script[i] = toc[where[i]]
        /\ where[j] \in 1..Len(toc) /\ script[j] = toc[where[j]]
    BY <1>3 DEF Written
  <1>5. PICK k \in 1..Len(ordering) : ordering[k] = a
    <2>1. \E k \in 1..dumped : toc[where[i]].of = ordering[k]
      BY <1>1, <1>4 DEF EntriesInv
    <2> QED
      BY <1>1, <1>4, <2>1
  <1>6. PICK l \in 1..Len(ordering) : l > k /\ ordering[l] = f
    BY <1>1, <1>5 DEF OrderingInv, DependentsInv
  <1>7. f # a
    BY DEF Attaches, Rows
  <1>8. i # j
    BY <1>7
  <1>9. ~(j < i)
    <2> SUFFICES ASSUME j < i PROVE FALSE
      OBVIOUS
    <2>1. script[j].section = "post"
      BY <1>1, <1>4 DEF EntriesInv, EntryOK
    <2>2. where[j] < where[i]
      BY <1>3, <2>1 DEF Written
    <2>3. l <= k
      <3>1. where[j] <= where[i]
        BY <1>4, <2>2
      <3> QED
        BY <1>1, <1>4, <1>5, <1>6, <3>1 DEF EntriesInv
    <2>4. k \in Nat /\ l \in Nat
      OBVIOUS
    <2> QED
      BY <1>6, <2>3, <2>4
  <1> QED
    BY <1>8, <1>9

(* AttachedBeforeReferenced follows.                                       *)
LEMMA AttachmentsFirst == IInv => AttachedBeforeReferenced
  <1> SUFFICES ASSUME IInv, Done, NEW f \in made, catalog[f].type = "fk", ToPartitioned(f)
               PROVE  LET attach == Rows({"index attach"}) \cap made
                          under  == UNION {{Of(a)} \X catalog[a].parents : a \in attach}
                          keys   == KeyIndexes(f) \cap made
                          tree   == keys \cup Behind(under, keys)
                      IN \A a \in {b \in attach : catalog[b].parents \cap tree # {}} :
                           /\ <<f, a>> \in deps
                           /\ \A i \in DOMAIN script : \A j \in 1..i :
                                ~(script[j].of = f /\ script[i].of = a)
    BY DEF AttachedBeforeReferenced
  <1> DEFINE attach == Rows({"index attach"}) \cap made
             under  == UNION {{Of(a)} \X catalog[a].parents : a \in attach}
             keys   == KeyIndexes(f) \cap made
             tree   == keys \cup Behind(under, keys)
  <1>1. attach = Attaches
    BY DEF Attaches
  <1>2. under = UNION {{Of(a)} \X catalog[a].parents : a \in Attaches}
    BY <1>1
  <1>3. ReadyInv
    BY DEF IInv, Done
  <1>4. DOMAIN script = 1..Len(script) /\ Len(script) \in Nat
    BY ScriptWritten, LenProperties
  <1> HIDE DEF under, attach
  <1>5. ASSUME NEW a \in attach, catalog[a].parents \cap tree # {}
        PROVE  /\ <<f, a>> \in deps
               /\ \A i \in DOMAIN script : \A j \in 1..i :
                    ~(script[j].of = f /\ script[i].of = a)
    <2>1. a \in Attaches
      BY <1>1
    <2>2. <<f, a>> \in deps
      BY <1>2, <1>3, <1>5, <2>1, TreeCovered
    <2>3. ASSUME NEW i \in 1..Len(script), NEW j \in 1..i, script[j].of = f, script[i].of = a
          PROVE  FALSE
      <3>1. j \in 1..Len(script)
        BY <1>4
      <3>2. i < j
        BY <2>1, <2>2, <2>3, <3>1, AttachmentFirst
      <3> QED
        BY <3>2
    <2> QED
      BY <1>4, <2>2, <2>3
  <1> QED
    BY <1>5 DEF under, attach

(* A foreign key to a partitioned table comes after all that is attached   *)
(* to the key it references, at any depth and for every database.          *)
THEOREM AttachmentsBeforeKeys == Spec => []AttachedBeforeReferenced
  <1>1. IInv => AttachedBeforeReferenced
    BY AttachmentsFirst
  <1> QED
    BY <1>1, ExportInvariance, PTL
=============================================================================
