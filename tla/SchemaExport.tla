---------------------------- MODULE SchemaExport ----------------------------
(***************************************************************************)
(* main of app/pg_ozerki/pg_ozerki.c from the reading of the schema to the *)
(* two scripts it writes: getSchemaData (module SchemaSelection), the sort *)
(* with the loops it repairs, dumpDumpableObject for each object in order  *)
(* (module SchemaEntries), the choice and printing of the archive entries, *)
(* the post-data statements appended to the schema file, and the index     *)
(* file.                                                                   *)
(*                                                                         *)
(* How the loops are found one by one, and that this ends, is the subject  *)
(* of module DumpSort, and that the sort is right that of module TopoSort; *)
(* here Repair is their outcome, for catalogues in which only views,       *)
(* materialized views and functions need a post-data object.               *)
(***************************************************************************)
EXTENDS SchemaEntries

CONSTANT Orders  \* orders of the names of the objects, as object -> place

VARIABLES
  names,       \* the order of this run
  stage,       \* "read", "sort", "dump", "mark", "restore", "append", "indexes", "done"
  ordering,    \* the objects the sort has placed, from the last one backwards
  dumped,      \* how many of them have been dumped, from the first one on
  toc,         \* the archive's table of contents
  script,      \* entries printed to the schema file, in order
  indexScript  \* entries printed to the index file

exportVars == <<names, stage, ordering, dumped, toc, script, indexScript>>
vars == <<selectionVars, postponed, exportVars>>

Init ==
  /\ SelectionInit
  /\ postponed = {} /\ names \in Orders /\ stage = "read"
  /\ ordering = <<>> /\ dumped = 0 /\ toc = <<>> /\ script = <<>> /\ indexScript = <<>>

Read == stage = "read" /\ SelectionNext /\ UNCHANGED <<postponed, exportVars>>

-----------------------------------------------------------------------------
(* The objects with a chain of dependencies that leads to one of these.    *)
Behind(pairs, these) ==
  LET Before(seen) == {d[1] : d \in {e \in pairs : e[2] \in seen}}
      grow[seen \in SUBSET Objects] ==
        IF Before(seen) \subseteq seen THEN seen ELSE grow[seen \cup Before(seen)]
  IN grow[Before(these)]

(* Parts of a table, view or domain that its own statement contains.       *)
Parts == {p \in made \ separate :
            /\ catalog[p].type \in {"rule", "constraint", "attrdef"}
            /\ <<Of(p), p>> \in deps}

(* A part in a loop with more than its owner is written on its own, unless *)
(* it is the query of a materialized view.                                 *)
Looped(p) == /\ Kind(Of(p)) # "matview"
             /\ p \in Behind(deps \ {<<p, Of(p)>>}, {Of(p)})

(* Types and their input and output functions need one another.            *)
TypeFuncLoops == {d \in deps : /\ catalog[d[1]].type = "type"
                               /\ catalog[d[2]].type = "func"
                               /\ <<d[2], d[1]>> \in deps}

ShellOf(d) == {s \in made : catalog[s].type = "shell" /\ Of(s) = d[1]}

(* The dependencies once every loop within a section is repaired.          *)
Unlooped(apart) ==
  LET inline == Parts \ apart
      post   == Rows({"post boundary"})
  IN (deps \ ({<<p, Of(p)>> : p \in inline} \cup {<<Of(p), p>> : p \in apart}
              \cup {<<d[2], d[1]>> : d \in TypeFuncLoops}))
     \cup {<<p, Of(p)>> : p \in apart}
     \cup {p \in apart : catalog[p].type # "attrdef"} \X post
     \cup UNION {{d[2]} \X ShellOf(d) : d \in TypeFuncLoops}

(* An object that still needs a post-data one no longer comes before the   *)
(* data, and is postponed if it is a materialized view, or a function that *)
(* does not go by way of one.                                              *)
Repair ==
  /\ stage = "read" /\ Selected
  /\ LET apart == {p \in Parts : Looped(p)}
         fixed == Unlooped(apart)
         late  == Behind(fixed, Rows({"post boundary"})) \cap Rows(PreTypes)
         views == {m \in late : Kind(m) = "matview"}
         funcs == (late \cap Rows({"func"}))
                    \ Behind({d \in fixed : catalog[d[1]].type \notin Boundaries}, views)
         Callers(s) == {d \in TypeFuncLoops : s \in ShellOf(d) /\ dump[d[2]] # {}}
     IN /\ separate' = separate \cup apart
        /\ deps' = fixed \ (Rows({"pre boundary"}) \X late)
        /\ postponed' = views \cup funcs
        /\ dump' = [s \in Objects |->
             dump[s] \cup UNION {dump[d[2]] \cup {"DEFINITION"} : d \in Callers(s)}]
  /\ stage' = "sort"
  /\ UNCHANGED <<catalog, request, step, members, made, contains, interesting,
                 names, ordering, dumped, toc, script, indexScript>>

-----------------------------------------------------------------------------
(* DOTypeNameCompare: by type first, then by name.                         *)
TypePriorities == <<
  {"namespace"}, {"language"}, {"collation"}, {"transform"}, {"extension"},
  {"type", "shell"}, {"cast"}, {"func"}, {"agg"}, {"access method"},
  {"operator"}, {"opclass", "opfamily"}, {"conversion"}, {"parser"},
  {"template"}, {"dictionary"}, {"text config"}, {"fdw"}, {"server"},
  {"table"}, {"table attach"}, {"attrdef"}, {"pre boundary"}, {"table data"},
  {"post boundary"}, {"constraint"}, {"index"}, {"index attach"},
  {"statistics"}, {"rule"}, {"trigger"}, {"fk"}, {"policy"}, {"publication"},
  {"publication table"}, {"publication schema"}, {"subscription"},
  {"default acl"}, {"event trigger"}>>

Priority ==
  [t \in Types |-> CHOOSE i \in DOMAIN TypePriorities : t \in TypePriorities[i]]

ComesAfter(o, p) ==
  LET a == Priority[catalog[o].type]
      b == Priority[catalog[p].type]
  IN a > b \/ (a = b /\ names[o] > names[p])

(* TopoSort works backwards: of the objects no unplaced object depends on, *)
(* the last one of the input goes in front of those placed before.         *)
Unplaced == made \ {ordering[i] : i \in DOMAIN ordering}
Heap     == Unplaced \ {d[2] : d \in {e \in deps : e[1] \in Unplaced}}

SortNext ==
  /\ stage = "sort"
  /\ \E heap \in {Heap} : \E o \in heap :
       /\ \A p \in heap : ~ComesAfter(p, o)
       /\ ordering' = <<o>> \o ordering
  /\ UNCHANGED <<selectionVars, postponed, names, stage, dumped, toc, script, indexScript>>

AllSorted ==
  /\ stage = "sort" /\ Unplaced = {}
  /\ stage' = "dump"
  /\ UNCHANGED <<selectionVars, postponed, names, ordering, dumped, toc, script, indexScript>>

(* dumpDumpableObject drops the components the object does not have.       *)
DumpNext ==
  /\ stage = "dump" /\ dumped < Len(ordering)
  /\ LET o == ordering[dumped + 1] IN
       /\ dump' = [dump EXCEPT ![o] = Requested(o)]
       /\ toc' = toc \o EntriesOf(o)
  /\ dumped' = dumped + 1
  /\ UNCHANGED <<catalog, request, step, members, made, contains, interesting, separate,
                 deps, postponed, names, stage, ordering, script, indexScript>>

AllDumped ==
  /\ stage = "dump" /\ dumped = Len(ordering)
  /\ stage' = "mark"
  /\ UNCHANGED <<selectionVars, postponed, names, ordering, dumped, toc, script, indexScript>>

-----------------------------------------------------------------------------
(* Entries without a section belong to the one they are found in.          *)
CurSection(i) ==
  LET before == {j \in 1..i : toc[j].section # "none"}
  IN IF before = {} THEN "pre"
     ELSE toc[CHOOSE j \in before : \A k \in before : k <= j].section

(* dumpSections comes out as the bits of the pre-data and data sections.   *)
Required(i) == CurSection(i) \in {"pre", "data"}

ProcessArchiveRestoreOptions ==
  /\ stage = "mark" /\ stage' = "restore"
  /\ toc' = [i \in DOMAIN toc |-> [toc[i] EXCEPT !.required = Required(i)]]
  /\ UNCHANGED <<selectionVars, postponed, names, ordering, dumped, script, indexScript>>

RestorePass(e) ==
  CASE e.desc \in {"ACL", "DEFAULT ACL"} -> "acl"
    [] e.desc = "EVENT TRIGGER"          -> "post acl"
    [] OTHER                             -> "main"

(* The entries of S, in their order (SelectSeq, with a set for the test).  *)
Chosen(entries, S) ==
  LET chosen[n \in 0..Len(entries)] ==
        IF n = 0 THEN <<>>
        ELSE IF entries[n] \in S THEN Append(chosen[n - 1], entries[n])
        ELSE chosen[n - 1]
  IN chosen[Len(entries)]

Entries == {toc[i] : i \in DOMAIN toc}

(* The loops over the other two passes print nothing.                      *)
RestoreArchive ==
  /\ stage = "restore" /\ stage' = "append"
  /\ script' = Chosen(toc, {e \in Entries : e.required /\ RestorePass(e) = "main"})
  /\ UNCHANGED <<selectionVars, postponed, names, ordering, dumped, toc, indexScript>>

IsIndex(e) == e.section = "post" /\ e.desc = "INDEX"

(* Mutant: the test for INDEX is missing.                                  *)
AllAppended(e) == e.section = "post"

Appended(e) == e.section = "post" /\ ~IsIndex(e)

AppendPostData ==
  /\ stage = "append" /\ stage' = "indexes"
  /\ script' = script \o Chosen(toc, {e \in Entries : Appended(e)})
  /\ UNCHANGED <<selectionVars, postponed, names, ordering, dumped, toc, indexScript>>

WriteIndexes ==
  /\ stage = "indexes" /\ stage' = "done"
  /\ indexScript' = IF request.indexFile THEN Chosen(toc, {e \in Entries : IsIndex(e)}) ELSE <<>>
  /\ UNCHANGED <<selectionVars, postponed, names, ordering, dumped, toc, script>>

Next == \/ Read \/ Repair \/ SortNext \/ AllSorted \/ DumpNext \/ AllDumped
        \/ ProcessArchiveRestoreOptions \/ RestoreArchive
        \/ AppendPostData \/ WriteIndexes

Spec == Init /\ [][Next]_vars /\ WF_vars(Next)

-----------------------------------------------------------------------------
Done == stage = "done"

(* What the database needs to run each statement, whatever the exporter    *)
(* recorded: what pg_depend says of the object and of the parts its text   *)
(* contains. A function that a type in turn needs is content with a shell. *)
Requires ==
  LET direct == UNION {{o} \X catalog[o].needs : o \in made}
      mutual == {d \in direct : catalog[d[2]].type = "type" /\ <<d[2], d[1]>> \in direct}
      within == {p \in made \ separate : catalog[p].type \in {"rule", "constraint", "attrdef"}}
      apart  == {p \in made \ within : Of(p) # None /\ catalog[p].type # "shell"}
  IN (direct \ (mutual \cup {<<p, Of(p)>> : p \in within}))
     \cup {<<Of(p), p>> : p \in within} \cup {<<p, Of(p)>> : p \in apart}
     \cup UNION {{d[1]} \X ShellOf(<<d[2], d[1]>>) : d \in mutual}
     \cup UNION {{a} \X catalog[Of(a)].parents : a \in Rows({"table attach"})}
     \cup UNION {{a} \X catalog[a].parents : a \in Rows({"index attach"})}

(* One repair of the loops is enough: the sort that follows it never has to *)
(* leave out an object.                                                    *)
LoopsRepaired == stage = "sort" /\ Heap = {} => Unplaced = {}

(* The sort succeeds, and the schema file can be run from top to bottom:   *)
(* no statement comes before one it needs, through any number of others.   *)
(* The exception is known: a pre-data statement that needs a postponed     *)
(* object without being one.                                               *)
ScriptOrder ==
  /\ LoopsRepaired
  /\ Done => \E required \in {Requires} :
               LET stranded == Behind(required, postponed) IN
               \A j \in DOMAIN script :
                 LET needing == Behind(required, {script[j].of}) IN
                 \A i \in 1..(j - 1) :
                   script[i].of \in needing =>
                     script[i].section = "pre" /\ script[i].of \in stranded

Copies(file, e) == Cardinality({i \in DOMAIN file : file[i] = e})

(* Each statement of the archive, privileges apart, is in one of the files *)
(* exactly once; plain indexes are in the index file and nowhere else.     *)
WrittenOnce ==
  Done => \A i \in DOMAIN toc :
            /\ Copies(toc, toc[i]) = 1
            /\ Copies(indexScript, toc[i]) =
                 IF toc[i].desc = "INDEX" /\ request.indexFile THEN 1 ELSE 0
            /\ Copies(script, toc[i]) =
                 IF toc[i].desc \in {"INDEX", "ACL"} THEN 0 ELSE 1

(* A statement in a schema of the user's comes after the one that creates  *)
(* the schema, which is there even when the export is limited to the       *)
(* tables of a query. A schema of an extension comes with the extension.   *)
SchemasCreated ==
  Done => \A i \in DOMAIN script :
            LET n == catalog[script[i].of].ns IN
            (n # None /\ Kind(n) = "user" /\ n \notin members) =>
              \E j \in 1..(i - 1) : script[j].of = n

(* A foreign key to a partitioned table depends on everything the export   *)
(* attaches to the key it references, that is on the indexes of the        *)
(* partitions at any depth, and is created after it.                       *)
AttachedBeforeReferenced ==
  Done => \A f \in made :
            LET attach == Rows({"index attach"}) \cap made
                under  == UNION {{Of(a)} \X catalog[a].parents : a \in attach}
                keys   == KeyIndexes(f) \cap made
                tree   == keys \cup Behind(under, keys)
            IN (catalog[f].type = "fk" /\ ToPartitioned(f)) =>
                 \A a \in {b \in attach : catalog[b].parents \cap tree # {}} :
                   /\ <<f, a>> \in deps
                   /\ \A i \in DOMAIN script : \A j \in 1..i :
                        ~(script[j].of = f /\ script[i].of = a)
=============================================================================
