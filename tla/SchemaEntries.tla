--------------------------- MODULE SchemaEntries ---------------------------
(***************************************************************************)
(* dumpDumpableObject of app/pg_ozerki/dump.c and the dump functions it    *)
(* calls: the table-of-contents entries the exporter makes of one object,  *)
(* in order. An entry is kept as its object, description and section; the  *)
(* SQL text is abstracted, and is never empty. Comments and security       *)
(* labels are not written (their query returns early in every run).        *)
(***************************************************************************)
EXTENDS SchemaSelection

VARIABLE postponed  \* functions and materialized views moved past the data

(* required is set later, when the archive decides what to restore.        *)
Entry(o, desc, section) ==
  [of |-> o, desc |-> desc, section |-> section, required |-> FALSE]

(* The components an object has at all; the others are never dumped.       *)
Components(o) ==
  LET type == catalog[o].type IN
  {"DEFINITION"}
  \cup (IF Is(o, "acl") \/ type = "default acl" \/ Kind(o) = "public"
          THEN {"ACL"} ELSE {})
  \cup (IF type \in {"table", "table data"} THEN {"DATA"} ELSE {})
  \cup (IF type = "server" THEN {"USERMAP"} ELSE {})

Requested(o) == dump[o] \cap Components(o)

Statement(o, desc, section) ==
  IF Defined(o) THEN <<Entry(o, desc, section)>> ELSE <<>>

(* GRANT and REVOKE commands, when the privileges are not the initial ones. *)
Privileges(o) ==
  IF "ACL" \in Requested(o) /\ Is(o, "granted")
    THEN <<Entry(o, "ACL", "none")>> ELSE <<>>

-----------------------------------------------------------------------------
(* Schemas, extensions, types.                                             *)

(* The entry of schema public only says that it exists.                    *)
DumpNamespace(o) == Statement(o, "SCHEMA", "pre") \o Privileges(o)

DumpExtension(o) ==
  IF request.noExts THEN <<>> ELSE Statement(o, "EXTENSION", "pre")

DumpEnumType(o)  == Statement(o, "TYPE", "pre") \o Privileges(o)
DumpRangeType(o) == Statement(o, "TYPE", "pre") \o Privileges(o)
DumpUndefinedType(o) == Statement(o, "TYPE", "pre") \o Privileges(o)
DumpBaseType(o)  == Statement(o, "TYPE", "pre") \o Privileges(o)
DumpDomain(o)    == Statement(o, "DOMAIN", "pre") \o Privileges(o)
DumpCompositeType(o) == Statement(o, "TYPE", "pre") \o Privileges(o)

(* Row types and array types come with the object they belong to.          *)
DumpType(o) ==
  CASE Kind(o) = "base"      -> DumpBaseType(o)
    [] Kind(o) = "domain"    -> DumpDomain(o)
    [] Kind(o) = "composite" -> DumpCompositeType(o)
    [] Kind(o) = "enum"      -> DumpEnumType(o)
    [] Kind(o) = "range"     -> DumpRangeType(o)
    [] Kind(o) = "pseudo" /\ Is(o, "undefined") -> DumpUndefinedType(o)
    [] OTHER                 -> <<>>

DumpShellType(o) == Statement(o, "SHELL TYPE", "pre")

-----------------------------------------------------------------------------
(* Languages, functions, and what is built from functions.                 *)

DumpProcLang(o) ==
  Statement(o, "PROCEDURAL LANGUAGE", "pre")
    \o (IF Is(o, "trusted") THEN Privileges(o) ELSE <<>>)

(* Mutant: the postponed mark is not looked at.                            *)
DumpFuncPreData(o) == Statement(o, "FUNCTION", "pre") \o Privileges(o)

DumpFunc(o) ==
  Statement(o, "FUNCTION", IF o \in postponed THEN "post" ELSE "pre")
    \o Privileges(o)

DumpCast(o)      == Statement(o, "CAST", "pre")
DumpTransform(o) == Statement(o, "TRANSFORM", "pre")

(* An operator that is only declared has nothing to create.                *)
DumpOpr(o) == IF Is(o, "undefined") THEN <<>> ELSE Statement(o, "OPERATOR", "pre")

DumpAccessMethod(o) == Statement(o, "ACCESS METHOD", "pre")
DumpOpclass(o)      == Statement(o, "OPERATOR CLASS", "pre")
DumpOpfamily(o)     == Statement(o, "OPERATOR FAMILY", "pre")
DumpCollation(o)    == Statement(o, "COLLATION", "pre")
DumpConversion(o)   == Statement(o, "CONVERSION", "pre")
DumpAgg(o)          == Statement(o, "AGGREGATE", "pre") \o Privileges(o)

DumpTSParser(o)     == Statement(o, "TEXT SEARCH PARSER", "pre")
DumpTSDictionary(o) == Statement(o, "TEXT SEARCH DICTIONARY", "pre")
DumpTSTemplate(o)   == Statement(o, "TEXT SEARCH TEMPLATE", "pre")
DumpTSConfig(o)     == Statement(o, "TEXT SEARCH CONFIGURATION", "pre")

-----------------------------------------------------------------------------
(* Foreign data and default privileges.                                    *)

DumpForeignDataWrapper(o) ==
  Statement(o, "FOREIGN DATA WRAPPER", "pre") \o Privileges(o)

DumpUserMappings(o) ==
  IF "USERMAP" \in Requested(o) /\ Is(o, "mapped")
    THEN <<Entry(o, "USER MAPPING", "pre")>> ELSE <<>>

DumpForeignServer(o) ==
  Statement(o, "SERVER", "pre") \o Privileges(o) \o DumpUserMappings(o)

DumpDefaultACL(o) ==
  IF "ACL" \in Requested(o) THEN <<Entry(o, "DEFAULT ACL", "post")>> ELSE <<>>

-----------------------------------------------------------------------------
(* Tables and their parts.                                                 *)

(* The text holds the columns and every part that is not separate.         *)
DumpTableSchema(o) ==
  LET desc == CASE Kind(o) = "view"    -> "VIEW"
                [] Kind(o) = "matview" -> "MATERIALIZED VIEW"
                [] Kind(o) = "foreign" -> "FOREIGN TABLE"
                [] OTHER               -> "TABLE"
  IN Statement(o, desc, IF o \in postponed THEN "post" ELSE "pre")

(* dumpSequence is commented out: a sequence has at most its privileges.   *)
DumpTable(o) ==
  (IF Kind(o) = "sequence" THEN <<>> ELSE DumpTableSchema(o)) \o Privileges(o)

DumpTableAttach(o) == <<Entry(o, "TABLE ATTACH", "pre")>>

DumpAttrDef(o) ==
  IF o \in separate THEN Statement(o, "DEFAULT", "pre") ELSE <<>>

(* The index of a constraint is created with it.                           *)
BacksConstraint(i) == \E c \in Rows({"constraint"}) \cap made : i \in catalog[c].parents

DumpIndex(o) == IF BacksConstraint(o) THEN <<>> ELSE Statement(o, "INDEX", "post")

DumpIndexAttach(o) ==
  IF Defined(Of(o)) THEN <<Entry(o, "INDEX ATTACH", "post")>> ELSE <<>>

DumpStatisticsExt(o) == Statement(o, "STATISTICS", "post")

(* Checks that are not separate are in the text of their table or domain;  *)
(* those a table inherits come from its parent.                            *)
DumpConstraint(o) ==
  IF catalog[o].type = "fk" THEN Statement(o, "FK CONSTRAINT", "post")
  ELSE IF Kind(o) \in {"p", "u", "x"} THEN Statement(o, "CONSTRAINT", "post")
  ELSE IF o \in separate /\ ~Is(o, "inherited")
         THEN Statement(o, "CHECK CONSTRAINT", "post")
  ELSE <<>>

DumpTrigger(o) == Statement(o, "TRIGGER", "post")
DumpEventTrigger(o) == Statement(o, "EVENT TRIGGER", "post")

DumpRule(o) == IF o \in separate THEN Statement(o, "RULE", "post") ELSE <<>>

DumpPolicy(o) ==
  Statement(o, IF Kind(o) = "rls" THEN "ROW SECURITY" ELSE "POLICY", "post")

-----------------------------------------------------------------------------
(* Publications and subscriptions.                                         *)

DumpPublication(o)      == Statement(o, "PUBLICATION", "post")
DumpPublicationTable(o) == Statement(o, "PUBLICATION TABLE", "post")
DumpPublicationNamespace(o) ==
  Statement(o, "PUBLICATION TABLES IN SCHEMA", "post")
DumpSubscription(o)     == Statement(o, "SUBSCRIPTION", "post")

-----------------------------------------------------------------------------
(* Table data has no case in the switch: the exporter writes none. The two *)
(* boundaries are never dumped.                                            *)
EntriesOf(o) ==
  LET type == catalog[o].type IN
  IF Requested(o) = {} THEN <<>> ELSE
  CASE type = "namespace"         -> DumpNamespace(o)
    [] type = "extension"         -> DumpExtension(o)
    [] type = "type"              -> DumpType(o)
    [] type = "shell"             -> DumpShellType(o)
    [] type = "func"              -> DumpFunc(o)
    [] type = "agg"               -> DumpAgg(o)
    [] type = "operator"          -> DumpOpr(o)
    [] type = "access method"     -> DumpAccessMethod(o)
    [] type = "opclass"           -> DumpOpclass(o)
    [] type = "opfamily"          -> DumpOpfamily(o)
    [] type = "collation"         -> DumpCollation(o)
    [] type = "conversion"        -> DumpConversion(o)
    [] type = "table"             -> DumpTable(o)
    [] type = "table attach"      -> DumpTableAttach(o)
    [] type = "attrdef"           -> DumpAttrDef(o)
    [] type = "index"             -> DumpIndex(o)
    [] type = "index attach"      -> DumpIndexAttach(o)
    [] type = "statistics"        -> DumpStatisticsExt(o)
    [] type = "rule"              -> DumpRule(o)
    [] type = "trigger"           -> DumpTrigger(o)
    [] type = "event trigger"     -> DumpEventTrigger(o)
    [] type \in {"constraint", "fk"} -> DumpConstraint(o)
    [] type = "language"          -> DumpProcLang(o)
    [] type = "cast"              -> DumpCast(o)
    [] type = "transform"         -> DumpTransform(o)
    [] type = "parser"            -> DumpTSParser(o)
    [] type = "dictionary"        -> DumpTSDictionary(o)
    [] type = "template"          -> DumpTSTemplate(o)
    [] type = "text config"       -> DumpTSConfig(o)
    [] type = "fdw"               -> DumpForeignDataWrapper(o)
    [] type = "server"            -> DumpForeignServer(o)
    [] type = "default acl"       -> DumpDefaultACL(o)
    [] type = "policy"            -> DumpPolicy(o)
    [] type = "publication"       -> DumpPublication(o)
    [] type = "publication table" -> DumpPublicationTable(o)
    [] type = "publication schema" -> DumpPublicationNamespace(o)
    [] type = "subscription"      -> DumpSubscription(o)
    [] OTHER                      -> <<>>
=============================================================================
