------------------------------ MODULE SqlScript ------------------------------
(***************************************************************************)
(* Importer.executeSqlScript: a script is read line by line, and what the  *)
(* lines up to one that ends with a semicolon hold is one call of the      *)
(* driver.  The importer knows nothing of statements: what a call executes *)
(* depends on where the lines of the statements end.                       *)
(*                                                                         *)
(* A line belongs to one statement (of), or to none if it is a comment;    *)
(* it may have a comment after its text (tail) and may end with a          *)
(* semicolon (ends), which inside a function body or a literal is not the  *)
(* end of its statement.                                                   *)
(***************************************************************************)
EXTENDS Integers, SequencesExt

CONSTANTS
  Scripts,   \* [lines, result]: the lines, what the server says to each statement
  None

(* The lines of a statement follow each other, comment lines aside.        *)
ASSUME ScriptsAssumption ==
  \A s \in Scripts :
    /\ None \notin DOMAIN s.result
    /\ s.lines \in Seq([of : DOMAIN s.result \cup {None}, ends : BOOLEAN, tail : BOOLEAN])
    /\ \A j, k, l \in DOMAIN s.lines :
         j < k /\ k < l /\ s.lines[j].of = s.lines[l].of /\ s.lines[j].of # None
           => s.lines[k].of \in {None, s.lines[j].of}

VARIABLES
  script,    \* the file that is read, one of Scripts, or NoFile
  at,        \* lines read so far
  query,     \* the string builder: the numbers of the lines in it
  runner,    \* "idle", "reading", "ended", "threw", "missing"
  applied    \* history: the statements the server has executed

scriptVars == <<script, at, query, runner, applied>>

Line(k) == script.lines[k]
IsComment(k) == Line(k).of = None
Statements == {script.lines[k].of : k \in DOMAIN script.lines} \ {None}
LinesOf(s) == {k \in DOMAIN script.lines : Line(k).of = s}

NoFile == [lines |-> <<>>, result |-> <<>>]
ScriptInit ==
  /\ script = NoFile
  /\ at = 0 /\ query = <<>> /\ runner = "idle" /\ applied = <<>>

(* importSchemas: the file may be missing.                                 *)
Open ==
  /\ at' = 0 /\ query' = <<>> /\ applied' = <<>>
  /\ script' \in Scripts
  /\ runner' \in {"reading", "missing"}

(* The lines of a call are joined by blanks, so a comment at the end of    *)
(* one of them takes all that follows with it.                             *)
Text(lines) ==
  LET cut == {i \in DOMAIN lines : Line(lines[i]).tail} IN
  IF cut = {} THEN lines ELSE SubSeq(lines, 1, Min(cut))
Called(lines) ==
  LET text == Text(lines)
      upTo[i \in 0..Len(text)] ==
        IF i = 0 THEN <<>>
        ELSE IF i > 1 /\ Line(text[i]).of = Line(text[i - 1]).of THEN upTo[i - 1]
        ELSE Append(upTo[i - 1], Line(text[i]).of)
  IN upTo[Len(text)]

(* What the server makes of a call: a syntax error if a statement is not   *)
(* there as a whole; its statements are one implicit transaction.          *)
Whole(lines) ==
  \A s \in ToSet(Called(lines)) : LinesOf(s) \subseteq ToSet(Text(lines))
Verdict(lines) ==
  IF ~Whole(lines) THEN "other"
  ELSE LET result == [i \in DOMAIN Called(lines) |-> script.result[Called(lines)[i]]]
           failing == {i \in DOMAIN result : result[i] # "ok"}
       IN IF failing = {} THEN "ok" ELSE result[Min(failing)]

SkipComment ==
  /\ runner = "reading" /\ at < Len(script.lines) /\ IsComment(at + 1)
  /\ at' = at + 1
  /\ UNCHANGED <<script, query, runner, applied>>

AppendLine ==
  /\ runner = "reading" /\ at < Len(script.lines)
  /\ ~IsComment(at + 1) /\ ~Line(at + 1).ends
  /\ at' = at + 1 /\ query' = Append(query, at + 1)
  /\ UNCHANGED <<script, runner, applied>>

(* An undefined table (42P01) is logged and the script goes on; any other  *)
(* error ends the import, with the calls before it in effect.              *)
Kept(lines) == lines
Emptied(lines) == <<>>
Ignored == {"42P01"}
Execute ==
  /\ runner = "reading" /\ at < Len(script.lines)
  /\ ~IsComment(at + 1) /\ Line(at + 1).ends
  /\ LET lines == Append(query, at + 1) IN
       /\ at' = at + 1
       /\ query' = Emptied(lines)
       /\ applied' = IF Verdict(lines) = "ok" THEN applied \o Called(lines) ELSE applied
       /\ runner' = IF Verdict(lines) \in {"ok"} \cup Ignored THEN "reading" ELSE "threw"
  /\ UNCHANGED script

(* End of file: what is left in the builder is never executed.             *)
Eof ==
  /\ runner = "reading" /\ at = Len(script.lines)
  /\ runner' = "ended"
  /\ UNCHANGED <<script, at, query, applied>>

Close ==
  /\ script' = NoFile
  /\ at' = 0 /\ query' = <<>> /\ runner' = "idle" /\ applied' = <<>>

ScriptStep == SkipComment \/ AppendLine \/ Execute \/ Eof

-----------------------------------------------------------------------------

(* Tidy scripts: no comment behind text in a line, and the last line of    *)
(* every statement ends with its semicolon.                                *)
Tidy ==
  \A k \in DOMAIN script.lines :
    /\ ~Line(k).tail
    /\ (~IsComment(k) /\ \A l \in LinesOf(Line(k).of) : l <= k) => Line(k).ends

(* A statement the import stops at: the server rejects it, or a line       *)
(* before its last ends with a semicolon, as in the body of a function.    *)
Broken ==
  {s \in Statements :
     \/ script.result[s] \notin {"ok", "42P01"}
     \/ \E k, l \in LinesOf(s) : k < l /\ Line(k).ends}
Before(s, t) == \A k \in LinesOf(s), l \in LinesOf(t) : k < l
Due ==
  {s \in Statements \ Broken :
     script.result[s] = "ok" /\ \A t \in Broken : Before(s, t)}

(* What an import leaves in the database: of a tidy script, however its    *)
(* statements are spread over lines and comments, exactly the statements   *)
(* before the one that stops it, each once and in order, those aside that  *)
(* name an undefined table; and when it returns normally, nothing stopped  *)
(* it.  A comment behind the text of a line, or a last line without        *)
(* semicolon, loses statements without an error.                           *)
ScriptApplied ==
  Tidy /\ runner \in {"ended", "threw"} =>
    /\ ToSet(applied) = Due
    /\ \A i, j \in DOMAIN applied : i < j => Before(applied[i], applied[j])
    /\ runner = "ended" => Broken = {}
=============================================================================
