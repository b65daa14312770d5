------------------------------ MODULE MCPipeline ------------------------------
(***************************************************************************)
(* Scripts of three statements over up to seven lines: a comment line, a   *)
(* line inside a statement that ends with a semicolon, a comment behind a  *)
(* line, a last line without semicolon; each of the first two is accepted, *)
(* names an undefined table, or is rejected.                               *)
(***************************************************************************)
EXTENDS Pipeline

Text1(s, ends, tail) == [of |-> s, ends |-> ends, tail |-> tail]
Comment == [of |-> None, ends |-> FALSE, tail |-> FALSE]
Forms(s) ==
  { <<Text1(s, TRUE, FALSE)>>, <<Text1(s, FALSE, FALSE)>>, <<Text1(s, FALSE, TRUE)>>,
    <<Text1(s, FALSE, FALSE), Text1(s, TRUE, FALSE)>>,
    <<Text1(s, TRUE, FALSE), Text1(s, TRUE, FALSE)>>,
    <<Text1(s, FALSE, FALSE), Comment, Text1(s, TRUE, FALSE)>>,
    <<Text1(s, FALSE, TRUE), Text1(s, TRUE, FALSE)>> }
LastLines == <<Comment, Text1("s3", TRUE, FALSE)>>
Results == {"ok", "42P01", "other"}
MCScripts ==
  {[lines |-> a \o b \o LastLines, result |-> [s1 |-> r, s2 |-> q, s3 |-> "ok"]] :
     a \in Forms("s1"), b \in Forms("s2"), r, q \in Results}
=============================================================================
