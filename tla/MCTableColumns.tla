---------------------------- MODULE MCTableColumns ----------------------------
(***************************************************************************)
(* Small tables, one per way in which keys and foreign keys meet, and      *)
(* parents loaded in one or two batches, whole or with a short key column. *)
(***************************************************************************)
EXTENDS TableColumns

Key(type, cols) == [type |-> type, cols |-> cols, to |-> <<>>]
Fk(cols, to) == [type |-> "FK", cols |-> cols, to |-> to]
Both == <<"p1", "p2">>

None(cols, none) == [c \in cols |-> none]
Plain(cols, constraints, count) ==
  [cols |-> cols, constraints |-> constraints, count |-> count, nulls |-> 0,
   distinct |-> {}, common |-> None(cols, {}), needed |-> None(cols, <<>>)]

MCTables ==
  LET a == {"a"}  ab == {"a", "b"}  abc == {"a", "b", "c"}
      needs(c, v) == [d \in ab |-> IF d = c THEN v ELSE <<>>]
  IN
  { \* a key and a foreign key that do not meet, and another column
    Plain({"a", "b", "c", "d"}, <<Key("PK", <<"a">>), Fk(<<"b", "c">>, Both)>>, 3),
    \* a key that is a foreign key, and other tables refer to it
    [Plain(ab, <<Key("PK", <<"a", "b">>), Fk(<<"a", "b">>, Both)>>, 3)
       EXCEPT !.needed = needs("a", <<1, 3>>)],
    \* the key is the first column of the foreign key
    Plain(ab, <<Key("PK", <<"a">>), Fk(<<"a", "b">>, Both)>>, 2),
    Plain(ab, <<Key("PK", <<"a">>), Fk(<<"a", "b">>, Both)>>, 3),
    \* a key and a foreign key that share a column
    Plain(abc, <<Key("PK", <<"a", "b">>), Fk(<<"b", "c">>, Both)>>, 2),
    \* one-to-one keys of one column, which may be NULL or have common values
    Plain(a, <<Key("PK", <<"a">>), Fk(<<"a">>, <<"p1">>)>>, 3),
    [Plain(a, <<Key("UNIQUE", <<"a">>), Fk(<<"a">>, <<"p1">>)>>, 3) EXCEPT !.nulls = 1],
    [Plain(a, <<Key("UNIQUE", <<"a">>), Fk(<<"a">>, <<"p1">>)>>, 3) EXCEPT !.common["a"] = {1}],
    \* two foreign keys on one column
    Plain(ab, <<Key("PK", <<"b">>), Fk(<<"a">>, <<"p1">>), Fk(<<"a">>, <<"p2">>)>>, 2),
    \* a foreign key whose values happen to be distinct, and one with
    \* common values and NULLs
    [Plain(a, <<Fk(<<"a">>, <<"p1">>)>>, 3) EXCEPT !.distinct = a],
    [Plain(ab, <<Fk(<<"a">>, <<"p1">>)>>, 3)
       EXCEPT !.nulls = 1, !.common["a"] = {9}],
    \* keys of two columns that other tables refer to
    [Plain(ab, <<Key("UNIQUE", <<"a", "b">>)>>, 4)
       EXCEPT !.needed = needs("a", <<11, 12, 13>>), !.common["b"] = {9}],
    [Plain(ab, <<Key("UNIQUE", <<"a", "b">>)>>, 3)
       EXCEPT !.needed = [c \in ab |-> <<11, 12, 13>>]] }

Batch(ids, keys) == [ids |-> ids, keys |-> keys]
MCParentRuns ==
  { <<>>, <<Batch(<<1>>, 1)>>, <<Batch(<<1, 2>>, 2), Batch(<<2, 3>>, 2)>>,
    <<Batch(<<1, 2>>, 2), Batch(<<3, 4>>, 2)>>,
    <<Batch(<<1, 2>>, 1), Batch(<<3, 4>>, 2)>>,
    <<Batch(<<1, 2>>, 2), Batch(<<3, 4>>, 1)>> }
MCFresh == {21, 22}
=============================================================================
