----------------------------- MODULE MCDatabase -----------------------------
(***************************************************************************)
(* Database on a small instance: two tables whose records may share a      *)
(* stream name, which a user may take as well; persistent and temporary    *)
(* tables, columns and records; a text that is also a stream's name, so    *)
(* that a string has persistent and other references at once.              *)
(***************************************************************************)
EXTENDS Database

CONSTANTS T, U, a, k, o, x, p, s

Col(name, type, key, nullable, temporary) ==
    [name |-> name, type |-> type, key |-> key, nullable |-> nullable,
     temporary |-> temporary]

KeyCol == Col(k, "string", TRUE, FALSE, FALSE)
ObjectCol == Col(o, "binary", FALSE, TRUE, FALSE)
TempCol == Col(x, "string", FALSE, TRUE, TRUE)
TempKeyCol == Col(k, "string", TRUE, FALSE, TRUE)

MCSchemas == {<<KeyCol, ObjectCol>>, <<TempKeyCol>>}
MCAdditions == {TempCol}
MCTableNames == {T, U}
MCTexts == {a}
MCUserStreams == {s}
MCStrings == {T, U, a, k, o, x, s}
MCStreamKey(t, key) == s
MCHandles == {1, 2, 3}
MCPayloads == {p}
=============================================================================
