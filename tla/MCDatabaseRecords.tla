------------------------- MODULE MCDatabaseRecords --------------------------
(***************************************************************************)
(* Database on a small instance with one table of two records, so that an  *)
(* UPDATE gives several streams one payload; two OBJECT columns, which     *)
(* share a record's stream; two payloads, to see what a save keeps.        *)
(***************************************************************************)
EXTENDS Database

CONSTANTS T, a, b, k, o, x, y, p, q, sa, sb

Col(name, type, key, nullable, temporary) ==
    [name |-> name, type |-> type, key |-> key, nullable |-> nullable,
     temporary |-> temporary]

MCSchemas == {<<Col(k, "string", TRUE, FALSE, FALSE), Col(o, "binary", FALSE, TRUE, FALSE)>>}
MCAdditions == {Col(y, "string", FALSE, TRUE, FALSE), Col(x, "binary", FALSE, TRUE, FALSE)}
MCStreamKey(t, key) == IF key[1] = a THEN sa ELSE sb
MCStrings == {T, a, b, k, o, x, y, sa, sb}
=============================================================================
