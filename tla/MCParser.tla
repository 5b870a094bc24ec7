------------------------------ MODULE MCParser ------------------------------
(***************************************************************************)
(* Parser on texts that open in one of a few ways and go on with the       *)
(* lexemes that matter there, for as long as each statement needs.         *)
(***************************************************************************)
EXTENDS Parser

MCLetters == {"a", "b"}
MCSpaces == {" "}

Words(ks) == {<<" ", k>> : k \in ks}
Chars(cs) == {<<c>> : c \in cs}
Name == <<" ", "a">>

MCOpenings == <<
    \* Groups and precedence.
    [text |-> <<"DELETE", " ", "FROM", " ", "a", " ", "WHERE">>, growth |-> 9,
     lexemes |-> {<<" ", "a", "=", "?">>} \cup Words({"AND", "OR"}) \cup Chars({"(", ")"})],
    \* Comparisons, columns, names and the scanner.
    [text |-> <<"SELECT", "*", "FROM", " ", "a", " ", "WHERE">>, growth |-> 5,
     lexemes |-> {Name, <<" ", "b">>, <<Backtick, "SELECT", Backtick>>, <<Backtick>>,
                  <<"'", "a", "'">>, <<"'", "'">>}
                 \cup Words({"IS", "NOT", "NULL"})
                 \cup Chars({"a", "IS", ".", "=", "<", ">", "-", "9", "?", "#", "'"})],
    \* SELECT.
    [text |-> <<"SELECT">>, growth |-> 9,
     lexemes |-> {Name, <<" ", "b">>} \cup Words({"DISTINCT", "FROM", "ORDER", "BY"})
                 \cup Chars({",", ".", "*"})],
    \* INSERT.
    [text |-> <<"INSERT", " ", "INTO", " ", "a", "(", "a", ".", "b">>, growth |-> 8,
     lexemes |-> {<<",", "a">>, <<",", "b", ".", "a">>, <<")", "VALUES", "(">>,
                  <<" ", "TEMPORARY">>, <<"NULL">>} \cup Chars({")", ",", "?"})],
    \* Numbers.
    [text |-> <<"INSERT", " ", "INTO", " ", "a", "(", "a", ")", "VALUES", "(">>, growth |-> 6,
     lexemes |-> Chars({"-", "0", "9", ")", "a", "NULL"})],
    \* UPDATE.
    [text |-> <<"UPDATE", " ", "a">>, growth |-> 13,
     lexemes |-> {Name, <<"=", "?">>, <<"=", "9">>} \cup Words({"SET", "WHERE", "AND"})
                 \cup Chars({",", "."})],
    \* CREATE TABLE.
    [text |-> <<"CREATE", " ", "TABLE", " ", "a", "(">>, growth |-> 8,
     lexemes |-> {Name, <<"(", "9", ")">>, <<"(", "1", "0", ")">>, <<"(", "0", ")">>,
                  <<" ", "PRIMARY", " ", "KEY">>, <<" ", "NOT", " ", "NULL">>}
                 \cup Words({"CHAR", "LONG", "TEMPORARY", "LOCALIZABLE", "HOLD"})
                 \cup Chars({",", ")"})],
    [text |-> <<"CREATE", " ", "TABLE", " ", "a">>, growth |-> 2,
     lexemes |-> {<<"(", "a", " ", t>> : t \in Types \cup DOMAIN Synonyms}
                 \cup {<<" ", "PRIMARY", " ", "KEY", " ", "a", ")">>}],
    \* The other statements.
    [text |-> <<>>, growth |-> 7,
     lexemes |-> {Name} \cup Words({"ALTER", "DROP", "DELETE", "FROM", "TABLE", "ADD", "FREE",
                                    "HOLD", "SHORT", "OBJECT", "VARCHAR"})]>>
=============================================================================
