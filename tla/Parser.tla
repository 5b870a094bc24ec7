------------------------------- MODULE Parser -------------------------------
(***************************************************************************)
(* The parser of statements: internal/sql/parse.go, and the number of      *)
(* parameters that a parsed statement takes: Params of sql.go.             *)
(*                                                                         *)
(* A parser is a record: the tokens and the current one, the markers seen  *)
(* so far, the position of the error (0 while there is none), and vals, a  *)
(* stack of what its functions returned and no node has taken up, for the  *)
(* local variables of the code.  A failed parser passes every function     *)
(* as it is, which stands for the `if err != nil` behind every call.       *)
(*                                                                         *)
(* The variable text is a statement that a user writes lexeme by lexeme    *)
(* for as long as the parser only misses its end, and parser what Parse    *)
(* makes of it.                                                            *)
(***************************************************************************)
EXTENDS Scanner, FiniteSets, TLC

CONSTANTS
    MaxWidth,   \* the widest CHAR: 255 in the code
    MaxInt,     \* the greatest int
    Openings    \* bound: how a text starts, what may follow and how often

ASSUME ParserAssumption ==
    /\ MaxWidth \in Nat /\ MaxInt \in Nat /\ MaxWidth <= MaxInt
    /\ \A i \in DOMAIN Openings : Openings[i].growth \in Nat

VARIABLES opening, text, length, parser

vars == <<opening, text, length, parser>>

-----------------------------------------------------------------------------
Failed(p) == p.err # 0
Tok(p) == p.toks[p.at]
Kind(p) == IF Failed(p) THEN "failed" ELSE Tok(p).kind

Advance(p) ==
    IF Kind(p) \in {"failed", "EOF", "error"} THEN p ELSE [p EXCEPT !.at = @ + 1]

Accept(p, k) == IF Kind(p) = k THEN Advance(p) ELSE p

\* A lexical error that the scanner met takes precedence over one at tok.
Errorf(p, tok) ==
    IF Failed(p) THEN p
    ELSE [p EXCEPT !.err = IF Tok(p).kind = "error" THEN Tok(p).pos ELSE tok.pos]

Expect(p, k) == IF Kind(p) = k THEN Advance(p) ELSE Errorf(p, Tok(p))

ExpectEach(p, ks) == FoldLeft(Expect, p, ks)

Push(p, v) == IF Failed(p) THEN p ELSE [p EXCEPT !.vals = Append(@, v)]
Returned(p) == Last(p.vals)

\* The parser with the last n values replaced by what combine makes of them.
Reduce(p, n, combine(_)) ==
    IF Failed(p) THEN p
    ELSE LET rest == Len(p.vals) - n
         IN [p EXCEPT !.vals = Append(SubSeq(@, 1, rest),
                                      combine(SubSeq(@, rest + 1, rest + n)))]

\* A node of the last values, under the names of fields, and of what is constant in it.
Node(p, fields, const) ==
    LET named(values) ==
            [f \in Range(fields) |-> values[CHOOSE i \in DOMAIN fields : fields[i] = f]]
    IN Reduce(p, Len(fields), LAMBDA values : named(values) @@ const)

Gather(p, n) == Reduce(p, n, LAMBDA values : values)

Flag(p, k) == Push(Accept(p, k), Kind(p) = k)

\* The list of what item reads, between commas.
List(p, item(_)) ==
    LET RECURSIVE More(_, _)
        More(q, n) == IF Kind(q) = "," THEN More(item(Advance(q)), n + 1) ELSE Gather(q, n)
    IN More(item(p), 1)

ParseName(p) == Push(Expect(p, "ident"), Tok(p).text)

\* A column's name behind the table's, or by itself.
Qualified(first) ==
    IF Kind(first) = "." THEN Node(ParseName(Advance(first)), <<"table", "name">>, <<>>)
    ELSE Node(first, <<"name">>, [table |-> <<>>])

ParseColumnRef(p) == Qualified(ParseName(p))

-----------------------------------------------------------------------------
(***************************************************************************)
(* Values and conditions.                                                  *)
(***************************************************************************)

Atoi(word) ==
    LET digits == SelectSeq(word, LAMBDA c : c # "-")
        value(c) == CHOOSE n \in 0..9 : ToString(n) = c
        n == FoldLeft(LAMBDA sum, c : 10 * sum + value(c), 0, digits)
    IN IF word[1] = "-" THEN -n ELSE n

InRange(n) == n \in (-MaxInt - 1)..MaxInt

ParseValue(p) ==
    LET n == Atoi(Tok(p).text)
    IN CASE Kind(p) = "int" ->
              IF InRange(n) THEN Push(Advance(p), [type |-> "int", of |-> n])
              ELSE Errorf(Advance(p), Tok(p))
         [] Kind(p) = "string" -> Push(Advance(p), [type |-> "string", of |-> Tok(p).text])
         [] Kind(p) = "?" ->
              Push([Advance(p) EXCEPT !.params = @ + 1], [type |-> "marker", of |-> p.params])
         [] Kind(p) = "NULL" -> Push(Advance(p), [type |-> "null"])
         [] OTHER -> Errorf(p, Tok(p))

CompareOps == {"=", "<>", "<", "<=", ">", ">="}

ParseCompareOp(p) ==
    IF Kind(p) \in CompareOps THEN Push(Advance(p), Kind(p)) ELSE Errorf(p, Tok(p))

\* What item reads, joined by the keyword op from left to right.
Joined(p, op, item(_)) ==
    LET RECURSIVE More(_)
        More(left) ==
            IF Kind(left) # op THEN left
            ELSE More(Node(item(Advance(left)), <<"left", "right">>, [type |-> op]))
    IN More(item(p))

RECURSIVE ParseExpr(_)

\* The value or the column that is compared; the operator was the token tok.
ParseOperand(p, tok) ==
    IF Kind(p) # "ident"
    THEN Node(ParseValue(p), <<"column", "op", "value">>, [type |-> "comparison"])
    ELSE IF Returned(p) # "=" THEN Errorf(p, tok)
    ELSE Node(ParseColumnRef(p), <<"left", "op", "right">>, [type |-> "column equal"])

ParseComparison(col) ==
    IF Kind(col) = "IS"
    THEN Node(Expect(Flag(Advance(col), "NOT"), "NULL"), <<"column", "not">>,
              [type |-> "is null"])
    ELSE ParseOperand(ParseCompareOp(col), Tok(col))

ParsePrimary(p) ==
    IF Kind(p) = "(" THEN Expect(ParseExpr(Advance(p)), ")")
    ELSE ParseComparison(ParseColumnRef(p))

ParseAnd(p) == Joined(p, "AND", ParsePrimary)

\* A mutant of ParseOr: OR binds more than AND.
ParseOrMutant(p) ==
    LET or(q) == Joined(q, "OR", ParsePrimary) IN Joined(p, "AND", or)

ParseOr(p) == Joined(p, "OR", ParseAnd)

ParseExpr(p) == ParseOr(p)

Absent == [type |-> "absent"]

ParseWhere(p) == IF Kind(p) = "WHERE" THEN ParseExpr(Advance(p)) ELSE Push(p, Absent)

-----------------------------------------------------------------------------
(***************************************************************************)
(* Statements.                                                             *)
(***************************************************************************)

ParseColumns(p) == IF Kind(p) = "*" THEN Push(Advance(p), <<>>) ELSE List(p, ParseColumnRef)

ParseOrderBy(p) ==
    IF Kind(p) = "ORDER" THEN List(Expect(Advance(p), "BY"), ParseColumnRef) ELSE Push(p, <<>>)

ParseSelect(p) ==
    LET columns == ParseColumns(Flag(Advance(p), "DISTINCT"))
        tables == List(Expect(columns, "FROM"), ParseName)
    IN Node(ParseOrderBy(ParseWhere(tables)),
            <<"distinct", "columns", "tables", "where", "orderBy">>, [type |-> "select"])

\* A column of an INSERT may only be qualified by the name of its table.
ParseInsertColumn(p, table) ==
    LET unqualified(col) ==
            IF ~Failed(col) /\ Returned(col).table \notin {<<>>, table} THEN Errorf(col, Tok(p))
            ELSE Reduce(col, 1, LAMBDA values : values[1].name)
    IN unqualified(ParseColumnRef(p))

\* A mutant of ParseValues: too few values pass.
ParseValuesMutant(p, n) ==
    LET RECURSIVE More(_, _)
        More(q, read) ==
            IF Failed(q) THEN q
            ELSE IF Kind(q) # "," THEN Gather(q, read)
            ELSE IF read = n THEN Errorf(Advance(q), Tok(Advance(q)))
            ELSE More(ParseValue(Advance(q)), read + 1)
    IN More(ParseValue(p), 1)

\* The values of an INSERT of n columns.
ParseValues(p, n) ==
    LET RECURSIVE More(_, _)
        More(q, read) ==
            IF Failed(q) THEN q
            ELSE IF Kind(q) # ","
            THEN IF read < n THEN Errorf(q, Tok(q)) ELSE Gather(q, read)
            ELSE IF read = n THEN Errorf(Advance(q), Tok(Advance(q)))
            ELSE More(ParseValue(Advance(q)), read + 1)
    IN More(ParseValue(p), 1)

ParseInsertValues(columns) ==
    ParseValues(ExpectEach(columns, <<")", "VALUES", "(">>), Len(Returned(columns)))

ParseInsertInto(table) ==
    LET columns == List(Expect(table, "("), LAMBDA q : ParseInsertColumn(q, Returned(table)))
    IN Node(Flag(Expect(ParseInsertValues(columns), ")"), "TEMPORARY"),
            <<"table", "columns", "values", "temporary">>, [type |-> "insert"])

ParseInsert(p) == ParseInsertInto(ParseName(Expect(Advance(p), "INTO")))

ParseAssignment(p) ==
    Node(ParseValue(Expect(ParseColumnRef(p), "=")), <<"column", "value">>, <<>>)

ParseUpdate(p) ==
    LET tables == List(Advance(p), ParseName)
        set == List(Expect(tables, "SET"), ParseAssignment)
    IN Node(ParseWhere(set), <<"tables", "set", "where">>, [type |-> "update"])

ParseDelete(p) ==
    Node(ParseWhere(ParseName(Expect(Advance(p), "FROM"))), <<"table", "where">>,
         [type |-> "delete"])

ParseWidth(p) ==
    LET n == Atoi(Tok(p).text)
    IN IF Kind(p) = "int" /\ n \notin 0..MaxWidth THEN Errorf(Advance(p), Tok(p))
       ELSE Push(Expect(p, "int"), n)

Types == {"CHAR", "LONGCHAR", "SHORT", "INT", "LONG", "OBJECT"}

ParseType(name) ==
    IF Kind(name) \in Types THEN Push(Advance(name), Kind(name)) ELSE Errorf(name, Tok(name))

ParseSize(type) ==
    IF Kind(type) = "(" /\ Returned(type) = "CHAR" THEN Expect(ParseWidth(Advance(type)), ")")
    ELSE Push(type, 0)

ParseNotNull(p) ==
    IF Kind(p) = "NOT" THEN Push(Expect(Advance(p), "NULL"), TRUE) ELSE Push(p, FALSE)

ParseColumnDef(p) ==
    LET notNull == ParseNotNull(ParseSize(ParseType(ParseName(p))))
    IN Node(Flag(Flag(notNull, "TEMPORARY"), "LOCALIZABLE"),
            <<"name", "type", "size", "notNull", "temporary", "localizable">>, <<>>)

\* The name of a table, behind the statement's keywords.
ParseTable(p) == ParseName(Expect(Advance(p), "TABLE"))

ParseCreate(p) ==
    LET columns == List(Expect(ParseTable(p), "("), ParseColumnDef)
        key == List(ExpectEach(columns, <<"PRIMARY", "KEY">>), ParseName)
    IN Node(Flag(Expect(key, ")"), "HOLD"), <<"table", "columns", "primaryKey", "hold">>,
            [type |-> "create"])

ParseAlterAction(table) ==
    CASE Kind(table) \in {"HOLD", "FREE"} ->
            Node(Push(Advance(table), Kind(table)), <<"table", "action">>, [type |-> "alter"])
      [] Kind(table) = "ADD" ->
            Node(Flag(ParseColumnDef(Advance(table)), "HOLD"), <<"table", "add", "hold">>,
                 [type |-> "alter", action |-> "ADD"])
      [] OTHER -> Errorf(table, Tok(table))

ParseAlter(p) == ParseAlterAction(ParseTable(p))

ParseDrop(p) == Node(ParseTable(p), <<"table">>, [type |-> "drop"])

ParseStatement(p) ==
    CASE Kind(p) = "SELECT" -> ParseSelect(p)
      [] Kind(p) = "INSERT" -> ParseInsert(p)
      [] Kind(p) = "UPDATE" -> ParseUpdate(p)
      [] Kind(p) = "DELETE" -> ParseDelete(p)
      [] Kind(p) = "CREATE" -> ParseCreate(p)
      [] Kind(p) = "ALTER" -> ParseAlter(p)
      [] Kind(p) = "DROP" -> ParseDrop(p)
      [] OTHER -> Errorf(p, Tok(p))

ParseEnd(p) == IF Kind(p) = "EOF" THEN p ELSE Errorf(p, Tok(p))

Parse(s) ==
    ParseEnd(ParseStatement([toks |-> Tokens(s), at |-> 1, params |-> 0, err |-> 0,
                             vals |-> <<>>]))

-----------------------------------------------------------------------------
ValueParams(v) == IF v.type = "marker" THEN 1 ELSE 0

RECURSIVE ExprParams(_)
ExprParams(e) ==
    CASE e.type \in {"AND", "OR"} -> ExprParams(e.left) + ExprParams(e.right)
      [] e.type = "comparison" -> ValueParams(e.value)
      [] OTHER -> 0

SumParams(values) == FoldLeft(LAMBDA n, v : n + ValueParams(v), 0, values)

\* A mutant of Params: the markers of a SET list are not counted.
ParamsMutant(stmt) ==
    CASE stmt.type \in {"select", "update", "delete"} -> ExprParams(stmt.where)
      [] stmt.type = "insert" -> SumParams(stmt.values)
      [] OTHER -> 0

Params(stmt) ==
    CASE stmt.type \in {"select", "delete"} -> ExprParams(stmt.where)
      [] stmt.type = "insert" -> SumParams(stmt.values)
      [] stmt.type = "update" ->
            ExprParams(stmt.where) + SumParams([i \in DOMAIN stmt.set |-> stmt.set[i].value])
      [] OTHER -> 0

-----------------------------------------------------------------------------
(***************************************************************************)
(* A text grows by a lexeme while the parser accepts it or misses its end. *)
(***************************************************************************)

MissesEnd == parser.err = Len(text) + 1

Write(lexeme) ==
    /\ length < Openings[opening].growth
    /\ ~Failed(parser) \/ MissesEnd
    /\ text' = text \o lexeme
    /\ length' = length + 1
    /\ parser' = Parse(text')
    /\ UNCHANGED opening

Init ==
    /\ opening \in DOMAIN Openings /\ text = Openings[opening].text /\ length = 0
    /\ parser = Parse(text)

Next == \E lexeme \in Openings[opening].lexemes : Write(lexeme)

Spec == Init /\ [][Next]_vars

-----------------------------------------------------------------------------
(***************************************************************************)
(* The text of a statement, with no more parentheses than its conditions   *)
(* need when OR binds less than AND and both group to the left.            *)
(***************************************************************************)

Quoted(name) == <<Backtick>> \o name \o <<Backtick>>
Word(k) == <<" ", k, " ">>

Commas(s, show(_)) ==
    FoldLeftDomain(LAMBDA all, i : all \o (IF i = 1 THEN <<>> ELSE <<",">>) \o show(s[i]),
                   <<>>, s)

ShowColumn(c) == (IF c.table = <<>> THEN <<>> ELSE Quoted(c.table) \o <<".">>) \o Quoted(c.name)

Numeral(n) ==
    LET RECURSIVE Of(_)
        Of(m) == IF m < 10 THEN <<ToString(m)>> ELSE Append(Of(m \div 10), ToString(m % 10))
    IN IF n < 0 THEN <<"-">> \o Of(-n) ELSE Of(n)

ShowValue(v) ==
    CASE v.type = "int" -> Numeral(v.of)
      [] v.type = "string" -> <<"'">> \o v.of \o <<"'">>
      [] v.type = "marker" -> <<"?">>
      [] v.type = "null" -> Word("NULL")

Characters(op) ==
    CASE op = "<>" -> <<"<", ">">> [] op = "<=" -> <<"<", "=">> [] op = ">=" -> <<">", "=">>
      [] OTHER -> <<op>>

RECURSIVE ShowExpr(_)
ShowExpr(e) ==
    LET grouped(x, kinds) == IF x.type \in kinds THEN <<"(">> \o ShowExpr(x) \o <<")">>
                             ELSE ShowExpr(x)
    IN CASE e.type = "OR" -> ShowExpr(e.left) \o Word("OR") \o grouped(e.right, {"OR"})
         [] e.type = "AND" ->
               grouped(e.left, {"OR"}) \o Word("AND") \o grouped(e.right, {"OR", "AND"})
         [] e.type = "is null" -> ShowColumn(e.column) \o Word("IS")
               \o (IF e.not THEN Word("NOT") ELSE <<>>) \o Word("NULL")
         [] e.type = "column equal" -> ShowColumn(e.left) \o <<"=">> \o ShowColumn(e.right)
         [] e.type = "comparison" ->
               ShowColumn(e.column) \o Characters(e.op) \o ShowValue(e.value)

ShowWhere(e) == IF e = Absent THEN <<>> ELSE Word("WHERE") \o ShowExpr(e)

When(b, k) == IF b THEN Word(k) ELSE <<>>

ShowWidth(n) == IF n = 0 THEN <<>> ELSE <<"(">> \o Numeral(n) \o <<")">>

ShowColumnDef(c) ==
    Quoted(c.name) \o Word(c.type) \o ShowWidth(c.size)
    \o When(c.notNull, "NOT") \o When(c.notNull, "NULL")
    \o When(c.temporary, "TEMPORARY") \o When(c.localizable, "LOCALIZABLE")

Show(stmt) ==
    CASE stmt.type = "select" ->
            Word("SELECT") \o When(stmt.distinct, "DISTINCT")
            \o (IF stmt.columns = <<>> THEN <<"*">> ELSE Commas(stmt.columns, ShowColumn))
            \o Word("FROM") \o Commas(stmt.tables, Quoted) \o ShowWhere(stmt.where)
            \o (IF stmt.orderBy = <<>> THEN <<>>
                ELSE Word("ORDER") \o Word("BY") \o Commas(stmt.orderBy, ShowColumn))
      [] stmt.type = "insert" ->
            Word("INSERT") \o Word("INTO") \o Quoted(stmt.table)
            \o <<"(">> \o Commas(stmt.columns, Quoted) \o <<")">>
            \o Word("VALUES") \o <<"(">> \o Commas(stmt.values, ShowValue) \o <<")">>
            \o When(stmt.temporary, "TEMPORARY")
      [] stmt.type = "update" ->
            LET show(a) == ShowColumn(a.column) \o <<"=">> \o ShowValue(a.value)
            IN Word("UPDATE") \o Commas(stmt.tables, Quoted)
               \o Word("SET") \o Commas(stmt.set, show) \o ShowWhere(stmt.where)
      [] stmt.type = "delete" ->
            Word("DELETE") \o Word("FROM") \o Quoted(stmt.table) \o ShowWhere(stmt.where)
      [] stmt.type = "create" ->
            Word("CREATE") \o Word("TABLE") \o Quoted(stmt.table)
            \o <<"(">> \o Commas(stmt.columns, ShowColumnDef)
            \o Word("PRIMARY") \o Word("KEY") \o Commas(stmt.primaryKey, Quoted) \o <<")">>
            \o When(stmt.hold, "HOLD")
      [] stmt.type = "alter" ->
            Word("ALTER") \o Word("TABLE") \o Quoted(stmt.table) \o Word(stmt.action)
            \o (IF stmt.action = "ADD" THEN ShowColumnDef(stmt.add) \o When(stmt.hold, "HOLD")
                ELSE <<>>)
      [] stmt.type = "drop" -> Word("DROP") \o Word("TABLE") \o Quoted(stmt.table)

-----------------------------------------------------------------------------
(***************************************************************************)
(* Properties.                                                             *)
(***************************************************************************)

\* What a text says: its tokens, less parentheses, the ways to write a number, a width of 0,
\* which is no width, and what qualifies the columns of an INSERT, which repeats the table.
Says(toks) ==
    LET isWidth(i) == i > 2 /\ toks[i].kind = "int" /\ toks[i - 2].kind = "CHAR"
        qualifies(i) == toks[1].kind = "INSERT" /\ "." \in {toks[i].kind, toks[i + 1].kind}
        what(t) == [kind |-> t.kind,
                    of |-> CASE t.kind = "int" -> Atoi(t.text)
                             [] t.kind \in {"ident", "string"} -> t.text
                             [] OTHER -> <<>>]
        isSaid(i) ==
            /\ toks[i].kind \notin {"(", ")"}
            /\ ~(isWidth(i) /\ Atoi(toks[i].text) = 0)
            /\ ~qualifies(i)
    IN FoldLeftDomain(LAMBDA said, i : IF isSaid(i) THEN Append(said, what(toks[i])) ELSE said,
                      <<>>, Front(toks))

Parentheses(toks) == Len(SelectSeq(toks, LAMBDA t : t.kind = "("))

\* Letters in the place of which a keyword is a part of the same name.
Spelled(s) == [i \in DOMAIN s |-> IF s[i] \in Letters THEN "SELECT" ELSE s[i]]

IsTextOf(shown, stmt) ==
    /\ Returned(Parse(shown)) = stmt
    /\ Says(Tokens(shown)) = Says(parser.toks)
    /\ Parentheses(Tokens(shown)) <= Parentheses(parser.toks)
    /\ ~Failed(Parse(Spelled(shown)))

\* A statement is read the way it is written: the text made from the tree that the parser
\* returns has the same words in the same order, needs no parenthesis that the user did not
\* write, and is read as the same tree.  So OR binds less than AND and AND less than a
\* comparison (parse.go:431), operators group to the left, no clause, flag or value is
\* dropped or moved, and a name between backticks is a name whatever it spells.
StatementsReadBack == ~Failed(parser) => IsTextOf(Show(Returned(parser)), Returned(parser))

\* The markers of a statement, in the order in which its text has them.
RECURSIVE MarkersOfExpr(_)
MarkersOfExpr(e) ==
    CASE e.type \in {"AND", "OR"} -> MarkersOfExpr(e.left) \o MarkersOfExpr(e.right)
      [] e.type = "comparison" /\ e.value.type = "marker" -> <<e.value.of>>
      [] OTHER -> <<>>

MarkersOfValues(values) ==
    LET markers == SelectSeq(values, LAMBDA v : v.type = "marker")
    IN [i \in DOMAIN markers |-> markers[i].of]

Markers(stmt) ==
    CASE stmt.type \in {"select", "delete"} -> MarkersOfExpr(stmt.where)
      [] stmt.type = "insert" -> MarkersOfValues(stmt.values)
      [] stmt.type = "update" ->
            MarkersOfValues([i \in DOMAIN stmt.set |-> stmt.set[i].value])
            \o MarkersOfExpr(stmt.where)
      [] OTHER -> <<>>

\* The markers are numbered from 0 in source order (sql.go, Marker), and Params, which
\* msidb compares with the number of arguments (database.go:150), counts each of them: so
\* the argument of every marker exists (query.go:135) and none is left over.
MarkersMatchArguments ==
    ~Failed(parser) =>
        LET markers == Markers(Returned(parser))
        IN /\ markers = [i \in 1..Len(markers) |-> i - 1]
           /\ Params(Returned(parser)) = Len(markers)
           /\ Len(markers) = Len(SelectSeq(parser.toks, LAMBDA t : t.kind = "?"))

\* An int literal fits an int, a width 0 to 255, and an INSERT has one value for every
\* column (sql.go, Insert), on which the statements' execution relies (dml.go).
TypeOK ==
    LET stmt == Returned(parser)
        valueOK(v) == v.type = "int" => InRange(v.of)
    IN /\ opening \in DOMAIN Openings /\ length \in 0..Openings[opening].growth
       /\ parser.at \in DOMAIN parser.toks /\ parser.err \in 0..(Len(text) + 1)
       /\ ~Failed(parser) =>
            /\ Len(parser.vals) = 1
            /\ stmt.type = "insert" =>
                 /\ Len(stmt.values) = Len(stmt.columns) /\ stmt.columns # <<>>
                 /\ \A i \in DOMAIN stmt.values : valueOK(stmt.values[i])
            /\ stmt.type = "create" => \A i \in DOMAIN stmt.columns :
                 stmt.columns[i].size \in 0..MaxWidth /\ stmt.columns[i].type \in Types
=============================================================================
