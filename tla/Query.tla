------------------------------- MODULE Query --------------------------------
(***************************************************************************)
(* How statements find records: msidb/query.go, and what SELECT, UPDATE    *)
(* and DELETE do with the records it gathers.                              *)
(*                                                                         *)
(* A record is a sequence of raw cells: an integer with its sign bit       *)
(* flipped, or the ID of a string, where 0 is NULL.  Records are sorted by *)
(* the raw cells of their key, and a condition that fixes the first key    *)
(* column narrows the scan by binary search for the decoded value.         *)
(*                                                                         *)
(* The string pool is a map from strings to IDs, which are in no order: a  *)
(* string that no cell holds has none, and a new one takes any that is     *)
(* free.  Names of columns are resolved already.  Columns are integers and *)
(* strings; those of binary data are in Database.                          *)
(***************************************************************************)
EXTENDS Integers, Sequences, FiniteSets, SequencesExt

CONSTANTS
    Schema, NewRows, Deletes, Updates, Null, MaxRows,
    Selects,
    Strings,
    MaxId,          \* bound: IDs
    SignBit         \* of an integer of 2 and of 4 bytes

ASSUME QueryAssumption ==
    /\ SignBit \in [{2, 4} -> Nat \ {0}] /\ SignBit[2] < SignBit[4]
    /\ MaxId \in Nat /\ MaxRows \in Nat
    /\ Null \notin Strings \cup Int

VARIABLES
    records,        \* of each table, in key order
    ids             \* of the strings in the pool, 0 for one that is not

vars == <<records, ids>>

Tables == DOMAIN Schema

Least(S) == CHOOSE i \in S : \A j \in S : i <= j

\* A set in the order of a relation: the p-th has p - 1 in front of it.
InOrder(S, before) ==
    [p \in 1..Cardinality(S) |->
        CHOOSE x \in S : Cardinality({y \in S : <<y, x>> \in before}) = p - 1]

\* The members of a sequence at some of its places.
Picked(s, places) ==
    LET order == InOrder(places, {b \in places \X places : b[1] < b[2]}) IN
    [p \in DOMAIN order |-> s[order[p]]]

-----------------------------------------------------------------------------
(***************************************************************************)
(* Cells.                                                                  *)
(***************************************************************************)

EncodeInt(v, size) == (v + SignBit[size]) % (2 * SignBit[size])
DecodeInt(raw, size) == raw - SignBit[size]

\* Mutant of Ordinal: NULL is decoded like other cells.
OrdinalMutant(c, raw) == IF c.type = "integer" THEN DecodeInt(raw, c.size) ELSE raw

\* NULL is one value for both widths.
Ordinal(c, raw) ==
    IF c.type # "integer" THEN raw
    ELSE IF raw = 0 THEN -SignBit[4]
    ELSE DecodeInt(raw, c.size)

Raw(f, c, value) ==
    IF value = Null THEN 0
    ELSE IF c.type = "integer" THEN EncodeInt(value, c.size)
    ELSE f[value]

RawRecord(f, t, row) == [i \in DOMAIN row |-> Raw(f, Schema[t][i], row[i])]

KeyCells(t) == {i \in DOMAIN Schema[t] : Schema[t][i].key}

\* Whether a's key comes before b's.
KeyLess(t, a, b) ==
    \E i \in KeyCells(t) : a[i] < b[i] /\ \A j \in KeyCells(t) : j < i => a[j] = b[j]

-----------------------------------------------------------------------------
(***************************************************************************)
(* Binary search over 0..n-1: the first for which a test holds, if it      *)
(* holds for all behind it.  The test is the set of those for which it     *)
(* holds.  (sort.Search; slices.BinarySearchFunc is the same with a        *)
(* comparison for a test.)                                                 *)
(***************************************************************************)
Search(n, holds) ==
    LET between[b \in (0..n) \X (0..n)] ==
            IF b[1] >= b[2] THEN b[1]
            ELSE LET h == (b[1] + b[2]) \div 2 IN
                 IF h \in holds THEN between[<<b[1], h>>] ELSE between[<<h + 1, b[2]>>]
    IN between[<<0, n>>]

\* Mutant of Find: records go to the end.
FindMutant(t, rec) == Len(records[t])

\* Where a record is or belongs.
Find(t, rec) ==
    LET n == Len(records[t]) IN
    Search(n, {i \in 0..(n - 1) : ~KeyLess(t, records[t][i + 1], rec)})

Found(t, rec) ==
    LET i == Find(t, rec) IN i < Len(records[t]) /\ ~KeyLess(t, rec, records[t][i + 1])

-----------------------------------------------------------------------------
(***************************************************************************)
(* The WHERE clause, compiled.  A statement's tables are scanned in nested *)
(* loops, the first outermost; a term is tested at its level, the deepest  *)
(* table that it reads.                                                    *)
(***************************************************************************)

Column(q, col) == Schema[q.from[col.table]][col.cell]

Cell(tuple, col) == tuple[col.table][col.cell]

OrdinalOf(q, tuple, col) == Ordinal(Column(q, col), Cell(tuple, col))

\* What the statements may be: names are resolved, types agree, and integers
\* are within the limits that are the same on both sides of zero.
Values(c) ==
    {Null} \cup IF c.type = "integer" THEN (1 - SignBit[c.size])..(SignBit[c.size] - 1)
                ELSE Strings

IsBound(q, col) ==
    col.table \in DOMAIN q.from /\ col.cell \in DOMAIN Schema[q.from[col.table]]

IsList(s) == Len(s) \in Nat /\ DOMAIN s = 1..Len(s)

IsCondition(q, c) ==
    \/ c.kind = "isnull" /\ c.not \in BOOLEAN /\ IsBound(q, c.col)
    \/ /\ c.kind = "equal" /\ IsBound(q, c.left) /\ IsBound(q, c.right)
       /\ Column(q, c.left).type = Column(q, c.right).type
    \/ /\ c.kind = "compare" /\ IsBound(q, c.col)
       /\ c.value \in Values([Column(q, c.col) EXCEPT !.size = 4])
       /\ \/ c.op \in {"=", "<>"}
          \/ /\ c.op \in {"<", "<=", ">", ">="}
             /\ Column(q, c.col).type = "integer" /\ c.value # Null

IsStatement(q) ==
    /\ q.from \in Seq(Tables) /\ \A i, j \in DOMAIN q.from : q.from[i] = q.from[j] => i = j
    /\ q.from # <<>>
    /\ IsList(q.where)
    /\ \A i \in DOMAIN q.where : LET term == q.where[i] IN
        /\ IsList(term) /\ term # <<>>
        /\ \A j \in DOMAIN term : IsList(term[j]) /\ term[j] # <<>>
        /\ \A j \in DOMAIN term : \A k \in DOMAIN term[j] : IsCondition(q, term[j][k])

IsAssignment(u, a) ==
    /\ IsBound(u, a) /\ ~Column(u, a).key /\ a.value \in Values(Column(u, a))

ASSUME SchemaAssumption == \A t \in Tables :
    /\ Schema[t] \in Seq([type : {"string", "integer"}, size : Nat, key : BOOLEAN])
    /\ KeyCells(t) # {}
    /\ \A i \in DOMAIN Schema[t] : Schema[t][i].type = "integer" => Schema[t][i].size \in {2, 4}

ASSUME StatementAssumption ==
    /\ \A t \in Tables : \A row \in NewRows[t] :
        /\ row = [i \in DOMAIN Schema[t] |-> row[i]]
        /\ \A i \in DOMAIN row : row[i] \in Values(Schema[t][i])
    /\ \A q \in Selects \cup Deletes \cup Updates : IsStatement(q)
    /\ \A q \in Selects : \A cols \in {q.order, q.columns} :
        IsList(cols) /\ \A n \in DOMAIN cols : IsBound(q, cols[n])
    /\ \A q \in Deletes : Len(q.from) = 1
    /\ \A u \in Updates : IsList(u.set) /\ \A k \in DOMAIN u.set : IsAssignment(u, u.set[k])

FirstKey(q, col) ==
    col.cell \in KeyCells(q.from[col.table])
    /\ \A i \in KeyCells(q.from[col.table]) : col.cell <= i

Deep(c) == IF c.right.table > c.left.table THEN c.right ELSE c.left
Shallow(c) == IF c.right.table > c.left.table THEN c.left ELSE c.right

ConditionLevel(c) == IF c.kind = "equal" THEN Deep(c).table ELSE c.col.table

Level(term) ==
    LET levels == {ConditionLevel(c) : c \in UNION {ToSet(term[i]) : i \in DOMAIN term}} IN
    CHOOSE l \in levels : \A k \in levels : k <= l

\* The ordinal that a column is compared with: -1 is one that no string has.
Constant(q, col, value) ==
    IF value = Null THEN Ordinal(Column(q, col), 0)
    ELSE IF Column(q, col).type = "integer" THEN value
    ELSE IF ids[value] # 0 THEN ids[value] ELSE -1

CompareInt(a, b, op) ==
    \/ op = "=" /\ a = b
    \/ op = "<>" /\ a # b
    \/ op \in {"<", "<="} /\ a < b
    \/ op \in {">", ">="} /\ a > b
    \/ op \in {"<=", ">="} /\ a = b

Comparison(q, c, tuple) ==
    LET v   == Constant(q, c.col, c.value)
        raw == Cell(tuple, c.col) IN
    IF Column(q, c.col).type # "integer" THEN (v >= 0 /\ raw = v) = (c.op = "=")
    ELSE /\ c.op \in {"=", "<>"} \/ raw # 0
         /\ CompareInt(OrdinalOf(q, tuple, c.col), v, c.op)

Matches(q, c, tuple) ==
    \/ c.kind = "isnull" /\ (Cell(tuple, c.col) = 0) # c.not
    \/ c.kind = "equal" /\ OrdinalOf(q, tuple, c.left) = OrdinalOf(q, tuple, c.right)
    \/ c.kind = "compare" /\ Comparison(q, c, tuple)

TermMatches(q, term, tuple) ==
    \E i \in DOMAIN term : \A j \in DOMAIN term[i] : Matches(q, term[i][j], tuple)

\* A term of one condition that fixes the first key column of its level.
Seeks(q, term) ==
    /\ Len(term) = 1 /\ Len(term[1]) = 1
    /\ LET c == term[1][1] IN
        \/ c.kind = "isnull" /\ ~c.not /\ FirstKey(q, c.col)
        \/ c.kind = "equal" /\ c.left.table # c.right.table /\ FirstKey(q, Deep(c))
        \/ c.kind = "compare" /\ c.op = "=" /\ FirstKey(q, c.col)

SeekValue(q, c, tuple) ==
    IF c.kind = "isnull" THEN Ordinal(Column(q, c.col), 0)
    ELSE IF c.kind = "equal" THEN OrdinalOf(q, tuple, Shallow(c))
    ELSE Constant(q, c.col, c.value)

-----------------------------------------------------------------------------
(***************************************************************************)
(* Gathering the tuples.                                                   *)
(***************************************************************************)

\* The terms that are tested at a level, by number.
TermsAt(q, level) == {i \in DOMAIN q.where : Level(q.where[i]) = level}

\* The records of the table at a level that are scanned: those behind the
\* first and up to the second of two numbers.  The first term that seeks
\* decides.
Window(q, level, tuple) ==
    LET t     == q.from[level]
        seeks == {i \in TermsAt(q, level) : Seeks(q, q.where[i])}
        n     == Len(records[t])
    IN  IF seeks = {} THEN <<0, n>>
        ELSE LET cell == Least(KeyCells(t))
                 want == SeekValue(q, q.where[Least(seeks)][1][1], tuple)
                 at   == [i \in 0..(n - 1) |-> Ordinal(Schema[t][cell], records[t][i + 1][cell])]
                 lo   == Search(n, {i \in 0..(n - 1) : at[i] >= want})
             IN  <<lo, lo + Search(n - lo, {i \in 0..(n - lo - 1) : at[lo + i] > want})>>

\* Whether a tuple passes the tests of its last level.
Passes(q, tuple) ==
    \A i \in TermsAt(q, Len(tuple)) : TermMatches(q, q.where[i], tuple)

\* The tuples that a level adds to one that the levels above have accepted.
Extended(q, tuple) ==
    LET level  == Len(tuple) + 1
        recs   == records[q.from[level]]
        longer == [i \in DOMAIN recs |-> Append(tuple, recs[i])]
        w      == Window(q, level, tuple)
    IN  Picked(longer, {i \in (w[1] + 1)..w[2] : Passes(q, longer[i])})

Gather(q) ==
    LET tuples[level \in 0..Len(q.from)] ==
            IF level = 0 THEN << <<>> >>
            ELSE FlattenSeq([i \in DOMAIN tuples[level - 1] |->
                                Extended(q, tuples[level - 1][i])])
    IN tuples[Len(q.from)]

-----------------------------------------------------------------------------
(***************************************************************************)
(* SELECT.                                                                 *)
(***************************************************************************)

\* Raw cells are compared, and equal tuples keep their order.
SortTuples(q, tuples) ==
    LET same(i, j, n) == \A k \in 1..n :
            Cell(tuples[i], q.order[k]) = Cell(tuples[j], q.order[k])
        before(i, j) ==
            \/ \E n \in DOMAIN q.order :
                Cell(tuples[i], q.order[n]) < Cell(tuples[j], q.order[n]) /\ same(i, j, n - 1)
            \/ same(i, j, Len(q.order)) /\ i < j
        all    == 1..Len(tuples)
        sorted == InOrder(all, {b \in all \X all : before(b[1], b[2])})
    IN  [p \in DOMAIN sorted |-> tuples[sorted[p]]]

\* The first tuple of each result record.
Distinct(q, tuples) ==
    LET result(i) == [n \in DOMAIN q.columns |-> Cell(tuples[i], q.columns[n])]
    IN  Picked(tuples, {i \in DOMAIN tuples : \A j \in 1..(i - 1) : result(j) # result(i)})

Select(q) ==
    LET sorted == IF q.order = <<>> THEN Gather(q) ELSE SortTuples(q, Gather(q)) IN
    IF q.distinct THEN Distinct(q, sorted) ELSE sorted

-----------------------------------------------------------------------------
(***************************************************************************)
(* Statements that change records.                                         *)
(***************************************************************************)

Init ==
    /\ records = [t \in Tables |-> <<>>]
    /\ ids = [s \in Strings |-> 0]

\* The pool once it has interned the strings among some values.
Interned(values) ==
    {f \in [Strings -> 0..MaxId] : \A s \in Strings :
        /\ f[s] # 0 <=> ids[s] # 0 \/ s \in values
        /\ ids[s] # 0 => f[s] = ids[s]
        /\ \A r \in Strings : f[r] = f[s] /\ f[s] # 0 => r = s}

\* The pool f without the strings that no cell of the records refers to.
Released(f, recs) ==
    [s \in Strings |->
        IF \E t \in Tables : \E i \in DOMAIN recs[t], j \in DOMAIN Schema[t] :
            Schema[t][j].type = "string" /\ recs[t][i][j] = f[s]
        THEN f[s] ELSE 0]

Insert(t, row) ==
    /\ Len(records[t]) < MaxRows
    /\ \E f \in Interned(ToSet(row)) :
        LET rec == RawRecord(f, t, row) IN
        /\ ~Found(t, rec)
        /\ records' = [records EXCEPT ![t] = InsertAt(@, Find(t, rec) + 1, rec)]
        /\ ids' = f

\* Mutant of Delete: the records in front of the window go, too.
DeleteMutant(q) ==
    LET t == q.from[1]
        w == Window(q, 1, <<>>)
        kept == Picked(records[t], {i \in (w[1] + 1)..w[2] : ~Passes(q, <<records[t][i]>>)})
    IN  /\ records' = [records EXCEPT ![t] = kept \o SubSeq(@, w[2] + 1, Len(@))]
        /\ ids' = Released(ids, records')

\* The records of the window that do not match move up in it.
Delete(q) ==
    LET t == q.from[1]
        w == Window(q, 1, <<>>)
        kept == Picked(records[t], {i \in (w[1] + 1)..w[2] : ~Passes(q, <<records[t][i]>>)})
    IN  /\ records' = [records EXCEPT ![t] =
                SubSeq(@, 1, w[1]) \o kept \o SubSeq(@, w[2] + 1, Len(@))]
        /\ ids' = Released(ids, records')

\* An assignment to a column that has one already is skipped.
Assignments(u, i) ==
    {k \in DOMAIN u.set :
        /\ u.set[k].table = i
        /\ \A l \in 1..(k - 1) : u.set[l].table = i => u.set[l].cell # u.set[k].cell}

Assigned(f, u, i, rec) ==
    [j \in DOMAIN rec |->
        IF \E k \in Assignments(u, i) : u.set[k].cell = j
        THEN Raw(f, Schema[u.from[i]][j],
                 u.set[CHOOSE k \in Assignments(u, i) : u.set[k].cell = j].value)
        ELSE rec[j]]

\* Each record of a joined table is updated once, in place.  The strings that
\* are assigned are interned before those that they replace are released: of a
\* statement that assigns several strings, which could take an ID that another
\* one has released, only the outcomes without such a reuse are here.
Update(u) ==
    LET tuples == Gather(u)
        sets   == UNION {Assignments(u, i) : i \in DOMAIN u.from} IN
    \E f \in Interned(IF tuples = <<>> THEN {} ELSE {u.set[k].value : k \in sets}) :
        /\ records' = [t \in Tables |-> [n \in DOMAIN records[t] |->
                LET rec == records[t][n]
                    at  == {i \in DOMAIN u.from : u.from[i] = t} IN
                IF \E i \in at : \E k \in DOMAIN tuples : tuples[k][i] = rec
                THEN Assigned(f, u, CHOOSE i \in at : TRUE, rec)
                ELSE rec]]
        /\ ids' = Released(f, records')

Next ==
    \/ \E t \in Tables : \E row \in NewRows[t] : Insert(t, row)
    \/ \E q \in Deletes : Delete(q)
    \/ \E u \in Updates : Update(u)

Spec == Init /\ [][Next]_vars

-----------------------------------------------------------------------------
(***************************************************************************)
(* Properties.                                                             *)
(***************************************************************************)

\* The records of a table are in strictly ascending key order, on which both
\* binary searches rely, and the cells of text columns resolve.
KeysSorted ==
    \A t \in Tables : \A i, j \in DOMAIN records[t] :
        /\ i < j => KeyLess(t, records[t][i], records[t][j])
        /\ \A c \in DOMAIN Schema[t] : Schema[t][c].type = "string" =>
            records[t][i][c] \in {0} \cup {ids[s] : s \in Strings}

Meaning(c, raw) ==
    IF raw = 0 THEN Null
    ELSE IF c.type = "integer" THEN DecodeInt(raw, c.size)
    ELSE CHOOSE s \in Strings : ids[s] = raw

Row(t, rec) == [i \in DOMAIN rec |-> Meaning(Schema[t][i], rec[i])]

Rows == [t \in Tables |-> {Row(t, records[t][i]) : i \in DOMAIN records[t]}]

Relational == INSTANCE QuerySpec WITH rows <- Rows

\* INSERT, UPDATE and DELETE change the rows of the tables, and only those, that
\* the statement's WHERE clause accepts, whatever window it was looked for in.
ImplementsQuerySpec == Relational!Spec

\* SELECT returns every combination of rows that its WHERE clause accepts, once
\* or once for each distinct result, and in the order it was asked for: the
\* window of a seek leaves out no record that matches.
SelectsAnswer ==
    \A q \in Selects :
        LET tuples == Select(q) IN
        Relational!IsAnswer(q, [i \in DOMAIN tuples |->
            [n \in DOMAIN q.from |-> Row(q.from[n], tuples[i][n])]])
=============================================================================
