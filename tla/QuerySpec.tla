----------------------------- MODULE QuerySpec ------------------------------
(***************************************************************************)
(* What msidb promises of INSERT, UPDATE, DELETE and SELECT: a table is a  *)
(* set of rows of values, of which no two have the same key, and a         *)
(* statement is about the combinations of rows that its WHERE clause       *)
(* accepts.  Nothing here is about the cells that stand for the values,    *)
(* their order in the table or how the rows are found.                     *)
(*                                                                         *)
(* A WHERE clause is a sequence of terms, all of which must hold.  A term  *)
(* is an OR of ANDs of conditions, as a sequence of sequences.             *)
(***************************************************************************)
EXTENDS Integers, Sequences, FiniteSets

CONSTANTS
    Schema,         \* the columns of each table
    NewRows,        \* the rows that may be inserted into each table
    Deletes,
    Updates,
    Null,
    MaxRows         \* bound: rows of a table

VARIABLE rows

vars == rows

Tables == DOMAIN Schema
KeyOf(t, row) == [i \in {j \in DOMAIN Schema[t] : Schema[t][j].key} |-> row[i]]

-----------------------------------------------------------------------------
(***************************************************************************)
(* A tuple has a row of each table that a statement names.  NULL is a      *)
(* value like others, equal to itself only, and neither less nor greater.  *)
(***************************************************************************)

Value(tuple, col) == tuple[col.table][col.cell]

Less(a, b) == a # Null /\ b # Null /\ a < b

Compares(op, a, b) ==
    \/ op \in {"=", "<=", ">="} /\ a = b
    \/ op = "<>" /\ a # b
    \/ op \in {"<", "<="} /\ Less(a, b)
    \/ op \in {">", ">="} /\ Less(b, a)

Holds(c, tuple) ==
    \/ c.kind = "isnull" /\ (Value(tuple, c.col) = Null) = ~c.not
    \/ c.kind = "equal" /\ Value(tuple, c.left) = Value(tuple, c.right)
    \/ c.kind = "compare" /\ Compares(c.op, Value(tuple, c.col), c.value)

TermHolds(term, tuple) ==
    \E i \in DOMAIN term : \A j \in DOMAIN term[i] : Holds(term[i][j], tuple)

Tuples(q) ==
    {tuple \in [DOMAIN q.from -> UNION {rows[t] : t \in Tables}] :
        \A i \in DOMAIN q.from : tuple[i] \in rows[q.from[i]]}

Accepted(q) ==
    {tuple \in Tuples(q) : \A i \in DOMAIN q.where : TermHolds(q.where[i], tuple)}

\* The rows of the i-th table that a statement is about.
Affected(q, i) == {tuple[i] : tuple \in Accepted(q)}

-----------------------------------------------------------------------------
Init == rows = [t \in Tables |-> {}]

Insert(t, row) ==
    /\ Cardinality(rows[t]) < MaxRows
    /\ \A r \in rows[t] : KeyOf(t, r) # KeyOf(t, row)
    /\ rows' = [rows EXCEPT ![t] = @ \cup {row}]

Delete(q) == rows' = [rows EXCEPT ![q.from[1]] = @ \ Affected(q, 1)]

\* The first of several assignments to a column counts.
Assigned(u, i, row) ==
    [cell \in DOMAIN row |->
        LET sets == {k \in DOMAIN u.set : u.set[k].table = i /\ u.set[k].cell = cell} IN
        IF sets = {} THEN row[cell]
        ELSE u.set[CHOOSE k \in sets : \A l \in sets : k <= l].value]

Update(u) ==
    rows' = [t \in Tables |->
        IF \E i \in DOMAIN u.from : u.from[i] = t
        THEN LET i == CHOOSE i \in DOMAIN u.from : u.from[i] = t
                 affected == Affected(u, i)
             IN  (rows[t] \ affected) \cup {Assigned(u, i, row) : row \in affected}
        ELSE rows[t]]

Next ==
    \/ \E t \in Tables : \E row \in NewRows[t] : Insert(t, row)
    \/ \E q \in Deletes : Delete(q)
    \/ \E u \in Updates : Update(u)

Spec == Init /\ [][Next]_vars

-----------------------------------------------------------------------------
(***************************************************************************)
(* SELECT does not change anything.  Its result is a sequence of tuples.   *)
(***************************************************************************)

Projection(q, tuple) == [i \in DOMAIN q.columns |-> Value(tuple, q.columns[i])]

\* The values of the first n columns of ORDER BY.
Prefix(q, tuple, n) == [i \in 1..n |-> Value(tuple, q.order[i])]

\* Without DISTINCT every accepted tuple is there once; with it, every
\* projection of one.
IsComplete(q, result) ==
    LET accepted == Accepted(q)
        shown(tuple) == IF q.distinct THEN Projection(q, tuple) ELSE tuple
        shownAt == [i \in DOMAIN result |-> shown(result[i])] IN
    /\ \A i \in DOMAIN result : result[i] \in accepted
    /\ {shown(tuple) : tuple \in accepted} = {shownAt[i] : i \in DOMAIN result}
    /\ \A i, j \in DOMAIN result : shownAt[i] = shownAt[j] => i = j

\* ORDER BY sorts by the first column, then among equal values by the next:
\* integers up from NULL, while strings are in no order but equal ones together.
IsOrdered(q, result) ==
    \A n \in DOMAIN q.order : \A i, j \in DOMAIN result :
        LET a == Value(result[i], q.order[n])
            b == Value(result[j], q.order[n])
            integer == Schema[q.from[q.order[n].table]][q.order[n].cell].type = "integer"
        IN
        i < j /\ Prefix(q, result[i], n - 1) = Prefix(q, result[j], n - 1) =>
            /\ integer => ~Less(b, a) /\ (b = Null => a = Null)
            /\ a # b \/ \A k \in i..j : Prefix(q, result[k], n) = Prefix(q, result[i], n)

IsAnswer(q, result) == IsComplete(q, result) /\ IsOrdered(q, result)
=============================================================================
