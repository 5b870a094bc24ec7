------------------------------ MODULE MCQuery -------------------------------
(***************************************************************************)
(* Query on a small instance: a table with a string for its key, and one   *)
(* whose key is a short integer, which may be NULL, and a string.  They    *)
(* are joined in both orders, by a seek and without, by strings and by     *)
(* integers of different widths.  The string s3 is never stored.           *)
(***************************************************************************)
EXTENDS Query, TLC

CONSTANTS s1, s2, s3

Col(type, size, key) == [type |-> type, size |-> size, key |-> key]

MCSchema == << <<Col("string", 8, TRUE), Col("integer", 4, FALSE), Col("string", 8, FALSE)>>,
               <<Col("integer", 2, TRUE), Col("string", 8, TRUE)>> >>

MCNewRows == << {<<s, n, Null>> : s \in {s1, s2}, n \in {Null, -1}},
                {<<m, s>> : m \in {Null, -1}, s \in {s1, s2}} \cup {<<1, s2>>} >>

MCStrings == {s1, s2, s3}
MCSignBit == (2 :> 2) @@ (4 :> 4)

\* Columns of the first and second table of a statement.
First(cell) == [table |-> 1, cell |-> cell]
Second(cell) == [table |-> 2, cell |-> cell]

IsNull(col, not) == [kind |-> "isnull", col |-> col, not |-> not]
Equal(left, right) == [kind |-> "equal", left |-> left, right |-> right]
Is(col, op, value) == [kind |-> "compare", col |-> col, op |-> op, value |-> value]

\* A term of one condition, an AND of terms, an OR.
Term(cond) == << <<cond>> >>
And(terms) == [i \in DOMAIN terms |-> Term(terms[i])]
Either(l, r) == << <<l>>, <<r>> >>

Where(from, wheres) ==
    {[from |-> from, where |-> w, order |-> <<>>, distinct |-> FALSE, columns |-> <<>>] :
        w \in wheres}

OneTable ==
    Where(<<1>>, {And(<<Is(First(1), "=", s)>>) : s \in {s1, s2, s3, Null}}
        \cup {And(<<Is(First(2), op, -1)>>) : op \in {"=", "<>", "<", "<=", ">", ">="}}
        \cup {And(<<Is(First(3), op, v)>>) : op \in {"=", "<>"}, v \in {s1, s3, Null}}
        \cup {And(<<Equal(First(1), First(3))>>), And(<<IsNull(First(1), FALSE)>>),
              <<Either(Is(First(1), "=", s1), IsNull(First(2), FALSE))>>})
    \cup Where(<<2>>, {And(<<Is(First(1), "=", v)>>) : v \in {-1, 1, 3, Null}}
        \cup {And(<<IsNull(First(1), not)>>) : not \in BOOLEAN}
        \cup {And(<<Is(First(1), "=", -1), Is(First(2), "=", s2)>>),
              And(<<Is(First(1), "=", 1), Is(First(1), "=", -1)>>),
              And(<<Is(First(1), ">", -1), IsNull(First(1), FALSE)>>)})

Joins ==
    Where(<<1, 2>>, {<<>>,
        And(<<Equal(First(2), Second(1))>>),
        And(<<Equal(First(1), Second(2))>>),
        And(<<Equal(First(1), Second(2)), Equal(Second(1), First(2))>>),
        And(<<Is(Second(1), "=", 1), Equal(First(2), Second(1))>>),
        And(<<Equal(First(2), Second(1)), IsNull(Second(1), FALSE)>>),
        <<Either(Equal(First(2), Second(1)), Is(First(1), "=", s2))>>})
    \cup Where(<<2, 1>>, {
        And(<<Equal(First(2), Second(1))>>),
        And(<<Equal(First(1), Second(2))>>),
        And(<<Equal(First(2), Second(1)), Is(Second(3), "<>", s2)>>),
        And(<<Is(First(1), "=", -1), Equal(Second(3), First(2))>>)})

Ordered ==
    {[from |-> <<1>>, where |-> <<>>, order |-> <<First(2)>>, distinct |-> d,
      columns |-> <<First(2)>>] : d \in BOOLEAN}
    \cup {[from |-> <<2>>, where |-> <<>>, order |-> <<First(2), First(1)>>, distinct |-> d,
           columns |-> <<First(2)>>] : d \in BOOLEAN}
    \cup {[from |-> <<2, 1>>, where |-> And(<<IsNull(Second(2), TRUE)>>),
           order |-> <<Second(2), First(1)>>, distinct |-> d,
           columns |-> <<First(1), Second(3)>>] : d \in BOOLEAN}

MCSelects == OneTable \cup Joins \cup Ordered

MCDeletes ==
    Where(<<1>>, {<<>>, And(<<Is(First(1), "=", s2)>>), And(<<IsNull(First(2), FALSE)>>)})
    \cup Where(<<2>>, {And(<<IsNull(First(1), FALSE)>>), And(<<Is(First(1), "=", 1)>>),
                       And(<<Is(First(1), "=", -1), Is(First(2), "=", s1)>>)})

Set(q, sets) == {[from |-> u.from, where |-> u.where, set |-> sets] : u \in q}
Assign(col, value) == [table |-> col.table, cell |-> col.cell, value |-> value]

MCUpdates ==
    Set(Where(<<1>>, {<<>>}), <<Assign(First(2), 3)>>)
    \cup Set(Where(<<1>>, {And(<<Is(First(1), "=", s1)>>)}),
             <<Assign(First(3), s2), Assign(First(3), s1)>>)
    \cup Set(Where(<<1, 2>>, {And(<<Equal(First(1), Second(2))>>)}), <<Assign(First(3), s1)>>)
    \cup Set(Where(<<2, 1>>, {And(<<Equal(First(1), Second(2))>>)}),
             <<Assign(Second(3), Null), Assign(Second(2), -1)>>)
=============================================================================
