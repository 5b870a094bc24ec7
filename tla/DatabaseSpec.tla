---------------------------- MODULE DatabaseSpec ----------------------------
(***************************************************************************)
(* What an open database promises to the statements of a program: tables   *)
(* of records and streams by name.  There are no system tables, no string  *)
(* pool, no counts and no staged blobs here.  Reopen stands for a Close    *)
(* and an Open of the file it wrote.                                       *)
(***************************************************************************)
EXTENDS Integers, Sequences

CONSTANTS
    TableNames, Schemas, Additions, Texts, UserStreams, Summary, StreamKey(_, _), Payloads,
    Null, Object, MaxHolds, MaxColumns

VARIABLES
    tables,     \* name -> columns, holds and records
    streams     \* name -> content

vars == <<tables, streams>>

\* The columns of a table that a file keeps, which come first.
Lasting(cols) == [i \in {j \in DOMAIN cols : ~cols[j].temporary} |-> cols[i]]

\* The cells of a record of as many columns: those it had, then NULLs.
Fitted(rec, n) ==
    [rec EXCEPT !.cells = [i \in 1..n |-> IF i <= Len(rec.cells) THEN rec.cells[i] ELSE Null]]

Reshaped(t, cols, holds) ==
    [cols |-> cols, holds |-> holds, records |-> {Fitted(rec, Len(cols)) : rec \in t.records}]

KeyOf(t, rec) == [i \in {j \in DOMAIN t.cols : t.cols[j].key} |-> rec.cells[i]]

HasObject(t, rec) ==
    \E i \in DOMAIN t.cols : t.cols[i].type = "binary" /\ rec.cells[i] = Object

\* The streams under which records have their OBJECT values.
StreamsOf(name, recs) == {StreamKey(name, KeyOf(tables[name], rec)) : rec \in recs}
ObjectsOf(name, recs) == StreamsOf(name, {rec \in recs : HasObject(tables[name], rec)})

Put(names, data) ==
    streams' = [s \in DOMAIN streams \cup names |-> IF s \in names THEN data ELSE streams[s]]

Remove(names) == streams' = [s \in DOMAIN streams \ names |-> streams[s]]

Init == tables = [n \in {} |-> Null] /\ streams = [s \in {} |-> Null]

-----------------------------------------------------------------------------
\* HOLD keeps a table's temporary columns, which go with the last hold.

Create(name, cols, hold) ==
    LET kept == IF hold THEN cols ELSE Lasting(cols)
        t == [cols |-> kept, holds |-> IF hold THEN 1 ELSE 0, records |-> {}] IN
    /\ name \notin DOMAIN tables /\ kept # <<>>
    /\ tables' = [n \in DOMAIN tables \cup {name} |-> IF n = name THEN t ELSE tables[n]]
    /\ UNCHANGED streams

Add(name, c, hold) ==
    LET t == tables[name] IN
    /\ \A i \in DOMAIN t.cols : t.cols[i].name # c.name
    /\ c.temporary => hold \/ t.holds > 0
    /\ ~c.temporary => Lasting(t.cols) = t.cols
    /\ tables' = [tables EXCEPT ![name] =
            Reshaped(t, Append(t.cols, c), IF hold THEN t.holds + 1 ELSE t.holds)]
    /\ UNCHANGED streams

Hold(name) ==
    /\ tables' = [tables EXCEPT ![name].holds = @ + 1]
    /\ UNCHANGED streams

Drop(name) ==
    /\ tables' = [n \in DOMAIN tables \ {name} |-> tables[n]]
    /\ Remove(ObjectsOf(name, tables[name].records))

Free(name) ==
    LET t == tables[name]
        kept == IF t.holds > 1 THEN t.cols ELSE Lasting(t.cols) IN
    /\ t.holds > 0
    /\ IF kept = <<>> THEN Drop(name)
       ELSE /\ tables' = [tables EXCEPT ![name] = Reshaped(t, kept, t.holds - 1)]
            /\ UNCHANGED streams

-----------------------------------------------------------------------------
Distinct(t, recs) == \A r, q \in recs : KeyOf(t, r) = KeyOf(t, q) => r = q

Exchange(name, out, in) ==
    /\ Distinct(tables[name], (tables[name].records \ out) \cup in)
    /\ tables' = [tables EXCEPT ![name].records = (@ \ out) \cup in]

\* NULL only where the column allows it, and a payload only where a file keeps it.
Admits(c, rec, v) ==
    /\ v = Null => c.nullable
    /\ v = Object => c.type = "binary" /\ ~c.temporary /\ ~rec.temporary

Insert(name, rec) ==
    LET t == tables[name] IN
    /\ \A i \in DOMAIN t.cols : Admits(t.cols[i], rec, rec.cells[i])
    /\ rec \notin t.records
    /\ Exchange(name, {}, {rec})
    /\ IF HasObject(t, rec) THEN \E data \in Payloads : Put(StreamsOf(name, {rec}), data)
                            ELSE UNCHANGED streams

\* UPDATE of one column.
Update(name, recs, i, v) ==
    LET t == tables[name]
        changed == {[rec EXCEPT !.cells[i] = v] : rec \in recs} IN
    /\ ~t.cols[i].key
    /\ \A rec \in recs : Admits(t.cols[i], rec, v)
    /\ Exchange(name, recs, changed)
    /\ IF t.cols[i].type = "string" THEN UNCHANGED streams
       ELSE IF v = Object THEN \E data \in Payloads : Put(StreamsOf(name, recs), data)
       ELSE Remove(StreamsOf(name, {rec \in changed : ~HasObject(t, rec)}))

Delete(name, recs) == Exchange(name, recs, {}) /\ Remove(ObjectsOf(name, recs))

-----------------------------------------------------------------------------
\* A file keeps what is not temporary.
Reopen ==
    LET lasting == {n \in DOMAIN tables : Lasting(tables[n].cols) # <<>>}
        kept(t) == [t EXCEPT !.records = {rec \in @ : ~rec.temporary}] IN
    /\ tables' = [n \in lasting |-> Reshaped(kept(tables[n]), Lasting(tables[n].cols), 0)]
    /\ UNCHANGED streams

\* A statement that fails changes nothing.
Fail == UNCHANGED vars

Next ==
    \/ Fail
    \/ \E names \in SUBSET DOMAIN streams : Remove(names) /\ UNCHANGED tables
    \/ \E names \in SUBSET (UserStreams \cup {Summary} \cup DOMAIN streams), data \in Payloads :
        Put(names, data) /\ UNCHANGED tables
    \/ Reopen
    \/ \E name \in TableNames, cols \in Schemas, hold \in BOOLEAN : Create(name, cols, hold)
    \/ \E name \in DOMAIN tables :
        \/ \E c \in Additions, hold \in BOOLEAN : Add(name, c, hold)
        \/ Hold(name) \/ Free(name) \/ Drop(name)
        \/ \E recs \in SUBSET tables[name].records \ {{}} :
            \/ Delete(name, recs)
            \/ \E i \in DOMAIN tables[name].cols, v \in Texts \cup {Null, Object} :
                Update(name, recs, i, v)
        \/ \E rec \in [cells : [DOMAIN tables[name].cols -> Texts \cup {Null, Object}],
                       temporary : BOOLEAN] : Insert(name, rec)

Spec == Init /\ [][Next]_vars
=============================================================================
