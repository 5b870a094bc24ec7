------------------------------ MODULE Database ------------------------------
(***************************************************************************)
(* An open database: its tables, the system tables that describe them, the *)
(* references into the string pool, and the streams with the staged blobs  *)
(* they are read from.  Every statement runs under the database's lock, so *)
(* a statement is one step; several goroutines' statements interleave.     *)
(*                                                                         *)
(* A string stands for its ID: StringPool and PoolClients are about the    *)
(* IDs, this module about who holds a reference and of which kind.  A      *)
(* statement that fails before it has changed anything is not a step.      *)
(***************************************************************************)
EXTENDS Integers, FiniteSets, Sequences

CONSTANTS
    TableNames,
    Schemas,            \* the columns that CREATE TABLE may give
    Additions,          \* the columns that ALTER TABLE ADD may give
    Strings,
    Texts,              \* the strings of key and text cells
    UserStreams,        \* the names inserted into _Streams
    Summary,            \* the name of the summary information's stream
    StreamKey(_, _),    \* the stream name of a table's record, by its key
    Payloads,
    Handles,            \* of the blob store: numbers
    OnFile,             \* stands for the handle of a stream in the opened file
    Null,
    Object,             \* an OBJECT cell with a value, stored as 1
    MaxHolds,           \* bound: HOLDs of a table
    MaxColumns,         \* one more than the persistent columns
    MaxRecords          \* bound: records of the database

Column == [name : Strings, type : {"string", "binary"}, key : BOOLEAN, nullable : BOOLEAN,
           temporary : BOOLEAN]

ASSUME DatabaseAssumption ==
    /\ TableNames \cup Texts \cup UserStreams \cup {Summary} \subseteq Strings
    /\ \A t \in TableNames, keys \in {ks \in SUBSET (1..MaxColumns) : 1 \in ks} :
        \A k \in [keys -> Texts \cup {Null}] : StreamKey(t, k) \in Strings
    /\ Null \notin Texts /\ Object \notin Texts \cup {Null} /\ OnFile \notin Handles
    /\ IsFiniteSet(Handles) /\ Handles \subseteq Int
    /\ {MaxHolds, MaxColumns, MaxRecords} \subseteq Nat

\* What execCreate lets pass: the keys come first and the temporary columns last,
\* and a key is temporary only in a table that is.  Integer columns, keys among
\* them, are left out: their cells refer to nothing.
WellFormed(cols) ==
    /\ cols # <<>> => cols[1].key
    /\ \A i \in DOMAIN cols :
        /\ cols[i].key => cols[i].type = "string"
        /\ cols[i].key /\ cols[i].temporary => cols[1].temporary
        /\ i <= IF cols[i].temporary THEN MaxColumns ELSE MaxColumns - 1
        /\ \A j \in 1..(i - 1) : /\ cols[i].name # cols[j].name
                                 /\ cols[i].key => cols[j].key
                                 /\ cols[j].temporary => cols[i].temporary

ASSUME SchemaAssumption ==
    /\ Schemas \subseteq Seq(Column) /\ \A cols \in Schemas : WellFormed(cols)
    /\ Additions \subseteq {c \in Column : ~c.key}

VARIABLES
    tables,             \* name -> columns, holds and records
    tableRecs,          \* the records of _Tables
    columnRecs,         \* the records of _Columns
    streamRecs,         \* the records of _Streams
    sources,            \* stream name -> where its content is
    held,               \* blob -> the references to it; one without is deleted
    pool,               \* <<string, persistent>> -> its reference count
    dirty

vars == <<tables, tableRecs, columnRecs, streamRecs, sources, held, pool, dirty>>

-----------------------------------------------------------------------------
(***************************************************************************)
(* Columns and records.                                                    *)
(***************************************************************************)

Persistent(cols) == ~cols[1].temporary

\* Whether the cell reaches the file.
CellPersistent(rec, c) == ~c.temporary /\ ~rec.temporary

Key(cols, rec) == [i \in {j \in DOMAIN cols : cols[j].key} |-> rec.cells[i]]

StreamName(t, rec) == StreamKey(t, Key(tables[t].cols, rec))

HasBinary(cols, rec) ==
    \E i \in DOMAIN cols : cols[i].type = "binary" /\ rec.cells[i] = Object

\* The columns up to the first temporary one.
PersistentColumns(cols) ==
    SubSeq(cols, 1, Cardinality({i \in DOMAIN cols : ~cols[i].temporary}))

\* The records of the columns that begin behind the first n.
ColumnRecords(name, n, cols) ==
    {[table |-> name, number |-> i, column |-> cols[i]] : i \in (n + 1)..Len(cols)}

-----------------------------------------------------------------------------
(***************************************************************************)
(* References to strings: the places that hold them, each with its string  *)
(* and whether it reaches the file.  A cell is found by its table, the key *)
(* of its record and its column.                                           *)
(***************************************************************************)

Reference(at, s, persistent) == [at |-> at, to |-> <<s, persistent>>]

RecordRefs(name, cols, recs) ==
    UNION {{Reference(<<"cell", name, Key(cols, rec), i>>, rec.cells[i],
                      CellPersistent(rec, cols[i])) :
              i \in {j \in DOMAIN cols : cols[j].type = "string" /\ rec.cells[j] # Null}} :
           rec \in recs}

TableRefs(name, cols) == {Reference(<<"table", name>>, name, Persistent(cols))}

ColumnRefs(recs) ==
    {Reference(<<"column", r, "table">>, r.table, ~r.column.temporary) : r \in recs}
    \cup {Reference(<<"column", r, "name">>, r.column.name, ~r.column.temporary) : r \in recs}

StreamRefs(names) == {Reference(<<"stream", s>>, s, FALSE) : s \in names}

Count(refs, r) == Cardinality({x \in refs : x.to = r})

Intern(p, refs) == [r \in DOMAIN p |-> p[r] + Count(refs, r)]

\* A count of 0 stays 0.
Release(p, refs) ==
    [r \in DOMAIN p |-> IF p[r] > Count(refs, r) THEN p[r] - Count(refs, r) ELSE 0]

-----------------------------------------------------------------------------
(***************************************************************************)
(* Streams.  AddStreams and DropStreams take the pool that the statement   *)
(* has reached when it calls them.                                         *)
(***************************************************************************)

Held(names, h) == Cardinality({s \in names : sources[s].handle = h})

\* A handle that is not in use stands for the next one.
Stage(h) == held[h] = 0 /\ \A g \in Handles : g < h => held[g] # 0

\* Mutant of AddStreams: the source that is replaced is not released.
AddStreamsMutant(names, owned, h, data, p) ==
    /\ sources' = [s \in DOMAIN sources \cup names |->
            IF s \in names THEN [handle |-> h, data |-> data, owned |-> s \in owned]
            ELSE sources[s]]
    /\ streamRecs' = streamRecs \cup names
    /\ held' = [held EXCEPT ![h] = Cardinality(names)]
    /\ pool' = Intern(p, StreamRefs(names \ DOMAIN sources))

\* The streams get one blob between them.  A name takes a reference when it
\* gets its first source.  (owned: those that belong to a record, which the
\* code does not keep.)
AddStreams(names, owned, h, data, p) ==
    /\ sources' = [s \in DOMAIN sources \cup names |->
            IF s \in names THEN [handle |-> h, data |-> data, owned |-> s \in owned]
            ELSE sources[s]]
    /\ streamRecs' = streamRecs \cup names
    /\ held' = [b \in Handles |->
            IF b = h THEN Cardinality(names)
            ELSE held[b] - Held(names \cap DOMAIN sources, b)]
    /\ pool' = Intern(p, StreamRefs(names \ DOMAIN sources))

DropStreams(names, p) ==
    LET gone == names \cap DOMAIN sources IN
    /\ sources' = [s \in DOMAIN sources \ gone |-> sources[s]]
    /\ streamRecs' = streamRecs \ gone
    /\ held' = [b \in Handles |-> held[b] - Held(gone, b)]
    /\ pool' = Release(p, StreamRefs(gone))

-----------------------------------------------------------------------------
(***************************************************************************)
(* CREATE, ALTER and DROP TABLE.                                           *)
(***************************************************************************)

Init ==
    /\ tables = [n \in {} |-> Null]
    /\ tableRecs = {} /\ columnRecs = {} /\ streamRecs = {}
    /\ sources = [s \in {} |-> Null]
    /\ held = [h \in Handles |-> 0]
    /\ pool = [r \in Strings \X BOOLEAN |-> 0]
    /\ dirty = TRUE

\* Without HOLD the temporary columns are not created.
CreateTable(name, cols, hold) ==
    LET kept == IF hold THEN cols ELSE PersistentColumns(cols) IN
    /\ name \notin DOMAIN tables
    /\ hold => MaxHolds > 0
    /\ kept # <<>>
    /\ tables' = [n \in DOMAIN tables \cup {name} |->
            IF n = name THEN [cols |-> kept, holds |-> IF hold THEN 1 ELSE 0, records |-> {}]
            ELSE tables[n]]
    /\ tableRecs' = tableRecs \cup {name}
    /\ columnRecs' = columnRecs \cup ColumnRecords(name, 0, kept)
    /\ pool' = Intern(pool, TableRefs(name, cols) \cup ColumnRefs(ColumnRecords(name, 0, kept)))
    /\ dirty' = TRUE
    /\ UNCHANGED <<streamRecs, sources, held>>

\* A record gets the table's new number of cells.
Resized(rec, n) ==
    [rec EXCEPT !.cells =
        [i \in 1..n |-> IF i <= Len(rec.cells) THEN rec.cells[i] ELSE Null]]

\* Mutant of Refreshed: the records are not resized.
RefreshedMutant(t, cols) == [t EXCEPT !.cols = cols]

Refreshed(t, cols) ==
    [t EXCEPT !.cols = cols, !.records = {Resized(rec, Len(cols)) : rec \in @}]

\* ALTER TABLE ... ADD.
AddColumn(name, c, hold) ==
    LET t == tables[name]
        n == Len(t.cols) + 1 IN
    /\ \A i \in DOMAIN t.cols : t.cols[i].name # c.name
    /\ c.temporary \/ ~t.cols[n - 1].temporary
    /\ n <= IF c.temporary THEN MaxColumns ELSE MaxColumns - 1
    /\ hold => t.holds < MaxHolds
    /\ hold \/ ~c.temporary \/ t.holds > 0
    /\ tables' = [tables EXCEPT ![name] =
            [Refreshed(t, Append(t.cols, c)) EXCEPT !.holds = IF hold THEN @ + 1 ELSE @]]
    /\ columnRecs' = columnRecs \cup ColumnRecords(name, n - 1, Append(t.cols, c))
    /\ pool' = Intern(pool, ColumnRefs(ColumnRecords(name, n - 1, Append(t.cols, c))))
    /\ dirty' = TRUE
    /\ UNCHANGED <<tableRecs, streamRecs, sources, held>>

\* ALTER TABLE ... HOLD.
Hold(name) ==
    /\ tables[name].holds < MaxHolds
    /\ tables' = [tables EXCEPT ![name].holds = @ + 1]
    /\ UNCHANGED <<tableRecs, columnRecs, streamRecs, sources, held, pool, dirty>>

\* The streams that the records give up when they go.
OwnStreams(name, recs) ==
    {StreamName(name, rec) : rec \in {r \in recs : HasBinary(tables[name].cols, r)}}

\* Mutant of DropTable: the streams of its records stay.
DropTableMutant(name) ==
    LET t == tables[name]
        described == {r \in columnRecs : r.table = name} IN
    /\ tables' = [n \in DOMAIN tables \ {name} |-> tables[n]]
    /\ tableRecs' = tableRecs \ {name}
    /\ columnRecs' = columnRecs \ described
    /\ pool' = Release(pool, RecordRefs(name, t.cols, t.records)
                              \cup ColumnRefs(described) \cup TableRefs(name, t.cols))
    /\ UNCHANGED <<streamRecs, sources, held>>

DropTable(name) ==
    LET t == tables[name]
        described == {r \in columnRecs : r.table = name} IN
    /\ tables' = [n \in DOMAIN tables \ {name} |-> tables[n]]
    /\ tableRecs' = tableRecs \ {name}
    /\ columnRecs' = columnRecs \ described
    /\ DropStreams(OwnStreams(name, t.records),
            Release(pool, RecordRefs(name, t.cols, t.records)
                              \cup ColumnRefs(described) \cup TableRefs(name, t.cols)))

Drop(name) == DropTable(name) /\ dirty' = TRUE

\* Mutant of DropTemporaryColumns: their records in _Columns stay.
DropTemporaryColumnsMutant(name) ==
    LET t == tables[name]
        cols == PersistentColumns(t.cols) IN
    /\ tables' = [tables EXCEPT ![name] = [Refreshed(t, cols) EXCEPT !.holds = 0]]
    /\ pool' = Release(pool, {x \in RecordRefs(name, t.cols, t.records) : x.at[4] > Len(cols)})
    /\ UNCHANGED <<columnRecs, tableRecs, streamRecs, sources, held>>

DropTemporaryColumns(name) ==
    LET t == tables[name]
        cols == PersistentColumns(t.cols)
        described == {r \in columnRecs : r.table = name /\ r.number > Len(cols)} IN
    /\ tables' = [tables EXCEPT ![name] = [Refreshed(t, cols) EXCEPT !.holds = 0]]
    /\ columnRecs' = columnRecs \ described
    /\ pool' = Release(pool, ColumnRefs(described) \cup
            {x \in RecordRefs(name, t.cols, t.records) : x.at[4] > Len(cols)})
    /\ UNCHANGED <<tableRecs, streamRecs, sources, held>>

\* ALTER TABLE ... FREE: the last hold keeps the temporary columns.
Free(name) ==
    /\ tables[name].holds > 0
    /\ IF tables[name].holds > 1
       THEN /\ tables' = [tables EXCEPT ![name].holds = @ - 1]
            /\ UNCHANGED <<tableRecs, columnRecs, streamRecs, sources, held, pool>>
       ELSE IF Persistent(tables[name].cols) THEN DropTemporaryColumns(name)
                                             ELSE DropTable(name)
    /\ UNCHANGED dirty

-----------------------------------------------------------------------------
(***************************************************************************)
(* INSERT, UPDATE and DELETE.                                              *)
(***************************************************************************)

\* A record as INSERT may be given it.
NewRecords(cols) ==
    {[cells |-> cells, temporary |-> temporary] :
        cells \in {f \in [DOMAIN cols -> Texts \cup {Null, Object}] :
            \A i \in DOMAIN cols :
                f[i] \in IF cols[i].type = "string" THEN Texts \cup {Null} ELSE {Null, Object}},
        temporary \in BOOLEAN}

RecordCount == Cardinality(UNION {{n} \X tables[n].records : n \in DOMAIN tables})

\* A value that its column does not take.
Refused(rec, c, v) ==
    \/ v = Null /\ ~c.nullable
    \/ v = Object /\ ~CellPersistent(rec, c)

\* INSERT gets through the columns in S.
Accepts(cols, rec, S) == \A i \in S : ~Refused(rec, cols[i], rec.cells[i])

Duplicate(name, rec) ==
    \E r \in tables[name].records : Key(tables[name].cols, r) = Key(tables[name].cols, rec)

Insert(name, rec) ==
    LET interned == Intern(pool, RecordRefs(name, tables[name].cols, {rec})) IN
    /\ RecordCount < MaxRecords
    /\ Accepts(tables[name].cols, rec, DOMAIN tables[name].cols)
    /\ ~Duplicate(name, rec)
    /\ tables' = [tables EXCEPT ![name].records = @ \cup {rec}]
    /\ IF HasBinary(tables[name].cols, rec)
       THEN \E h \in Handles, data \in Payloads :
            LET own == {StreamName(name, rec)} IN Stage(h) /\ AddStreams(own, own, h, data, interned)
       ELSE pool' = interned /\ UNCHANGED <<streamRecs, sources, held>>
    /\ dirty' = TRUE
    /\ UNCHANGED <<tableRecs, columnRecs>>

\* What the columns in S of a new record refer to.
RefsIn(name, rec, S) ==
    {x \in RecordRefs(name, tables[name].cols, {rec}) : x.at[4] \in S}

\* Mutant of InsertFails: the record is no longer known to be temporary when
\* its references are released.
InsertFailsMutant(name, rec) ==
    /\ \E S \in SUBSET DOMAIN tables[name].cols :
        /\ Accepts(tables[name].cols, rec, S)
        /\ pool' = Release(Intern(pool, RefsIn(name, rec, S)),
                           RefsIn(name, [rec EXCEPT !.temporary = FALSE], S))
    /\ UNCHANGED <<tables, tableRecs, columnRecs, streamRecs, sources, held, dirty>>

\* INSERT names columns in any order.  A column, a value, NULL in one that is not
\* named, the key or the payload will not do: what the columns before it, those
\* in S, have interned is released.
InsertFails(name, rec) ==
    /\ \E S \in SUBSET DOMAIN tables[name].cols :
        /\ Accepts(tables[name].cols, rec, S)
        /\ pool' = Release(Intern(pool, RefsIn(name, rec, S)), RefsIn(name, rec, S))
    /\ UNCHANGED <<tables, tableRecs, columnRecs, streamRecs, sources, held, dirty>>

With(rec, i, v) == [rec EXCEPT !.cells[i] = v]

Replaced(name, recs, i, v) ==
    [tables EXCEPT ![name].records = (@ \ recs) \cup {With(rec, i, v) : rec \in recs}]

\* UPDATE of a text column.
UpdateText(name, recs, i, v) ==
    LET cols == tables[name].cols
        refs(rs) == {x \in RecordRefs(name, cols, rs) : x.at[4] = i} IN
    /\ cols[i].type = "string" /\ ~cols[i].key
    /\ v = Null => cols[i].nullable
    /\ tables' = Replaced(name, recs, i, v)
    /\ pool' = Release(Intern(pool, refs({With(rec, i, v) : rec \in recs})), refs(recs))
    /\ dirty' = TRUE
    /\ UNCHANGED <<tableRecs, columnRecs, streamRecs, sources, held>>

\* UPDATE of an OBJECT column with a payload, which the records share.
UpdateObject(name, recs, i, data) ==
    LET cols == tables[name].cols
        names == {StreamName(name, rec) : rec \in recs} IN
    /\ cols[i].type = "binary"
    /\ \A rec \in recs : CellPersistent(rec, cols[i])
    /\ tables' = Replaced(name, recs, i, Object)
    /\ \E h \in Handles : Stage(h) /\ AddStreams(names, names, h, data, pool)
    /\ dirty' = TRUE
    /\ UNCHANGED <<tableRecs, columnRecs>>

\* UPDATE of an OBJECT column with NULL: the stream goes with the last value.
UpdateObjectToNull(name, recs, i) ==
    LET cols == tables[name].cols IN
    /\ cols[i].type = "binary" /\ cols[i].nullable
    /\ tables' = Replaced(name, recs, i, Null)
    /\ DropStreams({StreamName(name, rec) : rec \in
            {r \in recs : ~HasBinary(cols, With(r, i, Null))}}, pool)
    /\ dirty' = TRUE
    /\ UNCHANGED <<tableRecs, columnRecs>>

Delete(name, recs) ==
    /\ tables' = [tables EXCEPT ![name].records = @ \ recs]
    /\ DropStreams(OwnStreams(name, recs),
                   Release(pool, RecordRefs(name, tables[name].cols, recs)))
    /\ dirty' = TRUE
    /\ UNCHANGED <<tableRecs, columnRecs>>

\* INSERT INTO, UPDATE and DELETE FROM _Streams.
InsertStream(s, data) ==
    /\ s \notin DOMAIN sources
    /\ \E h \in Handles : Stage(h) /\ AddStreams({s}, {}, h, data, pool)
    /\ dirty' = TRUE
    /\ UNCHANGED <<tables, tableRecs, columnRecs>>

SetSummaryInformation(data) ==
    /\ \E h \in Handles : Stage(h) /\ AddStreams({Summary}, {}, h, data, pool)
    /\ dirty' = TRUE
    /\ UNCHANGED <<tables, tableRecs, columnRecs>>

UpdateStreams(names, data) ==
    /\ \E h \in Handles :
        Stage(h) /\ AddStreams(names, {s \in names : sources[s].owned}, h, data, pool)
    /\ dirty' = TRUE
    /\ UNCHANGED <<tables, tableRecs, columnRecs>>

\* Mutant of DeleteStreams: the database is not marked dirty.
DeleteStreamsMutant(names) ==
    /\ DropStreams(names, pool)
    /\ UNCHANGED <<tables, tableRecs, columnRecs, dirty>>

DeleteStreams(names) ==
    /\ DropStreams(names, pool)
    /\ dirty' = TRUE
    /\ UNCHANGED <<tables, tableRecs, columnRecs>>

-----------------------------------------------------------------------------
(***************************************************************************)
(* Close writes a file and Open reads it.                                  *)
(***************************************************************************)

\* Mutant of Saved: temporary records are written, too.
SavedMutant(recs, cols) == {SubSeq(rec.cells, 1, Len(PersistentColumns(cols))) : rec \in recs}

Saved(recs, cols) ==
    {SubSeq(rec.cells, 1, Len(PersistentColumns(cols))) : rec \in {r \in recs : ~r.temporary}}

PersistentTables == {n \in DOMAIN tables : Persistent(tables[n].cols)}

\* What encode writes.  A string without a persistent reference is not saved.
File ==
    [strings |-> [s \in {x \in Strings : pool[<<x, TRUE>>] > 0} |-> pool[<<s, TRUE>>]],
     tables |-> tableRecs \cap PersistentTables,
     columns |-> {r \in columnRecs : ~r.column.temporary},
     data |-> [n \in {m \in PersistentTables : \E r \in tables[m].records : ~r.temporary} |->
                  Saved(tables[n].records, tables[n].cols)],
     streams |-> [s \in streamRecs |-> [sources[s] EXCEPT !.handle = OnFile]]]

\* writeStreams fails on a record of _Streams that names nothing.
Encodable ==
    \A s \in streamRecs :
        s \in DOMAIN sources /\ pool[<<s, TRUE>>] + pool[<<s, FALSE>>] > 0

Numbers(f, name) == {r.number : r \in {x \in f.columns : x.table = name}}

ReadColumns(f, name) ==
    [i \in Numbers(f, name) |->
        (CHOOSE r \in f.columns : r.table = name /\ r.number = i).column]

\* What decode accepts.
Decodable(f) ==
    LET KnownCells(cols, cells) ==
            \A i \in DOMAIN cols : cols[i].type = "string" /\ cells[i] # Null
                => cells[i] \in DOMAIN f.strings
        KeyCells(cols, cells) == [i \in {j \in DOMAIN cols : cols[j].key} |-> cells[i]] IN
    /\ f.tables \subseteq DOMAIN f.strings
    /\ \A r \in f.columns :
        /\ r.table \in f.tables
        /\ {r.table, r.column.name} \subseteq DOMAIN f.strings
        /\ \A q \in f.columns : q.table = r.table /\ q # r =>
                q.number # r.number /\ q.column.name # r.column.name
    /\ \A n \in f.tables : \E k \in 1..MaxColumns : Numbers(f, n) = 1..k
    /\ DOMAIN f.data \subseteq f.tables
    /\ \A n \in DOMAIN f.data : \A a \in f.data[n] :
        /\ KnownCells(ReadColumns(f, n), a)
        /\ \A b \in f.data[n] : a # b =>
            KeyCells(ReadColumns(f, n), a) # KeyCells(ReadColumns(f, n), b)

ReadTables(f) ==
    [n \in f.tables |->
        [cols |-> ReadColumns(f, n), holds |-> 0,
         records |-> IF n \in DOMAIN f.data
                     THEN {[cells |-> cells, temporary |-> FALSE] : cells \in f.data[n]}
                     ELSE {}]]

SaveAndOpen ==
    /\ Encodable
    /\ LET f == File IN
        /\ Decodable(f)
        /\ tables' = ReadTables(f)
        /\ tableRecs' = f.tables
        /\ columnRecs' = f.columns
        /\ streamRecs' = DOMAIN f.streams
        /\ sources' = f.streams
        /\ pool' = Intern([r \in DOMAIN pool |->
                              IF r[2] /\ r[1] \in DOMAIN f.strings THEN f.strings[r[1]] ELSE 0],
                          StreamRefs(DOMAIN f.streams))
    /\ held' = [h \in Handles |-> 0]
    /\ dirty' = FALSE

Next ==
    \/ \E name \in TableNames, cols \in Schemas, hold \in BOOLEAN : CreateTable(name, cols, hold)
    \/ \E name \in DOMAIN tables :
        \/ Hold(name)
        \/ Free(name)
        \/ Drop(name)
        \/ \E c \in Additions, hold \in BOOLEAN : AddColumn(name, c, hold)
        \/ \E rec \in NewRecords(tables[name].cols) : Insert(name, rec) \/ InsertFails(name, rec)
        \/ \E recs \in SUBSET tables[name].records \ {{}} :
            \/ Delete(name, recs)
            \/ \E i \in DOMAIN tables[name].cols :
                \/ \E v \in Texts \cup {Null} : UpdateText(name, recs, i, v)
                \/ \E data \in Payloads : UpdateObject(name, recs, i, data)
                \/ UpdateObjectToNull(name, recs, i)
    \/ \E data \in Payloads :
        \/ \E s \in UserStreams : InsertStream(s, data)
        \/ SetSummaryInformation(data)
    \/ \E names \in SUBSET DOMAIN sources \ {{}} :
        \/ \E data \in Payloads : UpdateStreams(names, data)
        \/ DeleteStreams(names)
    \/ SaveAndOpen

Spec == Init /\ [][Next]_vars

-----------------------------------------------------------------------------
(***************************************************************************)
(* Properties.                                                             *)
(***************************************************************************)

\* The types; a table's records have as many cells as it has columns.
TypeOK ==
    /\ DOMAIN tables \subseteq TableNames
    /\ \A n \in DOMAIN tables :
        /\ tables[n].holds \in 0..MaxHolds
        /\ \A rec \in tables[n].records : DOMAIN rec.cells = DOMAIN tables[n].cols
    /\ DOMAIN sources \subseteq Strings
    /\ held \in [Handles -> Nat]
    /\ pool \in [Strings \X BOOLEAN -> Nat]
    /\ dirty \in BOOLEAN

NameRefs(ts) == UNION {TableRefs(n, ts[n].cols) : n \in DOMAIN ts}
CellRefs(ts) == UNION {RecordRefs(n, ts[n].cols, ts[n].records) : n \in DOMAIN ts}

\* The places that refer to strings: the name cells of _Tables and _Columns, the
\* streams, and the cells of tables by the record's key and the column.
References ==
    ColumnRefs(columnRecs) \cup StreamRefs(DOMAIN sources) \cup NameRefs(tables) \cup CellRefs(tables)

\* Each count in the pool is the number of places that refer to the string,
\* with persistent and other places counted apart.
CountsMatch == \A r \in Strings \X BOOLEAN : pool[r] = Count(References, r)

\* _Tables and _Columns describe the tables there are, temporary columns
\* included, and temporary columns are there only while somebody holds them.
CatalogMatches ==
    /\ tableRecs = DOMAIN tables
    /\ columnRecs = UNION {ColumnRecords(n, 0, tables[n].cols) : n \in DOMAIN tables}
    /\ \A n \in DOMAIN tables : \A i \in DOMAIN tables[n].cols :
        tables[n].cols[i].temporary => tables[n].holds > 0

\* Every record of _Streams has a source and every source a record, every
\* source's blob is there, and a blob has as many references as sources read
\* it: it is deleted with its last stream, not before and not later.
StreamsMatch ==
    /\ streamRecs = DOMAIN sources
    /\ \A s \in DOMAIN sources : sources[s].handle \in Handles \cup {OnFile}
    /\ \A h \in Handles : held[h] = Held(DOMAIN sources, h)

\* A stream that was stored through a record's OBJECT cell goes when no record
\* that has a value there derives its name any more.
NoOrphanStream ==
    \A s \in DOMAIN sources : sources[s].owned =>
        \E n \in DOMAIN tables : s \in OwnStreams(n, tables[n].records)

\* What a database keeps when it is saved and opened again.
PersistentPart ==
    [tables |-> [n \in PersistentTables |->
        [cols |-> PersistentColumns(tables[n].cols), holds |-> 0,
         records |-> {[cells |-> cells, temporary |-> FALSE] :
                        cells \in Saved(tables[n].records, tables[n].cols)}]],
     streams |-> [s \in DOMAIN sources |-> sources[s].data]]

\* At any time Close succeeds and Open accepts the file it writes, and finds
\* every persistent table, record and stream as it was: temporary columns,
\* records and tables never carry off a string or a column they share.
SavedFileOpens ==
    /\ Encodable
    /\ LET f == File IN
        /\ Decodable(f)
        /\ ReadTables(f) = PersistentPart.tables
        /\ [s \in DOMAIN f.streams |-> f.streams[s].data] = PersistentPart.streams

\* Close skips the file of a database that is not dirty, so whatever changes
\* what a save would write makes the database dirty.
ChangesAreDirty == [][PersistentPart' # PersistentPart => dirty']_vars

\* To a program the system tables, counts, handles and the file are not there:
\* each statement changes the tables and streams it says and nothing else, one
\* that fails changes nothing, and Close and Open lose only what is temporary.
Statements == INSTANCE DatabaseSpec WITH
    streams <- [s \in DOMAIN sources |-> sources[s].data]
ImplementsDatabaseSpec == Statements!Spec
=============================================================================
