------------------------------- MODULE Cells --------------------------------
(***************************************************************************)
(* The cells of one table: what CREATE TABLE and ALTER TABLE ADD make of   *)
(* the columns (msidb/ddl.go), what INSERT makes of the values of a        *)
(* program (convert.go), the bytes that a save writes and an open reads    *)
(* (format.go, encode.go, decode.go), and what Scan gives back to the      *)
(* program (convert.go).                                                   *)
(*                                                                         *)
(* A byte has Byte values, 256 in the code; the width of every integer     *)
(* follows from it.  The text of a number is its numeral, other texts are  *)
(* members of small sets.  The pool gives a text any of a few free IDs;    *)
(* its own rules are in StringPool.  A table has at most one OBJECT        *)
(* column and records stay in the order of their insertion: streams are    *)
(* the subject of Database, the order by key that of Query.                *)
(***************************************************************************)
EXTENDS Integers, Sequences, FiniteSets, SequencesExt, FiniteSetsExt, TLC

CONSTANTS
    Byte,           \* values of a byte
    Declarations,   \* the CREATE TABLE statements: [columns, key, hold]
    Additions,      \* the columns that ALTER TABLE ADD may give
    Values,         \* the arguments of INSERT, as Go values
    Numbers,        \* the numbers whose numerals occur
    Numerals,       \* other texts that ParseInt takes: text -> number
    Ids,            \* the IDs that the pool gives out
    MaxColumns, MaxPersistentColumns,   \* 32 and 31 in the code
    MaxCells,       \* bound: cells that are not NULL
    MaxRows         \* bound: records

ASSUME CellsAssumption ==
    /\ Byte \in Nat /\ Byte > 1 /\ Byte % 2 = 0
    /\ Ids \subseteq 1..(Byte ^ 3 - 1)

VARIABLES
    cols,       \* the columns of the table, <<>> when there is none
    hold,       \* TRUE when the table is held: temporary columns exist
    rows,       \* sequence of records: sequences of [raw, data]
    pool,       \* ID -> text
    longRefs,   \* references of three bytes
    declared,   \* ghost: the columns that the statements gave, and the key
    given       \* ghost: what the program stored, in the shape of rows

vars == <<cols, hold, rows, pool, longRefs, declared, given>>

-----------------------------------------------------------------------------
(***************************************************************************)
(* Integers of Go: bytes and sign.                                         *)
(***************************************************************************)

SignedOf(n) == [bytes |-> n, signed |-> TRUE]
UnsignedOf(n) == [bytes |-> n, signed |-> FALSE]

IntTypes == [int8 |-> SignedOf(1), int16 |-> SignedOf(2), int32 |-> SignedOf(4),
             int64 |-> SignedOf(8), int |-> SignedOf(8),
             uint8 |-> UnsignedOf(1), uint16 |-> UnsignedOf(2), uint32 |-> UnsignedOf(4),
             uint64 |-> UnsignedOf(8), uint |-> UnsignedOf(8)]

Half(bytes) == (Byte ^ bytes) \div 2
MaxSigned(bytes) == Half(bytes) - 1

\* The conversions T(n) of Go keep the low bytes of n.
Signed(n, bytes) == ((n + Half(bytes)) % (Byte ^ bytes)) - Half(bytes)
Wrap(n, T) == IF IntTypes[T].signed THEN Signed(n, IntTypes[T].bytes)
              ELSE n % (Byte ^ IntTypes[T].bytes)

Nil == [type |-> "nil"]
Error == [type |-> "error"]
Num(T, n) == [type |-> T, of |-> n]
Str(s) == [type |-> "string", of |-> s]
Bytes(s) == [type |-> "bytes", of |-> s]

IsInt(v) == v.type \in DOMAIN IntTypes

\* strconv.ParseInt: the int64 that a text names, or an error.
Named64 ==
    LET plain == {n \in Numbers : Signed(n, 8) = n}
    IN [s \in {ToString(n) : n \in plain} |-> CHOOSE n \in plain : ToString(n) = s] @@ Numerals

ParseInt64(s) == IF s \in DOMAIN Named64 THEN Num("int64", Named64[s]) ELSE Error

-----------------------------------------------------------------------------
(***************************************************************************)
(* From a program's value to a cell.                                       *)
(***************************************************************************)

\* A pointer has a target, nil or not, a Valuer a result and a named type an underlying value.
RECURSIVE Normalize(_)
Normalize(v) ==
    CASE v.type = "pointer" -> Normalize(v.to)
      [] v.type = "valuer" -> Normalize(v.result)
      [] v.type = "named" /\ IsInt(v.under) ->
            Num(IF IntTypes[v.under.type].signed THEN "int64" ELSE "uint64", v.under.of)
      [] v.type = "named" /\ ~IsInt(v.under) -> v.under
      [] OTHER -> v

InRange(v, limit) ==
    IF \/ v.of >= 0 /\ v.of > limit
       \/ Signed(v.of, 8) < -limit
    THEN Error ELSE Num("int", v.of)

IntValue(v, limit) ==
    IF IsInt(v) THEN InRange(v, limit)
    ELSE IF v.type = "string" /\ ParseInt64(v.of) # Error THEN InRange(ParseInt64(v.of), limit)
    ELSE Error

StringValue(v) ==
    IF v.type = "string" THEN v ELSE IF IsInt(v) THEN Str(ToString(v.of)) ELSE Error

BinaryReader(v) ==
    IF v.type \in {"reader", "bytes", "string"} THEN [type |-> "reader", of |-> v.of] ELSE Error

\* convertValue: what column c stores of v, Nil for NULL.
ConvertValue(c, v) ==
    LET n == Normalize(v)
    IN IF n \in {Nil, Str("")} THEN (IF c.nullable THEN Nil ELSE Error)
       ELSE CASE c.type = "integer" -> IntValue(n, MaxSigned(c.size))
              [] c.type = "string" -> StringValue(n)
              [] c.type = "binary" -> BinaryReader(n)

EncodeInt(n, size) == (n + Half(size)) % (Byte ^ size)
DecodeInt(raw, size) == Signed((raw + Half(size)) % (Byte ^ size), size)

IdOf(p, s) == CHOOSE id \in DOMAIN p : p[id] = s

\* The cell of column c for the value w that ConvertValue returned.
Cell(c, w, p) ==
    CASE w.type = "int" -> [raw |-> EncodeInt(w.of, c.size), data |-> Nil]
      [] w.type = "string" -> [raw |-> IdOf(p, w.of), data |-> Nil]
      [] w.type = "reader" -> [raw |-> 1, data |-> w]
      [] w.type = "nil" -> [raw |-> 0, data |-> Nil]

-----------------------------------------------------------------------------
(***************************************************************************)
(* From a cell to a program's variable: convertAssign.                     *)
(*                                                                         *)
(* A destination has a kind: int, with its type T; string; bytes; reader   *)
(* (io.ReadSeeker); any; scanner (sql.Scanner); other.  It may be a        *)
(* pointer to one, or of a named type of the kind.                         *)
(***************************************************************************)

\* A mutant of SetInt: the sign is not compared.
SetIntMutant(T, n) ==
    LET v == Wrap(n, T)
    IN IF Signed(v, 8) # n THEN Error ELSE Num(T, v)

\* set: the check after the conversion catches what did not fit.
SetInt(T, n) ==
    LET v == Wrap(n, T)
    IN IF Signed(v, 8) # n \/ (n < 0 /\ v > 0) THEN Error ELSE Num(T, v)

Overflows(T, n) == IF IntTypes[T].signed THEN Signed(n, IntTypes[T].bytes) # n
                   ELSE n < 0 \/ n >= Byte ^ IntTypes[T].bytes

\* What every kind of destination makes of NULL.
AssignNull(dest) ==
    IF dest.pointer \/ dest.kind \in {"any", "reader", "scanner", "bytes"} THEN Nil
    ELSE IF dest.kind = "string" THEN Str("")
    ELSE Error

\* assignFallback, for the destinations that the type switches leave.
AssignFallback(dest, src) ==
    CASE dest.kind = "scanner" -> IF src.type = "reader" THEN Bytes(src.of) ELSE src
      [] dest.kind = "any" -> src
      [] dest.kind = "reader" -> IF src.type = "reader" THEN src ELSE Error
      [] dest.kind = "string" -> Str(IF IsInt(src) THEN ToString(src.of) ELSE src.of)
      [] dest.kind = "bytes" -> IF IsInt(src) THEN Error ELSE Bytes(src.of)
      [] dest.kind = "int" ->
            LET n == CASE IsInt(src) -> src
                       [] src.type = "string" -> ParseInt64(src.of)
                       [] OTHER -> Error
            IN IF n = Error THEN Error
               ELSE IF Overflows(dest.T, n.of) THEN Error ELSE Num(dest.T, n.of)
      [] dest.kind = "other" -> Error

AssignInt(dest, n) ==
    CASE dest.kind = "int" /\ ~dest.named -> SetInt(dest.T, n)
      [] dest.kind = "string" /\ ~dest.named -> Str(ToString(n))
      [] OTHER -> AssignFallback(dest, Num("int64", n))

AssignString(dest, s) ==
    CASE dest.kind = "string" /\ ~dest.named -> Str(s)
      [] dest.kind = "bytes" /\ ~dest.named /\ ~dest.pointer -> Bytes(s)
      [] dest.kind = "int" /\ ~dest.named ->
            IF ParseInt64(s) = Error THEN Error ELSE SetInt(dest.T, ParseInt64(s).of)
      [] OTHER -> AssignFallback(dest, Str(s))

AssignBinary(dest, rs) ==
    CASE dest.kind = "reader" /\ ~dest.pointer -> rs
      [] dest.kind = "bytes" /\ ~dest.named /\ ~dest.pointer -> Bytes(rs.of)
      [] dest.kind = "string" /\ ~dest.named /\ ~dest.pointer -> Str(rs.of)
      [] OTHER -> AssignFallback(dest, rs)

ConvertAssign(c, cell, dest) ==
    IF cell.raw = 0 THEN AssignNull(dest)
    ELSE CASE c.type = "integer" -> AssignInt(dest, DecodeInt(cell.raw, c.size))
           [] c.type = "string" -> AssignString(dest, pool[cell.raw])
           [] c.type = "binary" -> AssignBinary(dest, cell.data)

-----------------------------------------------------------------------------
(***************************************************************************)
(* Columns.                                                                *)
(***************************************************************************)

ColumnFromDef(d, key) ==
    [name |-> d.name, nullable |-> ~d.notNull, localizable |-> d.localizable,
     temporary |-> d.temporary, primaryKey |-> d.name \in Range(key),
     type |-> CASE d.type \in {"CHAR", "LONGCHAR"} -> "string"
                [] d.type \in {"SHORT", "INT", "LONG"} -> "integer"
                [] d.type = "OBJECT" -> "binary",
     size |-> CASE d.type \in {"CHAR", "LONGCHAR"} -> d.size
                [] d.type \in {"SHORT", "INT"} -> 2
                [] d.type = "LONG" -> 4
                [] d.type = "OBJECT" -> 0]

BinaryKey(c) == c.type = "binary" /\ c.primaryKey

Names(cs) == [i \in DOMAIN cs |-> cs[i].name]
Distinct(s) == Cardinality(Range(s)) = Len(s)
PersistentOf(cs) == SelectSeq(cs, LAMBDA c : ~c.temporary)

\* CREATE TABLE moves the key columns to the front, in the order of the key.
KeyFirst(cs, key) ==
    FoldLeftDomain(LAMBDA s, i :
                      LET j == CHOOSE n \in DOMAIN s : s[n].name = key[i]
                      IN [s EXCEPT ![i] = s[j], ![j] = s[i]],
                   cs, key)

\* The type of a column in _Columns: a width and bits.  It is below 2^14, so that the short
\* integer it is stored as holds it and is never NULL.
Bit(b, n) == IF b THEN 2 ^ n ELSE 0

\* A mutant of PackType: the bit of a long string's kind is left out when it has no width.
PackTypeMutant(c) ==
    c.size + Bit(~c.temporary, 8) + Bit(c.localizable, 9)
    + Bit(c.type = "integer" /\ c.size = 2, 10) + Bit(c.type = "string" /\ c.size > 0, 10)
    + Bit(c.type \in {"binary", "string"}, 11) + Bit(c.nullable, 12) + Bit(c.primaryKey, 13)

PackType(c) ==
    c.size + Bit(~c.temporary, 8) + Bit(c.localizable, 9)
    + Bit(c.type = "integer" /\ c.size = 2, 10) + Bit(c.type = "string", 10)
    + Bit(c.type \in {"binary", "string"}, 11) + Bit(c.nullable, 12) + Bit(c.primaryKey, 13)

HasBit(t, n) == (t \div 2 ^ n) % 2 = 1

UnpackType(name, t) ==
    LET size == t % 256
        type == IF ~HasBit(t, 11) THEN "integer"
                ELSE IF HasBit(t, 10) \/ size > 0 THEN "string"
                ELSE "binary"
    IN [name |-> name, type |-> type, size |-> size, primaryKey |-> HasBit(t, 13),
        nullable |-> HasBit(t, 12), localizable |-> HasBit(t, 9), temporary |-> ~HasBit(t, 8)]

Unsupported(t) ==
    ~HasBit(t, 11) /\ t % 256 # (IF HasBit(t, 10) THEN 2 ELSE 4)

-----------------------------------------------------------------------------
(***************************************************************************)
(* A file.                                                                 *)
(***************************************************************************)

Width(c, long) ==
    CASE c.type = "integer" -> c.size
      [] c.type = "binary" -> 2
      [] c.type = "string" -> IF long THEN 3 ELSE 2

RecordSize(cs, long) == FoldLeft(LAMBDA n, c : n + Width(c, long), 0, cs)

\* The low bytes of a cell, the least first.
Put(raw, w) == [i \in 1..w |-> (raw \div (Byte ^ (i - 1))) % Byte]
Get(b) == FoldRight(LAMBDA byte, n : Byte * n + byte, b, 0)

\* Column after column, the cells of all records.
EncodeRecords(rs, cs, long) ==
    FlattenSeq([c \in DOMAIN cs |->
        FlattenSeq([r \in DOMAIN rs |-> Put(rs[r][c].raw, Width(cs[c], long))])])

\* The raw cells that a stream holds; a table without records has no stream.
DecodeRecords(stream, cs, long) ==
    LET n == Len(stream) \div RecordSize(cs, long)
        start(c) == n * RecordSize(SubSeq(cs, 1, c - 1), long)
        cell(r, c) == LET w == Width(cs[c], long)
                          at == start(c) + (r - 1) * w
                      IN Get(SubSeq(stream, at + 1, at + w))
    IN [r \in 1..n |-> [c \in DOMAIN cs |-> cell(r, c)]]

-----------------------------------------------------------------------------
(***************************************************************************)
(* Statements, a save and an open.                                         *)
(***************************************************************************)

NoTable == [columns |-> <<>>, key |-> <<>>]

CreateTable(d) ==
    LET made == KeyFirst([i \in DOMAIN d.columns |-> ColumnFromDef(d.columns[i], d.key)], d.key)
        persistent == Len(PersistentOf(made))
        kept == IF d.hold THEN made ELSE SubSeq(made, 1, persistent)
        isKept(c) == d.hold \/ ~c.temporary
    IN /\ cols = <<>>
       /\ Distinct(Names(d.columns)) /\ Distinct(d.key)
       /\ Range(d.key) \subseteq Range(Names(d.columns))
       /\ \A i \in DOMAIN made :
            /\ ~BinaryKey(made[i])
            /\ made[i].primaryKey /\ made[i].temporary => persistent = 0
            /\ i <= persistent => ~made[i].temporary
       /\ persistent <= MaxPersistentColumns /\ Len(made) <= MaxColumns
       /\ cols' = kept
       /\ hold' = (d.hold /\ kept # <<>>)
       /\ declared' = IF kept = <<>> THEN NoTable
                      ELSE [columns |-> SelectSeq(d.columns, isKept), key |-> d.key]
       /\ UNCHANGED <<rows, pool, longRefs, given>>

\* ALTER TABLE ADD, of a table that has columns: its records get a NULL.
AddColumn(d, held) ==
    LET c == ColumnFromDef(d, <<>>)
        null == [raw |-> 0, data |-> Nil]
    IN /\ cols # <<>>
       /\ d.name \notin Range(Names(cols))
       /\ ~c.temporary => ~Last(cols).temporary /\ Len(cols) < MaxPersistentColumns
       /\ Len(cols) < MaxColumns
       /\ ~(c.type = "binary" /\ \E i \in DOMAIN cols : cols[i].type = "binary")
       /\ hold' = (hold \/ held)
       /\ IF c.temporary /\ ~hold'
          THEN UNCHANGED <<cols, rows, declared, given>>
          ELSE /\ cols' = Append(cols, c)
               /\ rows' = [r \in DOMAIN rows |-> Append(rows[r], null)]
               /\ declared' = [declared EXCEPT !.columns = Append(@, d)]
               /\ given' = [r \in DOMAIN given |-> Append(given[r], Nil)]
       /\ UNCHANGED <<pool, longRefs>>

KeyCells(rec) == [c \in {i \in DOMAIN cols : cols[i].primaryKey} |-> rec[c].raw]

\* What a program means by the value v of a column: nothing, a number, a text or a payload.
Meaning(c, v) ==
    CASE v \in {Nil, Str("")} -> Nil
      [] c.type = "integer" /\ v.type = "string" -> ParseInt64(v.of)
      [] c.type = "integer" /\ IsInt(v) -> Num("int64", v.of)
      [] c.type = "string" -> Str(IF IsInt(v) THEN ToString(v.of) ELSE v.of)
      [] c.type = "binary" -> Bytes(v.of)

\* arg gives the columns that the statement names their values.
Insert(arg) ==
    LET value(c) == IF c \in DOMAIN arg THEN ConvertValue(cols[c], arg[c]) ELSE Nil
        texts == {value(c).of : c \in {i \in DOMAIN cols : value(i).type = "string"}}
        fresh == texts \ Range(pool)
    IN /\ Len(rows) < MaxRows
       /\ \A c \in DOMAIN cols :
            /\ value(c) # Error
            /\ value(c) = Nil => cols[c].nullable
            /\ value(c).type = "reader" => ~cols[c].temporary
       /\ \E id \in [fresh -> Ids \ DOMAIN pool] :
            /\ Cardinality(Range(id)) = Cardinality(fresh)
            /\ pool' = pool @@ [i \in Range(id) |-> CHOOSE s \in fresh : id[s] = i]
       /\ LET rec == [c \in DOMAIN cols |-> Cell(cols[c], value(c), pool')]
          IN /\ \A r \in DOMAIN rows : KeyCells(rows[r]) # KeyCells(rec)
             /\ rows' = Append(rows, rec)
       /\ longRefs' = (longRefs \/ \E id \in DOMAIN pool' : id >= Byte ^ 2)
       /\ given' = Append(given, [c \in DOMAIN cols |->
                                    IF c \notin DOMAIN arg THEN Nil
                                    ELSE Meaning(cols[c], Normalize(arg[c]))])
       /\ UNCHANGED <<cols, hold, declared>>

\* The columns that a save writes to _Columns, and those whose cells it writes.
SavedColumns == SelectSeq(cols, LAMBDA c : HasBit(PackType(c), 8))
SavedCells ==
    LET temporary == {i \in DOMAIN cols : cols[i].temporary}
    IN IF temporary = {} THEN cols ELSE SubSeq(cols, 1, Min(temporary) - 1)

\* Close, and an open of the file it wrote.
SaveAndOpen ==
    LET stream == EncodeRecords(rows, SavedCells, longRefs)
        opened == [i \in DOMAIN SavedColumns |->
                    UnpackType(SavedColumns[i].name, PackType(SavedColumns[i]))]
        raw == IF opened = <<>> THEN <<>> ELSE DecodeRecords(stream, opened, longRefs)
    IN /\ cols # <<>>
       /\ cols' = opened
       /\ rows' = [r \in DOMAIN raw |-> [c \in DOMAIN opened |->
                    [raw |-> raw[r][c], data |-> rows[r][c].data]]]
       /\ pool' = LET used == {raw[r][c] : r \in DOMAIN raw,
                                 c \in {i \in DOMAIN opened : opened[i].type = "string"}}
                  IN [id \in DOMAIN pool \cap used |-> pool[id]]
       /\ hold' = FALSE
       /\ declared' = IF PersistentOf(declared.columns) = <<>> THEN NoTable
                      ELSE [declared EXCEPT !.columns = PersistentOf(@)]
       /\ given' = IF opened = <<>> THEN <<>>
                   ELSE [r \in DOMAIN given |-> SubSeq(given[r], 1, Len(opened))]
       /\ UNCHANGED longRefs

Stored == Cardinality({rc \in (DOMAIN rows) \X (DOMAIN cols) : given[rc[1]][rc[2]] # Nil})

Init ==
    /\ cols = <<>> /\ hold = FALSE /\ rows = <<>> /\ given = <<>>
    /\ pool = <<>> /\ longRefs = FALSE
    /\ declared = NoTable

Next ==
    \/ \E d \in Declarations : CreateTable(d)
    \/ \E d \in Additions, held \in BOOLEAN : AddColumn(d, held)
    \/ \E S \in {C \in SUBSET DOMAIN cols : Stored + Cardinality(C) <= MaxCells} :
         \E arg \in [S -> Values] : S # {} /\ Insert(arg)
    \/ SaveAndOpen

Spec == Init /\ [][Next]_vars

-----------------------------------------------------------------------------
(***************************************************************************)
(* Properties.                                                             *)
(***************************************************************************)

\* What CREATE TABLE and ALTER TABLE ADD accepted is what the table has, and what it has
\* after a save and an open, temporary columns aside: every column once and with its type,
\* width and flags, those of the key first and in its order, temporary ones last.
ColumnsReadBack ==
    LET key == declared.key
        wanted == {ColumnFromDef(declared.columns[i], key) : i \in DOMAIN declared.columns}
    IN /\ Range(cols) = wanted /\ Len(cols) = Len(declared.columns)
       /\ \A i \in DOMAIN key : cols[i].name = key[i]
       /\ \A i, j \in DOMAIN cols : i < j /\ cols[i].temporary => cols[j].temporary
       /\ \A i \in DOMAIN cols : ~Unsupported(PackType(cols[i]))

Destinations ==
    [kind : {"int"}, T : DOMAIN IntTypes, pointer : BOOLEAN, named : BOOLEAN]
    \cup [kind : {"string", "bytes"}, pointer : BOOLEAN, named : BOOLEAN]
    \cup [kind : {"any", "reader", "other"}, pointer : BOOLEAN, named : {FALSE}]
    \cup [kind : {"scanner"}, pointer : {FALSE}, named : {FALSE}]

\* A text column gives back a number only as an int64: a greater uint64 is a text there.
Number(g) == IF g.type = "string" THEN ParseInt64(g.of) ELSE g

\* Whether a variable of this kind has room for g.
Fits(dest, g) ==
    CASE g = Nil -> dest.kind \notin {"int", "other"} \/ dest.pointer
      [] g # Nil /\ dest.kind = "int" ->
            /\ g.type # "bytes" /\ Number(g) # Error
            /\ LET T == IntTypes[dest.T]
               IN Number(g).of \in (IF T.signed THEN -Half(T.bytes)..MaxSigned(T.bytes)
                                    ELSE 0..(Byte ^ T.bytes - 1))
      [] g # Nil /\ dest.kind # "int" ->
            \/ dest.kind \in {"string", "any", "scanner"}
            \/ dest.kind = "bytes" /\ ~IsInt(g)
            \/ dest.kind = "reader" /\ g.type = "bytes"

\* A record has a cell for each column, no cell is wider than the bytes that a save gives it
\* (encode.go:212 drops the others without a word) and every text is in the pool.
CellsFit ==
    \A r \in DOMAIN rows :
        /\ DOMAIN rows[r] = DOMAIN cols
        /\ \A c \in DOMAIN cols :
            /\ rows[r][c].raw \in 0..(Byte ^ Width(cols[c], longRefs) - 1)
            /\ cols[c].type = "string" => rows[r][c].raw \in DOMAIN pool \cup {0}

\* Scan returns what the program stored, as the same number or the same text, or an error,
\* and an error only when the variable has no room for it: no value is cut to the width of a
\* column, of a variable or of a reference in the file, changes its sign or turns into NULL,
\* and NULL stays NULL.
ValuesReadBack ==
    /\ CellsFit
    /\ \A r \in DOMAIN rows, c \in DOMAIN cols, dest \in Destinations :
           LET g == given[r][c]
               out == ConvertAssign(cols[c], rows[r][c], dest)
           IN /\ (out = Error) = ~Fits(dest, g)
              /\ out # Error =>
                   IF g = Nil THEN out \in {Nil, Str("")}
                   ELSE /\ out # Nil
                        /\ out.of = IF IsInt(out) THEN Number(g).of
                                   ELSE IF IsInt(g) THEN ToString(g.of) ELSE g.of
=============================================================================
