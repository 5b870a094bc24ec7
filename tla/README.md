# go-msi in TLA+

TLA+ models of go-msi, a Go library that reads and writes Windows Installer
databases with SQL, the TLC configurations that check them, and proofs about the
string pool, the blob store, open rows, saving, stream names, and the database with
its statements and queries.

- [The system](#the-system): its parts, their state, what must hold of them
- [The modules](#the-modules): how they correspond to the code, what each run shows
- [The proofs](#the-proofs)
- [The findings](#the-findings)
- [What is only model-checked, and what is not modelled](#limits)
- [The plan](#the-plan)

Run a configuration with `tlc -config X.cfg M` in this directory, where `M` is the
module that `PROJECT.json` names for it, and check the proofs with
`tlapm M.tla` for the eight modules whose name ends in `Proofs`. `PROJECT.json` also
says which theorems they prove, which lines of the code each definition stands for, which hazard each property
is for, and one change of the code per property that makes its run fail.

## The system

An MSI database is a compound file with one stream per table, two for a shared pool
of strings, and one per binary value. The library reads all tables into memory,
changes them with SQL statements, and writes a new file when the database is closed.

| Component | State | Operations | What is hard about it |
|---|---|---|---|
| String pool (`internal/stringpool`) | slots with a string and two counters, an index from strings to slots, a free list, the code page, the width of references | `Intern`, `Release`, `Lookup`, `Validate`, `SetCodepage`, `Encode`, `Decode` | IDs are reused; counters stop at 65535; encoding trims slots and forgets temporary strings |
| Blob store (`internal/blobstore`) | one temporary file, a chain of extents per blob, a free list, open writers | `Create`, `Write`, `Close` of a writer, `Open`, `Read`, `Seek`, `Delete`, `Close` | writers and readers of several goroutines share the file; a failed write gives its extents back; the store may be closed at any time |
| Tables and records (`msidb/table.go`) | columns, sorted records of cells, hold count, readers, the map of moved records | `refresh`, `setCell`, `release` of a record | whether a cell counts as persistent is worked out anew each time it is released |
| Data definition (`msidb/ddl.go`) | `_Tables`, `_Columns` | CREATE, ALTER (ADD, HOLD, FREE), DROP TABLE | FREE may drop columns or the whole table |
| Data manipulation (`msidb/dml.go`) | - | INSERT, UPDATE, DELETE, SELECT | an INSERT that fails has to undo what it did |
| Streams (`msidb/stream.go`) | `_Streams`, sources by name, reference counts of staged blobs | `stage`, `add`, `drop`, deriving a record's stream name | one payload under several streams, stream names that coincide |
| Query results (`msidb/rows.go`) | the records found, as slices of their arrays | `Next`, `Scan`, `Close` | they stay open while columns are added and dropped |
| Opening and saving (`msidb/database.go`) | lock, dirty and closed flags, sink | `New`, `Create`, `Open`, `SetCodepage`, `Close` | every step of a save may fail, the process may be killed, the power may fail, other processes save to the same path |
| File format (`msidb/encode.go`, `decode.go`, `format.go`) | - | `encode`, `decode` | what is written must be accepted when it is read, and bytes that do not fit are dropped without an error |
| Query planning (`msidb/query.go`) | - | the window that a condition on the first key seeks | the window is on decoded values, the order on raw cells |
| Values (`msidb/convert.go`) | - | `convertValue` on the way in, `convertAssign` on the way out | ten integer types and two widths of column, NULL, named types and pointers on paths of their own |
| Summary information (`msidb/summary.go`) | a stream | get, set | - |
| Stream names (`internal/streamname`) | - | `Encode`, `Decode` | pairs of symbols become one character |
| SQL (`internal/sql`) | the current token, the markers so far | `Parse`, `Params` | a dozen functions that each leave the parser at the next token |
| GUIDs, errors, columns | - | pure functions and data types | - |
| Oracle and test helpers (`internal/msiquery`, `internal/msitest`) | - | used by tests | - |

How they interact. A `Database` owns one string pool and one blob store. A statement
(`Exec`) runs under the write lock from its first change to its last; `SetCodepage`,
`SetSummaryInformation` and `Close` take the same lock, `Query` and each read of a
`Rows` the read lock. Statements call the pool for every text they store or remove and the blob
store for every payload. A payload is written by the statement's goroutine from
the caller's `io.Reader`, under the lock. `Rows.Close` takes the lock only
when its table seems to have moved records, after atomic operations on
`table.readers` and `table.hasMoved`. `Close` encodes the database into a temporary
file and renames it.

Two contracts are left to the caller: a payload's `Read` runs under the database's
lock (`stream.go:142`), and `Scan` calls the caller's `Scanner` under the read lock
(`rows.go:80`); either one waits for itself if it uses the same database in a way
that needs the lock.

What makes each component correct:

- *Pool*: an ID means the same string as long as a cell holds it; index, slots and
  free list agree; slots do not leak; what has to be saved fits the code page; no
  reference outgrows the width in which it is stored.
- *Blob store*: a blob reads back what was written to it and only that; no byte of
  the file is lost or owned twice; the temporary file goes.
- *Tables, definition, manipulation*: the pool's counters are exactly the cells that
  refer to a string, whatever statements came before; the system tables describe the
  tables there are.
- *Streams*: a record of `_Streams` has a source and the reverse; a staged blob
  lives as long as a stream reads it; a stream goes with its record.
- *Rows*: reads see present values or NULL, never another column's; the map of
  moved records is freed.
- *Saving*: the path always holds a complete database; `Close` tells the truth;
  what is saved opens again and holds everything that is persistent; a change is
  never skipped because the database does not seem dirty.
- *Query*: a statement is about the records that its WHERE clause accepts, whatever
  window it looks for them in; *manipulation* keeps the records in the order that
  searching relies on.
- *Stream names*: a stream reads back under its name and not as a table, and fits
  the compound file.
- *Format, values*: a column comes back as it was declared, a value as it was stored,
  and a variable that has no room for a value gets an error, never another value.
- *SQL*: a statement is read the way it is written, and every marker has its
  argument.

## The modules

A statement is one step, because no other one can see its intermediate states. Steps
are finer only where the code's locks are: the loop of a `Write`, the atomic
operations around `hasMoved`, the system calls of a save.

### StringPool, PoolClients

`StringPool` has the pool's operations as operators on a record
(`entries`, `index`, `free`, `codepage`, `longRefs`). `Intern` is the choice of
`Reference`, `ReuseSlot` and `AppendSlot`, `Release` that of `Unreference` and
`FreeSlot`. `Encode` trims the slots behind the last one that is saved and writes the
others, and `Decode` makes free slots of those that are not saved, lowest first.
`EncodedLens` and `FreeOrders` are sets with one member, the length and the free list,
because a proof can do more with a member of a set than with a `CHOOSE`. Strings are opaque. A code page is
the set of strings it can represent. The ceiling of the counters (65535) and the
last short reference (65535) are constants.

`PoolClients` adds the cells that hold IDs, whatever they are cells of: INSERT
(`Store`), INSERT that fails (`StoreFails`), UPDATE (`Replace`, interning before it
releases), DELETE (`Clear`), `ChangeCodepage`, `SaveAndOpen`. Two things are there
for the properties only: each cell carries the string it was stored with, and
`saturated` records that some `Intern` met a full counter. `Storable` asks only of strings
that will be saved that the code page has them. Of the others the code checks most, but
not all: names in `_Streams` never (`convertValue` leaves them out), and the name of a
temporary table not once more, after `SetCodepage`, when it gets another column.

| Run | Instance | Shows |
|---|---|---|
| `stringpool` | 3 cells, 3 strings, 2 code pages, ceiling 2, short references up to 2; 25,805 states with symmetry | types, agreement of the three structures, exact counters, no dangling cell, saved strings fit, no slot leak, references fit the announced width, the width never shrinks |
| `stringpool_ceiling` | the same | the counterexample to `EveryCellResolves` |

Three cells are the least that make one slot shared by two cells while another is
free and reused. With a ceiling of 2, all three on one string meet it. The pool has
at most four slots (`NoSlotLeak`), two of them beyond the short references.

### BlobSpec, BlobStore

`BlobStore` has one action per method. `Write` begins with `Write`, then
takes one `WriteChunk` per iteration of its loop, with the store's mutex held
(`Unlocked`), each of which may fail. `Create` may meet a store that was closed before, or between
the creation of the file and the allocation of the handle. `CloseStore` may fail to
remove the file, which it then says; `temp` is `left` from there on. A byte is a pair of its
blob and its position, so that a reader that meets another blob's byte shows.
`Tiled` is stated by owners, the free list and each blob or writer: every byte is in
one extent of one of them. `TypeOK` says that no extent but a writer's open one is
empty (`Filled`), on which the write loop and readers rely.

`BlobSpec` is the abstract store: a map from handles to byte sequences that only
grow, and readers with a position. `ImplementsBlobSpec` is the refinement: a blob is
the bytes of its chain. A reader whose blob was deleted, or whose store was closed,
gets an error and never a byte that another blob has put in its place.

| Run | Instance | Shows |
|---|---|---|
| `blobstore` | 3 blobs of at most 2 bytes, a file of 3, 1 reader; 168,249 states | extents tile the file, no temporary file outlives a `Close` without an error, `Write` returns, the refinement |

Three blobs are needed for a blob that spans two free extents that others left, and
two bytes for a reader that is between them when its blob is deleted and reused.
The reader opens the first blob, whose extents others may get, or the last, which may
have got those of others.
Capacity is a bound of the guards: writing beyond it is not a step.

Fairness: `WriteReturns` assumes that an iteration of the write loop that can be
taken is taken at some time (weak fairness of `WriteChunk`). A goroutine that
holds the mutex in `Write` has nothing to wait for but the file system. No caller
has to call anything.

### OpenRows

A table's records as slices of arrays, `Rows` that keep such slices, and ALTER
TABLE. `refresh` is four steps, `Announce` (sets `hasMoved`), `CountReaders`,
`Withdraw`, `Resize`, because `Rows.Close` does its part without the lock:
`CloseCount` (counts itself out), `CloseLook` (reads `hasMoved`), `CloseClear` (takes
the lock and frees the map). Columns have numbers that are not used twice, to tell a
column from the one that took its index.

| Run | Instance | Shows |
|---|---|---|
| `openrows` | 2 `Rows`, 1 record, 3 columns at a time, 4 ALTER TABLE; 968,778 states with symmetry | reads are of present values, or NULL where the column is gone (`ValuesAreLive`), and the map is freed (`MapIsFreed`) |

Four ALTERs let a column be dropped and replaced twice within the life of one
`Rows`. Records have arrays of their own and do not meet, so that one is enough.
Reads and `Close` of the same `Rows` do not overlap, as the comment on `Rows`
requires.

### SaveFile

`Database.Close` as its system calls: each step of the save is an action and may
fail, which leads to `RemoveTemp`, or to `RemoveTempFails`: the code ignores the error of
the removal. Around it are several processes on the same
path, `Kill`, and `PowerFails`. The file system is modelled from how the code uses
it: programs see its cache, data that was not synced does not survive a power
failure, a rename that the directory has not yet written may be undone, and
`os.CreateTemp` never gives a name that exists. A file's content is the session that
wrote it. `orphans` records the temporary files that killed processes and failed
removals have left, for the properties only.

| Run | Instance | Shows |
|---|---|---|
| `savefile` | 2 processes, 3 sessions, 2 temporary names; 21,896 states with symmetry | the path is always complete (`PathIsComplete`), `Close`'s result is true, no temporary file is shared, or left by a `Close` that could remove it (`TempsArePrivate`), and the path changes only by a finished `Close` or back to what it was |

Two sessions are what may be in each other's way; the third is one that begins
after the first has ended or was killed. Two names let one be taken. The system may stop here
(no session left), and so may the blob store: these configurations do not check for
deadlock, the others do.

### DatabaseSpec, Database

All the statements together: tables with persistent and temporary columns and
records, `_Tables`, `_Columns` and `_Streams`, the references to strings, the
streams, and the save. A column is what CREATE and ADD say of it, a table's columns
are `WellFormed` as CREATE requires (integer columns, which hold no references, are
left out, also as keys), and those that are saved are a prefix, because
CREATE and ADD put temporary ones last. A string stands for its ID here, and `pool` is the count of
references of each kind to each string: `StringPool` and `PoolClients` are about the
IDs, this module about who holds a reference and of which kind. References are
released as the code releases them, from the table's columns and the record's mark
as they are at that moment. A reference has a place: a cell is found by its table, the
key of its record and its column. `CountsMatch` compares the counts with the set of
places there are (`References`).

`InsertFails` is a step: it interns what the columns that came before the failure hold
and releases it. They are any columns whose values will do, because INSERT may name its
columns in any order and finds a NULL in one that it does not name only behind the last.
Statements that fail before they change anything are not steps.
`Stage` takes the lowest handle without references for the next one. A record's
stream name is a constant operator of its table and key, so that instances can make
names coincide. `owned` records which streams were stored through a record's OBJECT cell, for the properties
only. `SaveAndOpen` is `encode` then `decode`, with the checks of both
(`Encodable`, `Decodable`).

`DatabaseSpec` is what a program may rely on: tables of records and streams by name,
without system tables, references, staged payloads or the file. A statement that
fails changes nothing there (`Fail`); `Drop` and `Delete` take the streams of the
records they remove; `Free` is a `Drop` when only temporary columns are left;
`Reopen` keeps what is not temporary. `ImplementsDatabaseSpec` is the refinement, in
which a stream is the payload of its source's blob.

| Run | Instance | Shows |
|---|---|---|
| `database` | 2 tables that share a stream name, 1 text, 1 hold, 3 columns, 2 records; 16,660 states | exact counters by kind, system tables that match, no orphaned stream, what is saved opens with everything persistent in it, the refinement |
| `database_records` | 1 table, 2 records, 2 OBJECT columns, 2 payloads, 4 columns; 18,501 states | streams and blobs match, every change that a save would write sets the dirty flag, the refinement with payloads that differ |

One instance has the collisions and the temporary parts, the other the shared
payloads; one with both is out of TLC's reach. Two records are
the least that share a payload, and one text, which may also be the name of a
stream, the least that a string needs to be referred to as persistent and otherwise at the same time.

### QuerySpec, Query

`Query` has records as the code has them: sequences of raw cells in the order of
their raw keys, where integers have their sign bit flipped and a string is its ID. `Window` finds the
range that a condition on the first key column seeks, by the binary search of
`sort.Search` on *decoded* values (`Ordinal`); `Extended` and `Gather` are the nested
loops of `walk`, in which each term is tested (`Passes`) at the deepest table it reads. INSERT
finds its place by the same search, DELETE moves the records it keeps within its
window, UPDATE changes the records of a join once each.

`QuerySpec` says the same of sets of rows of values, without cells, order, levels or
windows. `ImplementsQuerySpec` is the refinement by `Row`, which reads cells as
values; `SelectsAnswer` says of every SELECT of the instance that it returns the
tuples that `QuerySpec` accepts, each once, and sorted.

A statement's names are resolved, and its WHERE clause is a sequence of the terms
that its top-level ANDs connect, each in disjunctive form. The pool is a map from
strings to IDs; IDs come in any order, because their order decides the order of the
records. Cells of OBJECT columns are left to `Database`. `IsStatement` and `Values` say
what a statement may be once names are resolved and types agree.

| Run | Instance | Shows |
|---|---|---|
| `query` | a table with a string key and one with a short integer, which may be NULL, and a string as its key; 3 records each, 2 IDs, integers of 2 and 3 bits for 2 and 4 bytes; about 40 SELECTs, 6 DELETEs, 4 UPDATEs; 3,639 states | records in key order, right results, right changes |

Three records are the least with one on each side of a window. The SELECTs have
every condition and operator, seeks by constants, NULL, strings that are not stored
and columns of other tables (also of another width), terms that seek the same
level, and joins in both orders.

### StreamName

The names of streams and tables, the names of their entries in the file, and the
checks in between. A name is a sequence of characters, which are numbers, so that
pairs, single symbols, the table marker and other characters are ranges as they are in the code,
with an alphabet of any size. `EncodedLen` and `Encode` are recursive
functions over positions, as the loops are, and `Decode` joins what each character
stands for. The code page is one that has all characters (65001), so that `Validate`
refuses no name; the counterexample needs one that has the reserved characters. Records
are left out: DROP TABLE
takes some or all of the streams that begin with the table's name.

| Run | Instance | Shows |
|---|---|---|
| `streamname` | 3 symbols of 64; all names of one or two of 9 characters and some of up to 7; names of up to 3 code units; 2 tables or streams at a time; 12,828 states | streams read back, lengths are counted right |
| `streamname_tables` | the same | the counterexample to `TablesReadBack` |

The characters are a symbol in both cases, the dot, the character 5, one that the
file refuses, one beyond ASCII, one of two code units, and three that encoding
itself produces. Both clauses are about one name or two, so that two at a time
are enough.

### Cells

One table from CREATE TABLE to `Scan`. `CreateTable` moves the key's columns to the
front by the code's swaps, `AddColumn` appends one, `Insert` converts its arguments
(`ConvertValue`, `Cell`), `SaveAndOpen` writes columns as bits (`PackType`) and cells as
bytes (`EncodeRecords`), and reads them again (`UnpackType`, `DecodeRecords`), and
`ConvertAssign` is what `Scan` does for each kind of variable. A byte has `Byte` values,
and every width follows from it: integers of Go convert modulo their width (`Wrap`,
`Signed`), so that the code's checks after a conversion are checked, too. `declared` and
`given` record what the statements said, for the properties only. `ColumnsReadBack`
compares the columns with the first, `ValuesReadBack` what each kind of variable
scans with the second: the same number or text, or an error if, and only if, the
variable has no room for it.

| Run | Instance | Shows |
|---|---|---|
| `cells` | bytes of 4 values; 14 CREATE TABLE, 3 columns to add, 15 arguments, IDs below and above the short references; 2 records, 2 cells that are not NULL; 27,764 states | columns and values read back, before and after saves |

With four values to a byte, a short integer ends at 7 and a long one at 127, and Go's
integer types still differ in width or sign (4 to 65,536 values). The arguments
lie on both sides of each limit. The CREATE TABLEs have every type, with keys that
change places and temporary columns behind, before and among the others. Two
records show that cells are laid out column by column; two cells, that a wide one
does not run into the next.

A table has at most one OBJECT column, whose payload stays with its record, and
records stay in the order of their insertion: streams are the subject of `Database`,
the order by key that of `Query`. IDs are any of those that are free.

### Scanner, Parser

`Scanner` makes tokens of a text, `Parser` a statement of tokens, one operator per
function of the code. A parser is a record with the code's `tok` and `params` and, for its local
variables, a stack of what was read and is not yet part of a node; a
failed one is passed on as it is, in place of the `if err != nil` behind every call.
A text is a sequence of characters, where the letters of a keyword count as one: next
to other letters it is part of a name, between backticks it is a name. The state is
a text that grows by a lexeme for as long as the parser accepts it or only misses
its end, so that the states are the texts that a user may write, and those with
one mistake at the end.

`StatementsReadBack` compares with the grammar backwards: `Show` writes a tree as a
text with the fewest parentheses, and that text must say what the user's said,
in the same order, with no parenthesis more, and parse to the same tree.
`MarkersMatchArguments` relates three things that the code works out separately:
the numbers of the markers, `Params`, and the text.

| Run | Instance | Shows |
|---|---|---|
| `parser` | 9 ways for a text to begin, each with the lexemes that matter there and up to 13 of them; 2 letters, integers up to 99, widths up to 9; 52,393 states | statements read back, markers match, one value per column |

Conditions have up to 9 lexemes, which is enough for every pair of operators with
parentheses on either side; UPDATE has 13, for two tables, two assignments and a
condition. The limits of integers and widths are constants, so that one digit is
inside and two are outside.

## The proofs

Each theorem is about every value of the constants: any number of cells, tables,
records, columns, streams, blobs, processes and result sets, any schema and statements,
any alphabet and names. What is assumed of them is
declared in the modules, and TLC evaluates it for every instance:

- `StringPoolAssumption`: the ceiling is a positive number, a code page encodes a set of
  strings, and the empty string is not among the interned ones; `CellsAssumption`: there
  are finitely many cells.
- `DatabaseAssumption`, `SchemaAssumption`: what names a table, a text or a stream is a
  string; a record's stream name depends on its table and key, and is a string (no
  assumption keeps two of them apart); NULL, OBJECT and texts are told apart; the columns
  that CREATE takes are as its checks leave them, and ADD adds no key.
- `QueryAssumption`, `SchemaAssumption` and `StatementAssumption` of `Query`: a wide
  integer has more bits than a short one, a table has a key, and a statement is one that
  the code compiles: its columns exist, it names no table twice, comparisons are between
  the same types and integers within a column's limits (`convertValue` refuses others),
  and no UPDATE assigns to a key.
- `StreamNameAssumption`, `SummaryAssumption`: the characters that a compound file
  refuses, or that take two code units, are outside the alphabet and its ranges; no name
  is empty; the name of the summary information's stream passes the check that is not made for it.
- `BlobAssumption`: handles count from 0. `SaveFileAssumption` and `OpenRowsAssumption`:
  there are finitely many processes, rows and records, and the bound on columns admits
  the two that the table starts with.

The bounds of the models (sizes, columns, alters, sessions) are constants, too, so that
the theorems hold for all of them.

Induction over numbers is that of a set of numbers without a least member outside
(`LeastNumber`, `Induction`, from the library's `WFMin`, which takes no operator as a parameter).
A function that the model defines by recursion exists by `RecursiveFunction`, which puts
together the functions that are right for ever larger arguments; only with that does its defining
equation hold, because TLA+ says of a recursive definition no more than that it is
a function with that equation if there is one.

### The string pool

`PoolClientsProofs` begins with the operators. `InternEffect`, `ReleaseEffect` and
`SaveEffect` say of any consistent pool what the operation does to it: consistency is kept, the
ID resolves to the string, no ID that is in use changes its meaning, and exactly one
counter moves by one (in a save: the temporary counters are gone). One lemma per
branch of `Intern` and `Release` shows that index, entries and free list stay in
agreement.

Then comes the state machine, with four inductive invariants.

1. `PoolInv`: types, consistency, and that the saved strings fit the code page. The
   last one is needed for `SaveAndOpen` to be what the code does, and it is inductive by
   itself only together with consistency: `Validate` looks at a string, `SetCodepage`
   at slots. Gives `PoolTypesHold`, `PoolSound` and `SavedStringsAlwaysFit`.
2. `CountInv`: `PoolInv`, and that a cell is NULL exactly if its string is the empty
   one, and, while no counter met its ceiling, that the counters are the numbers of
   holders *and* that cells mean their strings. Neither of the last two is inductive
   alone: a slot is only freed if its counters say so, which is right only if they
   are exact, and a counter is exact only if the ID that is released is that of the
   string that was interned. Gives `CountsStayExact` and `NoCellDangles`.
3. `CountInv` and `~saturated`: with fewer cells than the ceiling `saturated`
   stays false, because each counter is the size of a set of cells. Gives
   `CeilingIsTheOnlyLoss`: every cell resolves for ever. It is the counterpart of the
   finding: the ceiling is the only way to lose a string.
4. `RoomInv`: `CountInv`, and, saturated or not, that no slot counts more references
   than there are cells that hold its ID. That is what is left of exactness when
   references are lost, and it is enough: a live slot has a cell of its own, so that
   a slot is appended only if the cells have taken all the others. Gives
   `SlotsAreReused`, `ReferencesAlwaysFit` and `WidthOnlyGrows`.

The run `stringpool` checks the properties of the first two and of the last on its
instance; its ceiling is below its number of cells, so that counters do saturate there.

### The database

Two modules, one on top of the other.

`DatabaseProofs` proves `ShapeInv`, which leaves the counts of strings out.
`TablesInv` says that a table's columns are well-formed, that its records have a cell of
the right kind for each, and different keys, and that temporary columns are there only
while a HOLD keeps them. `CatalogInv` says that the system
tables are what the tables make them. `StreamInvs` says that the references to a blob are
its streams, that `_Streams` names the sources, and that a stream stored through a
record has a record that leads to it, by its key. They rest on each other: FREE and DROP release what `_Columns` says of a table, not
its columns, and DELETE finds a stream by the key of a record whose table may have lost
and gained columns since it was stored. Gives `CatalogIsTrue`,
`BlobsAreHeld` and `NoStreamIsOrphaned`.

`DatabaseSpecProofs` adds `CountInv`: the pool counts for each string and kind the
places that refer to it. The argument is by places. The references of different cells
are different, because records have different keys; so the references of a table are
those of its parts put together, what a statement interns is at no place that was taken,
and what it releases was there. Then the counts follow from the cardinalities of disjoint
sets. The cases that are not plain are those where a reference changes its
kind or where a reference is released by columns that are not those it was interned with: ALTER,
FREE and UPDATE of a stream's name. Gives `CountsAreExact`.

What follows from both: `DatabaseTypes`; that `encode` refuses
nothing and `decode` refuses nothing of what it wrote (`SavedFileAlwaysOpens`); that
what a save would write changes only together with the dirty flag
(`NothingChangesUnnoticed`); and the refinement, `ImplementsSpec`, with one lemma for
each statement, which names the statement of `DatabaseSpec` that it is.

### Queries

`QueryProofs` is about algorithms more than about states. Its invariant, `QueryInv`, is
small: `ids` is a pool (two strings never have the same ID), the cells of a record fit their columns and resolve, and
records ascend by their keys (`Ascending`). INSERT keeps the last by its binary search,
for which it is needed itself; DELETE because the records it keeps are those of the sequence in the same order
(`Thinned`), UPDATE because it does not touch keys. Gives `RecordsSorted`.

1. `SearchSplits`: binary search over an upward closed set returns the least member, by
   induction over the length of the interval.
2. `WindowFinds`: the window of a seek holds every record that the seek's condition
   accepts. The records ascend by *raw* first key, the search compares *decoded*
   values; the two orders agree within a column (`OrdinalMonotone`), even though NULL,
   which decodes to the least wide integer, need not be next to anything in a short column.
3. `GatherAccepts`: the nested loops return the tuples for which every term holds, each once,
   by induction over the levels. A term is tested as soon as the tables it reads are
   bound, and `MatchesAgree` says that it reads no other.
4. `InOrderLists`: a set in the order of a relation is a list of its members, by
   counting those in front of each, and the sort of ORDER BY keeps what it sorts.
5. `SelectsAreAnswers` and `StatementsImplement` read the tuples as rows of values. They
   need that no two records of a table mean the same row, because of a key in every
   table, and that two strings have different IDs.

### Stream names

`StreamNameProofs` shows of names of any length that Encode and EncodedLen step
through them alike (`EncodedUnits`), and that what a character stands for is read
from it (`WrittenRead`: `(a + b * n) % n` and `\div n` for two symbols of n). Both go by
induction from the end of the name, as the definitions do. `NamesInv` says that there are checked
names only, the three ways to add a stream included of which one makes no check. Gives
`StreamNamesReadBack`, `EntryNamesFit`, and with the marker that no checked name begins with,
`StreamsKeepApart`. For tables the first does not hold; see the findings.

### The blob store

`BlobStoreProofs` proves `BlobInv`: `TypesInv` (the writers of finished blobs are closed,
handles that were not given out are unused, a writer has filled no more than its extent
has, and a growing extent is filled exactly), `ReadersInv`, and `TilesInv`, which is
`Tiled` for all bytes, not only those below the capacity. The steps move extents
between the free list and one blob. `Share` says of one byte what such a step may do with it, and
`Reshared` that a step which does so for every byte keeps the tiling; each action then has a
lemma about the extents that it appends, splits or removes. The types are needed for it: a
failed `Write` gives back the rest of an extent that it has not filled, and a growing
one has no rest. Gives `StoreTypes`, `NoByteIsSharedOrLost` and `NoTempFileIsLeft`.

The refinement, `BlobsImplement`, needs the tiling and four invariants more (`StoreInv`):

- `MutexInv`: one `Write` at a time has bytes left, in a store that is not closed, and what
  is left of it fits the bound on the file. The last part is about the model's `Capacity`
  only: it is why no byte that is written is lost behind the end of the model's file.
- `FailInv`: only an open writer remembers a failure.
- `ViewInv`: a reader's blob has a closed writer, and the size that the reader took is the
  size of its chain for as long as there is one. So a reader that is not at the end finds
  its position in an extent (`HoldingIs`), or its blob is deleted.
- `FreshInv`: before the first `Create` there is nothing, so that the making of the file
  is no step of the map, unless it fails: then it closes the map.

What is stored along a chain is defined by recursion over its extents. `RecursiveFunction`
shows that such a definition has a solution; `UptoIs`, `StoredAppend` and `StoredLocated` say
of chains of any length how many bytes come before an extent and where each byte is in the
file. The step that matters is an iteration of `Write` (`ChunkStored`): the bytes that
it changes are covered by the writer's open extent, by the tiling by no extent of another
blob and by no other of its own (`ChunkApart`), so that every other blob reads as it did
(`StoredStays`); and they come behind those written before, also if the extent was full
and another one was taken (`AdvanceWrites`, `ChunkBytes`). `ReadIs` says that a `Read`, which
stops at the end of an extent, returns the bytes from its position on, and at least one
unless the file fails.

### Open rows

`OpenRowsProofs` has three invariants. `TableInv`: each record is a slice of an array that
exists and is as long as the table's columns are many, and the map of moved records
leads to arrays that exist. `HandshakeInv`: `readers` is the number of open `Rows`;
`hasMoved` is set exactly if there is a map, except that it is set without one between
`Announce` and the count of readers, and until `Withdraw` if there is none; and while there is a map, a `Rows` is open, or was the last to count itself
out and has not yet looked. The last part is what the order of the atomic operations is for: `Announce` before `CountReaders`,
`CloseCount` before `CloseLook`. The two give `OpenRowsTypes` and `MapDoesNotOutliveRows`.

`LiveInv` is about what is read through the map, and gives `RowsReadLiveValues`:

- Each entry of the map leads to an array with a higher number (`MapInv`), so that
  following it ends, and what holds of a slice if it holds of the next one holds of all
  (`MapInduction`). `EndsLaw` says where a slice leads, one entry at a time.
- Each record has an array of its own that was not moved (`RecordsInv`), and a column
  that is added has a number that no column of the table or of a `Rows` has (`Known`).
- From the count of readers until the records are moved, there is a map if anybody
  reads (`TrackedInv`): no reader can come in between, for the lock is held.
- `Live(r)`: a slice of an open `Rows` leads to the array of its record, and is
  cut exactly in front of the first column that is not the one it was (`Current`), or
  leads to cells that are NULL and nobody's if the record was deleted (`Gone`).

The step that matters is `Resize` (`EndsResized`): a slice that led to a record's array
leads on to the new one, no wider than before, and every other slice to where it led. So
dropping a column and adding another in its place does not show the new one to a `Rows`
that knew the old one: the narrowest slice on the way remembers the drop. TLC found
`LiveInv` to hold on the run's instance and on one with two records before it was proved.

### Saving

`SaveFileProofs` proves `SaveInv`: what each process knows at each step of its `Close`
(it has a temporary file exactly between `CreateTemp` and `Rename` or the removal; behind
the `Sync` the file is complete and synced; the result tells whether it was renamed),
that no two processes have the same temporary file and each temporary file has
a process, was left by one that was killed or could not be removed, and `PathIsComplete`. The last is about
what the directory may show after a power failure, and rests on the file being synced
before it is renamed. Gives `SaveTypes`, `NeverHalfWritten`, `CloseTellsTheTruth`,
`NoTempIsLeft` and `OnlyCloseInstalls`.

## The findings

1. A string with more than 65535 references of one kind loses the excess ones
   (`Intern`, `stringpool.go:132-137`). The comment on `maxRefcount` says so. What
   follows from it contradicts the comments on `Lookup` and `Release` and what the
   pool's test expects: after 65535 releases the slot is free although cells still hold
   its ID, `Lookup` fails for them, and the next `Intern` of another string takes the
   ID over. The run `stringpool_ceiling` shows it with a ceiling of 2.

2. CREATE TABLE does not check a name for the characters that the encoding of names
   uses itself, as `checkStreamName` does for streams. A table of such a name is
   written under an entry that decodes to another name, which contradicts the
   comment of `Decode`; if a table of that other name is there, too (`"00"` and
   `"\u3800"`), both have the same entry. The run `streamname_tables` shows it.

<a name="limits"></a>
## What is only model-checked, and what is not modelled

Only model-checked, and for good:

- `WriteReturns`, which is liveness under fairness; no theorem speaks of `ENABLED` either.
- What `Cells`, `Scanner` and `Parser` say. The grammar is recursive by nature: both
  modules, and the reduction of a program's value in `Cells`, are written with recursive
  operators, which the proof system cannot read.

Left out of the modelled parts:

- bytes: the layout of the compound file and of the string pool's records (those of
  tables are in `Cells`);
- the order of records within a table in `Database` (a set by key), and UPDATE of
  several columns at once or over a join there: `Query` has both, without OBJECT
  cells and references;
- in `Query`, the reuse of an ID within the statement that released it (`PoolClients` has
  it: there each assignment of an UPDATE is a `Replace`, and any of them may follow);
- case in names, which the compound file may not tell apart: INSERT refuses a stream
  whose name begins with the character 5 if one is there that differs only in case;
  the summary information and streams derived from a record's key are added
  without that check, and letters beyond ASCII are not folded;
- in `Cells`, floats, which no column takes, stand for the types without a conversion,
  and a destination that is a nil pointer is left out; an unsigned number above the largest
  int64 is stored by a text column as its numeral, which is scanned as a text but
  gives an error for integers (the code parses them as int64);
- in `Parser`, the messages of errors;
- a second `Close`, which returns nil even if the first failed;
- errors of the operating system that leave a call's effect unknown;
- files that this package did not write.

Not modelled at all: sub-storages, which a save copies as it found them; the
property-set codec of the summary information and the compound file, which are
other modules (`oleps`, `go-cfb`); GUIDs and errors, which are pure; and
the packages that only tests use.

`PROJECT.json` lists for each hazard without a property why it has none. Callers
should know of two behaviours: of two processes that save to one path, the
last one wins; and two records whose keys derive the same stream name
share one stream.

## The plan

Done: the models `StringPool`, `PoolClients`, `BlobSpec`, `BlobStore`, `OpenRows`,
`SaveFile`, `DatabaseSpec`, `Database`, `QuerySpec`, `Query`, `StreamName`, `Cells`,
`Scanner` and `Parser`. `PoolClients` extends `StringPool` and `Parser` `Scanner`;
`BlobStore` instantiates `BlobSpec`, `Query` `QuerySpec` and `Database` `DatabaseSpec`; the
others stand alone. Every safety property of `PoolClients`, `BlobStore`, `OpenRows`,
`SaveFile`, `Database`, `Query` and `StreamName`, with the refinements of `BlobSpec`,
`DatabaseSpec` and `QuerySpec`, is proved.

Next: files whose counters understate their cells, as initial states of `PoolClients`: which
of the theorems remain.
