---------------------------- MODULE PoolClients -----------------------------
(***************************************************************************)
(* A string pool and the cells that hold references into it.               *)
(*                                                                         *)
(* A cell is a text cell of a table, a name cell of _Tables, _Columns or   *)
(* _Streams, or a stream's name: whatever holds an ID and releases it when *)
(* it goes away.  The database takes its write lock around every statement *)
(* that changes the pool (msidb/database.go), so a statement's calls are   *)
(* one step here.                                                          *)
(*                                                                         *)
(* Each cell also carries the string it was stored with, which the code    *)
(* does not keep: that is what the ID has to go on meaning.                *)
(***************************************************************************)
EXTENDS StringPool

CONSTANT Cells

ASSUME CellsAssumption == IsFiniteSet(Cells)

VARIABLES
    pool,
    cell,        \* what each cell refers to
    saturated    \* history: whether some Intern met a counter at its ceiling

vars == <<pool, cell, saturated>>

Cell == [id: Nat, s: Strings \cup {Blank}, kind: Kinds]

\* A NULL cell refers to nothing.
Null == [id |-> 0, s |-> Blank, kind |-> "persistent"]

\* A cell as Intern leaves it: the empty string takes no reference.
Referring(s, kind) ==
    IF s = Blank THEN Null ELSE [id |-> InternID(pool, s), s |-> s, kind |-> kind]

TypeOK ==
    /\ pool \in Pool
    /\ cell \in [Cells -> Cell]
    /\ saturated \in BOOLEAN

Init ==
    /\ \E cp \in Codepages : pool = New(cp)
    /\ cell = [c \in Cells |-> Null]
    /\ saturated = FALSE

-----------------------------------------------------------------------------
\* Intern finds the counter at its ceiling and drops the reference.
Dropped(s, kind) ==
    /\ s # Blank
    /\ pool.index[s] # 0
    /\ pool.entries[pool.index[s]].refs[kind] = MaxRefcount

\* Mutant of Storable: the strings of temporary cells are checked instead.
StorableMutant(s, kind) == kind = "temporary" => Validate(pool, s)

\* Every string that will be saved has been checked against the code page.  Some
\* of the others have not: names in _Streams never are (convert.go:55), and the
\* name of a temporary table is not checked again, under the code page of the day,
\* when a column is added.
Storable(s, kind) == kind = "persistent" => Validate(pool, s)

\* INSERT fills a cell, or CREATE TABLE a name cell.
Store(c, s, kind) ==
    /\ cell[c].id = 0
    /\ Storable(s, kind)
    /\ pool' = Intern(pool, s, kind)
    /\ cell' = [cell EXCEPT ![c] = Referring(s, kind)]
    /\ saturated' = (saturated \/ Dropped(s, kind))

\* INSERT meets a duplicate key or a failing stream and takes back what it
\* has interned.
StoreFails(s, kind) ==
    /\ Storable(s, kind)
    /\ pool' = Release(Intern(pool, s, kind), InternID(pool, s), kind)
    /\ saturated' = (saturated \/ Dropped(s, kind))
    /\ UNCHANGED cell

\* UPDATE interns the new string before it releases the old one, so that a
\* string replaced by itself keeps its ID.
Replace(c, s) ==
    LET kind == cell[c].kind IN
    /\ cell[c].id # 0
    /\ Storable(s, kind)
    /\ pool' = Release(Intern(pool, s, kind), cell[c].id, kind)
    /\ cell' = [cell EXCEPT ![c] = Referring(s, kind)]
    /\ saturated' = (saturated \/ Dropped(s, kind))

\* DELETE, DROP TABLE, DROP COLUMN, or a stream that goes away.
Clear(c) ==
    /\ cell[c].id # 0
    /\ pool' = Release(pool, cell[c].id, cell[c].kind)
    /\ cell' = [cell EXCEPT ![c] = Null]
    /\ UNCHANGED saturated

ChangeCodepage(cp) ==
    /\ Fits(pool, cp)
    /\ pool' = SetCodepage(pool, cp)
    /\ UNCHANGED <<cell, saturated>>

\* Close writes the pool and Open reads it: what is temporary is gone.
SaveAndOpen ==
    /\ Fits(pool, pool.codepage)
    /\ \E n \in EncodedLens(pool) : \E f \in FreeOrders(Encode(pool, n)) :
        /\ Decodable(Encode(pool, n))
        /\ pool' = Decode(Encode(pool, n), f)
    /\ cell' = [c \in Cells |-> IF cell[c].kind = "persistent" THEN cell[c] ELSE Null]
    /\ UNCHANGED saturated

Next ==
    \/ \E c \in Cells, s \in Strings, kind \in Kinds : Store(c, s, kind)
    \/ \E s \in Strings, kind \in Kinds : StoreFails(s, kind)
    \/ \E c \in Cells, s \in Strings \cup {Blank} : Replace(c, s)
    \/ \E c \in Cells : Clear(c)
    \/ \E cp \in Codepages : ChangeCodepage(cp)
    \/ SaveAndOpen

Spec == Init /\ [][Next]_vars

-----------------------------------------------------------------------------
(***************************************************************************)
(* Properties.                                                             *)
(***************************************************************************)

Holders(id, kind) == {c \in Cells : cell[c].id = id /\ cell[c].kind = kind}

\* The pool's three structures agree after any sequence of Intern, Release,
\* Encode and Decode, saturated or not.
PoolConsistent == Consistent(pool)

\* As long as no counter met its ceiling, each of the two counters of a slot
\* is the number of cells of that kind that refer to it: INSERT, UPDATE and
\* DELETE neither leak a reference nor release one twice, and a save drops
\* the temporary references alone.
CountsExact ==
    ~saturated =>
        \A id \in Ids(pool), kind \in Kinds :
            pool.entries[id].refs[kind] = Cardinality(Holders(id, kind))

\* A cell's ID still means the string the cell was stored with.
Means(c) ==
    Resolves(pool, cell[c].id) /\ Lookup(pool, cell[c].id) = cell[c].s

\* As long as no counter met its ceiling, no cell dangles: its slot is not
\* released, reused for another string or moved by a save while it refers to it.
NoDanglingCell == ~saturated => \A c \in Cells : Means(c)

\* Every string that Close has to write is encodable in the pool's code page,
\* whatever was stored while another code page was set: Encode cannot fail.
SavedStringsFit == Fits(pool, pool.codepage)

\* Slots are reused: there are never more than the cells plus the one string
\* that UPDATE or a failing INSERT holds for a moment.
NoSlotLeak == Len(pool.entries) <= Cardinality(Cells) + 1

\* A table stream is read with the width it was written with: no reference
\* ever outgrows the width the pool announces, and the width never shrinks,
\* even when a save trims the slots that made it grow.
ReferencesFitWidth == \A c \in Cells : cell[c].id > MaxShortRef => LongRefs(pool)

WidthNeverShrinks == [][LongRefs(pool) => LongRefs(pool)']_vars

\* Lookup's comment promises that only a released ID stops resolving, and the
\* pool's tests expect an ID to resolve after a partial Release.
EveryCellResolves == \A c \in Cells : Means(c)
=============================================================================
