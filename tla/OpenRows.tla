------------------------------ MODULE OpenRows ------------------------------
(***************************************************************************)
(* Open result sets over a table whose columns come and go.                *)
(*                                                                         *)
(* A Rows keeps the records it found as slices of their arrays, and reads  *)
(* them whenever it is asked to.  ALTER TABLE moves every record to a new  *)
(* array while a Rows is open, and leaves a map from the old arrays to the *)
(* new ones, which the last Rows to close removes.  Statements run under   *)
(* the database's lock, but Rows.Close takes it only when the map seems to *)
(* exist, so its atomic operations interleave with those of ALTER TABLE.   *)
(*                                                                         *)
(* Columns are named by numbers that are not used twice, so that a column  *)
(* which takes the place of another one can be told from it.               *)
(***************************************************************************)
EXTENDS Naturals, Sequences, FiniteSets

CONSTANTS
    Rows,
    Records,
    MaxColumns,     \* bound: columns at a time
    MaxAlters       \* bound: ALTER TABLE statements

ASSUME OpenRowsAssumption ==
    /\ IsFiniteSet(Rows) /\ IsFiniteSet(Records)
    /\ MaxColumns \in Nat /\ MaxColumns >= 2
    /\ MaxAlters \in Nat

VARIABLES
    cols,           \* the table's columns, in order
    alters,         \* how many ALTER TABLE statements resized the records
    records,        \* the slice of each record that is in the table
    array,          \* the cells of every array ever made
    moved,          \* t.moved: the slice that replaced each array, once made
    tracking,       \* whether t.moved is not nil
    hasMoved,
    readers,
    row,            \* each Rows: where it is, its records and its columns
    alter           \* the ALTER TABLE in progress, which holds the lock

vars == <<cols, alters, records, array, moved, tracking, hasMoved, readers, row, alter>>

-----------------------------------------------------------------------------
\* A slice is the first width cells of an array.
Slice(a, width) == [array |-> a, width |-> width]

Arrays == DOMAIN array

\* A cell is NULL or not: UPDATE makes a stale one differ from the present one.
NULL == 0
Values == {NULL, 1}

NoRows == [at |-> "closed", buf |-> [id \in {} |-> Slice(1, 1)], cols |-> <<>>]

NoAlter == [at |-> "none", cols |-> <<>>]

\* No statement that writes is in progress.
LockFree == alter.at = "none"

Init ==
    /\ cols = <<1, 2>>
    /\ alters = 0
    /\ array = [i \in 1..Cardinality(Records) |-> <<1, 1>>]
    /\ \E nth \in [Records -> Arrays] :
        /\ \A i, j \in Records : nth[i] = nth[j] => i = j
        /\ records = [id \in Records |-> Slice(nth[id], 2)]
    /\ moved = [a \in {} |-> Slice(1, 1)]
    /\ tracking = FALSE
    /\ hasMoved = FALSE
    /\ readers = 0
    /\ row = [r \in Rows |-> NoRows]
    /\ alter = NoAlter

-----------------------------------------------------------------------------
(***************************************************************************)
(* Rows.                                                                   *)
(***************************************************************************)

\* SELECT gathers the slices and counts the reader, under the read lock.
Select(r) ==
    /\ LockFree
    /\ row[r].at = "closed"
    /\ row' = [row EXCEPT ![r] = [at |-> "open", buf |-> records, cols |-> cols]]
    /\ readers' = readers + 1
    /\ UNCHANGED <<cols, alters, records, array, moved, tracking, hasMoved, alter>>

\* The slices that a slice was moved to, the last one being current.
Trail(slice) ==
    LET next[s \in [array: Arrays, width: 0..MaxColumns]] ==
            IF s.array \in DOMAIN moved THEN <<s>> \o next[moved[s.array]] ELSE <<s>>
    IN  next[slice]

Narrowest(trail) ==
    CHOOSE w \in {trail[i].width : i \in DOMAIN trail} :
        \A i \in DOMAIN trail : w <= trail[i].width

\* Mutant of Record: the record has the width it was last given.
RecordMutant(slice) == Trail(slice)[Len(Trail(slice))]

\* The current record of a slice, cut to the narrowest width on the way.
Record(slice) ==
    LET trail == Trail(slice) IN
    Slice(trail[Len(trail)].array, Narrowest(trail))

\* What Scan and Values read in the i-th column of a record.
ReadCell(r, id, i) ==
    LET rec == Record(row[r].buf[id]) IN
    IF i <= rec.width THEN array[rec.array][i] ELSE NULL

\* Mutant of CloseCount: the last reader alone is taken off the count.
CloseCountMutant(r) ==
    /\ row[r].at = "open"
    /\ readers' = IF readers = 1 THEN 0 ELSE readers
    /\ row' = [row EXCEPT ![r] = [NoRows EXCEPT !.at = IF readers = 1 THEN "last" ELSE "closed"]]
    /\ UNCHANGED <<cols, alters, records, array, moved, tracking, hasMoved, alter>>

\* Close decrements the count, looks at hasMoved if it was the last reader,
\* and takes the lock if it is set, to look again and remove the map.
CloseCount(r) ==
    /\ row[r].at = "open"
    /\ readers' = readers - 1
    /\ row' = [row EXCEPT ![r] = [NoRows EXCEPT !.at = IF readers = 1 THEN "last" ELSE "closed"]]
    /\ UNCHANGED <<cols, alters, records, array, moved, tracking, hasMoved, alter>>

CloseLook(r) ==
    /\ row[r].at = "last"
    /\ row' = [row EXCEPT ![r].at = IF hasMoved THEN "locking" ELSE "closed"]
    /\ UNCHANGED <<cols, alters, records, array, moved, tracking, hasMoved, readers, alter>>

Forget ==
    /\ moved' = [a \in {} |-> Slice(1, 1)]
    /\ tracking' = FALSE
    /\ hasMoved' = FALSE

\* Mutant of CloseClear: a reader that came meanwhile is not noticed.
CloseClearMutant(r) ==
    /\ row[r].at = "locking"
    /\ LockFree
    /\ row' = [row EXCEPT ![r].at = "closed"]
    /\ Forget
    /\ UNCHANGED <<cols, alters, records, array, readers, alter>>

CloseClear(r) ==
    /\ row[r].at = "locking"
    /\ LockFree
    /\ row' = [row EXCEPT ![r].at = "closed"]
    /\ IF readers = 0 THEN Forget ELSE UNCHANGED <<moved, tracking, hasMoved>>
    /\ UNCHANGED <<cols, alters, records, array, readers, alter>>

-----------------------------------------------------------------------------
(***************************************************************************)
(* Statements that write.                                                  *)
(***************************************************************************)

\* UPDATE writes to the record's present array.
Update(id, i) ==
    /\ LockFree
    /\ id \in DOMAIN records
    /\ i \in 1..records[id].width
    /\ \E v \in Values :
        array' = [array EXCEPT ![records[id].array][i] = v]
    /\ UNCHANGED <<cols, alters, records, moved, tracking, hasMoved, readers, row, alter>>

\* DELETE clears the cells of the record's present array.
Delete(id) ==
    /\ LockFree
    /\ id \in DOMAIN records
    /\ array' = [array EXCEPT ![records[id].array] =
            [i \in DOMAIN @ |-> IF i <= records[id].width THEN NULL ELSE @[i]]]
    /\ records' = [k \in DOMAIN records \ {id} |-> records[k]]
    /\ UNCHANGED <<cols, alters, moved, tracking, hasMoved, readers, row, alter>>

\* ALTER TABLE ADD appends a column; FREE drops the last ones.
StartAdd ==
    /\ LockFree
    /\ Len(cols) < MaxColumns
    /\ alters < MaxAlters
    /\ alters' = alters + 1
    /\ alter' = [at |-> "announce", cols |-> Append(cols, 3 + alters)]
    /\ UNCHANGED <<cols, records, array, moved, tracking, hasMoved, readers, row>>

StartDrop(n) ==
    /\ LockFree
    /\ n < Len(cols)
    /\ alters < MaxAlters
    /\ alters' = alters + 1
    /\ alter' = [at |-> "announce", cols |-> SubSeq(cols, 1, n)]
    /\ UNCHANGED <<cols, records, array, moved, tracking, hasMoved, readers, row>>

\* Mutant of Announce: hasMoved is not set before the readers are counted.
AnnounceMutant ==
    /\ alter.at = "announce"
    /\ alter' = [alter EXCEPT !.at = IF tracking THEN "resize" ELSE "count"]
    /\ UNCHANGED <<cols, alters, records, array, moved, tracking, hasMoved, readers, row>>

\* refresh sets hasMoved before it reads the number of readers ...
Announce ==
    /\ alter.at = "announce"
    /\ hasMoved' = (hasMoved \/ ~tracking)
    /\ alter' = [alter EXCEPT !.at = IF tracking THEN "resize" ELSE "count"]
    /\ UNCHANGED <<cols, alters, records, array, moved, tracking, readers, row>>

\* ... makes the map if there is a reader, and takes hasMoved back if not.
CountReaders ==
    /\ alter.at = "count"
    /\ tracking' = (readers > 0)
    /\ alter' = [alter EXCEPT !.at = IF readers > 0 THEN "resize" ELSE "withdraw"]
    /\ UNCHANGED <<cols, alters, records, array, moved, hasMoved, readers, row>>

Withdraw ==
    /\ alter.at = "withdraw"
    /\ hasMoved' = FALSE
    /\ alter' = [alter EXCEPT !.at = "resize"]
    /\ UNCHANGED <<cols, alters, records, array, moved, tracking, readers, row>>

\* The cells of dropped columns are cleared where they are.
Cleared(cells, width) == [i \in DOMAIN cells |-> IF i > width THEN NULL ELSE cells[i]]

\* The cells of a new array: those of the old one, NULL in a new column.
Copied(cells, width) == [i \in 1..width |-> IF i <= Len(cells) THEN cells[i] ELSE NULL]

\* Mutant of InPlace: records are always truncated where they are.
InPlaceMutant(width) == width < Len(cols)

\* Without a map a narrower record stays in its array.
InPlace(width) == width < Len(cols) /\ ~tracking

\* The rest of refresh: every record gets the new width, and the lock is freed.
Resize ==
    LET width == Len(alter.cols)
        order == CHOOSE f \in [1..Cardinality(DOMAIN records) -> DOMAIN records] :
                    \A i, j \in DOMAIN f : f[i] = f[j] => i = j
        fresh == [id \in DOMAIN records |->
                    Len(array) + CHOOSE i \in DOMAIN order : order[i] = id]
        old(id) == array[records[id].array]
        cleared == [a \in Arrays |->
                    IF \E id \in DOMAIN records : records[id].array = a
                    THEN Cleared(array[a], width)
                    ELSE array[a]]
    IN
    /\ alter.at = "resize"
    /\ IF InPlace(width)
       THEN /\ array' = cleared
            /\ records' = [id \in DOMAIN records |-> Slice(records[id].array, width)]
            /\ UNCHANGED moved
       ELSE /\ array' = cleared \o
                [i \in DOMAIN order |->
                    Copied(SubSeq(old(order[i]), 1, records[order[i]].width), width)]
            /\ records' = [id \in DOMAIN records |-> Slice(fresh[id], width)]
            /\ IF tracking
               THEN moved' = [a \in DOMAIN moved \cup {records[id].array : id \in DOMAIN records} |->
                        IF \E id \in DOMAIN records : records[id].array = a
                        THEN Slice(fresh[CHOOSE id \in DOMAIN records : records[id].array = a], width)
                        ELSE moved[a]]
               ELSE UNCHANGED moved
    /\ cols' = alter.cols
    /\ alter' = NoAlter
    /\ UNCHANGED <<alters, tracking, hasMoved, readers, row>>

Next ==
    \/ \E r \in Rows : Select(r) \/ CloseCount(r) \/ CloseLook(r) \/ CloseClear(r)
    \/ \E id \in Records, i \in 1..MaxColumns : Update(id, i)
    \/ \E id \in Records : Delete(id)
    \/ StartAdd
    \/ \E n \in 1..MaxColumns : StartDrop(n)
    \/ Announce \/ CountReaders \/ Withdraw \/ Resize

Spec == Init /\ [][Next]_vars

-----------------------------------------------------------------------------
(***************************************************************************)
(* Properties.                                                             *)
(***************************************************************************)

TypeOK ==
    /\ \A id \in DOMAIN records :
        id \in Records /\ records[id].array \in Arrays /\ records[id].width = Len(cols)
    /\ \A a \in DOMAIN moved : a \in Arrays /\ moved[a].array \in Arrays
    /\ readers = Cardinality({r \in Rows : row[r].at = "open"})
    /\ \A r \in Rows : row[r].at \in {"closed", "open", "last", "locking"}

\* Where a column that was the i-th of a Rows still is, or was dropped.
Present(r, i) == i <= Len(cols) /\ cols[i] = row[r].cols[i]

\* An open Rows sees the present value of each of its records and columns,
\* wherever ALTER TABLE has moved them, and also after another Rows closed.  A
\* record deleted under it reads as all NULL, and so does a column dropped under
\* it, even if another column has taken its place.
ValuesAreLive ==
    LockFree =>
        \A r \in Rows : row[r].at = "open" =>
            \A id \in DOMAIN row[r].buf, i \in DOMAIN row[r].cols :
                ReadCell(r, id, i) = IF id \in DOMAIN records /\ Present(r, i)
                                     THEN array[records[id].array][i] ELSE NULL

\* The map of moved records does not outlive the last Rows: without a Rows
\* that is open or about to remove it there is none, and no flag that one exists.
MapIsFreed ==
    LockFree /\ (\A r \in Rows : row[r].at = "closed") => ~tracking /\ ~hasMoved
=============================================================================
