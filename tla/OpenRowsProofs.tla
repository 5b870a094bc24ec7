--------------------------- MODULE OpenRowsProofs ----------------------------
(***************************************************************************)
(* The handshake between ALTER TABLE, which leaves a map of the records it *)
(* moves, and the Rows.Close that removes it: three atomic variables and a *)
(* lock; and what a Rows reads through that map, whichever records it      *)
(* moved.  For any number of result sets and records.                      *)
(***************************************************************************)
EXTENDS OpenRows, FiniteSetTheorems, FunctionTheorems, SequenceTheorems,
        WellFoundedInduction, TLAPS

Phases == {"none", "announce", "count", "withdraw", "resize"}

\* The table, its records and the arrays they are and were kept in.
TableInv ==
    /\ cols \in Seq(Nat) /\ alters \in Nat
    /\ alter \in [at: Phases, cols: Seq(Nat)]
    /\ array \in Seq(Seq(Values))
    /\ DOMAIN records \subseteq Records
    /\ \A id \in DOMAIN records :
        /\ records[id].array \in Arrays
        /\ records[id].width = Len(cols)
        /\ records[id].width <= Len(array[records[id].array])
    /\ \A a \in DOMAIN moved : a \in Arrays /\ moved[a].array \in Arrays

Open == {r \in Rows : row[r].at = "open"}

\* A Rows that was the last reader and has not looked, or not locked, yet.
Closing == {r \in Rows : row[r].at \in {"last", "locking"}}

RowTypes ==
    /\ \A r \in Rows : row[r].at \in {"closed", "open", "last", "locking"}
    /\ DOMAIN row = Rows
    /\ readers = Cardinality(Open)

\* hasMoved is set before the readers are counted, and may be set without a map
\* only while an ALTER TABLE is between the two.
Flags ==
    /\ tracking \in BOOLEAN /\ hasMoved \in BOOLEAN
    /\ IF alter.at \in {"count", "withdraw"} THEN hasMoved /\ ~tracking
                                             ELSE hasMoved <=> tracking

\* Somebody is there who will remove the map.
SomebodyForgets == tracking => Open # {} \/ Closing # {}

HandshakeInv == RowTypes /\ Flags /\ SomebodyForgets

\* There are finitely many open results, and none when their number is zero.
LEMMA OpenFinite ==
    IsFiniteSet(Open) /\ Cardinality(Open) \in Nat /\ (Cardinality(Open) = 0 <=> Open = {})
<1>1. Open \subseteq Rows
  BY DEF Open
<1>. QED  BY <1>1, OpenRowsAssumption, FS_Subset, FS_CardinalityType, FS_EmptySet

\* No result is open at first.
LEMMA HandshakeInit == Init => HandshakeInv
<1> SUFFICES ASSUME Init PROVE HandshakeInv
  OBVIOUS
<1>1. \A r \in Rows : row[r].at = "closed"
  BY DEF Init, NoRows
<1>2. Open = {}
  BY <1>1 DEF Open
<1>3. RowTypes
  BY <1>1, <1>2, FS_EmptySet DEF RowTypes, Init
<1>4. Flags /\ SomebodyForgets
  BY DEF Init, NoAlter, Flags, SomebodyForgets
<1>. QED  BY <1>3, <1>4 DEF HandshakeInv

\* A step that leaves every Rows where it is.
LEMMA RowsStay ==
    ASSUME HandshakeInv, row' = row, readers' = readers, Flags', tracking' => tracking \/ readers > 0
    PROVE  HandshakeInv'
<1>1. Open' = Open /\ Closing' = Closing
  BY DEF Open, Closing
<1>2. tracking' => Open # {} \/ Closing # {}
  <2>1. readers > 0 => Open # {}
    BY OpenFinite DEF HandshakeInv, RowTypes
  <2>. QED  BY <2>1 DEF HandshakeInv, SomebodyForgets
<1>. QED  BY <1>1, <1>2 DEF HandshakeInv, RowTypes, SomebodyForgets

\* A result that is opened is counted.
LEMMA SelectStep == ASSUME HandshakeInv, NEW r \in Rows, Select(r) PROVE HandshakeInv'
<1>1. /\ row[r].at = "closed" /\ readers' = readers + 1
      /\ row' = [row EXCEPT ![r] = [at |-> "open", buf |-> records, cols |-> cols]]
      /\ UNCHANGED <<alter, tracking, hasMoved>>
  BY DEF Select
<1>2. /\ DOMAIN row' = Rows /\ row'[r].at = "open"
      /\ \A q \in Rows : q # r => row'[q] = row[q]
  BY <1>1 DEF HandshakeInv, RowTypes
<1>3. Open' = Open \cup {r} /\ r \notin Open
  BY <1>1, <1>2 DEF Open
<1>4. RowTypes'
  BY <1>1, <1>2, <1>3, OpenFinite, FS_AddElement DEF HandshakeInv, RowTypes
<1>. QED  BY <1>1, <1>3, <1>4 DEF HandshakeInv, Flags, SomebodyForgets

\* A result that is closed is no longer counted.
LEMMA CloseCountStep == ASSUME HandshakeInv, NEW r \in Rows, CloseCount(r) PROVE HandshakeInv'
<1> DEFINE to == IF readers = 1 THEN "last" ELSE "closed"
<1>1. /\ row[r].at = "open" /\ readers' = readers - 1
      /\ row' = [row EXCEPT ![r] = [NoRows EXCEPT !.at = to]]
      /\ UNCHANGED <<alter, tracking, hasMoved>>
  BY DEF CloseCount
<1>2. /\ DOMAIN row' = Rows /\ row'[r].at = to
      /\ \A q \in Rows : q # r => row'[q] = row[q]
  BY <1>1 DEF HandshakeInv, RowTypes, NoRows
<1>3. Open' = Open \ {r} /\ r \in Open
  BY <1>1, <1>2 DEF Open
<1>4. Cardinality(Open') = Cardinality(Open) - 1 /\ readers = Cardinality(Open)
      /\ Cardinality(Open) \in Nat
  BY <1>3, OpenFinite, FS_RemoveElement DEF HandshakeInv, RowTypes
<1>5. RowTypes'
  BY <1>1, <1>2, <1>4 DEF HandshakeInv, RowTypes
<1>6. Open' # {} \/ Closing' # {}
  <2>1. CASE readers = 1
    BY <1>2, <2>1 DEF Closing
  <2>2. CASE readers # 1
    BY <1>4, <2>2, FS_EmptySet
  <2>. QED  BY <2>1, <2>2
<1>. QED  BY <1>1, <1>5, <1>6 DEF HandshakeInv, Flags, SomebodyForgets

\* The last reader sees hasMoved if there is a map.
LEMMA CloseLookStep == ASSUME HandshakeInv, NEW r \in Rows, CloseLook(r) PROVE HandshakeInv'
<1> DEFINE to == IF hasMoved THEN "locking" ELSE "closed"
<1>1. /\ row[r].at = "last"
      /\ row' = [row EXCEPT ![r].at = to]
      /\ UNCHANGED <<alter, tracking, hasMoved, readers>>
  BY DEF CloseLook
<1>2. /\ DOMAIN row' = Rows /\ row'[r].at = to
      /\ \A q \in Rows : q # r => row'[q] = row[q]
  BY <1>1 DEF HandshakeInv, RowTypes
<1>3. Open' = Open
  BY <1>1, <1>2 DEF Open
<1>4. RowTypes'
  BY <1>1, <1>2, <1>3 DEF HandshakeInv, RowTypes
<1>5. tracking => hasMoved
  BY DEF HandshakeInv, Flags
<1>6. hasMoved => Closing' # {}
  BY <1>2 DEF Closing
<1>. QED  BY <1>1, <1>4, <1>5, <1>6 DEF HandshakeInv, Flags, SomebodyForgets

\* The result that was last clears the map while nobody reads it.
LEMMA CloseClearStep == ASSUME HandshakeInv, NEW r \in Rows, CloseClear(r) PROVE HandshakeInv'
<1>1. /\ row[r].at = "locking" /\ alter.at = "none"
      /\ row' = [row EXCEPT ![r].at = "closed"]
      /\ readers = 0 => ~tracking' /\ ~hasMoved' /\ tracking' \in BOOLEAN /\ hasMoved' \in BOOLEAN
      /\ readers # 0 => UNCHANGED <<tracking, hasMoved>>
      /\ UNCHANGED <<alter, readers>>
  BY DEF CloseClear, Forget, LockFree
<1>2. /\ DOMAIN row' = Rows /\ row'[r].at = "closed"
      /\ \A q \in Rows : q # r => row'[q] = row[q]
  BY <1>1 DEF HandshakeInv, RowTypes
<1>3. Open' = Open
  BY <1>1, <1>2 DEF Open
<1>4. RowTypes'
  BY <1>1, <1>2, <1>3 DEF HandshakeInv, RowTypes
<1>5. Flags'
  BY <1>1 DEF HandshakeInv, Flags
<1>6. tracking' => Open' # {}
  BY <1>1, <1>3, OpenFinite DEF HandshakeInv, RowTypes
<1>. QED  BY <1>4, <1>5, <1>6 DEF HandshakeInv, SomebodyForgets

\* Every step keeps the handshake.
LEMMA HandshakeStep == TableInv /\ HandshakeInv /\ [Next]_vars => HandshakeInv'
<1> SUFFICES ASSUME TableInv, HandshakeInv, [Next]_vars PROVE HandshakeInv'
  OBVIOUS
<1>0. /\ Flags /\ RowTypes /\ Cardinality(Open) \in Nat
      /\ alter \in [at: Phases, cols: Seq(Nat)]
  BY OpenFinite DEF HandshakeInv, TableInv
<1>1. ASSUME NEW r \in Rows, Select(r) \/ CloseCount(r) \/ CloseLook(r) \/ CloseClear(r)
      PROVE  HandshakeInv'
  BY <1>1, SelectStep, CloseCountStep, CloseLookStep, CloseClearStep
<1>2. ASSUME NEW id \in Records, Delete(id) \/ \E i \in 1..MaxColumns : Update(id, i)
      PROVE  HandshakeInv'
  <2>1. UNCHANGED <<row, readers, tracking, hasMoved, alter>>
    BY <1>2 DEF Delete, Update
  <2>. QED  BY <1>0, <2>1, RowsStay DEF Flags
<1>3. ASSUME StartAdd \/ \E n \in 1..MaxColumns : StartDrop(n)
      PROVE  HandshakeInv'
  <2>1. UNCHANGED <<row, readers, tracking, hasMoved>> /\ alter.at = "none"
        /\ alter'.at = "announce"
    BY <1>3 DEF StartAdd, StartDrop, LockFree
  <2>. QED  BY <1>0, <2>1, RowsStay DEF Flags
<1>4. CASE Announce
  <2>1. /\ alter.at = "announce" /\ UNCHANGED <<row, readers, tracking>>
        /\ hasMoved' = (hasMoved \/ ~tracking)
        /\ alter'.at = IF tracking THEN "resize" ELSE "count"
    BY <1>0, <1>4 DEF Announce
  <2>2. Flags'
    BY <1>0, <2>1 DEF Flags
  <2>. QED  BY <2>1, <2>2, RowsStay
<1>5. CASE CountReaders
  <2>1. /\ alter.at = "count" /\ UNCHANGED <<row, readers, hasMoved>>
        /\ tracking' \in BOOLEAN /\ (tracking' <=> readers > 0)
        /\ alter'.at = IF readers > 0 THEN "resize" ELSE "withdraw"
    <3>1. /\ alter.at = "count" /\ UNCHANGED <<row, readers, hasMoved>>
          /\ alter'.at = IF readers > 0 THEN "resize" ELSE "withdraw"
      BY <1>0, <1>5 DEF CountReaders
    <3>2. tracking' = (readers > 0)
      BY <1>5 DEF CountReaders
    <3>3. tracking' \in BOOLEAN
      BY <3>2
    <3>4. tracking' <=> readers > 0
      BY <3>2, Zenon
    <3>. QED  BY <3>1, <3>3, <3>4
  <2>2. hasMoved /\ hasMoved'
    BY <1>0, <2>1 DEF Flags
  <2>3. ASSUME readers > 0 PROVE Flags'
    <3>1. tracking' /\ tracking' \in BOOLEAN /\ alter'.at = "resize"
      BY <2>1, <2>3
    <3>. QED  BY <2>2, <3>1 DEF Flags
  <2>4. ASSUME ~(readers > 0) PROVE Flags'
    <3>1. ~tracking' /\ tracking' \in BOOLEAN /\ alter'.at = "withdraw"
      BY <2>1, <2>4
    <3>. QED  BY <2>2, <3>1 DEF Flags
  <2>5. Flags'
    BY <2>3, <2>4
  <2>. QED  BY <2>1, <2>5, RowsStay
<1>6. CASE Withdraw
  <2>1. /\ alter.at = "withdraw" /\ UNCHANGED <<row, readers, tracking>>
        /\ ~hasMoved' /\ hasMoved' \in BOOLEAN
        /\ alter'.at = "resize"
    BY <1>0, <1>6 DEF Withdraw
  <2>2. ~tracking
    BY <1>0, <2>1 DEF Flags
  <2>3. ~tracking' /\ tracking' \in BOOLEAN
    BY <1>0, <2>1, <2>2 DEF Flags
  <2>4. Flags'
    BY <2>1, <2>3 DEF Flags
  <2>. QED  BY <2>1, <2>3, <2>4, RowsStay
<1>7. CASE Resize
  <2>1. /\ alter.at = "resize" /\ UNCHANGED <<row, readers, tracking, hasMoved>>
        /\ alter'.at = "none"
    BY <1>7 DEF Resize, NoAlter
  <2>. QED  BY <1>0, <2>1, RowsStay DEF Flags
<1>8. CASE UNCHANGED vars
  <2>1. UNCHANGED <<row, readers, tracking, hasMoved, alter>>
    BY <1>8 DEF vars
  <2>. QED  BY <1>0, <2>1, RowsStay DEF Flags
<1>. QED  BY <1>1, <1>2, <1>3, <1>4, <1>5, <1>6, <1>7, <1>8 DEF Next

-----------------------------------------------------------------------------
(***************************************************************************)
(* The records and their arrays.                                           *)
(***************************************************************************)

\* The table is well formed at first.
LEMMA TableInit == Init => TableInv
<1> SUFFICES ASSUME Init PROVE TableInv
  OBVIOUS
<1>0. Cardinality(Records) \in Nat
  BY OpenRowsAssumption, FS_CardinalityType
<1>1. array \in Seq(Seq(Values)) /\ Arrays = 1..Cardinality(Records)
      /\ \A a \in Arrays : Len(array[a]) = 2
  <2>1. <<1, 1>> \in Seq(Values) /\ Len(<<1, 1>>) = 2
    BY DEF Values
  <2>2. array = [i \in 1..Cardinality(Records) |-> <<1, 1>>]
    BY DEF Init
  <2>3. ASSUME NEW n \in Nat, NEW c \in Seq(Values), array = [i \in 1..n |-> c]
        PROVE  array \in Seq(Seq(Values)) /\ DOMAIN array = 1..n
    BY <2>3
  <2>. QED  BY <1>0, <2>1, <2>2, <2>3 DEF Arrays
<1>2. PICK nth \in [Records -> Arrays] : records = [id \in Records |-> Slice(nth[id], 2)]
  BY DEF Init
<1>3. cols \in Seq(Nat) /\ Len(cols) = 2
  BY DEF Init
<1>4. \A id \in Records : records[id].array \in Arrays /\ records[id].width = 2
  BY <1>2 DEF Slice
<1>5. alter \in [at: Phases, cols: Seq(Nat)]
  BY DEF Init, NoAlter, Phases
<1>. QED  BY <1>1, <1>2, <1>3, <1>4, <1>5 DEF Init, TableInv

\* Writing the cells of one array.
LEMMA WriteStep ==
    ASSUME TableInv, NEW a \in Arrays, NEW cells \in Seq(Values),
           Len(cells) = Len(array[a]), array' = [array EXCEPT ![a] = cells]
    PROVE  /\ array' \in Seq(Seq(Values)) /\ Arrays' = Arrays
           /\ \A b \in Arrays : Len(array'[b]) = Len(array[b])
BY DEF TableInv, Arrays

\* An update keeps the table's types.
LEMMA UpdateStep ==
    ASSUME TableInv, NEW id \in Records, NEW i \in 1..MaxColumns, Update(id, i)
    PROVE  TableInv'
<1>1. /\ id \in DOMAIN records /\ i \in 1..records[id].width
      /\ UNCHANGED <<cols, alters, records, moved, alter>>
  BY DEF Update
<1>2. PICK v \in Values : array' = [array EXCEPT ![records[id].array][i] = v]
  BY DEF Update
<1> DEFINE a == records[id].array
           cells == [array[a] EXCEPT ![i] = v]
<1>3. a \in Arrays /\ array[a] \in Seq(Values) /\ i \in 1..Len(array[a])
  BY <1>1 DEF TableInv, Arrays
<1>4. cells \in Seq(Values) /\ Len(cells) = Len(array[a])
  BY <1>3
<1>5. array' = [array EXCEPT ![a] = cells]
  BY <1>2, <1>3 DEF Arrays
<1> HIDE DEF cells, a
<1>6. /\ array' \in Seq(Seq(Values)) /\ Arrays' = Arrays
      /\ \A b \in Arrays : Len(array'[b]) = Len(array[b])
  BY <1>3, <1>4, <1>5, WriteStep
<1>. QED  BY <1>1, <1>6 DEF TableInv

\* A delete keeps them.
LEMMA DeleteStep ==
    ASSUME TableInv, NEW id \in Records, Delete(id)
    PROVE  TableInv'
<1> DEFINE a == records[id].array
           cells == [i \in DOMAIN array[a] |-> IF i <= records[id].width THEN NULL ELSE array[a][i]]
<1>1. /\ id \in DOMAIN records
      /\ records' = [k \in DOMAIN records \ {id} |-> records[k]]
      /\ UNCHANGED <<cols, alters, moved, alter>>
  BY DEF Delete
<1>3. a \in Arrays /\ array[a] \in Seq(Values)
  BY <1>1 DEF TableInv, Arrays
<1>4. cells \in Seq(Values) /\ Len(cells) = Len(array[a])
  BY <1>3 DEF NULL, Values
<1>5. array' = [array EXCEPT ![a] = cells]
  BY <1>3 DEF Arrays, Delete
<1> HIDE DEF cells, a
<1>6. /\ array' \in Seq(Seq(Values)) /\ Arrays' = Arrays
      /\ \A b \in Arrays : Len(array'[b]) = Len(array[b])
  BY <1>3, <1>4, <1>5, WriteStep
<1>. QED  BY <1>1, <1>6 DEF TableInv

\* They do not change when a change of columns starts.
LEMMA StartStep ==
    ASSUME TableInv, StartAdd \/ \E n \in 1..MaxColumns : StartDrop(n)
    PROVE  TableInv'
<1>1. alters' \in Nat /\ UNCHANGED <<cols, records, array, moved>>
  BY DEF TableInv, StartAdd, StartDrop
<1>2. alter' \in [at: Phases, cols: Seq(Nat)]
  <2>1. CASE StartAdd
    <3>1. Append(cols, 3 + alters) \in Seq(Nat)
      BY DEF TableInv
    <3>. QED  BY <2>1, <3>1 DEF StartAdd, Phases
  <2>2. ASSUME NEW n \in 1..MaxColumns, StartDrop(n)
        PROVE  alter' \in [at: Phases, cols: Seq(Nat)]
    <3>1. SubSeq(cols, 1, n) \in Seq(Nat)
      <4>1. n \in Nat /\ n < Len(cols)
        BY <2>2, OpenRowsAssumption DEF StartDrop
      <4>. QED  BY <4>1 DEF TableInv
    <3>. QED  BY <2>2, <3>1 DEF StartDrop, Phases
  <2>. QED  BY <2>1, <2>2
<1>. QED  BY <1>1, <1>2 DEF TableInv, Arrays

\* The steps of refresh that only announce what it will do.
LEMMA AnnounceStep ==
    ASSUME TableInv, Announce \/ CountReaders \/ Withdraw
    PROVE  TableInv'
<1>1. UNCHANGED <<cols, alters, records, array, moved>>
  BY DEF Announce, CountReaders, Withdraw
<1>2. \E s \in Phases : alter' = [alter EXCEPT !.at = s]
  BY DEF Announce, CountReaders, Withdraw, Phases
<1>3. alter' \in [at: Phases, cols: Seq(Nat)]
  BY <1>2 DEF TableInv
<1>. QED  BY <1>1, <1>3 DEF TableInv, Arrays

\* The statements that a Rows executes leave the table alone.
LEMMA RowsStep ==
    ASSUME TableInv, NEW r \in Rows, Select(r) \/ CloseCount(r) \/ CloseLook(r) \/ CloseClear(r)
    PROVE  TableInv'
<1>1. UNCHANGED <<cols, alters, records, array, alter>>
  BY DEF Select, CloseCount, CloseLook, CloseClear
<1>2. moved' = moved \/ DOMAIN moved' = {}
  BY DEF Select, CloseCount, CloseLook, CloseClear, Forget
<1>. QED  BY <1>1, <1>2 DEF TableInv, Arrays

\* Any finite set can be put in an order, in which each element has one place.
Ordered(S) ==
    CHOOSE f \in [1..Cardinality(S) -> S] : \A i, j \in DOMAIN f : f[i] = f[j] => i = j

\* A finite set can be put in an order, every member once.
LEMMA OrderExists ==
    ASSUME NEW S, IsFiniteSet(S)
    PROVE  /\ Ordered(S) \in [1..Cardinality(S) -> S]
           /\ \A i, j \in 1..Cardinality(S) : Ordered(S)[i] = Ordered(S)[j] => i = j
           /\ \A x \in S : \E i \in 1..Cardinality(S) : Ordered(S)[i] = x
<1> DEFINE n == Cardinality(S)
           f == Ordered(S)
<1>1. n \in Nat /\ ExistsBijection(1..n, S)
  BY FS_CardinalityType
<1>2. PICK g \in Bijection(1..n, S) : TRUE
  BY <1>1 DEF ExistsBijection
<1>3. g \in [1..n -> S] /\ \A i, j \in 1..n : g[i] = g[j] => i = j
  BY <1>2, Fun_BijectionProperties
<1>4. \E h \in [1..n -> S] : \A i, j \in DOMAIN h : h[i] = h[j] => i = j
  BY <1>3
<1>5. f \in [1..n -> S] /\ \A i, j \in 1..n : f[i] = f[j] => i = j
  BY <1>4 DEF Ordered
<1> HIDE DEF f
<1>6. f \in Injection(1..n, S)
  BY <1>5, Fun_IsInj
<1>7. Cardinality(1..n) = n
  BY <1>1, FS_Interval
<1>8. f \in Surjection(1..n, S)
  BY <1>6, <1>7, FS_Injection
<1>9. \A x \in S : \E i \in 1..n : f[i] = x
  BY <1>8 DEF Surjection
<1>. QED  BY <1>5, <1>9 DEF f

\* Cells that are cleared stay as many as they were.
LEMMA ClearedCells ==
    ASSUME NEW cells \in Seq(Values), NEW width \in Nat
    PROVE  Cleared(cells, width) \in Seq(Values) /\ Len(Cleared(cells, width)) = Len(cells)
BY DEF Cleared, NULL, Values

\* The cells of a record, copied to an array of its own.
LEMMA CopiedCells ==
    ASSUME NEW cells \in Seq(Values), NEW have \in Nat, NEW width \in Nat, have <= Len(cells)
    PROVE  /\ Copied(SubSeq(cells, 1, have), width) \in Seq(Values)
           /\ Len(Copied(SubSeq(cells, 1, have), width)) = width
<1>1. PICK old \in Seq(Values) : old = SubSeq(cells, 1, have)
  <2>1. \A i \in 1..have : cells[i] \in Values
    OBVIOUS
  <2>2. SubSeq(cells, 1, have) \in Seq(Values)
    BY <2>1, SubSeqProperties
  <2>. QED  BY <2>2
<1>2. Copied(old, width) \in Seq(Values) /\ Len(Copied(old, width)) = width
  BY DEF Copied, NULL, Values
<1>. QED  BY <1>1, <1>2

\* The arrays that the records of the table are kept in.
Held == {records[id].array : id \in DOMAIN records}

\* Every record is moved to an array of its own that is new, and the map shows
\* the way if it is kept.
Relocated(fresh, width) ==
    /\ \A id \in DOMAIN records : fresh[id] \in Arrays' \ Arrays
    /\ \A id, jd \in DOMAIN records : fresh[id] = fresh[jd] => id = jd
    /\ records' = [id \in DOMAIN records |-> Slice(fresh[id], width)]
    /\ Arrays \subseteq Arrays'
    /\ \A b \in Arrays \ Held : array'[b] = array[b]
    /\ IF tracking
       THEN /\ DOMAIN moved' = DOMAIN moved \cup Held
            /\ \A a \in DOMAIN moved \ Held : moved'[a] = moved[a]
            /\ \A a \in Held : \E id \in DOMAIN records :
                records[id].array = a /\ moved'[a] = Slice(fresh[id], width)
       ELSE moved' = moved

\* What becomes of the records.
Resized(width) ==
    IF InPlace(width)
    THEN /\ records' = [id \in DOMAIN records |-> Slice(records[id].array, width)]
         /\ moved' = moved /\ Arrays' = Arrays
    ELSE \E fresh : Relocated(fresh, width)

\* Moving the records to the new columns keeps the table's types.
LEMMA ResizeStep == ASSUME TableInv, Resize PROVE TableInv' /\ Resized(Len(alter.cols))
<1> DEFINE D == DOMAIN records
           n == Cardinality(D)
           width == Len(alter.cols)
           order == CHOOSE f \in [1..n -> D] : \A i, j \in DOMAIN f : f[i] = f[j] => i = j
           fresh == [id \in D |-> Len(array) + CHOOSE i \in DOMAIN order : order[i] = id]
           cleared == [a \in Arrays |-> IF \E id \in D : records[id].array = a
                                        THEN Cleared(array[a], width) ELSE array[a]]
           added == [i \in DOMAIN order |->
                        Copied(SubSeq(array[records[order[i]].array], 1, records[order[i]].width), width)]
<1>1. /\ n \in Nat /\ width \in Nat
      /\ order \in [1..n -> D] /\ \A id \in D : \E i \in 1..n : order[i] = id
  <2>1. IsFiniteSet(D)
    BY OpenRowsAssumption, FS_Subset DEF TableInv
  <2>2. n \in Nat
    BY <2>1, FS_CardinalityType
  <2>3. width \in Nat
    BY DEF TableInv
  <2>4. order \in [1..n -> D] /\ \A id \in D : \E i \in 1..n : order[i] = id
    <3>1. order = Ordered(D)
      BY DEF Ordered
    <3> HIDE DEF order
    <3>. QED  BY <2>1, <3>1, OrderExists
  <2>. QED  BY <2>2, <2>3, <2>4
<1>2. /\ alter.at = "resize" /\ cols' = alter.cols /\ alter' = NoAlter /\ alters' = alters
      /\ InPlace(width) =>
            /\ array' = cleared /\ moved' = moved
            /\ records' = [id \in D |-> Slice(records[id].array, width)]
      /\ ~InPlace(width) =>
            /\ array' = cleared \o added
            /\ records' = [id \in D |-> Slice(fresh[id], width)]
            /\ \A a \in DOMAIN moved' :
                    \/ a \in DOMAIN moved /\ moved'[a] = moved[a]
                    \/ \E id \in D : a = records[id].array /\ moved'[a] = Slice(fresh[id], width)
            /\ IF tracking
               THEN /\ DOMAIN moved' = DOMAIN moved \cup Held
                    /\ \A a \in DOMAIN moved \ Held : moved'[a] = moved[a]
                    /\ \A a \in Held : \E id \in D :
                        records[id].array = a /\ moved'[a] = Slice(fresh[id], width)
               ELSE moved' = moved
  <2>1. /\ alter.at = "resize" /\ cols' = alter.cols /\ alter' = NoAlter /\ alters' = alters
        /\ InPlace(width) =>
              /\ array' = cleared /\ moved' = moved
              /\ records' = [id \in D |-> Slice(records[id].array, width)]
        /\ ~InPlace(width) =>
              /\ array' = cleared \o added
              /\ records' = [id \in D |-> Slice(fresh[id], width)]
    BY DEF Resize
  <2>2. \/ moved' = moved
        \/ moved' = [a \in DOMAIN moved \cup {records[id].array : id \in DOMAIN records} |->
                        IF \E id \in DOMAIN records : records[id].array = a
                        THEN Slice(fresh[CHOOSE id \in DOMAIN records : records[id].array = a], width)
                        ELSE moved[a]]
    BY DEF Resize
  <2>3. \A a \in DOMAIN moved' :
            \/ a \in DOMAIN moved /\ moved'[a] = moved[a]
            \/ \E id \in D : a = records[id].array /\ moved'[a] = Slice(fresh[id], width)
    <3> HIDE DEF fresh, width
    <3>1. CASE moved' = moved
      BY <3>1
    <3>2. CASE moved' = [a \in DOMAIN moved \cup {records[id].array : id \in DOMAIN records} |->
                        IF \E id \in DOMAIN records : records[id].array = a
                        THEN Slice(fresh[CHOOSE id \in DOMAIN records : records[id].array = a], width)
                        ELSE moved[a]]
      <4> SUFFICES ASSUME NEW a \in DOMAIN moved'
                   PROVE  \/ a \in DOMAIN moved /\ moved'[a] = moved[a]
                          \/ \E id \in D : a = records[id].array /\ moved'[a] = Slice(fresh[id], width)
        OBVIOUS
      <4>1. CASE \E id \in D : records[id].array = a
        BY <3>2, <4>1
      <4>2. CASE ~ \E id \in D : records[id].array = a
        BY <3>2, <4>2
      <4>. QED  BY <4>1, <4>2
    <3>. QED  BY <2>2, <3>1, <3>2
  <2>4. ~InPlace(width) =>
            IF tracking
            THEN moved' = [a \in DOMAIN moved \cup {records[id].array : id \in DOMAIN records} |->
                        IF \E id \in DOMAIN records : records[id].array = a
                        THEN Slice(fresh[CHOOSE id \in DOMAIN records : records[id].array = a], width)
                        ELSE moved[a]]
            ELSE moved' = moved
    BY DEF Resize
  <2>5. ASSUME ~InPlace(width)
        PROVE  IF tracking
               THEN /\ DOMAIN moved' = DOMAIN moved \cup Held
                    /\ \A a \in DOMAIN moved \ Held : moved'[a] = moved[a]
                    /\ \A a \in Held : \E id \in D :
                        records[id].array = a /\ moved'[a] = Slice(fresh[id], width)
               ELSE moved' = moved
    <3> HIDE DEF fresh, width
    <3>. QED  BY <2>4, <2>5 DEF Held
  <2>. QED  BY <2>1, <2>3, <2>5
<1>3. /\ cleared \in Seq(Seq(Values)) /\ Len(cleared) = Len(array)
      /\ \A a \in Arrays : Len(cleared[a]) = Len(array[a])
  <2>1. \A a \in Arrays : Cleared(array[a], width) \in Seq(Values)
                           /\ Len(Cleared(array[a], width)) = Len(array[a])
    BY <1>1, ClearedCells DEF TableInv, Arrays
  <2>2. \A a \in Arrays : cleared[a] \in Seq(Values) /\ Len(cleared[a]) = Len(array[a])
    BY <2>1 DEF TableInv, Arrays
  <2>3. DOMAIN cleared = 1..Len(array) /\ Len(array) \in Nat /\ Arrays = 1..Len(array)
    BY DEF TableInv, Arrays
  <2>4. cleared \in [1..Len(array) -> Seq(Values)]
    BY <2>2, <2>3
  <2>. QED  BY <2>2, <2>3, <2>4
<1>4. /\ added \in Seq(Seq(Values)) /\ Len(added) = n
      /\ \A i \in 1..n : Len(added[i]) = width
  <2>1. ASSUME NEW i \in 1..n
        PROVE  added[i] \in Seq(Values) /\ Len(added[i]) = width
    <3> DEFINE rec == records[order[i]]
    <3>1. order[i] \in D
      BY <1>1
    <3>2. rec.array \in Arrays /\ rec.width = Len(cols) /\ rec.width <= Len(array[rec.array])
      BY <3>1 DEF TableInv
    <3>3. array[rec.array] \in Seq(Values) /\ rec.width \in Nat
      BY <3>2 DEF TableInv, Arrays
    <3>4. added[i] = Copied(SubSeq(array[rec.array], 1, rec.width), width)
      BY <1>1
    <3> HIDE DEF rec, added, width
    <3>. QED  BY <1>1, <3>2, <3>3, <3>4, CopiedCells
  <2>2. DOMAIN added = 1..n
    BY <1>1
  <2>3. added \in [1..n -> Seq(Values)]
    BY <2>1, <2>2
  <2>4. n \in Nat
    BY <1>1
  <2> HIDE DEF added, n
  <2>. QED  BY <2>1, <2>2, <2>3, <2>4
<1>5. \A id \in D : fresh[id] \in Len(array) + 1 .. Len(array) + n
  <2>1. \A id \in D : (CHOOSE i \in DOMAIN order : order[i] = id) \in 1..n
    <3> HIDE DEF order, n
    <3>. QED  BY <1>1
  <2>2. Len(array) \in Nat
    BY DEF TableInv
  <2>3. ASSUME NEW id \in D, NEW k \in 1..n, k = CHOOSE i \in DOMAIN order : order[i] = id
        PROVE  fresh[id] \in Len(array) + 1 .. Len(array) + n
    <3>1. fresh[id] = Len(array) + k
      BY <2>3
    <3>. QED  BY <1>1, <2>2, <3>1
  <2> HIDE DEF fresh, n
  <2>. QED  BY <2>1, <2>3
<1>9. \A id, jd \in D : fresh[id] = fresh[jd] => id = jd
  <2>1. ASSUME NEW id \in D
        PROVE  \E i \in 1..n : order[i] = id /\ fresh[id] = Len(array) + i
    <3> DEFINE k == CHOOSE i \in DOMAIN order : order[i] = id
    <3>1. k \in 1..n /\ order[k] = id
      <4> HIDE DEF order, n
      <4>. QED  BY <1>1
    <3>2. fresh[id] = Len(array) + k
      OBVIOUS
    <3> HIDE DEF k, fresh, order, n
    <3>. QED  BY <3>1, <3>2
  <2>2. Len(array) \in Nat
    BY DEF TableInv
  <2> HIDE DEF fresh, order, n
  <2>. QED  BY <1>1, <2>1, <2>2
<1> HIDE DEF cleared, added, fresh, width, order
<1>6. cols' \in Seq(Nat) /\ Len(cols') = width /\ alters' \in Nat
      /\ alter' \in [at: Phases, cols: Seq(Nat)]
  BY <1>2 DEF TableInv, NoAlter, Phases, width
<1>7. CASE InPlace(width)
  <2>1. width <= Len(cols) /\ Len(cols) \in Nat
    BY <1>1, <1>7 DEF InPlace, TableInv
  <2>2. /\ array' = cleared /\ moved' = moved
        /\ records' = [id \in D |-> Slice(records[id].array, width)]
    BY <1>2, <1>7
  <2>3. Arrays' = Arrays /\ array' \in Seq(Seq(Values)) /\ Arrays = 1..Len(array)
    BY <1>3, <2>2 DEF Arrays, TableInv
  <2>4. ASSUME NEW id \in DOMAIN records'
        PROVE  /\ records'[id].array \in Arrays'
               /\ records'[id].width = Len(cols')
               /\ records'[id].width <= Len(array'[records'[id].array])
    <3>1. /\ records'[id].array = records[id].array /\ records'[id].width = width
          /\ records[id].array \in Arrays
          /\ Len(cols) <= Len(array[records[id].array])
      BY <2>2 DEF Slice, TableInv
    <3>2. Len(array[records[id].array]) \in Nat
      BY <3>1 DEF TableInv, Arrays
    <3>3. Len(array'[records[id].array]) = Len(array[records[id].array])
      BY <1>3, <2>2, <3>1
    <3>. QED  BY <1>1, <1>6, <2>1, <2>3, <3>1, <3>2, <3>3
  <2>. QED  BY <1>6, <1>7, <2>2, <2>3, <2>4 DEF TableInv, Resized, width
<1>8. CASE ~InPlace(width)
  <2>2. /\ array' = cleared \o added
        /\ records' = [id \in D |-> Slice(fresh[id], width)]
    BY <1>2, <1>8
  <2>3. /\ array' \in Seq(Seq(Values)) /\ Len(array) \in Nat
        /\ Arrays = 1..Len(array) /\ Arrays' = 1..(Len(array) + n)
        /\ \A i \in 1..n : array'[Len(array) + i] = added[i]
    BY <1>1, <1>3, <1>4, <2>2 DEF Arrays, TableInv
  <2>4. \A id \in D : fresh[id] \in Arrays' /\ Len(array'[fresh[id]]) = width
    <3> SUFFICES ASSUME NEW id \in D
                 PROVE  fresh[id] \in Arrays' /\ Len(array'[fresh[id]]) = width
      OBVIOUS
    <3>1. PICK i \in 1..n : fresh[id] = Len(array) + i
      <4>1. fresh[id] - Len(array) \in 1..n /\ fresh[id] = Len(array) + (fresh[id] - Len(array))
        BY <1>1, <1>5, <2>3
      <4>. QED  BY <4>1
    <3>. QED  BY <1>1, <1>4, <2>3, <3>1
  <2>5. \A id \in DOMAIN records' :
            /\ records'[id].array \in Arrays'
            /\ records'[id].width = Len(cols')
            /\ records'[id].width <= Len(array'[records'[id].array])
    <3> SUFFICES ASSUME NEW id \in D
                 PROVE  /\ records'[id].array \in Arrays'
                        /\ records'[id].width = Len(cols')
                        /\ records'[id].width <= Len(array'[records'[id].array])
      BY <2>2
    <3>1. records'[id].array = fresh[id] /\ records'[id].width = width
      BY <2>2 DEF Slice
    <3>. QED  BY <1>1, <1>6, <2>4, <3>1
  <2>6. Arrays \subseteq Arrays'
    BY <1>1, <2>3
  <2>7. \A a \in DOMAIN moved' : a \in Arrays' /\ moved'[a].array \in Arrays'
    <3> SUFFICES ASSUME NEW a \in DOMAIN moved'
                 PROVE  a \in Arrays' /\ moved'[a].array \in Arrays'
      OBVIOUS
    <3>1. CASE a \in DOMAIN moved /\ moved'[a] = moved[a]
      BY <2>6, <3>1 DEF TableInv
    <3>2. ASSUME NEW id \in D, a = records[id].array, moved'[a] = Slice(fresh[id], width)
          PROVE  a \in Arrays' /\ moved'[a].array \in Arrays'
      BY <2>4, <2>6, <3>2 DEF TableInv, Slice
    <3>. QED  BY <1>2, <1>8, <3>1, <3>2
  <2>8. Relocated(fresh, width)
    <3>1. \A id \in D : fresh[id] \in Arrays' \ Arrays
      BY <1>1, <1>5, <2>3, <2>4
    <3>2. \A b \in Arrays \ Held : array'[b] = array[b]
      <4> SUFFICES ASSUME NEW b \in Arrays \ Held PROVE array'[b] = array[b]
        OBVIOUS
      <4>1. array'[b] = cleared[b]
        BY <1>3, <1>4, <2>2, <2>3
      <4>2. cleared[b] = array[b]
        BY DEF cleared, Held
      <4>. QED  BY <4>1, <4>2
    <3>. QED  BY <1>2, <1>8, <1>9, <2>2, <2>6, <3>1, <3>2 DEF Relocated
  <2>. QED  BY <1>6, <1>8, <2>2, <2>3, <2>5, <2>7, <2>8 DEF TableInv, Resized, width
<1>. QED  BY <1>7, <1>8

\* Every step keeps the table's types.
LEMMA TableStep == TableInv /\ [Next]_vars => TableInv'
<1> SUFFICES ASSUME TableInv, [Next]_vars PROVE TableInv'
  OBVIOUS
<1>1. CASE UNCHANGED vars
  BY <1>1 DEF vars, TableInv, Arrays
<1>. QED  BY <1>1, RowsStep, UpdateStep, DeleteStep, StartStep, AnnounceStep, ResizeStep DEF Next

-----------------------------------------------------------------------------
OpenRowsInv == TableInv /\ HandshakeInv

\* Both invariants hold always.
LEMMA OpenRowsInvariant == Spec => []OpenRowsInv
<1>1. Init => OpenRowsInv
  BY TableInit, HandshakeInit DEF OpenRowsInv
<1>2. OpenRowsInv /\ [Next]_vars => OpenRowsInv'
  BY TableStep, HandshakeStep DEF OpenRowsInv
<1>. QED  BY <1>1, <1>2, PTL DEF Spec

\* Every record of the table is a slice of an array that exists, as wide as the
\* table's columns; the map leads to arrays that exist; and the reader count is
\* the number of Rows that are open, whatever the order of their atomic steps.
THEOREM OpenRowsTypes == Spec => []TypeOK
<1>1. OpenRowsInv => TypeOK
  BY DEF OpenRowsInv, TableInv, HandshakeInv, RowTypes, Open, TypeOK
<1>. QED  BY <1>1, OpenRowsInvariant, PTL

\* The map of moved records does not outlive the last Rows, for any number of
\* Rows that open and close between the steps of an ALTER TABLE: the last one
\* sees the flag, or ALTER TABLE sees that there is no reader left.
THEOREM MapDoesNotOutliveRows == Spec => []MapIsFreed
<1>1. OpenRowsInv => MapIsFreed
  <2> SUFFICES ASSUME OpenRowsInv, LockFree, \A r \in Rows : row[r].at = "closed"
               PROVE  ~tracking /\ ~hasMoved
    BY DEF MapIsFreed
  <2>1. Open = {} /\ Closing = {}
    BY DEF Open, Closing
  <2>2. ~tracking
    BY <2>1 DEF OpenRowsInv, HandshakeInv, SomebodyForgets
  <2>3. alter.at = "none"
    BY DEF LockFree
  <2>. QED  BY <2>2, <2>3 DEF OpenRowsInv, HandshakeInv, Flags
<1>. QED  BY <1>1, OpenRowsInvariant, PTL

-----------------------------------------------------------------------------
(***************************************************************************)
(* Induction, and functions defined by recursion.                          *)
(***************************************************************************)

\* A set of numbers that is not empty has a least one.
LEMMA LeastNumber ==
    ASSUME NEW S \in SUBSET Nat, S # {}
    PROVE  \E m \in S : \A k \in S : m <= k
<1> DEFINE R == {ss \in Nat \X Nat : ss[1] < ss[2]}
<1>1. IsWellFoundedOn(R, Nat)
  BY NatLessThanWellFounded DEF OpToRel
<1>2. \A k, m \in Nat : k < m => <<k, m>> \in R
  OBVIOUS
<1> HIDE DEF R
<1>3. PICK m \in S : \A k \in S : ~(<<k, m>> \in R)
  BY <1>1, WFMin
<1>4. ASSUME NEW k \in S PROVE m <= k
  <2>1. ~(k < m)
    BY <1>2, <1>3
  <2>. QED  BY <2>1
<1>. QED  BY <1>4

\* Induction: a set of numbers with 0 and the successors of its members has all.
LEMMA Induction ==
    ASSUME NEW P \in SUBSET Nat, 0 \in P, \A n \in P : n + 1 \in P
    PROVE  P = Nat
<1>1. SUFFICES ASSUME Nat \ P # {} PROVE FALSE
  OBVIOUS
<1>2. PICK m \in Nat \ P : \A k \in Nat \ P : m <= k
  BY <1>1, LeastNumber
<1>3. m # 0 /\ m - 1 \in Nat
  BY <1>2
<1>4. m - 1 \in P
  BY <1>2, <1>3
<1>5. (m - 1) + 1 = m
  BY <1>2
<1>. QED  BY <1>2, <1>4, <1>5

\* A function is defined by recursion when each of its values depends on those
\* of smaller arguments only.
IsRecursion(D, S, size, N, Step) ==
    /\ S # {} /\ N \in Nat /\ size \in [D -> 0..N]
    /\ Step \in [D \X [D -> S] -> S]
    /\ \A x \in D : \A f, g \in [D -> S] :
        (\A y \in D : size[y] < size[x] => f[y] = g[y]) => Step[<<x, f>>] = Step[<<x, g>>]

\* There is a function that such a definition defines.
LEMMA RecursiveFunction ==
    ASSUME NEW D, NEW S, NEW size, NEW N, NEW Step, IsRecursion(D, S, size, N, Step)
    PROVE  \E f \in [D -> S] : \A x \in D : f[x] = Step[<<x, f>>]
<1> USE DEF IsRecursion
<1> DEFINE Solved(n) == \E f \in [D -> S] : \A x \in D : size[x] < n => f[x] = Step[<<x, f>>]
           P == {n \in Nat : Solved(n)}
<1>1. 0 \in P
  <2>1. PICK s \in S : TRUE
    OBVIOUS
  <2>2. [x \in D |-> s] \in [D -> S] /\ \A x \in D : ~(size[x] < 0)
    BY <2>1
  <2>. QED  BY <2>2
<1>2. ASSUME NEW n \in P PROVE n + 1 \in P
  <2>0. n \in Nat
    BY <1>2
  <2>1. PICK f \in [D -> S] : \A x \in D : size[x] < n => f[x] = Step[<<x, f>>]
    BY <1>2
  <2> DEFINE g == [x \in D |-> IF size[x] = n THEN Step[<<x, f>>] ELSE f[x]]
  <2>2. g \in [D -> S]
    OBVIOUS
  <2>3. ASSUME NEW x \in D, size[x] < n + 1 PROVE g[x] = Step[<<x, g>>]
    <3>1. \A y \in D : size[y] < size[x] => f[y] = g[y]
      BY <2>3
    <3>2. Step[<<x, f>>] = Step[<<x, g>>]
      BY <2>2, <3>1
    <3>3. CASE size[x] = n
      BY <3>2, <3>3
    <3>4. CASE size[x] < n
      <4>1. g[x] = f[x] /\ f[x] = Step[<<x, f>>]
        BY <2>1, <3>4
      <4>. QED  BY <3>2, <4>1
    <3>5. size[x] \in Nat
      OBVIOUS
    <3>6. size[x] = n \/ size[x] < n
      <4> HIDE DEF P, g
      <4>. QED  BY <2>0, <2>3, <3>5
    <3>. QED  BY <3>3, <3>4, <3>6
  <2>4. n + 1 \in Nat
    OBVIOUS
  <2>. QED  BY <2>2, <2>3, <2>4
<1>3. P = Nat
  BY <1>1, <1>2, Induction
<1>4. N + 1 \in P
  <2> HIDE DEF P
  <2>. QED  BY <1>3
<1>5. PICK f \in [D -> S] : \A x \in D : size[x] < N + 1 => f[x] = Step[<<x, f>>]
  BY <1>4
<1>. QED  BY <1>5

-----------------------------------------------------------------------------
(***************************************************************************)
(* The map of moved records, and where it leads.                           *)
(***************************************************************************)

Slices == [array: Arrays, width: 0..MaxColumns]

\* The map leads to ever newer arrays.
MapInv ==
    /\ Arrays = 1..Len(array) /\ Len(array) \in Nat /\ MaxColumns \in Nat
    /\ \A a \in DOMAIN moved :
        a \in Arrays /\ moved[a] \in Slices /\ a < moved[a].array

\* What holds of a slice if it holds of the one it was moved to holds of all.
LEMMA MapInduction ==
    ASSUME MapInv, NEW P \in SUBSET Slices,
           \A s \in Slices : (s.array \in DOMAIN moved => moved[s.array] \in P) => s \in P
    PROVE  P = Slices
<1> DEFINE n == Len(array)
           Bad == {k \in Nat : \E s \in Slices \ P : k = n - s.array}
<1>1. SUFFICES ASSUME Slices \ P # {} PROVE FALSE
  OBVIOUS
<1>2. \A s \in Slices : s.array \in 1..n /\ n - s.array \in Nat
  BY DEF MapInv, Slices
<1>3. Bad # {} /\ Bad \in SUBSET Nat
  BY <1>1, <1>2
<1>4. PICK k \in Bad : \A j \in Bad : k <= j
  <2> HIDE DEF Bad
  <2>. QED  BY <1>3, LeastNumber
<1>5. PICK s \in Slices \ P : k = n - s.array
  OBVIOUS
<1>6. s.array \in DOMAIN moved /\ moved[s.array] \notin P
  OBVIOUS
<1> DEFINE t == moved[s.array]
<1>7. t \in Slices \ P /\ s.array < t.array
  BY <1>6 DEF MapInv
<1>8. n - t.array \in Bad
  BY <1>2, <1>7
<1>9. n - t.array < n - s.array
  <2> HIDE DEF t
  <2>. QED  BY <1>2, <1>5, <1>7 DEF MapInv
<1> HIDE DEF t, Bad
<1>. QED  BY <1>2, <1>4, <1>5, <1>7, <1>8, <1>9

TrailBody(next) ==
    [s \in [array: Arrays, width: 0..MaxColumns] |->
        IF s.array \in DOMAIN moved THEN <<s>> \o next[moved[s.array]] ELSE <<s>>]

\* A slice's trail is the slice and the trail of the one it was moved to.
LEMMA TrailEquation ==
    ASSUME MapInv
    PROVE  \A s \in Slices :
               /\ Trail(s) \in Seq(Slices) /\ Trail(s) # <<>>
               /\ s.array \notin DOMAIN moved => Trail(s) = <<s>>
               /\ s.array \in DOMAIN moved => Trail(s) = <<s>> \o Trail(moved[s.array])
<1> DEFINE S == Seq(Slices)
           n == Len(array)
           size == [s \in Slices |-> n - s.array]
           Step1 == [p \in Slices \X [Slices -> S] |-> TrailBody(p[2])[p[1]]]
<1>1. n \in Nat /\ \A s \in Slices : s.array \in 1..n /\ n - s.array \in 0..n
  BY DEF MapInv, Slices
<1>2. S # {} /\ size \in [Slices -> 0..n]
  <2>1. <<>> \in S
    OBVIOUS
  <2> HIDE DEF S, n
  <2>. QED  BY <1>1, <2>1
<1>3. ASSUME NEW s \in Slices, s.array \in DOMAIN moved
      PROVE  moved[s.array] \in Slices /\ size[moved[s.array]] < size[s]
  <2> DEFINE t == moved[s.array]
  <2>1. t \in Slices /\ s.array < t.array
    BY <1>3 DEF MapInv
  <2>2. size[t] = n - t.array /\ size[s] = n - s.array
    BY <2>1
  <2> HIDE DEF t, n, size
  <2>3. n - t.array < n - s.array
    BY <1>1, <2>1
  <2>. QED  BY <2>1, <2>2, <2>3 DEF t
<1>4. ASSUME NEW s \in Slices, NEW f
      PROVE  TrailBody(f)[s] = IF s.array \in DOMAIN moved THEN <<s>> \o f[moved[s.array]]
                               ELSE <<s>>
  BY DEF TrailBody, Slices
<1> HIDE DEF size
<1>5. ASSUME NEW s \in Slices, NEW f \in [Slices -> S] PROVE TrailBody(f)[s] \in S
  <2>1. <<s>> \in S
    OBVIOUS
  <2>2. CASE s.array \in DOMAIN moved
    <3> DEFINE u == f[moved[s.array]]
    <3>1. u \in S
      BY <1>3, <2>2
    <3>2. <<s>> \o u \in S
      <4> HIDE DEF u
      <4>. QED  BY <2>1, <3>1
    <3>. QED  BY <1>4, <2>2, <3>2
  <2>3. CASE s.array \notin DOMAIN moved
    BY <1>4, <2>1, <2>3
  <2>. QED  BY <2>2, <2>3
<1>6. Step1 \in [Slices \X [Slices -> S] -> S]
  <2> HIDE DEF S
  <2>. QED  BY <1>5
<1>7. ASSUME NEW s \in Slices, NEW f \in [Slices -> S], NEW g \in [Slices -> S],
             \A t \in Slices : size[t] < size[s] => f[t] = g[t]
      PROVE  Step1[<<s, f>>] = Step1[<<s, g>>]
  <2>1. Step1[<<s, f>>] = TrailBody(f)[s] /\ Step1[<<s, g>>] = TrailBody(g)[s]
    <3> HIDE DEF S
    <3>. QED  OBVIOUS
  <2>2. s.array \in DOMAIN moved => f[moved[s.array]] = g[moved[s.array]]
    BY <1>3, <1>7
  <2> HIDE DEF Step1, S
  <2>. QED  BY <1>4, <2>1, <2>2
<1>8. PICK f \in [Slices -> S] : \A s \in Slices : f[s] = Step1[<<s, f>>]
  <2> HIDE DEF Step1, S, n
  <2>1. \A s \in Slices : \A f, g \in [Slices -> S] :
            (\A t \in Slices : size[t] < size[s] => f[t] = g[t]) => Step1[<<s, f>>] = Step1[<<s, g>>]
    BY <1>7
  <2>2. IsRecursion(Slices, S, size, n, Step1)
    BY <1>1, <1>2, <1>6, <2>1 DEF IsRecursion
  <2>. QED  BY <2>2, RecursiveFunction
<1>9. f = TrailBody(f)
  <2>1. \A s \in Slices : f[s] = TrailBody(f)[s]
    <3> HIDE DEF S
    <3>. QED  BY <1>8
  <2>2. TrailBody(f) = [s \in Slices |-> TrailBody(f)[s]]
    BY DEF TrailBody, Slices
  <2>3. f = [s \in Slices |-> f[s]]
    BY <1>8
  <2>. QED  BY <2>1, <2>2, <2>3
<1>10. PICK c : c = CHOOSE next : next = TrailBody(next)
  OBVIOUS
<1>11. c = TrailBody(c)
  BY <1>9, <1>10
<1>12. \A s \in Slices : Trail(s) = c[s]
  BY <1>10 DEF Trail, TrailBody
<1>13. \A s \in Slices : Trail(s) = IF s.array \in DOMAIN moved
                                    THEN <<s>> \o Trail(moved[s.array]) ELSE <<s>>
  BY <1>3, <1>4, <1>11, <1>12
<1> DEFINE P == {s \in Slices : Trail(s) \in S /\ Trail(s) # <<>>}
<1>14. ASSUME NEW s \in Slices, s.array \in DOMAIN moved => moved[s.array] \in P
       PROVE  s \in P
  <2>1. <<s>> \in S /\ Len(<<s>>) = 1
    OBVIOUS
  <2>2. CASE s.array \in DOMAIN moved
    <3> DEFINE u == Trail(moved[s.array])
    <3>1. u \in S /\ Trail(s) = <<s>> \o u
      BY <1>13, <1>14, <2>2
    <3> HIDE DEF u
    <3>2. <<s>> \o u \in S /\ Len(<<s>> \o u) = Len(u) + 1 /\ Len(u) \in Nat
      BY <2>1, <3>1
    <3>3. <<s>> \o u # <<>>
      BY <3>2
    <3>. QED  BY <3>1, <3>2, <3>3
  <2>3. CASE s.array \notin DOMAIN moved
    <3>1. Trail(s) = <<s>>
      BY <1>13, <2>3
    <3>2. <<s>> # <<>>
      OBVIOUS
    <3>. QED  BY <2>1, <3>1, <3>2
  <2>. QED  BY <2>2, <2>3
<1>15. P = Slices
  <2>1. P \in SUBSET Slices
    OBVIOUS
  <2> HIDE DEF P
  <2>. QED  BY <1>14, <2>1, MapInduction
<1>16. ASSUME NEW s \in Slices PROVE Trail(s) \in Seq(Slices) /\ Trail(s) # <<>>
  BY <1>15
<1> HIDE DEF P, S
<1>. QED  BY <1>13, <1>16

Least2(a, b) == IF a <= b THEN a ELSE b

\* The narrowest slice of a trail.
LEMMA NarrowestWidth ==
    ASSUME NEW w \in Nat, NEW trail,
           \A i \in DOMAIN trail : trail[i].width \in Nat /\ w <= trail[i].width,
           \E i \in DOMAIN trail : trail[i].width = w
    PROVE  Narrowest(trail) = w
<1> DEFINE W == {trail[i].width : i \in DOMAIN trail}
<1>1. w \in W /\ \A v \in W : v \in Nat /\ w <= v
  OBVIOUS
<1>2. Narrowest(trail) = CHOOSE v \in W : \A u \in W : v <= u
  BY DEF Narrowest
<1> HIDE DEF W
<1>3. \A v \in W : (\A u \in W : v <= u) => v = w
  BY <1>1
<1>. QED  BY <1>1, <1>2, <1>3

\* A trail has a narrowest slice.
LEMMA NarrowestExists ==
    ASSUME MapInv, NEW trail \in Seq(Slices), trail # <<>>
    PROVE  /\ Narrowest(trail) \in 0..MaxColumns
           /\ \A i \in DOMAIN trail : Narrowest(trail) <= trail[i].width
           /\ \E i \in DOMAIN trail : Narrowest(trail) = trail[i].width
<1> DEFINE W == {trail[i].width : i \in DOMAIN trail}
<1>1. \A i \in DOMAIN trail : trail[i] \in Slices /\ trail[i].width \in 0..MaxColumns
  <2>1. \A i \in DOMAIN trail : trail[i] \in Slices
    OBVIOUS
  <2>2. \A sl \in Slices : sl.width \in 0..MaxColumns
    BY DEF Slices
  <2>. QED  BY <2>1, <2>2
<1>2. 1 \in DOMAIN trail
  OBVIOUS
<1>3. W \in SUBSET Nat /\ W # {}
  BY <1>1, <1>2 DEF MapInv
<1>4. PICK w \in W : \A k \in W : w <= k
  <2> HIDE DEF W
  <2>. QED  BY <1>3, LeastNumber
<1>5. Narrowest(trail) = w
  <2>1. \A i \in DOMAIN trail : trail[i].width \in Nat /\ w <= trail[i].width
    BY <1>1, <1>4 DEF MapInv
  <2>2. w \in Nat /\ \E i \in DOMAIN trail : trail[i].width = w
    BY <1>3
  <2> HIDE DEF W
  <2>. QED  BY <2>1, <2>2, NarrowestWidth
<1>. QED  BY <1>1, <1>4, <1>5

\* A slice's record is that of the one it was moved to, no wider than itself.
LEMMA RecordEquation ==
    MapInv => \A s \in Slices :
        /\ Record(s) \in Slices
        /\ s.array \notin DOMAIN moved => Record(s) = s
        /\ s.array \in DOMAIN moved =>
            Record(s) = Slice(Record(moved[s.array]).array,
                              Least2(s.width, Record(moved[s.array]).width))
<1> SUFFICES ASSUME MapInv, NEW s \in Slices
             PROVE  /\ Record(s) \in Slices
                    /\ s.array \notin DOMAIN moved => Record(s) = s
                    /\ s.array \in DOMAIN moved =>
                        Record(s) = Slice(Record(moved[s.array]).array,
                                          Least2(s.width, Record(moved[s.array]).width))
  OBVIOUS
<1> DEFINE tr == Trail(s)
           m == moved[s.array]
           u == Trail(m)
<1>1. tr \in Seq(Slices) /\ tr # <<>> /\ s.width \in Nat
  <2>1. s.width \in Nat
    BY OpenRowsAssumption DEF Slices
  <2>2. tr \in Seq(Slices) /\ tr # <<>>
    BY TrailEquation
  <2>. QED  BY <2>1, <2>2
<1>2. Record(s) = Slice(tr[Len(tr)].array, Narrowest(tr))
  BY DEF Record
<1>3. Record(s) \in Slices
  <2> HIDE DEF tr
  <2>1. Narrowest(tr) \in 0..MaxColumns
    BY <1>1, NarrowestExists
  <2>2. tr[Len(tr)] \in Slices
    BY <1>1
  <2>3. tr[Len(tr)].array \in Arrays
    BY <2>2 DEF Slices
  <2>. QED  BY <1>2, <2>1, <2>3 DEF Slice, Slices
<1>4. ASSUME s.array \notin DOMAIN moved PROVE Record(s) = s
  <2>1. tr = <<s>>
    BY <1>4, TrailEquation
  <2>2. Narrowest(<<s>>) = s.width
    BY <1>1, NarrowestWidth
  <2>3. Record(s) = Slice(s.array, s.width)
    BY <1>2, <2>1, <2>2
  <2>4. s = [array |-> s.array, width |-> s.width]
    BY DEF Slices
  <2>. QED  BY <2>3, <2>4 DEF Slice
<1>5. ASSUME s.array \in DOMAIN moved
      PROVE  Record(s) = Slice(Record(m).array, Least2(s.width, Record(m).width))
  <2>1. m \in Slices
    BY <1>5 DEF MapInv
  <2>2. u \in Seq(Slices) /\ u # <<>> /\ tr = <<s>> \o u
    BY <1>5, <2>1, TrailEquation
  <2>3. Record(m) = Slice(u[Len(u)].array, Narrowest(u))
    BY DEF Record
  <2> HIDE DEF u, tr, m
  <2>4. /\ Narrowest(u) \in Nat
        /\ \A i \in DOMAIN u : Narrowest(u) <= u[i].width
        /\ \E i \in DOMAIN u : Narrowest(u) = u[i].width
    BY <2>2, NarrowestExists DEF MapInv
  <2>5. /\ Len(u) \in Nat /\ Len(u) # 0 /\ DOMAIN u = 1..Len(u)
        /\ DOMAIN tr = 1..(Len(u) + 1) /\ Len(tr) = Len(u) + 1 /\ tr[1] = s
        /\ \A i \in 1..Len(u) : tr[i + 1] = u[i]
    BY <2>2
  <2>6. \A i \in DOMAIN u : u[i].width \in Nat
    <3>1. \A i \in DOMAIN u : u[i] \in Slices
      BY <2>2
    <3>2. \A sl \in Slices : sl.width \in Nat
      BY DEF Slices, MapInv
    <3>. QED  BY <3>1, <3>2
  <2>7. tr[Len(tr)] = u[Len(u)]
    BY <2>5
  <2> DEFINE w == Least2(s.width, Narrowest(u))
  <2>8. w \in Nat /\ w <= s.width /\ w <= Narrowest(u) /\ (w = s.width \/ w = Narrowest(u))
    BY <1>1, <2>4 DEF Least2
  <2> HIDE DEF w
  <2>9. ASSUME NEW i \in DOMAIN tr PROVE tr[i].width \in Nat /\ w <= tr[i].width
    <3>1. CASE i = 1
      BY <1>1, <2>5, <2>8, <3>1
    <3>2. CASE i # 1
      <4>1. i - 1 \in DOMAIN u /\ (i - 1) + 1 = i
        BY <2>5, <3>2
      <4>2. tr[i] = u[i - 1]
        BY <2>5, <4>1
      <4>3. u[i - 1].width \in Nat /\ Narrowest(u) <= u[i - 1].width
        BY <2>4, <2>6, <4>1
      <4>. QED  BY <2>4, <2>8, <4>2, <4>3
    <3>. QED  BY <3>1, <3>2
  <2>10. \E i \in DOMAIN tr : tr[i].width = w
    <3>1. CASE w = s.width
      <4>1. 1 \in DOMAIN tr
        BY <2>5
      <4>. QED  BY <2>5, <3>1, <4>1
    <3>2. CASE w = Narrowest(u)
      <4>1. PICK i \in DOMAIN u : Narrowest(u) = u[i].width
        BY <2>4
      <4>2. i + 1 \in DOMAIN tr /\ tr[i + 1] = u[i]
        BY <2>5
      <4>. QED  BY <3>2, <4>1, <4>2
    <3>. QED  BY <2>8, <3>1, <3>2
  <2>11. Narrowest(tr) = w
    BY <2>8, <2>9, <2>10, NarrowestWidth
  <2>. QED  BY <1>2, <2>3, <2>7, <2>11 DEF Slice, w
<1>. QED  BY <1>3, <1>4, <1>5 DEF m

\* Where the map leads from every slice.
Ends == [s \in Slices |-> Record(s)]

\* It leads from a slice to where it leads from the one it was moved to.
EndsLaw ==
    /\ Ends \in [Slices -> Slices]
    /\ \A s \in Slices :
        /\ s.array \notin DOMAIN moved => Ends[s] = s
        /\ s.array \in DOMAIN moved =>
            /\ moved[s.array] \in Slices
            /\ Ends[s] = Slice(Ends[moved[s.array]].array,
                               Least2(s.width, Ends[moved[s.array]].width))

\* The law of Ends.
LEMMA EndsEquation == MapInv => EndsLaw
<1> SUFFICES ASSUME MapInv PROVE EndsLaw
  OBVIOUS
<1>1. \A s \in Slices : Ends[s] = Record(s)
  BY DEF Ends
<1>2. \A s \in Slices : s.array \in DOMAIN moved => moved[s.array] \in Slices
  BY DEF MapInv
<1>3. Ends \in [Slices -> Slices]
  BY RecordEquation DEF Ends
<1>. QED  BY <1>1, <1>2, <1>3, RecordEquation DEF EndsLaw

\* The same after a step.
LEMMA EndsEquationNext == MapInv' => EndsLaw'
BY EndsEquation, PTL

\* It leads to the same places as long as the map is the same.
LEMMA EndsStay == moved' = moved /\ Arrays' = Arrays => Ends' = Ends
BY DEF Ends, Slices, Record, Trail

-----------------------------------------------------------------------------
(***************************************************************************)
(* What an open Rows sees.                                                 *)
(***************************************************************************)

\* Columns that are or were in the table have numbers below this one, which the
\* column has that is being added.
Known == IF alter.at = "none" THEN 3 + alters ELSE 2 + alters

ColumnsInv ==
    /\ Len(cols) <= MaxColumns
    /\ \A i \in DOMAIN cols : cols[i] < Known
    /\ alter.at # "none" =>
        \/ Len(cols) < MaxColumns /\ alter.cols = Append(cols, Known)
        \/ \E n \in 1..MaxColumns : n < Len(cols) /\ alter.cols = SubSeq(cols, 1, n)

\* Records are slices of arrays of their own, which were not moved.
RecordsInv ==
    /\ \A id \in DOMAIN records :
        records[id] \in Slices /\ records[id].array \notin DOMAIN moved
    /\ \A id, jd \in DOMAIN records : records[id].array = records[jd].array => id = jd

\* Records are not moved without a trace while somebody reads them.
TrackedInv == alter.at \in {"withdraw", "resize"} /\ Open # {} => tracking

\* A slice leads to the present one, cut in front of the first column that is
\* not the one it was in the Rows.
Current(r, end, id) ==
    /\ end.array = records[id].array /\ end.width <= Len(cols)
    /\ \A i \in DOMAIN row[r].cols : i <= end.width <=> Present(r, i)

\* A slice leads to the cells of a deleted record.
Gone(end) ==
    /\ \A id \in DOMAIN records : records[id].array # end.array
    /\ \A i \in 1..end.width : array[end.array][i] = NULL

Live(r) ==
    /\ row[r].cols \in Seq(Nat)
    /\ \A i \in DOMAIN row[r].cols : row[r].cols[i] < Known
    /\ DOMAIN records \subseteq DOMAIN row[r].buf
    /\ \A id \in DOMAIN row[r].buf :
        /\ row[r].buf[id] \in Slices
        /\ id \in DOMAIN records => Current(r, Ends[row[r].buf[id]], id)
        /\ id \notin DOMAIN records => Gone(Ends[row[r].buf[id]])

LiveInv ==
    /\ MapInv /\ ColumnsInv /\ RecordsInv /\ TrackedInv
    /\ \A r \in Open : Live(r)

\* At first nothing was moved and nobody reads.
LEMMA LiveInit == Init => LiveInv
<1> SUFFICES ASSUME Init PROVE LiveInv
  OBVIOUS
<1>1. TableInv
  BY TableInit
<1>2. Open = {}
  BY DEF Init, NoRows, Open
<1>3. MapInv
  <2>1. Arrays = 1..Len(array) /\ Len(array) \in Nat
    BY <1>1 DEF TableInv, Arrays
  <2>. QED  BY <2>1, OpenRowsAssumption DEF Init, MapInv
<1>4. ColumnsInv
  BY OpenRowsAssumption DEF Init, NoAlter, ColumnsInv, Known
<1>5. RecordsInv
  <2>1. PICK nth \in [Records -> Arrays] :
          /\ \A i, j \in Records : nth[i] = nth[j] => i = j
          /\ records = [id \in Records |-> Slice(nth[id], 2)]
    BY DEF Init
  <2>2. 2 \in 0..MaxColumns
    BY OpenRowsAssumption
  <2>3. DOMAIN moved = {}
    BY DEF Init
  <2>. QED  BY <2>1, <2>2, <2>3 DEF RecordsInv, Slice, Slices
<1>. QED  BY <1>2, <1>3, <1>4, <1>5 DEF LiveInv, TrackedInv

\* A Rows whose columns, records and map stay sees what it saw.
LEMMA LiveStays ==
    ASSUME NEW r \in Rows, Live(r), row'[r] = row[r], Ends' = Ends, Known' = Known,
           UNCHANGED <<cols, array, records>>
    PROVE  Live(r)'
<1>1. Slices' = Slices
  BY DEF Slices, Arrays
<1>2. \A id \in DOMAIN row[r].buf :
        /\ id \in DOMAIN records => Current(r, Ends[row[r].buf[id]], id)'
        /\ id \notin DOMAIN records => Gone(Ends[row[r].buf[id]])'
  <2>1. ASSUME NEW id \in DOMAIN row[r].buf, id \in DOMAIN records
        PROVE  Current(r, Ends[row[r].buf[id]], id)'
    BY <2>1 DEF Live, Current, Present
  <2>2. ASSUME NEW id \in DOMAIN row[r].buf, id \notin DOMAIN records
        PROVE  Gone(Ends[row[r].buf[id]])'
    BY <2>2 DEF Live, Gone
  <2>. QED  BY <2>1, <2>2
<1>. QED  BY <1>1, <1>2 DEF Live

\* The parts of the invariant that are not about a Rows, when the table stays.
LEMMA TableStays ==
    ASSUME LiveInv, UNCHANGED <<cols, alters, array, records, moved, alter>>
    PROVE  /\ MapInv' /\ ColumnsInv' /\ RecordsInv' /\ Ends' = Ends /\ Known' = Known
<1>1. Arrays' = Arrays /\ Slices' = Slices
  BY DEF Arrays, Slices
<1>2. Known' = Known
  BY DEF Known
<1>3. Ends' = Ends
  BY <1>1, EndsStay
<1>. QED  BY <1>1, <1>2, <1>3 DEF LiveInv, MapInv, ColumnsInv, RecordsInv

\* The same while an ALTER TABLE has not come to the records yet.
LEMMA RecordsStay ==
    ASSUME LiveInv, UNCHANGED <<cols, array, records, moved, row>>, Known' = Known,
           ColumnsInv', TrackedInv'
    PROVE  LiveInv'
<1>1. Arrays' = Arrays /\ Slices' = Slices /\ Open' = Open
  BY DEF Arrays, Slices, Open
<1>2. Ends' = Ends
  BY <1>1, EndsStay
<1>3. MapInv' /\ RecordsInv'
  BY <1>1 DEF LiveInv, MapInv, RecordsInv
<1>4. \A r \in Open' : Live(r)'
  BY <1>1, <1>2, LiveStays DEF LiveInv, Open
<1>. QED  BY <1>3, <1>4 DEF LiveInv

\* A Rows that is opened sees the records as they are.
LEMMA LiveSelect ==
    ASSUME OpenRowsInv, LiveInv, NEW r \in Rows, Select(r)
    PROVE  LiveInv'
<1>1. /\ alter.at = "none"
      /\ row' = [row EXCEPT ![r] = [at |-> "open", buf |-> records, cols |-> cols]]
      /\ UNCHANGED <<cols, alters, array, records, moved, alter>>
  BY DEF Select, LockFree
<1>2. /\ MapInv' /\ ColumnsInv' /\ RecordsInv' /\ Ends' = Ends /\ Known' = Known
  BY <1>1, TableStays
<1>3. /\ DOMAIN row = Rows
      /\ row'[r] = [at |-> "open", buf |-> records, cols |-> cols]
      /\ \A q \in Rows : q # r => row'[q] = row[q]
  BY <1>1 DEF OpenRowsInv, HandshakeInv, RowTypes
<1>4. TrackedInv'
  BY <1>1 DEF TrackedInv
<1>5. ASSUME NEW q \in Open', q # r PROVE Live(q)'
  <2>1. q \in Rows /\ row'[q] = row[q] /\ q \in Open
    BY <1>3, <1>5 DEF Open
  <2>. QED  BY <1>1, <1>2, <2>1, LiveStays DEF LiveInv
<1>6. Live(r)'
  <2>1. row'[r].cols = cols /\ row'[r].buf = records
    BY <1>3
  <2>2. Slices' = Slices
    BY <1>1 DEF Slices, Arrays
  <2>3. cols \in Seq(Nat) /\ \A i \in DOMAIN cols : cols[i] < Known
    BY DEF LiveInv, ColumnsInv, OpenRowsInv, TableInv
  <2>4. ASSUME NEW id \in DOMAIN records
        PROVE  /\ records[id] \in Slices /\ Ends[records[id]] = records[id]
               /\ records[id].width = Len(cols)
    BY EndsEquation DEF EndsLaw, LiveInv, RecordsInv, OpenRowsInv, TableInv
  <2>5. \A i \in DOMAIN cols : i <= Len(cols)
    BY <2>3
  <2>6. Len(cols) <= Len(cols)
    BY <2>3
  <2>7. ASSUME NEW id \in DOMAIN records PROVE Current(r, records[id], id)'
    <3>1. \A i \in DOMAIN cols : i <= records[id].width /\ Present(r, i)'
      BY <1>1, <2>1, <2>4, <2>5 DEF Present
    <3>. QED  BY <1>1, <2>1, <2>4, <2>6, <3>1 DEF Current
  <2>. QED  BY <1>1, <1>2, <2>1, <2>2, <2>3, <2>4, <2>7 DEF Live
<1>. QED  BY <1>2, <1>4, <1>5, <1>6 DEF LiveInv

\* A Rows that is being closed reads no more.
LEMMA LiveClose ==
    ASSUME OpenRowsInv, LiveInv, NEW r \in Rows, CloseCount(r) \/ CloseLook(r) \/ CloseClear(r)
    PROVE  LiveInv'
<1>1. /\ UNCHANGED <<cols, alters, array, records, alter>>
      /\ DOMAIN row = Rows /\ row'[r].at # "open"
      /\ \A q \in Rows : q # r => row'[q] = row[q]
  <2>0. DOMAIN row = Rows
    BY DEF OpenRowsInv, HandshakeInv, RowTypes
  <2>1. CASE CloseCount(r)
    BY <2>0, <2>1 DEF CloseCount, NoRows
  <2>2. CASE CloseLook(r)
    BY <2>0, <2>2 DEF CloseLook
  <2>3. CASE CloseClear(r)
    BY <2>0, <2>3 DEF CloseClear
  <2>. QED  BY <2>1, <2>2, <2>3
<1>2. Open' \subseteq Open /\ \A q \in Open' : q \in Rows /\ row'[q] = row[q]
  BY <1>1 DEF Open
<1>3. CASE UNCHANGED <<moved, tracking>>
  <2>1. /\ MapInv' /\ ColumnsInv' /\ RecordsInv' /\ Ends' = Ends /\ Known' = Known
    BY <1>1, <1>3, TableStays
  <2>2. TrackedInv'
    BY <1>1, <1>2, <1>3 DEF TrackedInv, LiveInv
  <2>3. \A q \in Open' : Live(q)'
    BY <1>1, <1>2, <2>1, LiveStays DEF LiveInv
  <2>. QED  BY <2>1, <2>2, <2>3 DEF LiveInv
<1>4. CASE readers = 0 /\ DOMAIN moved' = {}
  <2>1. Open = {} /\ Open' = {}
    BY <1>2, <1>4, OpenFinite DEF OpenRowsInv, HandshakeInv, RowTypes
  <2>2. Arrays' = Arrays /\ Slices' = Slices /\ Known' = Known
    BY <1>1 DEF Arrays, Slices, Known
  <2>3. MapInv' /\ ColumnsInv' /\ RecordsInv'
    BY <1>1, <1>4, <2>2 DEF LiveInv, MapInv, ColumnsInv, RecordsInv
  <2>. QED  BY <2>1, <2>3 DEF LiveInv, TrackedInv
<1>5. UNCHANGED <<moved, tracking>> \/ (readers = 0 /\ DOMAIN moved' = {})
  BY DEF CloseCount, CloseLook, CloseClear, Forget
<1>. QED  BY <1>3, <1>4, <1>5

\* Writing to a record's array is seen where the record is.
LEMMA LiveUpdate ==
    ASSUME OpenRowsInv, LiveInv, NEW id \in Records, NEW i \in 1..MaxColumns, Update(id, i)
    PROVE  LiveInv'
<1>1. /\ id \in DOMAIN records
      /\ UNCHANGED <<cols, alters, records, moved, tracking, row, alter>>
  BY DEF Update
<1> DEFINE a == records[id].array
<1>2. array \in Seq(Seq(Values)) /\ a \in Arrays
  BY <1>1 DEF OpenRowsInv, TableInv
<1>3. /\ Arrays' = Arrays /\ Len(array') = Len(array) /\ \A b \in Arrays : b # a => array'[b] = array[b]
  BY <1>2 DEF Update, Arrays
<1> HIDE DEF a
<1>4. Slices' = Slices /\ Known' = Known /\ Open' = Open
  BY <1>1, <1>3 DEF Slices, Known, Open
<1>5. Ends' = Ends
  BY <1>1, <1>3, EndsStay
<1>6. MapInv' /\ ColumnsInv' /\ RecordsInv' /\ TrackedInv'
  BY <1>1, <1>3, <1>4 DEF LiveInv, MapInv, ColumnsInv, RecordsInv, TrackedInv
<1>7. ASSUME NEW r \in Open PROVE Live(r)'
  <2>1. Live(r)
    BY DEF LiveInv
  <2>2. ASSUME NEW jd \in DOMAIN row[r].buf, jd \notin DOMAIN records
        PROVE  Gone(Ends[row[r].buf[jd]])'
    <3> DEFINE e == Ends[row[r].buf[jd]]
    <3>1. e \in Slices /\ Gone(e)
      BY <2>1, <2>2, EndsEquation DEF EndsLaw, Live, LiveInv
    <3>2. e.array \in Arrays /\ e.array # a
      BY <1>1, <3>1 DEF Slices, Gone, a
    <3>3. array'[e.array] = array[e.array]
      BY <1>3, <3>2
    <3> DEFINE e2 == Ends'[row'[r].buf[jd]]
    <3>4. e2 = e
      BY <1>1, <1>5
    <3> HIDE DEF e, e2
    <3>5. /\ \A kd \in DOMAIN records' : records'[kd].array # e2.array
          /\ \A k \in 1..e2.width : array'[e2.array][k] = NULL
      BY <1>1, <3>1, <3>3, <3>4 DEF Gone
    <3>. QED  BY <3>5 DEF Gone, e2
  <2>3. ASSUME NEW jd \in DOMAIN records, jd \in DOMAIN row[r].buf
        PROVE  Current(r, Ends[row[r].buf[jd]], jd)'
    BY <1>1, <1>5, <2>1, <2>3 DEF Live, Current, Present
  <2>. QED  BY <1>1, <1>4, <2>1, <2>2, <2>3 DEF Live
<1>. QED  BY <1>4, <1>6, <1>7 DEF LiveInv

\* A deleted record's cells are NULL where its slices lead.
LEMMA LiveDelete ==
    ASSUME OpenRowsInv, LiveInv, NEW id \in Records, Delete(id)
    PROVE  LiveInv'
<1> DEFINE a == records[id].array
<1>1. /\ id \in DOMAIN records
      /\ records' = [k \in DOMAIN records \ {id} |-> records[k]]
      /\ UNCHANGED <<cols, alters, moved, tracking, row, alter>>
  BY DEF Delete
<1>2. /\ array \in Seq(Seq(Values)) /\ a \in Arrays /\ cols \in Seq(Nat)
      /\ records[id].width = Len(cols) /\ Len(cols) <= Len(array[a])
  BY <1>1 DEF OpenRowsInv, TableInv
<1>3. /\ Arrays' = Arrays /\ Len(array') = Len(array) /\ \A b \in Arrays : b # a => array'[b] = array[b]
  BY <1>2 DEF Delete, Arrays
<1>4. \A i \in 1..Len(cols) : array'[a][i] = NULL
  <2>1. array'[a] = [i \in DOMAIN array[a] |-> IF i <= records[id].width THEN NULL ELSE array[a][i]]
    BY <1>2 DEF Delete, Arrays
  <2>2. array[a] \in Seq(Values)
    BY <1>2 DEF Arrays
  <2> HIDE DEF a
  <2>. QED  BY <1>2, <2>1, <2>2
<1> HIDE DEF a
<1>5. Slices' = Slices /\ Known' = Known /\ Open' = Open
  BY <1>1, <1>3 DEF Slices, Known, Open
<1>6. Ends' = Ends
  BY <1>1, <1>3, EndsStay
<1>7. MapInv' /\ ColumnsInv' /\ RecordsInv' /\ TrackedInv'
  BY <1>1, <1>3, <1>5 DEF LiveInv, MapInv, ColumnsInv, RecordsInv, TrackedInv
<1>8. /\ \A kd \in DOMAIN records' : kd \in DOMAIN records /\ kd # id /\ records'[kd] = records[kd]
      /\ \A kd \in DOMAIN records : kd # id => kd \in DOMAIN records' /\ records[kd].array # a
  BY <1>1 DEF LiveInv, RecordsInv, a
<1>9. ASSUME NEW r \in Open PROVE Live(r)'
  <2>1. Live(r)
    BY DEF LiveInv
  <2>2. ASSUME NEW jd \in DOMAIN row[r].buf, jd \notin DOMAIN records'
        PROVE  Gone(Ends[row[r].buf[jd]])'
    <3> DEFINE e == Ends[row[r].buf[jd]]
               e2 == Ends'[row'[r].buf[jd]]
    <3>1. e \in Slices
      BY <2>1, EndsEquation DEF EndsLaw, Live, LiveInv
    <3>2. e2 = e
      BY <1>1, <1>6
    <3>3. CASE jd = id
      <4>1. e.array = a /\ e.width <= Len(cols)
        BY <1>1, <2>1, <3>3 DEF Live, Current, a
      <4>2. e.width \in Nat /\ Len(cols) \in Nat
        BY <1>2, <3>1, OpenRowsAssumption DEF Slices
      <4> HIDE DEF e, e2
      <4>3. /\ \A kd \in DOMAIN records' : records'[kd].array # e2.array
            /\ \A k \in 1..e2.width : array'[e2.array][k] = NULL
        BY <1>4, <1>8, <3>2, <4>1, <4>2
      <4>. QED  BY <4>3 DEF Gone, e2
    <3>4. CASE jd # id
      <4>1. Gone(e)
        BY <1>8, <2>1, <2>2, <3>4 DEF Live
      <4>2. e.array \in Arrays /\ e.array # a
        BY <1>1, <3>1, <4>1 DEF Slices, Gone, a
      <4> HIDE DEF e, e2
      <4>3. array'[e.array] = array[e.array]
        BY <1>3, <4>2
      <4>4. /\ \A kd \in DOMAIN records' : records'[kd].array # e2.array
            /\ \A k \in 1..e2.width : array'[e2.array][k] = NULL
        BY <1>8, <3>2, <4>1, <4>3 DEF Gone
      <4>. QED  BY <4>4 DEF Gone, e2
    <3>. QED  BY <3>3, <3>4
  <2>3. ASSUME NEW jd \in DOMAIN records', jd \in DOMAIN row[r].buf
        PROVE  Current(r, Ends[row[r].buf[jd]], jd)'
    BY <1>1, <1>6, <1>8, <2>1, <2>3 DEF Live, Current, Present
  <2>. QED  BY <1>1, <1>5, <1>8, <2>1, <2>2, <2>3 DEF Live
<1>. QED  BY <1>5, <1>7, <1>9 DEF LiveInv

\* A change of columns that starts has a new number for a column that it adds.
LEMMA LiveStart ==
    ASSUME OpenRowsInv, LiveInv, StartAdd \/ \E n \in 1..MaxColumns : StartDrop(n)
    PROVE  LiveInv'
<1>1. /\ alter.at = "none" /\ alter'.at = "announce" /\ alters' = alters + 1
      /\ UNCHANGED <<cols, records, array, moved, row>>
  BY DEF StartAdd, StartDrop, LockFree
<1>2. Known' = Known /\ Known = 3 + alters
  <2>1. alters \in Nat
    BY DEF OpenRowsInv, TableInv
  <2>. QED  BY <1>1, <2>1 DEF Known
<1>3. \/ Len(cols) < MaxColumns /\ alter'.cols = Append(cols, Known)
      \/ \E n \in 1..MaxColumns : n < Len(cols) /\ alter'.cols = SubSeq(cols, 1, n)
  BY <1>2 DEF StartAdd, StartDrop
<1>4. ColumnsInv'
  BY <1>1, <1>2, <1>3 DEF LiveInv, ColumnsInv
<1>5. TrackedInv'
  BY <1>1 DEF TrackedInv
<1>. QED  BY <1>1, <1>2, <1>4, <1>5, RecordsStay

\* The readers are counted while no new one can come.
LEMMA LiveAnnounce ==
    ASSUME OpenRowsInv, LiveInv, Announce \/ CountReaders \/ Withdraw
    PROVE  LiveInv'
<1>1. /\ alter.at \in {"announce", "count", "withdraw"}
      /\ UNCHANGED <<cols, alters, records, array, moved, row, readers>>
  BY DEF Announce, CountReaders, Withdraw
<1>2. alter'.cols = alter.cols /\ alter'.at # "none"
  <2>1. alter \in [at: Phases, cols: Seq(Nat)]
    BY DEF OpenRowsInv, TableInv
  <2>2. PICK s \in {"count", "withdraw", "resize"} : alter' = [alter EXCEPT !.at = s]
    BY DEF Announce, CountReaders, Withdraw
  <2>. QED  BY <2>1, <2>2
<1>3. Known' = Known /\ Open' = Open
  BY <1>1, <1>2 DEF Known, Open
<1>4. ColumnsInv'
  BY <1>1, <1>2, <1>3 DEF LiveInv, ColumnsInv
<1>5. TrackedInv'
  <2>0. alter \in [at: Phases, cols: Seq(Nat)]
    BY DEF OpenRowsInv, TableInv
  <2>1. CASE Announce
    BY <2>0, <2>1 DEF Announce, TrackedInv
  <2>2. CASE CountReaders
    <3>1. Open # {} => readers > 0
      BY OpenFinite DEF OpenRowsInv, HandshakeInv, RowTypes
    <3>2. tracking' = (readers > 0)
      BY <2>2 DEF CountReaders
    <3>3. readers > 0 => tracking'
      BY <3>2, Zenon
    <3>. QED  BY <1>3, <3>1, <3>3 DEF TrackedInv
  <2>3. CASE Withdraw
    BY <1>3, <2>3 DEF Withdraw, LiveInv, TrackedInv
  <2>. QED  BY <2>1, <2>2, <2>3
<1>. QED  BY <1>1, <1>3, <1>4, <1>5, RecordsStay

\* What a slice is made of, and that it leads to a slice.
LEMMA SliceTypes ==
    /\ \A s \in Slices : s.array \in Arrays /\ s.width \in Nat
    /\ EndsLaw => \A s \in Slices : Ends[s] \in Slices
<1>1. \A s \in Slices : s.array \in Arrays /\ s.width \in Nat
  BY OpenRowsAssumption DEF Slices
<1>2. ASSUME EndsLaw PROVE \A s \in Slices : Ends[s] \in Slices
  <2>1. Ends \in [Slices -> Slices]
    BY <1>2 DEF EndsLaw
  <2>. QED  BY <2>1
<1>. QED  BY <1>1, <1>2

\* Which column has which number once the columns have changed.
LEMMA ColumnsResized ==
    ASSUME OpenRowsInv, LiveInv, Resize
    PROVE  /\ ColumnsInv' /\ cols' = alter.cols /\ Known \in Nat /\ Known' = Known + 1
           /\ Len(cols) \in Nat /\ Len(cols') \in 0..MaxColumns
           /\ \A i \in 1..Len(cols') : i <= Len(cols) => cols'[i] = cols[i]
           /\ \A i \in 1..Len(cols') : i > Len(cols) => cols'[i] = Known
           /\ Len(cols') <= Len(cols) + 1
<1>1. /\ alter.at = "resize" /\ cols' = alter.cols /\ alter'.at = "none" /\ alters' = alters
      /\ cols \in Seq(Nat) /\ alters \in Nat /\ MaxColumns \in Nat
  BY OpenRowsAssumption DEF Resize, NoAlter, OpenRowsInv, TableInv
<1>2. Known = 2 + alters /\ Known' = Known + 1 /\ Known \in Nat
  BY <1>1 DEF Known
<1>3. Len(cols) \in Nat /\ DOMAIN cols = 1..Len(cols) /\ \A i \in 1..Len(cols) : cols[i] \in Nat /\ cols[i] < Known
  BY <1>1 DEF LiveInv, ColumnsInv
<1>4. /\ Len(cols') \in 0..MaxColumns /\ DOMAIN cols' = 1..Len(cols')
      /\ \A i \in 1..Len(cols') : i <= Len(cols) => cols'[i] = cols[i]
      /\ \A i \in 1..Len(cols') : i > Len(cols) => cols'[i] = Known
      /\ Len(cols') <= Len(cols) + 1
  <2>1. CASE Len(cols) < MaxColumns /\ alter.cols = Append(cols, Known)
    <3>1. Len(cols') = Len(cols) + 1 /\ DOMAIN cols' = 1..Len(cols')
      BY <1>1, <1>2, <2>1
    <3>2. \A i \in 1..Len(cols) : cols'[i] = cols[i]
      BY <1>1, <1>2, <2>1
    <3>3. cols'[Len(cols) + 1] = Known
      BY <1>1, <1>2, <2>1
    <3>. QED  BY <1>1, <1>3, <2>1, <3>1, <3>2, <3>3
  <2>2. ASSUME NEW n \in 1..MaxColumns, n < Len(cols), alter.cols = SubSeq(cols, 1, n)
        PROVE  /\ Len(cols') \in 0..MaxColumns /\ DOMAIN cols' = 1..Len(cols')
               /\ \A i \in 1..Len(cols') : i <= Len(cols) => cols'[i] = cols[i]
               /\ \A i \in 1..Len(cols') : i > Len(cols) => cols'[i] = Known
               /\ Len(cols') <= Len(cols) + 1
    <3>1. Len(cols') = n /\ DOMAIN cols' = 1..n /\ \A i \in 1..n : cols'[i] = cols[i]
      BY <1>1, <2>2
    <3>. QED  BY <1>1, <1>3, <2>2, <3>1
  <2>. QED  BY <1>1, <2>1, <2>2 DEF LiveInv, ColumnsInv
<1>5. ColumnsInv'
  <2>1. \A i \in DOMAIN cols' : cols'[i] < Known'
    <3> SUFFICES ASSUME NEW i \in 1..Len(cols') PROVE cols'[i] < Known'
      BY <1>4
    <3>1. CASE i <= Len(cols)
      BY <1>2, <1>3, <1>4, <3>1
    <3>2. CASE i > Len(cols)
      BY <1>2, <1>4, <3>2
    <3>. QED  BY <1>3, <1>4, <3>1, <3>2
  <2>2. Len(cols') <= MaxColumns
    BY <1>1, <1>4
  <2>. QED  BY <1>1, <2>1, <2>2 DEF ColumnsInv
<1>. QED  BY <1>1, <1>2, <1>3, <1>4, <1>5

\* Arrays have numbers up to a last one, and new ones the numbers above it.
LEMMA ArraysGrow ==
    ASSUME TableInv, TableInv', Arrays \subseteq Arrays'
    PROVE  /\ Slices \subseteq Slices'
           /\ \A a \in Arrays, b \in Arrays' \ Arrays : a < b
<1>1. /\ Arrays = 1..Len(array) /\ Len(array) \in Nat
      /\ Arrays' = 1..Len(array') /\ Len(array') \in Nat
  BY DEF TableInv, Arrays
<1>2. \A a \in Arrays, b \in Arrays' \ Arrays : a < b
  BY <1>1
<1>. QED  BY <1>2 DEF Slices

\* The map still leads to newer arrays, and not from those of the records.
LEMMA MapResized ==
    ASSUME OpenRowsInv, LiveInv, Resize
    PROVE  MapInv' /\ RecordsInv'
<1> DEFINE width == Len(alter.cols)
<1>1. TableInv /\ TableInv' /\ Resized(width)
  BY ResizeStep DEF OpenRowsInv
<1>2. width \in 0..MaxColumns
  BY ColumnsResized
<1>3. /\ Arrays = 1..Len(array) /\ Len(array) \in Nat
      /\ Arrays' = 1..Len(array') /\ Len(array') \in Nat
  BY <1>1 DEF TableInv, Arrays
<1> HIDE DEF width
<1>4. CASE InPlace(width)
  <2>1. /\ records' = [id \in DOMAIN records |-> Slice(records[id].array, width)]
        /\ moved' = moved /\ Arrays' = Arrays
    BY <1>1, <1>4 DEF Resized
  <2>2. Slices' = Slices
    BY <2>1 DEF Slices
  <2>3. MapInv'
    BY <1>3, <2>1, <2>2 DEF LiveInv, MapInv
  <2>4. \A id \in DOMAIN records : records[id].array \in Arrays
    BY DEF OpenRowsInv, TableInv
  <2>5. RecordsInv'
    BY <1>2, <2>1, <2>2, <2>4 DEF LiveInv, RecordsInv, Slice, Slices
  <2>. QED  BY <2>3, <2>5
<1>5. ASSUME NEW fresh, Relocated(fresh, width) PROVE MapInv' /\ RecordsInv'
  <2>1. /\ \A id \in DOMAIN records : fresh[id] \in Arrays' \ Arrays
        /\ \A id, jd \in DOMAIN records : fresh[id] = fresh[jd] => id = jd
        /\ records' = [id \in DOMAIN records |-> Slice(fresh[id], width)]
        /\ Arrays \subseteq Arrays'
    BY <1>5 DEF Relocated
  <2>2. Slices \subseteq Slices' /\ \A a \in Arrays, b \in Arrays' \ Arrays : a < b
    BY <1>1, <2>1, ArraysGrow
  <2>3. \A id \in DOMAIN records : Slice(fresh[id], width) \in Slices'
    BY <1>2, <2>1 DEF Slice, Slices
  <2>4. /\ \A id \in DOMAIN records : records[id].array \in Arrays
        /\ \A a \in DOMAIN moved : a \in Arrays /\ moved[a] \in Slices /\ a < moved[a].array
    BY DEF OpenRowsInv, TableInv, LiveInv, MapInv
  <2>5. ASSUME NEW a \in DOMAIN moved'
        PROVE  a \in Arrays /\ moved'[a] \in Slices' /\ a < moved'[a].array
    <3>1. \/ a \in DOMAIN moved /\ moved'[a] = moved[a]
          \/ \E id \in DOMAIN records :
                records[id].array = a /\ moved'[a] = Slice(fresh[id], width)
      BY <1>5 DEF Relocated
    <3>2. CASE a \in DOMAIN moved /\ moved'[a] = moved[a]
      BY <2>2, <2>4, <3>2
    <3>3. ASSUME NEW id \in DOMAIN records, records[id].array = a,
                 moved'[a] = Slice(fresh[id], width)
          PROVE  a \in Arrays /\ moved'[a] \in Slices' /\ a < moved'[a].array
      BY <2>1, <2>2, <2>3, <2>4, <3>3 DEF Slice
    <3>. QED  BY <3>1, <3>2, <3>3
  <2>6. MapInv'
    BY <1>3, <2>1, <2>5, OpenRowsAssumption DEF MapInv
  <2>7. RecordsInv'
    <3>1. /\ DOMAIN records' = DOMAIN records
          /\ \A id \in DOMAIN records : records'[id] \in Slices' /\ records'[id].array = fresh[id]
      BY <2>1, <2>3 DEF Slice
    <3>2. \A id \in DOMAIN records : fresh[id] \notin DOMAIN moved'
      BY <2>1, <2>5
    <3>. QED  BY <2>1, <3>1, <3>2 DEF RecordsInv
  <2>. QED  BY <2>6, <2>7
<1>. QED  BY <1>1, <1>4, <1>5 DEF Resized

\* The smaller of three numbers, whichever two are compared first.
LEMMA LeastOfThree ==
    ASSUME NEW a \in Nat, NEW b \in Nat, NEW c \in Nat
    PROVE  Least2(a, Least2(b, c)) = Least2(Least2(a, b), c)
BY DEF Least2

\* A slice that led to a record's array leads on to the one the record was moved
\* to, and every other slice to where it led.
LEMMA EndsResized ==
    ASSUME OpenRowsInv, LiveInv, Resize, tracking, NEW fresh, Relocated(fresh, Len(alter.cols))
    PROVE  \A s \in Slices :
               /\ Ends[s].array \notin Held => Ends'[s] = Ends[s]
               /\ \A id \in DOMAIN records : records[id].array = Ends[s].array =>
                    Ends'[s] = Slice(fresh[id], Least2(Ends[s].width, Len(alter.cols)))
<1> DEFINE width == Len(alter.cols)
           P == {s \in Slices :
                    /\ Ends[s].array \notin Held => Ends'[s] = Ends[s]
                    /\ \A id \in DOMAIN records : records[id].array = Ends[s].array =>
                         Ends'[s] = Slice(fresh[id], Least2(Ends[s].width, width))}
<1>1. /\ TableInv /\ TableInv' /\ MapInv /\ MapInv' /\ EndsLaw /\ EndsLaw'
      /\ width \in 0..MaxColumns /\ MaxColumns \in Nat
  BY ResizeStep, MapResized, ColumnsResized, EndsEquation, EndsEquationNext, OpenRowsAssumption
     DEF OpenRowsInv, LiveInv
<1> HIDE DEF width
<1>2. /\ \A id \in DOMAIN records : fresh[id] \in Arrays' \ Arrays
      /\ Arrays \subseteq Arrays'
      /\ DOMAIN moved' = DOMAIN moved \cup Held
      /\ \A a \in DOMAIN moved \ Held : moved'[a] = moved[a]
      /\ \A a \in Held : \E id \in DOMAIN records :
            records[id].array = a /\ moved'[a] = Slice(fresh[id], width)
  BY DEF Relocated, width
<1>3. /\ \A id \in DOMAIN records : records[id].array \in Held
      /\ Held \subseteq Arrays /\ DOMAIN moved \subseteq Arrays /\ DOMAIN moved \cap Held = {}
      /\ \A id, jd \in DOMAIN records : records[id].array = records[jd].array => id = jd
  BY DEF Held, OpenRowsInv, TableInv, LiveInv, RecordsInv
<1>4. Slices \subseteq Slices'
  BY <1>1, <1>2, ArraysGrow
<1>5. \A s \in Slices : s.width \in Nat /\ Ends[s] \in Slices
  BY <1>1, SliceTypes
<1>6. \A id \in DOMAIN records :
        /\ Slice(fresh[id], width) \in Slices'
        /\ Ends'[Slice(fresh[id], width)] = Slice(fresh[id], width)
        /\ moved'[records[id].array] = Slice(fresh[id], width)
  <2> SUFFICES ASSUME NEW id \in DOMAIN records
               PROVE  /\ Slice(fresh[id], width) \in Slices'
                      /\ Ends'[Slice(fresh[id], width)] = Slice(fresh[id], width)
                      /\ moved'[records[id].array] = Slice(fresh[id], width)
    OBVIOUS
  <2> DEFINE t == Slice(fresh[id], width)
  <2>1. t \in Slices' /\ t.array = fresh[id]
    BY <1>1, <1>2 DEF Slice, Slices
  <2>2. fresh[id] \notin DOMAIN moved'
    BY <1>2, <1>3
  <2>3. Ends'[t] = t
    <3> HIDE DEF t
    <3>. QED  BY <1>1, <2>1, <2>2 DEF EndsLaw
  <2>4. moved'[records[id].array] = t
    <3>1. PICK jd \in DOMAIN records :
            records[jd].array = records[id].array /\ moved'[records[id].array] = Slice(fresh[jd], width)
      BY <1>2, <1>3
    <3>2. jd = id
      BY <1>3, <3>1
    <3>. QED  BY <3>1, <3>2
  <2>. QED  BY <2>1, <2>3, <2>4
<1>7. ASSUME NEW s \in Slices, s.array \in DOMAIN moved, moved[s.array] \in P
      PROVE  s \in P
  <2> DEFINE m == moved[s.array]
             e == Ends[m]
  <2>1. m \in Slices /\ e \in Slices /\ Ends[s] = Slice(e.array, Least2(s.width, e.width))
    BY <1>1, <1>5, <1>7 DEF EndsLaw
  <2>2. Ends'[s] = Slice(Ends'[m].array, Least2(s.width, Ends'[m].width))
    <3>1. s \in Slices' /\ s.array \in DOMAIN moved' /\ moved'[s.array] = m
      BY <1>2, <1>3, <1>4, <1>7
    <3> HIDE DEF m
    <3>. QED  BY <1>1, <3>1 DEF EndsLaw
  <2>3. /\ e.array \notin Held => Ends'[m] = e
        /\ \A id \in DOMAIN records : records[id].array = e.array =>
            Ends'[m] = Slice(fresh[id], Least2(e.width, width))
    BY <1>7
  <2>4. Ends[s].array = e.array /\ Ends[s].width = Least2(s.width, e.width)
    <3> HIDE DEF e
    <3>. QED  BY <2>1 DEF Slice
  <2>5. s.width \in Nat /\ e.width \in Nat
    BY <1>5, <2>1
  <2> HIDE DEF e, m
  <2>6. ASSUME Ends[s].array \notin Held PROVE Ends'[s] = Ends[s]
    BY <2>1, <2>2, <2>3, <2>4, <2>6
  <2>7. ASSUME NEW id \in DOMAIN records, records[id].array = Ends[s].array
        PROVE  Ends'[s] = Slice(fresh[id], Least2(Ends[s].width, width))
    <3>1. Ends'[m] = Slice(fresh[id], Least2(e.width, width))
      BY <2>3, <2>4, <2>7
    <3>2. Ends'[s] = Slice(fresh[id], Least2(s.width, Least2(e.width, width)))
      BY <2>2, <3>1 DEF Slice
    <3>3. Least2(s.width, Least2(e.width, width)) = Least2(Ends[s].width, width)
      BY <1>1, <2>4, <2>5, LeastOfThree
    <3>. QED  BY <3>2, <3>3
  <2>. QED  BY <2>6, <2>7
<1>8. ASSUME NEW s \in Slices, s.array \notin DOMAIN moved
      PROVE  s \in P
  <2>1. Ends[s] = s /\ s \in Slices'
    BY <1>1, <1>4, <1>8 DEF EndsLaw
  <2>2. ASSUME s.array \notin Held PROVE Ends'[s] = s
    <3>1. s.array \notin DOMAIN moved'
      BY <1>2, <1>8, <2>2
    <3>. QED  BY <1>1, <2>1, <3>1 DEF EndsLaw
  <2>3. ASSUME NEW id \in DOMAIN records, records[id].array = s.array
        PROVE  Ends'[s] = Slice(fresh[id], Least2(s.width, width))
    <3> DEFINE t == Slice(fresh[id], width)
    <3>1. s.array \in DOMAIN moved' /\ moved'[s.array] = t /\ Ends'[t] = t
      BY <1>2, <1>3, <1>6, <2>3
    <3>2. t.array = fresh[id] /\ t.width = width
      BY DEF Slice
    <3> HIDE DEF t
    <3>3. Ends'[s] = Slice(Ends'[t].array, Least2(s.width, Ends'[t].width))
      BY <1>1, <2>1, <3>1 DEF EndsLaw
    <3>. QED  BY <3>1, <3>2, <3>3
  <2>. QED  BY <2>1, <2>2, <2>3
<1>9. P = Slices
  <2>1. P \in SUBSET Slices
    OBVIOUS
  <2> HIDE DEF P
  <2>2. \A s \in Slices : (s.array \in DOMAIN moved => moved[s.array] \in P) => s \in P
    BY <1>7, <1>8
  <2>. QED  BY <1>1, <2>1, <2>2, MapInduction
<1>10. \A s \in P :
               /\ Ends[s].array \notin Held => Ends'[s] = Ends[s]
               /\ \A id \in DOMAIN records : records[id].array = Ends[s].array =>
                    Ends'[s] = Slice(fresh[id], Least2(Ends[s].width, width))
  OBVIOUS
<1> HIDE DEF P
<1>. QED  BY <1>9, <1>10 DEF width

\* A Rows sees its records and columns where a change of columns has put them.
LEMMA LiveResize ==
    ASSUME OpenRowsInv, LiveInv, Resize
    PROVE  LiveInv'
<1> DEFINE width == Len(alter.cols)
<1>1. TableInv /\ TableInv' /\ Resized(width) /\ MapInv' /\ RecordsInv' /\ EndsLaw
  BY ResizeStep, MapResized, EndsEquation DEF OpenRowsInv, LiveInv
<1>2. /\ ColumnsInv' /\ Known \in Nat /\ Known' = Known + 1
      /\ Len(cols) \in Nat /\ Len(cols') = width /\ width \in 0..MaxColumns
      /\ \A i \in 1..width : i <= Len(cols) => cols'[i] = cols[i]
      /\ \A i \in 1..width : i > Len(cols) => cols'[i] = Known
      /\ width <= Len(cols) + 1
  BY ColumnsResized
<1>3. alter.at = "resize" /\ row' = row /\ Open' = Open /\ alter'.at = "none"
  BY DEF Resize, NoAlter, Open
<1>4. TrackedInv'
  BY <1>3 DEF TrackedInv
<1> HIDE DEF width
<1>5. ASSUME NEW r \in Open PROVE Live(r)'
  <2>1. tracking /\ ~InPlace(width)
    BY <1>3 DEF LiveInv, TrackedInv, InPlace
  <2>2. PICK fresh : Relocated(fresh, width)
    BY <1>1, <2>1 DEF Resized
  <2>3. /\ \A id \in DOMAIN records : fresh[id] \in Arrays' \ Arrays
        /\ records' = [id \in DOMAIN records |-> Slice(fresh[id], width)]
        /\ Arrays \subseteq Arrays'
        /\ \A b \in Arrays \ Held : array'[b] = array[b]
    BY <2>2 DEF Relocated
  <2>4. Slices \subseteq Slices'
    BY <1>1, <2>3, ArraysGrow
  <2>5. \A s \in Slices :
            /\ Ends[s].array \notin Held => Ends'[s] = Ends[s]
            /\ \A id \in DOMAIN records : records[id].array = Ends[s].array =>
                Ends'[s] = Slice(fresh[id], Least2(Ends[s].width, width))
    BY <2>1, <2>2, EndsResized DEF width
  <2>6. Live(r) /\ r \in Rows
    BY DEF LiveInv, Open
  <2>7. row[r].cols \in Seq(Nat) /\ DOMAIN row[r].cols = 1..Len(row[r].cols)
        /\ \A i \in DOMAIN row[r].cols : i \in Nat /\ row[r].cols[i] \in Nat /\ row[r].cols[i] < Known
    <3>1. row[r].cols \in Seq(Nat) /\ \A i \in DOMAIN row[r].cols : row[r].cols[i] < Known
      BY <2>6 DEF Live
    <3>2. DOMAIN row[r].cols = 1..Len(row[r].cols) /\ Len(row[r].cols) \in Nat
      BY <3>1
    <3>3. \A i \in DOMAIN row[r].cols : i \in Nat /\ row[r].cols[i] \in Nat
      BY <3>1, <3>2
    <3>. QED  BY <3>1, <3>2, <3>3
  <2>8. \A i \in DOMAIN row[r].cols : row[r].cols[i] < Known'
    <3>1. \A k \in Nat : k < Known => k < Known'
      BY <1>2
    <3>. QED  BY <2>7, <3>1
  <2>9. /\ DOMAIN records' = DOMAIN records
        /\ \A id \in DOMAIN records : records'[id].array = fresh[id] /\ records'[id].width = width
    BY <2>3 DEF Slice
  <2>10. ASSUME NEW id \in DOMAIN row[r].buf, id \in DOMAIN records
         PROVE  Current(r, Ends[row[r].buf[id]], id)'
    <3> DEFINE e == Ends[row[r].buf[id]]
               e2 == Ends'[row[r].buf[id]]
    <3>1. row[r].buf[id] \in Slices /\ e \in Slices /\ e.width \in Nat
      BY <1>1, <2>6, SliceTypes DEF Live
    <3>2. /\ e.array = records[id].array /\ e.width <= Len(cols)
          /\ \A i \in DOMAIN row[r].cols : i <= e.width <=> i <= Len(cols) /\ cols[i] = row[r].cols[i]
      BY <2>6, <2>10 DEF Live, Current, Present
    <3>3. e2 = Slice(fresh[id], Least2(e.width, width))
      BY <2>5, <2>10, <3>1, <3>2
    <3>4. e2 = Ends'[row'[r].buf[id]]
      BY <1>3
    <3> HIDE DEF e, e2
    <3>5. e2.array = records'[id].array /\ e2.width = Least2(e.width, width)
      BY <2>9, <2>10, <3>3 DEF Slice
    <3>6. e2.width <= Len(cols')
      BY <1>2, <3>1, <3>5 DEF Least2
    <3>7. ASSUME NEW i \in DOMAIN row[r].cols
          PROVE  i <= e2.width <=> i <= Len(cols') /\ cols'[i] = row[r].cols[i]
      <4>1. i \in Nat /\ i >= 1 /\ row[r].cols[i] \in Nat /\ row[r].cols[i] < Known
        BY <2>7
      <4>2. i <= e2.width <=> i <= e.width /\ i <= width
        BY <1>2, <3>1, <3>5, <4>1 DEF Least2
      <4>3. CASE i <= width /\ i <= Len(cols)
        <5>1. cols'[i] = cols[i]
          BY <1>2, <4>1, <4>3
        <5>. QED  BY <1>2, <3>2, <4>2, <4>3, <5>1
      <4>4. CASE i <= width /\ i > Len(cols)
        <5>1. cols'[i] = Known
          BY <1>2, <4>1, <4>4
        <5>2. cols'[i] # row[r].cols[i]
          BY <1>2, <4>1, <5>1
        <5>3. ~(i <= e.width)
          BY <1>2, <3>1, <3>2, <4>1, <4>4
        <5>. QED  BY <4>2, <5>2, <5>3
      <4>5. CASE i > width
        BY <1>2, <4>1, <4>2, <4>5
      <4>. QED  BY <1>2, <4>1, <4>3, <4>4, <4>5
    <3>. QED  BY <1>3, <3>4, <3>5, <3>6, <3>7 DEF Current, Present
  <2>11. ASSUME NEW id \in DOMAIN row[r].buf, id \notin DOMAIN records
         PROVE  Gone(Ends[row[r].buf[id]])'
    <3> DEFINE e == Ends[row[r].buf[id]]
               e2 == Ends'[row'[r].buf[id]]
    <3>1. row[r].buf[id] \in Slices /\ e \in Slices /\ e.array \in Arrays /\ Gone(e)
      BY <1>1, <2>6, <2>11 DEF Live, EndsLaw, Slices
    <3>2. e.array \notin Held
      BY <3>1 DEF Gone, Held
    <3>3. e2 = e
      BY <1>3, <2>5, <3>1, <3>2
    <3> HIDE DEF e, e2
    <3>4. array'[e.array] = array[e.array] /\ \A jd \in DOMAIN records' : records'[jd].array # e.array
      BY <2>3, <2>9, <3>1, <3>2
    <3>5. /\ \A jd \in DOMAIN records' : records'[jd].array # e2.array
          /\ \A i \in 1..e2.width : array'[e2.array][i] = NULL
      BY <3>1, <3>3, <3>4 DEF Gone
    <3>. QED  BY <3>5 DEF Gone, e2
  <2>. QED  BY <1>3, <2>4, <2>6, <2>7, <2>8, <2>9, <2>10, <2>11 DEF Live
<1>. QED  BY <1>1, <1>2, <1>3, <1>4, <1>5 DEF LiveInv

\* Every step keeps what an open Rows sees.
LEMMA LiveStep == OpenRowsInv /\ LiveInv /\ [Next]_vars => LiveInv'
<1> SUFFICES ASSUME OpenRowsInv, LiveInv, [Next]_vars PROVE LiveInv'
  OBVIOUS
<1>1. CASE UNCHANGED vars
  <2>1. UNCHANGED <<cols, alters, array, records, moved, alter, row, tracking>>
    BY <1>1 DEF vars
  <2>2. ColumnsInv' /\ Known' = Known
    BY <2>1, TableStays
  <2>3. TrackedInv'
    BY <2>1 DEF LiveInv, TrackedInv, Open
  <2>. QED  BY <2>1, <2>2, <2>3, RecordsStay
<1>. QED  BY <1>1, LiveSelect, LiveClose, LiveUpdate, LiveDelete, LiveStart, LiveAnnounce,
             LiveResize DEF Next

\* An open Rows sees the present value of each of its records and columns, for
\* any number of result sets, records and ALTER TABLE statements: wherever the
\* records were moved, the map leads to them, and the narrowest slice on the way
\* ends before the first column that is not the one it was.
THEOREM RowsReadLiveValues == Spec => []ValuesAreLive
<1>1. Init => LiveInv
  BY LiveInit
<1>2. OpenRowsInv /\ LiveInv /\ [Next]_vars => LiveInv'
  BY LiveStep
<1>3. LiveInv => ValuesAreLive
  <2> SUFFICES ASSUME LiveInv, NEW r \in Rows, row[r].at = "open",
                      NEW id \in DOMAIN row[r].buf, NEW i \in DOMAIN row[r].cols
               PROVE  ReadCell(r, id, i) = IF id \in DOMAIN records /\ Present(r, i)
                                           THEN array[records[id].array][i] ELSE NULL
    BY DEF ValuesAreLive
  <2> DEFINE e == Record(row[r].buf[id])
  <2>1. Live(r)
    BY DEF LiveInv, Open
  <2>2. Ends[row[r].buf[id]] = e
    BY <2>1 DEF Live, Ends
  <2>3. ReadCell(r, id, i) = IF i <= e.width THEN array[e.array][i] ELSE NULL
    BY DEF ReadCell
  <2>4. id \in DOMAIN records => Current(r, e, id)
    BY <2>1, <2>2 DEF Live
  <2>5. id \notin DOMAIN records => Gone(e)
    BY <2>1, <2>2 DEF Live
  <2>6. i \in Nat /\ i >= 1
    BY <2>1 DEF Live
  <2>7. e.width \in Nat
    <3>1. row[r].buf[id] \in Slices /\ EndsLaw
      BY <2>1, EndsEquation DEF LiveInv, Live
    <3>. QED  BY <2>2, <3>1, SliceTypes
  <2> HIDE DEF e
  <2>8. CASE id \in DOMAIN records
    BY <2>3, <2>4, <2>8 DEF Current
  <2>9. CASE id \notin DOMAIN records
    <3>1. i <= e.width => array[e.array][i] = NULL
      BY <2>5, <2>6, <2>7, <2>9 DEF Gone
    <3>. QED  BY <2>3, <2>9, <3>1
  <2>. QED  BY <2>8, <2>9
<1>. QED  BY <1>1, <1>2, <1>3, OpenRowsInvariant, PTL DEF Spec

=============================================================================
