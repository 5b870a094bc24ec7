--------------------------- MODULE DatabaseProofs ----------------------------
(***************************************************************************)
(* What the statements keep true of the tables, the system tables and the  *)
(* streams, for any number of tables, records, columns and streams.        *)
(***************************************************************************)
EXTENDS Database, FiniteSetTheorems, FunctionTheorems, SequenceTheorems,
        WellFoundedInduction, TLAPS

\* What the assumption on the constants says, a part at a time.
LEMMA Constants ==
    /\ TableNames \subseteq Strings /\ Texts \subseteq Strings
    /\ UserStreams \subseteq Strings /\ Summary \in Strings
    /\ Null \notin Texts /\ Object \notin Texts /\ Object # Null /\ OnFile \notin Handles
    /\ IsFiniteSet(Handles) /\ Handles \subseteq Int
    /\ MaxHolds \in Nat /\ MaxColumns \in Nat /\ MaxRecords \in Nat
    /\ Schemas \subseteq Seq(Column) /\ \A cols \in Schemas : WellFormed(cols)
    /\ Additions \subseteq Column /\ \A c \in Additions : ~c.key
<1>1. DatabaseAssumption!1 /\ DatabaseAssumption!3 /\ DatabaseAssumption!4 /\ DatabaseAssumption!5
  BY DatabaseAssumption
<1>2. SchemaAssumption!1 /\ SchemaAssumption!2
  BY SchemaAssumption
<1>. QED  BY <1>1, <1>2

\* A set of numbers that is not empty has a least one.
LEMMA LeastNumber ==
    ASSUME NEW S \in SUBSET Nat, S # {}
    PROVE  \E m \in S : \A k \in S : m <= k
<1> DEFINE R == {ss \in Nat \X Nat : ss[1] < ss[2]}
<1>1. IsWellFoundedOn(R, Nat)
  BY NatLessThanWellFounded DEF OpToRel
<1>2. \A k, m \in Nat : k < m => <<k, m>> \in R
  OBVIOUS
<1> HIDE DEF R
<1>3. PICK m \in S : \A k \in S : ~(<<k, m>> \in R)
  BY <1>1, WFMin
<1>4. ASSUME NEW k \in S PROVE m <= k
  <2>1. ~(k < m)
    BY <1>2, <1>3
  <2>. QED  BY <2>1
<1>. QED  BY <1>4

-----------------------------------------------------------------------------
(***************************************************************************)
(* Columns and records.                                                    *)
(***************************************************************************)

Value == Texts \cup {Null, Object}

Record == [cells : Seq(Value), temporary : BOOLEAN]

Columns == {cols \in Seq(Column) : WellFormed(cols) /\ cols # <<>>}

\* How many of the columns are persistent.
Width(cols) == Cardinality({i \in DOMAIN cols : ~cols[i].temporary})

\* A record of the columns: no text cell holds a stream, and only cells that
\* reach the file do.
Fits(cols, rec) ==
    /\ Len(rec.cells) = Len(cols)
    /\ \A i \in DOMAIN cols :
        /\ cols[i].type = "string" => rec.cells[i] # Object
        /\ rec.cells[i] = Object => CellPersistent(rec, cols[i])

\* What the columns of a table are, from the way they are added.
LEMMA ColumnsFacts ==
    ASSUME NEW cols \in Columns
    PROVE  /\ Len(cols) \in Nat \ {0} /\ DOMAIN cols = 1..Len(cols)
           /\ \A i \in 1..Len(cols) :
                /\ cols[i] \in Column /\ cols[i].name \in Strings
                /\ cols[i].key \in BOOLEAN /\ cols[i].temporary \in BOOLEAN
                /\ cols[i].key => cols[i].type = "string"
                /\ cols[i].key /\ cols[i].temporary => cols[1].temporary
                /\ i <= MaxColumns
                /\ ~cols[i].temporary => i <= MaxColumns - 1
                /\ \A j \in 1..Len(cols) : j < i =>
                    /\ cols[i].name # cols[j].name
                    /\ cols[i].key => cols[j].key
                    /\ cols[j].temporary => cols[i].temporary
           /\ cols[1].key
<1>1. cols \in Seq(Column) /\ WellFormed(cols) /\ cols # <<>>
  BY DEF Columns
<1>2. Len(cols) \in Nat \ {0} /\ DOMAIN cols = 1..Len(cols)
  BY <1>1
<1>3. ASSUME NEW i \in 1..Len(cols)
      PROVE  /\ cols[i] \in Column /\ cols[i].name \in Strings
             /\ cols[i].key \in BOOLEAN /\ cols[i].temporary \in BOOLEAN
  <2>1. cols[i] \in Column
    BY <1>1
  <2>. QED  BY <2>1 DEF Column
<1>4. ASSUME NEW i \in 1..Len(cols)
      PROVE  /\ cols[i].key => cols[i].type = "string"
             /\ cols[i].key /\ cols[i].temporary => cols[1].temporary
             /\ i <= MaxColumns
             /\ ~cols[i].temporary => i <= MaxColumns - 1
  BY <1>1, <1>2, <1>3, Constants DEF WellFormed
<1>5. ASSUME NEW i \in 1..Len(cols), NEW j \in 1..Len(cols), j < i
      PROVE  /\ cols[i].name # cols[j].name
             /\ cols[i].key => cols[j].key
             /\ cols[j].temporary => cols[i].temporary
  <2>1. j \in 1..(i - 1)
    BY <1>5
  <2>. QED  BY <1>1, <1>2, <2>1 DEF WellFormed
<1>6. cols[1].key
  BY <1>1 DEF WellFormed
<1>. QED  BY <1>2, <1>3, <1>4, <1>5, <1>6

\* The persistent columns are the first ones.
LEMMA PersistentPrefix ==
    ASSUME NEW cols \in Columns
    PROVE  /\ Width(cols) \in 0..Len(cols)
           /\ \A i \in 1..Len(cols) : i <= Width(cols) <=> ~cols[i].temporary
           /\ Persistent(cols) <=> Width(cols) > 0
           /\ PersistentColumns(cols) = SubSeq(cols, 1, Width(cols))
<1> DEFINE n == Len(cols)
           P == {i \in 1..n : ~cols[i].temporary}
           Q == {i \in 1..n : cols[i].temporary}
<1>1. n \in Nat \ {0} /\ DOMAIN cols = 1..n
  BY ColumnsFacts
<1>2. \A i, j \in 1..n : j < i /\ cols[j].temporary => cols[i].temporary
  BY ColumnsFacts
<1>3. \E k \in 0..n : \A i \in 1..n : i <= k <=> ~cols[i].temporary
  <2>1. CASE Q = {}
    <3>1. n \in 0..n /\ \A i \in 1..n : i <= n <=> ~cols[i].temporary
      BY <1>1, <2>1
    <3>. QED  BY <3>1
  <2>2. CASE Q # {}
    <3>1. PICK m \in Q : \A i \in Q : m <= i
      <4>1. Q \subseteq Nat
        BY <1>1
      <4> HIDE DEF Q
      <4>. QED  BY <2>2, <4>1, LeastNumber
    <3>2. \A i \in 1..n : i <= m - 1 <=> ~cols[i].temporary
      <4>1. m \in 1..n /\ cols[m].temporary
        BY <3>1
      <4>2. ASSUME NEW i \in 1..n, i <= m - 1 PROVE ~cols[i].temporary
        BY <1>1, <3>1, <4>1, <4>2
      <4>3. ASSUME NEW i \in 1..n, ~(i <= m - 1) PROVE cols[i].temporary
        <5>1. i = m \/ m < i
          BY <1>1, <4>1, <4>3
        <5>. QED  BY <1>2, <4>1, <5>1
      <4>. QED  BY <4>2, <4>3
    <3>3. m - 1 \in 0..n
      BY <1>1, <3>1
    <3>. QED  BY <3>2, <3>3
  <2>. QED  BY <2>1, <2>2
<1>4. PICK k \in 0..n : \A i \in 1..n : i <= k <=> ~cols[i].temporary
  BY <1>3
<1>5. P = 1..k
  BY <1>1, <1>4
<1>6. Width(cols) = k
  <2>1. Width(cols) = Cardinality(1..k)
    BY <1>1, <1>5 DEF Width
  <2>. QED  BY <1>4, <2>1, FS_Interval
<1>7. Persistent(cols) <=> k > 0
  BY <1>1, <1>4 DEF Persistent
<1>. QED  BY <1>4, <1>6, <1>7 DEF PersistentColumns, Width

KeyColumns(cols) == {j \in DOMAIN cols : cols[j].key}

\* A key is made of texts and nulls, and so names a stream.
LEMMA KeyIsText ==
    ASSUME NEW cols \in Columns, NEW rec \in Record, Fits(cols, rec)
    PROVE  /\ Key(cols, rec) \in [KeyColumns(cols) -> Texts \cup {Null}]
           /\ \A t \in TableNames : StreamKey(t, Key(cols, rec)) \in Strings
<1>1. /\ DOMAIN cols = 1..Len(cols) /\ Len(cols) \in Nat \ {0} /\ cols[1].key
      /\ \A i \in DOMAIN cols : i <= MaxColumns /\ (cols[i].key => cols[i].type = "string")
  BY ColumnsFacts
<1>2. \A i \in KeyColumns(cols) : rec.cells[i] \in Texts \cup {Null}
  <2> SUFFICES ASSUME NEW i \in KeyColumns(cols) PROVE rec.cells[i] \in Texts \cup {Null}
    OBVIOUS
  <2>1. i \in DOMAIN cols /\ cols[i].type = "string"
    BY <1>1 DEF KeyColumns
  <2>2. rec.cells \in Seq(Value) /\ Len(rec.cells) = Len(cols)
    BY DEF Record, Fits
  <2>3. rec.cells[i] \in Value /\ rec.cells[i] # Object
    BY <1>1, <2>1, <2>2 DEF Fits
  <2>. QED  BY <2>3 DEF Value
<1>3. Key(cols, rec) \in [KeyColumns(cols) -> Texts \cup {Null}]
  BY <1>2 DEF Key, KeyColumns
<1>4. KeyColumns(cols) \in {ks \in SUBSET (1..MaxColumns) : 1 \in ks}
  BY <1>1, Constants DEF KeyColumns
<1>5. \A t \in TableNames, keys \in {ks \in SUBSET (1..MaxColumns) : 1 \in ks} :
        \A k \in [keys -> Texts \cup {Null}] : StreamKey(t, k) \in Strings
  BY DatabaseAssumption
<1>. QED  BY <1>3, <1>4, <1>5

\* Columns that a table of the columns can be given: key columns stay, and no
\* column goes whose cells reach the file.
Reshapes(cols, new) ==
    /\ \A i \in 1..Len(cols) : IF i <= Len(new) THEN new[i] = cols[i]
                                                 ELSE ~cols[i].key /\ cols[i].temporary
    /\ \A i \in 1..Len(new) : i > Len(cols) => ~new[i].key

\* A record fits the columns its table gets, with the same key.
LEMMA ResizedFits ==
    ASSUME NEW cols \in Columns, NEW new \in Columns, Reshapes(cols, new),
           NEW rec \in Record, Fits(cols, rec)
    PROVE  LET r == Resized(rec, Len(new)) IN
           /\ r \in Record /\ Fits(new, r) /\ r.temporary = rec.temporary
           /\ DOMAIN r.cells = 1..Len(new)
           /\ \A i \in 1..Len(new) : r.cells[i] = IF i <= Len(cols) THEN rec.cells[i] ELSE Null
           /\ Key(new, r) = Key(cols, rec)
           /\ HasBinary(new, r) <=> HasBinary(cols, rec)
<1> DEFINE r == Resized(rec, Len(new))
<1>1. /\ DOMAIN cols = 1..Len(cols) /\ Len(cols) \in Nat
      /\ DOMAIN new = 1..Len(new) /\ Len(new) \in Nat
  BY ColumnsFacts
<1>2. rec.cells \in Seq(Value) /\ Len(rec.cells) = Len(cols) /\ rec.temporary \in BOOLEAN
  BY DEF Record, Fits
<1>3. /\ r.temporary = rec.temporary
      /\ r.cells = [i \in 1..Len(new) |-> IF i <= Len(cols) THEN rec.cells[i] ELSE Null]
      /\ r = [cells |-> r.cells, temporary |-> r.temporary]
  <2> DEFINE cells == [i \in 1..Len(new) |-> IF i <= Len(rec.cells) THEN rec.cells[i] ELSE Null]
  <2>1. r = [rec EXCEPT !.cells = cells]
    BY DEF Resized
  <2>2. cells = [i \in 1..Len(new) |-> IF i <= Len(cols) THEN rec.cells[i] ELSE Null]
    BY <1>2
  <2> HIDE DEF cells, r
  <2>3. r.temporary = rec.temporary /\ r.cells = cells
        /\ r = [cells |-> r.cells, temporary |-> r.temporary]
    BY <2>1 DEF Record
  <2>. QED  BY <2>2, <2>3
<1> HIDE DEF r
<1>4. \A i \in 1..Len(new) : r.cells[i] \in Value
  BY <1>1, <1>2, <1>3 DEF Value
<1>5. r.cells \in Seq(Value) /\ Len(r.cells) = Len(new) /\ DOMAIN r.cells = 1..Len(new)
  BY <1>1, <1>3, <1>4
<1>6. r \in Record
  BY <1>2, <1>3, <1>5 DEF Record
<1>7. \A i \in 1..Len(new) :
        r.cells[i] = IF i <= Len(cols) THEN rec.cells[i] ELSE Null
  BY <1>3
<1>8. Fits(new, r)
  <2> SUFFICES ASSUME NEW i \in 1..Len(new)
               PROVE  /\ new[i].type = "string" => r.cells[i] # Object
                      /\ r.cells[i] = Object => CellPersistent(r, new[i])
    BY <1>1, <1>5 DEF Fits
  <2>1. CASE i <= Len(cols)
    <3>1. i \in 1..Len(cols) /\ new[i] = cols[i] /\ r.cells[i] = rec.cells[i]
      BY <1>1, <1>7, <2>1 DEF Reshapes
    <3>. QED  BY <1>1, <1>3, <3>1 DEF Fits, CellPersistent
  <2>2. CASE ~(i <= Len(cols))
    BY <1>7, <2>2, Constants
  <2>. QED  BY <2>1, <2>2
<1>9. KeyColumns(new) = KeyColumns(cols)
  <2>1. \A i \in KeyColumns(cols) : i \in KeyColumns(new)
    BY <1>1 DEF KeyColumns, Reshapes
  <2>2. \A i \in KeyColumns(new) : i \in KeyColumns(cols)
    BY <1>1 DEF KeyColumns, Reshapes
  <2>. QED  BY <2>1, <2>2
<1>10. Key(new, r) = Key(cols, rec)
  <2>1. \A i \in KeyColumns(cols) : r.cells[i] = rec.cells[i]
    <3> SUFFICES ASSUME NEW i \in KeyColumns(cols) PROVE r.cells[i] = rec.cells[i]
      OBVIOUS
    <3>1. i \in 1..Len(cols) /\ i \in 1..Len(new)
      BY <1>1, <1>9 DEF KeyColumns
    <3>. QED  BY <1>1, <1>7, <3>1
  <2>. QED  BY <1>9, <2>1 DEF Key, KeyColumns
<1>11. ASSUME HasBinary(new, r) PROVE HasBinary(cols, rec)
  <2>1. PICK i \in 1..Len(new) : new[i].type = "binary" /\ r.cells[i] = Object
    BY <1>1, <1>11 DEF HasBinary
  <2>2. i \in 1..Len(cols) /\ rec.cells[i] = Object /\ cols[i] = new[i]
    BY <1>1, <1>7, <2>1, Constants DEF Reshapes
  <2>. QED  BY <1>1, <2>1, <2>2 DEF HasBinary
<1>12. ASSUME HasBinary(cols, rec) PROVE HasBinary(new, r)
  <2>1. PICK i \in 1..Len(cols) : cols[i].type = "binary" /\ rec.cells[i] = Object
    BY <1>1, <1>12 DEF HasBinary
  <2>2. ~cols[i].temporary
    BY <1>1, <2>1 DEF Fits, CellPersistent
  <2>3. i <= Len(new) /\ new[i] = cols[i]
    BY <2>2 DEF Reshapes
  <2>. QED  BY <1>1, <1>7, <2>1, <2>3 DEF HasBinary
<1>. QED  BY <1>3, <1>5, <1>6, <1>7, <1>8, <1>10, <1>11, <1>12 DEF r

\* UPDATE of one cell.
LEMMA WithFits ==
    ASSUME NEW cols \in Columns, NEW rec \in Record, Fits(cols, rec),
           NEW i \in DOMAIN cols, ~cols[i].key, NEW v \in Value,
           cols[i].type = "string" => v # Object,
           v = Object => CellPersistent(rec, cols[i])
    PROVE  LET r == With(rec, i, v) IN
           /\ r \in Record /\ Fits(cols, r) /\ r.temporary = rec.temporary
           /\ DOMAIN r.cells = DOMAIN rec.cells
           /\ \A j \in DOMAIN cols : r.cells[j] = IF j = i THEN v ELSE rec.cells[j]
           /\ Key(cols, r) = Key(cols, rec)
           /\ cols[i].type = "string" => (HasBinary(cols, r) <=> HasBinary(cols, rec))
<1> DEFINE r == With(rec, i, v)
<1>1. DOMAIN cols = 1..Len(cols) /\ Len(cols) \in Nat
  BY ColumnsFacts
<1>2. rec.cells \in Seq(Value) /\ Len(rec.cells) = Len(cols) /\ rec.temporary \in BOOLEAN
  BY DEF Record, Fits
<1>3. /\ r.temporary = rec.temporary
      /\ r.cells = [rec.cells EXCEPT ![i] = v]
      /\ r = [cells |-> r.cells, temporary |-> r.temporary]
  <2>1. PICK c, t : rec = [cells |-> c, temporary |-> t]
    BY <1>2 DEF Record
  <2>2. rec.cells = c /\ rec.temporary = t
    BY <2>1
  <2>3. PICK d : d = [c EXCEPT ![i] = v]
    OBVIOUS
  <2>4. r = [cells |-> d, temporary |-> t]
    BY <2>1, <2>2, <2>3 DEF With
  <2>5. r.cells = d /\ r.temporary = t
    BY <2>4
  <2>. QED  BY <2>2, <2>3, <2>4, <2>5
<1> HIDE DEF r
<1>4. r.cells \in Seq(Value) /\ Len(r.cells) = Len(cols) /\ DOMAIN r.cells = DOMAIN rec.cells
  BY <1>1, <1>2, <1>3
<1>5. r \in Record
  BY <1>2, <1>3, <1>4 DEF Record
<1>6. \A j \in DOMAIN cols : r.cells[j] = IF j = i THEN v ELSE rec.cells[j]
  BY <1>1, <1>2, <1>3
<1>7. Fits(cols, r)
  BY <1>3, <1>4, <1>6 DEF Fits, CellPersistent
<1>8. Key(cols, r) = Key(cols, rec)
  BY <1>6 DEF Key
<1>9. cols[i].type = "string" => (HasBinary(cols, r) <=> HasBinary(cols, rec))
  BY <1>6 DEF HasBinary
<1>. QED  BY <1>3, <1>4, <1>5, <1>6, <1>7, <1>8, <1>9 DEF r

-----------------------------------------------------------------------------
(***************************************************************************)
(* Columns that are added, and temporary columns that go.                  *)
(***************************************************************************)

\* A column added at the end gives columns a table may have.
LEMMA AppendReshapes ==
    ASSUME NEW cols \in Columns, NEW c \in Column, ~c.key,
           \A i \in DOMAIN cols : cols[i].name # c.name,
           c.temporary \/ ~cols[Len(cols)].temporary,
           Len(cols) + 1 <= IF c.temporary THEN MaxColumns ELSE MaxColumns - 1
    PROVE  LET new == Append(cols, c) IN
           /\ new \in Columns /\ Reshapes(cols, new) /\ Len(new) = Len(cols) + 1
           /\ new[Len(cols) + 1] = c
<1> DEFINE new == Append(cols, c)
           n == Len(cols)
<1>1. cols \in Seq(Column) /\ n \in Nat \ {0} /\ DOMAIN cols = 1..n
  BY ColumnsFacts DEF Columns
<1>2. /\ new \in Seq(Column) /\ new # <<>> /\ Len(new) = n + 1 /\ DOMAIN new = 1..(n + 1)
      /\ new[n + 1] = c /\ \A i \in 1..n : new[i] = cols[i]
  BY <1>1
<1> HIDE DEF new
<1>3. Reshapes(cols, new)
  BY <1>1, <1>2 DEF Reshapes
<1>4. new[1].key
  BY <1>1, <1>2, ColumnsFacts
<1>5. ASSUME NEW i \in 1..(n + 1)
      PROVE  /\ new[i].key => new[i].type = "string"
             /\ new[i].key /\ new[i].temporary => new[1].temporary
             /\ i <= IF new[i].temporary THEN MaxColumns ELSE MaxColumns - 1
  <2>1. CASE i \in 1..n
    BY <1>1, <1>2, <2>1, ColumnsFacts
  <2>2. CASE i = n + 1
    BY <1>2, <2>2
  <2>. QED  BY <1>1, <2>1, <2>2
<1>6. ASSUME NEW i \in 1..(n + 1), NEW j \in 1..(i - 1)
      PROVE  /\ new[i].name # new[j].name
             /\ new[i].key => new[j].key
             /\ new[j].temporary => new[i].temporary
  <2>0. j \in 1..n /\ j < i
    BY <1>1
  <2>1. CASE i \in 1..n
    BY <1>1, <1>2, <2>0, <2>1, ColumnsFacts
  <2>2. CASE i = n + 1
    <3>1. cols[j].temporary => cols[n].temporary
      <4>1. CASE j = n
        BY <4>1
      <4>2. CASE j # n
        <5>1. j < n /\ n \in 1..n
          <6> HIDE DEF n
          <6>1. n \in Nat /\ j \in Nat /\ j <= n /\ n > 0
            BY <1>1, <2>0
          <6>. QED  BY <4>2, <6>1
        <5>. QED  BY <1>1, <2>0, <5>1, ColumnsFacts
      <4>. QED  BY <4>1, <4>2
    <3>. QED  BY <1>1, <1>2, <2>0, <2>2, <3>1
  <2>. QED  BY <1>1, <2>1, <2>2
<1>7. WellFormed(new)
  BY <1>2, <1>4, <1>5, <1>6 DEF WellFormed
<1>. QED  BY <1>2, <1>3, <1>7 DEF Columns, new

\* So does leaving out the temporary columns.
LEMMA PrefixReshapes ==
    ASSUME NEW cols \in Columns, Persistent(cols)
    PROVE  LET new == PersistentColumns(cols) IN
           /\ new \in Columns /\ Reshapes(cols, new) /\ Len(new) = Width(cols)
           /\ \A i \in 1..Width(cols) : new[i] = cols[i]
<1> DEFINE new == PersistentColumns(cols)
           n == Len(cols)
           k == Width(cols)
<1>1. cols \in Seq(Column) /\ n \in Nat \ {0} /\ DOMAIN cols = 1..n
  BY ColumnsFacts DEF Columns
<1>2. /\ k \in 1..n /\ new = SubSeq(cols, 1, k)
      /\ \A i \in 1..n : i <= k <=> ~cols[i].temporary
  BY PersistentPrefix, <1>1
<1>3. /\ new \in Seq(Column) /\ new # <<>> /\ Len(new) = k /\ DOMAIN new = 1..k
      /\ \A i \in 1..k : new[i] = cols[i]
  <2> HIDE DEF k, n
  <2>. QED  BY <1>1, <1>2
<1> HIDE DEF new
<1>4. Reshapes(cols, new)
  <2>1. ASSUME NEW i \in 1..n, ~(i <= k) PROVE ~cols[i].key /\ cols[i].temporary
    <3>1. cols[i].temporary /\ ~cols[1].temporary
      BY <1>1, <1>2, <2>1
    <3>. QED  BY <1>1, <3>1, ColumnsFacts
  <2>. QED  BY <1>1, <1>2, <1>3, <2>1 DEF Reshapes
<1>5. WellFormed(new)
  <2>1. new[1].key
    BY <1>1, <1>2, <1>3, ColumnsFacts
  <2>2. ASSUME NEW i \in 1..k
        PROVE  /\ new[i].key => new[i].type = "string"
               /\ new[i].key /\ new[i].temporary => new[1].temporary
               /\ i <= IF new[i].temporary THEN MaxColumns ELSE MaxColumns - 1
    BY <1>1, <1>2, <1>3, ColumnsFacts
  <2>3. ASSUME NEW i \in 1..k, NEW j \in 1..(i - 1)
        PROVE  /\ new[i].name # new[j].name
               /\ new[i].key => new[j].key
               /\ new[j].temporary => new[i].temporary
    <3>1. j \in 1..k /\ j < i /\ i \in 1..n /\ j \in 1..n
      BY <1>1, <1>2
    <3>. QED  BY <1>3, <3>1, ColumnsFacts
  <2>. QED  BY <1>3, <2>1, <2>2, <2>3 DEF WellFormed
<1>. QED  BY <1>3, <1>4, <1>5 DEF Columns, new

\* The columns that CREATE TABLE makes.
LEMMA CreatedColumns ==
    ASSUME NEW cols \in Schemas, NEW hold \in BOOLEAN,
           NEW kept, kept = IF hold THEN cols ELSE PersistentColumns(cols), kept # <<>>
    PROVE  /\ kept \in Columns /\ cols \in Columns
           /\ Persistent(kept) <=> Persistent(cols)
           /\ ~hold => \A i \in DOMAIN kept : ~kept[i].temporary
<1>1. cols \in Seq(Column) /\ WellFormed(cols)
  BY Constants
<1>2. cols # <<>>
  <2> SUFFICES ASSUME cols = <<>> PROVE FALSE
    OBVIOUS
  <2>1. {i \in DOMAIN cols : ~cols[i].temporary} = {}
    OBVIOUS
  <2>2. PersistentColumns(cols) = <<>>
    BY <2>1, FS_EmptySet DEF PersistentColumns
  <2>. QED  BY <2>2
<1>3. cols \in Columns
  BY <1>1, <1>2 DEF Columns
<1>4. CASE ~hold
  <2>1. /\ Width(cols) \in 0..Len(cols) /\ kept = SubSeq(cols, 1, Width(cols))
        /\ Persistent(cols) <=> Width(cols) > 0
        /\ \A i \in 1..Len(cols) : i <= Width(cols) <=> ~cols[i].temporary
    BY <1>3, <1>4, PersistentPrefix
  <2>2. Persistent(cols)
    <3>1. Width(cols) # 0
      BY <1>1, <2>1
    <3>. QED  BY <1>3, <2>1, <3>1, ColumnsFacts
  <2>3. /\ kept \in Columns /\ Len(kept) = Width(cols)
        /\ \A i \in 1..Width(cols) : kept[i] = cols[i]
    BY <1>3, <1>4, <2>2, PrefixReshapes
  <2>4. PICK k \in 1..Len(cols) : k = Width(cols)
    BY <1>3, <2>1, <2>2, ColumnsFacts
  <2>5. /\ 1 \in 1..k /\ DOMAIN kept = 1..k
        /\ \A i \in 1..k : kept[i] = cols[i] /\ ~cols[i].temporary
    BY <1>3, <2>1, <2>3, <2>4, ColumnsFacts
  <2>6. Persistent(kept) /\ \A i \in DOMAIN kept : ~kept[i].temporary
    BY <2>5 DEF Persistent
  <2>. QED  BY <1>3, <1>4, <2>2, <2>3, <2>6
<1>. QED  BY <1>3, <1>4

-----------------------------------------------------------------------------
(***************************************************************************)
(* Tables.                                                                 *)
(***************************************************************************)

Table == [cols : Columns, holds : 0..MaxHolds, records : SUBSET Record]

Tab(cols, holds, recs) == [cols |-> cols, holds |-> holds, records |-> recs]

TableOK(t) ==
    /\ t \in Table
    /\ IsFiniteSet(t.records)
    /\ \A rec \in t.records : Fits(t.cols, rec)
    /\ \A r, q \in t.records : Key(t.cols, r) = Key(t.cols, q) => r = q
    /\ \A i \in DOMAIN t.cols : t.cols[i].temporary => t.holds > 0

TablesInv ==
    /\ DOMAIN tables \subseteq TableNames /\ IsFiniteSet(DOMAIN tables)
    /\ tables \in [DOMAIN tables -> Table]
    /\ \A n \in DOMAIN tables : TableOK(tables[n])

\* The parts of a table, and that it is nothing but them.
LEMMA TableFields ==
    ASSUME NEW t, TableOK(t)
    PROVE  /\ t = Tab(t.cols, t.holds, t.records)
           /\ t.cols \in Columns /\ t.holds \in 0..MaxHolds /\ t.records \subseteq Record
           /\ t.cols \in Seq(Column) /\ t.holds \in Nat /\ IsFiniteSet(t.records)
           /\ \A rec \in t.records : rec \in Record /\ Fits(t.cols, rec)
<1>1. t \in Table /\ IsFiniteSet(t.records) /\ \A rec \in t.records : Fits(t.cols, rec)
  BY DEF TableOK
<1>2. /\ t = Tab(t.cols, t.holds, t.records)
      /\ t.cols \in Columns /\ t.holds \in 0..MaxHolds /\ t.records \subseteq Record
  BY <1>1 DEF Table, Tab
<1>3. t.cols \in Seq(Column) /\ t.holds \in Nat
  BY <1>2, Constants DEF Columns
<1>. QED  BY <1>1, <1>2, <1>3

\* The parts of a table that is put together.
LEMMA TabFields ==
    ASSUME NEW cols, NEW holds, NEW recs
    PROVE  LET t == Tab(cols, holds, recs) IN
           t.cols = cols /\ t.holds = holds /\ t.records = recs
BY DEF Tab

\* What a table that is put together must meet to be one.
LEMMA TabOK ==
    ASSUME NEW cols \in Columns, NEW holds \in 0..MaxHolds, NEW recs \in SUBSET Record,
           IsFiniteSet(recs), \A rec \in recs : Fits(cols, rec),
           \A r, q \in recs : Key(cols, r) = Key(cols, q) => r = q,
           \A i \in DOMAIN cols : cols[i].temporary => holds > 0
    PROVE  TableOK(Tab(cols, holds, recs))
<1> DEFINE t == Tab(cols, holds, recs)
<1>1. t.cols = cols /\ t.holds = holds /\ t.records = recs
  BY TabFields
<1>2. t \in Table
  BY DEF Tab, Table
<1> HIDE DEF t
<1>3. TableOK(t)
  BY <1>1, <1>2 DEF TableOK
<1>. QED  BY <1>3 DEF t

\* The image of a finite set.
LEMMA ImageFinite ==
    ASSUME NEW S, IsFiniteSet(S), NEW f, DOMAIN f = S
    PROVE  IsFiniteSet({f[x] : x \in S})
<1> DEFINE T == {f[x] : x \in S}
           g == [x \in S |-> f[x]]
<1>1. g \in [S -> T] /\ \A y \in T : \E x \in S : g[x] = y
  OBVIOUS
<1>2. g \in Surjection(S, T)
  BY <1>1, Fun_IsSurj
<1>. QED  BY <1>2, FS_Surjection

\* Resizing keeps a set of records finite.
LEMMA ResizedFinite ==
    ASSUME NEW recs, IsFiniteSet(recs), NEW n
    PROVE  IsFiniteSet({Resized(rec, n) : rec \in recs})
<1> DEFINE f == [rec \in recs |-> Resized(rec, n)]
<1>1. IsFiniteSet({f[rec] : rec \in recs})
  <2>1. DOMAIN f = recs
    OBVIOUS
  <2> HIDE DEF f
  <2>. QED  BY <2>1, ImageFinite
<1>2. {f[rec] : rec \in recs} = {Resized(rec, n) : rec \in recs}
  OBVIOUS
<1>. QED  BY <1>1, <1>2

\* Some of the records of a table, with the columns that it is given.
LEMMA ReshapedOK ==
    ASSUME NEW t, TableOK(t), NEW new \in Columns, Reshapes(t.cols, new),
           NEW holds \in 0..MaxHolds, NEW recs \in SUBSET t.records,
           \A i \in DOMAIN new : new[i].temporary => holds > 0
    PROVE  TableOK(Tab(new, holds, {Resized(rec, Len(new)) : rec \in recs}))
<1> DEFINE R(rec) == Resized(rec, Len(new))
           S == {R(rec) : rec \in recs}
<1>1. /\ t.cols \in Columns /\ IsFiniteSet(recs)
      /\ \A rec \in recs : rec \in Record /\ Fits(t.cols, rec)
  BY TableFields, FS_Subset
<1>2. \A rec \in recs : R(rec) \in Record /\ Fits(new, R(rec)) /\ Key(new, R(rec)) = Key(t.cols, rec)
  BY <1>1, ResizedFits
<1>3. IsFiniteSet(S)
  BY <1>1, ResizedFinite
<1> HIDE DEF R
<1>4. \A r, q \in S : Key(new, r) = Key(new, q) => r = q
  BY <1>2 DEF TableOK
<1>5. S \subseteq Record /\ \A rec \in S : Fits(new, rec)
  BY <1>2
<1> HIDE DEF S
<1>6. TableOK(Tab(new, holds, S))
  BY <1>3, <1>4, <1>5, TabOK
<1>. QED  BY <1>6 DEF S, R

\* The table with other columns.
Reshaped(t, new, holds) == Tab(new, holds, {Resized(rec, Len(new)) : rec \in t.records})

\* A table with other columns has its records resized to them.
LEMMA RefreshedTab ==
    ASSUME NEW t, TableOK(t), NEW new, NEW holds
    PROVE  [Refreshed(t, new) EXCEPT !.holds = holds] = Reshaped(t, new, holds)
<1> DEFINE S == {Resized(rec, Len(new)) : rec \in t.records}
<1>1. PICK c, h, r : t = [cols |-> c, holds |-> h, records |-> r]
  BY TableFields DEF Tab
<1>2. t.records = r
  BY <1>1
<1>3. Refreshed(t, new) = [t EXCEPT !.cols = new, !.records = S]
  BY DEF Refreshed
<1> HIDE DEF S
<1>4. Refreshed(t, new) = [cols |-> new, holds |-> h, records |-> S]
  BY <1>1, <1>3
<1>5. [Refreshed(t, new) EXCEPT !.holds = holds] = [cols |-> new, holds |-> holds, records |-> S]
  BY <1>4
<1>. QED  BY <1>5 DEF S, Tab, Reshaped

-----------------------------------------------------------------------------
(***************************************************************************)
(* What a statement does to the tables.                                    *)
(***************************************************************************)

\* One table becomes another one.
Becomes(name, t) ==
    /\ name \in DOMAIN tables /\ TableOK(t)
    /\ tables' = [tables EXCEPT ![name] = t]

Without(name) == tables' = [n \in DOMAIN tables \ {name} |-> tables[n]]

\* A step that changes one table keeps the others, and the invariant.
LEMMA BecomesFacts ==
    ASSUME TablesInv, NEW name, NEW t, Becomes(name, t)
    PROVE  /\ TablesInv' /\ DOMAIN tables' = DOMAIN tables
           /\ tables'[name] = t
           /\ \A n \in DOMAIN tables \ {name} : tables'[n] = tables[n]
<1>1. /\ tables' = [tables EXCEPT ![name] = t] /\ name \in DOMAIN tables /\ TableOK(t)
      /\ tables \in [DOMAIN tables -> Table] /\ t \in Table
  BY DEF Becomes, TablesInv, TableOK
<1>2. PICK D : D = DOMAIN tables
  OBVIOUS
<1>3. tables' \in [D -> Table] /\ DOMAIN tables' = D
      /\ tables'[name] = t /\ \A n \in D \ {name} : tables'[n] = tables[n]
  BY <1>1, <1>2
<1>4. \A n \in D : TableOK(tables'[n])
  <2> SUFFICES ASSUME NEW n \in D PROVE TableOK(tables'[n])
    OBVIOUS
  <2>1. CASE n = name
    BY <1>1, <1>3, <2>1
  <2>2. CASE n # name
    BY <1>2, <1>3, <2>2 DEF TablesInv
  <2>. QED  BY <2>1, <2>2
<1>5. TablesInv'
  BY <1>2, <1>3, <1>4 DEF TablesInv, TableOK
<1>. QED  BY <1>2, <1>3, <1>5

\* So does a step that drops one.
LEMMA WithoutFacts ==
    ASSUME TablesInv, NEW name, Without(name)
    PROVE  /\ TablesInv' /\ DOMAIN tables' = DOMAIN tables \ {name}
           /\ \A n \in DOMAIN tables \ {name} : tables'[n] = tables[n]
<1>1. PICK D : D = DOMAIN tables \ {name}
  OBVIOUS
<1>2. /\ DOMAIN tables' = D /\ D \subseteq TableNames
      /\ \A n \in D : tables'[n] = tables[n] /\ tables[n] \in Table /\ TableOK(tables[n])
      /\ tables' = [n \in D |-> tables[n]]
  BY <1>1 DEF Without, TablesInv
<1>3. IsFiniteSet(D)
  BY <1>1, FS_RemoveElement DEF TablesInv
<1>4. tables' \in [D -> Table]
  BY <1>2
<1>5. \A n \in D : TableOK(tables'[n])
  BY <1>2
<1>6. TablesInv'
  BY <1>2, <1>3, <1>4, <1>5 DEF TablesInv, TableOK
<1>. QED  BY <1>1, <1>2, <1>6

\* A table stays one when its holds change, while its temporary columns are held.
LEMMA HeldTab ==
    ASSUME NEW t, TableOK(t), NEW h \in 0..MaxHolds,
           \A i \in DOMAIN t.cols : t.cols[i].temporary => h > 0
    PROVE  /\ [t EXCEPT !.holds = h] = Tab(t.cols, h, t.records)
           /\ TableOK(Tab(t.cols, h, t.records))
<1>1. PICK c, k, r : t = [cols |-> c, holds |-> k, records |-> r]
  BY TableFields DEF Tab
<1>2. [t EXCEPT !.holds = h] = Tab(t.cols, h, t.records)
  BY <1>1 DEF Tab
<1>3. /\ t.cols \in Columns /\ t.records \in SUBSET Record /\ IsFiniteSet(t.records)
      /\ \A rec \in t.records : Fits(t.cols, rec)
      /\ \A p, q \in t.records : Key(t.cols, p) = Key(t.cols, q) => p = q
  BY TableFields DEF TableOK
<1>4. TableOK(Tab(t.cols, h, t.records))
  BY <1>3, TabOK
<1>. QED  BY <1>2, <1>4

\* A table stays one when its records do, with no key twice.
LEMMA FilledTab ==
    ASSUME NEW t, TableOK(t), NEW recs \in SUBSET Record, IsFiniteSet(recs),
           \A rec \in recs : Fits(t.cols, rec),
           \A p, q \in recs : Key(t.cols, p) = Key(t.cols, q) => p = q
    PROVE  /\ [t EXCEPT !.records = recs] = Tab(t.cols, t.holds, recs)
           /\ TableOK(Tab(t.cols, t.holds, recs))
<1>1. PICK c, k, r : t = [cols |-> c, holds |-> k, records |-> r]
  BY TableFields DEF Tab
<1>2. [t EXCEPT !.records = recs] = Tab(t.cols, t.holds, recs)
  BY <1>1 DEF Tab
<1>3. /\ t.cols \in Columns /\ t.holds \in 0..MaxHolds
      /\ \A i \in DOMAIN t.cols : t.cols[i].temporary => t.holds > 0
  BY TableFields DEF TableOK
<1>4. TableOK(Tab(t.cols, t.holds, recs))
  BY <1>3, TabOK
<1>. QED  BY <1>2, <1>4

\* CREATE TABLE keeps the tables well formed.
LEMMA CreateTableTables ==
    ASSUME TablesInv, NEW name \in TableNames, NEW cols \in Schemas, NEW hold \in BOOLEAN,
           CreateTable(name, cols, hold),
           NEW kept, kept = IF hold THEN cols ELSE PersistentColumns(cols),
           NEW t, t = Tab(kept, IF hold THEN 1 ELSE 0, {})
    PROVE  /\ TablesInv' /\ TableOK(t) /\ name \notin DOMAIN tables
           /\ DOMAIN tables' = DOMAIN tables \cup {name}
           /\ tables'[name] = t /\ kept \in Columns /\ cols \in Columns
           /\ Persistent(kept) <=> Persistent(cols)
           /\ \A n \in DOMAIN tables : tables'[n] = tables[n]
<1>1. name \notin DOMAIN tables /\ kept # <<>> /\ (hold => MaxHolds > 0)
  BY DEF CreateTable
<1>2. tables' = [n \in DOMAIN tables \cup {name} |-> IF n = name THEN t ELSE tables[n]]
  BY DEF CreateTable, Tab
<1>3. /\ kept \in Columns /\ cols \in Columns
      /\ Persistent(kept) <=> Persistent(cols)
      /\ ~hold => \A i \in DOMAIN kept : ~kept[i].temporary
  BY <1>1, CreatedColumns
<1>4. TableOK(t)
  <2>1. (IF hold THEN 1 ELSE 0) \in 0..MaxHolds
    BY <1>1, Constants
  <2>2. \A i \in DOMAIN kept : kept[i].temporary => (IF hold THEN 1 ELSE 0) > 0
    BY <1>3
  <2>3. {} \in SUBSET Record /\ IsFiniteSet({})
    BY FS_EmptySet
  <2>. QED  BY <1>3, <2>1, <2>2, <2>3, TabOK
<1>5. PICK D : D = DOMAIN tables \cup {name}
  OBVIOUS
<1>6. IsFiniteSet(D) /\ D \subseteq TableNames
  BY <1>5, FS_AddElement DEF TablesInv
<1>7. /\ DOMAIN tables' = D /\ tables'[name] = t
      /\ \A n \in DOMAIN tables : tables'[n] = tables[n]
  BY <1>1, <1>2, <1>5
<1>8. \A n \in D : TableOK(tables'[n]) /\ tables'[n] \in Table
  <2>1. \A n \in DOMAIN tables : TableOK(tables[n]) /\ tables[n] \in Table
    BY DEF TablesInv
  <2>2. t \in Table
    BY <1>4 DEF TableOK
  <2>. QED  BY <1>4, <1>5, <1>7, <2>1, <2>2
<1>9. tables' \in [D -> Table]
  BY <1>2, <1>5, <1>7, <1>8
<1>10. TablesInv'
  BY <1>6, <1>7, <1>8, <1>9 DEF TablesInv, TableOK
<1>. QED  BY <1>1, <1>3, <1>4, <1>5, <1>7, <1>10

\* ALTER TABLE ADD keeps the tables well formed.
LEMMA AddColumnTables ==
    ASSUME TablesInv, NEW name \in DOMAIN tables, NEW c \in Additions, NEW hold \in BOOLEAN,
           AddColumn(name, c, hold),
           NEW t, t = tables[name]
    PROVE  \E h \in 0..MaxHolds :
           /\ h = IF hold THEN t.holds + 1 ELSE t.holds
           /\ Becomes(name, Reshaped(t, Append(t.cols, c), h))
           /\ Append(t.cols, c) \in Columns /\ Reshapes(t.cols, Append(t.cols, c))
           /\ Len(Append(t.cols, c)) = Len(t.cols) + 1
           /\ Append(t.cols, c)[Len(t.cols) + 1] = c
<1> DEFINE n == Len(t.cols) + 1
           h == IF hold THEN t.holds + 1 ELSE t.holds
           new == Append(t.cols, c)
<1>1. TableOK(t) /\ t.cols \in Columns /\ t.holds \in 0..MaxHolds
  BY TableFields DEF TablesInv
<1>2. /\ \A i \in DOMAIN t.cols : t.cols[i].name # c.name
      /\ c.temporary \/ ~t.cols[n - 1].temporary
      /\ n <= IF c.temporary THEN MaxColumns ELSE MaxColumns - 1
      /\ hold => t.holds < MaxHolds
      /\ hold \/ ~c.temporary \/ t.holds > 0
  BY DEF AddColumn
<1>3. n - 1 = Len(t.cols) /\ Len(t.cols) \in Nat
  BY <1>1, ColumnsFacts
<1>4. c \in Column /\ ~c.key
  BY Constants
<1>5. new \in Columns /\ Reshapes(t.cols, new) /\ Len(new) = n /\ new[n] = c
  BY <1>1, <1>2, <1>3, <1>4, AppendReshapes
<1>6. h \in 0..MaxHolds
  BY <1>1, <1>2, Constants
<1>7. \A i \in DOMAIN new : new[i].temporary => h > 0
  <2> SUFFICES ASSUME NEW i \in DOMAIN new, new[i].temporary PROVE h > 0
    OBVIOUS
  <2>0. t.holds \in Nat
    BY <1>1, Constants
  <2>1. CASE i = n
    BY <1>2, <1>5, <2>0, <2>1
  <2>2. CASE i # n
    <3>1. i \in 1..Len(t.cols)
      BY <1>3, <1>5, <2>2, ColumnsFacts
    <3>2. i \in DOMAIN t.cols /\ t.cols[i] = new[i]
      BY <1>1, <1>3, <1>5, <3>1, ColumnsFacts DEF Reshapes
    <3>3. t.holds > 0
      BY <1>1, <3>2 DEF TableOK
    <3>. QED  BY <2>0, <3>3
  <2>. QED  BY <2>1, <2>2
<1>8. TableOK(Reshaped(t, new, h))
  <2>1. t.records \in SUBSET t.records
    OBVIOUS
  <2> HIDE DEF new, h
  <2>. QED  BY <1>1, <1>5, <1>6, <1>7, <2>1, ReshapedOK DEF Reshaped
<1>9. tables' = [tables EXCEPT ![name] = Reshaped(t, new, h)]
  <2>1. tables' = [tables EXCEPT ![name] =
            [Refreshed(t, new) EXCEPT !.holds = IF hold THEN @ + 1 ELSE @]]
    BY DEF AddColumn
  <2>2. Refreshed(t, new).holds = t.holds
    <3>1. PICK a, b, r : t = [cols |-> a, holds |-> b, records |-> r]
      BY <1>1, TableFields DEF Tab
    <3>. QED  BY <3>1 DEF Refreshed
  <2>3. [Refreshed(t, new) EXCEPT !.holds = h] = Reshaped(t, new, h)
    <3> HIDE DEF new, h
    <3>. QED  BY <1>1, RefreshedTab
  <2>4. [Refreshed(t, new) EXCEPT !.holds = IF hold THEN @ + 1 ELSE @]
            = [Refreshed(t, new) EXCEPT !.holds = h]
    BY <2>2
  <2>. QED  BY <2>1, <2>3, <2>4
<1>10. Becomes(name, Reshaped(t, new, h))
  BY <1>8, <1>9 DEF Becomes
<1>. QED  BY <1>5, <1>6, <1>10

\* ALTER TABLE HOLD keeps the tables well formed.
LEMMA HoldTables ==
    ASSUME TablesInv, NEW name \in DOMAIN tables, Hold(name),
           NEW t, t = tables[name]
    PROVE  Becomes(name, Tab(t.cols, t.holds + 1, t.records))
<1>1. TableOK(t) /\ t.holds \in 0..MaxHolds
  BY TableFields DEF TablesInv
<1>2. t.holds < MaxHolds /\ tables' = [tables EXCEPT ![name] = [t EXCEPT !.holds = t.holds + 1]]
  BY DEF Hold
<1>3. t.holds + 1 \in 0..MaxHolds /\ t.holds + 1 > 0
  BY <1>1, <1>2, Constants
<1>. QED  BY <1>1, <1>2, <1>3, HeldTab DEF Becomes

\* ALTER TABLE FREE keeps the tables well formed, when temporary columns go or stay.
LEMMA FreeTables ==
    ASSUME TablesInv, NEW name \in DOMAIN tables, Free(name),
           NEW t, t = tables[name]
    PROVE  \/ /\ t.holds > 1 /\ Becomes(name, Tab(t.cols, t.holds - 1, t.records))
              /\ UNCHANGED <<tableRecs, columnRecs, streamRecs, sources, held, pool>>
           \/ /\ t.holds = 1 /\ Persistent(t.cols) /\ DropTemporaryColumns(name)
           \/ /\ t.holds = 1 /\ ~Persistent(t.cols) /\ DropTable(name)
<1>1. TableOK(t) /\ t.holds \in 0..MaxHolds /\ t.holds \in Nat
  BY TableFields DEF TablesInv
<1>2. t.holds > 0
  BY DEF Free
<1>3. CASE t.holds > 1
  <2>1. tables' = [tables EXCEPT ![name] = [t EXCEPT !.holds = t.holds - 1]]
        /\ UNCHANGED <<tableRecs, columnRecs, streamRecs, sources, held, pool>>
    BY <1>3 DEF Free
  <2>2. t.holds - 1 \in 0..MaxHolds /\ t.holds - 1 > 0
    BY <1>1, <1>3, Constants
  <2>. QED  BY <1>1, <1>3, <2>1, <2>2, HeldTab DEF Becomes
<1>4. CASE ~(t.holds > 1)
  <2>1. t.holds = 1
    BY <1>1, <1>2, <1>4
  <2>2. IF Persistent(t.cols) THEN DropTemporaryColumns(name) ELSE DropTable(name)
    BY <1>4 DEF Free
  <2>. QED  BY <2>1, <2>2
<1>. QED  BY <1>3, <1>4

\* So does the drop of a temporary table when nothing holds it.
LEMMA DropTemporaryTables ==
    ASSUME TablesInv, NEW name \in DOMAIN tables,
           NEW t, t = tables[name], Persistent(t.cols), DropTemporaryColumns(name),
           NEW new, new = PersistentColumns(t.cols)
    PROVE  /\ Becomes(name, Reshaped(t, new, 0))
           /\ new \in Columns /\ Reshapes(t.cols, new) /\ Len(new) = Width(t.cols)
           /\ \A i \in 1..Width(t.cols) : new[i] = t.cols[i]
<1>1. TableOK(t) /\ t.cols \in Columns
  BY TableFields DEF TablesInv
<1>2. /\ new \in Columns /\ Reshapes(t.cols, new) /\ Len(new) = Width(t.cols)
      /\ \A i \in 1..Width(t.cols) : new[i] = t.cols[i]
  BY <1>1, PrefixReshapes
<1>3. \A i \in DOMAIN new : ~new[i].temporary
  <2>1. DOMAIN new = 1..Width(t.cols)
    BY <1>2, ColumnsFacts
  <2>2. /\ Width(t.cols) \in 0..Len(t.cols) /\ Len(t.cols) \in Nat
        /\ \A i \in 1..Len(t.cols) : i <= Width(t.cols) <=> ~t.cols[i].temporary
    BY <1>1, PersistentPrefix, ColumnsFacts
  <2>3. \A i \in 1..Width(t.cols) : i \in 1..Len(t.cols) /\ i <= Width(t.cols)
    BY <2>2
  <2>. QED  BY <1>2, <2>1, <2>2, <2>3
<1>4. TableOK(Reshaped(t, new, 0))
  <2>1. t.records \in SUBSET t.records /\ 0 \in 0..MaxHolds
    BY Constants
  <2>. QED  BY <1>1, <1>2, <1>3, <2>1, ReshapedOK DEF Reshaped
<1>5. tables' = [tables EXCEPT ![name] = Reshaped(t, new, 0)]
  <2>1. tables' = [tables EXCEPT ![name] = [Refreshed(t, new) EXCEPT !.holds = 0]]
    BY DEF DropTemporaryColumns
  <2>2. [Refreshed(t, new) EXCEPT !.holds = 0] = Reshaped(t, new, 0)
    BY <1>1, RefreshedTab
  <2>. QED  BY <2>1, <2>2
<1>. QED  BY <1>2, <1>4, <1>5 DEF Becomes

\* The table with other records.
Filled(t, recs) == Tab(t.cols, t.holds, recs)

\* A record INSERT accepts fits its table.
LEMMA NewRecordFits ==
    ASSUME NEW cols \in Columns, NEW rec \in NewRecords(cols)
    PROVE  /\ rec \in Record /\ Len(rec.cells) = Len(cols) /\ DOMAIN rec.cells = DOMAIN cols
           /\ \A i \in DOMAIN cols : cols[i].type = "string" => rec.cells[i] # Object
           /\ Accepts(cols, rec, DOMAIN cols) => Fits(cols, rec)
<1>1. DOMAIN cols = 1..Len(cols) /\ Len(cols) \in Nat
  BY ColumnsFacts
<1>2. PICK cells \in [DOMAIN cols -> Texts \cup {Null, Object}], b \in BOOLEAN :
        /\ \A i \in DOMAIN cols :
                cells[i] \in IF cols[i].type = "string" THEN Texts \cup {Null} ELSE {Null, Object}
        /\ rec = [cells |-> cells, temporary |-> b]
  BY DEF NewRecords
<1>3. cells \in Seq(Value) /\ Len(cells) = Len(cols)
  BY <1>1, <1>2 DEF Value
<1>4. \A i \in DOMAIN cols : cols[i].type = "string" => rec.cells[i] # Object
  BY <1>2, Constants
<1>5. ASSUME Accepts(cols, rec, DOMAIN cols) PROVE Fits(cols, rec)
  BY <1>1, <1>2, <1>3, <1>4, <1>5 DEF Accepts, Refused, Fits
<1>. QED  BY <1>2, <1>3, <1>4, <1>5 DEF Record

\* INSERT keeps the tables well formed.
LEMMA InsertTables ==
    ASSUME TablesInv, NEW name \in DOMAIN tables, NEW t, t = tables[name],
           NEW rec \in NewRecords(t.cols), Insert(name, rec)
    PROVE  /\ Becomes(name, Filled(t, t.records \cup {rec}))
           /\ rec \in Record /\ Fits(t.cols, rec) /\ rec \notin t.records
           /\ \A r \in t.records : Key(t.cols, r) # Key(t.cols, rec)
<1>1. TableOK(t) /\ t.cols \in Columns /\ t.records \subseteq Record /\ IsFiniteSet(t.records)
      /\ \A r \in t.records : Fits(t.cols, r)
  BY TableFields DEF TablesInv
<1>2. Accepts(t.cols, rec, DOMAIN t.cols) /\ \A r \in t.records : Key(t.cols, r) # Key(t.cols, rec)
  BY DEF Insert, Duplicate
<1>3. rec \in Record /\ Fits(t.cols, rec)
  BY <1>1, <1>2, NewRecordFits
<1> DEFINE recs == t.records \cup {rec}
<1>4. recs \in SUBSET Record /\ IsFiniteSet(recs) /\ \A r \in recs : Fits(t.cols, r)
  BY <1>1, <1>3, FS_AddElement
<1>5. \A p, q \in recs : Key(t.cols, p) = Key(t.cols, q) => p = q
  BY <1>1, <1>2 DEF TableOK
<1>6. tables' = [tables EXCEPT ![name] = [t EXCEPT !.records = recs]]
  BY DEF Insert
<1> HIDE DEF recs
<1>7. [t EXCEPT !.records = recs] = Filled(t, recs) /\ TableOK(Filled(t, recs))
  BY <1>1, <1>4, <1>5, FilledTab DEF Filled
<1>. QED  BY <1>2, <1>3, <1>6, <1>7 DEF Becomes, recs

\* The records of the table after UPDATE.
Updated(t, recs, i, v) == (t.records \ recs) \cup {With(rec, i, v) : rec \in recs}

\* A cell set in some records of a table leaves it well formed.
LEMMA ReplacedTables ==
    ASSUME TablesInv, NEW name \in DOMAIN tables, NEW t, t = tables[name],
           NEW recs \in SUBSET t.records, NEW i \in DOMAIN t.cols, NEW v \in Value,
           ~t.cols[i].key, t.cols[i].type = "string" => v # Object,
           v = Object => \A rec \in recs : CellPersistent(rec, t.cols[i]),
           tables' = Replaced(name, recs, i, v)
    PROVE  Becomes(name, Filled(t, Updated(t, recs, i, v)))
<1>1. TableOK(t) /\ t.cols \in Columns /\ t.records \subseteq Record /\ IsFiniteSet(t.records)
      /\ \A r \in t.records : Fits(t.cols, r)
  BY TableFields DEF TablesInv
<1> DEFINE new == Updated(t, recs, i, v)
           W(rec) == With(rec, i, v)
<1>2. \A rec \in recs : W(rec) \in Record /\ Fits(t.cols, W(rec)) /\ Key(t.cols, W(rec)) = Key(t.cols, rec)
  BY <1>1, WithFits
<1>3. IsFiniteSet({W(rec) : rec \in recs})
  <2> DEFINE f == [rec \in recs |-> W(rec)]
  <2>1. DOMAIN f = recs /\ IsFiniteSet(recs)
    BY <1>1, FS_Subset
  <2>2. IsFiniteSet({f[rec] : rec \in recs})
    <3> HIDE DEF f
    <3>. QED  BY <2>1, ImageFinite
  <2>3. {f[rec] : rec \in recs} = {W(rec) : rec \in recs}
    OBVIOUS
  <2>. QED  BY <2>2, <2>3
<1>4. IsFiniteSet(new)
  <2>1. IsFiniteSet(t.records \ recs)
    BY <1>1, FS_Subset
  <2>. QED  BY <1>3, <2>1, FS_Union DEF Updated
<1> HIDE DEF W
<1>5. \A r \in new : \/ r \in t.records \ recs
                     \/ \E rec \in recs : r = W(rec)
  BY DEF Updated, W
<1> HIDE DEF new
<1>6. \A r \in new : r \in Record /\ Fits(t.cols, r)
  BY <1>1, <1>2, <1>5
<1>7. \A p, q \in new : Key(t.cols, p) = Key(t.cols, q) => p = q
  <2>1. \A r \in new : \E o \in t.records :
            /\ Key(t.cols, r) = Key(t.cols, o)
            /\ IF o \in recs THEN r = W(o) ELSE r = o
    BY <1>2, <1>5
  <2>. QED  BY <1>1, <2>1 DEF TableOK
<1>8. tables' = [tables EXCEPT ![name] = [t EXCEPT !.records = new]]
  BY DEF Replaced, Updated, new
<1>9. [t EXCEPT !.records = new] = Filled(t, new) /\ TableOK(Filled(t, new))
  BY <1>1, <1>4, <1>6, <1>7, FilledTab DEF Filled
<1>. QED  BY <1>8, <1>9 DEF Becomes, new

\* DELETE keeps the tables well formed.
LEMMA DeleteTables ==
    ASSUME TablesInv, NEW name \in DOMAIN tables, NEW t, t = tables[name],
           NEW recs \in SUBSET t.records, Delete(name, recs)
    PROVE  Becomes(name, Filled(t, t.records \ recs))
<1>1. TableOK(t) /\ t.cols \in Columns /\ t.records \subseteq Record /\ IsFiniteSet(t.records)
      /\ \A r \in t.records : Fits(t.cols, r)
  BY TableFields DEF TablesInv
<1> DEFINE new == t.records \ recs
<1>2. new \in SUBSET Record /\ IsFiniteSet(new) /\ \A r \in new : Fits(t.cols, r)
      /\ \A p, q \in new : Key(t.cols, p) = Key(t.cols, q) => p = q
  BY <1>1, FS_Subset DEF TableOK
<1>3. tables' = [tables EXCEPT ![name] = [t EXCEPT !.records = new]]
  BY DEF Delete
<1> HIDE DEF new
<1>4. [t EXCEPT !.records = new] = Filled(t, new) /\ TableOK(Filled(t, new))
  BY <1>1, <1>2, FilledTab DEF Filled
<1>. QED  BY <1>3, <1>4 DEF Becomes, new

\* DROP TABLE keeps the tables well formed.
LEMMA DropTables ==
    ASSUME TablesInv, NEW name \in DOMAIN tables, DropTable(name)
    PROVE  Without(name)
BY DEF DropTable, Without

-----------------------------------------------------------------------------
(***************************************************************************)
(* The system tables.                                                      *)
(***************************************************************************)

Described(n, cols, r) ==
    r.number \in 1..Len(cols) /\ r = [table |-> n, number |-> r.number, column |-> cols[r.number]]

\* The records of _Columns are those of the tables' columns.
CatalogInv ==
    /\ tableRecs = DOMAIN tables
    /\ columnRecs = UNION {ColumnRecords(n, 0, tables[n].cols) : n \in DOMAIN tables}

\* What is a record of _Columns for a table.
LEMMA ColumnRecordsMember ==
    ASSUME NEW name, NEW cols \in Seq(Column), NEW k \in Nat
    PROVE  \A r : r \in ColumnRecords(name, k, cols) <=> Described(name, cols, r) /\ r.number > k
<1>1. ASSUME NEW r, r \in ColumnRecords(name, k, cols)
      PROVE  Described(name, cols, r) /\ r.number > k
  <2>1. PICK i \in (k + 1)..Len(cols) : r = [table |-> name, number |-> i, column |-> cols[i]]
    BY <1>1 DEF ColumnRecords
  <2>2. r.number = i
    BY <2>1
  <2>. QED  BY <2>1, <2>2 DEF Described
<1>2. ASSUME NEW r, Described(name, cols, r), r.number > k
      PROVE  r \in ColumnRecords(name, k, cols)
  <2>1. r.number \in (k + 1)..Len(cols)
    BY <1>2 DEF Described
  <2>. QED  BY <1>2, <2>1 DEF ColumnRecords, Described
<1>. QED  BY <1>1, <1>2

\* What is a record of _Columns for any table.
LEMMA CatalogMember ==
    ASSUME TablesInv
    PROVE  \A r : r \in UNION {ColumnRecords(n, 0, tables[n].cols) : n \in DOMAIN tables}
                <=> \E n \in DOMAIN tables : Described(n, tables[n].cols, r)
<1>1. \A n \in DOMAIN tables : tables[n].cols \in Seq(Column)
  BY TableFields DEF TablesInv
<1>2. \A n \in DOMAIN tables : \A r :
        r \in ColumnRecords(n, 0, tables[n].cols) <=> Described(n, tables[n].cols, r)
  <2> SUFFICES ASSUME NEW n \in DOMAIN tables, NEW r
               PROVE  r \in ColumnRecords(n, 0, tables[n].cols) <=> Described(n, tables[n].cols, r)
    OBVIOUS
  <2>1. r \in ColumnRecords(n, 0, tables[n].cols)
            <=> Described(n, tables[n].cols, r) /\ r.number > 0
    BY <1>1, ColumnRecordsMember
  <2>2. Described(n, tables[n].cols, r) => r.number > 0
    BY DEF Described
  <2>. QED  BY <2>1, <2>2
<1>. QED  BY <1>2

\* What the file holds of the tables.
LEMMA FileFields ==
    /\ File.strings = [s \in {x \in Strings : pool[<<x, TRUE>>] > 0} |-> pool[<<s, TRUE>>]]
    /\ File.tables = tableRecs \cap PersistentTables
    /\ File.columns = {r \in columnRecs : ~r.column.temporary}
    /\ File.data = [n \in {m \in PersistentTables : \E r \in tables[m].records : ~r.temporary} |->
                        Saved(tables[n].records, tables[n].cols)]
    /\ File.streams = [s \in streamRecs |-> [sources[s] EXCEPT !.handle = OnFile]]
BY DEF File

\* The table that Open makes of a table.
Lasting(t) == {r \in t.records : ~r.temporary}
Kept(t) ==
    Tab(PersistentColumns(t.cols), 0, {Resized(rec, Width(t.cols)) : rec \in Lasting(t)})

\* The catalog in the file is that of the persistent tables and columns, and reads back as such.
LEMMA FileColumns ==
    ASSUME TablesInv, CatalogInv
    PROVE  /\ File.tables = PersistentTables /\ PersistentTables \subseteq DOMAIN tables
           /\ \A r : r \in File.columns <=>
                \E n \in PersistentTables :
                    Described(n, tables[n].cols, r) /\ r.number \in 1..Width(tables[n].cols)
           /\ \A n \in PersistentTables :
                /\ Numbers(File, n) = 1..Width(tables[n].cols)
                /\ ReadColumns(File, n) = PersistentColumns(tables[n].cols)
<1>1. PersistentTables \subseteq DOMAIN tables /\ tableRecs = DOMAIN tables
  BY DEF PersistentTables, CatalogInv
<1>2. File.tables = PersistentTables
  BY <1>1, FileFields
<1>3. \A n \in DOMAIN tables : tables[n].cols \in Columns
  BY TableFields DEF TablesInv
<1>4. \A r : r \in File.columns <=>
        \E n \in PersistentTables :
            Described(n, tables[n].cols, r) /\ r.number \in 1..Width(tables[n].cols)
  <2>1. ASSUME NEW r, r \in File.columns
        PROVE  \E n \in PersistentTables :
                    Described(n, tables[n].cols, r) /\ r.number \in 1..Width(tables[n].cols)
    <3>1. r \in columnRecs /\ ~r.column.temporary
      BY <2>1, FileFields
    <3>2. PICK n \in DOMAIN tables : Described(n, tables[n].cols, r)
      BY <3>1, CatalogMember DEF CatalogInv
    <3>3. r.number \in 1..Len(tables[n].cols) /\ r.column = tables[n].cols[r.number]
      BY <3>2 DEF Described
    <3>4. /\ r.number \in 1..Width(tables[n].cols) /\ Persistent(tables[n].cols)
      <4>1. /\ Width(tables[n].cols) \in 0..Len(tables[n].cols)
            /\ r.number <= Width(tables[n].cols)
            /\ Persistent(tables[n].cols) <=> Width(tables[n].cols) > 0
        BY <1>3, <3>1, <3>3, PersistentPrefix
      <4>. QED  BY <3>3, <4>1
    <3>. QED  BY <3>2, <3>4 DEF PersistentTables
  <2>2. ASSUME NEW r, NEW n \in PersistentTables, Described(n, tables[n].cols, r),
               r.number \in 1..Width(tables[n].cols)
        PROVE  r \in File.columns
    <3>1. r \in columnRecs
      BY <1>1, <2>2, CatalogMember DEF CatalogInv
    <3>2. r.number \in 1..Len(tables[n].cols) /\ r.column = tables[n].cols[r.number]
      BY <2>2 DEF Described
    <3>3. ~r.column.temporary
      <4>1. r.number <= Width(tables[n].cols)
        BY <2>2
      <4>. QED  BY <1>1, <1>3, <3>2, <4>1, PersistentPrefix
    <3>. QED  BY <3>1, <3>3, FileFields
  <2>. QED  BY <2>1, <2>2
<1>5. ASSUME NEW n \in PersistentTables
      PROVE  /\ Numbers(File, n) = 1..Width(tables[n].cols)
             /\ ReadColumns(File, n) = PersistentColumns(tables[n].cols)
  <2> DEFINE cols == tables[n].cols
             w == Width(cols)
             R(i) == [table |-> n, number |-> i, column |-> cols[i]]
  <2>1. /\ cols \in Columns /\ Len(cols) \in Nat /\ w \in 0..Len(cols)
    BY <1>1, <1>3, ColumnsFacts, PersistentPrefix
  <2>2. \A r : r \in File.columns /\ r.table = n <=> r.number \in 1..w /\ r = R(r.number)
    <3>1. ASSUME NEW r, r \in File.columns, r.table = n
          PROVE  r.number \in 1..w /\ r = R(r.number)
      <4>1. PICK m \in PersistentTables :
                Described(m, tables[m].cols, r) /\ r.number \in 1..Width(tables[m].cols)
        BY <1>4, <3>1
      <4>2. m = r.table
        BY <4>1 DEF Described
      <4>. QED  BY <3>1, <4>1, <4>2 DEF Described
    <3>2. ASSUME NEW r, r.number \in 1..w, r = R(r.number)
          PROVE  r \in File.columns /\ r.table = n
      <4>1. r.table = n /\ r.number \in 1..Len(cols)
        BY <2>1, <3>2
      <4>2. Described(n, cols, r)
        BY <3>2, <4>1 DEF Described
      <4>. QED  BY <1>4, <3>2, <4>1, <4>2
    <3>. QED  BY <3>1, <3>2
  <2>3. \A i \in 1..w : R(i) \in File.columns /\ R(i).table = n /\ R(i).number = i /\ R(i).column = cols[i]
    <3> SUFFICES ASSUME NEW i \in 1..w
                 PROVE  R(i) \in File.columns /\ R(i).table = n /\ R(i).number = i /\ R(i).column = cols[i]
      OBVIOUS
    <3>1. R(i).table = n /\ R(i).number = i /\ R(i).column = cols[i]
      OBVIOUS
    <3>. QED  BY <2>2, <3>1
  <2> HIDE DEF R, w
  <2>4. Numbers(File, n) = 1..w
    <3>1. \A k \in Numbers(File, n) : k \in 1..w
      BY <2>2 DEF Numbers
    <3>2. \A k \in 1..w : k \in Numbers(File, n)
      BY <2>3 DEF Numbers
    <3>. QED  BY <3>1, <3>2
  <2>5. ASSUME NEW i \in 1..w
        PROVE  (CHOOSE r \in File.columns : r.table = n /\ r.number = i) = R(i)
    <3>1. \A r \in File.columns : r.table = n /\ r.number = i => r = R(i)
      BY <2>2
    <3>. QED  BY <2>3, <3>1
  <2>6. ReadColumns(File, n) = [i \in 1..w |-> cols[i]]
    <3>1. \A i \in 1..w : (CHOOSE r \in File.columns : r.table = n /\ r.number = i).column = cols[i]
      BY <2>3, <2>5
    <3>. QED  BY <2>4, <3>1 DEF ReadColumns
  <2>7. PersistentColumns(cols) = [i \in 1..w |-> cols[i]]
    <3>1. PersistentColumns(cols) = SubSeq(cols, 1, w)
      BY <2>1, PersistentPrefix DEF w
    <3>. QED  BY <2>1, <3>1 DEF Columns
  <2>. QED  BY <2>4, <2>6, <2>7 DEF w
<1>. QED  BY <1>1, <1>2, <1>4, <1>5

\* A record that is written and read again.
LEMMA SavedRecord ==
    ASSUME NEW cols \in Columns, NEW rec \in Record, Fits(cols, rec), ~rec.temporary
    PROVE  /\ [cells |-> SubSeq(rec.cells, 1, Width(cols)), temporary |-> FALSE]
                = Resized(rec, Width(cols))
           /\ Len(PersistentColumns(cols)) = Width(cols)
<1>1. /\ Len(cols) \in Nat /\ Width(cols) \in 0..Len(cols)
      /\ PersistentColumns(cols) = SubSeq(cols, 1, Width(cols)) /\ cols \in Seq(Column)
  BY ColumnsFacts, PersistentPrefix DEF Columns
<1>2. PICK w \in Nat : w = Width(cols) /\ w <= Len(cols)
  BY <1>1
<1>3. rec.cells \in Seq(Value) /\ Len(rec.cells) = Len(cols)
  BY DEF Record, Fits
<1>4. SubSeq(rec.cells, 1, w) = [i \in 1..w |-> IF i <= Len(rec.cells) THEN rec.cells[i] ELSE Null]
  BY <1>1, <1>2, <1>3
<1>5. Resized(rec, w) = [rec EXCEPT !.cells = SubSeq(rec.cells, 1, w)]
  BY <1>4 DEF Resized
<1>6. rec.temporary = FALSE
  BY DEF Record
<1>7. Resized(rec, w) = [cells |-> SubSeq(rec.cells, 1, w), temporary |-> FALSE]
  BY <1>5, <1>6 DEF Record
<1>8. Len(PersistentColumns(cols)) = w
  BY <1>1, <1>2
<1>. QED  BY <1>2, <1>7, <1>8

\* The records in the file are the persistent ones, without temporary cells.
LEMMA SavedRecords ==
    ASSUME NEW t, TableOK(t)
    PROVE  {[cells |-> cells, temporary |-> FALSE] : cells \in Saved(t.records, t.cols)}
            = {Resized(rec, Width(t.cols)) : rec \in Lasting(t)}
<1> DEFINE w == Width(t.cols)
           F(rec) == SubSeq(rec.cells, 1, Len(PersistentColumns(t.cols)))
           G(cells) == [cells |-> cells, temporary |-> FALSE]
           H(rec) == Resized(rec, w)
<1>1. t.cols \in Columns /\ \A rec \in t.records : rec \in Record /\ Fits(t.cols, rec)
  BY TableFields
<1>2. \A rec \in Lasting(t) : G(F(rec)) = H(rec)
  BY <1>1, SavedRecord DEF Lasting
<1>3. Saved(t.records, t.cols) = {F(rec) : rec \in Lasting(t)}
  BY DEF Saved, Lasting
<1> HIDE DEF F, G, H
<1>4. {G(cells) : cells \in {F(rec) : rec \in Lasting(t)}} = {H(rec) : rec \in Lasting(t)}
  BY <1>2
<1>. QED  BY <1>3, <1>4 DEF G, H

\* Opening the file gives the tables' persistent part.
LEMMA FileReads ==
    ASSUME TablesInv, CatalogInv
    PROVE  /\ ReadTables(File) = [n \in PersistentTables |-> Kept(tables[n])]
           /\ PersistentPart.tables = [n \in PersistentTables |-> Kept(tables[n])]
<1>1. \A n \in PersistentTables : TableOK(tables[n])
  BY DEF TablesInv, PersistentTables
<1>2. ASSUME NEW n \in PersistentTables
      PROVE  Kept(tables[n]) =
                [cols |-> PersistentColumns(tables[n].cols), holds |-> 0,
                 records |-> {[cells |-> cells, temporary |-> FALSE] :
                                cells \in Saved(tables[n].records, tables[n].cols)}]
  BY <1>1, SavedRecords DEF Kept, Tab
<1>3. PersistentPart.tables = [n \in PersistentTables |-> Kept(tables[n])]
  <2>1. PersistentPart.tables = [n \in PersistentTables |->
                [cols |-> PersistentColumns(tables[n].cols), holds |-> 0,
                 records |-> {[cells |-> cells, temporary |-> FALSE] :
                                cells \in Saved(tables[n].records, tables[n].cols)}]]
    BY DEF PersistentPart
  <2>. QED  BY <1>2, <2>1, Zenon
<1>4. ASSUME NEW n \in PersistentTables
      PROVE  Kept(tables[n]) =
                [cols |-> ReadColumns(File, n), holds |-> 0,
                 records |-> IF n \in DOMAIN File.data
                             THEN {[cells |-> cells, temporary |-> FALSE] : cells \in File.data[n]}
                             ELSE {}]
  <2>1. ReadColumns(File, n) = PersistentColumns(tables[n].cols)
    BY FileColumns
  <2>2. CASE \E r \in tables[n].records : ~r.temporary
    <3>1. n \in DOMAIN File.data /\ File.data[n] = Saved(tables[n].records, tables[n].cols)
      BY <2>2, FileFields
    <3>. QED  BY <1>2, <2>1, <3>1
  <2>3. CASE ~\E r \in tables[n].records : ~r.temporary
    <3>1. n \notin DOMAIN File.data
      BY <2>3, FileFields
    <3>2. Lasting(tables[n]) = {}
      BY <2>3 DEF Lasting
    <3>3. Kept(tables[n]) = Tab(PersistentColumns(tables[n].cols), 0, {})
      BY <3>2 DEF Kept
    <3>. QED  BY <2>1, <3>1, <3>3 DEF Tab
  <2>. QED  BY <2>2, <2>3
<1>5. ReadTables(File) = [n \in PersistentTables |-> Kept(tables[n])]
  <2>1. File.tables = PersistentTables
    BY FileColumns
  <2>2. ReadTables(File) = [n \in PersistentTables |->
                [cols |-> ReadColumns(File, n), holds |-> 0,
                 records |-> IF n \in DOMAIN File.data
                             THEN {[cells |-> cells, temporary |-> FALSE] : cells \in File.data[n]}
                             ELSE {}]]
    BY <2>1 DEF ReadTables
  <2>. QED  BY <1>4, <2>2, Zenon
<1>. QED  BY <1>3, <1>5

\* The persistent part of a table is a table.
LEMMA KeptOK ==
    ASSUME NEW t, TableOK(t), Persistent(t.cols)
    PROVE  /\ TableOK(Kept(t)) /\ Kept(t) \in Table
           /\ Kept(t).cols \in Columns /\ Reshapes(t.cols, Kept(t).cols)
           /\ Len(Kept(t).cols) = Width(t.cols)
           /\ \A i \in 1..Width(t.cols) : Kept(t).cols[i] = t.cols[i] /\ ~t.cols[i].temporary
<1> DEFINE new == PersistentColumns(t.cols)
<1>1. t.cols \in Columns /\ Lasting(t) \in SUBSET t.records
  BY TableFields DEF Lasting
<1>2. /\ new \in Columns /\ Reshapes(t.cols, new) /\ Len(new) = Width(t.cols)
      /\ \A i \in 1..Width(t.cols) : new[i] = t.cols[i]
  BY <1>1, PrefixReshapes
<1>3. \A i \in 1..Width(t.cols) : ~t.cols[i].temporary
  <2>1. /\ Width(t.cols) \in 0..Len(t.cols) /\ Len(t.cols) \in Nat
        /\ \A i \in 1..Len(t.cols) : i <= Width(t.cols) <=> ~t.cols[i].temporary
    BY <1>1, ColumnsFacts, PersistentPrefix
  <2>. QED  BY <2>1
<1>4. \A i \in DOMAIN new : ~new[i].temporary
  BY <1>2, <1>3, ColumnsFacts
<1>5. 0 \in 0..MaxHolds
  BY Constants
<1> HIDE DEF new
<1>6. TableOK(Tab(new, 0, {Resized(rec, Len(new)) : rec \in Lasting(t)}))
  BY <1>1, <1>2, <1>4, <1>5, ReshapedOK
<1>7. Kept(t) = Tab(new, 0, {Resized(rec, Len(new)) : rec \in Lasting(t)})
  BY <1>2 DEF Kept, new
<1>8. TableOK(Kept(t)) /\ Kept(t) \in Table /\ Kept(t).cols = new
  <2>1. Kept(t).cols = new
    BY <1>7, TabFields
  <2>. QED  BY <1>6, <1>7, <2>1 DEF TableOK
<1>. QED  BY <1>2, <1>3, <1>8

\* Saving and opening again keeps the tables well formed.
LEMMA SaveTables ==
    ASSUME TablesInv, CatalogInv, SaveAndOpen
    PROVE  /\ TablesInv' /\ DOMAIN tables' = PersistentTables
           /\ \A n \in PersistentTables : tables'[n] = Kept(tables[n])
<1>1. tables' = [n \in PersistentTables |-> Kept(tables[n])]
  BY FileReads DEF SaveAndOpen
<1>2. \A n \in PersistentTables : TableOK(tables[n]) /\ Persistent(tables[n].cols)
  BY DEF TablesInv, PersistentTables
<1>3. \A n \in PersistentTables : TableOK(Kept(tables[n])) /\ Kept(tables[n]) \in Table
  BY <1>2, KeptOK
<1>4. IsFiniteSet(PersistentTables) /\ PersistentTables \subseteq TableNames
  <2>1. PersistentTables \in SUBSET DOMAIN tables
    BY DEF PersistentTables
  <2>. QED  BY <2>1, FS_Subset DEF TablesInv
<1>5. PICK D : D = PersistentTables
  OBVIOUS
<1>6. DOMAIN tables' = D /\ tables' \in [D -> Table] /\ \A n \in D : TableOK(tables'[n])
  BY <1>1, <1>3, <1>5
<1>7. TablesInv'
  BY <1>4, <1>5, <1>6 DEF TablesInv, TableOK
<1>. QED  BY <1>1, <1>7

\* UPDATE.
LEMMA UpdateTables ==
    ASSUME TablesInv, NEW name \in DOMAIN tables, NEW t, t = tables[name],
           NEW recs \in SUBSET t.records, NEW i \in DOMAIN t.cols
    PROVE  /\ \A v \in Texts \cup {Null} : UpdateText(name, recs, i, v) =>
                Becomes(name, Filled(t, Updated(t, recs, i, v)))
           /\ \A data \in Payloads : UpdateObject(name, recs, i, data) =>
                Becomes(name, Filled(t, Updated(t, recs, i, Object)))
           /\ UpdateObjectToNull(name, recs, i) =>
                Becomes(name, Filled(t, Updated(t, recs, i, Null)))
<1>1. t.cols \in Columns /\ (t.cols[i].key => t.cols[i].type = "string")
  BY TableFields, ColumnsFacts DEF TablesInv
<1>2. ASSUME NEW v \in Texts \cup {Null}, UpdateText(name, recs, i, v)
      PROVE  Becomes(name, Filled(t, Updated(t, recs, i, v)))
  <2>1. ~t.cols[i].key /\ tables' = Replaced(name, recs, i, v)
    BY <1>2 DEF UpdateText
  <2>2. v \in Value /\ v # Object
    BY Constants DEF Value
  <2>. QED  BY <2>1, <2>2, ReplacedTables
<1>3. ASSUME NEW data \in Payloads, UpdateObject(name, recs, i, data)
      PROVE  Becomes(name, Filled(t, Updated(t, recs, i, Object)))
  <2>1. /\ t.cols[i].type = "binary" /\ tables' = Replaced(name, recs, i, Object)
        /\ \A rec \in recs : CellPersistent(rec, t.cols[i])
    BY <1>3 DEF UpdateObject
  <2>2. ~t.cols[i].key /\ t.cols[i].type # "string"
    BY <1>1, <2>1
  <2>3. Object \in Value
    BY DEF Value
  <2>. QED  BY <2>1, <2>2, <2>3, ReplacedTables
<1>4. ASSUME UpdateObjectToNull(name, recs, i)
      PROVE  Becomes(name, Filled(t, Updated(t, recs, i, Null)))
  <2>1. t.cols[i].type = "binary" /\ tables' = Replaced(name, recs, i, Null)
    BY <1>4 DEF UpdateObjectToNull
  <2>2. ~t.cols[i].key /\ t.cols[i].type # "string"
    BY <1>1, <2>1
  <2>3. Null \in Value /\ Null # Object
    BY Constants DEF Value
  <2>. QED  BY <2>1, <2>2, <2>3, ReplacedTables
<1>. QED  BY <1>2, <1>3, <1>4

-----------------------------------------------------------------------------

\* Every step keeps the tables well formed.
LEMMA TablesStep == TablesInv /\ CatalogInv /\ [Next]_vars => TablesInv'
<1> SUFFICES ASSUME TablesInv, CatalogInv, [Next]_vars PROVE TablesInv'
  OBVIOUS
<1>1. tables' = tables => TablesInv'
  BY DEF TablesInv, TableOK
<1>2. ASSUME NEW name \in TableNames, NEW cols \in Schemas, NEW hold \in BOOLEAN,
             CreateTable(name, cols, hold)
      PROVE  TablesInv'
  BY <1>2, CreateTableTables
<1>3. ASSUME NEW name \in DOMAIN tables
      PROVE  /\ Hold(name) \/ Free(name) \/ Drop(name) => TablesInv'
             /\ \A c \in Additions, hold \in BOOLEAN : AddColumn(name, c, hold) => TablesInv'
             /\ \A rec \in NewRecords(tables[name].cols) :
                    Insert(name, rec) \/ InsertFails(name, rec) => TablesInv'
             /\ \A recs \in SUBSET tables[name].records :
                    /\ Delete(name, recs) => TablesInv'
                    /\ \A i \in DOMAIN tables[name].cols :
                        /\ \A v \in Texts \cup {Null} : UpdateText(name, recs, i, v) => TablesInv'
                        /\ \A data \in Payloads : UpdateObject(name, recs, i, data) => TablesInv'
                        /\ UpdateObjectToNull(name, recs, i) => TablesInv'
  <2>1. Hold(name) => TablesInv'
    BY HoldTables, BecomesFacts
  <2>2. DropTable(name) => TablesInv'
    BY DropTables, WithoutFacts
  <2>3. Free(name) => TablesInv'
    BY <2>2, FreeTables, DropTemporaryTables, BecomesFacts
  <2>4. Drop(name) => TablesInv'
    BY <2>2 DEF Drop
  <2>5. \A c \in Additions, hold \in BOOLEAN : AddColumn(name, c, hold) => TablesInv'
    BY AddColumnTables, BecomesFacts
  <2>6. \A rec \in NewRecords(tables[name].cols) : Insert(name, rec) => TablesInv'
    BY InsertTables, BecomesFacts
  <2>7. \A rec \in NewRecords(tables[name].cols) : InsertFails(name, rec) => TablesInv'
    BY <1>1 DEF InsertFails
  <2>8. \A recs \in SUBSET tables[name].records : Delete(name, recs) => TablesInv'
    BY DeleteTables, BecomesFacts
  <2>9. \A recs \in SUBSET tables[name].records : \A i \in DOMAIN tables[name].cols :
            /\ \A v \in Texts \cup {Null} : UpdateText(name, recs, i, v) => TablesInv'
            /\ \A data \in Payloads : UpdateObject(name, recs, i, data) => TablesInv'
            /\ UpdateObjectToNull(name, recs, i) => TablesInv'
    BY UpdateTables, BecomesFacts
  <2>. QED  BY <2>1, <2>3, <2>4, <2>5, <2>6, <2>7, <2>8, <2>9
<1>4. ASSUME NEW data \in Payloads,
             SetSummaryInformation(data) \/ \E s \in UserStreams : InsertStream(s, data)
      PROVE  TablesInv'
  BY <1>1, <1>4 DEF SetSummaryInformation, InsertStream
<1>5. ASSUME NEW names \in SUBSET DOMAIN sources,
             DeleteStreams(names) \/ \E data \in Payloads : UpdateStreams(names, data)
      PROVE  TablesInv'
  BY <1>1, <1>5 DEF DeleteStreams, UpdateStreams
<1>6. SaveAndOpen => TablesInv'
  BY SaveTables
<1>7. UNCHANGED vars => TablesInv'
  BY <1>1 DEF vars
<1>. QED  BY <1>2, <1>3, <1>4, <1>5, <1>6, <1>7 DEF Next

-----------------------------------------------------------------------------
\* The columns of the tables are exactly what the records describe.
Catalogued(ts, recs) == \A r : r \in recs <=> \E n \in DOMAIN ts : Described(n, ts[n].cols, r)

\* What it takes for records to describe the columns of all tables.
LEMMA CatalogOf ==
    ASSUME NEW ts, \A n \in DOMAIN ts : ts[n].cols \in Seq(Column), NEW recs
    PROVE  recs = UNION {ColumnRecords(n, 0, ts[n].cols) : n \in DOMAIN ts} <=> Catalogued(ts, recs)
<1> DEFINE U == UNION {ColumnRecords(n, 0, ts[n].cols) : n \in DOMAIN ts}
<1>1. \A n \in DOMAIN ts : \A r :
        r \in ColumnRecords(n, 0, ts[n].cols) <=> Described(n, ts[n].cols, r)
  <2> SUFFICES ASSUME NEW n \in DOMAIN ts, NEW r
               PROVE  r \in ColumnRecords(n, 0, ts[n].cols) <=> Described(n, ts[n].cols, r)
    OBVIOUS
  <2>1. r \in ColumnRecords(n, 0, ts[n].cols) <=> Described(n, ts[n].cols, r) /\ r.number > 0
    BY ColumnRecordsMember
  <2>2. Described(n, ts[n].cols, r) => r.number > 0
    BY DEF Described
  <2>. QED  BY <2>1, <2>2
<1>2. \A r : r \in U <=> \E n \in DOMAIN ts : Described(n, ts[n].cols, r)
  BY <1>1
<1>3. recs = U <=> \A r : r \in recs <=> r \in U
  OBVIOUS
<1> HIDE DEF U
<1>4. recs = U <=> Catalogued(ts, recs)
  BY <1>2, <1>3 DEF Catalogued
<1>. QED  BY <1>4 DEF U

\* The catalog's invariant, restated a record at a time.
LEMMA CatalogIs ==
    ASSUME TablesInv
    PROVE  CatalogInv <=> tableRecs = DOMAIN tables /\ Catalogued(tables, columnRecs)
<1>1. \A n \in DOMAIN tables : tables[n].cols \in Seq(Column)
  BY TableFields DEF TablesInv
<1>. QED  BY <1>1, CatalogOf DEF CatalogInv

\* The same of the next state.
LEMMA CatalogBecomes ==
    ASSUME TablesInv', tableRecs' = DOMAIN tables', Catalogued(tables', columnRecs')
    PROVE  CatalogInv'
<1>1. \A n \in DOMAIN tables' : tables'[n].cols \in Seq(Column)
  BY TableFields DEF TablesInv
<1>. QED  BY <1>1, CatalogOf DEF CatalogInv

\* A statement that leaves columns and records alone.
LEMMA CatalogStays ==
    ASSUME TablesInv, CatalogInv, TablesInv', UNCHANGED <<tableRecs, columnRecs>>,
           DOMAIN tables' = DOMAIN tables,
           \A n \in DOMAIN tables : tables'[n].cols = tables[n].cols
    PROVE  CatalogInv'
<1>1. Catalogued(tables, columnRecs) /\ tableRecs = DOMAIN tables
  BY CatalogIs
<1>2. Catalogued(tables', columnRecs')
  BY <1>1 DEF Catalogued
<1>. QED  BY <1>1, <1>2, CatalogBecomes

\* A step that keeps the columns of its table keeps the catalog.
LEMMA CatalogKeptBy ==
    ASSUME TablesInv, CatalogInv, UNCHANGED <<tableRecs, columnRecs>>,
           NEW name, NEW t, Becomes(name, t), t.cols = tables[name].cols
    PROVE  CatalogInv'
BY BecomesFacts, CatalogStays

\* CREATE TABLE records the table and its columns.
LEMMA CreateTableCatalog ==
    ASSUME TablesInv, CatalogInv, NEW name \in TableNames, NEW cols \in Schemas,
           NEW hold \in BOOLEAN, CreateTable(name, cols, hold)
    PROVE  CatalogInv'
<1>1. PICK kept : kept = IF hold THEN cols ELSE PersistentColumns(cols)
  OBVIOUS
<1>2. PICK t : t = Tab(kept, IF hold THEN 1 ELSE 0, {})
  OBVIOUS
<1>3. /\ TablesInv' /\ name \notin DOMAIN tables
      /\ DOMAIN tables' = DOMAIN tables \cup {name}
      /\ tables'[name] = t /\ kept \in Columns
      /\ \A n \in DOMAIN tables : tables'[n] = tables[n]
  BY <1>1, <1>2, CreateTableTables
<1>4. t.cols = kept /\ kept \in Seq(Column)
  BY <1>2, <1>3, TabFields DEF Columns
<1>5. tableRecs' = tableRecs \cup {name} /\ columnRecs' = columnRecs \cup ColumnRecords(name, 0, kept)
  BY <1>1 DEF CreateTable
<1>6. tableRecs = DOMAIN tables /\ Catalogued(tables, columnRecs)
  BY CatalogIs
<1>7. \A r : r \in ColumnRecords(name, 0, kept) <=> Described(name, kept, r)
  <2>1. \A r : r \in ColumnRecords(name, 0, kept) <=> Described(name, kept, r) /\ r.number > 0
    BY <1>4, ColumnRecordsMember
  <2>2. \A r : Described(name, kept, r) => r.number > 0
    BY DEF Described
  <2>. QED  BY <2>1, <2>2
<1>8. Catalogued(tables', columnRecs')
  BY <1>3, <1>4, <1>5, <1>6, <1>7 DEF Catalogued
<1>. QED  BY <1>3, <1>5, <1>6, <1>8, CatalogBecomes

\* ALTER TABLE ADD records the column.
LEMMA AddColumnCatalog ==
    ASSUME TablesInv, CatalogInv, NEW name \in DOMAIN tables, NEW c \in Additions,
           NEW hold \in BOOLEAN, AddColumn(name, c, hold)
    PROVE  CatalogInv'
<1>1. PICK t : t = tables[name]
  OBVIOUS
<1>2. PICK new : new = Append(t.cols, c)
  OBVIOUS
<1>3. PICK h \in 0..MaxHolds :
        /\ Becomes(name, Reshaped(t, new, h))
        /\ new \in Columns /\ Reshapes(t.cols, new) /\ Len(new) = Len(t.cols) + 1
  BY <1>1, <1>2, AddColumnTables
<1>4. PICK k \in Nat : k = Len(t.cols)
  BY <1>1, TableFields, ColumnsFacts DEF TablesInv
<1>5. /\ TablesInv' /\ DOMAIN tables' = DOMAIN tables /\ tables'[name] = Reshaped(t, new, h)
      /\ \A n \in DOMAIN tables \ {name} : tables'[n] = tables[n]
  BY <1>3, BecomesFacts
<1>6. tables'[name].cols = new
  BY <1>5, TabFields DEF Reshaped
<1>7. tableRecs' = tableRecs /\ columnRecs' = columnRecs \cup ColumnRecords(name, k, new)
  <2>1. columnRecs' = columnRecs \cup ColumnRecords(name, Len(t.cols) + 1 - 1, new)
    BY <1>1, <1>2 DEF AddColumn
  <2>2. Len(t.cols) + 1 - 1 = k
    BY <1>4
  <2>3. tableRecs' = tableRecs
    BY DEF AddColumn
  <2>. QED  BY <2>1, <2>2, <2>3
<1>8. \A r : r \in ColumnRecords(name, k, new) <=> Described(name, new, r) /\ r.number > k
  BY <1>3, <1>4, ColumnRecordsMember DEF Columns
<1>9. \A r : Described(name, new, r) <=>
        Described(name, t.cols, r) \/ (Described(name, new, r) /\ r.number > k)
  <2>1. Len(new) = k + 1 /\ \A i \in 1..k : new[i] = t.cols[i]
    BY <1>3, <1>4 DEF Reshapes
  <2>. QED  BY <1>4, <2>1 DEF Described
<1>10. tableRecs = DOMAIN tables /\ Catalogued(tables, columnRecs)
  BY CatalogIs
<1>11. Catalogued(tables', columnRecs')
  <2>1. \A r : r \in columnRecs' <=>
            \/ \E n \in DOMAIN tables : Described(n, tables[n].cols, r)
            \/ Described(name, new, r) /\ r.number > k
    BY <1>7, <1>8, <1>10 DEF Catalogued
  <2>2. \A r : (\E n \in DOMAIN tables : Described(n, tables[n].cols, r)) <=>
            \/ \E n \in DOMAIN tables \ {name} : Described(n, tables'[n].cols, r)
            \/ Described(name, t.cols, r)
    BY <1>1, <1>5
  <2>3. \A r : (\E n \in DOMAIN tables' : Described(n, tables'[n].cols, r)) <=>
            \/ \E n \in DOMAIN tables \ {name} : Described(n, tables'[n].cols, r)
            \/ Described(name, new, r)
    BY <1>5, <1>6
  <2>. QED  BY <1>9, <2>1, <2>2, <2>3 DEF Catalogued
<1>. QED  BY <1>5, <1>7, <1>10, <1>11, CatalogBecomes

\* DROP TABLE removes what was recorded of the table.
LEMMA DropTableCatalog ==
    ASSUME TablesInv, CatalogInv, NEW name \in DOMAIN tables, DropTable(name)
    PROVE  CatalogInv'
<1>1. /\ TablesInv' /\ DOMAIN tables' = DOMAIN tables \ {name}
      /\ \A n \in DOMAIN tables \ {name} : tables'[n] = tables[n]
  BY DropTables, WithoutFacts
<1>2. tableRecs' = tableRecs \ {name} /\ columnRecs' = columnRecs \ {r \in columnRecs : r.table = name}
  BY DEF DropTable
<1>3. tableRecs = DOMAIN tables /\ Catalogued(tables, columnRecs)
  BY CatalogIs
<1>4. \A n, cols, r : Described(n, cols, r) => r.table = n
  BY DEF Described
<1>5. Catalogued(tables', columnRecs')
  BY <1>1, <1>2, <1>3, <1>4 DEF Catalogued
<1>. QED  BY <1>1, <1>2, <1>3, <1>5, CatalogBecomes

\* So does the drop of a temporary table when nothing holds it.
LEMMA DropTemporaryCatalog ==
    ASSUME TablesInv, CatalogInv, NEW name \in DOMAIN tables,
           Persistent(tables[name].cols), DropTemporaryColumns(name)
    PROVE  CatalogInv'
<1>1. PICK t : t = tables[name]
  OBVIOUS
<1>2. PICK new : new = PersistentColumns(t.cols)
  OBVIOUS
<1>3. /\ Becomes(name, Reshaped(t, new, 0)) /\ Len(new) = Width(t.cols)
      /\ \A i \in 1..Width(t.cols) : new[i] = t.cols[i]
  BY <1>1, <1>2, DropTemporaryTables
<1>4. PICK k \in 0..Len(t.cols) : k = Width(t.cols)
  BY <1>1, TableFields, PersistentPrefix DEF TablesInv
<1>5. /\ TablesInv' /\ DOMAIN tables' = DOMAIN tables /\ tables'[name].cols = new
      /\ \A n \in DOMAIN tables \ {name} : tables'[n] = tables[n]
  BY <1>3, BecomesFacts, TabFields DEF Reshaped
<1>6. /\ tableRecs' = tableRecs
      /\ columnRecs' = columnRecs \ {r \in columnRecs : r.table = name /\ r.number > k}
  BY <1>1, <1>2, <1>3, <1>4 DEF DropTemporaryColumns
<1>7. tableRecs = DOMAIN tables /\ Catalogued(tables, columnRecs)
  BY CatalogIs
<1>8. \A r : Described(name, new, r) <=> Described(name, t.cols, r) /\ ~(r.number > k)
  <2>1. Len(t.cols) \in Nat
    BY <1>1, TableFields, ColumnsFacts DEF TablesInv
  <2>. QED  BY <1>3, <1>4, <2>1 DEF Described
<1>9. \A n, cols, r : Described(n, cols, r) => r.table = n
  BY DEF Described
<1>10. Catalogued(tables', columnRecs')
  <2>1. \A r : r \in columnRecs' <=> \E n \in DOMAIN tables :
            Described(n, tables[n].cols, r) /\ ~(n = name /\ r.number > k)
    BY <1>6, <1>7, <1>9 DEF Catalogued
  <2>2. \A n \in DOMAIN tables : \A r :
            Described(n, tables[n].cols, r) /\ ~(n = name /\ r.number > k)
                <=> Described(n, tables'[n].cols, r)
    BY <1>1, <1>5, <1>8
  <2>. QED  BY <1>5, <2>1, <2>2 DEF Catalogued
<1>. QED  BY <1>5, <1>6, <1>7, <1>10, CatalogBecomes

\* The catalog that is read back is that of the tables read back.
LEMMA SaveCatalog ==
    ASSUME TablesInv, CatalogInv, SaveAndOpen
    PROVE  CatalogInv'
<1>1. /\ TablesInv' /\ DOMAIN tables' = PersistentTables
      /\ \A n \in PersistentTables : tables'[n] = Kept(tables[n])
  BY SaveTables
<1>2. /\ File.tables = PersistentTables
      /\ \A r : r \in File.columns <=>
            \E n \in PersistentTables :
                Described(n, tables[n].cols, r) /\ r.number \in 1..Width(tables[n].cols)
  BY FileColumns
<1>3. tableRecs' = File.tables /\ columnRecs' = File.columns
  BY DEF SaveAndOpen
<1>4. ASSUME NEW n \in PersistentTables, NEW r
      PROVE  Described(n, tables[n].cols, r) /\ r.number \in 1..Width(tables[n].cols)
                <=> Described(n, tables'[n].cols, r)
  <2>1. TableOK(tables[n]) /\ Persistent(tables[n].cols)
    BY DEF PersistentTables, TablesInv
  <2>2. PICK new : new = tables'[n].cols
    OBVIOUS
  <2>3. Len(new) = Width(tables[n].cols) /\ \A i \in 1..Width(tables[n].cols) : new[i] = tables[n].cols[i]
    BY <1>1, <2>1, <2>2, KeptOK
  <2>4. Width(tables[n].cols) \in 0..Len(tables[n].cols) /\ Len(tables[n].cols) \in Nat
    BY <2>1, TableFields, PersistentPrefix, ColumnsFacts
  <2>. QED  BY <2>2, <2>3, <2>4 DEF Described
<1>5. Catalogued(tables', columnRecs')
  BY <1>1, <1>2, <1>3, <1>4 DEF Catalogued
<1>. QED  BY <1>1, <1>2, <1>3, <1>5, CatalogBecomes

\* Statements about records leave a table's columns alone.
LEMMA UpdatedCols ==
    ASSUME NEW t, NEW recs, NEW new, new = Filled(t, recs) \/ \E h : new = Tab(t.cols, h, t.records)
    PROVE  new.cols = t.cols
BY TabFields DEF Filled

\* Every step keeps the catalog true.
LEMMA CatalogStep == TablesInv /\ CatalogInv /\ [Next]_vars => CatalogInv'
<1> SUFFICES ASSUME TablesInv, CatalogInv, [Next]_vars PROVE CatalogInv'
  OBVIOUS
<1>1. UNCHANGED <<tables, tableRecs, columnRecs>> => CatalogInv'
  BY DEF CatalogInv
<1>2. ASSUME NEW name \in TableNames, NEW cols \in Schemas, NEW hold \in BOOLEAN,
             CreateTable(name, cols, hold)
      PROVE  CatalogInv'
  BY <1>2, CreateTableCatalog
<1>3. ASSUME NEW name \in DOMAIN tables
      PROVE  /\ Hold(name) \/ Free(name) \/ Drop(name) => CatalogInv'
             /\ \A c \in Additions, hold \in BOOLEAN : AddColumn(name, c, hold) => CatalogInv'
             /\ \A rec \in NewRecords(tables[name].cols) :
                    Insert(name, rec) \/ InsertFails(name, rec) => CatalogInv'
             /\ \A recs \in SUBSET tables[name].records :
                    /\ Delete(name, recs) => CatalogInv'
                    /\ \A i \in DOMAIN tables[name].cols :
                        /\ \A v \in Texts \cup {Null} : UpdateText(name, recs, i, v) => CatalogInv'
                        /\ \A data \in Payloads : UpdateObject(name, recs, i, data) => CatalogInv'
                        /\ UpdateObjectToNull(name, recs, i) => CatalogInv'
  <2>1. Hold(name) => CatalogInv'
    <3>1. Hold(name) => UNCHANGED <<tableRecs, columnRecs>>
      BY DEF Hold
    <3>. QED  BY <3>1, HoldTables, TabFields, CatalogKeptBy
  <2>2. DropTable(name) => CatalogInv'
    BY DropTableCatalog
  <2>3. Free(name) => CatalogInv'
    BY <2>2, FreeTables, TabFields, CatalogKeptBy, DropTemporaryCatalog
  <2>4. Drop(name) => CatalogInv'
    BY <2>2 DEF Drop
  <2>5. \A c \in Additions, hold \in BOOLEAN : AddColumn(name, c, hold) => CatalogInv'
    BY AddColumnCatalog
  <2>6. \A new, recs : UNCHANGED <<tableRecs, columnRecs>>
                /\ Becomes(name, Filled(tables[name], recs)) => CatalogInv'
    BY TabFields, CatalogKeptBy DEF Filled
  <2>7. \A rec \in NewRecords(tables[name].cols) : Insert(name, rec) => CatalogInv'
    <3>1. \A rec : Insert(name, rec) => UNCHANGED <<tableRecs, columnRecs>>
      BY DEF Insert
    <3>. QED  BY <2>6, <3>1, InsertTables
  <2>8. \A rec \in NewRecords(tables[name].cols) : InsertFails(name, rec) => CatalogInv'
    BY <1>1 DEF InsertFails
  <2>9. \A recs \in SUBSET tables[name].records : Delete(name, recs) => CatalogInv'
    <3>1. \A recs : Delete(name, recs) => UNCHANGED <<tableRecs, columnRecs>>
      BY DEF Delete
    <3>. QED  BY <2>6, <3>1, DeleteTables
  <2>10. \A recs \in SUBSET tables[name].records : \A i \in DOMAIN tables[name].cols :
            /\ \A v \in Texts \cup {Null} : UpdateText(name, recs, i, v) => CatalogInv'
            /\ \A data \in Payloads : UpdateObject(name, recs, i, data) => CatalogInv'
            /\ UpdateObjectToNull(name, recs, i) => CatalogInv'
    <3>1. \A recs, i : /\ \A v : UpdateText(name, recs, i, v) => UNCHANGED <<tableRecs, columnRecs>>
                       /\ \A data : UpdateObject(name, recs, i, data) => UNCHANGED <<tableRecs, columnRecs>>
                       /\ UpdateObjectToNull(name, recs, i) => UNCHANGED <<tableRecs, columnRecs>>
      BY DEF UpdateText, UpdateObject, UpdateObjectToNull
    <3>. QED  BY <2>6, <3>1, UpdateTables
  <2>. QED  BY <2>1, <2>3, <2>4, <2>5, <2>7, <2>8, <2>9, <2>10
<1>4. ASSUME NEW data \in Payloads,
             SetSummaryInformation(data) \/ \E s \in UserStreams : InsertStream(s, data)
      PROVE  CatalogInv'
  BY <1>1, <1>4 DEF SetSummaryInformation, InsertStream
<1>5. ASSUME NEW names \in SUBSET DOMAIN sources,
             DeleteStreams(names) \/ \E data \in Payloads : UpdateStreams(names, data)
      PROVE  CatalogInv'
  BY <1>1, <1>5 DEF DeleteStreams, UpdateStreams
<1>6. SaveAndOpen => CatalogInv'
  BY SaveCatalog
<1>7. UNCHANGED vars => CatalogInv'
  BY <1>1 DEF vars
<1>. QED  BY <1>2, <1>3, <1>4, <1>5, <1>6, <1>7 DEF Next

-----------------------------------------------------------------------------
(***************************************************************************)
(* Streams.                                                                *)
(***************************************************************************)

Source == [handle : Handles \cup {OnFile}, data : Payloads, owned : BOOLEAN]

\* A blob has a reference for each stream that reads it.
StreamsInv ==
    /\ IsFiniteSet(DOMAIN sources) /\ DOMAIN sources \subseteq Strings
    /\ sources \in [DOMAIN sources -> Source]
    /\ streamRecs = DOMAIN sources
    /\ held \in [Handles -> Nat]
    /\ \A h \in Handles : held[h] = Held(DOMAIN sources, h)

ReadersOf(src, names, h) == {s \in names : src[s].handle = h}

\* The readers of a blob are counted by the streams that hold it.
LEMMA HeldIs ==
    ASSUME NEW names, NEW h
    PROVE  Held(names, h) = Cardinality(ReadersOf(sources, names, h))
BY DEF Held, ReadersOf

\* As many readers go as there are streams removed.
LEMMA ReadersGo ==
    ASSUME NEW src, IsFiniteSet(DOMAIN src), NEW names, NEW h
    PROVE  /\ IsFiniteSet(ReadersOf(src, DOMAIN src, h))
           /\ Cardinality(ReadersOf(src, DOMAIN src \ names, h)) =
                Cardinality(ReadersOf(src, DOMAIN src, h))
                    - Cardinality(ReadersOf(src, names \cap DOMAIN src, h))
           /\ Cardinality(ReadersOf(src, DOMAIN src \ names, h)) \in Nat
<1> DEFINE A == ReadersOf(src, DOMAIN src, h)
           B == ReadersOf(src, names \cap DOMAIN src, h)
           C == ReadersOf(src, DOMAIN src \ names, h)
<1>1. A \subseteq DOMAIN src /\ B \subseteq A /\ C = A \ B /\ A \cap B = B
  BY DEF ReadersOf
<1> HIDE DEF A, B, C
<1>2. IsFiniteSet(A)
  BY <1>1, FS_Subset
<1>3. IsFiniteSet(C) /\ Cardinality(C) = Cardinality(A) - Cardinality(B)
  BY <1>1, <1>2, FS_Difference
<1>4. Cardinality(C) \in Nat
  BY <1>3, FS_CardinalityType
<1>. QED  BY <1>2, <1>3, <1>4 DEF A, B, C

\* Adding streams stores the payload once and counts a reader for each of them.
LEMMA AddStreamsFacts ==
    ASSUME StreamsInv, NEW names \in SUBSET Strings, IsFiniteSet(names), NEW owned,
           NEW h \in Handles, NEW data \in Payloads, NEW p,
           Stage(h), AddStreams(names, owned, h, data, p)
    PROVE  /\ StreamsInv' /\ DOMAIN sources' = DOMAIN sources \cup names
           /\ \A s \in names : sources'[s].owned <=> s \in owned
           /\ \A s \in names : sources'[s].data = data
           /\ \A s \in DOMAIN sources \ names : sources'[s] = sources[s]
<1>1. PICK D : D = DOMAIN sources
  OBVIOUS
<1>2. /\ sources' = [s \in D \cup names |->
            IF s \in names THEN [handle |-> h, data |-> data, owned |-> s \in owned]
            ELSE sources[s]]
      /\ streamRecs' = streamRecs \cup names
      /\ held' = [b \in Handles |->
            IF b = h THEN Cardinality(names) ELSE held[b] - Held(names \cap D, b)]
  BY <1>1 DEF AddStreams
<1>3. /\ IsFiniteSet(D) /\ D \subseteq Strings /\ streamRecs = D /\ sources \in [D -> Source]
      /\ \A b \in Handles : held[b] = Held(D, b)
  BY <1>1 DEF StreamsInv
<1>4. /\ DOMAIN sources' = D \cup names
      /\ \A s \in names : sources'[s] = [handle |-> h, data |-> data, owned |-> s \in owned]
      /\ \A s \in D \ names : sources'[s] = sources[s]
  BY <1>2
<1>5. \A s \in names : /\ sources'[s].handle = h /\ sources'[s].data = data
                       /\ sources'[s].owned <=> s \in owned
                       /\ sources'[s] \in Source
  <2> SUFFICES ASSUME NEW s \in names
               PROVE  /\ sources'[s].handle = h /\ sources'[s].data = data
                      /\ sources'[s].owned <=> s \in owned
                      /\ sources'[s] \in Source
    OBVIOUS
  <2>1. PICK o \in BOOLEAN : o = (s \in owned)
    <3>1. (s \in owned) \in BOOLEAN
      OBVIOUS
    <3>. QED  BY <3>1, Zenon
  <2>2. sources'[s] = [handle |-> h, data |-> data, owned |-> o]
    BY <1>4, <2>1
  <2>3. o <=> s \in owned
    BY <2>1
  <2>4. sources'[s].handle = h /\ sources'[s].data = data /\ sources'[s].owned = o
    BY <2>2
  <2>5. sources'[s] \in Source
    BY <2>1, <2>2 DEF Source
  <2>. QED  BY <2>3, <2>4, <2>5
<1>6. IsFiniteSet(D \cup names) /\ D \cup names \subseteq Strings
  BY <1>3, FS_Union
<1>7. sources' \in [D \cup names -> Source]
  <2>1. \A s \in names : sources'[s] \in Source
    BY <1>5
  <2>2. \A s \in D \ names : sources'[s] \in Source
    BY <1>3, <1>4
  <2>. QED  BY <1>2, <1>4, <2>1, <2>2
<1>8. ReadersOf(sources, D, h) = {}
  <2>1. Cardinality(ReadersOf(sources, D, h)) = 0
    BY <1>3, HeldIs DEF Stage
  <2>2. IsFiniteSet(ReadersOf(sources, D, h))
    BY <1>1, <1>3, ReadersGo
  <2>. QED  BY <2>1, <2>2, FS_EmptySet
<1>9. ReadersOf(sources', D \cup names, h) = names
  BY <1>4, <1>5, <1>8 DEF ReadersOf
<1>10. \A b \in Handles : b # h =>
        ReadersOf(sources', D \cup names, b) = ReadersOf(sources, D \ names, b)
  BY <1>4, <1>5 DEF ReadersOf
<1>11. ASSUME NEW b \in Handles
       PROVE  held'[b] = Cardinality(ReadersOf(sources', D \cup names, b)) /\ held'[b] \in Nat
  <2>1. CASE b = h
    BY <1>2, <1>9, <2>1, FS_CardinalityType
  <2>2. CASE b # h
    <3>1. held'[b] = Cardinality(ReadersOf(sources, D, b))
                        - Cardinality(ReadersOf(sources, names \cap D, b))
      BY <1>2, <1>3, <2>2, HeldIs
    <3>2. /\ Cardinality(ReadersOf(sources, D \ names, b)) = held'[b]
          /\ Cardinality(ReadersOf(sources, D \ names, b)) \in Nat
      BY <1>1, <1>3, <3>1, ReadersGo
    <3>. QED  BY <1>10, <2>2, <3>2
  <2>. QED  BY <2>1, <2>2
<1>12. held' \in [Handles -> Nat]
  BY <1>2, <1>11
<1>13. \A b \in Handles : held'[b] = Held(DOMAIN sources, b)'
  BY <1>4, <1>11 DEF Held, ReadersOf
<1>14. StreamsInv'
  BY <1>2, <1>3, <1>4, <1>6, <1>7, <1>12, <1>13 DEF StreamsInv
<1>. QED  BY <1>1, <1>4, <1>5, <1>14

\* Dropping streams gives up the reader of each, and no other stream is touched.
LEMMA DropStreamsFacts ==
    ASSUME StreamsInv, NEW names, NEW p, DropStreams(names, p)
    PROVE  /\ StreamsInv' /\ DOMAIN sources' = DOMAIN sources \ names
           /\ \A s \in DOMAIN sources \ names : sources'[s] = sources[s]
<1>1. PICK D : D = DOMAIN sources
  OBVIOUS
<1>2. D \ (names \cap D) = D \ names
  OBVIOUS
<1>3. /\ sources' = [s \in D \ names |-> sources[s]]
      /\ streamRecs' = streamRecs \ (names \cap D)
      /\ held' = [b \in Handles |-> held[b] - Held(names \cap D, b)]
  BY <1>1, <1>2 DEF DropStreams
<1>4. /\ IsFiniteSet(D) /\ D \subseteq Strings /\ streamRecs = D /\ sources \in [D -> Source]
      /\ \A b \in Handles : held[b] = Held(D, b)
  BY <1>1 DEF StreamsInv
<1>5. /\ DOMAIN sources' = D \ names /\ sources' \in [D \ names -> Source]
      /\ \A s \in D \ names : sources'[s] = sources[s]
  BY <1>3, <1>4
<1>6. IsFiniteSet(D \ names)
  BY <1>4, FS_Subset
<1>7. \A b \in Handles : ReadersOf(sources', D \ names, b) = ReadersOf(sources, D \ names, b)
  BY <1>5 DEF ReadersOf
<1>8. ASSUME NEW b \in Handles
      PROVE  held'[b] = Cardinality(ReadersOf(sources', D \ names, b)) /\ held'[b] \in Nat
  <2>1. held'[b] = Cardinality(ReadersOf(sources, D, b))
                        - Cardinality(ReadersOf(sources, names \cap D, b))
    BY <1>3, <1>4, HeldIs
  <2>2. /\ Cardinality(ReadersOf(sources, D \ names, b)) = held'[b]
        /\ Cardinality(ReadersOf(sources, D \ names, b)) \in Nat
    BY <1>1, <1>4, <2>1, ReadersGo
  <2>. QED  BY <1>7, <2>2
<1>9. held' \in [Handles -> Nat]
  BY <1>3, <1>8
<1>10. \A b \in Handles : held'[b] = Held(DOMAIN sources, b)'
  BY <1>5, <1>8 DEF Held, ReadersOf
<1>11. StreamsInv'
  BY <1>2, <1>3, <1>4, <1>5, <1>6, <1>9, <1>10 DEF StreamsInv
<1>. QED  BY <1>1, <1>5, <1>11

\* Saving puts the payloads of all streams into the file.
LEMMA SaveStreams ==
    ASSUME StreamsInv, SaveAndOpen
    PROVE  /\ StreamsInv' /\ DOMAIN sources' = DOMAIN sources
           /\ \A s \in DOMAIN sources : /\ sources'[s].handle = OnFile
                                        /\ sources'[s].data = sources[s].data
                                        /\ sources'[s].owned = sources[s].owned
<1>1. PICK D : D = DOMAIN sources
  OBVIOUS
<1>2. IsFiniteSet(D) /\ D \subseteq Strings /\ streamRecs = D /\ sources \in [D -> Source]
  BY <1>1 DEF StreamsInv
<1>3. /\ sources' = [s \in D |-> [sources[s] EXCEPT !.handle = OnFile]]
      /\ streamRecs' = D /\ held' = [h \in Handles |-> 0]
  BY <1>2, FileFields DEF SaveAndOpen
<1>4. ASSUME NEW s \in D
      PROVE  /\ sources'[s] \in Source /\ sources'[s].handle = OnFile
             /\ sources'[s].data = sources[s].data /\ sources'[s].owned = sources[s].owned
  <2>1. PICK q \in Source : q = sources[s]
    BY <1>2
  <2>2. sources'[s] = [q EXCEPT !.handle = OnFile]
    BY <1>3, <2>1
  <2>. QED  BY <2>1, <2>2 DEF Source
<1>5. DOMAIN sources' = D /\ sources' \in [D -> Source]
  BY <1>3, <1>4
<1>6. ASSUME NEW h \in Handles PROVE held'[h] = Held(DOMAIN sources, h)'
  <2>1. {s \in D : sources'[s].handle = h} = {}
    BY <1>4, Constants
  <2>. QED  BY <1>3, <1>5, <2>1, FS_EmptySet DEF Held
<1>7. held' \in [Handles -> Nat]
  BY <1>3
<1>8. StreamsInv'
  BY <1>2, <1>3, <1>5, <1>6, <1>7 DEF StreamsInv
<1>. QED  BY <1>1, <1>4, <1>5, <1>8

-----------------------------------------------------------------------------
(***************************************************************************)
(* The streams of records.                                                 *)
(***************************************************************************)

\* The record has a value in the stream.
Stores(n, cols, rec, s) == HasBinary(cols, rec) /\ s = StreamKey(n, Key(cols, rec))

Owns(n, t, s) == \E rec \in t.records : Stores(n, t.cols, rec, s)

OwnedInv == \A s \in DOMAIN sources : sources[s].owned =>
                \E n \in DOMAIN tables : Owns(n, tables[n], s)

\* What is a stream of one of some records.
LEMMA OwnStreamsMember ==
    ASSUME NEW n, NEW recs, NEW s
    PROVE  s \in OwnStreams(n, recs) <=> \E rec \in recs : Stores(n, tables[n].cols, rec, s)
BY DEF OwnStreams, StreamName, Stores

\* The owned streams' invariant, restated a stream at a time.
LEMMA OwnedIs == OwnedInv <=> NoOrphanStream
BY OwnStreamsMember DEF OwnedInv, NoOrphanStream, Owns

\* Records keep their streams when columns are added.
LEMMA OwnsReshaped ==
    ASSUME NEW t, TableOK(t), NEW new \in Columns, Reshapes(t.cols, new), NEW holds, NEW n, NEW s,
           Owns(n, t, s)
    PROVE  Owns(n, Reshaped(t, new, holds), s)
<1>1. PICK rec \in t.records : Stores(n, t.cols, rec, s)
  BY DEF Owns
<1>2. t.cols \in Columns /\ rec \in Record /\ Fits(t.cols, rec)
  BY TableFields
<1>3. PICK r : r = Resized(rec, Len(new))
  OBVIOUS
<1>4. Key(new, r) = Key(t.cols, rec) /\ (HasBinary(new, r) <=> HasBinary(t.cols, rec))
  BY <1>2, <1>3, ResizedFits
<1>5. Stores(n, new, r, s)
  BY <1>1, <1>4 DEF Stores
<1>6. Reshaped(t, new, holds).cols = new /\ r \in Reshaped(t, new, holds).records
  BY <1>3, TabFields DEF Reshaped
<1>. QED  BY <1>5, <1>6 DEF Owns

\* Records with streams are in the persistent part, with their streams.
LEMMA OwnsKept ==
    ASSUME NEW t, TableOK(t), NEW n, NEW s, Owns(n, t, s)
    PROVE  Persistent(t.cols) /\ Owns(n, Kept(t), s)
<1>1. PICK rec \in t.records : Stores(n, t.cols, rec, s)
  BY DEF Owns
<1>2. t.cols \in Columns /\ rec \in Record /\ Fits(t.cols, rec) /\ DOMAIN t.cols = 1..Len(t.cols)
      /\ Len(t.cols) \in Nat
  BY TableFields, ColumnsFacts
<1>3. PICK i \in 1..Len(t.cols) : rec.cells[i] = Object
  BY <1>1, <1>2 DEF Stores, HasBinary
<1>4. ~t.cols[i].temporary /\ ~rec.temporary
  BY <1>2, <1>3 DEF Fits, CellPersistent
<1>5. Width(t.cols) > 0 /\ Persistent(t.cols)
  <2>1. i <= Width(t.cols) /\ Width(t.cols) \in 0..Len(t.cols)
    BY <1>2, <1>4, PersistentPrefix
  <2>2. Width(t.cols) > 0
    BY <1>2, <2>1
  <2>. QED  BY <1>2, <2>2, PersistentPrefix
<1>6. PICK new \in Columns : new = PersistentColumns(t.cols) /\ Reshapes(t.cols, new)
                               /\ Len(new) = Width(t.cols)
  BY <1>2, <1>5, PrefixReshapes
<1>7. PICK r : r = Resized(rec, Len(new))
  OBVIOUS
<1>8. Key(new, r) = Key(t.cols, rec) /\ (HasBinary(new, r) <=> HasBinary(t.cols, rec))
  BY <1>2, <1>6, <1>7, ResizedFits
<1>9. Stores(n, new, r, s)
  BY <1>1, <1>8 DEF Stores
<1>10. Kept(t).cols = new /\ r \in Kept(t).records
  BY <1>4, <1>6, <1>7, TabFields DEF Kept, Lasting
<1>. QED  BY <1>5, <1>9, <1>10 DEF Owns

\* The streams a table owns are those its records store.
LEMMA OwnsFilled ==
    ASSUME NEW t, NEW recs, NEW n, NEW s
    PROVE  Owns(n, Filled(t, recs), s) <=> \E rec \in recs : Stores(n, t.cols, rec, s)
BY TabFields DEF Owns, Filled

\* After UPDATE a record stores what it did, unless it has lost its last value.
LEMMA OwnsUpdated ==
    ASSUME NEW t, TableOK(t), NEW recs \in SUBSET t.records, NEW i \in DOMAIN t.cols,
           ~t.cols[i].key, NEW v \in Value, t.cols[i].type = "string" => v # Object,
           v = Object => \A rec \in recs : CellPersistent(rec, t.cols[i]),
           NEW n, NEW s
    PROVE  /\ Owns(n, t, s) =>
                \/ Owns(n, Filled(t, Updated(t, recs, i, v)), s)
                \/ \E rec \in recs : ~HasBinary(t.cols, With(rec, i, v)) /\ Stores(n, t.cols, rec, s)
           /\ \A rec \in recs :
                /\ Key(t.cols, With(rec, i, v)) = Key(t.cols, rec)
                /\ t.cols[i].type = "string" => (HasBinary(t.cols, With(rec, i, v)) <=> HasBinary(t.cols, rec))
                /\ t.cols[i].type = "binary" /\ v = Object => HasBinary(t.cols, With(rec, i, v))
           /\ t.cols[i].type = "string" => (Owns(n, t, s) => Owns(n, Filled(t, Updated(t, recs, i, v)), s))
           /\ t.cols[i].type = "binary" /\ v = Object =>
                /\ Owns(n, t, s) => Owns(n, Filled(t, Updated(t, recs, i, v)), s)
                /\ (\E rec \in recs : s = StreamKey(n, Key(t.cols, rec))) =>
                        Owns(n, Filled(t, Updated(t, recs, i, v)), s)
<1>1. t.cols \in Columns /\ \A rec \in recs : rec \in Record /\ Fits(t.cols, rec)
  BY TableFields
<1>2. \A rec \in recs :
        /\ Key(t.cols, With(rec, i, v)) = Key(t.cols, rec)
        /\ With(rec, i, v).cells[i] = v
        /\ t.cols[i].type = "string" => (HasBinary(t.cols, With(rec, i, v)) <=> HasBinary(t.cols, rec))
  BY <1>1, WithFits
<1>3. \A rec \in recs :
        t.cols[i].type = "binary" /\ v = Object => HasBinary(t.cols, With(rec, i, v))
  BY <1>2 DEF HasBinary
<1>4. \A rec \in recs : With(rec, i, v) \in Updated(t, recs, i, v)
  BY DEF Updated
<1>5. t.records \ recs \subseteq Updated(t, recs, i, v)
  BY DEF Updated
<1>6. \A rec \in recs : HasBinary(t.cols, With(rec, i, v)) /\ s = StreamKey(n, Key(t.cols, rec))
        => Owns(n, Filled(t, Updated(t, recs, i, v)), s)
  BY <1>2, <1>4, OwnsFilled DEF Stores
<1>7. \A rec \in t.records \ recs : Stores(n, t.cols, rec, s)
        => Owns(n, Filled(t, Updated(t, recs, i, v)), s)
  BY <1>5, OwnsFilled
<1>8. \A rec : Stores(n, t.cols, rec, s) => s = StreamKey(n, Key(t.cols, rec)) /\ HasBinary(t.cols, rec)
  BY DEF Stores
<1>9. Owns(n, t, s) =>
        \/ Owns(n, Filled(t, Updated(t, recs, i, v)), s)
        \/ \E rec \in recs : ~HasBinary(t.cols, With(rec, i, v)) /\ Stores(n, t.cols, rec, s)
  BY <1>6, <1>7, <1>8 DEF Owns
<1>10. t.cols[i].type = "string" => (Owns(n, t, s) => Owns(n, Filled(t, Updated(t, recs, i, v)), s))
  BY <1>2, <1>8, <1>9
<1>11. t.cols[i].type = "binary" /\ v = Object =>
                /\ Owns(n, t, s) => Owns(n, Filled(t, Updated(t, recs, i, v)), s)
                /\ (\E rec \in recs : s = StreamKey(n, Key(t.cols, rec))) =>
                        Owns(n, Filled(t, Updated(t, recs, i, v)), s)
  BY <1>3, <1>6, <1>9
<1>. QED  BY <1>2, <1>3, <1>9, <1>10, <1>11

\* The names of records' streams.
LEMMA NamesFacts ==
    ASSUME TablesInv, NEW n \in DOMAIN tables, NEW recs \in SUBSET tables[n].records
    PROVE  /\ {StreamName(n, rec) : rec \in recs} \subseteq Strings
           /\ IsFiniteSet({StreamName(n, rec) : rec \in recs})
<1>1. TableOK(tables[n]) /\ n \in TableNames
  BY DEF TablesInv
<1>2. /\ tables[n].cols \in Columns /\ IsFiniteSet(tables[n].records)
      /\ \A rec \in recs : rec \in Record /\ Fits(tables[n].cols, rec)
  BY <1>1, TableFields
<1>3. \A rec \in recs : StreamName(n, rec) \in Strings
  BY <1>1, <1>2, KeyIsText DEF StreamName
<1>4. IsFiniteSet(recs)
  BY <1>2, FS_Subset
<1> DEFINE f == [rec \in recs |-> StreamName(n, rec)]
<1>5. IsFiniteSet({f[rec] : rec \in recs})
  <2>1. DOMAIN f = recs
    OBVIOUS
  <2> HIDE DEF f
  <2>. QED  BY <1>4, <2>1, ImageFinite
<1>6. {f[rec] : rec \in recs} = {StreamName(n, rec) : rec \in recs}
  OBVIOUS
<1> HIDE DEF f
<1>. QED  BY <1>3, <1>5, <1>6

-----------------------------------------------------------------------------
StreamInvs == StreamsInv /\ OwnedInv

\* A step that leaves the streams alone keeps what holds of them.
LEMMA StreamsSame ==
    ASSUME StreamsInv, UNCHANGED <<streamRecs, sources, held>>
    PROVE  StreamsInv' /\ sources' = sources
BY DEF StreamsInv, Held

\* A step that changes one table keeps owned streams owned.
LEMMA OwnedBecomes ==
    ASSUME TablesInv, OwnedInv, NEW name, NEW t, Becomes(name, t),
           \A s \in DOMAIN sources' : sources'[s].owned =>
                \/ Owns(name, t, s)
                \/ /\ s \in DOMAIN sources /\ sources[s].owned
                   /\ Owns(name, tables[name], s) => Owns(name, t, s)
    PROVE  OwnedInv'
<1>1. /\ DOMAIN tables' = DOMAIN tables /\ tables'[name] = t /\ name \in DOMAIN tables
      /\ \A n \in DOMAIN tables \ {name} : tables'[n] = tables[n]
  BY BecomesFacts DEF Becomes
<1>2. SUFFICES ASSUME NEW s \in DOMAIN sources', sources'[s].owned
               PROVE  \E n \in DOMAIN tables' : Owns(n, tables'[n], s)
  BY DEF OwnedInv, Owns
<1>3. CASE Owns(name, t, s)
  BY <1>1, <1>3
<1>4. CASE /\ s \in DOMAIN sources /\ sources[s].owned
           /\ Owns(name, tables[name], s) => Owns(name, t, s)
  <2>1. PICK n \in DOMAIN tables : Owns(n, tables[n], s)
    BY <1>4 DEF OwnedInv
  <2>2. CASE n = name
    BY <1>1, <1>4, <2>1, <2>2
  <2>3. CASE n # name
    BY <1>1, <2>1, <2>3
  <2>. QED  BY <2>2, <2>3
<1>. QED  BY <1>2, <1>3, <1>4

\* A statement that keeps the streams, and the table keeps what it owns.
LEMMA OwnedKeptBy ==
    ASSUME TablesInv, StreamInvs, NEW name, NEW t, Becomes(name, t),
           UNCHANGED <<streamRecs, sources, held>>,
           \A s : Owns(name, tables[name], s) => Owns(name, t, s)
    PROVE  StreamInvs'
<1>1. StreamsInv' /\ sources' = sources /\ OwnedInv
  BY StreamsSame DEF StreamInvs
<1>2. OwnedInv'
  BY <1>1, OwnedBecomes
<1>. QED  BY <1>1, <1>2 DEF StreamInvs

\* CREATE TABLE touches no stream.
LEMMA CreateTableStreams ==
    ASSUME TablesInv, StreamInvs, NEW name \in TableNames, NEW cols \in Schemas,
           NEW hold \in BOOLEAN, CreateTable(name, cols, hold)
    PROVE  StreamInvs'
<1>1. \A n \in DOMAIN tables : n \in DOMAIN tables' /\ tables'[n] = tables[n]
  BY CreateTableTables
<1>2. StreamsInv' /\ sources' = sources
  BY StreamsSame DEF CreateTable, StreamInvs
<1>3. OwnedInv'
  BY <1>1, <1>2 DEF StreamInvs, OwnedInv, Owns
<1>. QED  BY <1>2, <1>3 DEF StreamInvs

\* ALTER TABLE ADD keeps every record's streams.
LEMMA AddColumnStreams ==
    ASSUME TablesInv, StreamInvs, NEW name \in DOMAIN tables, NEW c \in Additions,
           NEW hold \in BOOLEAN, AddColumn(name, c, hold)
    PROVE  StreamInvs'
<1>1. PICK t : t = tables[name] /\ TableOK(t)
  BY DEF TablesInv
<1>2. PICK new : new = Append(t.cols, c)
  OBVIOUS
<1>3. PICK h \in 0..MaxHolds :
        Becomes(name, Reshaped(t, new, h)) /\ new \in Columns /\ Reshapes(t.cols, new)
  BY <1>1, <1>2, AddColumnTables
<1>4. \A s : Owns(name, t, s) => Owns(name, Reshaped(t, new, h), s)
  BY <1>1, <1>3, OwnsReshaped
<1>5. UNCHANGED <<streamRecs, sources, held>>
  BY DEF AddColumn
<1>. QED  BY <1>1, <1>3, <1>4, <1>5, OwnedKeptBy

\* Neither does a change of a table's holds.
LEMMA HoldsStreams ==
    ASSUME TablesInv, StreamInvs, NEW name, NEW h, UNCHANGED <<streamRecs, sources, held>>,
           NEW t, t = tables[name], Becomes(name, Tab(t.cols, h, t.records))
    PROVE  StreamInvs'
<1>1. \A s : Owns(name, t, s) => Owns(name, Tab(t.cols, h, t.records), s)
  BY TabFields DEF Owns
<1>. QED  BY <1>1, OwnedKeptBy

\* DROP TABLE removes the streams its records own.
LEMMA DropTableStreams ==
    ASSUME TablesInv, StreamInvs, NEW name \in DOMAIN tables, DropTable(name)
    PROVE  StreamInvs'
<1>1. PICK names : names = OwnStreams(name, tables[name].records)
  OBVIOUS
<1>2. \E p : DropStreams(names, p)
  BY <1>1 DEF DropTable
<1>3. /\ StreamsInv' /\ DOMAIN sources' = DOMAIN sources \ names
      /\ \A s \in DOMAIN sources \ names : sources'[s] = sources[s]
  BY <1>2, DropStreamsFacts DEF StreamInvs
<1>4. /\ DOMAIN tables' = DOMAIN tables \ {name}
      /\ \A n \in DOMAIN tables \ {name} : tables'[n] = tables[n]
  BY DropTables, WithoutFacts
<1>5. \A s : s \in names <=> Owns(name, tables[name], s)
  BY <1>1, OwnStreamsMember DEF Owns
<1>6. ASSUME NEW s \in DOMAIN sources', sources'[s].owned
      PROVE  \E n \in DOMAIN tables' : Owns(n, tables'[n], s)
  <2>1. s \in DOMAIN sources /\ sources[s].owned /\ s \notin names
    BY <1>3, <1>6
  <2>2. PICK n \in DOMAIN tables : Owns(n, tables[n], s)
    BY <2>1 DEF StreamInvs, OwnedInv
  <2>3. n # name
    BY <1>5, <2>1, <2>2
  <2>. QED  BY <1>4, <2>2, <2>3
<1>7. OwnedInv'
  BY <1>6 DEF OwnedInv, Owns
<1>. QED  BY <1>3, <1>7 DEF StreamInvs

\* A temporary table that is dropped owns no stream.
LEMMA DropTemporaryStreams ==
    ASSUME TablesInv, StreamInvs, NEW name \in DOMAIN tables,
           Persistent(tables[name].cols), DropTemporaryColumns(name)
    PROVE  StreamInvs'
<1>1. PICK t : t = tables[name] /\ TableOK(t)
  BY DEF TablesInv
<1>2. PICK new : new = PersistentColumns(t.cols)
  OBVIOUS
<1>3. Becomes(name, Reshaped(t, new, 0)) /\ new \in Columns /\ Reshapes(t.cols, new)
  BY <1>1, <1>2, DropTemporaryTables
<1>4. \A s : Owns(name, t, s) => Owns(name, Reshaped(t, new, 0), s)
  BY <1>1, <1>3, OwnsReshaped
<1>5. UNCHANGED <<streamRecs, sources, held>>
  BY DEF DropTemporaryColumns
<1>. QED  BY <1>1, <1>3, <1>4, <1>5, OwnedKeptBy

\* INSERT adds the streams of its record, or none if it fails.
LEMMA InsertStreams ==
    ASSUME TablesInv, StreamInvs, NEW name \in DOMAIN tables,
           NEW rec \in NewRecords(tables[name].cols), Insert(name, rec)
    PROVE  StreamInvs'
<1>1. PICK t : t = tables[name] /\ TableOK(t) /\ name \in TableNames
  BY DEF TablesInv
<1>2. PICK recs : recs = t.records \cup {rec}
  OBVIOUS
<1>3. Becomes(name, Filled(t, recs)) /\ rec \in Record /\ Fits(t.cols, rec) /\ t.cols \in Columns
  BY <1>1, <1>2, InsertTables, TableFields
<1>4. \A s : Owns(name, t, s) => Owns(name, Filled(t, recs), s)
  BY <1>2, OwnsFilled DEF Owns
<1>5. CASE ~HasBinary(t.cols, rec)
  <2>1. UNCHANGED <<streamRecs, sources, held>>
    BY <1>1, <1>5 DEF Insert
  <2>. QED  BY <1>1, <1>3, <1>4, <2>1, OwnedKeptBy
<1>6. CASE HasBinary(t.cols, rec)
  <2>1. PICK own : own = {StreamName(name, rec)}
    OBVIOUS
  <2>2. PICK h \in Handles, data \in Payloads :
            Stage(h) /\ \E p : AddStreams(own, own, h, data, p)
    BY <1>1, <1>6, <2>1 DEF Insert
  <2>3. own \subseteq Strings /\ IsFiniteSet(own)
    <3>1. StreamName(name, rec) \in Strings
      BY <1>1, <1>3, KeyIsText DEF StreamName
    <3>. QED  BY <2>1, <3>1, FS_Singleton
  <2>4. /\ StreamsInv' /\ DOMAIN sources' = DOMAIN sources \cup own
        /\ \A s \in DOMAIN sources \ own : sources'[s] = sources[s]
    BY <2>2, <2>3, AddStreamsFacts DEF StreamInvs
  <2>5. \A s \in own : Owns(name, Filled(t, recs), s)
    BY <1>1, <1>2, <1>6, <2>1, OwnsFilled DEF Stores, StreamName
  <2>6. OwnedInv'
    <3>1. OwnedInv
      BY DEF StreamInvs
    <3>2. \A s \in DOMAIN sources' : sources'[s].owned =>
                \/ Owns(name, Filled(t, recs), s)
                \/ /\ s \in DOMAIN sources /\ sources[s].owned
                   /\ Owns(name, tables[name], s) => Owns(name, Filled(t, recs), s)
      BY <1>1, <1>4, <2>4, <2>5
    <3>. QED  BY <1>3, <3>1, <3>2, OwnedBecomes
  <2>. QED  BY <2>4, <2>6 DEF StreamInvs
<1>. QED  BY <1>5, <1>6

\* UPDATE adds, replaces or removes the streams of the records it changes.
LEMMA UpdateStatementStreams ==
    ASSUME TablesInv, StreamInvs, NEW name \in DOMAIN tables,
           NEW recs \in SUBSET tables[name].records, NEW i \in DOMAIN tables[name].cols
    PROVE  /\ \A v \in Texts \cup {Null} : UpdateText(name, recs, i, v) => StreamInvs'
           /\ \A data \in Payloads : UpdateObject(name, recs, i, data) => StreamInvs'
           /\ UpdateObjectToNull(name, recs, i) => StreamInvs'
<1>1. PICK t : t = tables[name] /\ TableOK(t) /\ t.cols \in Columns
  BY TableFields DEF TablesInv
<1>2. t.cols[i].key => t.cols[i].type = "string"
  BY <1>1, ColumnsFacts
<1>3. StreamsInv /\ OwnedInv
  BY DEF StreamInvs
<1>4. ASSUME NEW v \in Texts \cup {Null}, UpdateText(name, recs, i, v)
      PROVE  StreamInvs'
  <2>1. Becomes(name, Filled(t, Updated(t, recs, i, v)))
    BY <1>1, <1>4, UpdateTables
  <2>2. ~t.cols[i].key /\ t.cols[i].type = "string" /\ UNCHANGED <<streamRecs, sources, held>>
    BY <1>1, <1>4 DEF UpdateText
  <2>3. v \in Value /\ v # Object
    BY Constants DEF Value
  <2>4. \A s : Owns(name, t, s) => Owns(name, Filled(t, Updated(t, recs, i, v)), s)
    BY <1>1, <2>2, <2>3, OwnsUpdated
  <2>. QED  BY <1>1, <2>1, <2>2, <2>4, OwnedKeptBy
<1>5. ASSUME NEW data \in Payloads, UpdateObject(name, recs, i, data)
      PROVE  StreamInvs'
  <2>1. Becomes(name, Filled(t, Updated(t, recs, i, Object)))
    BY <1>1, <1>5, UpdateTables
  <2>2. PICK names : names = {StreamName(name, rec) : rec \in recs}
    OBVIOUS
  <2>3. t.cols[i].type = "binary" /\ \A rec \in recs : CellPersistent(rec, t.cols[i])
    BY <1>1, <1>5 DEF UpdateObject
  <2>4. ~t.cols[i].key /\ t.cols[i].type # "string" /\ Object \in Value
    BY <1>2, <2>3 DEF Value
  <2>5. PICK h \in Handles : Stage(h) /\ AddStreams(names, names, h, data, pool)
    BY <1>5, <2>2 DEF UpdateObject
  <2>6. names \subseteq Strings /\ IsFiniteSet(names)
    BY <2>2, NamesFacts
  <2>7. /\ StreamsInv' /\ DOMAIN sources' = DOMAIN sources \cup names
        /\ \A s \in DOMAIN sources \ names : sources'[s] = sources[s]
    BY <1>3, <2>5, <2>6, AddStreamsFacts
  <2>8. \A s : /\ Owns(name, t, s) => Owns(name, Filled(t, Updated(t, recs, i, Object)), s)
               /\ (\E rec \in recs : s = StreamKey(name, Key(t.cols, rec))) =>
                        Owns(name, Filled(t, Updated(t, recs, i, Object)), s)
    BY <1>1, <2>3, <2>4, OwnsUpdated
  <2>9. \A s \in names : Owns(name, Filled(t, Updated(t, recs, i, Object)), s)
    BY <1>1, <2>2, <2>8 DEF StreamName
  <2>10. \A s \in DOMAIN sources' : sources'[s].owned =>
            \/ Owns(name, Filled(t, Updated(t, recs, i, Object)), s)
            \/ /\ s \in DOMAIN sources /\ sources[s].owned
               /\ Owns(name, tables[name], s) => Owns(name, Filled(t, Updated(t, recs, i, Object)), s)
    BY <1>1, <2>7, <2>8, <2>9
  <2>11. OwnedInv'
    BY <1>3, <2>1, <2>10, OwnedBecomes
  <2>. QED  BY <2>7, <2>11 DEF StreamInvs
<1>6. ASSUME UpdateObjectToNull(name, recs, i)
      PROVE  StreamInvs'
  <2>1. Becomes(name, Filled(t, Updated(t, recs, i, Null)))
    BY <1>1, <1>6, UpdateTables
  <2>2. PICK names : names = {StreamName(name, rec) : rec \in
                                {r \in recs : ~HasBinary(t.cols, With(r, i, Null))}}
    OBVIOUS
  <2>3. t.cols[i].type = "binary" /\ DropStreams(names, pool)
    BY <1>1, <1>6, <2>2 DEF UpdateObjectToNull
  <2>4. ~t.cols[i].key /\ t.cols[i].type # "string" /\ Null \in Value /\ Null # Object
    BY <1>2, <2>3, Constants DEF Value
  <2>5. /\ StreamsInv' /\ DOMAIN sources' = DOMAIN sources \ names
        /\ \A s \in DOMAIN sources \ names : sources'[s] = sources[s]
    BY <1>3, <2>3, DropStreamsFacts
  <2>6. \A s : Owns(name, t, s) =>
            \/ Owns(name, Filled(t, Updated(t, recs, i, Null)), s)
            \/ \E rec \in recs : ~HasBinary(t.cols, With(rec, i, Null)) /\ Stores(name, t.cols, rec, s)
    BY <1>1, <2>4, OwnsUpdated
  <2>7. \A s : (\E rec \in recs : ~HasBinary(t.cols, With(rec, i, Null)) /\ Stores(name, t.cols, rec, s))
            => s \in names
    BY <1>1, <2>2 DEF Stores, StreamName
  <2>8. \A s \in DOMAIN sources' : sources'[s].owned =>
            /\ s \in DOMAIN sources /\ sources[s].owned
            /\ Owns(name, tables[name], s) => Owns(name, Filled(t, Updated(t, recs, i, Null)), s)
    BY <1>1, <2>5, <2>6, <2>7
  <2>9. OwnedInv'
    BY <1>3, <2>1, <2>8, OwnedBecomes
  <2>. QED  BY <2>5, <2>9 DEF StreamInvs
<1>. QED  BY <1>4, <1>5, <1>6

\* DELETE removes the streams of its records.
LEMMA DeleteRecordStreams ==
    ASSUME TablesInv, StreamInvs, NEW name \in DOMAIN tables,
           NEW recs \in SUBSET tables[name].records, Delete(name, recs)
    PROVE  StreamInvs'
<1>1. PICK t : t = tables[name]
  OBVIOUS
<1>2. Becomes(name, Filled(t, t.records \ recs))
  BY <1>1, DeleteTables
<1>3. PICK names : names = OwnStreams(name, recs)
  OBVIOUS
<1>4. \E p : DropStreams(names, p)
  BY <1>3 DEF Delete
<1>5. StreamsInv /\ OwnedInv
  BY DEF StreamInvs
<1>6. /\ StreamsInv' /\ DOMAIN sources' = DOMAIN sources \ names
      /\ \A s \in DOMAIN sources \ names : sources'[s] = sources[s]
  BY <1>4, <1>5, DropStreamsFacts
<1>7. \A s : Owns(name, t, s) => s \in names \/ Owns(name, Filled(t, t.records \ recs), s)
  BY <1>1, <1>3, OwnStreamsMember, OwnsFilled DEF Owns
<1>8. \A s \in DOMAIN sources' : sources'[s].owned =>
            /\ s \in DOMAIN sources /\ sources[s].owned
            /\ Owns(name, tables[name], s) => Owns(name, Filled(t, t.records \ recs), s)
  BY <1>1, <1>6, <1>7
<1>9. OwnedInv'
  BY <1>2, <1>5, <1>8, OwnedBecomes
<1>. QED  BY <1>6, <1>9 DEF StreamInvs

\* Statements about streams leave the tables alone.
LEMMA StreamStatements ==
    ASSUME TablesInv, StreamInvs, UNCHANGED tables, NEW names
    PROVE  /\ \A p : DropStreams(names, p) => StreamInvs'
           /\ names \subseteq Strings /\ IsFiniteSet(names) =>
                \A h \in Handles, data \in Payloads : \A owned, p :
                    /\ Stage(h) /\ AddStreams(names, owned, h, data, p)
                    /\ \A s \in owned : s \in DOMAIN sources /\ sources[s].owned
                    => StreamInvs'
<1>1. StreamsInv /\ OwnedInv
  BY DEF StreamInvs
<1>2. \A s : (\E n \in DOMAIN tables' : Owns(n, tables'[n], s)) <=>
             (\E n \in DOMAIN tables : Owns(n, tables[n], s))
  OBVIOUS
<1>3. ASSUME \A s \in DOMAIN sources' : sources'[s].owned => s \in DOMAIN sources /\ sources[s].owned
      PROVE  OwnedInv'
  BY <1>1, <1>2, <1>3 DEF OwnedInv, Owns
<1>4. ASSUME NEW p, DropStreams(names, p)
      PROVE  StreamInvs'
  <2>1. /\ StreamsInv' /\ DOMAIN sources' = DOMAIN sources \ names
        /\ \A s \in DOMAIN sources \ names : sources'[s] = sources[s]
    BY <1>1, <1>4, DropStreamsFacts
  <2>. QED  BY <1>3, <2>1 DEF StreamInvs
<1>5. ASSUME names \subseteq Strings, IsFiniteSet(names), NEW h \in Handles, NEW data \in Payloads,
             NEW owned, NEW p, Stage(h), AddStreams(names, owned, h, data, p),
             \A s \in owned : s \in DOMAIN sources /\ sources[s].owned
      PROVE  StreamInvs'
  <2>1. /\ StreamsInv' /\ DOMAIN sources' = DOMAIN sources \cup names
        /\ \A s \in names : sources'[s].owned <=> s \in owned
        /\ \A s \in DOMAIN sources \ names : sources'[s] = sources[s]
    BY <1>1, <1>5, AddStreamsFacts
  <2>2. \A s \in DOMAIN sources' : sources'[s].owned => s \in DOMAIN sources /\ sources[s].owned
    BY <1>5, <2>1
  <2>. QED  BY <1>3, <2>1, <2>2 DEF StreamInvs
<1>. QED  BY <1>4, <1>5

\* What is read back owns its streams still.
LEMMA SaveOwned ==
    ASSUME TablesInv, CatalogInv, StreamInvs, SaveAndOpen
    PROVE  StreamInvs'
<1>1. /\ DOMAIN tables' = PersistentTables
      /\ \A n \in PersistentTables : tables'[n] = Kept(tables[n])
  BY SaveTables
<1>2. /\ StreamsInv' /\ DOMAIN sources' = DOMAIN sources
      /\ \A s \in DOMAIN sources : sources'[s].owned = sources[s].owned
  BY SaveStreams DEF StreamInvs
<1>3. ASSUME NEW s \in DOMAIN sources', sources'[s].owned
      PROVE  \E n \in DOMAIN tables' : Owns(n, tables'[n], s)
  <2>1. PICK n \in DOMAIN tables : Owns(n, tables[n], s)
    BY <1>2, <1>3 DEF StreamInvs, OwnedInv
  <2>2. TableOK(tables[n])
    BY DEF TablesInv
  <2>3. n \in PersistentTables /\ Owns(n, Kept(tables[n]), s)
    BY <2>1, <2>2, OwnsKept DEF PersistentTables
  <2>. QED  BY <1>1, <2>3
<1>4. OwnedInv'
  BY <1>3 DEF OwnedInv, Owns
<1>. QED  BY <1>2, <1>4 DEF StreamInvs

\* Every step keeps streams counted and owned.
LEMMA StreamsStep == TablesInv /\ CatalogInv /\ StreamInvs /\ [Next]_vars => StreamInvs'
<1> SUFFICES ASSUME TablesInv, CatalogInv, StreamInvs, [Next]_vars PROVE StreamInvs'
  OBVIOUS
<1>1. UNCHANGED <<tables, streamRecs, sources, held>> => StreamInvs'
  BY StreamsSame DEF StreamInvs, OwnedInv, Owns
<1>2. ASSUME NEW name \in TableNames, NEW cols \in Schemas, NEW hold \in BOOLEAN,
             CreateTable(name, cols, hold)
      PROVE  StreamInvs'
  BY <1>2, CreateTableStreams
<1>3. ASSUME NEW name \in DOMAIN tables
      PROVE  /\ Hold(name) \/ Free(name) \/ Drop(name) => StreamInvs'
             /\ \A c \in Additions, hold \in BOOLEAN : AddColumn(name, c, hold) => StreamInvs'
             /\ \A rec \in NewRecords(tables[name].cols) :
                    Insert(name, rec) \/ InsertFails(name, rec) => StreamInvs'
             /\ \A recs \in SUBSET tables[name].records :
                    /\ Delete(name, recs) => StreamInvs'
                    /\ \A i \in DOMAIN tables[name].cols :
                        /\ \A v \in Texts \cup {Null} : UpdateText(name, recs, i, v) => StreamInvs'
                        /\ \A data \in Payloads : UpdateObject(name, recs, i, data) => StreamInvs'
                        /\ UpdateObjectToNull(name, recs, i) => StreamInvs'
  <2>1. Hold(name) => StreamInvs'
    <3>1. Hold(name) => UNCHANGED <<streamRecs, sources, held>>
      BY DEF Hold
    <3>. QED  BY <3>1, HoldTables, HoldsStreams
  <2>2. DropTable(name) => StreamInvs'
    BY DropTableStreams
  <2>3. Free(name) => StreamInvs'
    BY <2>2, FreeTables, HoldsStreams, DropTemporaryStreams
  <2>4. Drop(name) => StreamInvs'
    BY <2>2 DEF Drop
  <2>5. \A c \in Additions, hold \in BOOLEAN : AddColumn(name, c, hold) => StreamInvs'
    BY AddColumnStreams
  <2>6. \A rec \in NewRecords(tables[name].cols) : Insert(name, rec) => StreamInvs'
    BY InsertStreams
  <2>7. \A rec \in NewRecords(tables[name].cols) : InsertFails(name, rec) => StreamInvs'
    BY <1>1 DEF InsertFails
  <2>8. \A recs \in SUBSET tables[name].records : Delete(name, recs) => StreamInvs'
    BY DeleteRecordStreams
  <2>9. \A recs \in SUBSET tables[name].records : \A i \in DOMAIN tables[name].cols :
            /\ \A v \in Texts \cup {Null} : UpdateText(name, recs, i, v) => StreamInvs'
            /\ \A data \in Payloads : UpdateObject(name, recs, i, data) => StreamInvs'
            /\ UpdateObjectToNull(name, recs, i) => StreamInvs'
    BY UpdateStatementStreams
  <2>. QED  BY <2>1, <2>3, <2>4, <2>5, <2>6, <2>7, <2>8, <2>9
<1>4. ASSUME NEW data \in Payloads, NEW s \in Strings, NEW h \in Handles,
             Stage(h), AddStreams({s}, {}, h, data, pool), UNCHANGED tables
      PROVE  StreamInvs'
  <2>1. {s} \subseteq Strings /\ IsFiniteSet({s})
    BY FS_Singleton
  <2>2. \A x \in {} : x \in DOMAIN sources /\ sources[x].owned
    OBVIOUS
  <2>. QED  BY <1>4, <2>1, <2>2, StreamStatements
<1>5. ASSUME NEW data \in Payloads,
             SetSummaryInformation(data) \/ \E s \in UserStreams : InsertStream(s, data)
      PROVE  StreamInvs'
  BY <1>4, <1>5, Constants DEF SetSummaryInformation, InsertStream
<1>6. ASSUME NEW names \in SUBSET DOMAIN sources,
             DeleteStreams(names) \/ \E data \in Payloads : UpdateStreams(names, data)
      PROVE  StreamInvs'
  <2>1. names \subseteq Strings /\ IsFiniteSet(names)
    BY FS_Subset DEF StreamInvs, StreamsInv
  <2>2. CASE DeleteStreams(names)
    <3>1. DropStreams(names, pool) /\ UNCHANGED tables
      BY <2>2 DEF DeleteStreams
    <3>. QED  BY <3>1, StreamStatements
  <2>3. ASSUME NEW data \in Payloads, UpdateStreams(names, data)
        PROVE  StreamInvs'
    <3>1. PICK owned : owned = {s \in names : sources[s].owned}
      OBVIOUS
    <3>2. PICK h \in Handles : Stage(h) /\ AddStreams(names, owned, h, data, pool)
      BY <2>3, <3>1 DEF UpdateStreams
    <3>3. UNCHANGED tables
      BY <2>3 DEF UpdateStreams
    <3>4. \A s \in owned : s \in DOMAIN sources /\ sources[s].owned
      BY <3>1
    <3>. QED  BY <2>1, <3>2, <3>3, <3>4, StreamStatements
  <2>. QED  BY <1>6, <2>2, <2>3
<1>7. SaveAndOpen => StreamInvs'
  BY SaveOwned
<1>8. UNCHANGED vars => StreamInvs'
  BY <1>1 DEF vars
<1>. QED  BY <1>2, <1>3, <1>5, <1>6, <1>7, <1>8 DEF Next

-----------------------------------------------------------------------------
(***************************************************************************)
(* The invariant, and what follows from it.                                *)
(***************************************************************************)

ShapeInv == TablesInv /\ CatalogInv /\ StreamInvs

\* A new database is in order.
LEMMA ShapeInit == Init => ShapeInv
<1> SUFFICES ASSUME Init PROVE ShapeInv
  OBVIOUS
<1>1. /\ DOMAIN tables = {} /\ tables = [n \in {} |-> Null] /\ tableRecs = {} /\ columnRecs = {}
      /\ DOMAIN sources = {} /\ sources = [s \in {} |-> Null] /\ streamRecs = {}
      /\ held = [h \in Handles |-> 0]
  BY DEF Init
<1>2. TablesInv
  BY <1>1, FS_EmptySet DEF TablesInv
<1>3. CatalogInv
  BY <1>1 DEF CatalogInv
<1>4. \A h \in Handles : Held(DOMAIN sources, h) = 0
  <2>1. \A h : {s \in DOMAIN sources : sources[s].handle = h} = {}
    BY <1>1
  <2>. QED  BY <2>1, FS_EmptySet DEF Held
<1>5. StreamsInv
  BY <1>1, <1>4, FS_EmptySet DEF StreamsInv
<1>6. OwnedInv
  BY <1>1 DEF OwnedInv
<1>. QED  BY <1>2, <1>3, <1>5, <1>6 DEF ShapeInv, StreamInvs

\* The tables, their catalog and the streams are well formed and agree in every
\* reachable state: the induction that the theorems below and those about the
\* reference counts start from.
THEOREM DatabaseShape == Spec => []ShapeInv
<1>1. ShapeInv /\ [Next]_vars => ShapeInv'
  BY TablesStep, CatalogStep, StreamsStep DEF ShapeInv
<1>. QED  BY ShapeInit, <1>1, PTL DEF Spec

\* _Tables and _Columns describe exactly the tables there are, whatever CREATE,
\* ALTER, DROP, HOLD and FREE came before, and also after a save: a temporary
\* column is there only while a HOLD keeps it.
THEOREM CatalogIsTrue == Spec => []CatalogMatches
<1>1. ShapeInv => CatalogMatches
  BY DEF ShapeInv, TablesInv, CatalogInv, CatalogMatches, TableOK
<1>. QED  BY <1>1, DatabaseShape, PTL

\* A staged blob has as many references as streams read it, so that it is
\* deleted with the last of them and never under one, and _Streams names
\* exactly the streams there are.
THEOREM BlobsAreHeld == Spec => []StreamsMatch
<1>1. ShapeInv => StreamsMatch
  <2> SUFFICES ASSUME ShapeInv PROVE StreamsMatch
    OBVIOUS
  <2>1. StreamsInv
    BY DEF ShapeInv, StreamInvs
  <2>2. \A s \in DOMAIN sources : sources[s].handle \in Handles \cup {OnFile}
    BY <2>1 DEF StreamsInv, Source
  <2>. QED  BY <2>1, <2>2 DEF StreamsInv, StreamsMatch
<1>. QED  BY <1>1, DatabaseShape, PTL

\* A stream stored through a record goes with the last record that has a value
\* there, however records, columns and tables go: no payload stays in the file
\* without a record that leads to it.
THEOREM NoStreamIsOrphaned == Spec => []NoOrphanStream
<1>1. ShapeInv => NoOrphanStream
  BY OwnedIs DEF ShapeInv, StreamInvs
<1>. QED  BY <1>1, DatabaseShape, PTL

=============================================================================
