------------------------- MODULE DatabaseSpecProofs -------------------------
(***************************************************************************)
(* The reference counts of Database: every statement keeps each count at   *)
(* the number of places that refer to the string. Then, what follows from  *)
(* the whole invariant: the types; that Close can always write the file    *)
(* and Open read it; that nothing of what the file keeps changes           *)
(* unnoticed; and that the database implements DatabaseSpec.               *)
(***************************************************************************)
EXTENDS DatabaseProofs

-----------------------------------------------------------------------------
(***************************************************************************)
(* Counts of references, whatever the references are.                      *)
(***************************************************************************)

Matches(p, refs) ==
    /\ p \in [Strings \X BOOLEAN -> Nat] /\ IsFiniteSet(refs)
    /\ \A r \in Strings \X BOOLEAN : p[r] = Count(refs, r)

To(refs, r) == {x \in refs : x.to = r}

\* The count of a string is the number of references to it.
LEMMA CountIs == \A refs, r : Count(refs, r) = Cardinality(To(refs, r))
BY DEF Count, To

\* It is a number while there are finitely many references.
LEMMA CountNat ==
    ASSUME NEW refs, IsFiniteSet(refs), NEW r
    PROVE  Count(refs, r) \in Nat /\ IsFiniteSet(To(refs, r))
<1>1. To(refs, r) \subseteq refs
  BY DEF To
<1>. QED  BY <1>1, FS_Subset, FS_CardinalityType, CountIs

\* Counts of separate sets of references add up.
LEMMA CountUnion ==
    ASSUME NEW R, IsFiniteSet(R), NEW S, IsFiniteSet(S), R \cap S = {}, NEW r
    PROVE  Count(R \cup S, r) = Count(R, r) + Count(S, r)
<1>1. To(R \cup S, r) = To(R, r) \cup To(S, r) /\ To(R, r) \cap To(S, r) = {}
  BY DEF To
<1>2. IsFiniteSet(To(R, r)) /\ IsFiniteSet(To(S, r))
  BY CountNat
<1>3. Cardinality(To(R, r) \cup To(S, r)) = Cardinality(To(R, r)) + Cardinality(To(S, r)) - 0
  BY <1>1, <1>2, FS_Union, FS_EmptySet
<1>4. Cardinality(To(R, r)) \in Nat /\ Cardinality(To(S, r)) \in Nat
  BY CountNat, CountIs
<1>5. /\ Count(R \cup S, r) = Cardinality(To(R, r) \cup To(S, r))
      /\ Count(R, r) = Cardinality(To(R, r)) /\ Count(S, r) = Cardinality(To(S, r))
  BY <1>1, CountIs
<1>. QED  BY <1>3, <1>4, <1>5

\* Counts of references taken away are subtracted.
LEMMA CountDifference ==
    ASSUME NEW R, IsFiniteSet(R), NEW S \in SUBSET R, NEW r
    PROVE  /\ Count(R \ S, r) = Count(R, r) - Count(S, r) /\ Count(S, r) <= Count(R, r)
           /\ Count(R, r) \in Nat /\ Count(S, r) \in Nat
<1>1. IsFiniteSet(S) /\ IsFiniteSet(R \ S) /\ R = (R \ S) \cup S /\ (R \ S) \cap S = {}
  BY FS_Subset
<1>2. Count(R, r) = Count(R \ S, r) + Count(S, r)
  BY <1>1, CountUnion
<1>3. Count(R, r) \in Nat /\ Count(S, r) \in Nat /\ Count(R \ S, r) \in Nat
  BY <1>1, CountNat
<1>. QED  BY <1>2, <1>3

\* References that come are counted in, those that go are counted out.
LEMMA InternMatches ==
    ASSUME NEW p, NEW R, Matches(p, R), NEW S, IsFiniteSet(S), R \cap S = {}
    PROVE  Matches(Intern(p, S), R \cup S)
<1> DEFINE q == [r \in Strings \X BOOLEAN |-> p[r] + Count(S, r)]
<1>1. /\ p \in [Strings \X BOOLEAN -> Nat] /\ IsFiniteSet(R)
      /\ \A r \in Strings \X BOOLEAN : p[r] = Count(R, r)
  BY DEF Matches
<1>2. Intern(p, S) = q
  BY <1>1 DEF Intern
<1>3. \A r \in Strings \X BOOLEAN : q[r] = Count(R \cup S, r) /\ q[r] \in Nat
  BY <1>1, CountUnion, CountNat
<1>4. q \in [Strings \X BOOLEAN -> Nat]
  BY <1>3
<1>5. IsFiniteSet(R \cup S)
  BY <1>1, FS_Union
<1> HIDE DEF q
<1>. QED  BY <1>2, <1>3, <1>4, <1>5 DEF Matches

\* A pool that releases some references counts the rest.
LEMMA ReleaseMatches ==
    ASSUME NEW p, NEW R, Matches(p, R), NEW S \in SUBSET R
    PROVE  Matches(Release(p, S), R \ S)
<1> DEFINE q == [r \in Strings \X BOOLEAN |->
                    IF p[r] > Count(S, r) THEN p[r] - Count(S, r) ELSE 0]
<1>1. /\ p \in [Strings \X BOOLEAN -> Nat] /\ IsFiniteSet(R)
      /\ \A r \in Strings \X BOOLEAN : p[r] = Count(R, r)
  BY DEF Matches
<1>2. Release(p, S) = q
  BY <1>1 DEF Release
<1>3. \A r \in Strings \X BOOLEAN : q[r] = Count(R \ S, r) /\ q[r] \in Nat
  <2> SUFFICES ASSUME NEW r \in Strings \X BOOLEAN PROVE q[r] = Count(R \ S, r) /\ q[r] \in Nat
    OBVIOUS
  <2>1. /\ Count(R \ S, r) = p[r] - Count(S, r) /\ Count(S, r) <= p[r]
        /\ p[r] \in Nat /\ Count(S, r) \in Nat
    <3>1. p[r] = Count(R, r)
      BY <1>1
    <3>2. /\ Count(R \ S, r) = Count(R, r) - Count(S, r) /\ Count(S, r) <= Count(R, r)
          /\ Count(R, r) \in Nat /\ Count(S, r) \in Nat
      BY <1>1, CountDifference
    <3>. QED  BY <3>1, <3>2
  <2>2. q[r] = IF p[r] > Count(S, r) THEN p[r] - Count(S, r) ELSE 0
    OBVIOUS
  <2> HIDE DEF q
  <2>. QED  BY <2>1, <2>2
<1>4. q \in [Strings \X BOOLEAN -> Nat]
  BY <1>3
<1>5. IsFiniteSet(R \ S)
  BY <1>1, FS_Subset
<1> HIDE DEF q
<1>. QED  BY <1>2, <1>3, <1>4, <1>5 DEF Matches

\* An UPDATE interns the new values first.
LEMMA ExchangeMatches ==
    ASSUME NEW p, NEW R, Matches(p, R), NEW out \in SUBSET R, NEW in, IsFiniteSet(in),
           (R \ out) \cap in = {}
    PROVE  Matches(Release(Intern(p, in), out), (R \ out) \cup in)
<1> DEFINE P == Strings \X BOOLEAN
           q == [r \in P |-> p[r] + Count(in, r)]
           z == [r \in P |-> IF q[r] > Count(out, r) THEN q[r] - Count(out, r) ELSE 0]
<1>1. p \in [P -> Nat] /\ IsFiniteSet(R) /\ \A r \in P : p[r] = Count(R, r)
  BY DEF Matches
<1>2. Intern(p, in) = q /\ Release(q, out) = z
  BY <1>1 DEF Intern, Release
<1>3. IsFiniteSet(R \ out)
  BY <1>1, FS_Subset
<1>4. \A r \in P : z[r] = Count((R \ out) \cup in, r) /\ z[r] \in Nat
  <2> SUFFICES ASSUME NEW r \in P PROVE z[r] = Count((R \ out) \cup in, r) /\ z[r] \in Nat
    OBVIOUS
  <2>1. /\ Count(R \ out, r) = p[r] - Count(out, r) /\ Count(out, r) <= p[r]
        /\ p[r] \in Nat /\ Count(out, r) \in Nat
    BY <1>1, CountDifference
  <2>2. Count((R \ out) \cup in, r) = Count(R \ out, r) + Count(in, r) /\ Count(in, r) \in Nat
    BY <1>3, CountUnion, CountNat
  <2>3. /\ q[r] = p[r] + Count(in, r)
        /\ z[r] = IF q[r] > Count(out, r) THEN q[r] - Count(out, r) ELSE 0
    OBVIOUS
  <2> HIDE DEF q, z
  <2>. QED  BY <2>1, <2>2, <2>3
<1>5. z \in [P -> Nat]
  BY <1>4
<1>6. IsFiniteSet((R \ out) \cup in)
  BY <1>3, FS_Union
<1> HIDE DEF q, z
<1>. QED  BY <1>2, <1>4, <1>5, <1>6 DEF Matches

\* A statement that fails releases what it has interned.
LEMMA InternReleased ==
    ASSUME NEW p \in [Strings \X BOOLEAN -> Nat], NEW S, IsFiniteSet(S)
    PROVE  Release(Intern(p, S), S) = p
<1> DEFINE P == Strings \X BOOLEAN
           q == [r \in P |-> p[r] + Count(S, r)]
           z == [r \in P |-> IF q[r] > Count(S, r) THEN q[r] - Count(S, r) ELSE 0]
<1>1. Intern(p, S) = q /\ Release(q, S) = z
  BY DEF Intern, Release
<1>2. \A r \in P : z[r] = p[r]
  <2> SUFFICES ASSUME NEW r \in P PROVE z[r] = p[r]
    OBVIOUS
  <2>1. p[r] \in Nat /\ Count(S, r) \in Nat
    BY CountNat
  <2>2. /\ q[r] = p[r] + Count(S, r)
        /\ z[r] = IF q[r] > Count(S, r) THEN q[r] - Count(S, r) ELSE 0
    OBVIOUS
  <2> HIDE DEF q, z
  <2>. QED  BY <2>1, <2>2
<1>3. z = p
  BY <1>2
<1> HIDE DEF q, z
<1>. QED  BY <1>1, <1>3

-----------------------------------------------------------------------------
(***************************************************************************)
(* The places that refer to strings.                                       *)
(***************************************************************************)

CellRef(n, cols, rec, i) ==
    Reference(<<"cell", n, Key(cols, rec), i>>, rec.cells[i], CellPersistent(rec, cols[i]))

TextAt(cols, rec, i) == cols[i].type = "string" /\ rec.cells[i] # Null

\* What is a reference of a record of a table.
LEMMA RecordRefsMember ==
    ASSUME NEW n, NEW cols, NEW recs, NEW x
    PROVE  x \in RecordRefs(n, cols, recs) <=>
            \E rec \in recs, i \in DOMAIN cols : TextAt(cols, rec, i) /\ x = CellRef(n, cols, rec, i)
<1> DEFINE C(rec) == {CellRef(n, cols, rec, i) : i \in {j \in DOMAIN cols : TextAt(cols, rec, j)}}
<1>1. RecordRefs(n, cols, recs) = UNION {C(rec) : rec \in recs}
  BY DEF RecordRefs, CellRef, TextAt
<1>2. \A rec : x \in C(rec) <=> \E i \in DOMAIN cols : TextAt(cols, rec, i) /\ x = CellRef(n, cols, rec, i)
  OBVIOUS
<1> HIDE DEF C
<1>. QED  BY <1>1, <1>2

\* Where a cell's reference is, and what it refers to.
LEMMA CellRefFields ==
    ASSUME NEW n, NEW cols, NEW rec, NEW i
    PROVE  LET x == CellRef(n, cols, rec, i) IN
           /\ x.at[1] = "cell" /\ x.at[2] = n /\ x.at[3] = Key(cols, rec) /\ x.at[4] = i
           /\ x.to[1] = rec.cells[i] /\ (x.to[2] <=> CellPersistent(rec, cols[i]))
           /\ x.to[2] = CellPersistent(rec, cols[i])
<1>1. PICK k, b : k = Key(cols, rec) /\ b = CellPersistent(rec, cols[i])
  OBVIOUS
<1>2. CellRef(n, cols, rec, i) = [at |-> <<"cell", n, k, i>>, to |-> <<rec.cells[i], b>>]
  BY <1>1 DEF CellRef, Reference
<1>. QED  BY <1>1, <1>2

\* References of cells are at the cells of their table.
LEMMA RecordRefsPlace ==
    ASSUME NEW n, NEW cols, NEW recs, NEW x \in RecordRefs(n, cols, recs)
    PROVE  x.at[1] = "cell" /\ x.at[2] = n /\ x.at[4] \in DOMAIN cols
           /\ \E rec \in recs : x.at[3] = Key(cols, rec)
BY RecordRefsMember, CellRefFields

\* The references of names, catalog records and streams are elsewhere.
LEMMA OtherPlaces ==
    /\ \A n, cols : \A x \in TableRefs(n, cols) : x.at[1] = "table" /\ x.at[2] = n
    /\ \A recs : \A x \in ColumnRefs(recs) : x.at[1] = "column" /\ x.at[2] \in recs
    /\ \A names : \A x \in StreamRefs(names) : x.at[1] = "stream" /\ x.at[2] \in names
<1>1. ASSUME NEW a, NEW b, NEW s, NEW q
      PROVE  Reference(<<a, b>>, s, q).at[1] = a /\ Reference(<<a, b>>, s, q).at[2] = b
  BY DEF Reference
<1>2. ASSUME NEW a, NEW b, NEW c, NEW s, NEW q
      PROVE  /\ Reference(<<a, b, c>>, s, q).at[1] = a
             /\ Reference(<<a, b, c>>, s, q).at[2] = b
  BY DEF Reference
<1>3. \A n, cols : \A x \in TableRefs(n, cols) : x.at[1] = "table" /\ x.at[2] = n
  BY <1>1 DEF TableRefs
<1>4. ASSUME NEW recs, NEW x \in ColumnRefs(recs)
      PROVE  x.at[1] = "column" /\ x.at[2] \in recs
  <2>1. PICK r \in recs : \E s, b :
            \/ x = Reference(<<"column", r, "table">>, s, b)
            \/ x = Reference(<<"column", r, "name">>, s, b)
    BY DEF ColumnRefs
  <2>. QED  BY <1>2, <2>1
<1>5. ASSUME NEW names, NEW x \in StreamRefs(names)
      PROVE  x.at[1] = "stream" /\ x.at[2] \in names
  <2>1. PICK s \in names : \E q : x = Reference(<<"stream", s>>, s, q)
    BY DEF StreamRefs
  <2>. QED  BY <1>1, <2>1
<1>. QED  BY <1>3, <1>4, <1>5

-----------------------------------------------------------------------------
(***************************************************************************)
(* The references that a database holds.                                   *)
(***************************************************************************)

RefsOf(n, t) == RecordRefs(n, t.cols, t.records)
AllRefs(ts, recs, names) == ColumnRefs(recs) \cup StreamRefs(names) \cup NameRefs(ts) \cup CellRefs(ts)

CountInv == Matches(pool, AllRefs(tables, columnRecs, DOMAIN sources))

\* Exact counts are the property, and the type of the pool.
LEMMA CountsAre == CountInv => CountsMatch /\ pool \in [Strings \X BOOLEAN -> Nat]
<1>1. References = AllRefs(tables, columnRecs, DOMAIN sources)
  BY DEF References, AllRefs
<1>. QED  BY <1>1 DEF CountInv, Matches, CountsMatch

\* What is a reference of a cell of any table.
LEMMA CellRefsMember ==
    ASSUME NEW ts, NEW x
    PROVE  x \in CellRefs(ts) <=> \E n \in DOMAIN ts : x \in RefsOf(n, ts[n])
BY DEF CellRefs, RefsOf

\* The references of a table's cells are at that table.
LEMMA RefsOfPlace ==
    ASSUME NEW n, NEW t, NEW x \in RefsOf(n, t)
    PROVE  x.at[1] = "cell" /\ x.at[2] = n
BY RecordRefsPlace DEF RefsOf

\* No two kinds of references are at the same place.
LEMMA Kinds ==
    ASSUME NEW ts, NEW recs, NEW names, NEW x
    PROVE  /\ x \in CellRefs(ts) => x.at[1] = "cell" /\ x.at[2] \in DOMAIN ts
           /\ x \in NameRefs(ts) => x.at[1] = "table" /\ x.at[2] \in DOMAIN ts
           /\ x \in ColumnRefs(recs) => x.at[1] = "column" /\ x.at[2] \in recs
           /\ x \in StreamRefs(names) => x.at[1] = "stream" /\ x.at[2] \in names
<1>1. x \in CellRefs(ts) => x.at[1] = "cell" /\ x.at[2] \in DOMAIN ts
  BY RefsOfPlace, CellRefsMember
<1>2. x \in NameRefs(ts) => x.at[1] = "table" /\ x.at[2] \in DOMAIN ts
  BY OtherPlaces DEF NameRefs
<1>. QED  BY <1>1, <1>2, OtherPlaces

\* What changes when one table does.
LEMMA RefsWith ==
    ASSUME NEW ts, NEW us, NEW name \in DOMAIN ts, DOMAIN us = DOMAIN ts,
           \A n \in DOMAIN ts \ {name} : us[n] = ts[n]
    PROVE  /\ CellRefs(us) = (CellRefs(ts) \ RefsOf(name, ts[name])) \cup RefsOf(name, us[name])
           /\ TableRefs(name, us[name].cols) = TableRefs(name, ts[name].cols) => NameRefs(us) = NameRefs(ts)
           /\ RefsOf(name, ts[name]) \subseteq CellRefs(ts)
<1>1. \A x : x \in CellRefs(us) <=> \/ x \in RefsOf(name, us[name])
                                   \/ \E n \in DOMAIN ts \ {name} : x \in RefsOf(n, ts[n])
  BY CellRefsMember
<1>2. \A x : x \in NameRefs(us) <=> \/ x \in TableRefs(name, us[name].cols)
                                   \/ \E n \in DOMAIN ts \ {name} : x \in TableRefs(n, ts[n].cols)
  BY DEF NameRefs
<1>3. \A x : x \in CellRefs(ts) \ RefsOf(name, ts[name])
                <=> \E n \in DOMAIN ts \ {name} : x \in RefsOf(n, ts[n])
  <2>1. \A x : x \in CellRefs(ts) <=> \E n \in DOMAIN ts : x \in RefsOf(n, ts[n])
    BY CellRefsMember
  <2>2. \A n \in DOMAIN ts \ {name} : \A x \in RefsOf(n, ts[n]) : x \notin RefsOf(name, ts[name])
    BY RefsOfPlace
  <2>. QED  BY <2>1, <2>2
<1>4. CellRefs(us) = (CellRefs(ts) \ RefsOf(name, ts[name])) \cup RefsOf(name, us[name])
  BY <1>1, <1>3
<1>5. TableRefs(name, us[name].cols) = TableRefs(name, ts[name].cols) => NameRefs(us) = NameRefs(ts)
  <2>1. \A x : x \in NameRefs(ts) <=> \/ x \in TableRefs(name, ts[name].cols)
                                     \/ \E n \in DOMAIN ts \ {name} : x \in TableRefs(n, ts[n].cols)
    BY DEF NameRefs
  <2>. QED  BY <1>2, <2>1
<1>6. RefsOf(name, ts[name]) \subseteq CellRefs(ts)
  BY CellRefsMember
<1>. QED  BY <1>4, <1>5, <1>6

\* A new table adds its references to the others'.
LEMMA RefsCreated ==
    ASSUME NEW ts, NEW us, NEW name, name \notin DOMAIN ts, DOMAIN us = DOMAIN ts \cup {name},
           \A n \in DOMAIN ts : us[n] = ts[n]
    PROVE  /\ CellRefs(us) = CellRefs(ts) \cup RefsOf(name, us[name])
           /\ NameRefs(us) = NameRefs(ts) \cup TableRefs(name, us[name].cols)
<1>1. /\ \A x : x \in CellRefs(us) <=> \E n \in DOMAIN us : x \in RefsOf(n, us[n])
      /\ \A x : x \in CellRefs(ts) <=> \E n \in DOMAIN ts : x \in RefsOf(n, ts[n])
  BY CellRefsMember
<1>2. \A x : x \in CellRefs(us) <=> x \in CellRefs(ts) \/ x \in RefsOf(name, us[name])
  BY <1>1
<1>3. \A x : x \in NameRefs(us) <=> x \in NameRefs(ts) \/ x \in TableRefs(name, us[name].cols)
  BY DEF NameRefs
<1>. QED  BY <1>2, <1>3

\* A table that goes takes its references, and no others.
LEMMA RefsWithout ==
    ASSUME NEW ts, NEW us, NEW name \in DOMAIN ts, DOMAIN us = DOMAIN ts \ {name},
           \A n \in DOMAIN ts \ {name} : us[n] = ts[n]
    PROVE  /\ CellRefs(us) = CellRefs(ts) \ RefsOf(name, ts[name])
           /\ NameRefs(us) = NameRefs(ts) \ TableRefs(name, ts[name].cols)
           /\ RefsOf(name, ts[name]) \subseteq CellRefs(ts)
           /\ TableRefs(name, ts[name].cols) \subseteq NameRefs(ts)
<1>1. \A x : x \in CellRefs(us) <=> \E n \in DOMAIN ts \ {name} : x \in RefsOf(n, ts[n])
  BY CellRefsMember
<1>2. \A x : x \in NameRefs(us) <=> \E n \in DOMAIN ts \ {name} : x \in TableRefs(n, ts[n].cols)
  BY DEF NameRefs
<1>3. /\ \A x : x \in CellRefs(ts) <=> \E n \in DOMAIN ts : x \in RefsOf(n, ts[n])
      /\ \A x : x \in NameRefs(ts) <=> \E n \in DOMAIN ts : x \in TableRefs(n, ts[n].cols)
  BY CellRefsMember DEF NameRefs
<1>4. \A n \in DOMAIN ts \ {name} : \A x \in RefsOf(n, ts[n]) : x \notin RefsOf(name, ts[name])
  BY RefsOfPlace
<1>5. \A n \in DOMAIN ts \ {name} : \A x \in TableRefs(n, ts[n].cols) :
        x \notin TableRefs(name, ts[name].cols)
  BY OtherPlaces
<1>6. CellRefs(us) = CellRefs(ts) \ RefsOf(name, ts[name])
  BY <1>1, <1>3, <1>4
<1>7. NameRefs(us) = NameRefs(ts) \ TableRefs(name, ts[name].cols)
  BY <1>2, <1>3, <1>5
<1>. QED  BY <1>3, <1>6, <1>7

\* The sets of references that statements pass are finite.
LEMMA FiniteRefs ==
    /\ \A names : IsFiniteSet(names) => IsFiniteSet(StreamRefs(names))
    /\ \A recs : IsFiniteSet(recs) => IsFiniteSet(ColumnRefs(recs))
    /\ \A n, cols : IsFiniteSet(TableRefs(n, cols))
    /\ \A n, cols, recs : IsFiniteSet(DOMAIN cols) /\ IsFiniteSet(recs) => IsFiniteSet(RecordRefs(n, cols, recs))
<1>1. ASSUME NEW names, IsFiniteSet(names) PROVE IsFiniteSet(StreamRefs(names))
  <2> DEFINE f == [s \in names |-> Reference(<<"stream", s>>, s, FALSE)]
  <2>1. StreamRefs(names) = {f[s] : s \in names}
    BY DEF StreamRefs
  <2>2. DOMAIN f = names
    OBVIOUS
  <2> HIDE DEF f
  <2>. QED  BY <1>1, <2>1, <2>2, ImageFinite
<1>2. ASSUME NEW recs, IsFiniteSet(recs) PROVE IsFiniteSet(ColumnRefs(recs))
  <2> DEFINE f == [r \in recs |-> Reference(<<"column", r, "table">>, r.table, ~r.column.temporary)]
             g == [r \in recs |-> Reference(<<"column", r, "name">>, r.column.name, ~r.column.temporary)]
  <2>1. ColumnRefs(recs) = {f[r] : r \in recs} \cup {g[r] : r \in recs}
    BY DEF ColumnRefs
  <2>2. DOMAIN f = recs /\ DOMAIN g = recs
    OBVIOUS
  <2> HIDE DEF f, g
  <2>3. IsFiniteSet({f[r] : r \in recs}) /\ IsFiniteSet({g[r] : r \in recs})
    BY <1>2, <2>2, ImageFinite
  <2>. QED  BY <2>1, <2>3, FS_Union
<1>3. \A n, cols : IsFiniteSet(TableRefs(n, cols))
  BY FS_Singleton DEF TableRefs
<1>4. ASSUME NEW n, NEW cols, NEW recs, IsFiniteSet(DOMAIN cols), IsFiniteSet(recs)
      PROVE  IsFiniteSet(RecordRefs(n, cols, recs))
  <2> DEFINE P == recs \X DOMAIN cols
             f == [q \in P |-> CellRef(n, cols, q[1], q[2])]
  <2>1. IsFiniteSet(P)
    BY <1>4, FS_Product
  <2>2. IsFiniteSet({f[q] : q \in P})
    <3>1. DOMAIN f = P
      OBVIOUS
    <3> HIDE DEF f, P
    <3>. QED  BY <2>1, <3>1, ImageFinite
  <2>3. \A rec \in recs, i \in DOMAIN cols : f[<<rec, i>>] = CellRef(n, cols, rec, i) /\ <<rec, i>> \in P
    OBVIOUS
  <2> HIDE DEF f, P
  <2>4. RecordRefs(n, cols, recs) \subseteq {f[q] : q \in P}
    <3> SUFFICES ASSUME NEW x \in RecordRefs(n, cols, recs) PROVE x \in {f[q] : q \in P}
      OBVIOUS
    <3>1. PICK rec \in recs, i \in DOMAIN cols : x = CellRef(n, cols, rec, i)
      BY RecordRefsMember
    <3>2. x = f[<<rec, i>>] /\ <<rec, i>> \in P
      BY <2>3, <3>1
    <3>. QED  BY <3>2
  <2>. QED  BY <2>2, <2>4, FS_Subset
<1>. QED  BY <1>1, <1>2, <1>3, <1>4

-----------------------------------------------------------------------------
(***************************************************************************)
(* The references of a table's records.                                    *)
(***************************************************************************)

\* A cell keeps its reference while its record keeps the key.
LEMMA SameCell ==
    ASSUME NEW n, NEW cols, NEW new, NEW rec, NEW r, NEW i, Key(new, r) = Key(cols, rec),
           new[i] = cols[i], r.cells[i] = rec.cells[i], r.temporary = rec.temporary
    PROVE  /\ CellRef(n, new, r, i) = CellRef(n, cols, rec, i)
           /\ TextAt(new, r, i) <=> TextAt(cols, rec, i)
<1>1. CellPersistent(r, new[i]) = CellPersistent(rec, cols[i])
  BY DEF CellPersistent
<1>. QED  BY <1>1 DEF CellRef, TextAt

\* Cells that a table gets hold nothing, and those it loses are the last ones.
LEMMA ResizedRefs ==
    ASSUME NEW t, TableOK(t), NEW new \in Columns, Reshapes(t.cols, new),
           NEW recs \in SUBSET t.records, NEW n
    PROVE  RecordRefs(n, new, {Resized(rec, Len(new)) : rec \in recs})
            = {x \in RecordRefs(n, t.cols, recs) : x.at[4] <= Len(new)}
<1> DEFINE R(rec) == Resized(rec, Len(new))
           S == {R(rec) : rec \in recs}
<1>1. /\ t.cols \in Columns /\ \A rec \in recs : rec \in Record /\ Fits(t.cols, rec)
      /\ DOMAIN t.cols = 1..Len(t.cols) /\ Len(t.cols) \in Nat
      /\ DOMAIN new = 1..Len(new) /\ Len(new) \in Nat
  BY TableFields, ColumnsFacts
<1>2. \A rec \in recs :
        /\ Key(new, R(rec)) = Key(t.cols, rec) /\ R(rec).temporary = rec.temporary
        /\ \A i \in 1..Len(new) : R(rec).cells[i] = IF i <= Len(t.cols) THEN rec.cells[i] ELSE Null
  BY <1>1, ResizedFits
<1>3. \A i \in 1..Len(new) : i <= Len(t.cols) => new[i] = t.cols[i]
  BY <1>1 DEF Reshapes
<1> HIDE DEF R
<1>4. \A rec \in recs, i \in 1..Len(new) : i <= Len(t.cols) =>
        /\ CellRef(n, new, R(rec), i) = CellRef(n, t.cols, rec, i)
        /\ TextAt(new, R(rec), i) <=> TextAt(t.cols, rec, i)
  <2> SUFFICES ASSUME NEW rec \in recs, NEW i \in 1..Len(new), i <= Len(t.cols)
               PROVE  /\ CellRef(n, new, R(rec), i) = CellRef(n, t.cols, rec, i)
                      /\ TextAt(new, R(rec), i) <=> TextAt(t.cols, rec, i)
    OBVIOUS
  <2>1. PICK r : r = R(rec)
    OBVIOUS
  <2>2. /\ Key(new, r) = Key(t.cols, rec) /\ new[i] = t.cols[i]
        /\ r.cells[i] = rec.cells[i] /\ r.temporary = rec.temporary
    BY <1>2, <1>3, <2>1
  <2>3. /\ CellRef(n, new, r, i) = CellRef(n, t.cols, rec, i)
        /\ TextAt(new, r, i) <=> TextAt(t.cols, rec, i)
    BY <2>2, SameCell
  <2>. QED  BY <2>1, <2>3
<1>5. \A rec \in recs, i \in 1..Len(new) : TextAt(new, R(rec), i) => i <= Len(t.cols)
  BY <1>2 DEF TextAt
<1>6. ASSUME NEW x \in RecordRefs(n, new, S)
      PROVE  x \in RecordRefs(n, t.cols, recs) /\ x.at[4] <= Len(new)
  <2>1. PICK rec \in recs, i \in 1..Len(new) : TextAt(new, R(rec), i) /\ x = CellRef(n, new, R(rec), i)
    BY <1>1, RecordRefsMember
  <2>2. i \in DOMAIN t.cols /\ i <= Len(new)
    BY <1>1, <1>5, <2>1
  <2>3. x = CellRef(n, t.cols, rec, i) /\ TextAt(t.cols, rec, i)
    BY <1>4, <1>5, <2>1
  <2>4. x.at[4] = i
    BY <2>3, CellRefFields
  <2>. QED  BY <2>2, <2>3, <2>4, RecordRefsMember
<1>7. ASSUME NEW x \in RecordRefs(n, t.cols, recs), x.at[4] <= Len(new)
      PROVE  x \in RecordRefs(n, new, S)
  <2>1. PICK rec \in recs, i \in DOMAIN t.cols : TextAt(t.cols, rec, i) /\ x = CellRef(n, t.cols, rec, i)
    BY RecordRefsMember
  <2>2. x.at[4] = i
    BY <2>1, CellRefFields
  <2>3. i \in 1..Len(new) /\ i <= Len(t.cols) /\ i \in DOMAIN new
    BY <1>1, <1>7, <2>2
  <2>4. TextAt(new, R(rec), i) /\ x = CellRef(n, new, R(rec), i) /\ R(rec) \in S
    BY <1>4, <2>1, <2>3
  <2>. QED  BY <2>3, <2>4, RecordRefsMember
<1> HIDE DEF S
<1>8. RecordRefs(n, new, S) = {x \in RecordRefs(n, t.cols, recs) : x.at[4] <= Len(new)}
  BY <1>6, <1>7
<1>. QED  BY <1>8 DEF S, R

\* Records have their references to themselves.
LEMMA DeletedRefs ==
    ASSUME NEW t, TableOK(t), NEW recs \in SUBSET t.records, NEW n
    PROVE  /\ RefsOf(n, Filled(t, t.records \ recs)) = RefsOf(n, t) \ RecordRefs(n, t.cols, recs)
           /\ RecordRefs(n, t.cols, recs) \subseteq RefsOf(n, t)
<1>1. \A p, q \in t.records : Key(t.cols, p) = Key(t.cols, q) => p = q
  BY DEF TableOK
<1>2. RefsOf(n, Filled(t, t.records \ recs)) = RecordRefs(n, t.cols, t.records \ recs)
  BY TabFields DEF RefsOf, Filled
<1>3. RefsOf(n, t) = RecordRefs(n, t.cols, t.records)
  BY DEF RefsOf
<1>4. RecordRefs(n, t.cols, recs) \subseteq RefsOf(n, t)
  BY <1>3, RecordRefsMember
<1>5. ASSUME NEW x \in RecordRefs(n, t.cols, t.records \ recs)
      PROVE  x \in RecordRefs(n, t.cols, t.records) /\ x \notin RecordRefs(n, t.cols, recs)
  <2>1. PICK p \in t.records \ recs, i \in DOMAIN t.cols :
            TextAt(t.cols, p, i) /\ x = CellRef(n, t.cols, p, i)
    BY RecordRefsMember
  <2>2. x \in RecordRefs(n, t.cols, t.records)
    BY <2>1, RecordRefsMember
  <2>3. x.at[3] = Key(t.cols, p)
    BY <2>1, CellRefFields
  <2>4. ASSUME x \in RecordRefs(n, t.cols, recs) PROVE FALSE
    <3>1. PICK q \in recs : x.at[3] = Key(t.cols, q)
      BY <2>4, RecordRefsPlace
    <3>. QED  BY <1>1, <2>1, <2>3, <3>1
  <2>. QED  BY <2>2, <2>4
<1>6. ASSUME NEW x \in RecordRefs(n, t.cols, t.records), x \notin RecordRefs(n, t.cols, recs)
      PROVE  x \in RecordRefs(n, t.cols, t.records \ recs)
  <2>1. PICK p \in t.records, i \in DOMAIN t.cols :
            TextAt(t.cols, p, i) /\ x = CellRef(n, t.cols, p, i)
    BY RecordRefsMember
  <2>2. p \notin recs
    BY <1>6, <2>1, RecordRefsMember
  <2>. QED  BY <2>1, <2>2, RecordRefsMember
<1>. QED  BY <1>2, <1>3, <1>4, <1>5, <1>6

\* A record with a new key adds its references to its table's.
LEMMA InsertedRefs ==
    ASSUME NEW t, NEW rec, \A r \in t.records : Key(t.cols, r) # Key(t.cols, rec), NEW n
    PROVE  /\ RefsOf(n, Filled(t, t.records \cup {rec})) = RefsOf(n, t) \cup RecordRefs(n, t.cols, {rec})
           /\ RefsOf(n, t) \cap RecordRefs(n, t.cols, {rec}) = {}
<1>1. RefsOf(n, Filled(t, t.records \cup {rec})) = RecordRefs(n, t.cols, t.records \cup {rec})
  BY TabFields DEF RefsOf, Filled
<1>2. RefsOf(n, t) = RecordRefs(n, t.cols, t.records)
  BY DEF RefsOf
<1>3. RecordRefs(n, t.cols, t.records \cup {rec})
        = RecordRefs(n, t.cols, t.records) \cup RecordRefs(n, t.cols, {rec})
  BY RecordRefsMember
<1>4. \A x \in RecordRefs(n, t.cols, {rec}) : x.at[3] = Key(t.cols, rec)
  BY RecordRefsPlace
<1>5. \A x \in RecordRefs(n, t.cols, t.records) : \E r \in t.records : x.at[3] = Key(t.cols, r)
  BY RecordRefsPlace
<1>6. RecordRefs(n, t.cols, t.records) \cap RecordRefs(n, t.cols, {rec}) = {}
  BY <1>4, <1>5
<1>. QED  BY <1>1, <1>2, <1>3, <1>6

\* The references from one column of the records.
ColumnOf(refs, i) == {x \in refs : x.at[4] = i}

\* What UPDATE checks of the column and the value before it changes a cell.
UpdateFits(t, recs, i, v) ==
    /\ TableOK(t) /\ recs \subseteq t.records /\ i \in DOMAIN t.cols /\ v \in Value
    /\ ~t.cols[i].key
    /\ t.cols[i].type = "string" => v # Object
    /\ v = Object => \A rec \in recs : CellPersistent(rec, t.cols[i])

\* The references that it releases and those that it interns.
OldRefs(n, t, recs, i) == ColumnOf(RecordRefs(n, t.cols, recs), i)
NewRefs(n, t, recs, i, v) == ColumnOf(RecordRefs(n, t.cols, {With(rec, i, v) : rec \in recs}), i)

\* An update takes the old cells' references and adds the new ones'.
LEMMA UpdatedRefs ==
    ASSUME NEW t, NEW recs, NEW i, NEW v, UpdateFits(t, recs, i, v), NEW n
    PROVE  /\ RefsOf(n, Filled(t, Updated(t, recs, i, v)))
                = (RefsOf(n, t) \ OldRefs(n, t, recs, i)) \cup NewRefs(n, t, recs, i, v)
           /\ OldRefs(n, t, recs, i) \subseteq RefsOf(n, t)
           /\ (RefsOf(n, t) \ OldRefs(n, t, recs, i)) \cap NewRefs(n, t, recs, i, v) = {}
           /\ t.cols[i].type = "binary" =>
                OldRefs(n, t, recs, i) = {} /\ NewRefs(n, t, recs, i, v) = {}
<1> DEFINE W(rec) == With(rec, i, v)
           S == {W(rec) : rec \in recs}
           C == t.cols
           out == OldRefs(n, t, recs, i)
           in == NewRefs(n, t, recs, i, v)
<1>0. /\ TableOK(t) /\ recs \subseteq t.records /\ i \in DOMAIN C /\ v \in Value
      /\ ~C[i].key /\ (C[i].type = "string" => v # Object)
      /\ v = Object => \A rec \in recs : CellPersistent(rec, C[i])
  BY DEF UpdateFits
<1>1. /\ C \in Columns /\ \A rec \in recs : rec \in Record /\ Fits(C, rec)
      /\ \A p, q \in t.records : Key(C, p) = Key(C, q) => p = q
  BY <1>0, TableFields DEF TableOK
<1>2. \A rec \in recs :
        /\ W(rec).temporary = rec.temporary /\ Key(C, W(rec)) = Key(C, rec)
        /\ \A j \in DOMAIN C : W(rec).cells[j] = IF j = i THEN v ELSE rec.cells[j]
  <2> SUFFICES ASSUME NEW rec \in recs
               PROVE  /\ W(rec).temporary = rec.temporary /\ Key(C, W(rec)) = Key(C, rec)
                      /\ \A j \in DOMAIN C : W(rec).cells[j] = IF j = i THEN v ELSE rec.cells[j]
    OBVIOUS
  <2>1. /\ C \in Columns /\ rec \in Record /\ Fits(C, rec)
        /\ v = Object => CellPersistent(rec, C[i])
    BY <1>0, <1>1
  <2>. QED  BY <1>0, <2>1, WithFits
<1> HIDE DEF W
<1>3. \A rec \in recs, j \in DOMAIN C : j # i =>
        /\ CellRef(n, C, W(rec), j) = CellRef(n, C, rec, j)
        /\ TextAt(C, W(rec), j) <=> TextAt(C, rec, j)
  BY <1>2, SameCell
<1>4. RefsOf(n, Filled(t, Updated(t, recs, i, v))) = RecordRefs(n, C, (t.records \ recs) \cup S)
  BY TabFields DEF RefsOf, Filled, Updated, W
<1>5. RefsOf(n, t) = RecordRefs(n, C, t.records)
  BY DEF RefsOf
<1>6. in = ColumnOf(RecordRefs(n, C, S), i) /\ out = ColumnOf(RecordRefs(n, C, recs), i)
  BY DEF W, NewRefs, OldRefs
<1> HIDE DEF out, in
<1>7. out \subseteq RefsOf(n, t)
  BY <1>0, <1>5, <1>6, RecordRefsMember DEF ColumnOf
<1>8. ASSUME NEW x \in RecordRefs(n, C, (t.records \ recs) \cup S)
      PROVE  x \in (RefsOf(n, t) \ out) \cup in
  <2>1. PICK r \in (t.records \ recs) \cup S, j \in DOMAIN C : TextAt(C, r, j) /\ x = CellRef(n, C, r, j)
    BY RecordRefsMember
  <2>2. x.at[4] = j /\ x.at[3] = Key(C, r)
    BY <2>1, CellRefFields
  <2>3. CASE r \in S
    <3>1. PICK rec \in recs : r = W(rec)
      BY <2>3
    <3>2. CASE j = i
      <4>1. x \in RecordRefs(n, C, S)
        BY <2>1, <2>3, RecordRefsMember
      <4>. QED  BY <1>6, <2>2, <3>2, <4>1 DEF ColumnOf
    <3>3. CASE j # i
      <4>1. x = CellRef(n, C, rec, j) /\ TextAt(C, rec, j) /\ rec \in t.records
        BY <1>0, <1>3, <2>1, <3>1, <3>3
      <4>2. x \in RefsOf(n, t) /\ x \notin out
        BY <1>5, <1>6, <2>2, <3>3, <4>1, RecordRefsMember DEF ColumnOf
      <4>. QED  BY <4>2
    <3>. QED  BY <3>2, <3>3
  <2>4. CASE r \in t.records \ recs
    <3>1. x \in RefsOf(n, t)
      BY <1>5, <2>1, <2>4, RecordRefsMember
    <3>2. ASSUME x \in out PROVE FALSE
      <4>1. x \in RecordRefs(n, C, recs)
        BY <1>6, <3>2 DEF ColumnOf
      <4>2. PICK q \in recs : x.at[3] = Key(C, q)
        BY <4>1, RecordRefsPlace
      <4>. QED  BY <1>0, <1>1, <2>2, <2>4, <4>2
    <3>. QED  BY <3>1, <3>2
  <2>. QED  BY <2>1, <2>3, <2>4
<1>9. ASSUME NEW x \in RefsOf(n, t), x \notin out
      PROVE  x \in RecordRefs(n, C, (t.records \ recs) \cup S)
  <2>1. PICK r \in t.records, j \in DOMAIN C : TextAt(C, r, j) /\ x = CellRef(n, C, r, j)
    BY <1>5, RecordRefsMember
  <2>2. CASE r \in recs
    <3>1. j # i
      <4>1. x \in RecordRefs(n, C, recs)
        BY <2>1, <2>2, RecordRefsMember
      <4>2. x.at[4] = j
        BY <2>1, CellRefFields
      <4>. QED  BY <1>6, <1>9, <4>1, <4>2 DEF ColumnOf
    <3>2. x = CellRef(n, C, W(r), j) /\ TextAt(C, W(r), j) /\ W(r) \in S
      BY <1>3, <2>1, <2>2, <3>1
    <3>. QED  BY <3>2, RecordRefsMember
  <2>3. CASE r \notin recs
    <3>1. r \in (t.records \ recs) \cup S
      BY <2>1, <2>3
    <3>. QED  BY <2>1, <3>1, RecordRefsMember
  <2>. QED  BY <2>2, <2>3
<1>10. ASSUME NEW x \in in PROVE x \in RecordRefs(n, C, (t.records \ recs) \cup S)
  <2>1. x \in RecordRefs(n, C, S)
    BY <1>6 DEF ColumnOf
  <2>2. PICK r \in S, j \in DOMAIN C : TextAt(C, r, j) /\ x = CellRef(n, C, r, j)
    BY <2>1, RecordRefsMember
  <2>3. r \in (t.records \ recs) \cup S
    BY <2>2
  <2>. QED  BY <2>2, <2>3, RecordRefsMember
<1>11. ASSUME NEW x \in in, x \in RefsOf(n, t), x \notin out PROVE FALSE
  <2>1. x \in RecordRefs(n, C, S) /\ x.at[4] = i
    BY <1>6 DEF ColumnOf
  <2>2. PICK rec \in recs : x.at[3] = Key(C, W(rec))
    BY <2>1, RecordRefsPlace
  <2>3. PICK r \in t.records, j \in DOMAIN C : TextAt(C, r, j) /\ x = CellRef(n, C, r, j)
    BY <1>5, <1>11, RecordRefsMember
  <2>4. x.at[3] = Key(C, r)
    BY <2>3, CellRefFields
  <2>5. r = rec
    BY <1>0, <1>1, <1>2, <2>2, <2>4
  <2>6. x \in RecordRefs(n, C, recs)
    BY <2>3, <2>5, RecordRefsMember
  <2>. QED  BY <1>6, <1>11, <2>1, <2>6 DEF ColumnOf
<1>12. C[i].type = "binary" => out = {} /\ in = {}
  <2>1. \A rs, x : C[i].type = "binary" => x \notin ColumnOf(RecordRefs(n, C, rs), i)
    BY RecordRefsMember, CellRefFields DEF ColumnOf, TextAt
  <2>. QED  BY <1>0, <1>6, <2>1
<1> HIDE DEF S
<1>13. RefsOf(n, Filled(t, Updated(t, recs, i, v))) = (RefsOf(n, t) \ out) \cup in
  BY <1>4, <1>8, <1>9, <1>10
<1>. QED  BY <1>7, <1>11, <1>12, <1>13 DEF in, out

-----------------------------------------------------------------------------
(***************************************************************************)
(* What a change of one kind of place does to the counts.                  *)
(***************************************************************************)

\* The pool counts what is referred to once cells have changed.
LEMMA CellsChange ==
    ASSUME NEW p, NEW ts, NEW us, NEW recs, NEW names, Matches(p, AllRefs(ts, recs, names)),
           NEW out \in SUBSET CellRefs(ts), NEW in, IsFiniteSet(in), (CellRefs(ts) \ out) \cap in = {},
           \A x \in in : x.at[1] = "cell",
           CellRefs(us) = (CellRefs(ts) \ out) \cup in, NameRefs(us) = NameRefs(ts)
    PROVE  /\ Matches(Release(Intern(p, in), out), AllRefs(us, recs, names))
           /\ in = {} => Matches(Release(p, out), AllRefs(us, recs, names))
           /\ out = {} => Matches(Intern(p, in), AllRefs(us, recs, names))
<1>1. PICK A : A = AllRefs(ts, recs, names)
  OBVIOUS
<1>2. \A x \in ColumnRefs(recs) \cup StreamRefs(names) \cup NameRefs(ts) : x.at[1] # "cell"
  BY Kinds
<1>3. \A x \in CellRefs(ts) : x.at[1] = "cell"
  BY Kinds
<1>4. A = (ColumnRefs(recs) \cup StreamRefs(names) \cup NameRefs(ts)) \cup CellRefs(ts)
  BY <1>1 DEF AllRefs
<1>5. AllRefs(us, recs, names) = (ColumnRefs(recs) \cup StreamRefs(names) \cup NameRefs(ts)) \cup CellRefs(us)
  BY DEF AllRefs
<1>6. AllRefs(us, recs, names) = (A \ out) \cup in /\ out \subseteq A /\ (A \ out) \cap in = {}
  BY <1>2, <1>3, <1>4, <1>5
<1>7. Matches(Release(Intern(p, in), out), AllRefs(us, recs, names))
  BY <1>1, <1>6, ExchangeMatches
<1>8. in = {} => Matches(Release(p, out), AllRefs(us, recs, names))
  <2>1. in = {} => AllRefs(us, recs, names) = A \ out
    BY <1>6
  <2>. QED  BY <1>1, <1>6, <2>1, ReleaseMatches
<1>9. out = {} => Matches(Intern(p, in), AllRefs(us, recs, names))
  <2>1. out = {} => AllRefs(us, recs, names) = A \cup in /\ A \cap in = {}
    BY <1>6
  <2>. QED  BY <1>1, <2>1, InternMatches
<1>. QED  BY <1>7, <1>8, <1>9

\* What such a reference looks like does not depend on the others.
IsStreamRef(x) == x = Reference(<<"stream", x.at[2]>>, x.at[2], FALSE)

\* What is a reference of a stream's name.
LEMMA StreamRefsMember ==
    ASSUME NEW names, NEW x
    PROVE  x \in StreamRefs(names) <=> IsStreamRef(x) /\ x.at[2] \in names
<1>1. ASSUME x \in StreamRefs(names) PROVE IsStreamRef(x) /\ x.at[2] \in names
  <2>1. PICK s \in names : x = Reference(<<"stream", s>>, s, FALSE)
    BY <1>1 DEF StreamRefs
  <2>2. x.at[2] = s
    BY <1>1, <2>1, OtherPlaces DEF Reference
  <2>. QED  BY <2>1, <2>2 DEF IsStreamRef
<1>2. ASSUME IsStreamRef(x), x.at[2] \in names PROVE x \in StreamRefs(names)
  BY <1>2 DEF IsStreamRef, StreamRefs
<1>. QED  BY <1>1, <1>2

\* The pool counts the names of streams that are added.
LEMMA StreamsCome ==
    ASSUME NEW p, NEW ts, NEW recs, NEW old, NEW names, Matches(p, AllRefs(ts, recs, old)),
           IsFiniteSet(names)
    PROVE  Matches(Intern(p, StreamRefs(names \ old)), AllRefs(ts, recs, old \cup names))
<1>1. PICK A, S : A = AllRefs(ts, recs, old) /\ S = StreamRefs(names \ old)
  OBVIOUS
<1>2. \A x \in S : x.at[1] = "stream" /\ x.at[2] \notin old
  BY <1>1, OtherPlaces
<1>3. \A x \in A : x.at[1] = "stream" => x.at[2] \in old
  BY <1>1, Kinds DEF AllRefs
<1>4. StreamRefs(old \cup names) = StreamRefs(old) \cup S
  BY <1>1, StreamRefsMember
<1>5. AllRefs(ts, recs, old \cup names) = A \cup S
  BY <1>1, <1>4 DEF AllRefs
<1>6. IsFiniteSet(S)
  <2>1. IsFiniteSet(names \ old)
    BY FS_Subset
  <2>. QED  BY <1>1, <2>1, FiniteRefs
<1>7. A \cap S = {}
  BY <1>2, <1>3
<1>. QED  BY <1>1, <1>5, <1>6, <1>7, InternMatches

\* The pool counts the names of the streams that stay.
LEMMA StreamsGo ==
    ASSUME NEW p, NEW ts, NEW recs, NEW old, NEW names, Matches(p, AllRefs(ts, recs, old))
    PROVE  Matches(Release(p, StreamRefs(names \cap old)), AllRefs(ts, recs, old \ names))
<1>1. PICK A, S : A = AllRefs(ts, recs, old) /\ S = StreamRefs(names \cap old)
  OBVIOUS
<1>2. S \subseteq StreamRefs(old)
  BY <1>1, StreamRefsMember
<1>3. StreamRefs(old \ names) = StreamRefs(old) \ S
  BY <1>1, StreamRefsMember
<1>4. \A x \in ColumnRefs(recs) \cup NameRefs(ts) \cup CellRefs(ts) : x.at[1] # "stream"
  BY Kinds
<1>5. \A x \in S : x.at[1] = "stream"
  BY <1>1, OtherPlaces
<1>6. AllRefs(ts, recs, old \ names) = A \ S /\ S \subseteq A
  BY <1>1, <1>2, <1>3, <1>4, <1>5 DEF AllRefs
<1>. QED  BY <1>1, <1>6, ReleaseMatches

IsColumnRef(x) ==
    LET r == x.at[2] IN
    \/ x = Reference(<<"column", r, "table">>, r.table, ~r.column.temporary)
    \/ x = Reference(<<"column", r, "name">>, r.column.name, ~r.column.temporary)

\* What is a reference of a record of _Columns.
LEMMA ColumnRefsMember ==
    ASSUME NEW recs, NEW x
    PROVE  x \in ColumnRefs(recs) <=> IsColumnRef(x) /\ x.at[2] \in recs
<1>1. ASSUME x \in ColumnRefs(recs) PROVE IsColumnRef(x) /\ x.at[2] \in recs
  <2>1. PICK r \in recs :
            \/ x = Reference(<<"column", r, "table">>, r.table, ~r.column.temporary)
            \/ x = Reference(<<"column", r, "name">>, r.column.name, ~r.column.temporary)
    BY <1>1 DEF ColumnRefs
  <2>2. x.at[2] = r
    <3>1. PICK b : b = ~r.column.temporary
      OBVIOUS
    <3>2. \/ x = Reference(<<"column", r, "table">>, r.table, b)
          \/ x = Reference(<<"column", r, "name">>, r.column.name, b)
      BY <2>1, <3>1
    <3>. QED  BY <3>2 DEF Reference
  <2>. QED  BY <2>1, <2>2 DEF IsColumnRef
<1>2. ASSUME IsColumnRef(x), x.at[2] \in recs PROVE x \in ColumnRefs(recs)
  BY <1>2 DEF IsColumnRef, ColumnRefs
<1>. QED  BY <1>1, <1>2

\* References of _Columns come and go with its records.
LEMMA ColumnRefsChange ==
    ASSUME NEW recs, NEW others
    PROVE  /\ ColumnRefs(recs \cup others) = ColumnRefs(recs) \cup ColumnRefs(others)
           /\ recs \cap others = {} => ColumnRefs(recs) \cap ColumnRefs(others) = {}
           /\ others \subseteq recs =>
                /\ ColumnRefs(recs \ others) = ColumnRefs(recs) \ ColumnRefs(others)
                /\ ColumnRefs(others) \subseteq ColumnRefs(recs)
BY ColumnRefsMember

\* A table has finitely many records in _Columns.
LEMMA ColumnRecordsFinite ==
    ASSUME NEW name, NEW cols, Len(cols) \in Nat, NEW k \in Nat
    PROVE  IsFiniteSet(ColumnRecords(name, k, cols))
<1> DEFINE I == (k + 1)..Len(cols)
           f == [i \in I |-> [table |-> name, number |-> i, column |-> cols[i]]]
<1>1. IsFiniteSet(I)
  <2>1. k + 1 \in Int /\ Len(cols) \in Int
    OBVIOUS
  <2>. QED  BY <2>1, FS_Interval
<1>2. ColumnRecords(name, k, cols) = {f[i] : i \in I} /\ DOMAIN f = I
  BY DEF ColumnRecords
<1> HIDE DEF f, I
<1>. QED  BY <1>1, <1>2, ImageFinite

\* A table's name is referred to alike while it stays persistent or not.
LEMMA SameTableRefs ==
    ASSUME NEW n, NEW cols, NEW new, Persistent(new) <=> Persistent(cols)
    PROVE  TableRefs(n, new) = TableRefs(n, cols)
<1>1. Persistent(new) = Persistent(cols)
  BY DEF Persistent
<1>. QED  BY <1>1 DEF TableRefs

-----------------------------------------------------------------------------
(***************************************************************************)
(* What a statement does to the counts.                                    *)
(***************************************************************************)

\* One table changes and keeps its references.
LEMMA RefsKept ==
    ASSUME TablesInv, NEW name, NEW t, Becomes(name, t),
           Persistent(t.cols) <=> Persistent(tables[name].cols),
           RefsOf(name, t) = RefsOf(name, tables[name])
    PROVE  CellRefs(tables') = CellRefs(tables) /\ NameRefs(tables') = NameRefs(tables)
<1>1. /\ DOMAIN tables' = DOMAIN tables /\ tables'[name] = t /\ name \in DOMAIN tables
      /\ \A n \in DOMAIN tables \ {name} : tables'[n] = tables[n]
  BY BecomesFacts DEF Becomes
<1>2. TableRefs(name, tables'[name].cols) = TableRefs(name, tables[name].cols)
  BY <1>1, SameTableRefs
<1>3. /\ CellRefs(tables') = (CellRefs(tables) \ RefsOf(name, tables[name])) \cup RefsOf(name, tables'[name])
      /\ NameRefs(tables') = NameRefs(tables)
      /\ RefsOf(name, tables[name]) \subseteq CellRefs(tables)
  <2>1. PICK us : us = tables'
    OBVIOUS
  <2>. QED  BY <1>1, <1>2, <2>1, RefsWith
<1>. QED  BY <1>1, <1>3

\* A change of a table's holds changes no reference.
LEMMA HoldsCounts ==
    ASSUME TablesInv, CountInv, NEW name, NEW h, NEW t, t = tables[name],
           Becomes(name, Tab(t.cols, h, t.records)), UNCHANGED <<columnRecs, sources, pool>>
    PROVE  CountInv'
<1>1. PICK u : u = Tab(t.cols, h, t.records)
  OBVIOUS
<1>2. u.cols = t.cols /\ RefsOf(name, u) = RefsOf(name, t)
  BY <1>1, TabFields DEF RefsOf
<1>3. CellRefs(tables') = CellRefs(tables) /\ NameRefs(tables') = NameRefs(tables)
  BY <1>1, <1>2, RefsKept
<1>. QED  BY <1>3 DEF CountInv, AllRefs

\* CREATE TABLE counts the names it records.
LEMMA CreateTableCounts ==
    ASSUME ShapeInv, CountInv, NEW name \in TableNames, NEW cols \in Schemas,
           NEW hold \in BOOLEAN, CreateTable(name, cols, hold)
    PROVE  CountInv'
<1>1. PICK kept : kept = IF hold THEN cols ELSE PersistentColumns(cols)
  OBVIOUS
<1>2. PICK t : t = Tab(kept, IF hold THEN 1 ELSE 0, {})
  OBVIOUS
<1>3. /\ name \notin DOMAIN tables /\ DOMAIN tables' = DOMAIN tables \cup {name}
      /\ tables'[name] = t /\ kept \in Columns /\ (Persistent(kept) <=> Persistent(cols))
      /\ \A n \in DOMAIN tables : tables'[n] = tables[n]
  BY <1>1, <1>2, CreateTableTables DEF ShapeInv
<1>4. t.cols = kept /\ t.records = {} /\ Len(kept) \in Nat /\ kept \in Seq(Column)
  BY <1>2, <1>3, TabFields, ColumnsFacts DEF Columns
<1>5. PICK new : new = ColumnRecords(name, 0, kept)
  OBVIOUS
<1>6. PICK in : in = TableRefs(name, cols) \cup ColumnRefs(new)
  OBVIOUS
<1>7. columnRecs' = columnRecs \cup new /\ pool' = Intern(pool, in) /\ sources' = sources
  BY <1>1, <1>5, <1>6 DEF CreateTable
<1>8. new \cap columnRecs = {}
  <2>1. \A r \in new : r.table = name
    BY <1>5 DEF ColumnRecords
  <2>2. Catalogued(tables, columnRecs)
    BY CatalogIs DEF ShapeInv
  <2>3. \A r \in columnRecs : r.table \in DOMAIN tables
    BY <2>2 DEF Catalogued, Described
  <2>. QED  BY <1>3, <2>1, <2>3
<1>9. RefsOf(name, t) = {}
  BY <1>4, RecordRefsMember DEF RefsOf
<1>10. /\ CellRefs(tables') = CellRefs(tables)
       /\ NameRefs(tables') = NameRefs(tables) \cup TableRefs(name, cols)
  <2>1. TableRefs(name, kept) = TableRefs(name, cols)
    BY <1>3, SameTableRefs
  <2>2. /\ CellRefs(tables') = CellRefs(tables) \cup RefsOf(name, tables'[name])
        /\ NameRefs(tables') = NameRefs(tables) \cup TableRefs(name, tables'[name].cols)
    <3>1. PICK us : us = tables'
      OBVIOUS
    <3>2. /\ name \notin DOMAIN tables /\ DOMAIN us = DOMAIN tables \cup {name}
          /\ \A n \in DOMAIN tables : us[n] = tables[n]
      BY <1>3, <3>1
    <3>. QED  BY <3>1, <3>2, RefsCreated
  <2>. QED  BY <1>3, <1>4, <1>9, <2>1, <2>2
<1>11. PICK A : A = AllRefs(tables, columnRecs, DOMAIN sources)
  OBVIOUS
<1>12. AllRefs(tables', columnRecs', DOMAIN sources') = A \cup in
  BY <1>6, <1>7, <1>10, <1>11, ColumnRefsChange DEF AllRefs
<1>13. A \cap in = {}
  <2>1. \A x \in A : /\ x.at[1] = "table" => x.at[2] \in DOMAIN tables
                     /\ x.at[1] = "column" => x.at[2] \in columnRecs
    BY <1>11, Kinds DEF AllRefs
  <2>2. \A x \in in : \/ x.at[1] = "table" /\ x.at[2] = name
                      \/ x.at[1] = "column" /\ x.at[2] \in new
    BY <1>6, OtherPlaces
  <2>. QED  BY <1>3, <1>8, <2>1, <2>2
<1>14. IsFiniteSet(in)
  <2>1. IsFiniteSet(new)
    BY <1>4, <1>5, ColumnRecordsFinite
  <2>. QED  BY <1>6, <2>1, FiniteRefs, FS_Union
<1>15. Matches(pool', A \cup in)
  BY <1>7, <1>11, <1>13, <1>14, InternMatches DEF CountInv
<1>. QED  BY <1>12, <1>15 DEF CountInv

\* ALTER TABLE ADD counts what it records, and its columns' cells stay as they are.
LEMMA AddColumnCounts ==
    ASSUME ShapeInv, CountInv, NEW name \in DOMAIN tables, NEW c \in Additions,
           NEW hold \in BOOLEAN, AddColumn(name, c, hold)
    PROVE  CountInv'
<1>1. PICK t : t = tables[name] /\ TableOK(t) /\ t.cols \in Columns
  BY TableFields DEF ShapeInv, TablesInv
<1>2. PICK new : new = Append(t.cols, c)
  OBVIOUS
<1>3. PICK h \in 0..MaxHolds :
        /\ Becomes(name, Reshaped(t, new, h))
        /\ new \in Columns /\ Reshapes(t.cols, new) /\ Len(new) = Len(t.cols) + 1
  BY <1>1, <1>2, AddColumnTables DEF ShapeInv
<1>4. PICK k \in Nat : k = Len(t.cols) /\ k >= 1 /\ DOMAIN t.cols = 1..k
  BY <1>1, ColumnsFacts
<1>5. PICK added : added = ColumnRecords(name, k, new)
  OBVIOUS
<1>6. columnRecs' = columnRecs \cup added /\ pool' = Intern(pool, ColumnRefs(added)) /\ sources' = sources
  <2>1. Len(t.cols) + 1 - 1 = k
    BY <1>4
  <2>2. /\ columnRecs' = columnRecs \cup ColumnRecords(name, Len(t.cols) + 1 - 1, new)
        /\ pool' = Intern(pool, ColumnRefs(ColumnRecords(name, Len(t.cols) + 1 - 1, new)))
        /\ sources' = sources
    BY <1>1, <1>2 DEF AddColumn
  <2>. QED  BY <1>5, <2>1, <2>2
<1>7. PICK u : u = Reshaped(t, new, h)
  OBVIOUS
<1>8. u.cols = new /\ RefsOf(name, u) = {x \in RefsOf(name, t) : x.at[4] <= Len(new)}
  BY <1>1, <1>3, <1>7, TabFields, ResizedRefs DEF RefsOf, Reshaped
<1>9. RefsOf(name, u) = RefsOf(name, t)
  <2>1. \A x \in RefsOf(name, t) : x.at[4] \in 1..k
    BY <1>4, RecordRefsPlace DEF RefsOf
  <2>2. \A i \in 1..k : i <= Len(new)
    BY <1>3, <1>4
  <2>. QED  BY <1>8, <2>1, <2>2
<1>10. Persistent(new) <=> Persistent(t.cols)
  <2>1. new[1] = t.cols[1]
    BY <1>3, <1>4 DEF Reshapes
  <2>. QED  BY <2>1 DEF Persistent
<1>11. CellRefs(tables') = CellRefs(tables) /\ NameRefs(tables') = NameRefs(tables)
  BY <1>1, <1>3, <1>7, <1>8, <1>9, <1>10, RefsKept DEF ShapeInv
<1>12. PICK A : A = AllRefs(tables, columnRecs, DOMAIN sources)
  OBVIOUS
<1>13. AllRefs(tables', columnRecs', DOMAIN sources') = A \cup ColumnRefs(added)
  BY <1>6, <1>11, <1>12, ColumnRefsChange DEF AllRefs
<1>14. added \cap columnRecs = {}
  <2>1. \A r \in added : r.table = name /\ r.number > k
    <3>1. \A r \in added : Described(name, new, r) /\ r.number > k
      BY <1>3, <1>5, ColumnRecordsMember DEF Columns
    <3>. QED  BY <3>1 DEF Described
  <2>2. Catalogued(tables, columnRecs)
    BY CatalogIs DEF ShapeInv
  <2>3. \A r \in columnRecs : r.table = name => r.number \in 1..k
    BY <1>1, <1>4, <2>2 DEF Catalogued, Described
  <2>4. ASSUME NEW r \in added, r \in columnRecs PROVE FALSE
    BY <2>1, <2>3, <2>4
  <2>. QED  BY <2>4
<1>15. A \cap ColumnRefs(added) = {}
  <2>1. \A x \in A : x.at[1] = "column" => x.at[2] \in columnRecs
    BY <1>12, Kinds DEF AllRefs
  <2>2. \A x \in ColumnRefs(added) : x.at[1] = "column" /\ x.at[2] \in added
    BY OtherPlaces
  <2>. QED  BY <1>14, <2>1, <2>2
<1>16. IsFiniteSet(ColumnRefs(added))
  <2>1. Len(new) \in Nat
    BY <1>3, <1>4
  <2>. QED  BY <1>4, <1>5, <2>1, ColumnRecordsFinite, FiniteRefs
<1>17. Matches(pool', A \cup ColumnRefs(added))
  BY <1>6, <1>12, <1>15, <1>16, InternMatches DEF CountInv
<1>. QED  BY <1>13, <1>17 DEF CountInv

\* A statement that drops streams has released what else it releases before.
LEMMA DropStreamsCounts ==
    ASSUME NEW p, NEW names, DropStreams(names, p),
           Matches(p, AllRefs(tables', columnRecs', DOMAIN sources))
    PROVE  CountInv'
<1>1. PICK ts, recs : ts = tables' /\ recs = columnRecs'
  OBVIOUS
<1>2. /\ pool' = Release(p, StreamRefs(names \cap DOMAIN sources))
      /\ DOMAIN sources' = DOMAIN sources \ names
  BY DEF DropStreams
<1>3. Matches(pool', AllRefs(ts, recs, DOMAIN sources \ names))
  BY <1>1, <1>2, StreamsGo
<1>. QED  BY <1>1, <1>2, <1>3 DEF CountInv

\* Adding streams counts their names once.
LEMMA AddStreamsCounts ==
    ASSUME NEW p, NEW names, IsFiniteSet(names), NEW owned, NEW h, NEW data,
           AddStreams(names, owned, h, data, p),
           Matches(p, AllRefs(tables', columnRecs', DOMAIN sources))
    PROVE  CountInv'
<1>1. PICK ts, recs : ts = tables' /\ recs = columnRecs'
  OBVIOUS
<1>2. /\ pool' = Intern(p, StreamRefs(names \ DOMAIN sources))
      /\ DOMAIN sources' = DOMAIN sources \cup names
  BY DEF AddStreams
<1>3. Matches(pool', AllRefs(ts, recs, DOMAIN sources \cup names))
  BY <1>1, <1>2, StreamsCome
<1>. QED  BY <1>1, <1>2, <1>3 DEF CountInv

\* DROP TABLE releases every reference of the table and of its streams.
LEMMA DropTableCounts ==
    ASSUME ShapeInv, CountInv, NEW name \in DOMAIN tables, DropTable(name)
    PROVE  CountInv'
<1>1. PICK t : t = tables[name]
  OBVIOUS
<1>2. PICK described : described = {r \in columnRecs : r.table = name}
  OBVIOUS
<1>3. PICK out : out = RecordRefs(name, t.cols, t.records) \cup ColumnRefs(described) \cup TableRefs(name, t.cols)
  OBVIOUS
<1>4. columnRecs' = columnRecs \ described /\ \E names : DropStreams(names, Release(pool, out))
  BY <1>1, <1>2, <1>3 DEF DropTable
<1>5. /\ DOMAIN tables' = DOMAIN tables \ {name}
      /\ \A n \in DOMAIN tables \ {name} : tables'[n] = tables[n]
  BY DropTables, WithoutFacts DEF ShapeInv
<1>6. /\ CellRefs(tables') = CellRefs(tables) \ RefsOf(name, t)
      /\ NameRefs(tables') = NameRefs(tables) \ TableRefs(name, t.cols)
      /\ RefsOf(name, t) \subseteq CellRefs(tables)
      /\ TableRefs(name, t.cols) \subseteq NameRefs(tables)
  <2>1. PICK us : us = tables'
    OBVIOUS
  <2>2. DOMAIN us = DOMAIN tables \ {name} /\ \A n \in DOMAIN tables \ {name} : us[n] = tables[n]
    BY <1>5, <2>1
  <2>. QED  BY <1>1, <2>1, <2>2, RefsWithout, SMTT(30)
<1>7. /\ ColumnRefs(columnRecs') = ColumnRefs(columnRecs) \ ColumnRefs(described)
      /\ ColumnRefs(described) \subseteq ColumnRefs(columnRecs)
  BY <1>2, <1>4, ColumnRefsChange
<1>8. PICK A : A = AllRefs(tables, columnRecs, DOMAIN sources)
  OBVIOUS
<1>9. out = RefsOf(name, t) \cup ColumnRefs(described) \cup TableRefs(name, t.cols)
  BY <1>3 DEF RefsOf
<1>10. \A x \in ColumnRefs(columnRecs) \cup StreamRefs(DOMAIN sources) \cup NameRefs(tables) :
            x \notin RefsOf(name, t)
  BY Kinds, RefsOfPlace
<1>11. \A x \in CellRefs(tables) \cup StreamRefs(DOMAIN sources) \cup NameRefs(tables) :
            x \notin ColumnRefs(described)
  BY Kinds, OtherPlaces
<1>12. \A x \in CellRefs(tables) \cup StreamRefs(DOMAIN sources) \cup ColumnRefs(columnRecs) :
            x \notin TableRefs(name, t.cols)
  BY Kinds, OtherPlaces
<1>13. AllRefs(tables', columnRecs', DOMAIN sources) = A \ out /\ out \subseteq A
  BY <1>6, <1>7, <1>8, <1>9, <1>10, <1>11, <1>12 DEF AllRefs
<1>14. Matches(Release(pool, out), A \ out)
  BY <1>8, <1>13, ReleaseMatches DEF CountInv
<1>. QED  BY <1>4, <1>13, <1>14, DropStreamsCounts

\* So does the drop of a temporary table when nothing holds it.
LEMMA DropTemporaryCounts ==
    ASSUME ShapeInv, CountInv, NEW name \in DOMAIN tables,
           Persistent(tables[name].cols), DropTemporaryColumns(name)
    PROVE  CountInv'
<1>1. PICK t : t = tables[name] /\ TableOK(t) /\ t.cols \in Columns
  BY TableFields DEF ShapeInv, TablesInv
<1>2. PICK new : new = PersistentColumns(t.cols)
  OBVIOUS
<1>3. /\ Becomes(name, Reshaped(t, new, 0)) /\ new \in Columns /\ Reshapes(t.cols, new)
      /\ Len(new) = Width(t.cols) /\ \A i \in 1..Width(t.cols) : new[i] = t.cols[i]
  BY <1>1, <1>2, DropTemporaryTables DEF ShapeInv
<1>4. PICK k \in Nat : k = Width(t.cols) /\ k >= 1 /\ k <= Len(t.cols)
  <2>1. Len(t.cols) \in Nat /\ Width(t.cols) \in 0..Len(t.cols) /\ Width(t.cols) > 0
    BY <1>1, ColumnsFacts, PersistentPrefix
  <2>. QED  BY <2>1
<1>5. PICK described : described = {r \in columnRecs : r.table = name /\ r.number > k}
  OBVIOUS
<1>6. PICK lost : lost = {x \in RefsOf(name, t) : x.at[4] > k}
  OBVIOUS
<1>7. /\ columnRecs' = columnRecs \ described /\ sources' = sources
      /\ pool' = Release(pool, ColumnRefs(described) \cup lost)
  BY <1>1, <1>2, <1>3, <1>4, <1>5, <1>6 DEF DropTemporaryColumns, RefsOf
<1>8. PICK u : u = Reshaped(t, new, 0)
  OBVIOUS
<1>9. u.cols = new /\ RefsOf(name, u) = {x \in RefsOf(name, t) : x.at[4] <= k}
  BY <1>1, <1>3, <1>4, <1>8, TabFields, ResizedRefs, SMTT(30) DEF RefsOf, Reshaped
<1>10. RefsOf(name, u) = RefsOf(name, t) \ lost
  <2>1. \A x \in RefsOf(name, t) : x.at[4] \in 1..Len(t.cols)
    BY <1>1, ColumnsFacts, RecordRefsPlace DEF RefsOf
  <2>2. \A i \in 1..Len(t.cols) : i <= k <=> ~(i > k)
    BY <1>1, <1>4, ColumnsFacts
  <2>. QED  BY <1>6, <1>9, <2>1, <2>2
<1>11. Persistent(new) <=> Persistent(t.cols)
  <2>1. new[1] = t.cols[1]
    BY <1>3, <1>4
  <2>. QED  BY <2>1 DEF Persistent
<1>12. /\ CellRefs(tables') = CellRefs(tables) \ lost /\ lost \subseteq CellRefs(tables)
       /\ NameRefs(tables') = NameRefs(tables)
  <2>1. /\ DOMAIN tables' = DOMAIN tables /\ tables'[name] = u
        /\ \A n \in DOMAIN tables \ {name} : tables'[n] = tables[n]
    BY <1>3, <1>8, BecomesFacts DEF ShapeInv
  <2>2. TableRefs(name, tables'[name].cols) = TableRefs(name, tables[name].cols)
    BY <1>1, <1>9, <1>11, <2>1, SameTableRefs
  <2>3. /\ CellRefs(tables') = (CellRefs(tables) \ RefsOf(name, t)) \cup RefsOf(name, tables'[name])
        /\ NameRefs(tables') = NameRefs(tables)
        /\ RefsOf(name, t) \subseteq CellRefs(tables)
    <3>1. PICK us : us = tables'
      OBVIOUS
    <3>. QED  BY <1>1, <2>1, <2>2, <3>1, RefsWith
  <2>. QED  BY <1>6, <1>10, <2>1, <2>3
<1>13. /\ ColumnRefs(columnRecs') = ColumnRefs(columnRecs) \ ColumnRefs(described)
       /\ ColumnRefs(described) \subseteq ColumnRefs(columnRecs)
  BY <1>5, <1>7, ColumnRefsChange
<1>14. PICK A : A = AllRefs(tables, columnRecs, DOMAIN sources)
  OBVIOUS
<1>15. \A x \in ColumnRefs(columnRecs) \cup StreamRefs(DOMAIN sources) \cup NameRefs(tables) :
            x \notin CellRefs(tables)
  BY Kinds
<1>16. \A x \in CellRefs(tables) \cup StreamRefs(DOMAIN sources) \cup NameRefs(tables) :
            x \notin ColumnRefs(described)
  BY Kinds, OtherPlaces
<1>17. /\ AllRefs(tables', columnRecs', DOMAIN sources') = A \ (ColumnRefs(described) \cup lost)
       /\ ColumnRefs(described) \cup lost \subseteq A
  BY <1>7, <1>12, <1>13, <1>14, <1>15, <1>16 DEF AllRefs
<1>18. Matches(pool', A \ (ColumnRefs(described) \cup lost))
  BY <1>7, <1>14, <1>17, ReleaseMatches DEF CountInv
<1>. QED  BY <1>17, <1>18 DEF CountInv

\* A statement that gives a table other records.
LEMMA FilledRefs ==
    ASSUME TablesInv, NEW name, NEW t, t = tables[name], NEW recs, Becomes(name, Filled(t, recs)),
           NEW out, NEW in, out \subseteq RefsOf(name, t), IsFiniteSet(in),
           (RefsOf(name, t) \ out) \cap in = {}, \A x \in in : x.at[1] = "cell" /\ x.at[2] = name,
           RefsOf(name, Filled(t, recs)) = (RefsOf(name, t) \ out) \cup in,
           NEW p, NEW crecs, NEW names, Matches(p, AllRefs(tables, crecs, names))
    PROVE  /\ Matches(Release(Intern(p, in), out), AllRefs(tables', crecs, names))
           /\ in = {} => Matches(Release(p, out), AllRefs(tables', crecs, names))
           /\ out = {} => Matches(Intern(p, in), AllRefs(tables', crecs, names))
           /\ in = {} /\ out = {} => Matches(p, AllRefs(tables', crecs, names))
<1>1. PICK us : us = tables'
  OBVIOUS
<1>2. /\ DOMAIN us = DOMAIN tables /\ us[name] = Filled(t, recs) /\ name \in DOMAIN tables
      /\ \A n \in DOMAIN tables \ {name} : us[n] = tables[n]
  BY <1>1, BecomesFacts DEF Becomes
<1>3. us[name].cols = t.cols
  BY <1>2, TabFields DEF Filled
<1>4. /\ CellRefs(us) = (CellRefs(tables) \ RefsOf(name, t)) \cup RefsOf(name, us[name])
      /\ NameRefs(us) = NameRefs(tables)
      /\ RefsOf(name, t) \subseteq CellRefs(tables)
  BY <1>2, <1>3, RefsWith
<1>5. ASSUME NEW x \in CellRefs(tables), x.at[2] = name PROVE x \in RefsOf(name, t)
  <2>1. PICK n \in DOMAIN tables : x \in RefsOf(n, tables[n])
    BY CellRefsMember
  <2>2. n = name
    BY <1>5, <2>1, RefsOfPlace
  <2>. QED  BY <2>1, <2>2
<1>6. /\ CellRefs(us) = (CellRefs(tables) \ out) \cup in /\ out \subseteq CellRefs(tables)
      /\ (CellRefs(tables) \ out) \cap in = {}
  BY <1>2, <1>4, <1>5
<1>7. \A x \in in : x.at[1] = "cell"
  OBVIOUS
<1>8. /\ Matches(Release(Intern(p, in), out), AllRefs(us, crecs, names))
      /\ in = {} => Matches(Release(p, out), AllRefs(us, crecs, names))
      /\ out = {} => Matches(Intern(p, in), AllRefs(us, crecs, names))
  BY <1>4, <1>6, <1>7, CellsChange
<1>9. in = {} /\ out = {} => Matches(p, AllRefs(us, crecs, names))
  <2>1. in = {} /\ out = {} => CellRefs(us) = CellRefs(tables)
    BY <1>6
  <2>. QED  BY <1>4, <2>1 DEF AllRefs
<1>. QED  BY <1>1, <1>8, <1>9

\* The columns of a table are finitely many.
LEMMA ColsFinite == ASSUME NEW cols \in Columns PROVE IsFiniteSet(DOMAIN cols)
<1>1. DOMAIN cols = 1..Len(cols) /\ Len(cols) \in Int
  BY ColumnsFacts
<1>. QED  BY <1>1, FS_Interval

\* INSERT counts every text of its record, and a failed one releases what it counted.
LEMMA InsertCounts ==
    ASSUME ShapeInv, CountInv, NEW name \in DOMAIN tables,
           NEW rec \in NewRecords(tables[name].cols), Insert(name, rec)
    PROVE  CountInv'
<1>1. PICK t : t = tables[name] /\ t.cols \in Columns
  BY TableFields DEF ShapeInv, TablesInv
<1>2. PICK recs, in : recs = t.records \cup {rec} /\ in = RecordRefs(name, t.cols, {rec})
  OBVIOUS
<1>3. Becomes(name, Filled(t, recs)) /\ \A r \in t.records : Key(t.cols, r) # Key(t.cols, rec)
  BY <1>1, <1>2, InsertTables DEF ShapeInv
<1>4. RefsOf(name, Filled(t, recs)) = RefsOf(name, t) \cup in /\ RefsOf(name, t) \cap in = {}
  BY <1>2, <1>3, InsertedRefs
<1>5. IsFiniteSet(in)
  BY <1>1, <1>2, ColsFinite, FiniteRefs, FS_Singleton
<1>6. \A x \in in : x.at[1] = "cell" /\ x.at[2] = name
  BY <1>2, RecordRefsPlace
<1>7. Matches(Intern(pool, in), AllRefs(tables', columnRecs, DOMAIN sources))
  <2>1. PICK out : out = {}
    OBVIOUS
  <2>2. /\ out \subseteq RefsOf(name, t) /\ (RefsOf(name, t) \ out) \cap in = {}
        /\ RefsOf(name, Filled(t, recs)) = (RefsOf(name, t) \ out) \cup in
    BY <1>4, <2>1
  <2>3. TablesInv /\ Matches(pool, AllRefs(tables, columnRecs, DOMAIN sources))
    BY DEF ShapeInv, CountInv
  <2>. QED  BY <1>1, <1>3, <1>5, <1>6, <2>1, <2>2, <2>3, FilledRefs
<1>8. columnRecs' = columnRecs
  BY DEF Insert
<1>9. CASE ~HasBinary(t.cols, rec)
  <2>1. pool' = Intern(pool, in) /\ sources' = sources
    BY <1>1, <1>2, <1>9 DEF Insert
  <2>. QED  BY <1>7, <1>8, <2>1 DEF CountInv
<1>10. CASE HasBinary(t.cols, rec)
  <2>1. PICK own : own = {StreamName(name, rec)}
    OBVIOUS
  <2>2. \E h, data : AddStreams(own, own, h, data, Intern(pool, in))
    BY <1>1, <1>2, <1>10, <2>1 DEF Insert
  <2>3. IsFiniteSet(own)
    BY <2>1, FS_Singleton
  <2>. QED  BY <1>7, <1>8, <2>2, <2>3, AddStreamsCounts
<1>. QED  BY <1>9, <1>10

\* INSERT releases everything that it has interned when it fails.
LEMMA FailedInsert ==
    ASSUME ShapeInv, CountInv, NEW name \in DOMAIN tables, NEW rec, InsertFails(name, rec)
    PROVE  UNCHANGED vars
<1>1. PICK cols : cols = tables[name].cols /\ cols \in Columns
  BY TableFields DEF ShapeInv, TablesInv
<1>2. PICK R :
        /\ R \subseteq RecordRefs(name, cols, {rec}) /\ pool' = Release(Intern(pool, R), R)
  BY <1>1 DEF InsertFails, RefsIn
<1>3. IsFiniteSet(R)
  <2>1. IsFiniteSet(RecordRefs(name, cols, {rec}))
    BY <1>1, ColsFinite, FiniteRefs, FS_Singleton
  <2>. QED  BY <1>2, <2>1, FS_Subset
<1>4. pool' = pool
  BY <1>2, <1>3, InternReleased DEF CountInv, Matches
<1>. QED  BY <1>4 DEF InsertFails, vars

\* UPDATE counts the new text before it releases the old ones.
LEMMA UpdateCounts ==
    ASSUME ShapeInv, CountInv, NEW name \in DOMAIN tables,
           NEW recs \in SUBSET tables[name].records, NEW i \in DOMAIN tables[name].cols
    PROVE  /\ \A v \in Texts \cup {Null} : UpdateText(name, recs, i, v) => CountInv'
           /\ \A data \in Payloads : UpdateObject(name, recs, i, data) => CountInv'
           /\ UpdateObjectToNull(name, recs, i) => CountInv'
<1>1. PICK t : t = tables[name] /\ TableOK(t) /\ t.cols \in Columns /\ IsFiniteSet(t.records)
  BY TableFields DEF ShapeInv, TablesInv
<1>2. t.cols[i].key => t.cols[i].type = "string"
  BY <1>1, ColumnsFacts
<1>3. TablesInv /\ Matches(pool, AllRefs(tables, columnRecs, DOMAIN sources))
  BY DEF ShapeInv, CountInv
<1>4. ASSUME NEW v \in Texts \cup {Null}, UpdateText(name, recs, i, v)
      PROVE  CountInv'
  <2>1. PICK out, new, in :
            /\ out = OldRefs(name, t, recs, i) /\ in = NewRefs(name, t, recs, i, v)
            /\ out = ColumnOf(RecordRefs(name, t.cols, recs), i)
            /\ new = {With(rec, i, v) : rec \in recs}
            /\ in = ColumnOf(RecordRefs(name, t.cols, new), i)
    BY DEF OldRefs, NewRefs
  <2>2. Becomes(name, Filled(t, Updated(t, recs, i, v)))
    BY <1>1, <1>4, UpdateTables DEF ShapeInv
  <2>3. /\ ~t.cols[i].key /\ t.cols[i].type = "string" /\ UNCHANGED <<columnRecs, sources>>
        /\ pool' = Release(Intern(pool, in), out)
    BY <1>1, <1>4, <2>1 DEF UpdateText, ColumnOf
  <2>4. v \in Value /\ v # Object
    BY Constants DEF Value
  <2>5. /\ RefsOf(name, Filled(t, Updated(t, recs, i, v))) = (RefsOf(name, t) \ out) \cup in
        /\ out \subseteq RefsOf(name, t) /\ (RefsOf(name, t) \ out) \cap in = {}
    <3>1. UpdateFits(t, recs, i, v)
      BY <1>1, <2>3, <2>4 DEF UpdateFits
    <3>. QED  BY <2>1, <3>1, UpdatedRefs, ZenonT(30)
  <2>6. IsFiniteSet(in)
    <3>1. IsFiniteSet(recs)
      BY <1>1, FS_Subset
    <3> DEFINE f == [rec \in recs |-> With(rec, i, v)]
    <3>2. DOMAIN f = recs /\ new = {f[rec] : rec \in recs}
      BY <2>1
    <3> HIDE DEF f
    <3>3. IsFiniteSet(new)
      BY <3>1, <3>2, ImageFinite
    <3>4. IsFiniteSet(RecordRefs(name, t.cols, new))
      BY <1>1, <3>3, ColsFinite, FiniteRefs
    <3>5. in \subseteq RecordRefs(name, t.cols, new)
      BY <2>1 DEF ColumnOf
    <3>. QED  BY <3>4, <3>5, FS_Subset
  <2>7. \A x \in in : x.at[1] = "cell" /\ x.at[2] = name
    BY <2>1, RecordRefsPlace DEF ColumnOf
  <2>8. Matches(pool', AllRefs(tables', columnRecs, DOMAIN sources))
    BY <1>1, <1>3, <2>2, <2>3, <2>5, <2>6, <2>7, FilledRefs
  <2>. QED  BY <2>3, <2>8 DEF CountInv
<1>5. ASSUME NEW v \in {Null, Object}, t.cols[i].type = "binary",
             v = Object => \A rec \in recs : CellPersistent(rec, t.cols[i]),
             Becomes(name, Filled(t, Updated(t, recs, i, v)))
      PROVE  Matches(pool, AllRefs(tables', columnRecs, DOMAIN sources))
  <2>1. PICK out, in : out = OldRefs(name, t, recs, i) /\ in = NewRefs(name, t, recs, i, v)
    OBVIOUS
  <2>2. ~t.cols[i].key /\ t.cols[i].type # "string" /\ v \in Value
    BY <1>2, <1>5 DEF Value
  <2>3. /\ RefsOf(name, Filled(t, Updated(t, recs, i, v))) = (RefsOf(name, t) \ out) \cup in
        /\ out \subseteq RefsOf(name, t) /\ (RefsOf(name, t) \ out) \cap in = {}
        /\ out = {} /\ in = {}
    <3>1. UpdateFits(t, recs, i, v)
      BY <1>1, <1>5, <2>2 DEF UpdateFits
    <3>. QED  BY <1>5, <2>1, <3>1, UpdatedRefs
  <2>4. IsFiniteSet(in) /\ \A x \in in : x.at[1] = "cell" /\ x.at[2] = name
    BY <2>3, FS_EmptySet
  <2>. QED  BY <1>1, <1>3, <1>5, <2>3, <2>4, FilledRefs
<1>6. ASSUME NEW data \in Payloads, UpdateObject(name, recs, i, data)
      PROVE  CountInv'
  <2>1. PICK names : names = {StreamName(name, rec) : rec \in recs}
    OBVIOUS
  <2>2. /\ t.cols[i].type = "binary" /\ \A rec \in recs : CellPersistent(rec, t.cols[i])
        /\ columnRecs' = columnRecs
        /\ \E h : AddStreams(names, names, h, data, pool)
    BY <1>1, <1>6, <2>1 DEF UpdateObject
  <2>3. Becomes(name, Filled(t, Updated(t, recs, i, Object)))
    BY <1>1, <1>6, UpdateTables DEF ShapeInv
  <2>4. Matches(pool, AllRefs(tables', columnRecs, DOMAIN sources))
    BY <1>5, <2>2, <2>3
  <2>5. IsFiniteSet(names)
    BY <1>3, <2>1, NamesFacts
  <2>. QED  BY <2>2, <2>4, <2>5, AddStreamsCounts
<1>7. ASSUME UpdateObjectToNull(name, recs, i)
      PROVE  CountInv'
  <2>1. /\ t.cols[i].type = "binary" /\ columnRecs' = columnRecs
        /\ \E names : DropStreams(names, pool)
    BY <1>1, <1>7 DEF UpdateObjectToNull
  <2>2. Becomes(name, Filled(t, Updated(t, recs, i, Null)))
    BY <1>1, <1>7, UpdateTables DEF ShapeInv
  <2>3. Null # Object
    BY Constants
  <2>4. Matches(pool, AllRefs(tables', columnRecs, DOMAIN sources))
    BY <1>5, <2>1, <2>2, <2>3
  <2>. QED  BY <2>1, <2>4, DropStreamsCounts
<1>. QED  BY <1>4, <1>6, <1>7

\* DELETE releases every text of its records.
LEMMA DeleteCounts ==
    ASSUME ShapeInv, CountInv, NEW name \in DOMAIN tables,
           NEW recs \in SUBSET tables[name].records, Delete(name, recs)
    PROVE  CountInv'
<1>1. PICK t : t = tables[name] /\ TableOK(t)
  BY DEF ShapeInv, TablesInv
<1>2. PICK out, in : out = RecordRefs(name, t.cols, recs) /\ in = {}
  OBVIOUS
<1>3. Becomes(name, Filled(t, t.records \ recs))
  BY <1>1, DeleteTables DEF ShapeInv
<1>4. /\ RefsOf(name, Filled(t, t.records \ recs)) = RefsOf(name, t) \ out
      /\ out \subseteq RefsOf(name, t)
  BY <1>1, <1>2, DeletedRefs
<1>5. /\ RefsOf(name, Filled(t, t.records \ recs)) = (RefsOf(name, t) \ out) \cup in
      /\ (RefsOf(name, t) \ out) \cap in = {} /\ IsFiniteSet(in)
      /\ \A x \in in : x.at[1] = "cell" /\ x.at[2] = name
  BY <1>2, <1>4, FS_EmptySet
<1>6. TablesInv /\ Matches(pool, AllRefs(tables, columnRecs, DOMAIN sources))
  BY DEF ShapeInv, CountInv
<1>7. Matches(Release(pool, out), AllRefs(tables', columnRecs, DOMAIN sources))
  BY <1>1, <1>2, <1>3, <1>4, <1>5, <1>6, FilledRefs
<1>8. columnRecs' = columnRecs /\ \E names : DropStreams(names, Release(pool, out))
  BY <1>1, <1>2 DEF Delete
<1>. QED  BY <1>7, <1>8, DropStreamsCounts

\* The statements on _Streams count the names they add and release those they remove.
LEMMA StreamStatementCounts ==
    ASSUME CountInv, UNCHANGED <<tables, columnRecs>>, NEW names
    PROVE  /\ DropStreams(names, pool) => CountInv'
           /\ \A owned, h, data : IsFiniteSet(names) /\ AddStreams(names, owned, h, data, pool) => CountInv'
<1>1. Matches(pool, AllRefs(tables', columnRecs', DOMAIN sources))
  BY DEF CountInv
<1>. QED  BY <1>1, DropStreamsCounts, AddStreamsCounts

\* What a file keeps: the references that are saved.
LastingRefs(refs) == {x \in refs : x.to[2] = TRUE}

\* The counts that Open reads.
SavedCounts ==
    [r \in DOMAIN pool |->
        IF r[2] /\ r[1] \in DOMAIN File.strings THEN File.strings[r[1]] ELSE 0]

\* The counts in the file are those of its persistent references.
LEMMA SavedCountsMatch ==
    ASSUME NEW refs, Matches(pool, refs)
    PROVE  Matches(SavedCounts, LastingRefs(refs))
<1>1. /\ pool \in [Strings \X BOOLEAN -> Nat] /\ IsFiniteSet(refs)
      /\ \A r \in Strings \X BOOLEAN : pool[r] = Count(refs, r)
  BY DEF Matches
<1>2. IsFiniteSet(LastingRefs(refs))
  BY <1>1, FS_Subset DEF LastingRefs
<1>3. \A s \in Strings : \A b : b = TRUE =>
        /\ s \in DOMAIN File.strings <=> pool[<<s, b>>] > 0
        /\ s \in DOMAIN File.strings => File.strings[s] = pool[<<s, b>>]
  BY FileFields
<1>4. ASSUME NEW s \in Strings, NEW b \in BOOLEAN
      PROVE  SavedCounts[<<s, b>>] = Count(LastingRefs(refs), <<s, b>>) /\ SavedCounts[<<s, b>>] \in Nat
  <2>0. PICK r : r = <<s, b>>
    OBVIOUS
  <2>1. r = <<s, b>> /\ r \in Strings \X BOOLEAN /\ r[1] = s /\ r[2] = b
    BY <2>0
  <2>2. To(LastingRefs(refs), r) = {x \in To(refs, r) : b = TRUE}
    BY <2>1 DEF To, LastingRefs
  <2>3. SavedCounts[r] = IF r[2] /\ s \in DOMAIN File.strings THEN File.strings[s] ELSE 0
    BY <1>1, <2>1 DEF SavedCounts
  <2>4. pool[r] = Count(refs, r) /\ pool[r] \in Nat
    BY <1>1, <2>1
  <2>5. CASE b = TRUE
    <3>1. To(LastingRefs(refs), r) = To(refs, r)
      BY <2>2, <2>5
    <3>2. Count(LastingRefs(refs), r) = Count(refs, r)
      BY <3>1, CountIs
    <3>3. /\ s \in DOMAIN File.strings <=> pool[r] > 0
          /\ s \in DOMAIN File.strings => File.strings[s] = pool[r]
      BY <1>3, <2>1, <2>5
    <3>4. SavedCounts[r] = IF s \in DOMAIN File.strings THEN File.strings[s] ELSE 0
      BY <2>1, <2>3, <2>5
    <3>. QED  BY <2>1, <2>4, <3>2, <3>3, <3>4
  <2>6. CASE b = FALSE
    <3>1. To(LastingRefs(refs), r) = {}
      BY <2>2, <2>6
    <3>2. Count(LastingRefs(refs), r) = 0
      BY <3>1, CountIs, FS_EmptySet
    <3>3. SavedCounts[r] = 0
      BY <2>1, <2>3, <2>6
    <3>. QED  BY <2>1, <3>2, <3>3
  <2>. QED  BY <2>5, <2>6
<1>6. \A r \in Strings \X BOOLEAN : SavedCounts[r] = Count(LastingRefs(refs), r) /\ SavedCounts[r] \in Nat
  <2> SUFFICES ASSUME NEW r \in Strings \X BOOLEAN
               PROVE  SavedCounts[r] = Count(LastingRefs(refs), r) /\ SavedCounts[r] \in Nat
    OBVIOUS
  <2>1. PICK s \in Strings, b \in BOOLEAN : r = <<s, b>>
    OBVIOUS
  <2>. QED  BY <1>4, <2>1
<1>7. SavedCounts = [r \in Strings \X BOOLEAN |-> SavedCounts[r]]
  BY <1>1 DEF SavedCounts
<1>8. SavedCounts \in [Strings \X BOOLEAN -> Nat]
  BY <1>6, <1>7
<1>. QED  BY <1>2, <1>6, <1>8 DEF Matches

\* A record's cell is saved if the record lasts and the column is persistent.
LEMMA KeptRefs ==
    ASSUME NEW t, TableOK(t), NEW n
    PROVE  /\ Persistent(t.cols) => RefsOf(n, Kept(t)) = LastingRefs(RefsOf(n, t))
           /\ ~Persistent(t.cols) => LastingRefs(RefsOf(n, t)) = {}
<1> DEFINE W == Width(t.cols)
<1>1. /\ t.cols \in Columns /\ \A rec \in t.records : rec.temporary \in BOOLEAN
      /\ DOMAIN t.cols = 1..Len(t.cols) /\ Len(t.cols) \in Nat
      /\ W \in 0..Len(t.cols)
      /\ \A i \in 1..Len(t.cols) : i <= W <=> ~t.cols[i].temporary
      /\ Persistent(t.cols) <=> W > 0
  BY TableFields, ColumnsFacts, PersistentPrefix DEF Record
<1> HIDE DEF W
<1>2. ASSUME NEW x
      PROVE  x \in LastingRefs(RefsOf(n, t)) <=> x \in RecordRefs(n, t.cols, Lasting(t)) /\ x.at[4] <= W
  <2>1. x \in RefsOf(n, t) <=> \E rec \in t.records, i \in DOMAIN t.cols :
                                    TextAt(t.cols, rec, i) /\ x = CellRef(n, t.cols, rec, i)
    BY RecordRefsMember DEF RefsOf
  <2>2. x \in RecordRefs(n, t.cols, Lasting(t)) <=>
            \E rec \in t.records, i \in DOMAIN t.cols :
                ~rec.temporary /\ TextAt(t.cols, rec, i) /\ x = CellRef(n, t.cols, rec, i)
    BY RecordRefsMember DEF Lasting
  <2>3. \A rec \in t.records, i \in DOMAIN t.cols : x = CellRef(n, t.cols, rec, i) =>
            /\ x.at[4] = i
            /\ x.to[2] = TRUE <=> ~rec.temporary /\ i <= W
    <3> SUFFICES ASSUME NEW rec \in t.records, NEW i \in DOMAIN t.cols, x = CellRef(n, t.cols, rec, i)
                 PROVE  x.at[4] = i /\ (x.to[2] = TRUE <=> ~rec.temporary /\ i <= W)
      OBVIOUS
    <3>1. x.at[4] = i /\ x.to[2] = CellPersistent(rec, t.cols[i])
      BY CellRefFields
    <3>2. CellPersistent(rec, t.cols[i]) <=> ~rec.temporary /\ i <= W
      BY <1>1 DEF CellPersistent
    <3>3. CellPersistent(rec, t.cols[i]) \in BOOLEAN
      BY DEF CellPersistent
    <3>. QED  BY <3>1, <3>2, <3>3
  <2>. QED  BY <2>1, <2>2, <2>3 DEF LastingRefs
<1>3. CASE Persistent(t.cols)
  <2>1. PICK new, recs : new = PersistentColumns(t.cols) /\ recs = Lasting(t)
    OBVIOUS
  <2>2. new \in Columns /\ Reshapes(t.cols, new) /\ Len(new) = W
    BY <1>1, <1>3, <2>1, PrefixReshapes DEF W
  <2>3. recs \in SUBSET t.records
    BY <2>1 DEF Lasting
  <2>4. RecordRefs(n, new, {Resized(rec, Len(new)) : rec \in recs})
            = {x \in RecordRefs(n, t.cols, recs) : x.at[4] <= Len(new)}
    BY <2>2, <2>3, ResizedRefs
  <2>5. RefsOf(n, Kept(t)) = RecordRefs(n, new, {Resized(rec, Len(new)) : rec \in recs})
    BY <2>1, <2>2, TabFields DEF RefsOf, Kept, W
  <2>. QED  BY <1>2, <1>3, <2>1, <2>2, <2>4, <2>5
<1>4. CASE ~Persistent(t.cols)
  <2>1. W = 0
    BY <1>1, <1>4
  <2>2. \A x \in RecordRefs(n, t.cols, Lasting(t)) : x.at[4] \in 1..Len(t.cols)
    BY <1>1, RecordRefsPlace
  <2>3. \A x : x \notin LastingRefs(RefsOf(n, t))
    BY <1>1, <1>2, <2>1, <2>2
  <2>. QED  BY <1>4, <2>3
<1>. QED  BY <1>3, <1>4

\* The references of what is read back are those that were saved.
LEMMA SavedRefs ==
    ASSUME TablesInv, CatalogInv, NEW ts, DOMAIN ts = PersistentTables,
           \A n \in PersistentTables : ts[n] = Kept(tables[n]), NEW names
    PROVE  LastingRefs(AllRefs(tables, columnRecs, names)) = AllRefs(ts, File.columns, {})
<1>1. /\ PersistentTables \subseteq DOMAIN tables
      /\ \A n \in DOMAIN tables : n \in PersistentTables <=> Persistent(tables[n].cols)
      /\ \A n \in DOMAIN tables : TableOK(tables[n])
  BY DEF PersistentTables, TablesInv
<1>2. LastingRefs(CellRefs(tables)) = CellRefs(ts)
  <2> SUFFICES ASSUME NEW x PROVE x \in LastingRefs(CellRefs(tables)) <=> x \in CellRefs(ts)
    OBVIOUS
  <2>1. x \in LastingRefs(CellRefs(tables))
            <=> \E n \in DOMAIN tables : x \in LastingRefs(RefsOf(n, tables[n]))
    BY CellRefsMember DEF LastingRefs
  <2>2. x \in CellRefs(ts) <=> \E n \in PersistentTables : x \in RefsOf(n, Kept(tables[n]))
    BY CellRefsMember
  <2>3. \A n \in DOMAIN tables :
            /\ n \in PersistentTables => RefsOf(n, Kept(tables[n])) = LastingRefs(RefsOf(n, tables[n]))
            /\ n \notin PersistentTables => LastingRefs(RefsOf(n, tables[n])) = {}
    BY <1>1, KeptRefs
  <2>. QED  BY <1>1, <2>1, <2>2, <2>3
<1>3. LastingRefs(NameRefs(tables)) = NameRefs(ts)
  <2>1. \A n \in DOMAIN tables :
            LastingRefs(TableRefs(n, tables[n].cols)) =
                IF n \in PersistentTables THEN TableRefs(n, tables[n].cols) ELSE {}
    <3> SUFFICES ASSUME NEW n \in DOMAIN tables
                 PROVE  LastingRefs(TableRefs(n, tables[n].cols)) =
                            IF n \in PersistentTables THEN TableRefs(n, tables[n].cols) ELSE {}
      OBVIOUS
    <3>1. PICK b : b = Persistent(tables[n].cols)
      OBVIOUS
    <3>2. b \in BOOLEAN /\ (b = TRUE <=> n \in PersistentTables)
      BY <1>1, <3>1 DEF Persistent
    <3>3. TableRefs(n, tables[n].cols) = {[at |-> <<"table", n>>, to |-> <<n, b>>]}
      BY <3>1 DEF TableRefs, Reference
    <3>6. \A x \in TableRefs(n, tables[n].cols) : x.to[2] = b
      BY <3>3
    <3>4. ASSUME b = TRUE PROVE LastingRefs(TableRefs(n, tables[n].cols)) = TableRefs(n, tables[n].cols)
      BY <3>4, <3>6 DEF LastingRefs
    <3>5. ASSUME b = FALSE PROVE LastingRefs(TableRefs(n, tables[n].cols)) = {}
      BY <3>5, <3>6 DEF LastingRefs
    <3>. QED  BY <3>2, <3>4, <3>5
  <2>2. \A n \in PersistentTables : TableRefs(n, ts[n].cols) = TableRefs(n, tables[n].cols)
    <3> SUFFICES ASSUME NEW n \in PersistentTables
                 PROVE  TableRefs(n, ts[n].cols) = TableRefs(n, tables[n].cols)
      OBVIOUS
    <3>1. PICK t : t = tables[n] /\ TableOK(t) /\ Persistent(t.cols) /\ ts[n] = Kept(t)
      BY <1>1
    <3>2. /\ Kept(t).cols \in Columns /\ Len(Kept(t).cols) = Width(t.cols)
          /\ \A i \in 1..Width(t.cols) : Kept(t).cols[i] = t.cols[i]
          /\ Width(t.cols) \in Nat /\ Width(t.cols) > 0
      BY <3>1, KeptOK, TableFields, PersistentPrefix
    <3>3. Persistent(Kept(t).cols) <=> Persistent(t.cols)
      BY <3>2 DEF Persistent
    <3>. QED  BY <3>1, <3>3, SameTableRefs
  <2>3. \A x : x \in LastingRefs(NameRefs(tables))
            <=> \E n \in DOMAIN tables : x \in LastingRefs(TableRefs(n, tables[n].cols))
    BY DEF LastingRefs, NameRefs
  <2>4. \A x : x \in NameRefs(ts) <=> \E n \in PersistentTables : x \in TableRefs(n, ts[n].cols)
    BY DEF NameRefs
  <2>5. \A x : x \in LastingRefs(NameRefs(tables))
            <=> \E n \in PersistentTables : x \in TableRefs(n, tables[n].cols)
    BY <1>1, <2>1, <2>3
  <2>6. \A x : x \in NameRefs(ts) <=> \E n \in PersistentTables : x \in TableRefs(n, tables[n].cols)
    BY <2>2, <2>4
  <2>. QED  BY <2>5, <2>6
<1>4. LastingRefs(ColumnRefs(columnRecs)) = ColumnRefs(File.columns)
  <2>1. \A r : r \in File.columns <=> r \in columnRecs /\ ~r.column.temporary
    BY FileFields
  <2>2. ASSUME NEW x \in ColumnRefs(columnRecs)
        PROVE  x.to[2] = TRUE <=> ~x.at[2].column.temporary
    <3>1. PICK r, b : r = x.at[2] /\ b = ~r.column.temporary /\ b \in BOOLEAN
      OBVIOUS
    <3>2. \/ x = Reference(<<"column", r, "table">>, r.table, b)
          \/ x = Reference(<<"column", r, "name">>, r.column.name, b)
      BY <3>1, ColumnRefsMember DEF IsColumnRef
    <3>3. x.to[2] = b
      BY <3>2 DEF Reference
    <3>. QED  BY <3>1, <3>3
  <2>. QED  BY <2>1, <2>2, ColumnRefsMember DEF LastingRefs
<1>5. LastingRefs(StreamRefs(names)) = {} /\ StreamRefs({}) = {}
  <2>1. ASSUME NEW x \in StreamRefs(names) PROVE x.to[2] # TRUE
    <3>1. PICK b : b = FALSE
      OBVIOUS
    <3>2. \E s : x = [at |-> <<"stream", s>>, to |-> <<s, b>>]
      BY <3>1 DEF StreamRefs, Reference
    <3>3. x.to[2] = b
      BY <3>2
    <3>. QED  BY <3>1, <3>3
  <2>. QED  BY <2>1 DEF LastingRefs, StreamRefs
<1>6. LastingRefs(AllRefs(tables, columnRecs, names))
        = LastingRefs(ColumnRefs(columnRecs)) \cup LastingRefs(StreamRefs(names))
            \cup LastingRefs(NameRefs(tables)) \cup LastingRefs(CellRefs(tables))
  BY DEF AllRefs, LastingRefs
<1>. QED  BY <1>2, <1>3, <1>4, <1>5, <1>6 DEF AllRefs

\* What is read back is referred to as often as the file says.
LEMMA SaveCounts ==
    ASSUME ShapeInv, CountInv, SaveAndOpen
    PROVE  CountInv'
<1>1. PICK us : us = tables' /\ DOMAIN us = PersistentTables
                /\ \A n \in PersistentTables : us[n] = Kept(tables[n])
  <2>1. PICK us : us = tables'
    OBVIOUS
  <2>. QED  BY <2>1, SaveTables DEF ShapeInv
<1>2. PICK crecs : crecs = columnRecs' /\ crecs = File.columns
  BY DEF SaveAndOpen
<1>3. LastingRefs(AllRefs(tables, columnRecs, DOMAIN sources)) = AllRefs(us, crecs, {})
  BY <1>1, <1>2, SavedRefs DEF ShapeInv
<1>4. Matches(SavedCounts, AllRefs(us, crecs, {}))
  BY <1>3, SavedCountsMatch DEF CountInv
<1>5. PICK names : names = DOMAIN sources /\ IsFiniteSet(names) /\ DOMAIN sources' = names
                   /\ DOMAIN File.streams = names
  BY SaveStreams, FileFields DEF ShapeInv, StreamInvs, StreamsInv
<1>6. pool' = Intern(SavedCounts, StreamRefs(names))
  BY <1>5 DEF SaveAndOpen, SavedCounts
<1>7. names \ {} = names /\ {} \cup names = names
  OBVIOUS
<1>8. Matches(Intern(SavedCounts, StreamRefs(names)), AllRefs(us, crecs, names))
  <2>1. PICK old : old = {}
    OBVIOUS
  <2>2. Matches(Intern(SavedCounts, StreamRefs(names \ old)), AllRefs(us, crecs, old \cup names))
    BY <1>4, <1>5, <2>1, StreamsCome
  <2>. QED  BY <1>7, <2>1, <2>2
<1>. QED  BY <1>1, <1>2, <1>5, <1>6, <1>8 DEF CountInv

-----------------------------------------------------------------------------
(***************************************************************************)
(* The counts hold through every step.                                     *)
(***************************************************************************)

\* A new database refers to nothing.
LEMMA CountsInit == Init => CountInv
<1> SUFFICES ASSUME Init PROVE CountInv
  OBVIOUS
<1>1. DOMAIN tables = {} /\ columnRecs = {} /\ DOMAIN sources = {}
  BY DEF Init
<1>2. PICK refs : refs = AllRefs(tables, columnRecs, DOMAIN sources)
  OBVIOUS
<1>3. refs = {}
  BY <1>1, <1>2, Kinds DEF AllRefs
<1>4. \A r : Count(refs, r) = 0
  <2>1. \A r : To(refs, r) = {}
    BY <1>3 DEF To
  <2>. QED  BY <2>1, CountIs, FS_EmptySet
<1>5. pool \in [Strings \X BOOLEAN -> Nat] /\ \A r \in Strings \X BOOLEAN : pool[r] = 0
  BY DEF Init
<1>. QED  BY <1>2, <1>3, <1>4, <1>5, FS_EmptySet DEF CountInv, Matches

\* Every step keeps the counts exact.
LEMMA CountsStep == ShapeInv /\ CountInv /\ [Next]_vars => CountInv'
<1> SUFFICES ASSUME ShapeInv, CountInv, [Next]_vars PROVE CountInv'
  OBVIOUS
<1>1. UNCHANGED <<tables, columnRecs, sources, pool>> => CountInv'
  BY DEF CountInv
<1>2. ASSUME NEW name \in TableNames, NEW cols \in Schemas, NEW hold \in BOOLEAN,
             CreateTable(name, cols, hold)
      PROVE  CountInv'
  BY <1>2, CreateTableCounts
<1>3. ASSUME NEW name \in DOMAIN tables
      PROVE  /\ Hold(name) \/ Free(name) \/ Drop(name) => CountInv'
             /\ \A c \in Additions, hold \in BOOLEAN : AddColumn(name, c, hold) => CountInv'
             /\ \A rec \in NewRecords(tables[name].cols) :
                    Insert(name, rec) \/ InsertFails(name, rec) => CountInv'
             /\ \A recs \in SUBSET tables[name].records :
                    /\ Delete(name, recs) => CountInv'
                    /\ \A i \in DOMAIN tables[name].cols :
                        /\ \A v \in Texts \cup {Null} : UpdateText(name, recs, i, v) => CountInv'
                        /\ \A data \in Payloads : UpdateObject(name, recs, i, data) => CountInv'
                        /\ UpdateObjectToNull(name, recs, i) => CountInv'
  <2>0. TablesInv
    BY DEF ShapeInv
  <2>1. Hold(name) => CountInv'
    <3>1. Hold(name) => UNCHANGED <<columnRecs, sources, pool>>
      BY DEF Hold
    <3>. QED  BY <2>0, <3>1, HoldTables, HoldsCounts
  <2>2. DropTable(name) => CountInv'
    BY DropTableCounts
  <2>3. Free(name) => CountInv'
    BY <2>0, <2>2, FreeTables, HoldsCounts, DropTemporaryCounts
  <2>4. Drop(name) => CountInv'
    BY <2>2 DEF Drop
  <2>5. \A c \in Additions, hold \in BOOLEAN : AddColumn(name, c, hold) => CountInv'
    BY AddColumnCounts
  <2>6. \A rec \in NewRecords(tables[name].cols) : Insert(name, rec) => CountInv'
    BY InsertCounts
  <2>7. \A rec \in NewRecords(tables[name].cols) : InsertFails(name, rec) => CountInv'
    BY <1>1, FailedInsert DEF vars
  <2>8. \A recs \in SUBSET tables[name].records : Delete(name, recs) => CountInv'
    BY DeleteCounts
  <2>9. \A recs \in SUBSET tables[name].records : \A i \in DOMAIN tables[name].cols :
            /\ \A v \in Texts \cup {Null} : UpdateText(name, recs, i, v) => CountInv'
            /\ \A data \in Payloads : UpdateObject(name, recs, i, data) => CountInv'
            /\ UpdateObjectToNull(name, recs, i) => CountInv'
    BY UpdateCounts
  <2>. QED  BY <2>1, <2>3, <2>4, <2>5, <2>6, <2>7, <2>8, <2>9
<1>5. ASSUME NEW data \in Payloads,
             SetSummaryInformation(data) \/ \E s \in UserStreams : InsertStream(s, data)
      PROVE  CountInv'
  <2>1. PICK s, h : AddStreams({s}, {}, h, data, pool) /\ UNCHANGED <<tables, columnRecs>>
    BY <1>5 DEF SetSummaryInformation, InsertStream
  <2>2. IsFiniteSet({s})
    BY FS_Singleton
  <2>. QED  BY <2>1, <2>2, StreamStatementCounts
<1>6. ASSUME NEW names \in SUBSET DOMAIN sources,
             DeleteStreams(names) \/ \E data \in Payloads : UpdateStreams(names, data)
      PROVE  CountInv'
  <2>1. IsFiniteSet(names)
    BY FS_Subset DEF ShapeInv, StreamInvs, StreamsInv
  <2>2. UNCHANGED <<tables, columnRecs>>
    BY <1>6 DEF DeleteStreams, UpdateStreams
  <2>3. DropStreams(names, pool) \/ \E owned, h, data : AddStreams(names, owned, h, data, pool)
    BY <1>6 DEF DeleteStreams, UpdateStreams
  <2>. QED  BY <2>1, <2>2, <2>3, StreamStatementCounts
<1>7. SaveAndOpen => CountInv'
  BY SaveCounts
<1>8. UNCHANGED vars => CountInv'
  BY <1>1 DEF vars
<1>. QED  BY <1>2, <1>3, <1>5, <1>6, <1>7, <1>8 DEF Next

\* The inductive invariant of the whole module: the shape of tables, catalog and
\* streams, and the counts that go with it.
DatabaseInv == ShapeInv /\ CountInv

\* The invariant of the theorems about the database, with the counts of its strings.
THEOREM DatabaseInvariant == Spec => []DatabaseInv
<1>1. Init => DatabaseInv
  BY ShapeInit, CountsInit DEF DatabaseInv
<1>2. DatabaseInv /\ [Next]_vars => DatabaseInv'
  BY TablesStep, CatalogStep, StreamsStep, CountsStep DEF DatabaseInv, ShapeInv
<1>. QED  BY <1>1, <1>2, PTL DEF Spec

\* However statements, holds, failures, saves and opens follow on each other,
\* the pool counts each string exactly as often as the tables, the system tables
\* and the streams refer to it, with what a file keeps counted apart: no string
\* is dropped under a cell, and none is kept that nothing refers to.
THEOREM CountsAreExact == Spec => []CountsMatch
<1>1. DatabaseInv => CountsMatch
  BY CountsAre DEF DatabaseInv
<1>. QED  BY <1>1, DatabaseInvariant, PTL

-----------------------------------------------------------------------------
(***************************************************************************)
(* Types.                                                                  *)
(***************************************************************************)

DirtyType == dirty \in BOOLEAN

\* The types hold; in particular each record has a cell for every column, however
\* columns came and went, and no count is negative.
THEOREM DatabaseTypes == Spec => []TypeOK
<1>1. DatabaseInv /\ DirtyType => TypeOK
  <2> SUFFICES ASSUME DatabaseInv, DirtyType PROVE TypeOK
    OBVIOUS
  <2>1. TablesInv /\ StreamsInv /\ CountInv
    BY DEF DatabaseInv, ShapeInv, StreamInvs
  <2>2. \A n \in DOMAIN tables :
            /\ tables[n].holds \in 0..MaxHolds
            /\ \A rec \in tables[n].records : DOMAIN rec.cells = DOMAIN tables[n].cols
    <3> SUFFICES ASSUME NEW n \in DOMAIN tables
                 PROVE  /\ tables[n].holds \in 0..MaxHolds
                        /\ \A rec \in tables[n].records : DOMAIN rec.cells = DOMAIN tables[n].cols
      OBVIOUS
    <3>1. PICK t : t = tables[n] /\ TableOK(t)
      BY <2>1 DEF TablesInv
    <3>2. t.holds \in 0..MaxHolds /\ \A rec \in t.records : rec \in Record /\ Fits(t.cols, rec)
      BY <3>1, TableFields
    <3>3. DOMAIN t.cols = 1..Len(t.cols)
      BY <3>1, TableFields, ColumnsFacts
    <3>4. \A rec \in t.records : DOMAIN rec.cells = DOMAIN t.cols
      BY <3>2, <3>3 DEF Record, Fits
    <3>. QED  BY <3>1, <3>2, <3>4
  <2>. QED  BY <2>1, <2>2, CountsAre DEF TypeOK, TablesInv, StreamsInv, DirtyType
<1>2. Init => DirtyType
  BY DEF Init, DirtyType
<1>3. DirtyType /\ [Next]_vars => DirtyType'
  <2> SUFFICES ASSUME DirtyType, [Next]_vars PROVE dirty' \in {TRUE, FALSE, dirty}
    BY DEF DirtyType
  <2>1. \A name, cols, hold : CreateTable(name, cols, hold) => dirty' = TRUE
    BY DEF CreateTable
  <2>2. \A name, c, hold : AddColumn(name, c, hold) => dirty' = TRUE
    BY DEF AddColumn
  <2>3. \A name : /\ Hold(name) => dirty' = dirty
                  /\ Free(name) => dirty' = dirty
                  /\ Drop(name) => dirty' = TRUE
    BY DEF Hold, Free, Drop
  <2>4. \A name, rec : /\ Insert(name, rec) => dirty' = TRUE
                       /\ InsertFails(name, rec) => dirty' = dirty
    BY DEF Insert, InsertFails
  <2>5. \A name, recs, i, v : /\ Delete(name, recs) => dirty' = TRUE
                              /\ UpdateText(name, recs, i, v) => dirty' = TRUE
                              /\ UpdateObject(name, recs, i, v) => dirty' = TRUE
                              /\ UpdateObjectToNull(name, recs, i) => dirty' = TRUE
    BY DEF Delete, UpdateText, UpdateObject, UpdateObjectToNull
  <2>6. \A names, data : /\ InsertStream(names, data) => dirty' = TRUE
                         /\ SetSummaryInformation(data) => dirty' = TRUE
                         /\ UpdateStreams(names, data) => dirty' = TRUE
                         /\ DeleteStreams(names) => dirty' = TRUE
    BY DEF InsertStream, SetSummaryInformation, UpdateStreams, DeleteStreams
  <2>7. SaveAndOpen => dirty' = FALSE
    BY DEF SaveAndOpen
  <2>8. UNCHANGED vars => dirty' = dirty
    BY DEF vars
  <2>. QED  BY <2>1, <2>2, <2>3, <2>4, <2>5, <2>6, <2>7, <2>8 DEF Next
<1>4. Spec => []DirtyType
  BY <1>2, <1>3, PTL DEF Spec
<1>. QED  BY <1>1, <1>4, DatabaseInvariant, PTL

-----------------------------------------------------------------------------
(***************************************************************************)
(* The file that Close writes.                                             *)
(***************************************************************************)

\* A place that refers to a string keeps it in the pool.
LEMMA Referred ==
    ASSUME CountInv, NEW x \in AllRefs(tables, columnRecs, DOMAIN sources),
           NEW s \in Strings, NEW b \in BOOLEAN, x.to = <<s, b>>
    PROVE  pool[<<s, b>>] \in Nat /\ pool[<<s, b>>] > 0
<1>1. PICK refs : refs = AllRefs(tables, columnRecs, DOMAIN sources) /\ Matches(pool, refs)
  BY DEF CountInv
<1>2. PICK r : r = <<s, b>>
  OBVIOUS
<1>3. r \in Strings \X BOOLEAN
  BY <1>2
<1>4. x \in To(refs, r)
  BY <1>1, <1>2 DEF To
<1>5. IsFiniteSet(To(refs, r)) /\ pool[r] = Cardinality(To(refs, r))
  BY <1>1, <1>3, CountNat, CountIs DEF Matches
<1>6. Cardinality(To(refs, r)) \in Nat /\ Cardinality(To(refs, r)) # 0
  BY <1>4, <1>5, FS_CardinalityType, FS_EmptySet
<1>. QED  BY <1>2, <1>5, <1>6

\* One that the file keeps, in the file.
LEMMA StringIsSaved ==
    ASSUME CountInv, NEW at, NEW s \in Strings, NEW b, b = TRUE,
           Reference(at, s, b) \in AllRefs(tables, columnRecs, DOMAIN sources)
    PROVE  s \in DOMAIN File.strings
<1>1. PICK x : x = Reference(at, s, b)
  OBVIOUS
<1>2. x.to = <<s, b>> /\ b \in BOOLEAN
  BY <1>1 DEF Reference
<1>3. pool[<<s, b>>] > 0
  BY <1>1, <1>2, Referred
<1>4. \A c : c = TRUE /\ pool[<<s, c>>] > 0 => s \in DOMAIN File.strings
  BY FileFields
<1>. QED  BY <1>3, <1>4

\* writeStreams finds every stream of _Streams, and its name in the pool.
LEMMA AlwaysEncodable == DatabaseInv => Encodable
<1> SUFFICES ASSUME DatabaseInv, NEW s \in streamRecs
             PROVE  s \in DOMAIN sources /\ pool[<<s, TRUE>>] + pool[<<s, FALSE>>] > 0
  BY DEF Encodable
<1>1. s \in DOMAIN sources /\ s \in Strings
  BY DEF DatabaseInv, ShapeInv, StreamInvs, StreamsInv
<1>2. \A b : pool[<<s, b>>] \in Nat \/ b \notin BOOLEAN
  <2> SUFFICES ASSUME NEW b \in BOOLEAN PROVE pool[<<s, b>>] \in Nat
    OBVIOUS
  <2>1. PICK r : r = <<s, b>>
    OBVIOUS
  <2>2. r \in Strings \X BOOLEAN
    BY <1>1, <2>1
  <2>. QED  BY <2>1, <2>2, CountsAre DEF DatabaseInv
<1>3. PICK b : b = FALSE
  OBVIOUS
<1>4. pool[<<s, b>>] > 0
  <2>1. PICK x : x = Reference(<<"stream", s>>, s, b)
    OBVIOUS
  <2>2. x \in StreamRefs(DOMAIN sources)
    BY <1>1, <1>3, <2>1 DEF StreamRefs
  <2>3. x.to = <<s, b>> /\ b \in BOOLEAN
    BY <1>3, <2>1 DEF Reference
  <2>4. x \in AllRefs(tables, columnRecs, DOMAIN sources)
    BY <2>2 DEF AllRefs
  <2>. QED  BY <1>1, <2>3, <2>4, Referred DEF DatabaseInv
<1>5. PICK c : c = TRUE
  OBVIOUS
<1>6. pool[<<s, b>>] \in Nat /\ pool[<<s, c>>] \in Nat
  BY <1>2, <1>3, <1>5
<1>7. pool[<<s, c>>] + pool[<<s, b>>] > 0
  BY <1>4, <1>6
<1>. QED  BY <1>1, <1>3, <1>5, <1>7

\* The cells of a record that are saved, and the key of saved cells.
CellsOf(t, rec) == SubSeq(rec.cells, 1, Width(t.cols))
KeyOfCells(cols, cells) == [i \in {j \in DOMAIN cols : cols[j].key} |-> cells[i]]

\* What a lasting record leaves in the file.
LEMMA SavedMember ==
    ASSUME NEW t, TableOK(t), NEW a
    PROVE  a \in Saved(t.records, t.cols) =>
            \E rec \in Lasting(t) : a = CellsOf(t, rec)
<1>1. t.cols \in Columns
  BY TableFields
<1>2. PICK w : w = Width(t.cols) /\ Len(PersistentColumns(t.cols)) = w
  <2>1. PersistentColumns(t.cols) = SubSeq(t.cols, 1, Width(t.cols)) /\ Width(t.cols) \in 0..Len(t.cols)
    BY <1>1, PersistentPrefix
  <2>2. t.cols \in Seq(Column)
    BY TableFields
  <2>. QED  BY <2>1, <2>2, SubSeqProperties
<1>. QED  BY <1>2 DEF Saved, Lasting, CellsOf

\* A record in the file has the cells and the key of the record that was saved.
LEMMA SavedCells ==
    ASSUME NEW t, TableOK(t), Persistent(t.cols), NEW rec \in Lasting(t)
    PROVE  /\ DOMAIN PersistentColumns(t.cols) \subseteq DOMAIN t.cols
           /\ \A i \in DOMAIN PersistentColumns(t.cols) :
                /\ CellsOf(t, rec)[i] = rec.cells[i] /\ PersistentColumns(t.cols)[i] = t.cols[i]
                /\ CellPersistent(rec, t.cols[i])
           /\ KeyOfCells(PersistentColumns(t.cols), CellsOf(t, rec)) = Key(t.cols, rec)
<1>0. PICK a, new : a = SubSeq(rec.cells, 1, Width(t.cols)) /\ a = CellsOf(t, rec)
                    /\ new = PersistentColumns(t.cols)
  BY DEF CellsOf
<1>1. /\ t.cols \in Columns /\ rec \in Record /\ Fits(t.cols, rec) /\ ~rec.temporary
      /\ rec \in t.records
  BY TableFields DEF Lasting
<1>2. PICK w : w = Width(t.cols) /\ w \in 0..Len(t.cols) /\ w \in Nat /\ w <= Len(t.cols)
               /\ \A i \in 1..Len(t.cols) : i <= w <=> ~t.cols[i].temporary
  BY <1>1, ColumnsFacts, PersistentPrefix
<1>3. new \in Columns /\ Len(new) = w /\ \A i \in 1..w : new[i] = t.cols[i]
  BY <1>0, <1>1, <1>2, PrefixReshapes
<1>4. DOMAIN new = 1..w /\ DOMAIN t.cols = 1..Len(t.cols) /\ Len(t.cols) \in Nat
  BY <1>1, <1>3, ColumnsFacts
<1>5. \A i \in 1..w : a[i] = rec.cells[i]
  BY <1>0, <1>1, <1>2, SubSeqProperties DEF Record, Fits
<1>6. \A i \in 1..w : CellPersistent(rec, t.cols[i])
  BY <1>1, <1>2 DEF CellPersistent
<1>7. {j \in DOMAIN new : new[j].key} = KeyColumns(t.cols)
  <2>1. \A j \in 1..Len(t.cols) : t.cols[j].key => ~t.cols[j].temporary
    BY <1>1, ColumnsFacts DEF Persistent
  <2>. QED  BY <1>2, <1>3, <1>4, <2>1 DEF KeyColumns
<1>8. \A i \in KeyColumns(t.cols) : a[i] = rec.cells[i]
  BY <1>4, <1>5, <1>7
<1>9. [i \in {j \in DOMAIN new : new[j].key} |-> a[i]] = Key(t.cols, rec)
  <2>1. PICK K : K = KeyColumns(t.cols)
    OBVIOUS
  <2>2. [i \in K |-> a[i]] = [i \in K |-> rec.cells[i]]
    BY <1>8, <2>1
  <2>3. Key(t.cols, rec) = [i \in K |-> rec.cells[i]]
    BY <2>1 DEF Key, KeyColumns
  <2>. QED  BY <1>7, <2>1, <2>2, <2>3
<1>10. KeyOfCells(new, a) = Key(t.cols, rec)
  BY <1>9 DEF KeyOfCells
<1>. QED  BY <1>0, <1>2, <1>3, <1>4, <1>5, <1>6, <1>10

\* What decode checks of the tables and columns that it reads.
LEMMA DecodableCatalog ==
    ASSUME DatabaseInv
    PROVE  /\ File.tables \subseteq DOMAIN File.strings
           /\ \A r \in File.columns :
                /\ r.table \in File.tables
                /\ {r.table, r.column.name} \subseteq DOMAIN File.strings
                /\ \A q \in File.columns : q.table = r.table /\ q # r =>
                        q.number # r.number /\ q.column.name # r.column.name
           /\ \A n \in File.tables : \E k \in 1..MaxColumns : Numbers(File, n) = 1..k
           /\ DOMAIN File.data \subseteq File.tables
<1>1. TablesInv /\ CatalogInv /\ CountInv
  BY DEF DatabaseInv, ShapeInv
<1>2. /\ File.tables = PersistentTables /\ PersistentTables \subseteq DOMAIN tables
      /\ \A r : r \in File.columns <=>
            \E n \in PersistentTables :
                Described(n, tables[n].cols, r) /\ r.number \in 1..Width(tables[n].cols)
      /\ \A n \in PersistentTables : Numbers(File, n) = 1..Width(tables[n].cols)
  BY <1>1, FileColumns
<1>3. \A n \in PersistentTables :
        /\ tables[n].cols \in Columns /\ Persistent(tables[n].cols) /\ n \in Strings
        /\ Width(tables[n].cols) \in 1..Len(tables[n].cols)
        /\ \A i \in 1..Width(tables[n].cols) : ~tables[n].cols[i].temporary
  <2> SUFFICES ASSUME NEW n \in PersistentTables
               PROVE  /\ tables[n].cols \in Columns /\ Persistent(tables[n].cols) /\ n \in Strings
                      /\ Width(tables[n].cols) \in 1..Len(tables[n].cols)
                      /\ \A i \in 1..Width(tables[n].cols) : ~tables[n].cols[i].temporary
    OBVIOUS
  <2>1. /\ tables[n].cols \in Columns /\ Persistent(tables[n].cols) /\ n \in Strings
    BY <1>1, <1>2, TableFields, Constants DEF TablesInv, PersistentTables
  <2>2. PICK cols : cols = tables[n].cols
    OBVIOUS
  <2>3. /\ Width(cols) \in 0..Len(cols) /\ Len(cols) \in Nat
        /\ \A i \in 1..Len(cols) : i <= Width(cols) <=> ~cols[i].temporary
        /\ Width(cols) > 0
    BY <2>1, <2>2, PersistentPrefix, ColumnsFacts
  <2>. QED  BY <2>1, <2>2, <2>3
<1>4. ASSUME NEW n \in PersistentTables PROVE n \in DOMAIN File.strings
  <2>1. PICK b : b = Persistent(tables[n].cols)
    OBVIOUS
  <2>2. b = TRUE
    BY <1>3, <2>1 DEF Persistent
  <2>3. Reference(<<"table", n>>, n, b) \in NameRefs(tables)
    BY <1>2, <2>1 DEF NameRefs, TableRefs
  <2>4. Reference(<<"table", n>>, n, b) \in AllRefs(tables, columnRecs, DOMAIN sources)
    BY <2>3 DEF AllRefs
  <2>. QED  BY <1>1, <1>3, <2>2, <2>4, StringIsSaved
<1>5. ASSUME NEW r \in File.columns
      PROVE  r.table \in PersistentTables /\ r.column.name \in DOMAIN File.strings
  <2>1. PICK n \in PersistentTables :
            /\ r.number \in 1..Len(tables[n].cols) /\ r.table = n
            /\ r.column = tables[n].cols[r.number]
    BY <1>2 DEF Described
  <2>2. r.column.name \in Strings
    BY <1>3, <2>1, ColumnsFacts
  <2>3. r \in columnRecs /\ ~r.column.temporary
    BY FileFields
  <2>4. PICK b : b = ~r.column.temporary
    OBVIOUS
  <2>5. b = TRUE
    BY <2>3, <2>4
  <2>6. Reference(<<"column", r, "name">>, r.column.name, b) \in ColumnRefs(columnRecs)
    BY <2>3, <2>4 DEF ColumnRefs
  <2>7. Reference(<<"column", r, "name">>, r.column.name, b)
            \in AllRefs(tables, columnRecs, DOMAIN sources)
    BY <2>6 DEF AllRefs
  <2>. QED  BY <1>1, <2>1, <2>2, <2>5, <2>7, StringIsSaved
<1>6. ASSUME NEW r \in File.columns, NEW q \in File.columns, q.table = r.table, q # r
      PROVE  q.number # r.number /\ q.column.name # r.column.name
  <2>1. PICK n \in PersistentTables :
            /\ r.number \in 1..Len(tables[n].cols)
            /\ r = [table |-> n, number |-> r.number, column |-> tables[n].cols[r.number]]
    BY <1>2 DEF Described
  <2>2. PICK m \in PersistentTables :
            /\ q.number \in 1..Len(tables[m].cols)
            /\ q = [table |-> m, number |-> q.number, column |-> tables[m].cols[q.number]]
    BY <1>2 DEF Described
  <2>3. PICK i, j : i = r.number /\ j = q.number
    OBVIOUS
  <2>4. m = n /\ r.column = tables[n].cols[i] /\ q.column = tables[n].cols[j]
    BY <1>6, <2>1, <2>2, <2>3
  <2>5. i # j
    BY <1>6, <2>1, <2>2, <2>3, <2>4
  <2>6. tables[n].cols[i].name # tables[n].cols[j].name
    <3>1. PICK cols \in Columns : cols = tables[n].cols
      BY <1>3
    <3>2. i \in 1..Len(cols) /\ j \in 1..Len(cols)
      BY <2>1, <2>2, <2>3, <2>4, <3>1
    <3>3. i < j \/ j < i
      BY <2>5, <3>2
    <3>4. cols[i].name # cols[j].name
      BY <3>2, <3>3, ColumnsFacts
    <3>. QED  BY <3>1, <3>4
  <2>. QED  BY <2>3, <2>4, <2>5, <2>6
<1>7. \A n \in PersistentTables : \E k \in 1..MaxColumns : Numbers(File, n) = 1..k
  <2> SUFFICES ASSUME NEW n \in PersistentTables PROVE Width(tables[n].cols) \in 1..MaxColumns
    BY <1>2
  <2>1. PICK cols \in Columns : cols = tables[n].cols
    BY <1>3
  <2>2. Len(cols) \in Nat \ {0} /\ Len(cols) <= MaxColumns /\ MaxColumns \in Nat
    BY ColumnsFacts, Constants
  <2>. QED  BY <1>3, <2>1, <2>2
<1>8. DOMAIN File.data \subseteq PersistentTables
  BY FileFields
<1>. QED  BY <1>2, <1>4, <1>5, <1>6, <1>7, <1>8

\* What decode checks of the records.
LEMMA DecodableRecords ==
    ASSUME DatabaseInv, NEW n \in DOMAIN File.data,
           NEW t, t = tables[n], NEW new, new = PersistentColumns(t.cols),
           NEW a \in File.data[n]
    PROVE  /\ n \in PersistentTables /\ TableOK(t) /\ Persistent(t.cols)
           /\ \A i \in DOMAIN new : new[i].type = "string" /\ a[i] # Null => a[i] \in DOMAIN File.strings
           /\ \A b \in File.data[n] : a # b => KeyOfCells(new, a) # KeyOfCells(new, b)
<1>1. TablesInv /\ CatalogInv /\ CountInv
  BY DEF DatabaseInv, ShapeInv
<1>2. n \in PersistentTables /\ File.data[n] = Saved(t.records, t.cols)
  BY FileFields
<1>3. TableOK(t) /\ Persistent(t.cols) /\ n \in DOMAIN tables
  BY <1>1, <1>2 DEF PersistentTables, TablesInv
<1>4. PICK rec \in Lasting(t) : a = CellsOf(t, rec)
  BY <1>2, <1>3, SavedMember
<1>5. ASSUME NEW i \in DOMAIN new, new[i].type = "string", a[i] # Null
      PROVE  a[i] \in DOMAIN File.strings
  <2>1. /\ i \in DOMAIN t.cols /\ a[i] = rec.cells[i] /\ t.cols[i].type = "string"
        /\ CellPersistent(rec, t.cols[i])
    BY <1>3, <1>4, <1>5, SavedCells
  <2>2. rec \in t.records /\ rec \in Record /\ Fits(t.cols, rec)
    BY <1>3, TableFields DEF Lasting
  <2>3. a[i] \in Strings
    <3>1. rec.cells[i] \in Value
      BY <1>3, <2>1, <2>2, TableFields DEF Record, Fits
    <3>. QED  BY <1>5, <2>1, <2>2, <3>1, Constants DEF Value, Fits
  <2>4. PICK b, s : b = CellPersistent(rec, t.cols[i]) /\ s = rec.cells[i]
    OBVIOUS
  <2>5. b = TRUE
    BY <2>1, <2>4 DEF CellPersistent
  <2>6. PICK at : CellRef(n, t.cols, rec, i) = Reference(at, s, b)
    BY <2>4 DEF CellRef
  <2>7. CellRef(n, t.cols, rec, i) \in RefsOf(n, t)
    BY <1>5, <2>1, <2>2, RecordRefsMember DEF RefsOf, TextAt
  <2>8. Reference(at, s, b) \in AllRefs(tables, columnRecs, DOMAIN sources)
    BY <1>3, <2>6, <2>7, CellRefsMember DEF AllRefs
  <2>. QED  BY <1>1, <2>1, <2>3, <2>4, <2>5, <2>8, StringIsSaved
<1>6. ASSUME NEW b \in File.data[n], a # b
      PROVE  KeyOfCells(new, a) # KeyOfCells(new, b)
  <2>1. PICK q \in Lasting(t) : b = CellsOf(t, q)
    BY <1>2, <1>3, SavedMember
  <2>2. KeyOfCells(new, a) = Key(t.cols, rec) /\ KeyOfCells(new, b) = Key(t.cols, q)
    BY <1>3, <1>4, <2>1, SavedCells
  <2>3. rec \in t.records /\ q \in t.records /\ rec # q
    BY <1>4, <1>6, <2>1 DEF Lasting
  <2>4. Key(t.cols, rec) # Key(t.cols, q)
    BY <1>3, <2>3 DEF TableOK
  <2>. QED  BY <2>2, <2>4
<1>. QED  BY <1>2, <1>3, <1>5, <1>6

\* The file that a save writes is accepted when it is opened.
LEMMA AlwaysDecodable == DatabaseInv => Decodable(File)
<1> SUFFICES ASSUME DatabaseInv PROVE Decodable(File)
  OBVIOUS
<1>1. \A n \in PersistentTables : ReadColumns(File, n) = PersistentColumns(tables[n].cols)
  BY FileColumns DEF DatabaseInv, ShapeInv
<1>2. \A n \in DOMAIN File.data : \A a \in File.data[n] :
        /\ \A i \in DOMAIN ReadColumns(File, n) :
                ReadColumns(File, n)[i].type = "string" /\ a[i] # Null => a[i] \in DOMAIN File.strings
        /\ \A b \in File.data[n] : a # b =>
                KeyOfCells(ReadColumns(File, n), a) # KeyOfCells(ReadColumns(File, n), b)
  <2> SUFFICES ASSUME NEW n \in DOMAIN File.data, NEW a \in File.data[n]
               PROVE  /\ \A i \in DOMAIN ReadColumns(File, n) :
                            ReadColumns(File, n)[i].type = "string" /\ a[i] # Null => a[i] \in DOMAIN File.strings
                      /\ \A b \in File.data[n] : a # b =>
                            KeyOfCells(ReadColumns(File, n), a) # KeyOfCells(ReadColumns(File, n), b)
    OBVIOUS
  <2>1. PICK t, new : t = tables[n] /\ new = PersistentColumns(t.cols)
    OBVIOUS
  <2>2. /\ n \in PersistentTables
        /\ \A i \in DOMAIN new : new[i].type = "string" /\ a[i] # Null => a[i] \in DOMAIN File.strings
        /\ \A b \in File.data[n] : a # b => KeyOfCells(new, a) # KeyOfCells(new, b)
    BY <2>1, DecodableRecords
  <2>3. ReadColumns(File, n) = new
    BY <1>1, <2>1, <2>2
  <2>. QED  BY <2>2, <2>3
<1>. QED  BY <1>2, DecodableCatalog DEF Decodable, KeyOfCells

\* Whatever statements came before, Close succeeds, and Open accepts the file and
\* finds every persistent table with its lasting records, and every stream, as it
\* was: each string, column and blob that the file needs is still there.
THEOREM SavedFileAlwaysOpens == Spec => []SavedFileOpens
<1>1. DatabaseInv => SavedFileOpens
  <2> SUFFICES ASSUME DatabaseInv PROVE SavedFileOpens
    OBVIOUS
  <2>1. Encodable /\ Decodable(File)
    BY AlwaysEncodable, AlwaysDecodable
  <2>2. ReadTables(File) = PersistentPart.tables
    BY FileReads DEF DatabaseInv, ShapeInv
  <2>3. [s \in DOMAIN File.streams |-> File.streams[s].data] = PersistentPart.streams
    <3>1. DOMAIN File.streams = DOMAIN sources /\ sources \in [DOMAIN sources -> Source]
      BY FileFields DEF DatabaseInv, ShapeInv, StreamInvs, StreamsInv
    <3>2. ASSUME NEW s \in DOMAIN sources PROVE File.streams[s].data = sources[s].data
      <4>1. PICK src : src = sources[s] /\ src \in Source
        BY <3>1
      <4>2. File.streams[s] = [src EXCEPT !.handle = OnFile]
        BY <3>1, <4>1, FileFields
      <4>. QED  BY <4>1, <4>2 DEF Source
    <3>3. PersistentPart.streams = [s \in DOMAIN sources |-> sources[s].data]
      BY DEF PersistentPart
    <3>. QED  BY <3>1, <3>2, <3>3
  <2>. QED  BY <2>1, <2>2, <2>3 DEF SavedFileOpens
<1>. QED  BY <1>1, DatabaseInvariant, PTL

-----------------------------------------------------------------------------
(***************************************************************************)
(* What changes what a file keeps makes the database dirty.                *)
(***************************************************************************)

ResizedAll(recs, n) == {Resized(rec, n) : rec \in recs}

\* Nothing that is kept of a table is lost when it loses what is not.
LEMMA KeptTwice ==
    ASSUME NEW t, TableOK(t), Persistent(t.cols), NEW u, u.cols = PersistentColumns(t.cols),
           NEW recs \in SUBSET t.records, Lasting(t) \subseteq recs,
           u.records = ResizedAll(recs, Width(t.cols))
    PROVE  Kept(u) = Kept(t) /\ Persistent(u.cols)
<1>1. PICK w, new : w = Width(t.cols) /\ new = u.cols
  OBVIOUS
<1>2. /\ t.cols \in Columns /\ \A rec \in recs : rec \in Record /\ Fits(t.cols, rec)
      /\ w \in Nat /\ w > 0
      /\ \A i \in 1..w : i \in 1..Len(t.cols) /\ ~t.cols[i].temporary
  <2>1. t.cols \in Columns /\ \A rec \in recs : rec \in Record /\ Fits(t.cols, rec)
    BY TableFields
  <2>2. /\ w \in 0..Len(t.cols) /\ Len(t.cols) \in Nat /\ w > 0
        /\ \A i \in 1..Len(t.cols) : i <= w <=> ~t.cols[i].temporary
    BY <1>1, <2>1, ColumnsFacts, PersistentPrefix
  <2>. QED  BY <2>1, <2>2
<1>3. /\ new \in Columns /\ Reshapes(t.cols, new) /\ Len(new) = w
      /\ \A i \in 1..w : new[i] = t.cols[i]
  BY <1>1, <1>2, PrefixReshapes
<1>4. Width(new) = w /\ Persistent(new)
  <2>1. /\ Width(new) \in 0..w /\ \A i \in 1..w : i <= Width(new) <=> ~new[i].temporary
        /\ Persistent(new) <=> Width(new) > 0
    BY <1>3, PersistentPrefix
  <2>2. w <= Width(new)
    BY <1>2, <1>3, <2>1
  <2>. QED  BY <1>2, <2>1, <2>2
<1>5. PersistentColumns(new) = new
  <2>1. PersistentColumns(new) = SubSeq(new, 1, Len(new)) /\ new \in Seq(Column)
    BY <1>3, <1>4, PersistentPrefix DEF Columns
  <2>2. \A s \in Seq(Column) : SubSeq(s, 1, Len(s)) = s
    OBVIOUS
  <2>. QED  BY <2>1, <2>2
<1>6. \A rec \in recs : /\ Resized(rec, w).temporary = rec.temporary
                       /\ Resized(Resized(rec, w), w) = Resized(rec, w)
  <2> SUFFICES ASSUME NEW rec \in recs
               PROVE  /\ Resized(rec, w).temporary = rec.temporary
                      /\ Resized(Resized(rec, w), w) = Resized(rec, w)
    OBVIOUS
  <2>1. PICK r : r = Resized(rec, w)
    OBVIOUS
  <2>2. r.temporary = rec.temporary /\ r \in Record /\ Fits(new, r) /\ DOMAIN r.cells = 1..w
    BY <1>2, <1>3, <2>1, ResizedFits
  <2>3. PICK c, b : r = [cells |-> c, temporary |-> b] /\ c \in Seq(Value) /\ Len(c) = w
    BY <1>3, <2>2 DEF Record, Fits
  <2>4. [i \in 1..w |-> IF i <= Len(c) THEN c[i] ELSE Null] = c
    BY <2>3
  <2>5. Resized(r, w) = [r EXCEPT !.cells = [i \in 1..w |-> IF i <= Len(r.cells) THEN r.cells[i] ELSE Null]]
    BY DEF Resized
  <2>6. r.cells = c
    BY <2>3
  <2>7. Resized(r, w) = [r EXCEPT !.cells = c]
    BY <2>4, <2>5, <2>6
  <2>. QED  BY <2>1, <2>2, <2>3, <2>7
<1>7. Lasting(u) = ResizedAll(Lasting(t), w)
  BY <1>1, <1>6 DEF Lasting, ResizedAll
<1>8. ResizedAll(Lasting(u), w) = ResizedAll(Lasting(t), w)
  BY <1>6, <1>7 DEF ResizedAll
<1>9. Kept(u) = Tab(new, 0, ResizedAll(Lasting(u), w)) /\ Kept(t) = Tab(new, 0, ResizedAll(Lasting(t), w))
  BY <1>1, <1>4, <1>5 DEF Kept, ResizedAll
<1>. QED  BY <1>1, <1>4, <1>8, <1>9

Part(ts, src) ==
    [tables |-> [n \in {m \in DOMAIN ts : Persistent(ts[m].cols)} |-> Kept(ts[n])],
     streams |-> [s \in DOMAIN src |-> src[s].data]]

PartMatches == PersistentPart = Part(tables, sources)

\* The persistent part is that of the persistent tables and the streams.
LEMMA PartIs == TablesInv /\ CatalogInv => PartMatches
<1> SUFFICES ASSUME TablesInv, CatalogInv PROVE PersistentPart = Part(tables, sources)
  BY DEF PartMatches
<1>1. PersistentPart.tables = [n \in PersistentTables |-> Kept(tables[n])]
  BY FileReads
<1>2. PICK f, g : f = PersistentPart.tables /\ g = PersistentPart.streams
                  /\ PersistentPart = [tables |-> f, streams |-> g]
  BY DEF PersistentPart
<1>3. g = [s \in DOMAIN sources |-> sources[s].data]
  BY <1>2 DEF PersistentPart
<1>4. f = [n \in {m \in DOMAIN tables : Persistent(tables[m].cols)} |-> Kept(tables[n])]
  BY <1>1, <1>2 DEF PersistentTables
<1>. QED  BY <1>2, <1>3, <1>4 DEF Part

\* Tables and streams that agree on what is persistent have the same persistent part.
LEMMA SamePart ==
    ASSUME NEW ts, NEW us, NEW src, NEW new, DOMAIN new = DOMAIN src,
           \A s \in DOMAIN src : new[s].data = src[s].data,
           \A n : /\ n \in DOMAIN us /\ Persistent(us[n].cols) <=> n \in DOMAIN ts /\ Persistent(ts[n].cols)
                  /\ n \in DOMAIN us /\ Persistent(us[n].cols) => Kept(us[n]) = Kept(ts[n])
    PROVE  Part(us, new) = Part(ts, src)
<1>1. {m \in DOMAIN us : Persistent(us[m].cols)} = {m \in DOMAIN ts : Persistent(ts[m].cols)}
  OBVIOUS
<1>2. [n \in {m \in DOMAIN us : Persistent(us[m].cols)} |-> Kept(us[n])]
        = [n \in {m \in DOMAIN ts : Persistent(ts[m].cols)} |-> Kept(ts[n])]
  <2>1. PICK D : D = {m \in DOMAIN us : Persistent(us[m].cols)}
    OBVIOUS
  <2>2. \A n \in D : Kept(us[n]) = Kept(ts[n])
    BY <2>1
  <2>3. [n \in D |-> Kept(us[n])] = [n \in D |-> Kept(ts[n])]
    BY <2>2
  <2>. QED  BY <1>1, <2>1, <2>3
<1>3. [s \in DOMAIN new |-> new[s].data] = [s \in DOMAIN src |-> src[s].data]
  OBVIOUS
<1>. QED  BY <1>2, <1>3 DEF Part

\* The steps that leave the database as dirty or clean as it was.
LEMMA HoldPart ==
    ASSUME TablesInv, NEW name, NEW h, NEW t, t = tables[name], UNCHANGED sources,
           Becomes(name, Tab(t.cols, h, t.records))
    PROVE  Part(tables', sources') = Part(tables, sources)
<1>1. PICK us, u : us = tables' /\ u = Tab(t.cols, h, t.records)
  OBVIOUS
<1>2. DOMAIN us = DOMAIN tables /\ us[name] = u /\ \A n \in DOMAIN tables \ {name} : us[n] = tables[n]
  BY <1>1, BecomesFacts
<1>3. u.cols = t.cols /\ u.records = t.records
  BY <1>1, TabFields
<1>4. Kept(u) = Kept(t)
  BY <1>3 DEF Kept, Lasting
<1>5. Part(us, sources) = Part(tables, sources)
  BY <1>2, <1>3, <1>4, SamePart
<1>. QED  BY <1>1, <1>5

\* A database loses nothing persistent when a hold is given up.
LEMMA FreePart ==
    ASSUME TablesInv, StreamInvs, NEW name \in DOMAIN tables, Free(name)
    PROVE  Part(tables', sources') = Part(tables, sources)
<1>1. PICK t : t = tables[name] /\ TableOK(t)
  BY DEF TablesInv
<1>2. PICK us, src : us = tables' /\ src = sources'
  OBVIOUS
<1>3. CASE t.holds > 1 /\ Becomes(name, Tab(t.cols, t.holds - 1, t.records)) /\ UNCHANGED sources
  BY <1>1, <1>3, HoldPart
<1>4. CASE Persistent(t.cols) /\ DropTemporaryColumns(name)
  <2>1. PICK new, u : new = PersistentColumns(t.cols) /\ u = Reshaped(t, new, 0)
    OBVIOUS
  <2>2. Becomes(name, u) /\ Len(new) = Width(t.cols)
    BY <1>1, <1>4, <2>1, DropTemporaryTables
  <2>3. DOMAIN us = DOMAIN tables /\ us[name] = u /\ \A n \in DOMAIN tables \ {name} : us[n] = tables[n]
    BY <1>2, <2>2, BecomesFacts
  <2>4. u.cols = new /\ u.records = ResizedAll(t.records, Width(t.cols))
    BY <2>1, <2>2, TabFields DEF Reshaped, ResizedAll
  <2>5. Kept(u) = Kept(t) /\ Persistent(u.cols)
    <3>1. Lasting(t) \subseteq t.records
      BY DEF Lasting
    <3>2. PICK recs : recs = t.records
      OBVIOUS
    <3>3. recs \in SUBSET t.records /\ Lasting(t) \subseteq recs /\ u.records = ResizedAll(recs, Width(t.cols))
      BY <2>4, <3>1, <3>2
    <3>. QED  BY <1>1, <1>4, <2>1, <2>4, <3>3, KeptTwice
  <2>6. src = sources
    BY <1>2, <1>4 DEF DropTemporaryColumns
  <2>7. Part(us, sources) = Part(tables, sources)
    BY <1>1, <1>4, <2>3, <2>5, SamePart
  <2>. QED  BY <1>2, <2>6, <2>7
<1>5. CASE ~Persistent(t.cols) /\ DropTable(name)
  <2>1. DOMAIN us = DOMAIN tables \ {name} /\ \A n \in DOMAIN tables \ {name} : us[n] = tables[n]
    BY <1>2, <1>5, DropTables, WithoutFacts
  \* The records of a temporary table have no streams.
  <2>2. \A rec \in t.records : ~HasBinary(t.cols, rec)
    <3> SUFFICES ASSUME NEW rec \in t.records, NEW i \in DOMAIN t.cols, rec.cells[i] = Object PROVE FALSE
      BY DEF HasBinary
    <3>1. t.cols \in Columns /\ Fits(t.cols, rec) /\ DOMAIN t.cols = 1..Len(t.cols)
      BY <1>1, TableFields, ColumnsFacts
    <3>2. ~t.cols[i].temporary
      BY <3>1 DEF Fits, CellPersistent
    <3>3. t.cols[1].temporary /\ i \in 1..Len(t.cols) /\ 1 \in 1..Len(t.cols) /\ Len(t.cols) \in Nat
      BY <1>5, <3>1, ColumnsFacts DEF Persistent
    <3>4. 1 < i => t.cols[i].temporary
      BY <3>1, <3>3, ColumnsFacts
    <3>. QED  BY <3>2, <3>3, <3>4
  <2>3. OwnStreams(name, t.records) = {}
    BY <1>1, <2>2 DEF OwnStreams
  <2>4. PICK names, p : DropStreams(names, p) /\ names = {}
    BY <1>1, <1>5, <2>3 DEF DropTable
  <2>5. DOMAIN src = DOMAIN sources /\ \A s \in DOMAIN sources : src[s] = sources[s]
    BY <1>2, <2>4, DropStreamsFacts DEF StreamInvs
  <2>6. Part(us, src) = Part(tables, sources)
    BY <1>1, <1>5, <2>1, <2>5, SamePart
  <2>. QED  BY <1>2, <2>6
<1>. QED  BY <1>1, <1>3, <1>4, <1>5, FreeTables

\* Nor when it is saved and opened again.
LEMMA SavePart ==
    ASSUME TablesInv, CatalogInv, StreamInvs, SaveAndOpen
    PROVE  Part(tables', sources') = Part(tables, sources)
<1>1. PICK us, src : us = tables' /\ src = sources'
  OBVIOUS
<1>2. DOMAIN us = PersistentTables /\ \A n \in PersistentTables : us[n] = Kept(tables[n])
  BY <1>1, SaveTables
<1>3. DOMAIN src = DOMAIN sources /\ \A s \in DOMAIN sources : src[s].data = sources[s].data
  BY <1>1, SaveStreams DEF StreamInvs
<1>4. \A n : n \in PersistentTables <=> n \in DOMAIN tables /\ Persistent(tables[n].cols)
  BY DEF PersistentTables
<1>5. ASSUME NEW n \in PersistentTables
      PROVE  Persistent(us[n].cols) /\ Kept(us[n]) = Kept(tables[n])
  <2>1. PICK t, u : t = tables[n] /\ TableOK(t) /\ Persistent(t.cols) /\ u = Kept(t) /\ us[n] = u
    BY <1>2, <1>4, <1>5 DEF TablesInv
  <2>2. u.cols = PersistentColumns(t.cols) /\ u.records = ResizedAll(Lasting(t), Width(t.cols))
    BY <2>1, TabFields DEF Kept, ResizedAll
  <2>3. PICK recs : recs = Lasting(t)
    OBVIOUS
  <2>4. recs \in SUBSET t.records /\ Lasting(t) \subseteq recs /\ u.records = ResizedAll(recs, Width(t.cols))
    BY <2>2, <2>3 DEF Lasting
  <2>. QED  BY <2>1, <2>2, <2>4, KeptTwice
<1>6. Part(us, src) = Part(tables, sources)
  BY <1>2, <1>3, <1>4, <1>5, SamePart
<1>. QED  BY <1>1, <1>6

\* The steps that leave the database as dirty or clean as it was.
LEMMA DirtyOrSame ==
    ASSUME ShapeInv, CountInv, [Next]_vars
    PROVE  dirty' = TRUE \/ Part(tables', sources') = Part(tables, sources)
<1>0. TablesInv /\ CatalogInv /\ StreamInvs
  BY DEF ShapeInv
<1>1. UNCHANGED vars => Part(tables', sources') = Part(tables, sources)
  BY DEF vars
<1>2. \A name, cols, hold : CreateTable(name, cols, hold) => dirty' = TRUE
  BY DEF CreateTable
<1>3. \A name, c, hold : AddColumn(name, c, hold) => dirty' = TRUE
  BY DEF AddColumn
<1>4. ASSUME NEW name \in DOMAIN tables
      PROVE  /\ Hold(name) => Part(tables', sources') = Part(tables, sources)
             /\ Free(name) => Part(tables', sources') = Part(tables, sources)
             /\ Drop(name) => dirty' = TRUE
             /\ \A rec : InsertFails(name, rec) => Part(tables', sources') = Part(tables, sources)
  <2>1. Hold(name) => sources' = sources
    BY DEF Hold
  <2>2. Hold(name) => Part(tables', sources') = Part(tables, sources)
    BY <1>0, <2>1, HoldTables, HoldPart
  <2>3. Free(name) => Part(tables', sources') = Part(tables, sources)
    BY <1>0, FreePart
  <2>4. Drop(name) => dirty' = TRUE
    BY DEF Drop
  <2>5. \A rec : InsertFails(name, rec) => UNCHANGED vars
    BY FailedInsert
  <2>. QED  BY <1>1, <2>2, <2>3, <2>4, <2>5
<1>5. \A name, rec : Insert(name, rec) => dirty' = TRUE
  BY DEF Insert
<1>6. \A name, recs, i, v : /\ Delete(name, recs) => dirty' = TRUE
                            /\ UpdateText(name, recs, i, v) => dirty' = TRUE
                            /\ UpdateObject(name, recs, i, v) => dirty' = TRUE
                            /\ UpdateObjectToNull(name, recs, i) => dirty' = TRUE
  BY DEF Delete, UpdateText, UpdateObject, UpdateObjectToNull
<1>7. \A names, data : /\ InsertStream(names, data) => dirty' = TRUE
                       /\ SetSummaryInformation(data) => dirty' = TRUE
                       /\ UpdateStreams(names, data) => dirty' = TRUE
                       /\ DeleteStreams(names) => dirty' = TRUE
  BY DEF InsertStream, SetSummaryInformation, UpdateStreams, DeleteStreams
<1>8. SaveAndOpen => Part(tables', sources') = Part(tables, sources)
  BY <1>0, SavePart
<1>. QED  BY <1>1, <1>2, <1>3, <1>4, <1>5, <1>6, <1>7, <1>8 DEF Next

\* Close does not write the file of a database that is not dirty, so no statement
\* may change a persistent table, a lasting record or a stream and leave the
\* database clean; HOLD, FREE, a statement that fails and a save change none.
THEOREM NothingChangesUnnoticed == Spec => ChangesAreDirty
<1>1. DatabaseInv => PartMatches
  BY PartIs DEF DatabaseInv, ShapeInv
<1>2. DatabaseInv' => PartMatches'
  BY <1>1, PTL
<1>3. DatabaseInv /\ [Next]_vars => dirty' = TRUE \/ Part(tables', sources') = Part(tables, sources)
  BY DirtyOrSame DEF DatabaseInv
<1>4. DatabaseInv /\ DatabaseInv' /\ [Next]_vars => (PersistentPart' # PersistentPart => dirty')
  BY <1>1, <1>2, <1>3 DEF PartMatches
<1>. QED  BY <1>4, DatabaseInvariant, PTL DEF Spec, ChangesAreDirty

-----------------------------------------------------------------------------
(***************************************************************************)
(* Each step of Database is a step of DatabaseSpec, or changes nothing     *)
(* that a program sees.                                                    *)
(***************************************************************************)

\* The abstract columns, records and streams are the ones of the code.
LEMMA LastingIs ==
    ASSUME NEW cols \in Columns
    PROVE  /\ Statements!Lasting(cols) = PersistentColumns(cols)
           /\ Statements!Lasting(cols) # <<>> <=> Persistent(cols)
<1>1. /\ Width(cols) \in 0..Len(cols) /\ Len(cols) \in Nat /\ cols \in Seq(Column)
      /\ DOMAIN cols = 1..Len(cols)
      /\ \A i \in 1..Len(cols) : i <= Width(cols) <=> ~cols[i].temporary
      /\ Persistent(cols) <=> Width(cols) > 0
      /\ PersistentColumns(cols) = SubSeq(cols, 1, Width(cols))
  BY ColumnsFacts, PersistentPrefix DEF Columns
<1>2. PICK w \in Nat : w = Width(cols) /\ w <= Len(cols)
  BY <1>1
<1>3. {j \in DOMAIN cols : ~cols[j].temporary} = 1..w
  BY <1>1, <1>2
<1>4. Statements!Lasting(cols) = [i \in 1..w |-> cols[i]]
  BY <1>3 DEF Statements!Lasting
<1>5. SubSeq(cols, 1, w) = [i \in 1..w |-> cols[i]]
  BY <1>1, <1>2
<1>6. [i \in 1..w |-> cols[i]] # <<>> <=> w > 0
  BY <1>2
<1>. QED  BY <1>1, <1>2, <1>4, <1>5, <1>6

\* The specification resizes records as the database does.
LEMMA FittedIs == \A rec, n : Statements!Fitted(rec, n) = Resized(rec, n)
BY DEF Statements!Fitted, Resized

\* And tables.
LEMMA ReshapedIs ==
    ASSUME NEW t, NEW cols, NEW holds
    PROVE  Statements!Reshaped(t, cols, holds) = Reshaped(t, cols, holds)
BY FittedIs DEF Statements!Reshaped, Reshaped, Tab

\* The specification's keys and stream names are the database's.
LEMMA KeyIs ==
    ASSUME NEW name, NEW t, t = tables[name]
    PROVE  /\ \A rec : /\ Statements!KeyOf(t, rec) = Key(t.cols, rec)
                       /\ Statements!HasObject(t, rec) <=> HasBinary(t.cols, rec)
           /\ \A recs : /\ Statements!StreamsOf(name, recs) = {StreamName(name, rec) : rec \in recs}
                        /\ Statements!ObjectsOf(name, recs) = OwnStreams(name, recs)
<1>1. \A rec : Statements!KeyOf(t, rec) = Key(t.cols, rec)
  BY DEF Statements!KeyOf, Key
<1>2. \A rec : Statements!HasObject(t, rec) <=> HasBinary(t.cols, rec)
  BY DEF Statements!HasObject, HasBinary
<1>3. \A recs : Statements!StreamsOf(name, recs) = {StreamName(name, rec) : rec \in recs}
  BY <1>1 DEF Statements!StreamsOf, StreamName
<1>4. ASSUME NEW recs PROVE Statements!ObjectsOf(name, recs) = OwnStreams(name, recs)
  <2>1. {rec \in recs : Statements!HasObject(tables[name], rec)} = {rec \in recs : HasBinary(tables[name].cols, rec)}
    BY <1>2
  <2>. QED  BY <1>3, <2>1 DEF Statements!ObjectsOf, OwnStreams
<1>. QED  BY <1>1, <1>2, <1>3, <1>4

\* Adding streams puts their payloads.
LEMMA PutIs ==
    ASSUME NEW names, NEW owned, NEW h, NEW data, NEW p, AddStreams(names, owned, h, data, p)
    PROVE  Statements!Put(names, data)
<1>1. PICK D, f : D = DOMAIN sources \cup names /\ f = [s \in names |-> s \in owned]
  OBVIOUS
<1>2. sources' = [s \in D |-> IF s \in names THEN [handle |-> h, data |-> data, owned |-> f[s]]
                                            ELSE sources[s]]
  BY <1>1 DEF AddStreams
<1>3. DOMAIN sources' = D
  BY <1>2
<1>4. \A s \in D : sources'[s].data = IF s \in names THEN data ELSE sources[s].data
  BY <1>2
<1>5. [s \in DOMAIN sources' |-> sources'[s].data]
        = [s \in D |-> IF s \in names THEN data ELSE [r \in DOMAIN sources |-> sources[r].data][s]]
  BY <1>1, <1>3, <1>4
<1>. QED  BY <1>1, <1>5 DEF Statements!Put

\* Dropping streams removes their payloads.
LEMMA RemoveIs ==
    ASSUME NEW names, NEW p, DropStreams(names, p)
    PROVE  Statements!Remove(names)
<1>1. PICK D : D = DOMAIN sources \ names
  OBVIOUS
<1>2. sources' = [s \in D |-> sources[s]]
  <2>1. D = DOMAIN sources \ (names \cap DOMAIN sources)
    BY <1>1
  <2>. QED  BY <2>1 DEF DropStreams
<1>3. [s \in DOMAIN sources' |-> sources'[s].data]
        = [s \in D |-> [r \in DOMAIN sources |-> sources[r].data][s]]
  BY <1>1, <1>2
<1>. QED  BY <1>1, <1>3 DEF Statements!Remove

\* CREATE TABLE does what the specification says.
LEMMA CreateIs ==
    ASSUME TablesInv, NEW name \in TableNames, NEW cols \in Schemas, NEW hold \in BOOLEAN,
           CreateTable(name, cols, hold)
    PROVE  Statements!Create(name, cols, hold)
<1>1. PICK kept : kept = IF hold THEN cols ELSE PersistentColumns(cols)
  OBVIOUS
<1>2. /\ name \notin DOMAIN tables /\ kept # <<>> /\ sources' = sources
      /\ tables' = [n \in DOMAIN tables \cup {name} |->
            IF n = name THEN [cols |-> kept, holds |-> IF hold THEN 1 ELSE 0, records |-> {}]
            ELSE tables[n]]
  BY <1>1 DEF CreateTable
<1>3. cols \in Columns
  BY <1>1, <1>2, CreatedColumns
<1>4. kept = IF hold THEN cols ELSE Statements!Lasting(cols)
  BY <1>1, <1>3, LastingIs
<1>. QED  BY <1>2, <1>4 DEF Statements!Create

\* ALTER TABLE ADD does what the specification says.
LEMMA AddIs ==
    ASSUME TablesInv, NEW name \in DOMAIN tables, NEW c \in Additions, NEW hold \in BOOLEAN,
           AddColumn(name, c, hold)
    PROVE  Statements!Add(name, c, hold)
<1>1. PICK t : t = tables[name] /\ TableOK(t) /\ t.cols \in Columns
  BY TableFields DEF TablesInv
<1>2. PICK h : /\ h = IF hold THEN t.holds + 1 ELSE t.holds
               /\ Becomes(name, Reshaped(t, Append(t.cols, c), h))
  BY <1>1, AddColumnTables
<1>3. tables' = [tables EXCEPT ![name] =
            Statements!Reshaped(t, Append(t.cols, c), IF hold THEN t.holds + 1 ELSE t.holds)]
  BY <1>2, ReshapedIs DEF Becomes
<1>4. /\ \A i \in DOMAIN t.cols : t.cols[i].name # c.name
      /\ c.temporary \/ ~t.cols[Len(t.cols) + 1 - 1].temporary
      /\ hold \/ ~c.temporary \/ t.holds > 0
      /\ sources' = sources
  BY <1>1 DEF AddColumn
<1>5. ASSUME ~c.temporary PROVE Statements!Lasting(t.cols) = t.cols
  <2>1. /\ Len(t.cols) \in Nat \ {0} /\ Width(t.cols) \in 0..Len(t.cols)
        /\ \A i \in 1..Len(t.cols) : i <= Width(t.cols) <=> ~t.cols[i].temporary
        /\ PersistentColumns(t.cols) = SubSeq(t.cols, 1, Width(t.cols))
    BY <1>1, ColumnsFacts, PersistentPrefix
  <2>2. ~t.cols[Len(t.cols)].temporary
    BY <1>4, <1>5, <2>1
  <2>3. Width(t.cols) = Len(t.cols)
    <3>1. PICK w, n : w = Width(t.cols) /\ n = Len(t.cols)
      OBVIOUS
    <3>2. w \in 0..n /\ n \in Nat \ {0} /\ n <= w
      BY <2>1, <2>2, <3>1
    <3>. QED  BY <3>1, <3>2
  <2>4. t.cols \in Seq(Column) /\ \A s \in Seq(Column) : SubSeq(s, 1, Len(s)) = s
    BY <1>1 DEF Columns
  <2>. QED  BY <1>1, <2>1, <2>3, <2>4, LastingIs
<1>. QED  BY <1>1, <1>3, <1>4, <1>5 DEF Statements!Add

\* DROP TABLE does what the specification says.
LEMMA DropIs ==
    ASSUME NEW name, DropTable(name)
    PROVE  Statements!Drop(name)
<1>1. PICK t, recs : t = tables[name] /\ recs = t.records
  OBVIOUS
<1>2. tables' = [n \in DOMAIN tables \ {name} |-> tables[n]]
  BY DEF DropTable
<1>3. PICK own, p : own = OwnStreams(name, recs) /\ DropStreams(own, p)
  BY <1>1 DEF DropTable
<1>4. Statements!ObjectsOf(name, recs) = own
  BY <1>3, KeyIs
<1>5. Statements!Remove(own)
  BY <1>3, RemoveIs
<1>6. Statements!Remove(Statements!ObjectsOf(name, tables[name].records))
  BY <1>1, <1>4, <1>5 DEF Statements!Remove
<1>. QED  BY <1>2, <1>6 DEF Statements!Drop

\* A record of its table's number of cells is not changed by refitting it.
LEMMA SameFit ==
    ASSUME NEW t, TableOK(t), NEW h
    PROVE  Reshaped(t, t.cols, h) = Tab(t.cols, h, t.records)
<1>1. PICK n : n = Len(t.cols)
  OBVIOUS
<1>2. \A rec \in t.records : Resized(rec, n) = rec
  <2> SUFFICES ASSUME NEW rec \in t.records PROVE Resized(rec, n) = rec
    OBVIOUS
  <2>1. rec \in Record /\ Len(rec.cells) = n
    BY <1>1, TableFields DEF Fits
  <2>2. PICK c, b : rec = [cells |-> c, temporary |-> b] /\ c \in Seq(Value) /\ Len(c) = n
    BY <2>1 DEF Record
  <2>3. [i \in 1..n |-> IF i <= Len(c) THEN c[i] ELSE Null] = c
    BY <2>2
  <2>4. Resized(rec, n) = [rec EXCEPT !.cells = [i \in 1..n |-> IF i <= Len(rec.cells) THEN rec.cells[i] ELSE Null]]
    BY DEF Resized
  <2>5. rec.cells = c
    BY <2>2
  <2>6. Resized(rec, n) = [rec EXCEPT !.cells = c]
    BY <2>3, <2>4, <2>5
  <2>. QED  BY <2>2, <2>6
<1>3. {Resized(rec, n) : rec \in t.records} = t.records
  BY <1>2
<1>. QED  BY <1>1, <1>3 DEF Reshaped

\* ALTER TABLE FREE does what the specification says.
LEMMA FreeIs ==
    ASSUME TablesInv, NEW name \in DOMAIN tables, Free(name)
    PROVE  Statements!Free(name)
<1>1. PICK t : t = tables[name] /\ TableOK(t) /\ t.cols \in Columns /\ t.cols # <<>> /\ t.holds \in Nat
  BY TableFields DEF TablesInv, Columns
<1>2. Statements!Lasting(t.cols) = PersistentColumns(t.cols)
      /\ (Statements!Lasting(t.cols) # <<>> <=> Persistent(t.cols))
  BY <1>1, LastingIs
<1>3. PICK kept : kept = IF t.holds > 1 THEN t.cols ELSE Statements!Lasting(t.cols)
  OBVIOUS
<1>4. CASE t.holds > 1 /\ Becomes(name, Tab(t.cols, t.holds - 1, t.records)) /\ sources' = sources
  <2>1. kept = t.cols
    BY <1>3, <1>4
  <2>2. Statements!Reshaped(t, kept, t.holds - 1) = Tab(t.cols, t.holds - 1, t.records)
    BY <1>1, <2>1, SameFit, ReshapedIs
  <2>3. tables' = [tables EXCEPT ![name] = Statements!Reshaped(t, kept, t.holds - 1)]
    BY <1>4, <2>2 DEF Becomes
  <2>4. kept # <<>> /\ t.holds > 0
    BY <1>1, <1>4, <2>1
  <2>. QED  BY <1>1, <1>3, <1>4, <2>3, <2>4 DEF Statements!Free
<1>5. CASE t.holds = 1 /\ Persistent(t.cols) /\ DropTemporaryColumns(name)
  <2>1. kept = PersistentColumns(t.cols) /\ kept # <<>> /\ t.holds > 0 /\ t.holds - 1 = 0
    BY <1>2, <1>3, <1>5
  <2>2. Becomes(name, Reshaped(t, kept, 0))
    BY <1>1, <1>5, <2>1, DropTemporaryTables
  <2>3. sources' = sources
    BY <1>5 DEF DropTemporaryColumns
  <2>4. tables' = [tables EXCEPT ![name] = Statements!Reshaped(t, kept, t.holds - 1)]
    BY <2>1, <2>2, ReshapedIs DEF Becomes
  <2>. QED  BY <1>1, <1>3, <2>1, <2>3, <2>4 DEF Statements!Free
<1>6. CASE t.holds = 1 /\ ~Persistent(t.cols) /\ DropTable(name)
  <2>1. kept = <<>> /\ t.holds > 0
    BY <1>2, <1>3, <1>6
  <2>2. Statements!Drop(name)
    BY <1>6, DropIs
  <2>. QED  BY <1>1, <1>3, <2>1, <2>2 DEF Statements!Free
<1>7. \/ t.holds > 1 /\ Becomes(name, Tab(t.cols, t.holds - 1, t.records)) /\ sources' = sources
      \/ t.holds = 1 /\ Persistent(t.cols) /\ DropTemporaryColumns(name)
      \/ t.holds = 1 /\ ~Persistent(t.cols) /\ DropTable(name)
  BY <1>1, FreeTables
<1>. QED  BY <1>4, <1>5, <1>6, <1>7
\* New records of a table are an exchange of records when their keys differ.
LEMMA ExchangeIs ==
    ASSUME NEW name, NEW t, t = tables[name], TableOK(t), NEW out, NEW in,
           NEW new, new = (t.records \ out) \cup in, Becomes(name, Filled(t, new))
    PROVE  Statements!Exchange(name, out, in)
<1>1. PICK c, h, r : t = [cols |-> c, holds |-> h, records |-> r]
  BY TableFields DEF Tab
<1>2. [t EXCEPT !.records = new] = Filled(t, new)
  BY <1>1 DEF Filled, Tab
<1>3. tables' = [tables EXCEPT ![name] = [t EXCEPT !.records = new]]
  BY <1>2 DEF Becomes
<1>4. tables' = [tables EXCEPT ![name].records = (@ \ out) \cup in]
  BY <1>3
<1>5. \A p, q \in new : Key(t.cols, p) = Key(t.cols, q) => p = q
  <2>1. PICK u : u = Filled(t, new) /\ TableOK(u)
    BY DEF Becomes
  <2>2. u.cols = t.cols /\ u.records = new
    BY <2>1, TabFields DEF Filled
  <2>. QED  BY <2>1, <2>2, SMTT(30) DEF TableOK
<1>6. Statements!Distinct(t, new)
  <2>1. \A rec : Statements!KeyOf(t, rec) = Key(t.cols, rec)
    BY KeyIs
  <2>. QED  BY <1>5, <2>1 DEF Statements!Distinct
<1>. QED  BY <1>4, <1>6 DEF Statements!Exchange

\* The records that may be inserted are the specification's.
LEMMA NewRecordCells ==
    ASSUME NEW cols, NEW rec \in NewRecords(cols)
    PROVE  rec \in [cells : [DOMAIN cols -> Texts \cup {Null, Object}], temporary : BOOLEAN]
BY DEF NewRecords

\* INSERT does what the specification says.
LEMMA InsertIs ==
    ASSUME TablesInv, NEW name \in DOMAIN tables,
           NEW rec \in NewRecords(tables[name].cols), Insert(name, rec)
    PROVE  /\ rec \in [cells : [DOMAIN tables[name].cols -> Texts \cup {Null, Object}],
                       temporary : BOOLEAN]
           /\ Statements!Insert(name, rec)
<1>1. PICK t : t = tables[name] /\ TableOK(t) /\ t.cols \in Columns
  BY TableFields DEF TablesInv
<1>2. /\ Becomes(name, Filled(t, t.records \cup {rec}))
      /\ Fits(t.cols, rec) /\ rec \notin t.records
  BY <1>1, InsertTables
<1>3. Accepts(t.cols, rec, DOMAIN t.cols) /\ DOMAIN t.cols = 1..Len(t.cols)
  BY <1>1, ColumnsFacts DEF Insert
<1>4. ASSUME NEW i \in DOMAIN t.cols PROVE Statements!Admits(t.cols[i], rec, rec.cells[i])
  <2>1. ~Refused(rec, t.cols[i], rec.cells[i])
    BY <1>3 DEF Accepts
  <2>2. t.cols[i].type \in {"string", "binary"}
    BY <1>1, <1>3, ColumnsFacts DEF Column
  <2>3. rec.cells[i] = Object => t.cols[i].type = "binary"
    BY <1>2, <2>2 DEF Fits
  <2>. QED  BY <2>1, <2>3 DEF Statements!Admits, Refused, CellPersistent
<1>5. Statements!Exchange(name, {}, {rec})
  <2>1. PICK new : new = t.records \cup {rec}
    OBVIOUS
  <2>2. new = (t.records \ {}) \cup {rec} /\ Becomes(name, Filled(t, new))
    BY <1>2, <2>1
  <2>. QED  BY <1>1, <2>2, ExchangeIs
<1>6. CASE HasBinary(t.cols, rec)
  <2>1. PICK own : own = {StreamName(name, rec)}
    OBVIOUS
  <2>2. PICK data \in Payloads : \E h, p : AddStreams(own, own, h, data, p)
    BY <1>1, <1>6, <2>1 DEF Insert
  <2>3. Statements!Put(own, data)
    BY <2>2, PutIs
  <2>4. Statements!StreamsOf(name, {rec}) = own
    BY <2>1, KeyIs
  <2>5. Statements!Put(Statements!StreamsOf(name, {rec}), data)
    BY <2>3, <2>4 DEF Statements!Put
  <2>6. Statements!HasObject(t, rec)
    BY <1>1, <1>6, KeyIs
  <2>. QED  BY <1>1, <1>2, <1>4, <1>5, <2>2, <2>5, <2>6, NewRecordCells DEF Statements!Insert
<1>7. CASE ~HasBinary(t.cols, rec)
  <2>1. sources' = sources
    BY <1>1, <1>7 DEF Insert
  <2>2. ~Statements!HasObject(t, rec)
    BY <1>1, <1>7, KeyIs
  <2>. QED  BY <1>1, <1>2, <1>4, <1>5, <2>1, <2>2, NewRecordCells DEF Statements!Insert
<1>. QED  BY <1>6, <1>7
\* The records that an UPDATE leaves without a value keep their keys, and so
\* give up the streams they had.
LEMMA EmptiedStreams ==
    ASSUME TablesInv, NEW name \in DOMAIN tables, NEW t, t = tables[name],
           NEW recs \in SUBSET t.records, NEW i \in DOMAIN t.cols, ~t.cols[i].key
    PROVE  {StreamName(name, q) : q \in
                {r \in {With(rec, i, Null) : rec \in recs} : ~HasBinary(t.cols, r)}}
            = {StreamName(name, rec) : rec \in {r \in recs : ~HasBinary(t.cols, With(r, i, Null))}}
<1> DEFINE W(rec) == With(rec, i, Null)
<1>1. t.cols \in Columns /\ \A rec \in recs : rec \in Record /\ Fits(t.cols, rec)
  BY TableFields DEF TablesInv
<1>2. Null \in Value /\ Null # Object
  BY Constants DEF Value
<1>3. \A rec \in recs : Key(t.cols, W(rec)) = Key(t.cols, rec)
  BY <1>1, <1>2, WithFits
<1>4. \A rec \in recs : StreamName(name, W(rec)) = StreamName(name, rec)
  BY <1>3 DEF StreamName
<1> HIDE DEF W
<1>5. {StreamName(name, q) : q \in {r \in {W(rec) : rec \in recs} : ~HasBinary(t.cols, r)}}
        = {StreamName(name, rec) : rec \in {r \in recs : ~HasBinary(t.cols, W(r))}}
  BY <1>4
<1>. QED  BY <1>5 DEF W

\* UPDATE of a text column does what the specification says.
LEMMA UpdateTextIs ==
    ASSUME TablesInv, NEW name \in DOMAIN tables, NEW recs \in SUBSET tables[name].records,
           NEW i \in DOMAIN tables[name].cols, NEW v \in Texts \cup {Null},
           UpdateText(name, recs, i, v)
    PROVE  Statements!Update(name, recs, i, v)
<1>1. PICK t : t = tables[name] /\ TableOK(t) /\ t.cols \in Columns
  BY TableFields DEF TablesInv
<1>2. /\ t.cols[i].type = "string" /\ ~t.cols[i].key
      /\ v = Null => t.cols[i].nullable
      /\ sources' = sources
  BY <1>1 DEF UpdateText
<1>3. PICK changed : changed = {With(rec, i, v) : rec \in recs}
  OBVIOUS
<1>4. Statements!Exchange(name, recs, changed)
  <2>1. Becomes(name, Filled(t, Updated(t, recs, i, v)))
    BY <1>1, UpdateTables
  <2>. QED  BY <1>1, <1>3, <2>1, ExchangeIs DEF Updated
<1>5. v # Object
  BY Constants
<1>6. \A rec \in recs : Statements!Admits(t.cols[i], rec, v)
  BY <1>2, <1>5 DEF Statements!Admits
<1>7. Statements!Exchange(name, recs, {[rec EXCEPT !.cells[i] = v] : rec \in recs})
  BY <1>3, <1>4 DEF With
<1>. QED  BY <1>1, <1>2, <1>6, <1>7 DEF Statements!Update

\* UPDATE of an object column does what the specification says.
LEMMA UpdateObjectIs ==
    ASSUME TablesInv, NEW name \in DOMAIN tables, NEW recs \in SUBSET tables[name].records,
           NEW i \in DOMAIN tables[name].cols, NEW data \in Payloads,
           UpdateObject(name, recs, i, data)
    PROVE  Statements!Update(name, recs, i, Object)
<1>1. PICK t : t = tables[name] /\ TableOK(t) /\ t.cols \in Columns
  BY TableFields DEF TablesInv
<1>2. PICK names : names = {StreamName(name, rec) : rec \in recs}
  OBVIOUS
<1>3. /\ t.cols[i].type = "binary" /\ \A rec \in recs : CellPersistent(rec, t.cols[i])
      /\ \E h, p : AddStreams(names, names, h, data, p)
  BY <1>1, <1>2 DEF UpdateObject
<1>4. ~t.cols[i].key
  BY <1>1, <1>3, ColumnsFacts, SMTT(30)
<1>5. PICK changed : changed = {With(rec, i, Object) : rec \in recs}
  OBVIOUS
<1>6. Statements!Exchange(name, recs, changed)
  <2>1. Becomes(name, Filled(t, Updated(t, recs, i, Object)))
    BY <1>1, UpdateTables
  <2>. QED  BY <1>1, <1>5, <2>1, ExchangeIs DEF Updated
<1>7. \A rec \in recs : Statements!Admits(t.cols[i], rec, Object)
  BY <1>3, Constants DEF Statements!Admits, CellPersistent
<1>8. changed = {[rec EXCEPT !.cells[i] = Object] : rec \in recs}
  BY <1>5 DEF With
<1>9. Statements!Put(Statements!StreamsOf(name, recs), data)
  <2>1. Statements!Put(names, data)
    BY <1>3, PutIs
  <2>2. Statements!StreamsOf(name, recs) = names
    BY <1>2, KeyIs
  <2>. QED  BY <2>1, <2>2 DEF Statements!Put
<1>. QED  BY <1>1, <1>3, <1>4, <1>6, <1>7, <1>8, <1>9 DEF Statements!Update

\* UPDATE that removes an object does what the specification says.
LEMMA UpdateObjectToNullIs ==
    ASSUME TablesInv, NEW name \in DOMAIN tables, NEW recs \in SUBSET tables[name].records,
           NEW i \in DOMAIN tables[name].cols, UpdateObjectToNull(name, recs, i)
    PROVE  Statements!Update(name, recs, i, Null)
<1>1. PICK t : t = tables[name] /\ TableOK(t) /\ t.cols \in Columns
  BY TableFields DEF TablesInv
<1>2. PICK names : names =
            {StreamName(name, rec) : rec \in {r \in recs : ~HasBinary(t.cols, With(r, i, Null))}}
  OBVIOUS
<1>3. t.cols[i].type = "binary" /\ t.cols[i].nullable /\ DropStreams(names, pool)
  BY <1>1, <1>2 DEF UpdateObjectToNull
<1>4. ~t.cols[i].key
  BY <1>1, <1>3, ColumnsFacts
<1>5. PICK changed : changed = {With(rec, i, Null) : rec \in recs}
  OBVIOUS
<1>6. Statements!Exchange(name, recs, changed)
  <2>1. Becomes(name, Filled(t, Updated(t, recs, i, Null)))
    BY <1>1, UpdateTables
  <2>. QED  BY <1>1, <1>5, <2>1, ExchangeIs DEF Updated
<1>7. Null # Object
  BY Constants
<1>8. \A rec \in recs : Statements!Admits(t.cols[i], rec, Null)
  BY <1>3, <1>7 DEF Statements!Admits
<1>9. /\ Statements!Exchange(name, recs, {[rec EXCEPT !.cells[i] = Null] : rec \in recs})
      /\ changed = {[rec EXCEPT !.cells[i] = Null] : rec \in recs}
  BY <1>5, <1>6 DEF With
<1>10. Statements!Remove(Statements!StreamsOf(name, {rec \in changed : ~Statements!HasObject(t, rec)}))
  <2>1. Statements!Remove(names)
    BY <1>3, RemoveIs
  <2>2. PICK emptied : emptied = {rec \in changed : ~HasBinary(t.cols, rec)}
    OBVIOUS
  <2>3. {rec \in changed : ~Statements!HasObject(t, rec)} = emptied
    BY <1>1, <2>2, KeyIs
  <2>4. {StreamName(name, rec) : rec \in emptied} = names
    <3>1. {StreamName(name, q) : q \in
                {r \in {With(rec, i, Null) : rec \in recs} : ~HasBinary(t.cols, r)}} = names
      BY <1>1, <1>2, <1>4, EmptiedStreams
    <3>. QED  BY <1>5, <2>2, <3>1
  <2>5. Statements!StreamsOf(name, emptied) = names
    BY <2>4, KeyIs
  <2>. QED  BY <2>1, <2>3, <2>5 DEF Statements!Remove
<1>11. Statements!Remove(Statements!StreamsOf(name,
            {rec \in {[rec EXCEPT !.cells[i] = Null] : rec \in recs} : ~Statements!HasObject(tables[name], rec)}))
  BY <1>1, <1>9, <1>10 DEF Statements!Remove
<1>. QED  BY <1>1, <1>3, <1>4, <1>7, <1>8, <1>9, <1>11 DEF Statements!Update

\* DELETE does what the specification says.
LEMMA DeleteIs ==
    ASSUME TablesInv, NEW name \in DOMAIN tables, NEW recs \in SUBSET tables[name].records,
           Delete(name, recs)
    PROVE  Statements!Delete(name, recs)
<1>1. PICK t : t = tables[name] /\ TableOK(t)
  BY DEF TablesInv
<1>2. Statements!Exchange(name, recs, {})
  <2>1. PICK new : new = t.records \ recs
    OBVIOUS
  <2>2. new = (t.records \ recs) \cup {} /\ Becomes(name, Filled(t, new))
    BY <1>1, <2>1, DeleteTables
  <2>. QED  BY <1>1, <2>2, ExchangeIs
<1>3. PICK own, p : own = OwnStreams(name, recs) /\ DropStreams(own, p)
  BY DEF Delete
<1>4. Statements!ObjectsOf(name, recs) = own /\ Statements!Remove(own)
  BY <1>3, KeyIs, RemoveIs
<1>5. Statements!Remove(Statements!ObjectsOf(name, recs))
  BY <1>4 DEF Statements!Remove
<1>. QED  BY <1>2, <1>5 DEF Statements!Delete

\* ALTER TABLE HOLD does what the specification says.
LEMMA HoldIs ==
    ASSUME TablesInv, NEW name \in DOMAIN tables, Hold(name)
    PROVE  Statements!Hold(name)
BY DEF Hold, Statements!Hold

\* Streams with the same payloads have the same contents.
LEMMA SameContents ==
    ASSUME NEW src, DOMAIN src = DOMAIN sources,
           \A s \in DOMAIN sources : src[s].data = sources[s].data
    PROVE  [s \in DOMAIN src |-> src[s].data] = [s \in DOMAIN sources |-> sources[s].data]
OBVIOUS

\* Saving and opening again does what the specification says.
LEMMA ReopenIs ==
    ASSUME TablesInv, CatalogInv, StreamInvs, SaveAndOpen
    PROVE  Statements!Reopen
<1>1. PICK src : src = sources'
  OBVIOUS
<1>2. DOMAIN src = DOMAIN sources /\ \A s \in DOMAIN sources : src[s].data = sources[s].data
  BY <1>1, SaveStreams DEF StreamInvs
<1>3. [s \in DOMAIN src |-> src[s].data] = [s \in DOMAIN sources |-> sources[s].data]
  BY <1>2, SameContents
<1>4. PICK us : us = tables'
  OBVIOUS
<1>5. us = [n \in PersistentTables |-> Kept(tables[n])]
  BY <1>4, FileReads DEF SaveAndOpen
<1>6. {n \in DOMAIN tables : Statements!Lasting(tables[n].cols) # <<>>} = PersistentTables
  <2>1. \A n \in DOMAIN tables : tables[n].cols \in Columns
    BY TableFields DEF TablesInv
  <2>2. \A n \in DOMAIN tables :
            Statements!Lasting(tables[n].cols) # <<>> <=> Persistent(tables[n].cols)
    BY <2>1, LastingIs
  <2>. QED  BY <2>2 DEF PersistentTables
<1>7. ASSUME NEW n \in PersistentTables
      PROVE  Kept(tables[n]) =
                Statements!Reshaped([tables[n] EXCEPT !.records = {rec \in @ : ~rec.temporary}],
                                    Statements!Lasting(tables[n].cols), 0)
  <2>1. PICK t : t = tables[n] /\ TableOK(t) /\ t.cols \in Columns
    BY TableFields DEF TablesInv, PersistentTables
  <2>2. PICK recs : recs = {rec \in t.records : ~rec.temporary}
    OBVIOUS
  <2>3. PICK u : u = [t EXCEPT !.records = recs]
    OBVIOUS
  <2>4. u.records = recs
    <3>1. PICK c, h, r : t = [cols |-> c, holds |-> h, records |-> r]
      BY <2>1, TableFields DEF Tab
    <3>. QED  BY <2>3, <3>1
  <2>5. PICK new : new = PersistentColumns(t.cols) /\ new = Statements!Lasting(t.cols)
    BY <2>1, LastingIs
  <2>6. Statements!Reshaped(u, new, 0) = Tab(new, 0, {Resized(rec, Len(new)) : rec \in recs})
    BY <2>4, ReshapedIs DEF Reshaped
  <2>7. Kept(t) = Tab(new, 0, {Resized(rec, Len(new)) : rec \in recs})
    <3>1. Persistent(t.cols)
      BY <2>1 DEF PersistentTables
    <3>2. Len(new) = Width(t.cols)
      BY <2>1, <2>5, <3>1, PrefixReshapes
    <3>. QED  BY <2>2, <2>5, <3>2 DEF Kept, Lasting
  <2>. QED  BY <2>1, <2>2, <2>3, <2>5, <2>6, <2>7
<1>8. us = [n \in PersistentTables |->
                Statements!Reshaped([tables[n] EXCEPT !.records = {rec \in @ : ~rec.temporary}],
                                    Statements!Lasting(tables[n].cols), 0)]
  BY <1>5, <1>7
<1>. QED  BY <1>1, <1>3, <1>4, <1>6, <1>8 DEF Statements!Reopen

\* A statement about streams writes to streams, and changes nothing else.
LEMMA StreamStatementIs ==
    ASSUME NEW names \in SUBSET (UserStreams \cup {Summary} \cup DOMAIN sources),
           NEW data \in Payloads, UNCHANGED tables,
           \E owned, h, p : AddStreams(names, owned, h, data, p)
    PROVE  Statements!Next
<1>1. Statements!Put(names, data)
  BY PutIs
<1>2. DOMAIN [s \in DOMAIN sources |-> sources[s].data] = DOMAIN sources
  OBVIOUS
<1>. QED  BY <1>1, <1>2 DEF Statements!Next

\* A new database is one to the specification.
LEMMA InitIs == Init => Statements!Init
<1> SUFFICES ASSUME Init PROVE Statements!Init
  OBVIOUS
<1>1. DOMAIN sources = {}
  BY DEF Init
<1>2. [s \in DOMAIN sources |-> sources[s].data] = [s \in {} |-> Null]
  BY <1>1
<1>. QED  BY <1>2 DEF Init, Statements!Init
\* Each statement's step, with the statement that it is.
LEMMA StatementStep == DatabaseInv /\ [Next]_vars => [Statements!Next]_(Statements!vars)
<1> SUFFICES ASSUME DatabaseInv, [Next]_vars PROVE Statements!Next
  OBVIOUS
<1>1. ShapeInv /\ CountInv /\ TablesInv /\ CatalogInv /\ StreamInvs
  BY DEF DatabaseInv, ShapeInv
<1>2. UNCHANGED vars => Statements!Next
  <2>1. UNCHANGED vars => Statements!Fail
    BY DEF vars, Statements!Fail, Statements!vars
  <2>. QED  BY <2>1 DEF Statements!Next
<1>3. ASSUME NEW name \in TableNames, NEW cols \in Schemas, NEW hold \in BOOLEAN,
             CreateTable(name, cols, hold)
      PROVE  Statements!Next
  BY <1>1, <1>3, CreateIs DEF Statements!Next
<1>4. ASSUME NEW name \in DOMAIN tables
      PROVE  /\ Hold(name) \/ Free(name) \/ Drop(name) => Statements!Next
             /\ \A c \in Additions, hold \in BOOLEAN : AddColumn(name, c, hold) => Statements!Next
             /\ \A rec \in NewRecords(tables[name].cols) :
                    Insert(name, rec) \/ InsertFails(name, rec) => Statements!Next
             /\ \A recs \in SUBSET tables[name].records \ {{}} :
                    /\ Delete(name, recs) => Statements!Next
                    /\ \A i \in DOMAIN tables[name].cols :
                        /\ \A v \in Texts \cup {Null} : UpdateText(name, recs, i, v) => Statements!Next
                        /\ \A data \in Payloads : UpdateObject(name, recs, i, data) => Statements!Next
                        /\ UpdateObjectToNull(name, recs, i) => Statements!Next
  <2>1. Hold(name) => Statements!Next
    BY <1>1, HoldIs DEF Statements!Next
  <2>2. Free(name) => Statements!Next
    BY <1>1, FreeIs DEF Statements!Next
  <2>3. Drop(name) => Statements!Next
    BY DropIs DEF Drop, Statements!Next
  <2>4. ASSUME NEW c \in Additions, NEW hold \in BOOLEAN, AddColumn(name, c, hold)
        PROVE  Statements!Next
    BY <1>1, <2>4, AddIs DEF Statements!Next
  <2>5. ASSUME NEW rec \in NewRecords(tables[name].cols), Insert(name, rec)
        PROVE  Statements!Next
    BY <1>1, <2>5, InsertIs DEF Statements!Next
  <2>6. ASSUME NEW rec, InsertFails(name, rec)
        PROVE  Statements!Next
    BY <1>1, <1>2, <2>6, FailedInsert
  <2>7. ASSUME NEW recs \in SUBSET tables[name].records \ {{}}
        PROVE  /\ Delete(name, recs) => Statements!Next
               /\ \A i \in DOMAIN tables[name].cols :
                    /\ \A v \in Texts \cup {Null} : UpdateText(name, recs, i, v) => Statements!Next
                    /\ \A data \in Payloads : UpdateObject(name, recs, i, data) => Statements!Next
                    /\ UpdateObjectToNull(name, recs, i) => Statements!Next
    <3>1. Delete(name, recs) => Statements!Next
      BY <1>1, DeleteIs DEF Statements!Next
    <3>2. ASSUME NEW i \in DOMAIN tables[name].cols,
                 \E v \in Texts \cup {Null, Object} : Statements!Update(name, recs, i, v)
          PROVE  Statements!Next
      BY <3>2 DEF Statements!Next
    <3>. QED  BY <1>1, <3>1, <3>2, UpdateTextIs, UpdateObjectIs, UpdateObjectToNullIs
  <2>. QED  BY <2>1, <2>2, <2>3, <2>4, <2>5, <2>6, <2>7
<1>5. ASSUME NEW data \in Payloads,
             SetSummaryInformation(data) \/ \E s \in UserStreams : InsertStream(s, data)
      PROVE  Statements!Next
  <2>1. PICK s \in UserStreams \cup {Summary} :
            UNCHANGED tables /\ \E owned, h, p : AddStreams({s}, owned, h, data, p)
    BY <1>5 DEF SetSummaryInformation, InsertStream
  <2>. QED  BY <2>1, StreamStatementIs
<1>6. ASSUME NEW names \in SUBSET DOMAIN sources, NEW data \in Payloads, UpdateStreams(names, data)
      PROVE  Statements!Next
  <2>1. UNCHANGED tables /\ \E owned, h, p : AddStreams(names, owned, h, data, p)
    BY <1>6 DEF UpdateStreams
  <2>. QED  BY <2>1, StreamStatementIs
<1>7. ASSUME NEW names \in SUBSET DOMAIN sources, DeleteStreams(names)
      PROVE  Statements!Next
  <2>1. UNCHANGED tables /\ Statements!Remove(names)
    BY <1>7, RemoveIs DEF DeleteStreams
  <2>2. DOMAIN [s \in DOMAIN sources |-> sources[s].data] = DOMAIN sources
    OBVIOUS
  <2>. QED  BY <2>1, <2>2 DEF Statements!Next
<1>8. SaveAndOpen => Statements!Next
  BY <1>1, ReopenIs DEF Statements!Next
<1>. QED  BY <1>2, <1>3, <1>4, <1>5, <1>6, <1>7, <1>8 DEF Next

\* The whole bookkeeping - system tables, reference counts of two kinds, shared
\* blobs, the file and what Open makes of it - is invisible to a program: each
\* statement has exactly the effect that it has on plain tables and streams.
THEOREM ImplementsSpec == Spec => ImplementsDatabaseSpec
<1>1. Init => Statements!Init
  BY InitIs
<1>2. DatabaseInv /\ [Next]_vars => [Statements!Next]_(Statements!vars)
  BY StatementStep
<1>. QED  BY <1>1, <1>2, DatabaseInvariant, PTL DEF Spec, ImplementsDatabaseSpec, Statements!Spec

=============================================================================
