------------------------- MODULE PoolClientsProofs --------------------------
(***************************************************************************)
(* The pool and its cells, for any number of cells and strings and any     *)
(* ceiling. First, what Intern, Release and a save do to a consistent      *)
(* pool: RefsOf extends the counters to all IDs, so that a new slot counts *)
(* from 0 like a reused one. Then four inductive invariants, resting on    *)
(* each other: the pool is consistent; unless saturated, its counters are  *)
(* the numbers of cells; with fewer cells than the ceiling it is never     *)
(* saturated; and, saturated or not, it counts no more than the cells, so  *)
(* that slots are reused.                                                  *)
(***************************************************************************)
EXTENDS PoolClients, FiniteSetTheorems, TLAPS

RefsOf(p, id, kind) == IF id \in Ids(p) THEN p.entries[id].refs[kind] ELSE 0

\* The string that an ID means.
Says(p, id, s) ==
    id \in Ids(p) /\ Live(p, id) /\ p.entries[id].s = s

-----------------------------------------------------------------------------
\* The counters of a slot stay in their range, and a slot with a reference
\* added is live.
LEMMA BumpRefs ==
    ASSUME NEW refs \in [Kinds -> 0..MaxRefcount], NEW kind \in Kinds
    PROVE  /\ Bump(refs, kind) \in [Kinds -> 0..MaxRefcount]
           /\ Bump(refs, kind) # NoRefs
           /\ \A k \in Kinds : Bump(refs, kind)[k] =
                IF k = kind /\ refs[k] < MaxRefcount THEN refs[k] + 1 ELSE refs[k]
BY StringPoolAssumption DEF Bump, NoRefs

\* Dropping a reference lowers one count.
LEMMA DropRefs ==
    ASSUME NEW refs \in [Kinds -> 0..MaxRefcount], NEW kind \in Kinds, refs[kind] > 0
    PROVE  /\ Drop(refs, kind) \in [Kinds -> 0..MaxRefcount]
           /\ \A k \in Kinds : Drop(refs, kind)[k] =
                IF k = kind THEN refs[k] - 1 ELSE refs[k]
BY StringPoolAssumption DEF Drop

\* Nothing is referred to at first.
LEMMA NoRefsType == NoRefs \in [Kinds -> 0..MaxRefcount] /\ \A k \in Kinds : NoRefs[k] = 0
BY StringPoolAssumption DEF NoRefs

\* The fields of a pool and the slots of its table have their types.
LEMMA PoolFields ==
    ASSUME NEW p \in Pool
    PROVE  /\ p.entries \in Seq(Entry)
           /\ p.index \in [Strings -> Nat]
           /\ p.free \in Seq(Nat)
           /\ p.codepage \in Codepages
           /\ p.longRefs \in BOOLEAN
           /\ Len(p.entries) \in Nat
           /\ Ids(p) \subseteq Nat \ {0}
           /\ \A id \in Ids(p) :
                /\ p.entries[id] \in Entry
                /\ p.entries[id].s \in Strings \cup {Blank}
                /\ p.entries[id].refs \in [Kinds -> 0..MaxRefcount]
<1>1. /\ p.entries \in Seq(Entry)
      /\ p.index \in [Strings -> Nat]
      /\ p.free \in Seq(Nat)
      /\ p.codepage \in Codepages
      /\ p.longRefs \in BOOLEAN
  BY DEF Pool
<1>2. /\ Len(p.entries) \in Nat
      /\ Ids(p) \subseteq Nat \ {0}
      /\ \A id \in Ids(p) : p.entries[id] \in Entry
  BY <1>1 DEF Ids
<1>3. \A e \in Entry : e.s \in Strings \cup {Blank} /\ e.refs \in [Kinds -> 0..MaxRefcount]
  BY DEF Entry
<1>. QED  BY <1>1, <1>2, <1>3

\* A slot with a counter above 0 is live, and a live slot has one.
LEMMA LiveCounts ==
    ASSUME NEW p \in Pool, NEW id \in Ids(p)
    PROVE  Live(p, id) <=> \E k \in Kinds : p.entries[id].refs[k] > 0
<1>1. p.entries[id].refs \in [Kinds -> 0..MaxRefcount]
  BY PoolFields
<1>2. ASSUME \A k \in Kinds : p.entries[id].refs[k] = 0
      PROVE  p.entries[id].refs = NoRefs
  BY <1>1, <1>2 DEF NoRefs
<1>. QED  BY <1>1, <1>2, NoRefsType, StringPoolAssumption DEF Live

\* Overwriting a slot leaves the others and their number alone.
LEMMA SetSlot ==
    ASSUME NEW S, NEW seq \in Seq(S), NEW id \in 1..Len(seq), NEW e \in S
    PROVE  LET new == [seq EXCEPT ![id] = e] IN
           /\ new \in Seq(S)
           /\ Len(new) = Len(seq)
           /\ \A i \in 1..Len(seq) : new[i] = IF i = id THEN e ELSE seq[i]
OBVIOUS

-----------------------------------------------------------------------------
\* Interning a string the pool holds touches one slot's counters.
LEMMA ReferenceConsistent ==
    ASSUME NEW p \in Pool, Consistent(p), NEW s \in Strings, NEW kind \in Kinds,
           p.index[s] # 0
    PROVE  LET q  == Reference(p, s, kind)
               id == p.index[s]
           IN
           /\ q \in Pool
           /\ Consistent(q)
           /\ Ids(q) = Ids(p)
           /\ Says(p, id, s) /\ Says(q, id, s)
           /\ q.entries[id].refs = Bump(p.entries[id].refs, kind)
           /\ \A i \in Ids(p) : i # id => q.entries[i] = p.entries[i]
<1> DEFINE q  == Reference(p, s, kind)
           id == p.index[s]
           e  == [p.entries[id] EXCEPT !.refs = Bump(@, kind)]
<1>1. Says(p, id, s)
  BY DEF Consistent, IndexMatchesEntries, Says
<1>2. /\ Bump(p.entries[id].refs, kind) \in [Kinds -> 0..MaxRefcount]
      /\ Bump(p.entries[id].refs, kind) # NoRefs
  BY <1>1, BumpRefs, PoolFields DEF Says
<1>3. /\ e \in Entry
      /\ e.s = s
      /\ e.refs = Bump(p.entries[id].refs, kind)
  BY <1>1, <1>2, PoolFields DEF Entry, Says
<1>4. /\ q.entries = [p.entries EXCEPT ![id] = e]
      /\ q.index = p.index
      /\ q.free = p.free
      /\ q \in [entries: {q.entries}, index: {p.index}, free: {p.free},
                codepage: {p.codepage}, longRefs: {p.longRefs}]
  BY DEF Reference, Pool
<1> HIDE DEF q, e
<1>5. /\ q.entries \in Seq(Entry)
      /\ Len(q.entries) = Len(p.entries)
      /\ \A i \in Ids(p) : q.entries[i] = IF i = id THEN e ELSE p.entries[i]
  BY <1>1, <1>3, <1>4, PoolFields, SetSlot DEF Ids, Says
<1>6. q \in Pool
  BY <1>4, <1>5, PoolFields DEF Pool
<1>7. Ids(q) = Ids(p)
  BY <1>5 DEF Ids
<1>8. \A i \in Ids(p) :
        /\ Live(q, i) <=> Live(p, i)
        /\ q.entries[i].s = p.entries[i].s
  BY <1>1, <1>2, <1>3, <1>5 DEF Live, Says
<1>9. Consistent(q)
  BY <1>4, <1>7, <1>8, PoolFields DEF Consistent, IndexMatchesEntries, FreeListExact
<1>10. Says(q, id, s)
  BY <1>1, <1>7, <1>8 DEF Says
<1>. QED  BY <1>1, <1>3, <1>5, <1>6, <1>7, <1>9, <1>10 DEF q, Says

\* A free slot taken for a new string: it leaves the free list and is live.
LEMMA ReuseConsistent ==
    ASSUME NEW p \in Pool, Consistent(p), NEW s \in Strings, NEW kind \in Kinds,
           p.index[s] = 0, p.free # <<>>
    PROVE  LET q  == ReuseSlot(p, s, kind)
               id == p.free[Len(p.free)]
           IN
           /\ q \in Pool
           /\ Consistent(q)
           /\ Ids(q) = Ids(p)
           /\ id \in Ids(p) /\ ~Live(p, id) /\ Says(q, id, s)
           /\ q.entries[id].refs = Bump(NoRefs, kind)
           /\ \A i \in Ids(p) : i # id => q.entries[i] = p.entries[i]
<1> DEFINE q    == ReuseSlot(p, s, kind)
           last == Len(p.free)
           id   == p.free[last]
           e    == [s |-> s, refs |-> Bump(NoRefs, kind)]
<1>1. /\ last \in DOMAIN p.free
      /\ last \in Nat
      /\ id \in Ids(p)
      /\ ~Live(p, id)
  BY PoolFields DEF Consistent, FreeListExact
<1>2. /\ Bump(NoRefs, kind) \in [Kinds -> 0..MaxRefcount]
      /\ Bump(NoRefs, kind) # NoRefs
  BY BumpRefs, NoRefsType
<1>3. e \in Entry /\ e.s = s /\ e.refs = Bump(NoRefs, kind)
  BY <1>2 DEF Entry
<1>4. /\ q.entries = [p.entries EXCEPT ![id] = e]
      /\ q.index = [p.index EXCEPT ![s] = id]
      /\ q.free = SubSeq(p.free, 1, last - 1)
      /\ q \in [entries: {q.entries}, index: {q.index}, free: {q.free},
                codepage: {p.codepage}, longRefs: {p.longRefs}]
  BY DEF ReuseSlot, Pool
<1> HIDE DEF q, e, id, last
<1>5. /\ q.entries \in Seq(Entry)
      /\ Len(q.entries) = Len(p.entries)
      /\ \A i \in Ids(p) : q.entries[i] = IF i = id THEN e ELSE p.entries[i]
  BY <1>1, <1>3, <1>4, PoolFields, SetSlot DEF Ids
<1>6. /\ q.free \in Seq(Nat)
      /\ DOMAIN q.free = 1..(last - 1)
      /\ DOMAIN p.free = 1..last
      /\ \A i \in 1..(last - 1) : q.free[i] = p.free[i]
  BY <1>1, <1>4, PoolFields, SMTT(30) DEF last
<1>7. q.index \in [Strings -> Nat]
  BY <1>1, <1>4, PoolFields
<1>8. q \in Pool
  BY <1>4, <1>5, <1>6, <1>7, PoolFields DEF Pool
<1>9. Ids(q) = Ids(p)
  BY <1>5 DEF Ids
<1>10. \A i \in Ids(p) :
        /\ Live(q, i) <=> (i = id \/ Live(p, i))
        /\ q.entries[i].s = IF i = id THEN s ELSE p.entries[i].s
  BY <1>2, <1>3, <1>5 DEF Live
<1>11. IndexMatchesEntries(q)
  <2>1. \A x \in Strings : q.index[x] = IF x = s THEN id ELSE p.index[x]
    BY <1>4, PoolFields
  <2>2. \A x \in Strings : p.index[x] # 0 => p.index[x] # id
    BY <1>1 DEF Consistent, IndexMatchesEntries
  <2>3. \A i \in Ids(p) : Live(p, i) => p.entries[i].s # s
    BY <1>1, PoolFields DEF Consistent, IndexMatchesEntries
  <2>4. ASSUME NEW x \in Strings, q.index[x] # 0
        PROVE  Says(q, q.index[x], x)
    <3>1. CASE x = s
      BY <1>1, <1>9, <1>10, <2>1, <3>1 DEF Says
    <3>2. CASE x # s
      <4>1. Says(p, p.index[x], x)
        BY <2>1, <2>4, <3>2 DEF Consistent, IndexMatchesEntries, Says
      <4>. QED  BY <1>9, <1>10, <2>1, <2>2, <2>4, <3>2, <4>1 DEF Says
    <3>. QED  BY <3>1, <3>2
  <2>5. ASSUME NEW i \in Ids(q), Live(q, i)
        PROVE  q.entries[i].s \in Strings /\ q.index[q.entries[i].s] = i
    <3>1. CASE i = id
      BY <1>1, <1>10, <2>1, <3>1
    <3>2. CASE i # id
      BY <1>9, <1>10, <2>1, <2>3, <2>5, <3>2 DEF Consistent, IndexMatchesEntries
    <3>. QED  BY <3>1, <3>2
  <2>. QED  BY <2>4, <2>5 DEF IndexMatchesEntries, Says
<1>12. FreeListExact(q)
  <2>1. \A i \in 1..(last - 1) : p.free[i] # id
    <3>1. \A i, j \in 1..last : p.free[i] = p.free[j] => i = j
      BY <1>6 DEF Consistent, FreeListExact
    <3>2. \A i \in 1..(last - 1) : i \in 1..last /\ i # last
      BY <1>1
    <3>. QED  BY <1>1, <1>6, <3>1, <3>2 DEF id
  <2>2. \A i \in Ids(p) : ~Live(p, i) /\ i # id =>
            \E j \in 1..(last - 1) : p.free[j] = i
    <3>1. \A j \in 1..last : j = last \/ j \in 1..(last - 1)
      BY <1>1
    <3>. QED  BY <1>6, <3>1 DEF Consistent, FreeListExact, id
  <2>3. 1..(last - 1) \subseteq 1..last
    BY <1>1
  <2>. QED
    BY <1>6, <1>9, <1>10, <2>1, <2>2, <2>3, SMTT(30) DEF Consistent, FreeListExact
<1>13. Says(q, id, s)
  BY <1>1, <1>9, <1>10 DEF Says
<1>. QED
  BY <1>1, <1>3, <1>5, <1>8, <1>9, <1>11, <1>12, <1>13 DEF q, id, last, Consistent

\* A new slot at the end, when no slot is free.
LEMMA AppendConsistent ==
    ASSUME NEW p \in Pool, Consistent(p), NEW s \in Strings, NEW kind \in Kinds,
           p.index[s] = 0, p.free = <<>>
    PROVE  LET q  == AppendSlot(p, s, kind)
               id == Len(p.entries) + 1
           IN
           /\ q \in Pool
           /\ Consistent(q)
           /\ id \notin Ids(p)
           /\ Ids(q) = Ids(p) \cup {id}
           /\ Says(q, id, s)
           /\ q.entries[id].refs = Bump(NoRefs, kind)
           /\ \A i \in Ids(p) : q.entries[i] = p.entries[i]
<1> DEFINE q  == AppendSlot(p, s, kind)
           id == Len(p.entries) + 1
           e  == [s |-> s, refs |-> Bump(NoRefs, kind)]
<1>1. /\ Bump(NoRefs, kind) \in [Kinds -> 0..MaxRefcount]
      /\ Bump(NoRefs, kind) # NoRefs
  BY BumpRefs, NoRefsType
<1>2. e \in Entry /\ e.s = s /\ e.refs = Bump(NoRefs, kind)
  BY <1>1 DEF Entry
<1>3. /\ q.entries = Append(p.entries, e)
      /\ q.index = [p.index EXCEPT ![s] = id]
      /\ q.free = p.free
      /\ q \in [entries: {q.entries}, index: {q.index}, free: {p.free},
                codepage: {p.codepage}, longRefs: {p.longRefs}]
  BY DEF AppendSlot, Pool
<1> HIDE DEF q, e
<1>4. /\ q.entries \in Seq(Entry)
      /\ Len(q.entries) = id
      /\ q.entries[id] = e
      /\ \A i \in Ids(p) : q.entries[i] = p.entries[i]
  BY <1>2, <1>3, PoolFields DEF Ids
<1>5. /\ id \in Nat \ {0}
      /\ id \notin Ids(p)
      /\ Ids(q) = Ids(p) \cup {id}
  BY <1>4, PoolFields DEF Ids
<1> HIDE DEF id
<1>6. q.index \in [Strings -> Nat]
  BY <1>3, <1>5, PoolFields
<1>7. q \in Pool
  BY <1>3, <1>4, <1>6, PoolFields DEF Pool
<1>8. \A i \in Ids(q) :
        /\ Live(q, i) <=> (i = id \/ Live(p, i))
        /\ q.entries[i].s = IF i = id THEN s ELSE p.entries[i].s
  BY <1>1, <1>2, <1>4, <1>5 DEF Live
<1>9. IndexMatchesEntries(q)
  <2>1. \A x \in Strings : q.index[x] = IF x = s THEN id ELSE p.index[x]
    BY <1>3, PoolFields
  <2>2. \A i \in Ids(p) : Live(p, i) => p.entries[i].s # s
    BY PoolFields DEF Consistent, IndexMatchesEntries
  <2>3. ASSUME NEW x \in Strings, q.index[x] # 0
        PROVE  Says(q, q.index[x], x)
    <3>1. CASE x = s
      BY <1>5, <1>8, <2>1, <3>1 DEF Says
    <3>2. CASE x # s
      <4>1. Says(p, p.index[x], x)
        BY <2>1, <2>3, <3>2 DEF Consistent, IndexMatchesEntries, Says
      <4>. QED  BY <1>5, <1>8, <2>1, <3>2, <4>1 DEF Says
    <3>. QED  BY <3>1, <3>2
  <2>4. ASSUME NEW i \in Ids(q), Live(q, i)
        PROVE  q.entries[i].s \in Strings /\ q.index[q.entries[i].s] = i
    <3>1. CASE i = id
      BY <1>8, <2>1, <2>4, <3>1
    <3>2. CASE i # id
      BY <1>5, <1>8, <2>1, <2>2, <2>4, <3>2 DEF Consistent, IndexMatchesEntries
    <3>. QED  BY <3>1, <3>2
  <2>. QED  BY <2>3, <2>4 DEF IndexMatchesEntries, Says
<1>10. FreeListExact(q)
  BY <1>3, <1>5, <1>8, PoolFields DEF Consistent, FreeListExact
<1>11. Says(q, id, s)
  BY <1>5, <1>8 DEF Says
<1>. QED
  BY <1>2, <1>4, <1>5, <1>7, <1>9, <1>10, <1>11 DEF q, id, Consistent

\* One reference fewer, and others left: only the counter moves.
LEMMA UnreferenceConsistent ==
    ASSUME NEW p \in Pool, Consistent(p), NEW kind \in Kinds, NEW id,
           Releasable(p, id, kind), Drop(p.entries[id].refs, kind) # NoRefs
    PROVE  LET q == Unreference(p, id, kind) IN
           /\ q \in Pool
           /\ Consistent(q)
           /\ Ids(q) = Ids(p)
           /\ q.entries[id].s = p.entries[id].s
           /\ q.entries[id].refs = Drop(p.entries[id].refs, kind)
           /\ \A i \in Ids(p) : i # id => q.entries[i] = p.entries[i]
<1> DEFINE q == Unreference(p, id, kind)
           e == [p.entries[id] EXCEPT !.refs = Drop(@, kind)]
<1>1. /\ id \in Ids(p)
      /\ p.entries[id].refs[kind] > 0
      /\ Live(p, id)
  BY LiveCounts DEF Releasable
<1>2. Drop(p.entries[id].refs, kind) \in [Kinds -> 0..MaxRefcount]
  BY <1>1, DropRefs, PoolFields
<1>3. /\ e \in Entry
      /\ e.s = p.entries[id].s
      /\ e.refs = Drop(p.entries[id].refs, kind)
  BY <1>1, <1>2, PoolFields DEF Entry
<1>4. /\ q.entries = [p.entries EXCEPT ![id] = e]
      /\ q.index = p.index
      /\ q.free = p.free
      /\ q \in [entries: {q.entries}, index: {p.index}, free: {p.free},
                codepage: {p.codepage}, longRefs: {p.longRefs}]
  BY DEF Unreference, Pool
<1> HIDE DEF q, e
<1>5. /\ q.entries \in Seq(Entry)
      /\ Len(q.entries) = Len(p.entries)
      /\ \A i \in Ids(p) : q.entries[i] = IF i = id THEN e ELSE p.entries[i]
  BY <1>1, <1>3, <1>4, PoolFields, SetSlot DEF Ids
<1>6. q \in Pool
  BY <1>4, <1>5, PoolFields DEF Pool
<1>7. Ids(q) = Ids(p)
  BY <1>5 DEF Ids
<1>8. \A i \in Ids(p) :
        /\ Live(q, i) <=> Live(p, i)
        /\ q.entries[i].s = p.entries[i].s
  BY <1>1, <1>3, <1>5 DEF Live
<1>9. Consistent(q)
  BY <1>4, <1>7, <1>8, PoolFields DEF Consistent, IndexMatchesEntries, FreeListExact
<1>. QED  BY <1>1, <1>3, <1>5, <1>6, <1>7, <1>9 DEF q

\* The last reference gone: the string leaves the index, the slot joins the
\* free list.
LEMMA FreeSlotConsistent ==
    ASSUME NEW p \in Pool, Consistent(p), NEW id \in Ids(p), Live(p, id)
    PROVE  LET q == FreeSlot(p, id) IN
           /\ q \in Pool
           /\ Consistent(q)
           /\ Ids(q) = Ids(p)
           /\ q.entries[id].refs = NoRefs
           /\ \A i \in Ids(p) : i # id => q.entries[i] = p.entries[i]
<1> DEFINE q == FreeSlot(p, id)
           s == p.entries[id].s
           e == [s |-> Blank, refs |-> NoRefs]
           n == Len(p.free) + 1
<1>1. e \in Entry /\ e.refs = NoRefs
  BY NoRefsType DEF Entry
<1>2. s \in Strings /\ p.index[s] = id
  BY DEF Consistent, IndexMatchesEntries
<1>3. /\ q.entries = [p.entries EXCEPT ![id] = e]
      /\ q.index = [p.index EXCEPT ![s] = 0]
      /\ q.free = Append(p.free, id)
      /\ q \in [entries: {q.entries}, index: {q.index}, free: {q.free},
                codepage: {p.codepage}, longRefs: {p.longRefs}]
  BY DEF FreeSlot, Pool
<1> HIDE DEF q, s, e
<1>4. /\ q.entries \in Seq(Entry)
      /\ Len(q.entries) = Len(p.entries)
      /\ \A i \in Ids(p) : q.entries[i] = IF i = id THEN e ELSE p.entries[i]
  BY <1>1, <1>3, PoolFields, SetSlot DEF Ids
<1>5. /\ n \in Nat
      /\ n \in 1..n
      /\ q.free \in Seq(Nat)
      /\ DOMAIN q.free = 1..n
      /\ DOMAIN p.free = 1..(n - 1)
      /\ q.free[n] = id
      /\ \A i \in 1..(n - 1) : q.free[i] = p.free[i]
  BY <1>3, PoolFields
<1> HIDE DEF n
<1>6. /\ q.index \in [Strings -> Nat]
      /\ \A x \in Strings : q.index[x] = IF x = s THEN 0 ELSE p.index[x]
  BY <1>2, <1>3, PoolFields
<1>7. q \in Pool
  BY <1>3, <1>4, <1>5, <1>6, PoolFields DEF Pool
<1>8. Ids(q) = Ids(p)
  BY <1>4 DEF Ids
<1>9. \A i \in Ids(p) : Live(q, i) <=> (i # id /\ Live(p, i))
  BY <1>1, <1>4 DEF Live
<1>10. IndexMatchesEntries(q)
  <2>1. ASSUME NEW x \in Strings, q.index[x] # 0
        PROVE  Says(q, q.index[x], x)
    <3>1. x # s /\ q.index[x] = p.index[x]
      BY <1>6, <2>1
    <3>2. Says(p, p.index[x], x)
      BY <2>1, <3>1 DEF Consistent, IndexMatchesEntries, Says
    <3>3. p.index[x] # id
      BY <3>1, <3>2 DEF Says, s
    <3>. QED  BY <1>4, <1>8, <1>9, <3>1, <3>2, <3>3 DEF Says
  <2>2. ASSUME NEW i \in Ids(q), Live(q, i)
        PROVE  q.entries[i].s \in Strings /\ q.index[q.entries[i].s] = i
    <3>1. i \in Ids(p) /\ i # id /\ Live(p, i) /\ q.entries[i] = p.entries[i]
      BY <1>4, <1>8, <1>9, <2>2
    <3>2. p.entries[i].s \in Strings /\ p.index[p.entries[i].s] = i
      BY <3>1 DEF Consistent, IndexMatchesEntries
    <3>3. p.entries[i].s # s
      BY <1>2, <3>1, <3>2
    <3>. QED  BY <1>6, <3>1, <3>2, <3>3
  <2>. QED  BY <2>1, <2>2 DEF IndexMatchesEntries, Says
<1>11. FreeListExact(q)
  <2>1. \A i \in 1..(n - 1) : p.free[i] \in Ids(p) /\ ~Live(p, p.free[i])
    BY <1>5 DEF Consistent, FreeListExact
  <2>2. \A i \in 1..n : i = n \/ i \in 1..(n - 1)
    BY <1>5
  <2>3. ASSUME NEW i \in 1..n, NEW j \in 1..n, q.free[i] = q.free[j]
        PROVE  i = j
    <3>1. \A k, l \in 1..(n - 1) : p.free[k] = p.free[l] => k = l
      BY <1>5 DEF Consistent, FreeListExact
    <3>. QED  BY <1>5, <2>1, <2>2, <2>3, <3>1
  <2>4. \A i \in 1..n : q.free[i] \in Ids(q) /\ ~Live(q, q.free[i])
    BY <1>5, <1>8, <1>9, <2>1, <2>2
  <2>5. ASSUME NEW i \in Ids(q), ~Live(q, i)
        PROVE  \E j \in 1..n : q.free[j] = i
    <3>1. CASE i = id
      BY <1>5, <3>1
    <3>2. CASE i # id
      <4>1. PICK j \in 1..(n - 1) : p.free[j] = i
        BY <1>5, <1>8, <1>9, <2>5, <3>2 DEF Consistent, FreeListExact
      <4>2. j \in 1..n /\ q.free[j] = i
        BY <1>5, <4>1
      <4>. QED  BY <4>2
    <3>. QED  BY <3>1, <3>2
  <2>. QED  BY <1>5, <2>3, <2>4, <2>5 DEF FreeListExact
<1>. QED  BY <1>1, <1>4, <1>7, <1>8, <1>10, <1>11 DEF q, Consistent

-----------------------------------------------------------------------------

\* Interning keeps the code page.
LEMMA InternCodepage ==
    ASSUME NEW p \in Pool, NEW s, NEW kind
    PROVE  Intern(p, s, kind).codepage = p.codepage
BY DEF Pool, Intern, Reference, ReuseSlot, AppendSlot

\* Releasing keeps the code page.
LEMMA ReleaseCodepage ==
    ASSUME NEW p \in Pool, NEW id, NEW kind
    PROVE  Release(p, id, kind).codepage = p.codepage
BY DEF Pool, Release, Unreference, FreeSlot

\* Counts are counts, and none of a slot that is not live.
LEMMA RefsOfType ==
    ASSUME NEW p \in Pool, NEW id, NEW k \in Kinds
    PROVE  /\ RefsOf(p, id, k) \in 0..MaxRefcount
           /\ id \in Ids(p) /\ ~Live(p, id) => RefsOf(p, id, k) = 0
BY PoolFields, NoRefsType, StringPoolAssumption DEF RefsOf, Live

\* Intern keeps the pool consistent, returns an ID that means the string,
\* moves no other string, and counts one reference unless the counter is at
\* its ceiling.
THEOREM InternEffect ==
    ASSUME NEW p \in Pool, Consistent(p), NEW s \in Strings, NEW kind \in Kinds
    PROVE  LET q  == Intern(p, s, kind)
               id == InternID(p, s)
           IN
           /\ q \in Pool
           /\ Consistent(q)
           /\ Says(q, id, s)
           /\ Ids(q) = Ids(p) \cup {id}
           /\ \A i \in Ids(p) :
                i # id => q.entries[i] = p.entries[i]
           /\ Live(p, id) /\ id \in Ids(p) => Says(p, id, s)
           /\ p.index[s] # 0 => p.index[s] = id
           /\ p.index[s] = 0 => \A k \in Kinds : RefsOf(p, id, k) = 0
           /\ \A i \in Nat, k \in Kinds : RefsOf(q, i, k) =
                IF i = id /\ k = kind /\ RefsOf(p, i, k) < MaxRefcount
                THEN RefsOf(p, i, k) + 1 ELSE RefsOf(p, i, k)
<1> DEFINE q  == Intern(p, s, kind)
           id == InternID(p, s)
<1>0. s # Blank
  BY StringPoolAssumption
<1>1. CASE p.index[s] # 0
  <2>1. q = Reference(p, s, kind) /\ id = p.index[s]
    BY <1>0, <1>1 DEF Intern, InternID
  <2> HIDE DEF q, id
  <2>2. /\ q \in Pool
        /\ Consistent(q)
        /\ Ids(q) = Ids(p)
        /\ Says(p, id, s) /\ Says(q, id, s)
        /\ q.entries[id].refs = Bump(p.entries[id].refs, kind)
        /\ \A i \in Ids(p) : i # id => q.entries[i] = p.entries[i]
    BY <1>1, <2>1, ReferenceConsistent
  <2>3. \A k \in Kinds : RefsOf(q, id, k) =
            IF k = kind /\ RefsOf(p, id, k) < MaxRefcount
            THEN RefsOf(p, id, k) + 1 ELSE RefsOf(p, id, k)
    <3> DEFINE refs == p.entries[id].refs
    <3>1. refs \in [Kinds -> 0..MaxRefcount]
      BY <2>2, PoolFields DEF Says
    <3>2. \A k \in Kinds : /\ RefsOf(p, id, k) = refs[k]
                           /\ RefsOf(q, id, k) = Bump(refs, kind)[k]
      BY <2>2 DEF RefsOf, Says
    <3> HIDE DEF refs
    <3>. QED  BY <3>1, <3>2, BumpRefs
  <2>4. \A i \in Nat, k \in Kinds : i # id => RefsOf(q, i, k) = RefsOf(p, i, k)
    BY <2>2 DEF RefsOf
  <2>5. Ids(q) = Ids(p) \cup {id}
    BY <2>2 DEF Says
  <2>. QED  BY <1>1, <2>1, <2>2, <2>3, <2>4, <2>5 DEF q, id
<1>2. CASE p.index[s] = 0 /\ p.free # <<>>
  <2>1. q = ReuseSlot(p, s, kind) /\ id = p.free[Len(p.free)]
    BY <1>0, <1>2 DEF Intern, InternID
  <2> HIDE DEF q, id
  <2>2. /\ q \in Pool
        /\ Consistent(q)
        /\ Ids(q) = Ids(p)
        /\ id \in Ids(p) /\ ~Live(p, id) /\ Says(q, id, s)
        /\ q.entries[id].refs = Bump(NoRefs, kind)
        /\ \A i \in Ids(p) : i # id => q.entries[i] = p.entries[i]
    BY <1>2, <2>1, ReuseConsistent
  <2>3. \A k \in Kinds : RefsOf(p, id, k) = 0
    BY <2>2, RefsOfType
  <2>4. \A k \in Kinds : RefsOf(q, id, k) = IF k = kind THEN 1 ELSE 0
    BY <2>2, BumpRefs, NoRefsType, StringPoolAssumption DEF RefsOf
  <2>5. \A i \in Nat, k \in Kinds : i # id => RefsOf(q, i, k) = RefsOf(p, i, k)
    BY <2>2 DEF RefsOf
  <2>6. Ids(q) = Ids(p) \cup {id}
    BY <2>2
  <2>. QED
    BY <1>2, <2>2, <2>3, <2>4, <2>5, <2>6, StringPoolAssumption DEF q, id
<1>3. CASE p.index[s] = 0 /\ p.free = <<>>
  <2>1. q = AppendSlot(p, s, kind) /\ id = Len(p.entries) + 1
    BY <1>0, <1>3 DEF Intern, InternID
  <2> HIDE DEF q, id
  <2>2. /\ q \in Pool
        /\ Consistent(q)
        /\ id \notin Ids(p)
        /\ Ids(q) = Ids(p) \cup {id}
        /\ Says(q, id, s)
        /\ q.entries[id].refs = Bump(NoRefs, kind)
        /\ \A i \in Ids(p) : q.entries[i] = p.entries[i]
    BY <1>3, <2>1, AppendConsistent
  <2>3. \A k \in Kinds : RefsOf(p, id, k) = 0
    BY <2>2 DEF RefsOf
  <2>4. \A k \in Kinds : RefsOf(q, id, k) = IF k = kind THEN 1 ELSE 0
    BY <2>2, BumpRefs, NoRefsType, StringPoolAssumption DEF RefsOf, Says
  <2>5. \A i \in Nat, k \in Kinds : i # id => RefsOf(q, i, k) = RefsOf(p, i, k)
    BY <2>2 DEF RefsOf
  <2>. QED
    BY <1>3, <2>2, <2>3, <2>4, <2>5, StringPoolAssumption DEF q, id
<1>. QED  BY <1>1, <1>2, <1>3

\* Release keeps the pool consistent, takes one reference off the slot if
\* there is one to take, and changes the meaning of no ID that is still live.
THEOREM ReleaseEffect ==
    ASSUME NEW p \in Pool, Consistent(p), NEW id \in Nat, NEW kind \in Kinds
    PROVE  LET q == Release(p, id, kind) IN
           /\ q \in Pool
           /\ Consistent(q)
           /\ Ids(q) = Ids(p)
           /\ \A i \in Ids(p) : Live(q, i) =>
                Live(p, i) /\ q.entries[i].s = p.entries[i].s
           /\ \A i \in Nat, k \in Kinds : RefsOf(q, i, k) =
                IF i = id /\ k = kind /\ RefsOf(p, i, k) > 0
                THEN RefsOf(p, i, k) - 1 ELSE RefsOf(p, i, k)
<1> DEFINE q == Release(p, id, kind)
<1>1. CASE ~Releasable(p, id, kind)
  <2>1. q = p
    BY <1>1 DEF Release
  <2>2. ~(RefsOf(p, id, kind) > 0)
    BY <1>1 DEF Releasable, RefsOf
  <2>. QED  BY <2>1, <2>2
<1>2. CASE Releasable(p, id, kind)
  <2> DEFINE refs == p.entries[id].refs
  <2>1. /\ id \in Ids(p)
        /\ refs \in [Kinds -> 0..MaxRefcount]
        /\ refs[kind] > 0
        /\ Live(p, id)
    BY <1>2, PoolFields, LiveCounts DEF Releasable
  <2>2. \A k \in Kinds : Drop(refs, kind)[k] = IF k = kind THEN refs[k] - 1 ELSE refs[k]
    BY <2>1, DropRefs
  <2>3. CASE Drop(refs, kind) # NoRefs
    <3>1. q = Unreference(p, id, kind)
      BY <1>2, <2>3 DEF Release
    <3> HIDE DEF q
    <3>2. /\ q \in Pool
          /\ Consistent(q)
          /\ Ids(q) = Ids(p)
          /\ q.entries[id].s = p.entries[id].s
          /\ q.entries[id].refs = Drop(refs, kind)
          /\ \A i \in Ids(p) : i # id => q.entries[i] = p.entries[i]
      BY <1>2, <2>3, <3>1, UnreferenceConsistent
    <3>. QED  BY <2>1, <2>2, <3>2 DEF RefsOf, Live, q
  <2>4. CASE Drop(refs, kind) = NoRefs
    <3>1. q = FreeSlot(p, id)
      BY <1>2, <2>4 DEF Release
    <3> HIDE DEF q
    <3>2. /\ q \in Pool
          /\ Consistent(q)
          /\ Ids(q) = Ids(p)
          /\ q.entries[id].refs = Drop(refs, kind)
          /\ \A i \in Ids(p) : i # id => q.entries[i] = p.entries[i]
      BY <2>1, <2>4, <3>1, FreeSlotConsistent
    <3>. QED  BY <2>1, <2>2, <2>4, <3>2 DEF RefsOf, Live, q
  <2>. QED  BY <2>3, <2>4
<1>. QED  BY <1>1, <1>2

-----------------------------------------------------------------------------
\* Saving and reading a consistent pool back never meets a string stored
\* twice, and gives a consistent pool in which every saved string kept its ID
\* and its persistent counter, and the temporary counters are 0.
THEOREM SaveEffect ==
    ASSUME NEW p \in Pool, Consistent(p), NEW n \in EncodedLens(p),
           NEW f \in FreeOrders(Encode(p, n))
    PROVE  LET image == Encode(p, n)
               q     == Decode(image, f)
           IN
           /\ Decodable(image)
           /\ q \in Pool
           /\ Consistent(q)
           /\ q.codepage = p.codepage
           /\ \A i \in Ids(q) : i \in Ids(p)
           /\ \A i \in Ids(p) : Saved(p, i) =>
                i \in Ids(q) /\ Live(q, i) /\ q.entries[i].s = p.entries[i].s
           /\ \A i \in Ids(q) : Live(q, i) => Saved(p, i)
           /\ \A i \in Nat, k \in Kinds : RefsOf(q, i, k) =
                IF k = "persistent" THEN RefsOf(p, i, k) ELSE 0
<1> DEFINE image   == Encode(p, n)
           records == image.records
           unused  == {id \in DOMAIN records : records[id].refs = 0}
           q       == Decode(image, f)
           Count(i) == p.entries[i].refs["persistent"]
<1>0. "persistent" \in Kinds /\ "temporary" \in Kinds
      /\ \A k \in Kinds : k = "persistent" \/ k = "temporary"
  BY DEF Kinds
<1>1. /\ n \in Nat
      /\ 1..n \subseteq Ids(p)
      /\ \A i \in Ids(p) : Saved(p, i) => i \in 1..n
  BY PoolFields DEF EncodedLens, Ids
<1>2. /\ DOMAIN records = 1..n
      /\ \A i \in 1..n : Saved(p, i) =>
            records[i].s = p.entries[i].s /\ records[i].refs = Count(i)
      /\ \A i \in 1..n : ~Saved(p, i) => records[i].s = Blank /\ records[i].refs = 0
      /\ image.codepage = p.codepage
      /\ image.longRefs = LongRefs(p)
  BY DEF Encode
<1>3. /\ q.entries = [id \in DOMAIN records |->
                    [s |-> records[id].s,
                     refs |-> [NoRefs EXCEPT !["persistent"] = records[id].refs]]]
      /\ \A x \in Strings : q.index[x] =
            IF \E id \in DOMAIN records : records[id].refs > 0 /\ records[id].s = x
            THEN CHOOSE id \in DOMAIN records : records[id].refs > 0 /\ records[id].s = x
            ELSE 0
      /\ DOMAIN q.index = Strings
      /\ q.index = [x \in Strings |-> q.index[x]]
      /\ q.free = f
      /\ q \in [entries: {q.entries}, index: {q.index}, free: {f},
                codepage: {image.codepage}, longRefs: {image.longRefs}]
  BY DEF Decode
<1>4. /\ f \in [1..Cardinality(unused) -> unused]
      /\ \A i, j \in DOMAIN f : i < j => f[i] < f[j]
      /\ \A id \in unused : \E i \in DOMAIN f : f[i] = id
  BY DEF FreeOrders
<1> HIDE DEF image, q
<1>5. \A i \in 1..n :
        /\ Count(i) \in 0..MaxRefcount
        /\ Saved(p, i) <=> Count(i) > 0
        /\ records[i].refs = Count(i)
        /\ records[i].s \in Strings \cup {Blank}
  <2> SUFFICES ASSUME NEW i \in 1..n
               PROVE  /\ Count(i) \in 0..MaxRefcount
                      /\ Saved(p, i) <=> Count(i) > 0
                      /\ records[i].refs = Count(i)
                      /\ records[i].s \in Strings \cup {Blank}
    OBVIOUS
  <2>1. /\ Count(i) \in 0..MaxRefcount
        /\ p.entries[i].s \in Strings \cup {Blank}
    BY <1>0, <1>1, PoolFields
  <2>2. Saved(p, i) <=> Count(i) > 0
    BY DEF Saved
  <2>3. CASE Saved(p, i)
    BY <1>2, <2>1, <2>2, <2>3
  <2>4. CASE ~Saved(p, i)
    BY <1>2, <2>1, <2>2, <2>4, StringPoolAssumption
  <2>. QED  BY <2>3, <2>4
<1>6. \A i \in 1..n : Saved(p, i) =>
        /\ Live(p, i)
        /\ records[i].s = p.entries[i].s
        /\ records[i].s \in Strings
        /\ p.index[records[i].s] = i
  BY <1>0, <1>1, <1>2, LiveCounts DEF Saved, Consistent, IndexMatchesEntries
<1>7. Decodable(image)
  BY <1>2, <1>5, <1>6 DEF Decodable
<1>8. \A i \in 1..n :
        /\ q.entries[i] \in Entry
        /\ q.entries[i].s = records[i].s
        /\ q.entries[i].refs["persistent"] = Count(i)
        /\ q.entries[i].refs["temporary"] = 0
        /\ Live(q, i) <=> Saved(p, i)
  <2> SUFFICES ASSUME NEW i \in 1..n
               PROVE  /\ q.entries[i] \in Entry
                      /\ q.entries[i].s = records[i].s
                      /\ q.entries[i].refs["persistent"] = Count(i)
                      /\ q.entries[i].refs["temporary"] = 0
                      /\ Live(q, i) <=> Saved(p, i)
    OBVIOUS
  <2> DEFINE refs == [NoRefs EXCEPT !["persistent"] = records[i].refs]
  <2>1. /\ q.entries[i].s = records[i].s
        /\ q.entries[i].refs = refs
        /\ q.entries[i] \in [s: {records[i].s}, refs: {refs}]
    BY <1>2, <1>3
  <2>2. /\ refs \in [Kinds -> 0..MaxRefcount]
        /\ refs["persistent"] = Count(i)
        /\ refs["temporary"] = 0
    BY <1>0, <1>5, NoRefsType
  <2>3. refs = NoRefs <=> Count(i) = 0
    BY <1>0, <1>5, <2>2, NoRefsType
  <2> HIDE DEF refs
  <2>4. q.entries[i] \in Entry
    BY <1>5, <2>1, <2>2 DEF Entry
  <2>. QED  BY <1>5, <2>1, <2>2, <2>3, <2>4 DEF Live
<1>9. /\ q.entries \in Seq(Entry)
      /\ Ids(q) = 1..n
  <2>1. q.entries = [i \in 1..n |-> q.entries[i]]
    BY <1>2, <1>3
  <2>2. q.entries \in [1..n -> Entry]
    BY <1>8, <2>1
  <2>. QED  BY <1>1, <2>2 DEF Ids
<1>10. ASSUME NEW x \in Strings
       PROVE  /\ q.index[x] # 0 => Says(q, q.index[x], x) /\ q.index[x] \in 1..n
              /\ q.index[x] \in Nat
              /\ \A i \in 1..n : Saved(p, i) /\ records[i].s = x => q.index[x] = i
  <2> DEFINE Has(id) == records[id].refs > 0 /\ records[id].s = x
  <2>1. CASE \E id \in 1..n : Has(id)
    <3>1. q.index[x] \in 1..n /\ Has(q.index[x])
      BY <1>2, <1>3, <2>1
    <3>2. Says(q, q.index[x], x)
      BY <1>5, <1>8, <1>9, <3>1 DEF Says
    <3>3. \A i \in 1..n : Has(i) => i = q.index[x]
      BY <1>5, <1>6, <3>1
    <3>. QED  BY <1>1, <1>5, <3>1, <3>2, <3>3
  <2>2. CASE ~\E id \in 1..n : Has(id)
    <3>1. q.index[x] = 0
      BY <1>2, <1>3, <2>2
    <3>. QED  BY <1>5, <2>2, <3>1
  <2>. QED  BY <2>1, <2>2
<1>11. IndexMatchesEntries(q)
  <2>1. ASSUME NEW i \in Ids(q), Live(q, i)
        PROVE  q.entries[i].s \in Strings /\ q.index[q.entries[i].s] = i
    BY <1>6, <1>8, <1>9, <1>10, <2>1
  <2>. QED  BY <1>10, <2>1 DEF IndexMatchesEntries, Says
<1>12. unused = {i \in 1..n : ~Live(q, i)}
  BY <1>2, <1>5, <1>8
<1>13. Cardinality(unused) \in Nat
  <2>1. IsFiniteSet(1..n)
    BY <1>1, FS_Interval
  <2>2. unused \subseteq 1..n
    BY <1>12
  <2>. QED  BY <2>1, <2>2, FS_Subset, FS_CardinalityType
<1>14. /\ f \in Seq(Nat)
       /\ DOMAIN f = 1..Cardinality(unused)
  BY <1>1, <1>4, <1>12, <1>13
<1> HIDE DEF unused, records
<1>15. FreeListExact(q)
  BY <1>3, <1>4, <1>9, <1>12, <1>13, <1>14 DEF FreeListExact
<1>16. q \in Pool
  <2>1. q.index \in [Strings -> Nat]
    BY <1>3, <1>10
  <2>2. LongRefs(p) \in BOOLEAN
    BY PoolFields DEF LongRefs
  <2>. QED  BY <1>2, <1>3, <1>9, <1>14, <2>1, <2>2, PoolFields DEF Pool
<1>17. \A i \in Ids(p) : Saved(p, i) =>
         i \in Ids(q) /\ Live(q, i) /\ q.entries[i].s = p.entries[i].s
  BY <1>1, <1>6, <1>8, <1>9
<1>18. ASSUME NEW i \in Nat, NEW k \in Kinds
       PROVE  RefsOf(q, i, k) = IF k = "persistent" THEN RefsOf(p, i, k) ELSE 0
  <2>1. CASE i \in 1..n
    BY <1>0, <1>1, <1>8, <1>9, <2>1 DEF RefsOf
  <2>2. CASE i \notin 1..n
    <3>1. RefsOf(q, i, k) = 0
      BY <1>9, <2>2 DEF RefsOf
    <3>2. RefsOf(p, i, "persistent") = 0
      BY <1>0, <1>1, <2>2, PoolFields DEF RefsOf, Saved
    <3>. QED  BY <3>1, <3>2
  <2>. QED  BY <2>1, <2>2
<1>19. q.codepage = p.codepage
  BY <1>2, <1>3
<1>. QED
  BY <1>1, <1>7, <1>8, <1>9, <1>11, <1>15, <1>16, <1>17, <1>18, <1>19 DEF image, q, Consistent

-----------------------------------------------------------------------------
(***************************************************************************)
(* The pool with the cells that refer to it.                               *)
(***************************************************************************)

\* What the type invariant says of the pool and of each cell.
LEMMA PoolTypes ==
    ASSUME TypeOK
    PROVE  /\ pool \in Pool
           /\ saturated \in BOOLEAN
           /\ \A c \in Cells : /\ cell[c] \in Cell
                               /\ cell[c].id \in Nat
                               /\ cell[c].s \in Strings \cup {Blank}
                               /\ cell[c].kind \in Kinds
BY DEF TypeOK, Cell

\* A cleared cell is a cell, and refers to nothing.
LEMMA NullCell == Null \in Cell /\ Null.id = 0 /\ Null.s = Blank
BY DEF Null, Cell, Kinds

\* Interning leaves a consistent pool.
LEMMA InternPool ==
    ASSUME NEW p \in Pool, Consistent(p), NEW s \in Strings \cup {Blank}, NEW kind \in Kinds
    PROVE  /\ Intern(p, s, kind) \in Pool
           /\ Consistent(Intern(p, s, kind))
           /\ InternID(p, s) \in Nat
           /\ s # Blank => InternID(p, s) # 0
<1>1. CASE s = Blank
  BY <1>1 DEF Intern, InternID
<1>2. CASE s # Blank
  <2>1. /\ Intern(p, s, kind) \in Pool
        /\ Consistent(Intern(p, s, kind))
        /\ InternID(p, s) \in Ids(Intern(p, s, kind))
    BY <1>2, InternEffect DEF Says
  <2>. QED  BY <2>1, PoolFields
<1>. QED  BY <1>1, <1>2

-----------------------------------------------------------------------------
(***************************************************************************)
(* The code page.                                                          *)
(***************************************************************************)

\* A slot is saved when it has persistent references.
LEMMA SavedRefs ==
    ASSUME NEW p \in Pool, NEW i \in Ids(p)
    PROVE  Saved(p, i) <=> RefsOf(p, i, "persistent") > 0
BY DEF Saved, RefsOf

\* A pool that fits its code page does so with one more string that was validated.
LEMMA InternFits ==
    ASSUME NEW p \in Pool, Consistent(p), NEW s \in Strings \cup {Blank}, NEW kind \in Kinds,
           Fits(p, p.codepage), kind = "persistent" => Validate(p, s)
    PROVE  Fits(Intern(p, s, kind), p.codepage)
<1> DEFINE q  == Intern(p, s, kind)
           id == InternID(p, s)
<1>1. CASE s = Blank
  BY <1>1 DEF Intern
<1>2. CASE s # Blank
  <2>1. /\ q \in Pool
        /\ Says(q, id, s)
        /\ Ids(q) = Ids(p) \cup {id}
        /\ \A i \in Ids(p) : i # id => q.entries[i] = p.entries[i]
        /\ Live(p, id) /\ id \in Ids(p) => Says(p, id, s)
        /\ \A i \in Nat, k \in Kinds : RefsOf(q, i, k) =
                IF i = id /\ k = kind /\ RefsOf(p, i, k) < MaxRefcount
                THEN RefsOf(p, i, k) + 1 ELSE RefsOf(p, i, k)
    BY <1>2, InternEffect
  <2> HIDE DEF q, id
  <2>2. ASSUME NEW i \in Ids(q), Saved(q, i)
        PROVE  q.entries[i].s \in Encodable[p.codepage]
    <3>1. CASE i # id
      BY <2>1, <2>2, <3>1 DEF Fits, Saved
    <3>2. CASE i = id /\ kind = "persistent"
      BY <1>2, <2>1, <3>2 DEF Validate, Says
    <3>3. CASE i = id /\ kind # "persistent"
      <4>1. "persistent" \in Kinds /\ id \in Nat
        BY <2>1, <2>2, <3>3, PoolFields DEF Kinds
      <4>2. RefsOf(p, id, "persistent") > 0
        BY <2>1, <2>2, <3>3, <4>1, SavedRefs
      <4>3. id \in Ids(p) /\ Saved(p, id) /\ Live(p, id)
        BY <4>1, <4>2, LiveCounts DEF RefsOf, Saved
      <4>. QED  BY <2>1, <3>3, <4>3 DEF Fits, Says
    <3>. QED  BY <3>1, <3>2, <3>3
  <2>. QED  BY <2>2 DEF Fits, q
<1>. QED  BY <1>1, <1>2

\* And with one reference less.
LEMMA ReleaseFits ==
    ASSUME NEW p \in Pool, Consistent(p), NEW id \in Nat, NEW kind \in Kinds, NEW cp,
           Fits(p, cp)
    PROVE  Fits(Release(p, id, kind), cp)
<1> DEFINE q == Release(p, id, kind)
<1>1. /\ q \in Pool
      /\ Ids(q) = Ids(p)
      /\ \A i \in Ids(p) : Live(q, i) => q.entries[i].s = p.entries[i].s
      /\ \A i \in Nat, k \in Kinds : RefsOf(q, i, k) > 0 => RefsOf(p, i, k) > 0
  BY ReleaseEffect, RefsOfType
<1> HIDE DEF q
<1>2. ASSUME NEW i \in Ids(q), Saved(q, i)
      PROVE  q.entries[i].s \in Encodable[cp]
  <2>1. "persistent" \in Kinds /\ i \in Nat
    BY <1>1, PoolFields DEF Kinds
  <2>2. Live(q, i)
    BY <1>1, <1>2, <2>1, LiveCounts DEF Saved
  <2>3. Saved(p, i)
    BY <1>1, <1>2, <2>1, SavedRefs
  <2>. QED  BY <1>1, <2>2, <2>3 DEF Fits
<1>. QED  BY <1>2 DEF Fits, q

-----------------------------------------------------------------------------
(***************************************************************************)
(* First invariant: whatever the clients do, the pool's entries, index and *)
(* free list agree, and every string to be saved fits the code page.       *)
(***************************************************************************)

PoolInv ==
    /\ TypeOK
    /\ Consistent(pool)
    /\ Fits(pool, pool.codepage)

\* The first pool is consistent.
LEMMA PoolInit == Init => PoolInv
<1> SUFFICES ASSUME Init PROVE PoolInv
  OBVIOUS
<1>1. PICK cp \in Codepages : pool = New(cp)
  BY DEF Init
<1>2. /\ pool.entries = <<>>
      /\ pool.index = [s \in Strings |-> 0]
      /\ pool.free = <<>>
      /\ pool \in [entries: {<<>>}, index: {pool.index}, free: {<<>>},
                   codepage: {cp}, longRefs: {FALSE}]
  BY <1>1 DEF New
<1>3. pool \in Pool
  <2>1. <<>> \in Seq(Entry) /\ <<>> \in Seq(Nat) /\ pool.index \in [Strings -> Nat]
    BY <1>2
  <2>. QED  BY <1>2, <2>1 DEF Pool
<1>4. Ids(pool) = {}
  BY <1>2 DEF Ids
<1>5. Consistent(pool) /\ Fits(pool, pool.codepage)
  BY <1>2, <1>4 DEF Consistent, IndexMatchesEntries, FreeListExact, Fits
<1>6. TypeOK
  BY <1>3, NullCell DEF Init, TypeOK
<1>. QED  BY <1>5, <1>6 DEF PoolInv

\* Every step keeps the pool consistent.
LEMMA PoolStep == PoolInv /\ [Next]_vars => PoolInv'
<1> SUFFICES ASSUME PoolInv, [Next]_vars PROVE PoolInv'
  OBVIOUS
<1> USE DEF PoolInv
<1>0. TypeOK /\ pool \in Pool /\ Consistent(pool)
  BY PoolTypes
<1>1. ASSUME NEW c \in Cells, NEW s \in Strings, NEW kind \in Kinds, Store(c, s, kind)
      PROVE  PoolInv'
  <2>1. pool' \in Pool /\ Consistent(pool') /\ pool'.codepage = pool.codepage
    BY <1>0, <1>1, InternPool, InternCodepage DEF Store
  <2>2. Fits(pool', pool.codepage)
    BY <1>0, <1>1, InternFits DEF Store, Storable
  <2>3. Referring(s, kind) \in Cell
    BY <1>0, NullCell, InternPool DEF Referring, Cell
  <2>4. cell' \in [Cells -> Cell] /\ saturated' \in BOOLEAN
    BY <1>0, <1>1, <2>3 DEF Store, TypeOK
  <2>. QED  BY <2>1, <2>2, <2>4 DEF TypeOK
<1>2. ASSUME NEW s \in Strings, NEW kind \in Kinds, StoreFails(s, kind)
      PROVE  PoolInv'
  <2> DEFINE q == Intern(pool, s, kind)
  <2>1. q \in Pool /\ Consistent(q) /\ q.codepage = pool.codepage /\ InternID(pool, s) \in Nat
    BY <1>0, InternPool, InternCodepage
  <2>2. Fits(q, pool.codepage)
    BY <1>0, <1>2, InternFits DEF StoreFails, Storable
  <2>3. pool' = Release(q, InternID(pool, s), kind)
    BY <1>2 DEF StoreFails
  <2> HIDE DEF q
  <2>4. pool' \in Pool /\ Consistent(pool') /\ pool'.codepage = pool.codepage
    BY <2>1, <2>3, ReleaseEffect, ReleaseCodepage
  <2>5. Fits(pool', pool.codepage)
    BY <2>1, <2>2, <2>3, ReleaseFits
  <2>6. cell' \in [Cells -> Cell] /\ saturated' \in BOOLEAN
    BY <1>0, <1>2 DEF StoreFails, TypeOK
  <2>. QED  BY <2>4, <2>5, <2>6 DEF TypeOK
<1>3. ASSUME NEW c \in Cells, NEW s \in Strings \cup {Blank}, Replace(c, s)
      PROVE  PoolInv'
  <2> DEFINE kind == cell[c].kind
             q    == Intern(pool, s, kind)
  <2>0. kind \in Kinds /\ cell[c].id \in Nat
    BY <1>0, PoolTypes
  <2>1. q \in Pool /\ Consistent(q) /\ q.codepage = pool.codepage
    BY <1>0, <2>0, InternPool, InternCodepage
  <2>2. Fits(q, pool.codepage)
    BY <1>0, <1>3, <2>0, InternFits DEF Replace, Storable
  <2>3. pool' = Release(q, cell[c].id, kind)
    BY <1>3 DEF Replace
  <2>4. Referring(s, kind) \in Cell
    BY <1>0, <2>0, NullCell, InternPool DEF Referring, Cell
  <2>5. cell' \in [Cells -> Cell] /\ saturated' \in BOOLEAN
    BY <1>0, <1>3, <2>4 DEF Replace, TypeOK
  <2> HIDE DEF q, kind
  <2>6. pool' \in Pool /\ Consistent(pool') /\ pool'.codepage = pool.codepage
    BY <2>0, <2>1, <2>3, ReleaseEffect, ReleaseCodepage
  <2>7. Fits(pool', pool.codepage)
    BY <2>0, <2>1, <2>2, <2>3, ReleaseFits
  <2>. QED  BY <2>5, <2>6, <2>7 DEF TypeOK
<1>4. ASSUME NEW c \in Cells, Clear(c)
      PROVE  PoolInv'
  <2>1. cell[c].kind \in Kinds /\ cell[c].id \in Nat
    BY <1>0, PoolTypes
  <2>2. pool' \in Pool /\ Consistent(pool') /\ pool'.codepage = pool.codepage
    BY <1>0, <1>4, <2>1, ReleaseEffect, ReleaseCodepage DEF Clear
  <2>3. Fits(pool', pool.codepage)
    BY <1>0, <1>4, <2>1, ReleaseFits DEF Clear
  <2>4. cell' \in [Cells -> Cell] /\ saturated' \in BOOLEAN
    BY <1>0, <1>4, NullCell DEF Clear, TypeOK
  <2>. QED  BY <2>2, <2>3, <2>4 DEF TypeOK
<1>5. ASSUME NEW cp \in Codepages, ChangeCodepage(cp)
      PROVE  PoolInv'
  <2>1. /\ pool'.entries = pool.entries
        /\ pool'.index = pool.index
        /\ pool'.free = pool.free
        /\ pool'.codepage = cp
        /\ pool' \in [entries: {pool.entries}, index: {pool.index}, free: {pool.free},
                      codepage: {cp}, longRefs: {pool.longRefs}]
    BY <1>0, <1>5 DEF ChangeCodepage, SetCodepage, Pool
  <2>2. pool' \in Pool
    BY <1>0, <2>1, PoolFields DEF Pool
  <2>3. Consistent(pool') /\ Fits(pool', cp)
    BY <1>5, <2>1 DEF ChangeCodepage, Consistent, IndexMatchesEntries, FreeListExact,
                      Fits, Ids, Live, Saved
  <2>. QED  BY <1>0, <1>5, <2>1, <2>2, <2>3 DEF ChangeCodepage, TypeOK
<1>6. ASSUME SaveAndOpen
      PROVE  PoolInv'
  <2>1. PICK n \in EncodedLens(pool) : \E f \in FreeOrders(Encode(pool, n)) :
            pool' = Decode(Encode(pool, n), f)
    BY <1>6 DEF SaveAndOpen
  <2>2. PICK f \in FreeOrders(Encode(pool, n)) : pool' = Decode(Encode(pool, n), f)
    BY <2>1
  <2>3. /\ pool' \in Pool
        /\ Consistent(pool')
        /\ pool'.codepage = pool.codepage
        /\ \A i \in Ids(pool') : i \in Ids(pool)
        /\ \A i \in Ids(pool) : Saved(pool, i) => pool'.entries[i].s = pool.entries[i].s
        /\ \A i \in Ids(pool') : Live(pool', i) => Saved(pool, i)
    BY <1>0, <2>2, SaveEffect
  <2>4. Fits(pool', pool.codepage)
    <3>1. ASSUME NEW i \in Ids(pool'), Saved(pool', i)
          PROVE  pool'.entries[i].s \in Encodable[pool.codepage]
      <4>1. Live(pool', i)
        BY <2>3, <3>1, LiveCounts DEF Saved, Kinds
      <4>. QED  BY <2>3, <4>1 DEF Fits
    <3>. QED  BY <3>1 DEF Fits
  <2>5. cell' \in [Cells -> Cell] /\ saturated' \in BOOLEAN
    BY <1>0, <1>6, NullCell DEF SaveAndOpen, TypeOK
  <2>. QED  BY <2>3, <2>4, <2>5 DEF TypeOK
<1>7. CASE UNCHANGED vars
  BY <1>7 DEF vars, TypeOK
<1>. QED  BY <1>1, <1>2, <1>3, <1>4, <1>5, <1>6, <1>7 DEF Next

\* The pool stays consistent and what it holds fits its code page.
THEOREM PoolInvariant == Spec => []PoolInv
BY PoolInit, PoolStep, PTL DEF Spec

\* Every reachable pool, cell and counter has its type.
THEOREM PoolTypesHold == Spec => []TypeOK
<1>1. PoolInv => TypeOK
  BY DEF PoolInv
<1>. QED  BY <1>1, PoolInvariant, PTL

\* Every reachable pool agrees with itself: no string is stored twice, no slot
\* is both free and live.
THEOREM PoolSound == Spec => []PoolConsistent
<1>1. PoolInv => PoolConsistent
  BY DEF PoolInv, PoolConsistent
<1>. QED  BY <1>1, PoolInvariant, PTL

\* Every reachable pool can be encoded, whichever code pages were set before.
THEOREM SavedStringsAlwaysFit == Spec => []SavedStringsFit
<1>1. PoolInv => SavedStringsFit
  BY DEF PoolInv, SavedStringsFit
<1>. QED  BY <1>1, PoolInvariant, PTL

-----------------------------------------------------------------------------
(***************************************************************************)
(* Counting cells.                                                         *)
(***************************************************************************)

Refers(x, id, kind) == x.id = id /\ x.kind = kind

HeldBy(cl, id, kind) == {c \in Cells : Refers(cl[c], id, kind)}

\* Finitely many cells refer to a slot.
LEMMA HeldFinite ==
    ASSUME NEW cl, NEW id, NEW kind
    PROVE  /\ IsFiniteSet(HeldBy(cl, id, kind))
           /\ Cardinality(HeldBy(cl, id, kind)) \in Nat
           /\ Cardinality(HeldBy(cl, id, kind)) <= Cardinality(Cells)
           /\ Cardinality(Cells) \in Nat
<1>1. HeldBy(cl, id, kind) \subseteq Cells
  BY DEF HeldBy
<1>. QED  BY <1>1, CellsAssumption, FS_Subset, FS_CardinalityType

\* Writing one cell moves it between the sets of holders, and no other cell.
LEMMA HeldUpdate ==
    ASSUME NEW cl \in [Cells -> Cell], NEW c \in Cells, NEW x,
           NEW new, \A d \in Cells : new[d] = IF d = c THEN x ELSE cl[d],
           NEW id, NEW kind
    PROVE  /\ Refers(cl[c], id, kind) /\ ~Refers(x, id, kind) =>
                Cardinality(HeldBy(new, id, kind)) = Cardinality(HeldBy(cl, id, kind)) - 1
           /\ ~Refers(cl[c], id, kind) /\ Refers(x, id, kind) =>
                Cardinality(HeldBy(new, id, kind)) = Cardinality(HeldBy(cl, id, kind)) + 1
           /\ (Refers(cl[c], id, kind) <=> Refers(x, id, kind)) =>
                Cardinality(HeldBy(new, id, kind)) = Cardinality(HeldBy(cl, id, kind))
<1> DEFINE old  == HeldBy(cl, id, kind)
           then == HeldBy(new, id, kind)
<1>2. IsFiniteSet(old)
  BY HeldFinite
<1>3. ASSUME Refers(cl[c], id, kind), ~Refers(x, id, kind)
      PROVE  Cardinality(then) = Cardinality(old) - 1
  <2>1. c \in old /\ then = old \ {c}
    BY <1>3 DEF HeldBy
  <2>. QED  BY <1>2, <2>1, FS_RemoveElement
<1>4. ASSUME ~Refers(cl[c], id, kind), Refers(x, id, kind)
      PROVE  Cardinality(then) = Cardinality(old) + 1
  <2>1. c \notin old /\ then = old \cup {c}
    BY <1>4 DEF HeldBy
  <2>. QED  BY <1>2, <2>1, FS_AddElement
<1>5. ASSUME Refers(cl[c], id, kind) <=> Refers(x, id, kind)
      PROVE  Cardinality(then) = Cardinality(old)
  <2>1. then = old
    BY <1>5 DEF HeldBy
  <2>. QED  BY <2>1
<1>. QED  BY <1>3, <1>4, <1>5

\* A held reference is counted, as long as every counter counts its holders.
LEMMA HolderCounts ==
    ASSUME NEW cl, NEW c \in Cells
    PROVE  Cardinality(HeldBy(cl, cl[c].id, cl[c].kind)) > 0
<1> DEFINE S == HeldBy(cl, cl[c].id, cl[c].kind)
<1>1. c \in S
  BY DEF HeldBy, Refers
<1>2. IsFiniteSet(S) /\ Cardinality(S) \in Nat
  BY HeldFinite
<1>3. Cardinality(S) # 0
  BY <1>1, <1>2, FS_EmptySet
<1>. QED  BY <1>2, <1>3

-----------------------------------------------------------------------------
(***************************************************************************)
(* Second invariant: as long as no counter met its ceiling, the counters   *)
(* are the numbers of cells, so a held slot is live and keeps its string.  *)
(***************************************************************************)

Exact(p, cl) ==
    \A id \in Nat \ {0}, kind \in Kinds :
        RefsOf(p, id, kind) = Cardinality(HeldBy(cl, id, kind))

Meant(p, cl) == \A c \in Cells : cl[c].id # 0 => Says(p, cl[c].id, cl[c].s)

BlankIsNull == \A c \in Cells : cell[c].id = 0 <=> cell[c].s = Blank

CountInv ==
    /\ PoolInv
    /\ BlankIsNull
    /\ ~saturated => Exact(pool, cell) /\ Meant(pool, cell)

\* Once the counters are exact again after a step, a cell's slot is live, so
\* it is enough that the live slots kept their strings.
LEMMA ExactMeant ==
    ASSUME NEW p \in Pool, NEW cl \in [Cells -> Cell], Exact(p, cl),
           \A c \in Cells : cl[c].id \in Ids(p) /\ Live(p, cl[c].id) =>
                p.entries[cl[c].id].s = cl[c].s
    PROVE  Meant(p, cl)
<1> SUFFICES ASSUME NEW c \in Cells, cl[c].id # 0
             PROVE  Says(p, cl[c].id, cl[c].s)
  BY DEF Meant
<1>1. cl[c].id \in Nat \ {0} /\ cl[c].kind \in Kinds
  BY DEF Cell
<1>2. RefsOf(p, cl[c].id, cl[c].kind) > 0
  BY <1>1, HolderCounts DEF Exact
<1>3. cl[c].id \in Ids(p) /\ Live(p, cl[c].id)
  BY <1>1, <1>2, LiveCounts DEF RefsOf
<1>. QED  BY <1>3 DEF Says

\* Nothing is counted at first.
LEMMA CountInit == Init => CountInv
<1> SUFFICES ASSUME Init PROVE CountInv
  OBVIOUS
<1>1. PoolInv
  BY PoolInit
<1>2. \A c \in Cells : cell[c] = Null
  BY DEF Init
<1>3. Ids(pool) = {}
  BY DEF Init, New, Ids
<1>4. \A id \in Nat \ {0}, kind \in Kinds : HeldBy(cell, id, kind) = {}
  BY <1>2, NullCell DEF HeldBy, Refers
<1>5. Exact(pool, cell)
  BY <1>3, <1>4, FS_EmptySet DEF Exact, RefsOf
<1>. QED  BY <1>1, <1>2, <1>5, NullCell DEF CountInv, BlankIsNull, Meant

\* A counter that is not at its ceiling counts the next reference.
LEMMA NotDropped ==
    ASSUME PoolInv, NEW s \in Strings, NEW kind \in Kinds, ~Dropped(s, kind)
    PROVE  RefsOf(pool, InternID(pool, s), kind) < MaxRefcount
<1>0. pool \in Pool /\ Consistent(pool) /\ s # Blank
  BY PoolTypes, StringPoolAssumption DEF PoolInv
<1>1. CASE pool.index[s] = 0
  BY <1>0, <1>1, InternEffect, StringPoolAssumption
<1>2. CASE pool.index[s] # 0
  <2>1. InternID(pool, s) = pool.index[s] /\ pool.index[s] \in Ids(pool)
    BY <1>0, <1>2 DEF InternID, Consistent, IndexMatchesEntries
  <2>2. RefsOf(pool, pool.index[s], kind) # MaxRefcount
    BY <1>0, <1>2, <2>1 DEF Dropped, RefsOf
  <2>. QED  BY <1>0, <2>1, <2>2, RefsOfType, StringPoolAssumption
<1>. QED  BY <1>1, <1>2

\* Interning a string changes the meaning of no cell.
LEMMA InternMeant ==
    ASSUME NEW p \in Pool, Consistent(p), NEW cl, Meant(p, cl),
           NEW s \in Strings, NEW kind \in Kinds
    PROVE  Meant(Intern(p, s, kind), cl)
<1> DEFINE q  == Intern(p, s, kind)
           id == InternID(p, s)
<1> SUFFICES ASSUME NEW c \in Cells, cl[c].id # 0
             PROVE  Says(q, cl[c].id, cl[c].s)
  BY DEF Meant
<1>1. /\ q \in Pool
      /\ Says(q, id, s)
      /\ Ids(q) = Ids(p) \cup {id}
      /\ \A i \in Ids(p) : i # id => q.entries[i] = p.entries[i]
      /\ Live(p, id) /\ id \in Ids(p) => Says(p, id, s)
  BY InternEffect
<1> HIDE DEF q, id
<1>2. Says(p, cl[c].id, cl[c].s)
  BY DEF Meant
<1>. QED  BY <1>1, <1>2 DEF Says, Live

\* Releasing a reference changes the meaning of no cell that is still counted.
LEMMA ReleaseMeant ==
    ASSUME NEW p \in Pool, Consistent(p), NEW cl \in [Cells -> Cell], Meant(p, cl),
           NEW id \in Nat, NEW kind \in Kinds, Exact(Release(p, id, kind), cl)
    PROVE  Meant(Release(p, id, kind), cl)
<1> DEFINE q == Release(p, id, kind)
<1>1. /\ q \in Pool
      /\ Ids(q) = Ids(p)
      /\ \A i \in Ids(p) : Live(q, i) => q.entries[i].s = p.entries[i].s
      /\ 0 \notin Ids(p)
  BY ReleaseEffect, PoolFields
<1> HIDE DEF q
<1>2. \A c \in Cells : cl[c].id \in Ids(q) /\ Live(q, cl[c].id) =>
        q.entries[cl[c].id].s = cl[c].s
  BY <1>1 DEF Meant, Says
<1>. QED  BY <1>1, <1>2, ExactMeant DEF q

\* A string stored in an empty cell is counted once more.
LEMMA CountStore ==
    ASSUME NEW p \in Pool, Consistent(p), NEW cl \in [Cells -> Cell],
           Exact(p, cl), Meant(p, cl),
           NEW c \in Cells, cl[c].id = 0, NEW s \in Strings, NEW kind \in Kinds,
           RefsOf(p, InternID(p, s), kind) < MaxRefcount
    PROVE  LET q   == Intern(p, s, kind)
               new == [cl EXCEPT ![c] = [id |-> InternID(p, s), s |-> s, kind |-> kind]]
           IN  Exact(q, new) /\ Meant(q, new)
<1> DEFINE q   == Intern(p, s, kind)
           id  == InternID(p, s)
           x   == [id |-> id, s |-> s, kind |-> kind]
           new == [cl EXCEPT ![c] = x]
<1>1. /\ q \in Pool
      /\ Says(q, id, s)
      /\ \A i \in Nat, k \in Kinds : RefsOf(q, i, k) =
                IF i = id /\ k = kind /\ RefsOf(p, i, k) < MaxRefcount
                THEN RefsOf(p, i, k) + 1 ELSE RefsOf(p, i, k)
  BY InternEffect
<1>2. Meant(q, cl)
  BY InternMeant
<1>3. x.id = id /\ x.s = s /\ x.kind = kind
  OBVIOUS
<1>6. \A d \in Cells : new[d] = IF d = c THEN x ELSE cl[d]
  OBVIOUS
<1> HIDE DEF q, id, x, new
<1>4. Exact(q, new)
  <2> SUFFICES ASSUME NEW i \in Nat \ {0}, NEW k \in Kinds
               PROVE  RefsOf(q, i, k) = Cardinality(HeldBy(new, i, k))
    BY DEF Exact
  <2>1. RefsOf(p, i, k) = Cardinality(HeldBy(cl, i, k))
    BY DEF Exact
  <2>2. ~Refers(cl[c], i, k)
    BY DEF Refers
  <2>3. Refers(x, i, k) <=> i = id /\ k = kind
    BY <1>3 DEF Refers
  <2>4. Refers(x, i, k) => Cardinality(HeldBy(new, i, k)) = Cardinality(HeldBy(cl, i, k)) + 1
    BY <1>6, <2>2, HeldUpdate
  <2>5. ~Refers(x, i, k) => Cardinality(HeldBy(new, i, k)) = Cardinality(HeldBy(cl, i, k))
    BY <1>6, <2>2, HeldUpdate
  <2>. QED  BY <1>1, <2>1, <2>3, <2>4, <2>5 DEF id
<1>5. Meant(q, new)
  BY <1>1, <1>2, <1>3, <1>6 DEF Meant
<1>. QED  BY <1>4, <1>5 DEF q, id, x, new

\* A cell that is cleared gives up its reference.
LEMMA CountClear ==
    ASSUME NEW p \in Pool, Consistent(p), NEW cl \in [Cells -> Cell],
           Exact(p, cl), Meant(p, cl), NEW c \in Cells, cl[c].id # 0
    PROVE  LET q   == Release(p, cl[c].id, cl[c].kind)
               new == [cl EXCEPT ![c] = Null]
           IN  Exact(q, new) /\ Meant(q, new)
<1> DEFINE old  == cl[c].id
           kind == cl[c].kind
           q    == Release(p, old, kind)
           new  == [cl EXCEPT ![c] = Null]
<1>0. old \in Nat \ {0} /\ kind \in Kinds /\ new \in [Cells -> Cell]
  BY NullCell DEF Cell
<1>1. \A i \in Nat, k \in Kinds : RefsOf(q, i, k) =
        IF i = old /\ k = kind /\ RefsOf(p, i, k) > 0
        THEN RefsOf(p, i, k) - 1 ELSE RefsOf(p, i, k)
  BY <1>0, ReleaseEffect
<1>2. RefsOf(p, old, kind) > 0
  BY <1>0, HolderCounts DEF Exact
<1> HIDE DEF q
<1>3. Exact(q, new)
  <2> SUFFICES ASSUME NEW i \in Nat \ {0}, NEW k \in Kinds
               PROVE  RefsOf(q, i, k) = Cardinality(HeldBy(new, i, k))
    BY DEF Exact
  <2>1. RefsOf(p, i, k) = Cardinality(HeldBy(cl, i, k))
    BY DEF Exact
  <2>2. ~Refers(Null, i, k)
    BY NullCell DEF Refers
  <2>3. Refers(cl[c], i, k) <=> i = old /\ k = kind
    BY DEF Refers
  <2>7. \A d \in Cells : new[d] = IF d = c THEN Null ELSE cl[d]
    OBVIOUS
  <2> HIDE DEF new, old, kind
  <2>4. Refers(cl[c], i, k) => Cardinality(HeldBy(new, i, k)) = Cardinality(HeldBy(cl, i, k)) - 1
    BY <2>2, <2>7, HeldUpdate
  <2>5. ~Refers(cl[c], i, k) => Cardinality(HeldBy(new, i, k)) = Cardinality(HeldBy(cl, i, k))
    BY <2>2, <2>7, HeldUpdate
  <2>. QED  BY <1>1, <1>2, <2>1, <2>3, <2>4, <2>5
<1>4. Meant(p, new)
  BY NullCell DEF Meant
<1>. QED  BY <1>0, <1>3, <1>4, ReleaseMeant DEF q

\* A cell that is replaced moves its reference, also to the same slot.
LEMMA CountReplace ==
    ASSUME NEW p \in Pool, Consistent(p), NEW cl \in [Cells -> Cell],
           Exact(p, cl), Meant(p, cl), NEW c \in Cells, cl[c].id # 0, NEW s \in Strings,
           RefsOf(p, InternID(p, s), cl[c].kind) < MaxRefcount
    PROVE  LET kind == cl[c].kind
               q    == Release(Intern(p, s, kind), cl[c].id, kind)
               new  == [cl EXCEPT ![c] = [id |-> InternID(p, s), s |-> s, kind |-> kind]]
           IN  Exact(q, new) /\ Meant(q, new)
<1> DEFINE old  == cl[c].id
           kind == cl[c].kind
           mid  == Intern(p, s, kind)
           q    == Release(mid, old, kind)
           id   == InternID(p, s)
           x    == [id |-> id, s |-> s, kind |-> kind]
           new  == [cl EXCEPT ![c] = x]
<1>0. old \in Nat \ {0} /\ kind \in Kinds
  BY DEF Cell
<1>1. /\ mid \in Pool
      /\ Consistent(mid)
      /\ Says(mid, id, s)
      /\ \A i \in Nat, k \in Kinds : RefsOf(mid, i, k) =
                IF i = id /\ k = kind /\ RefsOf(p, i, k) < MaxRefcount
                THEN RefsOf(p, i, k) + 1 ELSE RefsOf(p, i, k)
  BY <1>0, InternEffect
<1>2. Meant(mid, cl)
  BY <1>0, InternMeant
<1>3. x.id = id /\ x.s = s /\ x.kind = kind
  OBVIOUS
<1>4. x \in Cell
  BY <1>0, <1>1, PoolFields DEF Cell, Says
<1>5. RefsOf(p, old, kind) > 0
  BY <1>0, HolderCounts DEF Exact
<1>6. RefsOf(p, id, kind) < MaxRefcount
  OBVIOUS
<1> HIDE DEF mid, id, x
<1>7. \A i \in Nat, k \in Kinds : RefsOf(q, i, k) =
        IF i = old /\ k = kind /\ RefsOf(mid, i, k) > 0
        THEN RefsOf(mid, i, k) - 1 ELSE RefsOf(mid, i, k)
  BY <1>0, <1>1, ReleaseEffect
<1> HIDE DEF q
<1>8. Exact(q, new)
  <2> SUFFICES ASSUME NEW i \in Nat \ {0}, NEW k \in Kinds
               PROVE  RefsOf(q, i, k) = Cardinality(HeldBy(new, i, k))
    BY DEF Exact
  <2>1. /\ RefsOf(p, i, k) = Cardinality(HeldBy(cl, i, k))
        /\ RefsOf(p, i, k) \in Nat
    BY HeldFinite DEF Exact
  <2>2. Refers(x, i, k) <=> i = id /\ k = kind
    BY <1>3 DEF Refers
  <2>3. Refers(cl[c], i, k) <=> i = old /\ k = kind
    BY DEF Refers
  <2>7. \A d \in Cells : new[d] = IF d = c THEN x ELSE cl[d]
    OBVIOUS
  <2> HIDE DEF new, old, kind
  <2>4. /\ Refers(cl[c], i, k) /\ ~Refers(x, i, k) =>
            Cardinality(HeldBy(new, i, k)) = Cardinality(HeldBy(cl, i, k)) - 1
        /\ ~Refers(cl[c], i, k) /\ Refers(x, i, k) =>
            Cardinality(HeldBy(new, i, k)) = Cardinality(HeldBy(cl, i, k)) + 1
        /\ (Refers(cl[c], i, k) <=> Refers(x, i, k)) =>
            Cardinality(HeldBy(new, i, k)) = Cardinality(HeldBy(cl, i, k))
    BY <2>7, HeldUpdate
  <2>5. RefsOf(mid, i, k) = IF Refers(x, i, k) THEN RefsOf(p, i, k) + 1 ELSE RefsOf(p, i, k)
    BY <1>1, <1>6, <2>2
  <2>6. RefsOf(q, i, k) =
            IF Refers(cl[c], i, k) THEN RefsOf(mid, i, k) - 1 ELSE RefsOf(mid, i, k)
    BY <1>5, <1>7, <2>1, <2>3, <2>5
  <2>. QED  BY <2>1, <2>4, <2>5, <2>6
<1>9. Meant(mid, new) /\ new \in [Cells -> Cell]
  BY <1>1, <1>2, <1>3, <1>4 DEF Meant
<1>. QED  BY <1>0, <1>1, <1>8, <1>9, ReleaseMeant DEF q, mid, id, x

\* An INSERT that fails gives back exactly what it took.
LEMMA CountFail ==
    ASSUME NEW p \in Pool, Consistent(p), NEW cl \in [Cells -> Cell],
           Exact(p, cl), Meant(p, cl), NEW s \in Strings, NEW kind \in Kinds,
           RefsOf(p, InternID(p, s), kind) < MaxRefcount
    PROVE  LET q == Release(Intern(p, s, kind), InternID(p, s), kind) IN
           Exact(q, cl) /\ Meant(q, cl)
<1> DEFINE mid == Intern(p, s, kind)
           id  == InternID(p, s)
           q   == Release(mid, id, kind)
<1>1. /\ mid \in Pool
      /\ Consistent(mid)
      /\ Says(mid, id, s)
      /\ \A i \in Nat, k \in Kinds : RefsOf(mid, i, k) =
                IF i = id /\ k = kind /\ RefsOf(p, i, k) < MaxRefcount
                THEN RefsOf(p, i, k) + 1 ELSE RefsOf(p, i, k)
  BY InternEffect
<1>2. Meant(mid, cl)
  BY InternMeant
<1>3. RefsOf(p, id, kind) < MaxRefcount /\ RefsOf(p, id, kind) \in Nat
  BY RefsOfType, StringPoolAssumption
<1> HIDE DEF mid, id
<1>4. id \in Nat
  BY <1>1, PoolFields DEF Says
<1>5. \A i \in Nat, k \in Kinds : RefsOf(q, i, k) =
        IF i = id /\ k = kind /\ RefsOf(mid, i, k) > 0
        THEN RefsOf(mid, i, k) - 1 ELSE RefsOf(mid, i, k)
  BY <1>1, <1>4, ReleaseEffect
<1> HIDE DEF q
<1>6. \A i \in Nat \ {0}, k \in Kinds : RefsOf(q, i, k) = RefsOf(p, i, k)
  BY <1>1, <1>3, <1>5
<1>7. Exact(q, cl)
  BY <1>6 DEF Exact
<1>. QED  BY <1>1, <1>2, <1>4, <1>7, ReleaseMeant DEF q, mid, id

\* A save drops the temporary cells and their counters, and nothing else.
LEMMA CountSave ==
    ASSUME NEW p \in Pool, Consistent(p), NEW cl \in [Cells -> Cell],
           Exact(p, cl), Meant(p, cl), NEW n \in EncodedLens(p),
           NEW f \in FreeOrders(Encode(p, n))
    PROVE  LET q   == Decode(Encode(p, n), f)
               new == [c \in Cells |-> IF cl[c].kind = "persistent" THEN cl[c] ELSE Null]
           IN  Exact(q, new) /\ Meant(q, new)
<1> DEFINE q   == Decode(Encode(p, n), f)
           new == [c \in Cells |-> IF cl[c].kind = "persistent" THEN cl[c] ELSE Null]
<1>1. /\ q \in Pool
      /\ \A i \in Ids(q) : i \in Ids(p)
      /\ \A i \in Ids(p) : Saved(p, i) => q.entries[i].s = p.entries[i].s
      /\ \A i \in Ids(q) : Live(q, i) => Saved(p, i)
      /\ \A i \in Nat, k \in Kinds : RefsOf(q, i, k) =
                IF k = "persistent" THEN RefsOf(p, i, k) ELSE 0
  BY SaveEffect
<1> HIDE DEF q
<1>2. new \in [Cells -> Cell]
  BY NullCell
<1>3. Exact(q, new)
  <2> SUFFICES ASSUME NEW i \in Nat \ {0}, NEW k \in Kinds
               PROVE  RefsOf(q, i, k) = Cardinality(HeldBy(new, i, k))
    BY DEF Exact
  <2>1. CASE k = "persistent"
    <3>1. HeldBy(new, i, k) = HeldBy(cl, i, k)
      BY <2>1, NullCell DEF HeldBy, Refers
    <3>. QED  BY <1>1, <2>1, <3>1 DEF Exact
  <2>2. CASE k # "persistent"
    <3>1. HeldBy(new, i, k) = {}
      BY <2>2, NullCell DEF HeldBy, Refers
    <3>. QED  BY <1>1, <2>2, <3>1, FS_EmptySet
  <2>. QED  BY <2>1, <2>2
<1>4. 0 \notin Ids(q)
  BY <1>1, PoolFields
<1>5. \A c \in Cells : new[c].id \in Ids(q) /\ Live(q, new[c].id) =>
        q.entries[new[c].id].s = new[c].s
  BY <1>1, <1>4, NullCell DEF Meant, Says
<1>. QED  BY <1>1, <1>2, <1>3, <1>5, ExactMeant DEF q

\* What a cell holds after Intern.
LEMMA ReferringCell ==
    ASSUME PoolInv, NEW kind \in Kinds
    PROVE  /\ Referring(Blank, kind) = Null
           /\ \A s \in Strings :
                /\ Referring(s, kind) = [id |-> InternID(pool, s), s |-> s, kind |-> kind]
                /\ InternID(pool, s) # 0
                /\ s # Blank
BY InternPool, StringPoolAssumption DEF PoolInv, TypeOK, Referring

\* A step of the second invariant, for each kind of step.
CountsAgree == BlankIsNull /\ (~saturated => Exact(pool, cell) /\ Meant(pool, cell))

\* Storing keeps the counts in agreement with the cells.
LEMMA StoreCounts ==
    ASSUME CountInv, NEW c \in Cells, NEW s \in Strings, NEW kind \in Kinds, Store(c, s, kind)
    PROVE  CountsAgree'
<1>0. /\ PoolInv /\ pool \in Pool /\ Consistent(pool) /\ cell \in [Cells -> Cell]
      /\ BlankIsNull
  BY DEF CountInv, PoolInv, TypeOK
<1>1. /\ pool' = Intern(pool, s, kind)
      /\ cell' = [cell EXCEPT ![c] = [id |-> InternID(pool, s), s |-> s, kind |-> kind]]
      /\ InternID(pool, s) # 0 /\ s # Blank
      /\ cell[c].id = 0
  BY <1>0, ReferringCell DEF Store
<1>2. BlankIsNull'
  BY <1>0, <1>1 DEF BlankIsNull
<1>3. ASSUME ~saturated' PROVE Exact(pool', cell') /\ Meant(pool', cell')
  <2>1. ~saturated /\ ~Dropped(s, kind)
    BY <1>3 DEF Store
  <2>2. Exact(pool, cell) /\ Meant(pool, cell)
    BY <2>1 DEF CountInv
  <2>3. RefsOf(pool, InternID(pool, s), kind) < MaxRefcount
    BY <1>0, <2>1, NotDropped
  <2>. QED  BY <1>0, <1>1, <2>2, <2>3, CountStore
<1>. QED  BY <1>2, <1>3 DEF CountsAgree

\* A statement that fails gives back what it counted.
LEMMA StoreFailsCounts ==
    ASSUME CountInv, NEW s \in Strings, NEW kind \in Kinds, StoreFails(s, kind)
    PROVE  CountsAgree'
<1>0. /\ PoolInv /\ pool \in Pool /\ Consistent(pool) /\ cell \in [Cells -> Cell]
      /\ BlankIsNull
  BY DEF CountInv, PoolInv, TypeOK
<1>1. pool' = Release(Intern(pool, s, kind), InternID(pool, s), kind) /\ cell' = cell
  BY DEF StoreFails
<1>2. BlankIsNull'
  BY <1>0, <1>1 DEF BlankIsNull
<1>3. ASSUME ~saturated' PROVE Exact(pool', cell') /\ Meant(pool', cell')
  <2>1. ~saturated /\ ~Dropped(s, kind)
    BY <1>3 DEF StoreFails
  <2>2. Exact(pool, cell) /\ Meant(pool, cell)
    BY <2>1 DEF CountInv
  <2>3. RefsOf(pool, InternID(pool, s), kind) < MaxRefcount
    BY <1>0, <2>1, NotDropped
  <2>. QED  BY <1>0, <1>1, <2>2, <2>3, CountFail
<1>. QED  BY <1>2, <1>3 DEF CountsAgree

\* DELETE, and UPDATE to NULL, release a cell's reference and empty it.
LEMMA ClearCounts ==
    ASSUME CountInv, NEW c \in Cells, cell[c].id # 0, saturated' = saturated,
           pool' = Release(pool, cell[c].id, cell[c].kind),
           cell' = [cell EXCEPT ![c] = Null]
    PROVE  CountsAgree'
<1>0. pool \in Pool /\ Consistent(pool) /\ cell \in [Cells -> Cell] /\ BlankIsNull
  BY DEF CountInv, PoolInv, TypeOK
<1>1. BlankIsNull'
  BY <1>0, NullCell DEF BlankIsNull
<1>2. ASSUME ~saturated' PROVE Exact(pool', cell') /\ Meant(pool', cell')
  <2>1. Exact(pool, cell) /\ Meant(pool, cell)
    BY <1>2 DEF CountInv
  <2>. QED  BY <1>0, <2>1, CountClear
<1>. QED  BY <1>1, <1>2 DEF CountsAgree

\* Replacing keeps the counts in agreement with the cells.
LEMMA ReplaceCounts ==
    ASSUME CountInv, NEW c \in Cells, NEW s \in Strings, Replace(c, s)
    PROVE  CountsAgree'
<1> DEFINE kind == cell[c].kind
<1>0. /\ PoolInv /\ pool \in Pool /\ Consistent(pool) /\ cell \in [Cells -> Cell]
      /\ BlankIsNull
      /\ kind \in Kinds
  BY PoolTypes DEF CountInv, PoolInv, TypeOK
<1>1. /\ pool' = Release(Intern(pool, s, kind), cell[c].id, kind)
      /\ cell' = [cell EXCEPT ![c] = [id |-> InternID(pool, s), s |-> s, kind |-> kind]]
      /\ InternID(pool, s) # 0 /\ s # Blank
      /\ cell[c].id # 0
  BY <1>0, ReferringCell DEF Replace
<1>2. BlankIsNull'
  BY <1>0, <1>1 DEF BlankIsNull
<1>3. ASSUME ~saturated' PROVE Exact(pool', cell') /\ Meant(pool', cell')
  <2>1. ~saturated /\ ~Dropped(s, kind)
    BY <1>3 DEF Replace
  <2>2. Exact(pool, cell) /\ Meant(pool, cell)
    BY <2>1 DEF CountInv
  <2>3. RefsOf(pool, InternID(pool, s), kind) < MaxRefcount
    BY <1>0, <2>1, NotDropped
  <2>. QED  BY <1>0, <1>1, <2>2, <2>3, CountReplace
<1>. QED  BY <1>2, <1>3 DEF CountsAgree

\* What is read back is counted as the file says.
LEMMA SaveCounts ==
    ASSUME CountInv, SaveAndOpen
    PROVE  CountsAgree'
<1> DEFINE new == [c \in Cells |-> IF cell[c].kind = "persistent" THEN cell[c] ELSE Null]
<1>0. pool \in Pool /\ Consistent(pool) /\ cell \in [Cells -> Cell] /\ BlankIsNull
  BY DEF CountInv, PoolInv, TypeOK
<1>1. PICK n \in EncodedLens(pool) : \E f \in FreeOrders(Encode(pool, n)) :
          pool' = Decode(Encode(pool, n), f)
  BY DEF SaveAndOpen
<1>2. PICK f \in FreeOrders(Encode(pool, n)) : pool' = Decode(Encode(pool, n), f)
  BY <1>1
<1>3. cell' = new /\ saturated' = saturated
  BY DEF SaveAndOpen
<1>4. BlankIsNull'
  BY <1>0, <1>3, NullCell DEF BlankIsNull
<1>5. ASSUME ~saturated' PROVE Exact(pool', cell') /\ Meant(pool', cell')
  <2>1. Exact(pool, cell) /\ Meant(pool, cell)
    BY <1>3, <1>5 DEF CountInv
  <2>. QED  BY <1>0, <1>2, <1>3, <2>1, CountSave
<1>. QED  BY <1>4, <1>5 DEF CountsAgree

\* Every step keeps the counts exact until one saturates.
LEMMA CountStep == CountInv /\ [Next]_vars => CountInv'
<1> SUFFICES ASSUME CountInv, [Next]_vars PROVE CountInv'
  OBVIOUS
<1>0. PoolInv' /\ PoolInv /\ CountsAgree
  BY PoolStep DEF CountInv, CountsAgree
<1> SUFFICES CountsAgree'
  BY <1>0 DEF CountInv, CountsAgree
<1>1. ASSUME NEW c \in Cells, NEW s \in Strings, NEW kind \in Kinds, Store(c, s, kind)
      PROVE  CountsAgree'
  BY <1>1, StoreCounts
<1>2. ASSUME NEW s \in Strings, NEW kind \in Kinds, StoreFails(s, kind)
      PROVE  CountsAgree'
  BY <1>2, StoreFailsCounts
<1>3. ASSUME NEW c \in Cells, NEW s \in Strings \cup {Blank}, Replace(c, s)
      PROVE  CountsAgree'
  <2>1. CASE s = Blank
    <3>1. cell[c].kind \in Kinds /\ saturated \in BOOLEAN
      BY <1>0, PoolTypes DEF PoolInv
    <3>2. /\ cell[c].id # 0
          /\ pool' = Release(pool, cell[c].id, cell[c].kind)
          /\ saturated' = saturated
      BY <1>3, <2>1, <3>1 DEF Replace, Intern, Dropped
    <3>3. cell' = [cell EXCEPT ![c] = Null]
      BY <1>0, <1>3, <2>1, <3>1, ReferringCell DEF Replace
    <3>. QED  BY <3>2, <3>3, ClearCounts
  <2>2. CASE s # Blank
    BY <1>3, <2>2, ReplaceCounts
  <2>. QED  BY <2>1, <2>2
<1>4. ASSUME NEW c \in Cells, Clear(c)
      PROVE  CountsAgree'
  BY <1>4, ClearCounts DEF Clear
<1>5. ASSUME NEW cp \in Codepages, ChangeCodepage(cp)
      PROVE  CountsAgree'
  <2>1. pool'.entries = pool.entries /\ cell' = cell /\ saturated' = saturated
    BY <1>0, <1>5 DEF ChangeCodepage, SetCodepage, PoolInv, TypeOK, Pool
  <2>. QED  BY <1>0, <2>1 DEF CountsAgree, BlankIsNull, Exact, Meant, RefsOf, Says, Ids, Live
<1>6. CASE SaveAndOpen
  BY <1>6, SaveCounts
<1>7. CASE UNCHANGED vars
  BY <1>0, <1>7 DEF vars, CountsAgree, BlankIsNull
<1>. QED  BY <1>1, <1>2, <1>3, <1>4, <1>5, <1>6, <1>7 DEF Next

\* Unless a counter met its ceiling, every counter is the number of cells that
\* refer to its slot: no sequence of statements and saves leaks a reference.
THEOREM CountsStayExact == Spec => []CountsExact
<1>1. ASSUME CountInv PROVE CountsExact
  <2>1. \A id \in Ids(pool) : id \in Nat \ {0}
    BY <1>1, PoolFields DEF CountInv, PoolInv, TypeOK
  <2>2. \A id, kind : Holders(id, kind) = HeldBy(cell, id, kind)
    BY DEF Holders, HeldBy, Refers
  <2>. QED  BY <1>1, <2>1, <2>2 DEF CountsExact, CountInv, Exact, RefsOf
<1>. QED  BY <1>1, CountInit, CountStep, PTL DEF Spec

\* A cell means the string that was stored in it.
LEMMA CellMeans ==
    ASSUME CountInv, ~saturated, NEW c \in Cells
    PROVE  Means(c)
<1>1. CASE cell[c].id = 0
  BY <1>1 DEF CountInv, BlankIsNull, Means, Resolves, Lookup
<1>2. CASE cell[c].id # 0
  BY <1>2 DEF CountInv, Meant, Says, Means, Resolves, Lookup
<1>. QED  BY <1>1, <1>2

\* Unless a counter met its ceiling, every cell's ID means the string the
\* cell was stored with.
THEOREM NoCellDangles == Spec => []NoDanglingCell
<1>1. CountInv => NoDanglingCell
  BY CellMeans DEF NoDanglingCell
<1>. QED  BY <1>1, CountInit, CountStep, PTL DEF Spec

-----------------------------------------------------------------------------
(***************************************************************************)
(* Third invariant: fewer cells than the ceiling never saturate a counter. *)
(***************************************************************************)

\* A count that the cells cannot reach loses no reference.
LEMMA NeverDropped ==
    ASSUME CountInv, ~saturated, Cardinality(Cells) < MaxRefcount,
           NEW s \in Strings, NEW kind \in Kinds
    PROVE  ~Dropped(s, kind)
<1> SUFFICES ASSUME Dropped(s, kind) PROVE FALSE
  OBVIOUS
<1> DEFINE id == pool.index[s]
<1>1. pool \in Pool /\ Consistent(pool) /\ Exact(pool, cell)
  BY DEF CountInv, PoolInv, TypeOK
<1>2. id \in Ids(pool) /\ id \in Nat \ {0}
  BY <1>1, PoolFields DEF Dropped, Consistent, IndexMatchesEntries
<1>3. Cardinality(HeldBy(cell, id, kind)) = MaxRefcount
  BY <1>1, <1>2 DEF Dropped, Exact, RefsOf
<1>4. Cardinality(HeldBy(cell, id, kind)) <= Cardinality(Cells)
      /\ Cardinality(HeldBy(cell, id, kind)) \in Nat /\ Cardinality(Cells) \in Nat
  BY HeldFinite
<1>. QED  BY <1>3, <1>4, StringPoolAssumption

\* With fewer cells than the ceiling every cell always resolves to its string:
\* the ceiling is the only way to lose one.
THEOREM CeilingIsTheOnlyLoss ==
    ASSUME Cardinality(Cells) < MaxRefcount
    PROVE  Spec => []EveryCellResolves
<1> DEFINE Inv == CountInv /\ ~saturated
<1>1. Init => Inv
  BY CountInit DEF Init
<1>2. Inv /\ [Next]_vars => Inv'
  <2> SUFFICES ASSUME Inv, [Next]_vars PROVE ~saturated'
    BY CountStep
  <2>1. \A s \in Strings, kind \in Kinds : ~Dropped(s, kind)
    BY NeverDropped
  <2>2. \A c \in Cells : cell[c].kind \in Kinds
    BY PoolTypes DEF CountInv, PoolInv
  <2>3. \A kind \in Kinds : ~Dropped(Blank, kind)
    BY DEF Dropped
  <2>. QED  BY <2>1, <2>2, <2>3
            DEF Next, Store, StoreFails, Replace, Clear, ChangeCodepage, SaveAndOpen, vars
<1>3. Inv => EveryCellResolves
  BY CellMeans DEF EveryCellResolves
<1>. QED  BY <1>1, <1>2, <1>3, PTL DEF Spec

-----------------------------------------------------------------------------
(***************************************************************************)
(* Slots and width, saturated or not: a counter never counts more cells    *)
(* than there are, so every live slot has a cell that refers to it, and a  *)
(* slot is appended only when all the others are live.                     *)
(***************************************************************************)

\* Pools with the same slots are as long.
LEMMA IdsLength ==
    ASSUME NEW p \in Pool, NEW q \in Pool
    PROVE  /\ Ids(q) = Ids(p) => Len(q.entries) = Len(p.entries)
           /\ Ids(q) = Ids(p) \cup {Len(p.entries) + 1} => Len(q.entries) = Len(p.entries) + 1
           /\ Ids(q) \subseteq Ids(p) => Len(q.entries) <= Len(p.entries)
<1>1. Len(p.entries) \in Nat /\ Len(q.entries) \in Nat
  BY PoolFields
<1> DEFINE m == Len(p.entries)
           n == Len(q.entries)
<1>2. (n >= 1 => n \in Ids(q)) /\ n + 1 \notin Ids(q)
  BY <1>1 DEF Ids
<1>3. (m >= 1 => m \in Ids(p)) /\ m + 1 \notin Ids(p)
  BY <1>1 DEF Ids
<1>. QED  BY <1>1, <1>2, <1>3 DEF Ids

\* Interning takes a new slot only when no other is free.
LEMMA InternRoom ==
    ASSUME NEW p \in Pool, Consistent(p), NEW s \in Strings \cup {Blank}, NEW kind \in Kinds
    PROVE  LET q == Intern(p, s, kind) IN
           /\ q.longRefs = p.longRefs
           /\ \/ Len(q.entries) = Len(p.entries)
              \/ /\ Len(q.entries) = Len(p.entries) + 1
                 /\ \A id \in Ids(p) : Live(p, id)
           /\ InternID(p, s) <= Len(q.entries)
<1> DEFINE q == Intern(p, s, kind)
<1>1. q.longRefs = p.longRefs
  BY DEF Pool, Intern, Reference, ReuseSlot, AppendSlot
<1>2. CASE s = Blank
  BY <1>1, <1>2, PoolFields DEF Intern, InternID
<1>3. CASE s # Blank
  <2> DEFINE id == InternID(p, s)
  <2>1. q \in Pool /\ Ids(q) = Ids(p) \cup {id}
    BY <1>3, InternEffect
  <2>2. id <= Len(q.entries)
    BY <2>1, PoolFields DEF Ids
  <2>3. CASE id \in Ids(p)
    <3>1. Ids(q) = Ids(p)
      BY <2>1, <2>3
    <3>. QED  BY <1>1, <2>1, <2>2, <3>1, IdsLength
  <2>4. CASE id \notin Ids(p)
    <3>1. p.index[s] # 0 => p.index[s] \in Ids(p)
      BY <1>3 DEF Consistent, IndexMatchesEntries
    <3>2. p.free # <<>> => p.free[Len(p.free)] \in Ids(p)
      <4>1. p.free \in Seq(Nat)
        BY PoolFields
      <4>2. p.free # <<>> => Len(p.free) \in DOMAIN p.free
        BY <4>1
      <4>. QED  BY <4>2 DEF Consistent, FreeListExact
    <3>3. p.free = <<>> /\ id = Len(p.entries) + 1
      BY <1>3, <2>4, <3>1, <3>2 DEF InternID
    <3>4. \A i \in Ids(p) : Live(p, i)
      BY <3>3 DEF Consistent, FreeListExact
    <3>. QED  BY <1>1, <2>1, <2>2, <3>3, <3>4, IdsLength
  <2>. QED  BY <2>3, <2>4
<1>. QED  BY <1>2, <1>3

\* Releasing keeps the slots.
LEMMA ReleaseRoom ==
    ASSUME NEW p \in Pool, Consistent(p), NEW id \in Nat, NEW kind \in Kinds
    PROVE  LET q == Release(p, id, kind) IN
           q.longRefs = p.longRefs /\ Len(q.entries) = Len(p.entries)
<1> DEFINE q == Release(p, id, kind)
<1>1. q.longRefs = p.longRefs
  BY DEF Pool, Release, Unreference, FreeSlot
<1>2. q \in Pool /\ Ids(q) = Ids(p)
  BY ReleaseEffect
<1>. QED  BY <1>1, <1>2, IdsLength

\* A pool that is read back is no longer than before.
LEMMA SaveRoom ==
    ASSUME NEW p \in Pool, Consistent(p), NEW n \in EncodedLens(p),
           NEW f \in FreeOrders(Encode(p, n))
    PROVE  LET q == Decode(Encode(p, n), f) IN
           q.longRefs = LongRefs(p) /\ Len(q.entries) <= Len(p.entries)
<1> DEFINE q == Decode(Encode(p, n), f)
<1>1. q.longRefs = LongRefs(p)
  BY DEF Decode, Encode
<1>2. q \in Pool /\ \A i \in Ids(q) : i \in Ids(p)
  BY SaveEffect
<1>. QED  BY <1>1, <1>2, IdsLength

\* Whether no counter counts more than the cells that refer to the slot.
Bounded(p, cl) ==
    \A id \in Nat \ {0}, kind \in Kinds :
        RefsOf(p, id, kind) <= Cardinality(HeldBy(cl, id, kind))

\* Then there are at least as many cells as live slots.
LEMMA LiveSlots ==
    ASSUME NEW p \in Pool, NEW cl, Bounded(p, cl), \A id \in Ids(p) : Live(p, id)
    PROVE  Len(p.entries) <= Cardinality(Cells)
<1> DEFINE held == {cl[c].id : c \in Cells}
<1>1. IsFiniteSet(held) /\ Cardinality(held) <= Cardinality(Cells)
  <2> DEFINE f == [c \in Cells |-> cl[c].id]
  <2>1. f \in Surjection(Cells, held)
    BY DEF Surjection
  <2>. QED  BY <2>1, CellsAssumption, FS_Surjection
<1>2. Ids(p) \subseteq held
  <2> SUFFICES ASSUME NEW id \in Ids(p) PROVE id \in held
    OBVIOUS
  <2>1. PICK kind \in Kinds : p.entries[id].refs[kind] > 0
    BY LiveCounts
  <2>2. id \in Nat \ {0} /\ RefsOf(p, id, kind) > 0
    BY <2>1, PoolFields DEF RefsOf
  <2>3. RefsOf(p, id, kind) \in Nat
    BY RefsOfType, StringPoolAssumption
  <2>4. Cardinality(HeldBy(cl, id, kind)) # 0
    BY <2>2, <2>3, HeldFinite DEF Bounded
  <2>5. HeldBy(cl, id, kind) # {}
    BY <2>4, FS_EmptySet
  <2>. QED  BY <2>5 DEF HeldBy, Refers
<1>3. Cardinality(Ids(p)) <= Cardinality(held)
  BY <1>1, <1>2, FS_Subset
<1>4. Cardinality(Ids(p)) = Len(p.entries)
  BY PoolFields, FS_Interval DEF Ids
<1>5. Cardinality(held) \in Nat /\ Cardinality(Cells) \in Nat /\ Len(p.entries) \in Nat
  BY <1>1, CellsAssumption, FS_CardinalityType, PoolFields
<1>. QED  BY <1>1, <1>3, <1>4, <1>5

\* A step takes a reference for what it writes to a cell at most, and gives one
\* back for what the cell held if there is one.
Accounted(p, q, held, x) ==
    \A i \in Nat \ {0}, k \in Kinds :
        \/ RefsOf(q, i, k) = 0
        \/ Refers(held, i, k) /\ RefsOf(q, i, k) < RefsOf(p, i, k)
        \/ (Refers(held, i, k) <=> Refers(x, i, k)) /\ RefsOf(q, i, k) <= RefsOf(p, i, k)
        \/ /\ ~Refers(held, i, k) /\ Refers(x, i, k)
           /\ RefsOf(q, i, k) <= RefsOf(p, i, k) + 1

\* A step of one cell that accounts for its reference keeps every count within the cells that hold it.
LEMMA BoundedUpdate ==
    ASSUME NEW p \in Pool, NEW q \in Pool, NEW cl \in [Cells -> Cell], Bounded(p, cl),
           NEW c \in Cells, NEW x, NEW new, \A d \in Cells : new[d] = IF d = c THEN x ELSE cl[d],
           Accounted(p, q, cl[c], x)
    PROVE  Bounded(q, new)
<1> SUFFICES ASSUME NEW i \in Nat \ {0}, NEW k \in Kinds
             PROVE  RefsOf(q, i, k) <= Cardinality(HeldBy(new, i, k))
  BY DEF Bounded
<1> DEFINE before == Cardinality(HeldBy(cl, i, k))
           after  == Cardinality(HeldBy(new, i, k))
<1>1. RefsOf(q, i, k) \in Nat /\ RefsOf(p, i, k) \in Nat /\ before \in Nat /\ after \in Nat
  BY RefsOfType, HeldFinite, StringPoolAssumption
<1>2. RefsOf(p, i, k) <= before
  BY DEF Bounded
<1>3. /\ Refers(cl[c], i, k) /\ ~Refers(x, i, k) => after = before - 1
      /\ ~Refers(cl[c], i, k) /\ Refers(x, i, k) => after = before + 1
      /\ (Refers(cl[c], i, k) <=> Refers(x, i, k)) => after = before
  BY HeldUpdate
<1> HIDE DEF before, after
<1>4. Refers(cl[c], i, k) \in BOOLEAN /\ Refers(x, i, k) \in BOOLEAN
  BY DEF Refers
<1>. QED  BY <1>1, <1>2, <1>3, <1>4 DEF after, Accounted

\* The invariant, and what it needs of the one before.
RoomInv ==
    /\ CountInv
    /\ Bounded(pool, cell)
    /\ NoSlotLeak
    /\ ReferencesFitWidth

RoomNow == Bounded(pool, cell) /\ NoSlotLeak /\ ReferencesFitWidth

\* A new pool has no slot.
LEMMA RoomInit == Init => RoomInv
<1> SUFFICES ASSUME Init PROVE RoomInv
  OBVIOUS
<1>1. CountInv /\ pool.entries = <<>> /\ \A c \in Cells : cell[c].id = 0
  <2>1. pool.entries = <<>>
    BY DEF Init, New
  <2>2. \A c \in Cells : cell[c].id = 0
    BY NullCell DEF Init
  <2>. QED  BY <2>1, <2>2, CountInit
<1>2. Bounded(pool, cell)
  BY <1>1, HeldFinite DEF Bounded, RefsOf, Ids
<1>3. NoSlotLeak
  BY <1>1, CellsAssumption, FS_CardinalityType DEF NoSlotLeak
<1>4. ReferencesFitWidth
  BY <1>1, StringPoolAssumption DEF ReferencesFitWidth
<1>. QED  BY <1>1, <1>2, <1>3, <1>4 DEF RoomInv

\* The number of slots and the width after Intern, and after a Release.
LEMMA InternFitsRoom ==
    ASSUME RoomInv, NEW s \in Strings \cup {Blank}, NEW kind \in Kinds
    PROVE  LET q == Intern(pool, s, kind) IN
           /\ Len(q.entries) <= Cardinality(Cells) + 1
           /\ LongRefs(pool) => LongRefs(q)
           /\ InternID(pool, s) > MaxShortRef => LongRefs(q)
           /\ q \in Pool /\ Consistent(q) /\ InternID(pool, s) \in Nat
<1> DEFINE q == Intern(pool, s, kind)
<1>1. pool \in Pool /\ Consistent(pool) /\ Bounded(pool, cell) /\ NoSlotLeak
  BY DEF RoomInv, CountInv, PoolInv, TypeOK
<1>2. q \in Pool /\ Consistent(q) /\ InternID(pool, s) \in Nat
  BY <1>1, InternPool
<1>3. /\ Len(pool.entries) \in Nat /\ Len(q.entries) \in Nat /\ Cardinality(Cells) \in Nat
      /\ MaxShortRef \in Nat
  BY <1>1, <1>2, PoolFields, CellsAssumption, FS_CardinalityType, StringPoolAssumption
<1>4. /\ q.longRefs = pool.longRefs
      /\ \/ Len(q.entries) = Len(pool.entries)
         \/ /\ Len(q.entries) = Len(pool.entries) + 1
            /\ \A id \in Ids(pool) : Live(pool, id)
      /\ InternID(pool, s) <= Len(q.entries)
  BY <1>1, InternRoom
<1>5. Len(q.entries) <= Cardinality(Cells) + 1
  BY <1>1, <1>3, <1>4, LiveSlots DEF NoSlotLeak
<1>. QED  BY <1>2, <1>3, <1>4, <1>5 DEF LongRefs

\* Releasing leaves the width of references alone.
LEMMA ReleaseWidth ==
    ASSUME NEW p \in Pool, Consistent(p), NEW id \in Nat, NEW kind \in Kinds
    PROVE  LongRefs(Release(p, id, kind)) <=> LongRefs(p)
BY ReleaseRoom DEF LongRefs

\* So does saving, once they are wide.
LEMMA SaveWidth ==
    ASSUME NEW p \in Pool, Consistent(p), NEW n \in EncodedLens(p),
           NEW f \in FreeOrders(Encode(p, n)), LongRefs(p)
    PROVE  LongRefs(Decode(Encode(p, n), f))
BY SaveRoom DEF LongRefs

\* Storing keeps counts within the cells, slots in use and references narrow enough.
LEMMA StoreRoom ==
    ASSUME RoomInv, NEW c \in Cells, NEW s \in Strings, NEW kind \in Kinds, Store(c, s, kind)
    PROVE  RoomNow'
<1> DEFINE id == InternID(pool, s)
           x  == [id |-> id, s |-> s, kind |-> kind]
<1>0. /\ pool \in Pool /\ Consistent(pool) /\ cell \in [Cells -> Cell] /\ PoolInv
      /\ Bounded(pool, cell) /\ ReferencesFitWidth
  BY DEF RoomInv, CountInv, PoolInv, TypeOK
<1>1. /\ pool' = Intern(pool, s, kind) /\ cell' = [cell EXCEPT ![c] = x] /\ cell[c].id = 0
  BY <1>0, ReferringCell DEF Store
<1>2. /\ Len(pool'.entries) <= Cardinality(Cells) + 1
      /\ LongRefs(pool) => LongRefs(pool')
      /\ id > MaxShortRef => LongRefs(pool')
      /\ pool' \in Pool
  BY <1>1, InternFitsRoom
<1>3. \A i \in Nat, k \in Kinds : RefsOf(pool', i, k) =
        IF i = id /\ k = kind /\ RefsOf(pool, i, k) < MaxRefcount
        THEN RefsOf(pool, i, k) + 1 ELSE RefsOf(pool, i, k)
  BY <1>0, <1>1, InternEffect
<1>4. x.id = id /\ x.kind = kind
  OBVIOUS
<1>5. \A d \in Cells : cell'[d] = IF d = c THEN x ELSE cell[d]
  BY <1>0, <1>1
<1> HIDE DEF id, x
<1>6. \A i \in Nat, k \in Kinds : RefsOf(pool, i, k) \in Nat
  BY <1>0, RefsOfType, StringPoolAssumption
<1>7. Bounded(pool', cell')
  <2>1. Accounted(pool, pool', cell[c], x)
    BY <1>1, <1>3, <1>4, <1>6 DEF Accounted, Refers
  <2>. QED  BY <1>0, <1>2, <1>5, <2>1, BoundedUpdate
<1>8. ReferencesFitWidth'
  BY <1>0, <1>2, <1>4, <1>5 DEF ReferencesFitWidth
<1>. QED  BY <1>2, <1>7, <1>8 DEF RoomNow, NoSlotLeak

\* So does storing that fails.
LEMMA StoreFailsRoom ==
    ASSUME RoomInv, NEW s \in Strings, NEW kind \in Kinds, StoreFails(s, kind)
    PROVE  RoomNow'
<1> DEFINE id  == InternID(pool, s)
           mid == Intern(pool, s, kind)
<1>0. /\ pool \in Pool /\ Consistent(pool) /\ cell \in [Cells -> Cell]
      /\ Bounded(pool, cell) /\ ReferencesFitWidth
  BY DEF RoomInv, CountInv, PoolInv, TypeOK
<1>1. pool' = Release(mid, id, kind) /\ cell' = cell
  BY DEF StoreFails
<1>2. /\ Len(mid.entries) <= Cardinality(Cells) + 1
      /\ LongRefs(pool) => LongRefs(mid)
      /\ mid \in Pool /\ Consistent(mid) /\ id \in Nat
  BY InternFitsRoom
<1>3. \A i \in Nat, k \in Kinds : RefsOf(mid, i, k) =
        IF i = id /\ k = kind /\ RefsOf(pool, i, k) < MaxRefcount
        THEN RefsOf(pool, i, k) + 1 ELSE RefsOf(pool, i, k)
  BY <1>0, InternEffect
<1> HIDE DEF id, mid
<1>4. /\ \A i \in Nat, k \in Kinds : RefsOf(pool', i, k) =
            IF i = id /\ k = kind /\ RefsOf(mid, i, k) > 0
            THEN RefsOf(mid, i, k) - 1 ELSE RefsOf(mid, i, k)
      /\ Len(pool'.entries) = Len(mid.entries)
      /\ LongRefs(pool') <=> LongRefs(mid)
  <2>1. \A i \in Nat, k \in Kinds : RefsOf(pool', i, k) =
            IF i = id /\ k = kind /\ RefsOf(mid, i, k) > 0
            THEN RefsOf(mid, i, k) - 1 ELSE RefsOf(mid, i, k)
    BY <1>1, <1>2, ReleaseEffect
  <2>2. Len(pool'.entries) = Len(mid.entries)
    BY <1>1, <1>2, ReleaseRoom
  <2>3. LongRefs(pool') <=> LongRefs(mid)
    BY <1>1, <1>2, ReleaseWidth
  <2>. QED  BY <2>1, <2>2, <2>3
<1>6. \A i \in Nat, k \in Kinds : RefsOf(pool, i, k) \in Nat
  BY <1>0, RefsOfType, StringPoolAssumption
<1>7. Bounded(pool', cell')
  <2>1. \A i \in Nat, k \in Kinds : RefsOf(pool', i, k) <= RefsOf(pool, i, k)
                                    /\ RefsOf(pool', i, k) \in Nat
    <3> SUFFICES ASSUME NEW i \in Nat, NEW k \in Kinds
                 PROVE  RefsOf(pool', i, k) <= RefsOf(pool, i, k)
                        /\ RefsOf(pool', i, k) \in Nat
      OBVIOUS
    <3>1. RefsOf(pool, i, k) \in Nat
      BY <1>6
    <3>2. CASE i = id /\ k = kind
      BY <1>3, <1>4, <3>1, <3>2
    <3>3. CASE ~(i = id /\ k = kind)
      BY <1>3, <1>4, <3>1, <3>3
    <3>. QED  BY <3>2, <3>3
  <2>2. \A i, k : Cardinality(HeldBy(cell, i, k)) \in Nat
    BY HeldFinite
  <2>. QED  BY <1>0, <1>1, <1>6, <2>1, <2>2 DEF Bounded
<1>8. ReferencesFitWidth'
  BY <1>0, <1>1, <1>2, <1>4 DEF ReferencesFitWidth
<1>. QED  BY <1>2, <1>4, <1>7, <1>8 DEF RoomNow, NoSlotLeak

\* DELETE, and UPDATE to NULL.
LEMMA ClearRoom ==
    ASSUME RoomInv, NEW c \in Cells, cell[c].id # 0,
           pool' = Release(pool, cell[c].id, cell[c].kind),
           cell' = [cell EXCEPT ![c] = Null]
    PROVE  RoomNow'
<1> DEFINE old  == cell[c].id
           kind == cell[c].kind
<1>0. /\ pool \in Pool /\ Consistent(pool) /\ cell \in [Cells -> Cell]
      /\ Bounded(pool, cell) /\ ReferencesFitWidth /\ NoSlotLeak
      /\ old \in Nat /\ kind \in Kinds
  BY PoolTypes DEF RoomInv, CountInv, PoolInv, TypeOK
<1>1. /\ \A i \in Nat, k \in Kinds : RefsOf(pool', i, k) =
            IF i = old /\ k = kind /\ RefsOf(pool, i, k) > 0
            THEN RefsOf(pool, i, k) - 1 ELSE RefsOf(pool, i, k)
      /\ pool' \in Pool
      /\ Len(pool'.entries) = Len(pool.entries)
      /\ LongRefs(pool') <=> LongRefs(pool)
  BY <1>0, ReleaseEffect, ReleaseRoom, ReleaseWidth, ZenonT(30)
<1>2. \A d \in Cells : cell'[d] = IF d = c THEN Null ELSE cell[d]
  BY <1>0
<1>3. \A i \in Nat, k \in Kinds : RefsOf(pool, i, k) \in Nat
  BY <1>0, RefsOfType, StringPoolAssumption
<1>4. Bounded(pool', cell')
  <2>1. \A i \in Nat \ {0}, k \in Kinds : Refers(cell[c], i, k) <=> i = old /\ k = kind
    BY DEF Refers
  <2>2. \A i \in Nat \ {0}, k \in Kinds : ~Refers(Null, i, k)
    BY NullCell DEF Refers
  <2>3. Accounted(pool, pool', cell[c], Null)
    <3> HIDE DEF old, kind
    <3>. QED  BY <1>1, <1>3, <2>1, <2>2 DEF Accounted
  <2>4. pool \in Pool /\ pool' \in Pool /\ cell \in [Cells -> Cell] /\ Bounded(pool, cell)
    BY <1>0, <1>1
  <2>5. PICK q \in Pool : q = pool'
    BY <1>1
  <2>6. PICK new : new = cell'
    OBVIOUS
  <2>7. Accounted(pool, q, cell[c], Null) /\ \A d \in Cells : new[d] = IF d = c THEN Null ELSE cell[d]
    BY <1>2, <2>3, <2>5, <2>6
  <2>8. Bounded(q, new)
    BY <2>4, <2>7, BoundedUpdate
  <2>. QED  BY <2>5, <2>6, <2>8
<1>5. ReferencesFitWidth'
  BY <1>0, <1>1, <1>2, NullCell, StringPoolAssumption DEF ReferencesFitWidth
<1>. QED  BY <1>0, <1>1, <1>4, <1>5 DEF RoomNow, NoSlotLeak

\* So does replacing.
LEMMA ReplaceRoom ==
    ASSUME RoomInv, NEW c \in Cells, NEW s \in Strings, Replace(c, s)
    PROVE  RoomNow'
<1> DEFINE id   == InternID(pool, s)
           old  == cell[c].id
           kind == cell[c].kind
           mid  == Intern(pool, s, kind)
           x    == [id |-> id, s |-> s, kind |-> kind]
<1>0. /\ pool \in Pool /\ Consistent(pool) /\ cell \in [Cells -> Cell] /\ PoolInv
      /\ Bounded(pool, cell) /\ ReferencesFitWidth
      /\ old \in Nat /\ kind \in Kinds
  BY PoolTypes DEF RoomInv, CountInv, PoolInv, TypeOK
<1>1. pool' = Release(mid, old, kind) /\ cell' = [cell EXCEPT ![c] = x]
  BY <1>0, ReferringCell DEF Replace
<1>2. /\ Len(mid.entries) <= Cardinality(Cells) + 1
      /\ LongRefs(pool) => LongRefs(mid)
      /\ id > MaxShortRef => LongRefs(mid)
      /\ mid \in Pool /\ Consistent(mid) /\ id \in Nat
  BY <1>0, InternFitsRoom
<1>3. \A i \in Nat, k \in Kinds : RefsOf(mid, i, k) =
        IF i = id /\ k = kind /\ RefsOf(pool, i, k) < MaxRefcount
        THEN RefsOf(pool, i, k) + 1 ELSE RefsOf(pool, i, k)
  BY <1>0, InternEffect
<1>4. x.id = id /\ x.kind = kind
  OBVIOUS
<1>5. \A d \in Cells : cell'[d] = IF d = c THEN x ELSE cell[d]
  BY <1>0, <1>1
<1>6. \A i \in Nat, k \in Kinds : Refers(cell[c], i, k) <=> i = old /\ k = kind
  BY DEF Refers
<1> HIDE DEF id, mid, x, old, kind
<1>7. /\ \A i \in Nat, k \in Kinds : RefsOf(pool', i, k) =
            IF i = old /\ k = kind /\ RefsOf(mid, i, k) > 0
            THEN RefsOf(mid, i, k) - 1 ELSE RefsOf(mid, i, k)
      /\ pool' \in Pool
      /\ Len(pool'.entries) = Len(mid.entries)
      /\ LongRefs(pool') <=> LongRefs(mid)
  <2>0. pool' = Release(mid, old, kind)
    BY <1>1
  <2>1. Len(pool'.entries) = Len(mid.entries) /\ (LongRefs(pool') <=> LongRefs(mid))
    BY <1>0, <2>0, <1>2, ReleaseRoom, ReleaseWidth
  <2>2. mid \in Pool /\ Consistent(mid) /\ old \in Nat /\ kind \in Kinds
    BY <1>0, <1>2
  <2>. QED  BY <2>0, <2>1, <2>2, ReleaseEffect
<1>8. \A i \in Nat, k \in Kinds : RefsOf(pool, i, k) \in Nat
  BY <1>0, RefsOfType, StringPoolAssumption
<1>9. Bounded(pool', cell')
  <2>1. \A i \in Nat, k \in Kinds : Refers(x, i, k) <=> i = id /\ k = kind
    BY <1>4 DEF Refers
  <2>2. Accounted(pool, pool', cell[c], x)
    <3> SUFFICES ASSUME NEW i \in Nat \ {0}, NEW k \in Kinds
                 PROVE  \/ RefsOf(pool', i, k) = 0
                        \/ Refers(cell[c], i, k) /\ RefsOf(pool', i, k) < RefsOf(pool, i, k)
                        \/ /\ Refers(cell[c], i, k) <=> Refers(x, i, k)
                           /\ RefsOf(pool', i, k) <= RefsOf(pool, i, k)
                        \/ /\ ~Refers(cell[c], i, k) /\ Refers(x, i, k)
                           /\ RefsOf(pool', i, k) <= RefsOf(pool, i, k) + 1
      BY DEF Accounted
    <3>1. /\ RefsOf(pool, i, k) \in Nat /\ (Refers(cell[c], i, k) <=> i = old /\ k = kind)
          /\ Refers(x, i, k) <=> i = id /\ k = kind
      BY <1>6, <1>8, <2>1
    <3>2. RefsOf(mid, i, k) = IF i = id /\ k = kind /\ RefsOf(pool, i, k) < MaxRefcount
                              THEN RefsOf(pool, i, k) + 1 ELSE RefsOf(pool, i, k)
      BY <1>3
    <3>3. RefsOf(pool', i, k) = IF i = old /\ k = kind /\ RefsOf(mid, i, k) > 0
                               THEN RefsOf(mid, i, k) - 1 ELSE RefsOf(mid, i, k)
      BY <1>7
    <3>. QED  BY <3>1, <3>2, <3>3
  <2>3. pool \in Pool /\ pool' \in Pool /\ cell \in [Cells -> Cell] /\ Bounded(pool, cell)
    BY <1>0, <1>7
  <2>. QED  BY <1>5, <2>2, <2>3, BoundedUpdate
<1>10. ReferencesFitWidth'
  BY <1>0, <1>2, <1>4, <1>5, <1>7 DEF ReferencesFitWidth
<1>. QED  BY <1>2, <1>7, <1>9, <1>10 DEF RoomNow, NoSlotLeak

\* So does saving and opening again.
LEMMA SaveRoomNow == ASSUME RoomInv, SaveAndOpen PROVE RoomNow'
<1>0. /\ pool \in Pool /\ Consistent(pool) /\ cell \in [Cells -> Cell]
      /\ Bounded(pool, cell) /\ ReferencesFitWidth /\ NoSlotLeak
  BY DEF RoomInv, CountInv, PoolInv, TypeOK
<1>1. PICK n \in EncodedLens(pool) : \E f \in FreeOrders(Encode(pool, n)) :
          pool' = Decode(Encode(pool, n), f)
  BY DEF SaveAndOpen
<1>2. PICK f \in FreeOrders(Encode(pool, n)) : pool' = Decode(Encode(pool, n), f)
  BY <1>1
<1>3. /\ pool' \in Pool
      /\ \A i \in Nat, k \in Kinds : RefsOf(pool', i, k) =
            IF k = "persistent" THEN RefsOf(pool, i, k) ELSE 0
      /\ Len(pool'.entries) <= Len(pool.entries)
      /\ LongRefs(pool) => LongRefs(pool')
  BY <1>0, <1>2, SaveEffect, SaveRoom, SaveWidth
<1>4. \A c \in Cells : cell'[c] = IF cell[c].kind = "persistent" THEN cell[c] ELSE Null
  BY DEF SaveAndOpen
<1>5. Bounded(pool', cell')
  <2> SUFFICES ASSUME NEW i \in Nat \ {0}, NEW k \in Kinds
               PROVE  RefsOf(pool', i, k) <= Cardinality(HeldBy(cell', i, k))
    BY DEF Bounded
  <2>1. CASE k = "persistent"
    <3>1. HeldBy(cell', i, k) = HeldBy(cell, i, k)
      BY <1>4, <2>1, NullCell DEF HeldBy, Refers
    <3>. QED  BY <1>0, <1>3, <2>1, <3>1 DEF Bounded
  <2>2. CASE k # "persistent"
    BY <1>3, <2>2, HeldFinite
  <2>. QED  BY <2>1, <2>2
<1>6. NoSlotLeak'
  BY <1>0, <1>3, PoolFields, CellsAssumption, FS_CardinalityType DEF NoSlotLeak
<1>7. ReferencesFitWidth'
  BY <1>0, <1>3, <1>4, NullCell, StringPoolAssumption DEF ReferencesFitWidth
<1>. QED  BY <1>5, <1>6, <1>7 DEF RoomNow

\* Every step keeps the slots within bounds.
LEMMA RoomStep == RoomInv /\ [Next]_vars => RoomInv'
<1> SUFFICES ASSUME RoomInv, [Next]_vars PROVE RoomNow'
  BY CountStep DEF RoomInv, RoomNow
<1>0. PoolInv /\ pool \in Pool /\ saturated \in BOOLEAN
  BY DEF RoomInv, CountInv, PoolInv, TypeOK
<1>1. ASSUME NEW c \in Cells, NEW s \in Strings, NEW kind \in Kinds, Store(c, s, kind)
      PROVE  RoomNow'
  BY <1>1, StoreRoom
<1>2. ASSUME NEW s \in Strings, NEW kind \in Kinds, StoreFails(s, kind)
      PROVE  RoomNow'
  BY <1>2, StoreFailsRoom
<1>3. ASSUME NEW c \in Cells, NEW s \in Strings \cup {Blank}, Replace(c, s)
      PROVE  RoomNow'
  <2>1. CASE s = Blank
    <3>1. cell[c].kind \in Kinds
      BY <1>0, PoolTypes DEF PoolInv
    <3>2. cell[c].id # 0 /\ pool' = Release(pool, cell[c].id, cell[c].kind)
      BY <1>3, <2>1 DEF Replace, Intern
    <3>3. cell' = [cell EXCEPT ![c] = Null]
      BY <1>0, <1>3, <2>1, <3>1, ReferringCell DEF Replace
    <3>. QED  BY <3>2, <3>3, ClearRoom
  <2>2. CASE s # Blank
    BY <1>3, <2>2, ReplaceRoom
  <2>. QED  BY <2>1, <2>2
<1>4. ASSUME NEW c \in Cells, Clear(c) PROVE RoomNow'
  BY <1>4, ClearRoom DEF Clear
<1>5. ASSUME NEW cp \in Codepages, ChangeCodepage(cp) PROVE RoomNow'
  <2>1. pool'.entries = pool.entries /\ pool'.longRefs = pool.longRefs /\ cell' = cell
    BY <1>0, <1>5 DEF ChangeCodepage, SetCodepage, Pool
  <2>. QED  BY <2>1 DEF RoomInv, RoomNow, Bounded, RefsOf, Ids, NoSlotLeak,
                        ReferencesFitWidth, LongRefs
<1>6. CASE SaveAndOpen
  BY <1>6, SaveRoomNow
<1>7. CASE UNCHANGED vars
  BY <1>7 DEF vars, RoomInv, RoomNow, NoSlotLeak, ReferencesFitWidth
<1>. QED  BY <1>1, <1>2, <1>3, <1>4, <1>5, <1>6, <1>7 DEF Next

\* For any number of cells, even when counters met their ceiling: the pool
\* never has more slots than the cells plus one.
THEOREM SlotsAreReused == Spec => []NoSlotLeak
<1>1. RoomInv => NoSlotLeak
  BY DEF RoomInv
<1>. QED  BY <1>1, RoomInit, RoomStep, PTL DEF Spec

\* No cell ever holds a reference that the announced width cannot write.
THEOREM ReferencesAlwaysFit == Spec => []ReferencesFitWidth
<1>1. RoomInv => ReferencesFitWidth
  BY DEF RoomInv
<1>. QED  BY <1>1, RoomInit, RoomStep, PTL DEF Spec

\* No statement and no save makes the references short again.
THEOREM WidthOnlyGrows == Spec => WidthNeverShrinks
<1>1. ASSUME RoomInv, [Next]_vars PROVE [LongRefs(pool) => LongRefs(pool)']_vars
  <2>0. /\ pool \in Pool /\ Consistent(pool) /\ TypeOK
    BY <1>1 DEF RoomInv, CountInv, PoolInv, TypeOK
  <2>1. ASSUME NEW s \in Strings \cup {Blank}, NEW kind \in Kinds
        PROVE  /\ LongRefs(pool) => LongRefs(Intern(pool, s, kind))
               /\ \A id \in Nat : LongRefs(pool) => LongRefs(Release(Intern(pool, s, kind), id, kind))
               /\ InternID(pool, s) \in Nat
    BY <1>1, InternFitsRoom, ReleaseWidth
  <2>2. ASSUME SaveAndOpen, LongRefs(pool) PROVE LongRefs(pool')
    BY <2>0, <2>2, SaveWidth DEF SaveAndOpen
  <2>3. ASSUME NEW cp \in Codepages, ChangeCodepage(cp), LongRefs(pool) PROVE LongRefs(pool')
    BY <2>0, <2>3 DEF ChangeCodepage, SetCodepage, LongRefs, Pool
  <2>4. ASSUME NEW c \in Cells, Clear(c), LongRefs(pool) PROVE LongRefs(pool')
    BY <2>0, <2>4, PoolTypes, ReleaseWidth DEF Clear
  <2>5. ASSUME NEW c \in Cells, NEW s \in Strings, NEW kind \in Kinds, Store(c, s, kind),
               LongRefs(pool)
        PROVE  LongRefs(pool')
    BY <2>1, <2>5 DEF Store
  <2>6. ASSUME NEW s \in Strings, NEW kind \in Kinds, StoreFails(s, kind), LongRefs(pool)
        PROVE  LongRefs(pool')
    BY <2>1, <2>6 DEF StoreFails
  <2>7. ASSUME NEW c \in Cells, NEW s \in Strings \cup {Blank}, Replace(c, s), LongRefs(pool)
        PROVE  LongRefs(pool')
    BY <2>0, <2>1, <2>7, PoolTypes DEF Replace
  <2>. QED  BY <1>1, <2>2, <2>3, <2>4, <2>5, <2>6, <2>7 DEF Next
<1>. QED  BY <1>1, RoomInit, RoomStep, PTL DEF Spec, WidthNeverShrinks
=============================================================================
