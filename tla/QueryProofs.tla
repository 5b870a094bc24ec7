----------------------------- MODULE QueryProofs -----------------------------
(***************************************************************************)
(* That statements find, change and return the records they are about, for *)
(* any tables, records and WHERE clauses.                                  *)
(***************************************************************************)
EXTENDS Query, FiniteSetTheorems, FunctionTheorems, SequenceTheorems,
        WellFoundedInduction, TLAPS

-----------------------------------------------------------------------------
(***************************************************************************)
(* Induction, and functions defined by recursion.                          *)
(***************************************************************************)

\* A set of numbers that is not empty has a least one.
LEMMA LeastNumber ==
    ASSUME NEW S \in SUBSET Nat, S # {}
    PROVE  \E m \in S : \A k \in S : m <= k
<1> DEFINE R == {ss \in Nat \X Nat : ss[1] < ss[2]}
<1>1. IsWellFoundedOn(R, Nat)
  BY NatLessThanWellFounded DEF OpToRel
<1>2. \A k, m \in Nat : k < m => <<k, m>> \in R
  OBVIOUS
<1> HIDE DEF R
<1>3. PICK m \in S : \A k \in S : ~(<<k, m>> \in R)
  BY <1>1, WFMin
<1>4. ASSUME NEW k \in S PROVE m <= k
  <2>1. ~(k < m)
    BY <1>2, <1>3
  <2>. QED  BY <2>1
<1>. QED  BY <1>4

\* Induction: a set of numbers with 0 and the successors of its members has all.
LEMMA Induction ==
    ASSUME NEW P \in SUBSET Nat, 0 \in P, \A n \in P : n + 1 \in P
    PROVE  P = Nat
<1>1. SUFFICES ASSUME Nat \ P # {} PROVE FALSE
  OBVIOUS
<1>2. PICK m \in Nat \ P : \A k \in Nat \ P : m <= k
  BY <1>1, LeastNumber
<1>3. m # 0 /\ m - 1 \in Nat
  BY <1>2
<1>4. m - 1 \in P
  BY <1>2, <1>3
<1>5. (m - 1) + 1 = m
  BY <1>2
<1>. QED  BY <1>2, <1>4, <1>5

\* A function is defined by recursion when each of its values depends on those
\* of smaller arguments only.
IsRecursion(D, S, size, N, Step) ==
    /\ S # {} /\ N \in Nat /\ size \in [D -> 0..N]
    /\ Step \in [D \X [D -> S] -> S]
    /\ \A x \in D : \A f, g \in [D -> S] :
        (\A y \in D : size[y] < size[x] => f[y] = g[y]) => Step[<<x, f>>] = Step[<<x, g>>]

\* There is a function that such a definition defines.
LEMMA RecursiveFunction ==
    ASSUME NEW D, NEW S, NEW size, NEW N, NEW Step, IsRecursion(D, S, size, N, Step)
    PROVE  \E f \in [D -> S] : \A x \in D : f[x] = Step[<<x, f>>]
<1> USE DEF IsRecursion
<1> DEFINE Solved(n) == \E f \in [D -> S] : \A x \in D : size[x] < n => f[x] = Step[<<x, f>>]
           P == {n \in Nat : Solved(n)}
<1>1. 0 \in P
  <2>1. PICK s \in S : TRUE
    OBVIOUS
  <2>2. [x \in D |-> s] \in [D -> S] /\ \A x \in D : ~(size[x] < 0)
    BY <2>1
  <2>. QED  BY <2>2
<1>2. ASSUME NEW n \in P PROVE n + 1 \in P
  <2>0. n \in Nat
    BY <1>2
  <2>1. PICK f \in [D -> S] : \A x \in D : size[x] < n => f[x] = Step[<<x, f>>]
    BY <1>2
  <2> DEFINE g == [x \in D |-> IF size[x] = n THEN Step[<<x, f>>] ELSE f[x]]
  <2>2. g \in [D -> S]
    OBVIOUS
  <2>3. ASSUME NEW x \in D, size[x] < n + 1 PROVE g[x] = Step[<<x, g>>]
    <3>1. \A y \in D : size[y] < size[x] => f[y] = g[y]
      BY <2>3
    <3>2. Step[<<x, f>>] = Step[<<x, g>>]
      BY <2>2, <3>1
    <3>3. CASE size[x] = n
      BY <3>2, <3>3
    <3>4. CASE size[x] < n
      <4>1. g[x] = f[x] /\ f[x] = Step[<<x, f>>]
        BY <2>1, <3>4
      <4>. QED  BY <3>2, <4>1
    <3>5. size[x] \in Nat
      OBVIOUS
    <3>6. size[x] = n \/ size[x] < n
      <4> HIDE DEF P, g
      <4>. QED  BY <2>0, <2>3, <3>5
    <3>. QED  BY <3>3, <3>4, <3>6
  <2>4. n + 1 \in Nat
    OBVIOUS
  <2>. QED  BY <2>2, <2>3, <2>4
<1>3. P = Nat
  BY <1>1, <1>2, Induction
<1>4. N + 1 \in P
  <2> HIDE DEF P
  <2>. QED  BY <1>3
<1>5. PICK f \in [D -> S] : \A x \in D : size[x] < N + 1 => f[x] = Step[<<x, f>>]
  BY <1>4
<1>. QED  BY <1>5

-----------------------------------------------------------------------------
(***************************************************************************)
(* Binary search.                                                          *)
(***************************************************************************)

Halving(n, holds, f) ==
    [b \in (0..n) \X (0..n) |->
        IF b[1] >= b[2] THEN b[1]
        ELSE LET h == (b[1] + b[2]) \div 2 IN
             IF h \in holds THEN f[<<b[1], h>>] ELSE f[<<h + 1, b[2]>>]]

\* The middle of two numbers.
LEMMA Middle ==
    ASSUME NEW a \in Nat, NEW b \in Nat, a < b
    PROVE  LET h == (a + b) \div 2 IN h \in Nat /\ a <= h /\ h < b
OBVIOUS

\* Search halves what it has not looked at.
LEMMA SearchEquation ==
    ASSUME NEW n \in Nat, NEW holds
    PROVE  \E f : f = Halving(n, holds, f) /\ Search(n, holds) = f[<<0, n>>]
<1> DEFINE D == (0..n) \X (0..n)
           size == [b \in D |-> IF b[1] < b[2] THEN b[2] - b[1] ELSE 0]
           Step == [p \in D \X [D -> Nat] |-> Halving(n, holds, p[2])[p[1]]]
<1>1. size \in [D -> 0..n]
  OBVIOUS
<1>2. ASSUME NEW x \in D, x[1] < x[2]
      PROVE  LET h == (x[1] + x[2]) \div 2 IN
             /\ <<x[1], h>> \in D /\ <<h + 1, x[2]>> \in D
             /\ size[<<x[1], h>>] < size[x] /\ size[<<h + 1, x[2]>>] < size[x]
  <2>1. x[1] \in Nat /\ x[2] \in Nat /\ x[2] <= n
    OBVIOUS
  <2> DEFINE h == (x[1] + x[2]) \div 2
  <2>2. h \in Nat /\ x[1] <= h /\ h < x[2]
    BY <1>2, <2>1, Middle
  <2> HIDE DEF h
  <2>3. <<x[1], h>> \in D /\ <<h + 1, x[2]>> \in D
    BY <2>1, <2>2
  <2>4. size[<<x[1], h>>] < size[x] /\ size[<<h + 1, x[2]>>] < size[x]
    BY <1>2, <2>1, <2>2, <2>3
  <2>. QED  BY <2>3, <2>4 DEF h
<1> HIDE DEF size
<1>3. Step \in [D \X [D -> Nat] -> Nat]
  <2>1. ASSUME NEW x \in D, NEW f \in [D -> Nat] PROVE Halving(n, holds, f)[x] \in Nat
    BY <1>2 DEF Halving
  <2>. QED  BY <2>1
<1>4. ASSUME NEW x \in D, NEW f \in [D -> Nat], NEW g \in [D -> Nat],
             \A y \in D : size[y] < size[x] => f[y] = g[y]
      PROVE  Step[<<x, f>>] = Step[<<x, g>>]
  <2>1. Step[<<x, f>>] = Halving(n, holds, f)[x] /\ Step[<<x, g>>] = Halving(n, holds, g)[x]
    OBVIOUS
  <2>2. Halving(n, holds, f)[x] = Halving(n, holds, g)[x]
    BY <1>2, <1>4 DEF Halving
  <2>. QED  BY <2>1, <2>2
<1>5. PICK g \in [D -> Nat] : \A x \in D : g[x] = Step[<<x, g>>]
  <2> HIDE DEF Step, D
  <2>1. \A x \in D : \A f, g \in [D -> Nat] :
            (\A y \in D : size[y] < size[x] => f[y] = g[y]) => Step[<<x, f>>] = Step[<<x, g>>]
    BY <1>4
  <2>2. IsRecursion(D, Nat, size, n, Step)
    BY <1>1, <1>3, <2>1 DEF IsRecursion
  <2>. QED  BY <2>2, RecursiveFunction
<1>6. g = Halving(n, holds, g)
  <2>1. \A x \in D : g[x] = Halving(n, holds, g)[x]
    BY <1>5
  <2>. QED  BY <2>1 DEF Halving
<1>7. PICK c : c = CHOOSE f : f = Halving(n, holds, f)
  OBVIOUS
<1>8. c = Halving(n, holds, c)
  BY <1>6, <1>7
<1>9. Search(n, holds) = c[<<0, n>>]
  BY <1>7 DEF Search, Halving
<1>. QED  BY <1>8, <1>9

\* The test fails below a number and holds from there on.
Splits(n, holds, m) ==
    /\ m \in 0..n
    /\ \A i \in 0..(n - 1) : i \in holds <=> m <= i

\* Search returns the first number for which the test holds, if it holds for all
\* behind one for which it does.
LEMMA SearchSplits ==
    ASSUME NEW n \in Nat, NEW holds,
           \A i, j \in 0..(n - 1) : i < j /\ i \in holds => j \in holds
    PROVE  Splits(n, holds, Search(n, holds))
<1>1. PICK f : f = Halving(n, holds, f) /\ Search(n, holds) = f[<<0, n>>]
  BY SearchEquation
<1> DEFINE Between(a, b) ==
        /\ \A i \in 0..(n - 1) : i < a => i \notin holds
        /\ \A i \in 0..(n - 1) : b <= i => i \in holds
           Right(k) == \A a, b \in 0..n : a <= b /\ b <= a + k /\ Between(a, b) =>
               Splits(n, holds, f[<<a, b>>])
           P == {k \in Nat : Right(k)}
<1>2. \A a, b \in 0..n : f[<<a, b>>] =
        IF a >= b THEN a
        ELSE LET h == (a + b) \div 2 IN
             IF h \in holds THEN f[<<a, h>>] ELSE f[<<h + 1, b>>]
  BY <1>1 DEF Halving
<1>3. ASSUME NEW a \in 0..n, Between(a, a) PROVE Splits(n, holds, f[<<a, a>>])
  <2>1. f[<<a, a>>] = a
    <3>1. <<a, a>> \in (0..n) \X (0..n) /\ <<a, a>>[1] >= <<a, a>>[2]
      OBVIOUS
    <3>2. \A b \in (0..n) \X (0..n) : b[1] >= b[2] => f[b] = b[1]
      BY <1>1 DEF Halving
    <3>. QED  BY <3>1, <3>2
  <2>2. a \in Int
    OBVIOUS
  <2>. QED  BY <1>3, <2>1, <2>2 DEF Splits
<1>4. 0 \in P
  <2>1. ASSUME NEW a \in 0..n, NEW b \in 0..n, a <= b, b <= a + 0 PROVE a = b
    BY <2>1
  <2>. QED  BY <1>3, <2>1
<1>5. ASSUME NEW k \in P PROVE k + 1 \in P
  <2>1. k \in Nat /\ Right(k)
    BY <1>5
  <2>2. SUFFICES ASSUME NEW a \in 0..n, NEW b \in 0..n, a <= b, b <= a + (k + 1), Between(a, b)
                 PROVE  Splits(n, holds, f[<<a, b>>])
    BY <2>1
  <2>3. CASE a = b
    BY <1>3, <2>2, <2>3
  <2>4. CASE a < b
    <3> DEFINE h == (a + b) \div 2
    <3>1. h \in Nat /\ a <= h /\ h < b
      BY <2>4, Middle
    <3>2. f[<<a, b>>] = IF h \in holds THEN f[<<a, h>>] ELSE f[<<h + 1, b>>]
      BY <1>2, <2>4
    <3> HIDE DEF h
    <3>3. h \in 0..(n - 1) /\ h + 1 \in 0..n /\ h \in 0..n
      BY <3>1
    <3>4. CASE h \in holds
      <4>1. Between(a, h)
        BY <2>2, <3>3, <3>4
      <4>2. a <= h /\ h <= a + k
        BY <2>1, <2>2, <3>1
      <4>3. Splits(n, holds, f[<<a, h>>])
        BY <2>1, <3>3, <4>1, <4>2
      <4>. QED  BY <3>2, <3>4, <4>3
    <3>5. CASE h \notin holds
      <4>1. Between(h + 1, b)
        <5>1. ASSUME NEW i \in 0..(n - 1), i < h + 1, i \in holds PROVE FALSE
          <6>1. i = h \/ i < h
            BY <3>1, <5>1
          <6>. QED  BY <3>3, <3>5, <5>1, <6>1
        <5>. QED  BY <2>2, <5>1
      <4>2. h + 1 <= b /\ b <= h + 1 + k
        BY <2>1, <2>2, <3>1
      <4>3. Splits(n, holds, f[<<h + 1, b>>])
        BY <2>1, <3>3, <4>1, <4>2
      <4>. QED  BY <3>2, <3>5, <4>3
    <3>. QED  BY <3>4, <3>5
  <2>. QED  BY <2>2, <2>3, <2>4
<1>6. P = Nat
  <2> HIDE DEF P
  <2>. QED  BY <1>4, <1>5, Induction DEF P
<1>7. Right(n)
  BY <1>6
<1>8. Between(0, n)
  OBVIOUS
<1>. QED  BY <1>1, <1>7, <1>8

-----------------------------------------------------------------------------
(***************************************************************************)
(* A set in an order, and the members of a sequence at some places.        *)
(***************************************************************************)

\* One of any two members is before the other.
IsOrder(S, before) ==
    /\ \A x \in S : <<x, x>> \notin before
    /\ \A x, y \in S : x = y \/ <<x, y>> \in before \/ <<y, x>> \in before
    /\ \A x, y, z \in S : <<x, y>> \in before /\ <<y, z>> \in before => <<x, z>> \in before

\* A sequence has every member of a set, in an order.
Lists(o, S, before) ==
    /\ Cardinality(S) \in Nat /\ o \in [1..Cardinality(S) -> S]
    /\ \A x \in S : \E p \in 1..Cardinality(S) : o[p] = x
    /\ \A p, q \in 1..Cardinality(S) : p < q => <<o[p], o[q]>> \in before

\* InOrder lists a finite set: as many members are before a member as its place
\* says.
LEMMA InOrderLists ==
    ASSUME NEW S, IsFiniteSet(S), NEW before, IsOrder(S, before)
    PROVE  Lists(InOrder(S, before), S, before)
<1> DEFINE n == Cardinality(S)
           Ahead(x) == {y \in S : <<y, x>> \in before}
           rank == [x \in S |-> Cardinality(Ahead(x))]
           o == InOrder(S, before)
<1>1. n \in Nat
  BY FS_CardinalityType
<1>2. ASSUME NEW x \in S PROVE IsFiniteSet(Ahead(x)) /\ rank[x] \in 0..(n - 1)
  <2>1. IsFiniteSet(S \ {x}) /\ Cardinality(S \ {x}) = n - 1
    BY FS_RemoveElement
  <2>2. Ahead(x) \in SUBSET (S \ {x})
    BY DEF IsOrder
  <2>3. IsFiniteSet(Ahead(x)) /\ Cardinality(Ahead(x)) <= n - 1
    <3> HIDE DEF Ahead
    <3>1. IsFiniteSet(Ahead(x)) /\ Cardinality(Ahead(x)) <= Cardinality(S \ {x})
      BY <2>1, <2>2, FS_Subset
    <3>. QED  BY <2>1, <3>1
  <2>4. Cardinality(Ahead(x)) \in Nat
    BY <2>3, FS_CardinalityType
  <2>. QED  BY <1>1, <2>3, <2>4
<1>3. ASSUME NEW x \in S, NEW y \in S, <<x, y>> \in before PROVE rank[x] < rank[y]
  <2>1. Ahead(x) \in SUBSET Ahead(y)
    BY <1>3 DEF IsOrder
  <2>2. x \in Ahead(y) /\ x \notin Ahead(x)
    BY <1>3 DEF IsOrder
  <2>3. /\ Cardinality(Ahead(x)) <= Cardinality(Ahead(y))
        /\ Cardinality(Ahead(y)) = Cardinality(Ahead(x)) => Ahead(y) = Ahead(x)
    BY <1>2, <2>1, FS_Subset
  <2>4. Cardinality(Ahead(x)) # Cardinality(Ahead(y))
    BY <2>2, <2>3
  <2>5. rank[x] \in Int /\ rank[y] \in Int
    <3>1. rank[x] \in 0..(n - 1) /\ rank[y] \in 0..(n - 1)
      BY <1>2
    <3> HIDE DEF n, rank
    <3>. QED  BY <1>1, <3>1
  <2>6. rank[x] = Cardinality(Ahead(x)) /\ rank[y] = Cardinality(Ahead(y))
    OBVIOUS
  <2> HIDE DEF rank, Ahead
  <2>. QED  BY <2>3, <2>4, <2>5, <2>6
<1> HIDE DEF rank
<1>4. rank \in Injection(S, 0..(n - 1))
  <2>1. rank \in [S -> 0..(n - 1)]
    BY <1>2 DEF rank
  <2>2. ASSUME NEW x \in S, NEW y \in S, rank[x] = rank[y] PROVE x = y
    <3>1. ~(rank[x] < rank[y]) /\ ~(rank[y] < rank[x])
      BY <1>1, <2>1, <2>2
    <3>. QED  BY <1>3, <3>1 DEF IsOrder
  <2>. QED  BY <2>1, <2>2, Fun_IsInj
<1>5. IsFiniteSet(0..(n - 1)) /\ Cardinality(0..(n - 1)) = n
  <2>1. 0 \in Int /\ n - 1 \in Int
    BY <1>1
  <2>2. IsFiniteSet(0..(n - 1)) /\ Cardinality(0..(n - 1)) = IF 0 > n - 1 THEN 0 ELSE n - 1 - 0 + 1
    BY <2>1, FS_Interval
  <2>3. (IF 0 > n - 1 THEN 0 ELSE n - 1 - 0 + 1) = n
    BY <1>1
  <2>. QED  BY <2>2, <2>3
<1>6. rank \in Surjection(S, 0..(n - 1))
  BY <1>4, <1>5, FS_Injection
<1>6a. \A k \in 0..(n - 1) : \E x \in S : rank[x] = k
  <2> HIDE DEF n
  <2>. QED  BY <1>6 DEF Surjection
<1>7. ASSUME NEW p \in 1..n PROVE o[p] \in S /\ rank[o[p]] = p - 1
  <2>1. o[p] = CHOOSE x \in S : Cardinality(Ahead(x)) = p - 1
    BY DEF InOrder
  <2>2. p - 1 \in 0..(n - 1)
    BY <1>1
  <2>3. \E x \in S : rank[x] = p - 1
    BY <1>6a, <2>2
  <2>4. \E x \in S : Cardinality(Ahead(x)) = p - 1
    BY <2>3 DEF rank
  <2>5. o[p] \in S /\ Cardinality(Ahead(o[p])) = p - 1
    BY <2>1, <2>4
  <2>. QED  BY <2>5 DEF rank
<1>8. o \in [1..n -> S]
  BY <1>7 DEF InOrder
<1>9. ASSUME NEW x \in S PROVE \E p \in 1..n : o[p] = x
  <2>1. rank[x] \in 0..(n - 1)
    BY <1>2
  <2>2. rank[x] + 1 \in 1..n /\ (rank[x] + 1) - 1 = rank[x]
    BY <1>1, <2>1
  <2>3. rank[o[rank[x] + 1]] = rank[x] /\ o[rank[x] + 1] \in S
    BY <1>7, <2>2
  <2>4. o[rank[x] + 1] = x
    BY <1>4, <2>3, Fun_InjectionProperties
  <2>. QED  BY <2>2, <2>4
<1>10. ASSUME NEW p \in 1..n, NEW q \in 1..n, p < q PROVE <<o[p], o[q]>> \in before
  <2>1. rank[o[p]] < rank[o[q]]
    BY <1>1, <1>7, <1>10
  <2>2. o[p] # o[q] /\ ~(rank[o[q]] < rank[o[p]])
    BY <1>1, <1>7, <2>1
  <2>3. <<o[q], o[p]>> \notin before
    BY <1>3, <1>7, <2>2
  <2>. QED  BY <1>7, <2>2, <2>3 DEF IsOrder
<1>. QED  BY <1>1, <1>8, <1>9, <1>10 DEF Lists

\* A sequence consists of the members of another one at some places, in order.
Thinned(v, s, places) ==
    \E n \in Nat : \E at \in [1..n -> places] :
        /\ v = [p \in 1..n |-> s[at[p]]]
        /\ \A i \in places : \E p \in 1..n : at[p] = i
        /\ \A p, q \in 1..n : p < q => at[p] < at[q]

\* Picked does that.
LEMMA PickedThinned ==
    ASSUME NEW X, NEW s \in Seq(X), NEW places \in SUBSET DOMAIN s
    PROVE  Thinned(Picked(s, places), s, places)
<1> DEFINE before == {b \in places \X places : b[1] < b[2]}
           at == InOrder(places, before)
<1>1. IsFiniteSet(places)
  <2>1. IsFiniteSet(1..Len(s)) /\ places \in SUBSET (1..Len(s))
    BY FS_Interval
  <2>. QED  BY <2>1, FS_Subset
<1>2. \A i, j \in places : <<i, j>> \in before <=> i < j
  OBVIOUS
<1>3. places \subseteq Int
  OBVIOUS
<1> HIDE DEF before
<1>4. IsOrder(places, before)
  BY <1>2, <1>3 DEF IsOrder
<1>5. Lists(at, places, before)
  BY <1>1, <1>4, InOrderLists
<1>6. DOMAIN at = 1..Cardinality(places)
  BY <1>5 DEF Lists
<1>7. Picked(s, places) = [p \in 1..Cardinality(places) |-> s[at[p]]]
  BY <1>6 DEF Picked, before
<1> HIDE DEF at
<1>8. \A p, q \in 1..Cardinality(places) : p < q => at[p] < at[q]
  BY <1>2, <1>5 DEF Lists
<1>9. at \in [1..Cardinality(places) -> places] /\ Cardinality(places) \in Nat
      /\ \A i \in places : \E p \in 1..Cardinality(places) : at[p] = i
  BY <1>5 DEF Lists
<1>. QED  BY <1>7, <1>8, <1>9 DEF Thinned

\* A sequence has the members of another one at some of its places.
Shares(v, s, places) ==
    /\ \A p \in DOMAIN v : \E i \in places : v[p] = s[i]
    /\ \A i \in places : \E p \in DOMAIN v : v[p] = s[i]

\* It is a sequence of the members at those places.
LEMMA ThinnedSequence ==
    ASSUME NEW X, NEW s \in Seq(X), NEW places \in SUBSET DOMAIN s, NEW v, Thinned(v, s, places)
    PROVE  v \in Seq(X) /\ Shares(v, s, places)
<1>1. PICK n \in Nat : \E at \in [1..n -> places] :
        /\ v = [p \in 1..n |-> s[at[p]]]
        /\ \A i \in places : \E p \in 1..n : at[p] = i
        /\ \A p, q \in 1..n : p < q => at[p] < at[q]
  BY DEF Thinned
<1>2. PICK at \in [1..n -> places] :
        /\ v = [p \in 1..n |-> s[at[p]]]
        /\ \A i \in places : \E p \in 1..n : at[p] = i
        /\ \A p, q \in 1..n : p < q => at[p] < at[q]
  BY <1>1
<1>3. \A i \in places : s[i] \in X
  OBVIOUS
<1>4. v \in [1..n -> X]
  BY <1>2, <1>3
<1>5. v \in Seq(X)
  BY <1>4, SeqDef
<1>6. DOMAIN v = 1..n /\ \A p \in 1..n : v[p] = s[at[p]] /\ at[p] \in places
  BY <1>2
<1>. QED  BY <1>2, <1>5, <1>6 DEF Shares

\* So are the members in front of a window, some of those in it and those behind.
LEMMA WindowThinned ==
    ASSUME NEW X, NEW s \in Seq(X), NEW a \in 0..Len(s), NEW b \in a..Len(s),
           NEW places \in SUBSET ((a + 1)..b)
    PROVE  Thinned(SubSeq(s, 1, a) \o Picked(s, places) \o SubSeq(s, b + 1, Len(s)),
                   s, (1..a) \cup places \cup ((b + 1)..Len(s)))
<1> DEFINE n == Len(s)
           u == SubSeq(s, 1, a)
           k == Picked(s, places)
           w == SubSeq(s, b + 1, n)
           all == (1..a) \cup places \cup ((b + 1)..n)
<1>1. n \in Nat /\ a \in Nat /\ b \in Nat /\ a <= b /\ b <= n /\ DOMAIN s = 1..n
  OBVIOUS
<1>2. places \in SUBSET DOMAIN s
  BY <1>1
<1>3. PICK m \in Nat : \E at \in [1..m -> places] :
        /\ k = [p \in 1..m |-> s[at[p]]]
        /\ \A i \in places : \E p \in 1..m : at[p] = i
        /\ \A p, q \in 1..m : p < q => at[p] < at[q]
  <2>1. Thinned(k, s, places)
    BY <1>2, PickedThinned
  <2> HIDE DEF k
  <2>. QED  BY <2>1 DEF Thinned
<1>4. PICK at \in [1..m -> places] :
        /\ k = [p \in 1..m |-> s[at[p]]]
        /\ \A i \in places : \E p \in 1..m : at[p] = i
        /\ \A p, q \in 1..m : p < q => at[p] < at[q]
  BY <1>3
<1>5. k \in Seq(X) /\ Len(k) = m /\ \A p \in 1..m : k[p] = s[at[p]]
  <2>1. k \in Seq(X)
    BY <1>2, PickedThinned, ThinnedSequence
  <2> HIDE DEF k
  <2>. QED  BY <1>4, <2>1
<1>6. u \in Seq(X) /\ Len(u) = a /\ \A p \in 1..a : u[p] = s[p]
  OBVIOUS
<1>7. w \in Seq(X) /\ Len(w) = n - b /\ \A p \in 1..(n - b) : w[p] = s[b + p]
  OBVIOUS
<1> HIDE DEF n, u, k, w
<1> DEFINE l == a + m + (n - b)
           v == (u \o k) \o w
           to == [p \in 1..l |-> IF p <= a THEN p
                                 ELSE IF p <= a + m THEN at[p - a] ELSE b + (p - a - m)]
<1>8. l \in Nat
  BY <1>1
<1>9. u \o k \in Seq(X) /\ Len(u \o k) = a + m
      /\ \A p \in 1..(a + m) : (u \o k)[p] = IF p <= a THEN u[p] ELSE k[p - a]
  BY <1>5, <1>6
<1> DEFINE uk == u \o k
<1> HIDE DEF uk
<1>10. v \in Seq(X) /\ Len(v) = l
       /\ \A p \in 1..l : v[p] = IF p <= a + m THEN uk[p] ELSE w[p - (a + m)]
  <2>1. uk \in Seq(X) /\ Len(uk) = a + m /\ w \in Seq(X) /\ Len(w) = n - b
    BY <1>7, <1>9 DEF uk
  <2>2. /\ uk \o w \in Seq(X) /\ Len(uk \o w) = Len(uk) + Len(w)
        /\ \A p \in 1..(Len(uk) + Len(w)) :
             (uk \o w)[p] = IF p <= Len(uk) THEN uk[p] ELSE w[p - Len(uk)]
    BY <2>1, ConcatProperties
  <2>3. v = uk \o w
    BY DEF uk
  <2> HIDE DEF v
  <2>. QED  BY <2>1, <2>2, <2>3
<1> HIDE DEF v
<1>11. ASSUME NEW p \in 1..l PROVE to[p] \in all /\ v[p] = s[to[p]]
  <2>1. CASE p <= a
    <3>1. p \in 1..a /\ to[p] = p /\ p <= a + m
      BY <1>1, <2>1
    <3>2. v[p] = u[p]
      <4>1. p \in 1..(a + m) /\ uk[p] = u[p]
        BY <1>1, <1>9, <2>1, <3>1 DEF uk
      <4>2. v[p] = uk[p]
        BY <1>10, <3>1
      <4>. QED  BY <4>1, <4>2
    <3>. QED  BY <1>6, <3>1, <3>2
  <2>2. CASE p > a /\ p <= a + m
    <3>1. p - a \in 1..m /\ to[p] = at[p - a] /\ ~(p <= a) /\ p \in 1..(a + m)
      BY <1>1, <2>2
    <3>2. v[p] = k[p - a]
      BY <1>9, <1>10, <2>2, <3>1 DEF uk
    <3>. QED  BY <1>4, <1>5, <3>1, <3>2
  <2>3. CASE p > a + m
    <3>1. p - (a + m) \in 1..(n - b) /\ to[p] = b + (p - a - m) /\ b + (p - (a + m)) = b + (p - a - m)
      BY <1>1, <2>3
    <3>2. v[p] = w[p - (a + m)]
      BY <1>1, <1>10, <2>3
    <3>3. to[p] \in (b + 1)..n
      BY <1>1, <3>1
    <3>. QED  BY <1>7, <3>1, <3>2, <3>3
  <2>. QED  BY <1>1, <2>1, <2>2, <2>3
<1>12. to \in [1..l -> all]
  <2> HIDE DEF all, l
  <2>. QED  BY <1>11
<1>13. v = [p \in 1..l |-> s[to[p]]]
  <2>1. DOMAIN v = 1..l /\ v = [p \in DOMAIN v |-> v[p]]
    BY <1>10
  <2> HIDE DEF to, l
  <2>. QED  BY <1>11, <2>1
<1>14. ASSUME NEW i \in all PROVE \E p \in 1..l : to[p] = i
  <2>1. CASE i \in 1..a
    BY <1>1, <2>1
  <2>2. CASE i \in places
    <3>1. PICK p \in 1..m : at[p] = i
      BY <1>4, <2>2
    <3>2. a + p \in 1..l /\ (a + p) - a = p /\ ~(a + p <= a) /\ a + p <= a + m
      BY <1>1
    <3>. QED  BY <3>1, <3>2
  <2>3. CASE i \in (b + 1)..n
    <3>1. i - b + a + m \in 1..l /\ ~(i - b + a + m <= a) /\ ~(i - b + a + m <= a + m)
          /\ b + ((i - b + a + m) - a - m) = i
      BY <1>1, <2>3
    <3>. QED  BY <3>1
  <2>. QED  BY <2>1, <2>2, <2>3
<1>15. ASSUME NEW p \in 1..l, NEW q \in 1..l, p < q PROVE to[p] < to[q]
  <2>1. \A i \in 1..m : at[i] \in (a + 1)..b
    BY <1>4
  <2>2. CASE q <= a
    BY <1>1, <1>15, <2>2
  <2>3. CASE p <= a /\ q > a
    <3>1. to[p] = p /\ to[p] <= a
      BY <1>1, <2>3
    <3>2. to[q] > a
      <4>1. CASE q <= a + m
        <5>1. to[q] = at[q - a] /\ q - a \in 1..m
          BY <1>1, <2>3, <4>1
        <5>. QED  BY <1>1, <2>1, <5>1
      <4>2. CASE q > a + m
        <5>1. to[q] = b + (q - a - m)
          BY <1>1, <2>3, <4>2
        <5>. QED  BY <1>1, <4>2, <5>1
      <4>. QED  BY <1>1, <4>1, <4>2
    <3>3. to[q] \in Int
      <4>1. to[q] \in all
        BY <1>12
      <4>2. to[q] \in 1..a \/ to[q] \in (a + 1)..b \/ to[q] \in (b + 1)..n
        <5> HIDE DEF to
        <5>. QED  BY <4>1
      <4> HIDE DEF to
      <4>. QED  BY <1>1, <4>2
    <3>. QED  BY <1>1, <3>1, <3>2, <3>3
  <2>4. CASE p > a /\ q <= a + m
    <3>1. to[p] = at[p - a] /\ to[q] = at[q - a] /\ p - a \in 1..m /\ q - a \in 1..m /\ p - a < q - a
      BY <1>1, <1>15, <2>4
    <3>. QED  BY <1>4, <3>1
  <2>5. CASE p > a /\ p <= a + m /\ q > a + m
    <3>1. to[p] = at[p - a] /\ p - a \in 1..m /\ to[q] = b + (q - a - m)
      BY <1>1, <2>5
    <3>2. to[p] \in (a + 1)..b
      BY <2>1, <3>1
    <3> HIDE DEF to
    <3>. QED  BY <1>1, <2>5, <3>1, <3>2
  <2>6. CASE p > a + m
    <3>1. to[p] = b + (p - a - m) /\ to[q] = b + (q - a - m)
      BY <1>1, <1>15, <2>6
    <3> HIDE DEF to
    <3>. QED  BY <1>1, <1>15, <3>1
  <2>. QED  BY <1>1, <1>15, <2>2, <2>3, <2>4, <2>5, <2>6
<1>16. Thinned(v, s, all)
  <2> HIDE DEF to, all, l
  <2>. QED  BY <1>8, <1>12, <1>13, <1>14, <1>15 DEF Thinned
<1>. QED  BY <1>16 DEF v, u, k, w, n

-----------------------------------------------------------------------------
(***************************************************************************)
(* Keys.                                                                   *)
(***************************************************************************)

\* Records of a table, whatever their strings.
Raws(t) == [DOMAIN Schema[t] -> Nat]

\* What the assumption on the tables says.
LEMMA Columns ==
    ASSUME NEW t \in Tables
    PROVE  /\ Schema[t] \in Seq([type : {"string", "integer"}, size : Nat, key : BOOLEAN])
           /\ DOMAIN Schema[t] = 1..Len(Schema[t]) /\ Len(Schema[t]) \in Nat
           /\ KeyCells(t) \subseteq DOMAIN Schema[t] /\ KeyCells(t) # {}
           /\ KeyCells(t) \subseteq Nat
           /\ \A i \in DOMAIN Schema[t] :
                /\ Schema[t][i].type \in {"string", "integer"}
                /\ Schema[t][i].type = "integer" => Schema[t][i].size \in {2, 4}
<1>1. Schema[t] \in Seq([type : {"string", "integer"}, size : Nat, key : BOOLEAN])
  BY SchemaAssumption
<1>2. DOMAIN Schema[t] = 1..Len(Schema[t]) /\ Len(Schema[t]) \in Nat
  BY <1>1
<1>3. KeyCells(t) \subseteq DOMAIN Schema[t] /\ KeyCells(t) # {}
  BY SchemaAssumption DEF KeyCells
<1>4. KeyCells(t) \subseteq Nat
  BY <1>2, <1>3
<1>5. \A i \in DOMAIN Schema[t] : Schema[t][i].type \in {"string", "integer"}
  <2> DEFINE X == [type : {"string", "integer"}, size : Nat, key : BOOLEAN]
  <2>1. \A c \in X : c.type \in {"string", "integer"}
    OBVIOUS
  <2> HIDE DEF X
  <2>2. Schema[t] \in Seq(X)
    BY <1>1 DEF X
  <2>3. \A i \in DOMAIN Schema[t] : Schema[t][i] \in X
    BY <2>2
  <2>. QED  BY <2>1, <2>3
<1>6. \A i \in DOMAIN Schema[t] : Schema[t][i].type = "integer" => Schema[t][i].size \in {2, 4}
  BY SchemaAssumption
<1>. QED  BY <1>1, <1>2, <1>3, <1>4, <1>5, <1>6

\* Keys are in a strict order, and two records that are not have the same key.
LEMMA KeyOrder ==
    ASSUME NEW t \in Tables, NEW a \in Raws(t), NEW b \in Raws(t)
    PROVE  /\ ~KeyLess(t, a, a)
           /\ KeyLess(t, a, b) => ~KeyLess(t, b, a)
           /\ KeyLess(t, a, b) => \E i \in KeyCells(t) : a[i] # b[i]
           /\ ~KeyLess(t, a, b) /\ ~KeyLess(t, b, a) => \A i \in KeyCells(t) : a[i] = b[i]
<1> DEFINE K == KeyCells(t)
<1>1. K \subseteq Nat /\ \A i \in K : a[i] \in Nat /\ b[i] \in Nat
  BY Columns DEF Raws
<1> HIDE DEF K
<1>2. ~KeyLess(t, a, a)
  BY <1>1 DEF KeyLess, K
<1>3. ASSUME KeyLess(t, a, b) PROVE ~KeyLess(t, b, a) /\ \E i \in K : a[i] # b[i]
  <2>1. PICK i \in K : a[i] < b[i] /\ \A j \in K : j < i => a[j] = b[j]
    BY <1>3 DEF KeyLess, K
  <2>2. ASSUME NEW k \in K, b[k] < a[k], \A j \in K : j < k => b[j] = a[j] PROVE FALSE
    <3>1. i < k \/ i = k \/ k < i
      BY <1>1
    <3>. QED  BY <1>1, <2>1, <2>2, <3>1
  <2>3. a[i] # b[i]
    BY <1>1, <2>1
  <2>. QED  BY <2>2, <2>3 DEF KeyLess, K
<1>4. ASSUME ~KeyLess(t, a, b), ~KeyLess(t, b, a), NEW k \in K, a[k] # b[k] PROVE FALSE
  <2> DEFINE D == {i \in K : a[i] # b[i]}
  <2>1. D \in SUBSET Nat /\ D # {}
    BY <1>1, <1>4
  <2>2. PICK i \in D : \A j \in D : i <= j
    BY <2>1, LeastNumber
  <2>3. \A j \in K : j < i => a[j] = b[j]
    BY <1>1, <2>2
  <2>4. a[i] < b[i] \/ b[i] < a[i]
    BY <1>1, <2>2
  <2>. QED  BY <1>4, <2>2, <2>3, <2>4 DEF KeyLess, K
<1>. QED  BY <1>2, <1>3, <1>4 DEF K

\* The order of keys is transitive.
LEMMA KeyOrderTransitive ==
    ASSUME NEW t \in Tables, NEW a \in Raws(t), NEW b \in Raws(t), NEW c \in Raws(t),
           KeyLess(t, a, b), KeyLess(t, b, c)
    PROVE  KeyLess(t, a, c)
<1> DEFINE K == KeyCells(t)
<1>1. K \subseteq Nat /\ \A i \in K : a[i] \in Nat /\ b[i] \in Nat /\ c[i] \in Nat
  BY Columns DEF Raws
<1>2. PICK i \in K : a[i] < b[i] /\ \A j \in K : j < i => a[j] = b[j]
  BY DEF KeyLess
<1>3. PICK k \in K : b[k] < c[k] /\ \A j \in K : j < k => b[j] = c[j]
  BY DEF KeyLess
<1> HIDE DEF K
<1>4. CASE i < k
  <2>1. a[i] < c[i] /\ \A j \in K : j < i => a[j] = c[j]
    BY <1>1, <1>2, <1>3, <1>4
  <2>. QED  BY <2>1 DEF KeyLess, K
<1>5. CASE i = k
  <2>1. a[i] < c[i] /\ \A j \in K : j < i => a[j] = c[j]
    BY <1>1, <1>2, <1>3, <1>5
  <2>. QED  BY <2>1 DEF KeyLess, K
<1>6. CASE k < i
  <2>1. a[k] < c[k] /\ \A j \in K : j < k => a[j] = c[j]
    BY <1>1, <1>2, <1>3, <1>6
  <2>. QED  BY <2>1 DEF KeyLess, K
<1>. QED  BY <1>1, <1>4, <1>5, <1>6

\* The records of a table are in key order.
Ascending(t, s) == \A i, j \in DOMAIN s : i < j => KeyLess(t, s[i], s[j])

\* A sequence with a member more.
Inserted(v, s, k, e) ==
    /\ Len(v) = Len(s) + 1
    /\ \A i \in 1..(Len(s) + 1) : v[i] = IF i < k THEN s[i] ELSE IF i = k THEN e ELSE s[i - 1]

\* InsertAt returns it.
LEMMA InsertAtProperties ==
    ASSUME NEW X, NEW s \in Seq(X), NEW k \in 1..(Len(s) + 1), NEW e \in X
    PROVE  InsertAt(s, k, e) \in Seq(X) /\ Inserted(InsertAt(s, k, e), s, k, e)
<1>1. SubSeq(s, 1, k - 1) \in Seq(X) /\ Len(SubSeq(s, 1, k - 1)) = k - 1
  OBVIOUS
<1>2. SubSeq(s, k, Len(s)) \in Seq(X) /\ Len(SubSeq(s, k, Len(s))) = Len(s) - k + 1
  OBVIOUS
<1>3. \A i \in 1..(k - 1) : SubSeq(s, 1, k - 1)[i] = s[i]
  OBVIOUS
<1>4. \A i \in 1..(Len(s) - k + 1) : SubSeq(s, k, Len(s))[i] = s[k + i - 1]
  OBVIOUS
<1> DEFINE u == SubSeq(s, 1, k - 1)
           w == SubSeq(s, k, Len(s))
<1>5. InsertAt(s, k, e) = (u \o <<e>>) \o w
  BY DEF InsertAt
<1> HIDE DEF u, w
<1>6. u \o <<e>> \in Seq(X) /\ Len(u \o <<e>>) = k /\ (u \o <<e>>)[k] = e
      /\ \A i \in 1..(k - 1) : (u \o <<e>>)[i] = u[i]
  BY <1>1 DEF u
<1> DEFINE v == u \o <<e>>
<1> HIDE DEF v
<1>7. v \in Seq(X) /\ Len(v) = k /\ v[k] = e /\ \A i \in 1..(k - 1) : v[i] = s[i]
  BY <1>3, <1>6 DEF u, v
<1>8. w \in Seq(X) /\ Len(w) = Len(s) - k + 1 /\ \A i \in 1..(Len(s) - k + 1) : w[i] = s[k + i - 1]
  BY <1>2, <1>4 DEF w
<1>9. v \o w \in Seq(X) /\ Len(v \o w) = Len(s) + 1
  BY <1>7, <1>8
<1>10. ASSUME NEW i \in 1..(Len(s) + 1)
       PROVE  (v \o w)[i] = IF i < k THEN s[i] ELSE IF i = k THEN e ELSE s[i - 1]
  <2>1. CASE i <= k
    <3>1. (v \o w)[i] = v[i]
      BY <1>7, <1>8, <2>1
    <3>2. i < k \/ i = k
      BY <2>1
    <3>. QED  BY <1>7, <3>1, <3>2
  <2>2. CASE i > k
    <3>1. (v \o w)[i] = w[i - k]
      BY <1>7, <1>8, <2>2
    <3>2. i - k \in 1..(Len(s) - k + 1) /\ k + (i - k) - 1 = i - 1
      BY <2>2
    <3>3. w[i - k] = s[k + (i - k) - 1]
      BY <1>8, <3>2
    <3>4. (v \o w)[i] = s[i - 1]
      BY <3>1, <3>2, <3>3
    <3>5. ~(i < k) /\ i # k
      BY <2>2
    <3>. QED  BY <3>4, <3>5
  <2>3. i <= k \/ i > k
    OBVIOUS
  <2>. QED  BY <2>1, <2>2, <2>3
<1>. QED  BY <1>5, <1>9, <1>10 DEF v, Inserted

\* A record goes where Find says: behind those with a smaller key, in front of
\* those with a greater one.  Found says whether there is one with its key.
LEMMA FindPlace ==
    ASSUME NEW t \in Tables, records[t] \in Seq(Raws(t)), Ascending(t, records[t]),
           NEW rec \in Raws(t)
    PROVE  /\ Find(t, rec) \in 0..Len(records[t])
           /\ \A i \in 1..Len(records[t]) : i <= Find(t, rec) => KeyLess(t, records[t][i], rec)
           /\ ~Found(t, rec) =>
                \A i \in 1..Len(records[t]) : i > Find(t, rec) => KeyLess(t, rec, records[t][i])
           /\ Found(t, rec) => \E i \in 1..Len(records[t]) :
                \A k \in KeyCells(t) : records[t][i][k] = rec[k]
<1> DEFINE s == records[t]
           n == Len(s)
           holds == {i \in 0..(n - 1) : ~KeyLess(t, s[i + 1], rec)}
           m == Find(t, rec)
<1>1. n \in Nat /\ \A i \in 1..n : s[i] \in Raws(t)
  OBVIOUS
<1>2. \A i \in 0..(n - 1) : i + 1 \in 1..n /\ (i \in holds <=> ~KeyLess(t, s[i + 1], rec))
  BY <1>1
<1>3. m = Search(n, holds)
  BY DEF Find
<1>3a. \A i, j \in 1..n : i < j => KeyLess(t, s[i], s[j])
  BY <1>1 DEF Ascending
<1> HIDE DEF s, n, holds, m
<1>4. ASSUME NEW i \in 0..(n - 1), NEW j \in 0..(n - 1), i < j, i \in holds PROVE j \in holds
  <2>1. KeyLess(t, s[i + 1], s[j + 1])
    BY <1>1, <1>2, <1>3a, <1>4
  <2>2. ~KeyLess(t, s[i + 1], rec) /\ s[i + 1] \in Raws(t) /\ s[j + 1] \in Raws(t)
    BY <1>1, <1>2, <1>4
  <2>3. ~KeyLess(t, s[j + 1], rec)
    BY <2>1, <2>2, KeyOrderTransitive
  <2>. QED  BY <1>2, <2>3
<1>5. Splits(n, holds, m)
  BY <1>1, <1>3, <1>4, SearchSplits
<1>6. m \in 0..n /\ \A i \in 0..(n - 1) : KeyLess(t, s[i + 1], rec) <=> i < m
  <2>1. m \in 0..n /\ \A i \in 0..(n - 1) : i \in holds <=> m <= i
    BY <1>5 DEF Splits
  <2>2. ASSUME NEW i \in 0..(n - 1) PROVE KeyLess(t, s[i + 1], rec) <=> i < m
    <3>1. KeyLess(t, s[i + 1], rec) <=> ~(m <= i)
      BY <1>2, <2>1
    <3>2. i \in Int /\ m \in Int
      BY <2>1
    <3>. QED  BY <3>1, <3>2
  <2>. QED  BY <2>1, <2>2
<1>7. \A i \in 1..n : KeyLess(t, s[i], rec) <=> i <= m
  <2>1. ASSUME NEW i \in 1..n PROVE KeyLess(t, s[i], rec) <=> i <= m
    <3>1. i - 1 \in 0..(n - 1) /\ (i - 1) + 1 = i
      BY <1>1
    <3>2. KeyLess(t, s[i], rec) <=> i - 1 < m
      BY <1>6, <3>1
    <3>. QED  BY <1>1, <1>6, <3>2
  <2>. QED  BY <2>1
<1>8. Found(t, rec) <=> m < n /\ ~KeyLess(t, rec, s[m + 1])
  BY DEF Found, m, n, s
<1>9. ASSUME ~Found(t, rec), NEW i \in 1..n, i > m PROVE KeyLess(t, rec, s[i])
  <2>1. m < n /\ m + 1 \in 1..n
    BY <1>1, <1>6, <1>9
  <2>2. KeyLess(t, rec, s[m + 1])
    BY <1>8, <1>9, <2>1
  <2>3. CASE i = m + 1
    BY <2>2, <2>3
  <2>4. CASE i > m + 1
    <3>1. KeyLess(t, s[m + 1], s[i])
      BY <1>3a, <2>1, <2>4
    <3>. QED  BY <1>1, <2>1, <2>2, <3>1, KeyOrderTransitive
  <2>. QED  BY <1>1, <1>6, <1>9, <2>3, <2>4
<1>10. ASSUME Found(t, rec) PROVE \E i \in 1..n : \A k \in KeyCells(t) : s[i][k] = rec[k]
  <2>1. m < n /\ ~KeyLess(t, rec, s[m + 1]) /\ m + 1 \in 1..n
    BY <1>1, <1>6, <1>8, <1>10
  <2>2. ~KeyLess(t, s[m + 1], rec)
    BY <1>6, <1>7, <2>1
  <2>3. \A k \in KeyCells(t) : s[m + 1][k] = rec[k]
    BY <1>1, <2>1, <2>2, KeyOrder
  <2>. QED  BY <2>1, <2>3
<1>. QED  BY <1>6, <1>7, <1>9, <1>10 DEF s, n, m

\* A record that is inserted there leaves the records in order.
LEMMA InsertAscending ==
    ASSUME NEW t \in Tables, records[t] \in Seq(Raws(t)), Ascending(t, records[t]),
           NEW rec \in Raws(t), ~Found(t, rec)
    PROVE  /\ InsertAt(records[t], Find(t, rec) + 1, rec) \in Seq(Raws(t))
           /\ Ascending(t, InsertAt(records[t], Find(t, rec) + 1, rec))
<1> DEFINE s == records[t]
           m == Find(t, rec)
           v == InsertAt(s, m + 1, rec)
<1>1. Len(s) \in Nat /\ \A i, j \in 1..Len(s) : i < j => KeyLess(t, s[i], s[j])
  BY DEF Ascending
<1>2. m \in 0..Len(s)
      /\ (\A i \in 1..Len(s) : i <= m => KeyLess(t, s[i], rec))
      /\ (\A i \in 1..Len(s) : i > m => KeyLess(t, rec, s[i]))
  BY FindPlace
<1>3. m + 1 \in 1..(Len(s) + 1)
  BY <1>1, <1>2
<1>4. /\ v \in Seq(Raws(t)) /\ Len(v) = Len(s) + 1
      /\ \A i \in 1..(Len(s) + 1) : v[i] =
            IF i < m + 1 THEN s[i] ELSE IF i = m + 1 THEN rec ELSE s[i - 1]
  <2>1. s \in Seq(Raws(t)) /\ rec \in Raws(t)
    OBVIOUS
  <2> HIDE DEF m, s
  <2>2. InsertAt(s, m + 1, rec) \in Seq(Raws(t)) /\ Inserted(InsertAt(s, m + 1, rec), s, m + 1, rec)
    BY <1>3, <2>1, InsertAtProperties
  <2>. QED  BY <2>2 DEF Inserted
<1> HIDE DEF v, m, s
<1>5. ASSUME NEW i \in 1..(Len(s) + 1), NEW j \in 1..(Len(s) + 1), i < j
      PROVE  KeyLess(t, v[i], v[j])
  <2>1. CASE j < m + 1
    BY <1>1, <1>2, <1>4, <1>5, <2>1, SMTT(30)
  <2>2. CASE j = m + 1
    BY <1>1, <1>2, <1>4, <1>5, <2>2
  <2>3. CASE j > m + 1
    <3>0. ~(j < m + 1) /\ j # m + 1
      BY <1>2, <2>3
    <3>1. v[j] = s[j - 1] /\ j - 1 \in 1..Len(s) /\ j - 1 > m
      <4>1. v[j] = s[j - 1]
        BY <1>4, <3>0
      <4>2. m \in Int /\ j \in Int /\ Len(s) \in Int
        BY <1>1, <1>2
      <4>. QED  BY <2>3, <4>1, <4>2, <1>2
    <3>2. CASE i < m + 1
      <4>1. v[i] = s[i] /\ i \in 1..Len(s) /\ i < j - 1
        BY <1>1, <1>2, <1>4, <3>1, <3>2
      <4>. QED  BY <1>1, <3>1, <4>1
    <3>3. CASE i = m + 1
      BY <1>1, <1>2, <1>4, <1>5, <3>1, <3>3
    <3>4. CASE i > m + 1
      <4>1. v[i] = s[i - 1] /\ i - 1 \in 1..Len(s) /\ i - 1 < j - 1
        BY <1>1, <1>2, <1>4, <1>5, <3>4
      <4>. QED  BY <1>1, <3>1, <4>1
    <3>. QED  BY <1>2, <3>2, <3>3, <3>4
  <2>. QED  BY <1>2, <2>1, <2>2, <2>3
<1>6. DOMAIN v = 1..(Len(s) + 1)
  BY <1>4
<1>. QED  BY <1>4, <1>5, <1>6 DEF v, m, s, Ascending

\* Records at some places of a table in order are in order.
LEMMA ThinnedAscending ==
    ASSUME NEW X, NEW s \in Seq(X), NEW places \in SUBSET DOMAIN s, NEW v, Thinned(v, s, places),
           NEW t, Ascending(t, s)
    PROVE  Ascending(t, v)
<1>1. PICK n \in Nat : \E at \in [1..n -> places] :
        /\ v = [p \in 1..n |-> s[at[p]]]
        /\ \A p, q \in 1..n : p < q => at[p] < at[q]
  BY DEF Thinned
<1>2. PICK at \in [1..n -> places] :
        /\ v = [p \in 1..n |-> s[at[p]]]
        /\ \A p, q \in 1..n : p < q => at[p] < at[q]
  BY <1>1
<1>3. ASSUME NEW p \in DOMAIN v, NEW q \in DOMAIN v, p < q PROVE KeyLess(t, v[p], v[q])
  <2>1. p \in 1..n /\ q \in 1..n
    BY <1>2
  <2>2. at[p] < at[q] /\ at[p] \in DOMAIN s /\ at[q] \in DOMAIN s
    BY <1>2, <1>3, <2>1
  <2>3. v[p] = s[at[p]] /\ v[q] = s[at[q]]
    BY <1>2, <2>1
  <2>. QED  BY <2>2, <2>3 DEF Ascending
<1>. QED  BY <1>3 DEF Ascending

-----------------------------------------------------------------------------
(***************************************************************************)
(* Cells and strings.                                                      *)
(***************************************************************************)

\* A pool: no two strings have the same ID.
Pool(f) ==
    /\ f \in [Strings -> 0..MaxId]
    /\ \A r, s \in Strings : f[r] = f[s] /\ f[s] # 0 => r = s

\* The cells of a column.
CellsOf(f, c) ==
    IF c.type = "integer" THEN 0..(2 * SignBit[c.size] - 1) ELSE {0} \cup {f[s] : s \in Strings}

Fits(f, t, rec) == rec \in Raws(t) /\ \A c \in DOMAIN Schema[t] : rec[c] \in CellsOf(f, Schema[t][c])

\* The tables hold records whose strings are in a pool.
AllFit(f, recs) ==
    /\ recs = [t \in Tables |-> recs[t]]
    /\ \A t \in Tables : recs[t] \in Seq(Raws(t)) /\ \A i \in DOMAIN recs[t] : Fits(f, t, recs[t][i])

\* What holds in every state: text cells resolve, and records are in key order.
QueryInv ==
    /\ Pool(ids)
    /\ AllFit(ids, records)
    /\ \A t \in Tables : Ascending(t, records[t])

\* The columns of a table, which records are made of.
IsColumn(c) == c.type \in {"integer", "string"} /\ (c.type = "integer" => c.size \in {2, 4})

\* An integer within the limits is stored as a number that is not 0.
LEMMA EncodeDecode ==
    ASSUME NEW size \in {2, 4}, NEW v \in (1 - SignBit[size])..(SignBit[size] - 1)
    PROVE  /\ EncodeInt(v, size) = v + SignBit[size]
           /\ EncodeInt(v, size) \in 1..(2 * SignBit[size] - 1)
           /\ DecodeInt(EncodeInt(v, size), size) = v
<1> DEFINE S == SignBit[size]
<1>1. S \in Nat \ {0}
  BY QueryAssumption
<1>2. EncodeInt(v, size) = (v + S) % (2 * S)
  BY DEF EncodeInt
<1> HIDE DEF S
<1>3. v \in Int /\ v + S \in 1..(2 * S - 1)
  BY <1>1 DEF S
<1>4. \A x, y \in Nat : x < y => x % y = x
  OBVIOUS
<1>5. (v + S) % (2 * S) = v + S
  BY <1>1, <1>3, <1>4
<1>6. (v + S) - S = v
  BY <1>1, <1>3
<1>. QED  BY <1>2, <1>3, <1>5, <1>6 DEF S, DecodeInt

\* A value is stored as a cell of its column.
LEMMA RawCell ==
    ASSUME NEW f, Pool(f), NEW c, IsColumn(c), NEW v \in Values(c)
    PROVE  Raw(f, c, v) \in CellsOf(f, c) /\ Raw(f, c, v) \in Nat
<1>1. CASE v = Null
  <2>1. Raw(f, c, v) = 0
    BY <1>1 DEF Raw
  <2>2. c.type = "integer" => 2 * SignBit[c.size] - 1 \in Nat
    BY QueryAssumption DEF IsColumn
  <2>. QED  BY <2>1, <2>2 DEF CellsOf
<1>2. CASE v # Null /\ c.type = "integer"
  <2>1. c.size \in {2, 4} /\ v \in (1 - SignBit[c.size])..(SignBit[c.size] - 1)
    BY <1>2 DEF Values, IsColumn
  <2>2. EncodeInt(v, c.size) \in 1..(2 * SignBit[c.size] - 1)
    BY <2>1, EncodeDecode
  <2>3. SignBit[c.size] \in Nat
    BY <2>1, QueryAssumption
  <2>. QED  BY <1>2, <2>2, <2>3 DEF Raw, CellsOf
<1>3. CASE v # Null /\ c.type # "integer"
  <2>1. v \in Strings
    BY <1>3 DEF Values
  <2>2. f[v] \in Nat
    BY <2>1, QueryAssumption DEF Pool
  <2>. QED  BY <1>3, <2>1, <2>2 DEF Raw, CellsOf
<1>. QED  BY <1>1, <1>2, <1>3

\* Strings keep their IDs while others are interned.
LEMMA InternedPool ==
    ASSUME NEW values, NEW f \in Interned(values)
    PROVE  /\ Pool(f)
           /\ \A s \in Strings : ids[s] # 0 => f[s] = ids[s]
           /\ \A s \in Strings : s \in values => f[s] # 0
           /\ \A c : CellsOf(ids, c) \subseteq CellsOf(f, c)
<1>1. /\ f \in [Strings -> 0..MaxId]
      /\ \A s \in Strings :
            /\ f[s] # 0 <=> ids[s] # 0 \/ s \in values
            /\ ids[s] # 0 => f[s] = ids[s]
            /\ \A r \in Strings : f[r] = f[s] /\ f[s] # 0 => r = s
  BY DEF Interned
<1>2. \A c : CellsOf(ids, c) \subseteq CellsOf(f, c)
  BY <1>1 DEF CellsOf
<1>. QED  BY <1>1, <1>2 DEF Pool

\* The strings of the records that are left keep theirs when others are released.
LEMMA ReleasedPool ==
    ASSUME NEW f, Pool(f), NEW recs, AllFit(f, recs)
    PROVE  /\ Pool(Released(f, recs))
           /\ AllFit(Released(f, recs), recs)
           /\ \A s \in Strings : Released(f, recs)[s] \in {0, f[s]}
<1> DEFINE g == Released(f, recs)
           Used(s) == \E t \in Tables : \E i \in DOMAIN recs[t], j \in DOMAIN Schema[t] :
               Schema[t][j].type = "string" /\ recs[t][i][j] = f[s]
<1>1. g = [s \in Strings |-> IF Used(s) THEN f[s] ELSE 0]
  BY DEF Released
<1> HIDE DEF g
<1>2. f \in [Strings -> 0..MaxId] /\ 0 \in 0..MaxId
  BY QueryAssumption DEF Pool
<1>3. g \in [Strings -> 0..MaxId] /\ \A s \in Strings : g[s] \in {0, f[s]}
  BY <1>1, <1>2
<1>4. \A r, s \in Strings : g[r] = g[s] /\ g[s] # 0 => r = s
  BY <1>3 DEF Pool
<1>5. ASSUME NEW t \in Tables, NEW i \in DOMAIN recs[t] PROVE Fits(g, t, recs[t][i])
  <2>1. recs[t][i] \in Raws(t) /\ \A c \in DOMAIN Schema[t] : recs[t][i][c] \in CellsOf(f, Schema[t][c])
    BY DEF AllFit, Fits
  <2>2. ASSUME NEW c \in DOMAIN Schema[t] PROVE recs[t][i][c] \in CellsOf(g, Schema[t][c])
    <3>1. CASE Schema[t][c].type = "integer"
      BY <2>1, <3>1 DEF CellsOf
    <3>2. CASE Schema[t][c].type # "integer"
      <4>1. Schema[t][c].type = "string"
        BY <3>2, Columns
      <4>2. recs[t][i][c] = 0 \/ \E s \in Strings : recs[t][i][c] = f[s]
        BY <2>1, <3>2 DEF CellsOf
      <4>3. ASSUME NEW s \in Strings, recs[t][i][c] = f[s] PROVE recs[t][i][c] = g[s]
        <5>1. Used(s)
          BY <4>1, <4>3
        <5>. QED  BY <1>1, <4>3, <5>1
      <4>. QED  BY <3>2, <4>2, <4>3 DEF CellsOf
    <3>. QED  BY <3>1, <3>2
  <2>. QED  BY <2>1, <2>2 DEF Fits
<1>6. AllFit(g, recs)
  BY <1>5 DEF AllFit
<1>. QED  BY <1>3, <1>4, <1>6 DEF Pool, g

-----------------------------------------------------------------------------
(***************************************************************************)
(* The conditions of a WHERE clause, and the tables that they read.        *)
(***************************************************************************)

\* A set of numbers up to another one that is not empty has a greatest one.
LEMMA GreatestNumber ==
    ASSUME NEW n \in Nat, NEW S \in SUBSET (0..n), S # {}
    PROVE  \E m \in S : \A k \in S : k <= m
<1> DEFINE D == {k \in Nat : n - k \in S}
<1>1. \A k \in S : n - k \in Nat /\ n - (n - k) = k
  OBVIOUS
<1>2. D \in SUBSET Nat /\ D # {}
  BY <1>1
<1>3. PICK d \in D : \A k \in D : d <= k
  BY <1>2, LeastNumber
<1>4. n - d \in S /\ d \in Nat
  BY <1>3
<1>5. ASSUME NEW k \in S PROVE k <= n - d
  <2>1. n - k \in D /\ k \in Int
    BY <1>1
  <2>2. d <= n - k
    BY <1>3, <2>1
  <2>. QED  BY <1>4, <2>1, <2>2
<1>. QED  BY <1>4, <1>5

\* The tables of a statement.
LEMMA Statement ==
    ASSUME NEW q, IsStatement(q)
    PROVE  /\ q.from \in Seq(Tables) /\ Len(q.from) \in Nat /\ Len(q.from) > 0
           /\ DOMAIN q.from = 1..Len(q.from)
           /\ \A i \in 1..Len(q.from) : q.from[i] \in Tables
           /\ DOMAIN q.where \subseteq Nat
<1>1. q.from \in Seq(Tables) /\ q.from # <<>>
  BY DEF IsStatement
<1>2. DOMAIN q.where \subseteq Nat
  BY DEF IsStatement, IsList
<1>. QED  BY <1>1, <1>2

\* A column that a statement names.
LEMMA BoundColumn ==
    ASSUME NEW q, IsStatement(q), NEW col, IsBound(q, col)
    PROVE  /\ col.table \in 1..Len(q.from) /\ q.from[col.table] \in Tables
           /\ col.cell \in DOMAIN Schema[q.from[col.table]]
           /\ IsColumn(Column(q, col))
<1>1. col.table \in 1..Len(q.from) /\ q.from[col.table] \in Tables
  BY Statement DEF IsBound
<1>2. col.cell \in DOMAIN Schema[q.from[col.table]]
  BY DEF IsBound
<1>. QED  BY <1>1, <1>2, Columns DEF IsColumn, Column

\* The columns that a condition reads are of the table of its level, or of an
\* earlier one.
LEMMA ConditionReads ==
    ASSUME NEW q, IsStatement(q), NEW c, IsCondition(q, c)
    PROVE  /\ ConditionLevel(c) \in 1..Len(q.from)
           /\ c.kind # "equal" => IsBound(q, c.col) /\ c.col.table = ConditionLevel(c)
           /\ c.kind = "equal" =>
                /\ IsBound(q, c.left) /\ c.left.table \in 1..ConditionLevel(c)
                /\ IsBound(q, c.right) /\ c.right.table \in 1..ConditionLevel(c)
<1>1. CASE c.kind # "equal"
  BY <1>1, BoundColumn DEF IsCondition, ConditionLevel
<1>2. CASE c.kind = "equal"
  <2>1. IsBound(q, c.left) /\ IsBound(q, c.right)
    BY <1>2 DEF IsCondition
  <2>2. c.left.table \in 1..Len(q.from) /\ c.right.table \in 1..Len(q.from) /\ Len(q.from) \in Nat
    BY <2>1, BoundColumn, Statement
  <2>. QED  BY <1>2, <2>1, <2>2 DEF ConditionLevel, Deep
<1>. QED  BY <1>1, <1>2

\* A term is tested at the deepest level of its conditions.
LEMMA TermLevel ==
    ASSUME NEW q, IsStatement(q), NEW i \in DOMAIN q.where
    PROVE  /\ Level(q.where[i]) \in 1..Len(q.from)
           /\ \A j \in DOMAIN q.where[i] : \A k \in DOMAIN q.where[i][j] :
                /\ IsCondition(q, q.where[i][j][k])
                /\ ConditionLevel(q.where[i][j][k]) <= Level(q.where[i])
           /\ Len(q.where[i]) = 1 /\ Len(q.where[i][1]) = 1 =>
                /\ IsCondition(q, q.where[i][1][1])
                /\ Level(q.where[i]) = ConditionLevel(q.where[i][1][1])
<1> DEFINE term == q.where[i]
           conds == UNION {ToSet(term[j]) : j \in DOMAIN term}
           levels == {ConditionLevel(c) : c \in conds}
<1>1. /\ IsList(term) /\ term # <<>>
      /\ \A j \in DOMAIN term : IsList(term[j]) /\ term[j] # <<>>
      /\ \A j \in DOMAIN term : \A k \in DOMAIN term[j] : IsCondition(q, term[j][k])
  BY DEF IsStatement
<1>2. Level(term) = CHOOSE l \in levels : \A k \in levels : k <= l
  BY DEF Level
<1> HIDE DEF term
<1>3. conds = UNION {{term[j][k] : k \in DOMAIN term[j]} : j \in DOMAIN term}
  BY DEF ToSet
<1>3a. \A j \in DOMAIN term : \A k \in DOMAIN term[j] : term[j][k] \in conds
  BY <1>3
<1>3b. \A c \in conds : \E j \in DOMAIN term : \E k \in DOMAIN term[j] : c = term[j][k]
  BY <1>3
<1> HIDE DEF conds
<1>4. \A c \in conds : IsCondition(q, c)
  BY <1>1, <1>3b
<1>5. levels \in SUBSET (1..Len(q.from))
  BY <1>4, ConditionReads
<1>6. 1 \in DOMAIN term /\ 1 \in DOMAIN term[1]
  <2>1. \A s : IsList(s) /\ s # <<>> => 1 \in DOMAIN s
    <3>1. SUFFICES ASSUME NEW s, IsList(s), s # <<>> PROVE 1 \in DOMAIN s
      OBVIOUS
    <3>2. Len(s) \in Nat /\ DOMAIN s = 1..Len(s)
      BY <3>1 DEF IsList
    <3>3. CASE Len(s) = 0
      <4>1. DOMAIN s = {}
        BY <3>2, <3>3
      <4>. QED  BY <3>1, <3>2, <3>3, <4>1
    <3>. QED  BY <3>2, <3>3
  <2>. QED  BY <1>1, <2>1
<1>7. levels # {}
  BY <1>3a, <1>6
<1>8. \E m \in levels : \A k \in levels : k <= m
  <2>1. Len(q.from) \in Nat /\ levels \in SUBSET (0..Len(q.from))
    BY <1>5, Statement
  <2> HIDE DEF levels
  <2>. QED  BY <1>7, <2>1, GreatestNumber
<1>9. Level(term) \in levels /\ \A k \in levels : k <= Level(term)
  <2> HIDE DEF levels
  <2>. QED  BY <1>2, <1>8
<1>10. ASSUME Len(term) = 1, Len(term[1]) = 1 PROVE Level(term) = ConditionLevel(term[1][1])
  <2>1. DOMAIN term = {1} /\ DOMAIN term[1] = {1}
    BY <1>1, <1>6, <1>10 DEF IsList
  <2>2. conds = {term[1][1]}
    BY <1>3a, <1>3b, <2>1
  <2>. QED  BY <1>9, <2>2
<1>. QED  BY <1>1, <1>3a, <1>5, <1>6, <1>9, <1>10 DEF term

\* What a condition says of a tuple depends on the records up to its level only.
LEMMA MatchesAgree ==
    ASSUME NEW q, IsStatement(q), NEW c, IsCondition(q, c), NEW x, NEW y,
           \A i \in 1..ConditionLevel(c) : x[i] = y[i]
    PROVE  Matches(q, c, x) = Matches(q, c, y)
<1>1. ConditionLevel(c) \in Nat /\ ConditionLevel(c) \in 1..ConditionLevel(c)
  <2>1. ConditionLevel(c) \in 1..Len(q.from) /\ Len(q.from) \in Nat
    BY ConditionReads, Statement
  <2> HIDE DEF ConditionLevel
  <2>. QED  BY <2>1
<1>2. c.kind # "equal" => Cell(x, c.col) = Cell(y, c.col)
  BY <1>1, ConditionReads DEF Cell
<1>3. c.kind = "equal" => Cell(x, c.left) = Cell(y, c.left) /\ Cell(x, c.right) = Cell(y, c.right)
  BY ConditionReads DEF Cell
<1>4. CASE c.kind = "isnull"
  BY <1>2, <1>4 DEF Matches
<1>5. CASE c.kind = "equal"
  BY <1>3, <1>5 DEF Matches, OrdinalOf
<1>6. CASE c.kind = "compare"
  <2>1. Comparison(q, c, x) = Comparison(q, c, y)
    BY <1>2, <1>6 DEF Comparison, OrdinalOf
  <2>. QED  BY <1>6, <2>1 DEF Matches
<1>. QED  BY <1>4, <1>5, <1>6 DEF IsCondition

\* The same of a term.
LEMMA TermAgrees ==
    ASSUME NEW q, IsStatement(q), NEW i \in DOMAIN q.where, NEW x, NEW y,
           \A l \in 1..Level(q.where[i]) : x[l] = y[l]
    PROVE  TermMatches(q, q.where[i], x) = TermMatches(q, q.where[i], y)
<1> DEFINE term == q.where[i]
<1>1. ASSUME NEW j \in DOMAIN term, NEW k \in DOMAIN term[j]
      PROVE  Matches(q, term[j][k], x) = Matches(q, term[j][k], y)
  <2>1. /\ IsCondition(q, term[j][k])
        /\ ConditionLevel(term[j][k]) \in Nat /\ Level(term) \in Nat
        /\ ConditionLevel(term[j][k]) <= Level(term)
    BY TermLevel, ConditionReads
  <2>2. \A l \in 1..ConditionLevel(term[j][k]) : x[l] = y[l]
    <3> HIDE DEF ConditionLevel, Level
    <3>. QED  BY <2>1
  <2>. QED  BY <2>1, <2>2, MatchesAgree
<1>. QED  BY <1>1 DEF TermMatches

-----------------------------------------------------------------------------
(***************************************************************************)
(* The window of a seek.                                                   *)
(***************************************************************************)

\* Greater cells have greater ordinals, and NULL has the least.
LEMMA OrdinalMonotone ==
    ASSUME NEW c, IsColumn(c), NEW a \in Nat, NEW b \in Nat
    PROVE  /\ Ordinal(c, a) \in Int
           /\ a <= b => Ordinal(c, a) <= Ordinal(c, b)
<1>1. CASE c.type # "integer"
  BY <1>1 DEF Ordinal
<1>2. CASE c.type = "integer"
  <2> DEFINE S == SignBit[c.size]
             L == SignBit[4]
  <2>1. S \in Nat /\ L \in Nat /\ S <= L
    BY <1>2, QueryAssumption DEF IsColumn
  <2>2. \A x \in Nat : Ordinal(c, x) = IF x = 0 THEN -L ELSE x - S
    BY <1>2 DEF Ordinal, DecodeInt
  <2> HIDE DEF S, L
  <2>. QED  BY <2>1, <2>2
<1>. QED  BY <1>1, <1>2

\* The records of a table in order ascend in the first column of their key.
LEMMA FirstCellsAscend ==
    ASSUME NEW t \in Tables, NEW a \in Raws(t), NEW b \in Raws(t), KeyLess(t, a, b)
    PROVE  a[Least(KeyCells(t))] <= b[Least(KeyCells(t))]
<1> DEFINE K == KeyCells(t)
           m == Least(K)
<1>1. K \subseteq Nat /\ K # {} /\ \A i \in K : a[i] \in Nat /\ b[i] \in Nat
  BY Columns DEF Raws
<1>2. PICK i \in K : a[i] < b[i] /\ \A j \in K : j < i => a[j] = b[j]
  BY DEF KeyLess
<1> HIDE DEF K
<1>3. m \in K /\ \A k \in K : m <= k
  BY <1>1, LeastNumber DEF Least
<1> HIDE DEF m
<1>4. CASE m = i
  BY <1>1, <1>2, <1>3, <1>4 DEF m, K
<1>5. CASE m < i
  BY <1>1, <1>2, <1>3, <1>5 DEF m, K
<1>. QED  BY <1>1, <1>3, <1>4, <1>5

\* Records of any tables.
Recs == UNION {Raws(t) : t \in Tables}

\* A tuple of the first n tables of a statement.
IsTuple(q, n, x) ==
    /\ n \in 0..Len(q.from) /\ x \in Seq(Recs) /\ Len(x) = n
    /\ \A l \in 1..n : \E k \in DOMAIN records[q.from[l]] : x[l] = records[q.from[l]][k]

\* Its cells are cells of its tables.
LEMMA TupleCell ==
    ASSUME QueryInv, NEW q, IsStatement(q), NEW n, NEW x, IsTuple(q, n, x),
           NEW col, IsBound(q, col), col.table <= n
    PROVE  Cell(x, col) \in Nat /\ Cell(x, col) \in CellsOf(ids, Column(q, col))
<1> DEFINE l == col.table
           t == q.from[l]
<1>1. l \in 1..Len(q.from) /\ t \in Tables /\ col.cell \in DOMAIN Schema[t]
  BY BoundColumn
<1>2. l \in 1..n
  BY <1>1 DEF IsTuple
<1>3. PICK k \in DOMAIN records[t] : x[l] = records[t][k]
  BY <1>2 DEF IsTuple
<1>4. Fits(ids, t, x[l])
  BY <1>1, <1>3 DEF QueryInv, AllFit
<1>5. x[l] \in [DOMAIN Schema[t] -> Nat] /\ x[l][col.cell] \in CellsOf(ids, Schema[t][col.cell])
  BY <1>1, <1>4 DEF Fits, Raws
<1>6. Cell(x, col) = x[l][col.cell] /\ Column(q, col) = Schema[t][col.cell]
  BY DEF Cell, Column
<1> HIDE DEF l, t
<1>. QED  BY <1>1, <1>5, <1>6

\* A column is compared with a number.
LEMMA ConstantNumber ==
    ASSUME QueryInv, NEW q, IsStatement(q), NEW col, IsBound(q, col),
           NEW value \in Values([Column(q, col) EXCEPT !.size = 4])
    PROVE  Constant(q, col, value) \in Int
<1> DEFINE c == Column(q, col)
           wide == [c EXCEPT !.size = 4]
<1>1. IsColumn(c) /\ Ordinal(c, 0) \in Int
  BY BoundColumn, OrdinalMonotone
<1>2. CASE value = Null
  BY <1>1, <1>2 DEF Constant
<1>3. PICK s \in Tables : \E j \in DOMAIN Schema[s] : c = Schema[s][j]
  BY BoundColumn DEF Column
<1>4. c \in [type : {"string", "integer"}, size : Nat, key : BOOLEAN]
  <2> DEFINE X == [type : {"string", "integer"}, size : Nat, key : BOOLEAN]
  <2>1. Schema[s] \in Seq(X)
    BY Columns
  <2> HIDE DEF X, c
  <2>2. c \in X
    BY <1>3, <2>1
  <2>. QED  BY <2>2 DEF X
<1> HIDE DEF c
<1>5. wide.type = c.type /\ wide.size = 4
  BY <1>4
<1> HIDE DEF wide
<1>6. CASE value # Null /\ c.type = "integer"
  <2>1. value \in (1 - SignBit[4])..(SignBit[4] - 1)
    BY <1>5, <1>6 DEF Values, wide, c
  <2>2. value \in Int
    BY <2>1, QueryAssumption
  <2>. QED  BY <1>6, <2>2 DEF Constant, c
<1>7. CASE value # Null /\ c.type # "integer"
  <2>1. value \in Strings
    BY <1>5, <1>7 DEF Values, wide, c
  <2>2. ids[value] \in Int
    BY <2>1, QueryAssumption DEF QueryInv, Pool
  <2>. QED  BY <1>7, <2>2 DEF Constant, c
<1>. QED  BY <1>2, <1>6, <1>7

\* A column that is the first of a key.
LEMMA FirstKeyLeast ==
    ASSUME NEW q, IsStatement(q), NEW col, IsBound(q, col), FirstKey(q, col)
    PROVE  col.cell = Least(KeyCells(q.from[col.table]))
<1> DEFINE K == KeyCells(q.from[col.table])
<1>1. K \subseteq Nat
  BY BoundColumn, Columns
<1>2. col.cell \in K /\ \A i \in K : col.cell <= i
  BY DEF FirstKey
<1> HIDE DEF K
<1>3. Least(K) \in K /\ \A k \in K : Least(K) <= k
  BY <1>2 DEF Least
<1>4. Least(K) <= col.cell /\ col.cell <= Least(K)
  BY <1>2, <1>3
<1>. QED  BY <1>1, <1>2, <1>3, <1>4 DEF K

\* A tuple y that is x and a record behind it.
Continues(y, x, n, rec) == y[n + 1] = rec /\ \A l \in 1..n : y[l] = x[l]

\* A tuple with a record of the next table.
LEMMA AppendTuple ==
    ASSUME QueryInv, NEW q, IsStatement(q), NEW n \in Nat, NEW x, IsTuple(q, n, x), n < Len(q.from),
           NEW k \in DOMAIN records[q.from[n + 1]]
    PROVE  LET y == Append(x, records[q.from[n + 1]][k]) IN
           IsTuple(q, n + 1, y) /\ Continues(y, x, n, records[q.from[n + 1]][k])
<1> DEFINE t == q.from[n + 1]
           rec == records[t][k]
           y == Append(x, rec)
<1>1. n \in Nat /\ Len(q.from) \in Nat /\ n + 1 \in 0..Len(q.from) /\ t \in Tables
  <2>1. n \in 0..Len(q.from) /\ Len(q.from) \in Nat
    BY Statement DEF IsTuple
  <2>2. n \in Nat /\ n + 1 \in 1..Len(q.from)
    BY <2>1
  <2>3. t \in Tables
    BY <2>2, Statement
  <2>. QED  BY <2>1, <2>2, <2>3
<1>2. rec \in Raws(t)
  BY <1>1 DEF QueryInv, AllFit
<1>3. rec \in Recs
  BY <1>1, <1>2 DEF Recs
<1>4. x \in Seq(Recs) /\ Len(x) = n
  BY DEF IsTuple
<1> HIDE DEF rec
<1>5. y \in Seq(Recs) /\ Len(y) = n + 1 /\ y[n + 1] = rec /\ \A l \in 1..n : y[l] = x[l]
  BY <1>3, <1>4
<1> HIDE DEF y
<1>6. ASSUME NEW l \in 1..(n + 1) PROVE \E j \in DOMAIN records[q.from[l]] : y[l] = records[q.from[l]][j]
  <2>1. CASE l = n + 1
    BY <1>5, <2>1 DEF rec
  <2>2. CASE l \in 1..n
    BY <1>5, <2>2 DEF IsTuple
  <2>3. l = n + 1 \/ l \in 1..n
    BY <1>1
  <2>. QED  BY <2>1, <2>2, <2>3
<1>. QED  BY <1>1, <1>5, <1>6 DEF IsTuple, Continues, rec, y

\* A term that seeks holds only of records whose first key cell has the ordinal
\* that is sought, and that depends on the tables in front only.
LEMMA SeekFinds ==
    ASSUME QueryInv, NEW q, IsStatement(q), NEW i \in DOMAIN q.where, Seeks(q, q.where[i]),
           NEW n \in Nat, Level(q.where[i]) = n + 1, NEW x, IsTuple(q, n, x), NEW y, IsTuple(q, n + 1, y),
           NEW rec, Continues(y, x, n, rec)
    PROVE  LET t == q.from[n + 1]
               cell == Least(KeyCells(t))
               want == SeekValue(q, q.where[i][1][1], x)
           IN  /\ want \in Int
               /\ TermMatches(q, q.where[i], y) => Ordinal(Schema[t][cell], rec[cell]) = want
<1> DEFINE term == q.where[i]
           c == term[1][1]
           t == q.from[n + 1]
           cell == Least(KeyCells(t))
           want == SeekValue(q, c, x)
           ord == Ordinal(Schema[t][cell], rec[cell])
<1>0. y[n + 1] = rec /\ \A l \in 1..n : y[l] = x[l]
  BY DEF Continues
<1>1. Len(term) = 1 /\ Len(term[1]) = 1
  BY DEF Seeks
<1>2. IsCondition(q, c) /\ ConditionLevel(c) = n + 1
  BY <1>1, TermLevel
<1>3. DOMAIN term = {1} /\ DOMAIN term[1] = {1}
  <2>1. IsList(term) /\ \A j \in DOMAIN term : IsList(term[j])
    BY DEF IsStatement
  <2>. QED  BY <1>1, <2>1 DEF IsList
<1>4. TermMatches(q, term, y) => Matches(q, c, y)
  BY <1>3 DEF TermMatches
<1>5. n \in Nat /\ n + 1 \in 1..Len(q.from)
  <2>1. Len(q.from) \in Nat /\ n \in 0..Len(q.from) /\ n + 1 \in 0..Len(q.from)
    BY Statement DEF IsTuple
  <2>. QED  BY <2>1
<1> HIDE DEF term, c
<1>6. ASSUME NEW col, IsBound(q, col), col.table = n + 1, FirstKey(q, col)
      PROVE  ord = OrdinalOf(q, y, col) /\ Schema[t][cell] = Column(q, col)
  BY <1>0, <1>6, FirstKeyLeast DEF OrdinalOf, Column, Cell
<1>7. CASE c.kind = "isnull"
  <2>1. ~c.not /\ FirstKey(q, c.col) /\ IsBound(q, c.col) /\ c.col.table = n + 1
    BY <1>2, <1>7, ConditionReads DEF Seeks, c, term
  <2>2. want = Ordinal(Column(q, c.col), 0)
    BY <1>7 DEF SeekValue
  <2>3. want \in Int
    <3>1. IsColumn(Column(q, c.col)) /\ 0 \in Nat
      BY <2>1, BoundColumn
    <3>2. Ordinal(Column(q, c.col), 0) \in Int
      BY <3>1, OrdinalMonotone
    <3>. QED  BY <2>2, <3>2
  <2>4. Matches(q, c, y) => Cell(y, c.col) = 0
    <3>1. c.not = FALSE
      BY <1>2, <1>7, <2>1 DEF IsCondition
    <3>2. Matches(q, c, y) => (Cell(y, c.col) = 0) # c.not
      BY <1>7 DEF Matches
    <3>. QED  BY <3>1, <3>2
  <2>5. Matches(q, c, y) => ord = want
    BY <1>6, <2>1, <2>2, <2>4 DEF OrdinalOf
  <2>. QED  BY <1>4, <2>3, <2>5 DEF c, term
<1>8. CASE c.kind = "equal"
  <2>1. c.left.table # c.right.table /\ FirstKey(q, Deep(c)) /\ IsBound(q, c.left) /\ IsBound(q, c.right)
    BY <1>2, <1>8 DEF Seeks, c, term, IsCondition
  <2>2. Deep(c).table = n + 1
    BY <1>2, <1>8 DEF ConditionLevel
  <2>3. IsBound(q, Deep(c)) /\ IsBound(q, Shallow(c)) /\ Shallow(c).table \in 1..n
    <3>1. c.left.table \in 1..(n + 1) /\ c.right.table \in 1..(n + 1)
      BY <1>2, <1>8, ConditionReads
    <3>2. c.right.table > c.left.table \/ c.left.table > c.right.table
      BY <1>5, <2>1, <3>1
    <3>. QED  BY <1>5, <2>1, <2>2, <3>1, <3>2 DEF Deep, Shallow
  <2>4. want = OrdinalOf(q, x, Shallow(c))
    BY <1>8 DEF SeekValue
  <2>5. OrdinalOf(q, x, Shallow(c)) = OrdinalOf(q, y, Shallow(c))
    BY <1>0, <2>3 DEF OrdinalOf, Cell
  <2>6. Matches(q, c, y) => OrdinalOf(q, y, Deep(c)) = OrdinalOf(q, y, Shallow(c))
    BY <1>8 DEF Matches, Deep, Shallow
  <2>7. ord = OrdinalOf(q, y, Deep(c))
    BY <1>6, <2>1, <2>2, <2>3
  <2>8. want \in Int
    <3>1. Shallow(c).table <= n
      BY <1>5, <2>3
    <3>2. Cell(x, Shallow(c)) \in Nat
      BY <2>3, <3>1, TupleCell
    <3>. QED  BY <2>3, <2>4, <3>2, BoundColumn, OrdinalMonotone DEF OrdinalOf
  <2>. QED  BY <1>4, <2>4, <2>5, <2>6, <2>7, <2>8 DEF c, term
<1>9. CASE c.kind = "compare"
  <2>1. /\ c.op = "=" /\ FirstKey(q, c.col) /\ IsBound(q, c.col) /\ c.col.table = n + 1
        /\ c.value \in Values([Column(q, c.col) EXCEPT !.size = 4])
    BY <1>2, <1>9, ConditionReads DEF Seeks, c, term, IsCondition
  <2>2. want = Constant(q, c.col, c.value)
    BY <1>9 DEF SeekValue
  <2>3. want \in Int
    BY <2>1, <2>2, ConstantNumber
  <2>4. ord = OrdinalOf(q, y, c.col)
    BY <1>6, <2>1
  <2>5. Matches(q, c, y) => Comparison(q, c, y)
    BY <1>9 DEF Matches
  <2>6. Comparison(q, c, y) => OrdinalOf(q, y, c.col) = want
    <3>1. CASE Column(q, c.col).type = "integer"
      BY <2>1, <2>2, <3>1 DEF Comparison, CompareInt
    <3>2. CASE Column(q, c.col).type # "integer"
      BY <2>1, <2>2, <3>2 DEF Comparison, OrdinalOf, Ordinal
    <3>. QED  BY <3>1, <3>2
  <2>. QED  BY <1>4, <2>3, <2>4, <2>5, <2>6 DEF c, term
<1>. QED  BY <1>2, <1>7, <1>8, <1>9 DEF IsCondition

\* The window of a level has every record that can pass its tests.
LEMMA WindowFinds ==
    ASSUME QueryInv, NEW q, IsStatement(q), NEW n \in Nat, NEW x, IsTuple(q, n, x), n < Len(q.from)
    PROVE  LET t == q.from[n + 1]
               w == Window(q, n + 1, x)
           IN  /\ w[1] \in 0..Len(records[t]) /\ w[2] \in w[1]..Len(records[t])
               /\ \A k \in DOMAIN records[t] :
                    Passes(q, Append(x, records[t][k])) => k \in (w[1] + 1)..w[2]
<1> DEFINE t == q.from[n + 1]
           s == records[t]
           m == Len(s)
           w == Window(q, n + 1, x)
           seeks == {i \in TermsAt(q, n + 1) : Seeks(q, q.where[i])}
           f == Least(seeks)
           cell == Least(KeyCells(t))
           want == SeekValue(q, q.where[f][1][1], x)
           at == [i \in 0..(m - 1) |-> Ordinal(Schema[t][cell], s[i + 1][cell])]
           behind == {i \in 0..(m - 1) : at[i] >= want}
           lo == Search(m, behind)
           beyond == {i \in 0..(m - lo - 1) : at[lo + i] > want}
           hi == Search(m - lo, beyond)
<1>1. n \in Nat /\ n + 1 \in 1..Len(q.from) /\ t \in Tables
  <2>1. n \in 0..Len(q.from) /\ Len(q.from) \in Nat
    BY Statement DEF IsTuple
  <2>2. n \in Nat /\ n + 1 \in 1..Len(q.from)
    BY <2>1
  <2>. QED  BY <2>2, Statement
<1>2. s \in Seq(Raws(t)) /\ m \in Nat /\ DOMAIN s = 1..m /\ Ascending(t, s)
  BY <1>1 DEF QueryInv, AllFit
<1>3. CASE seeks = {}
  <2>1. w = <<0, m>>
    BY <1>3 DEF Window
  <2> HIDE DEF w, s
  <2>. QED  BY <1>2, <2>1 DEF w, s
<1>4. CASE seeks # {}
  <2>1. w = <<lo, lo + hi>>
    BY <1>4 DEF Window
  <2>2. f \in DOMAIN q.where /\ Level(q.where[f]) = n + 1 /\ Seeks(q, q.where[f]) /\ f \in seeks
    <3>1. seeks \in SUBSET Nat
      BY Statement DEF TermsAt
    <3>2. f \in seeks
      <4> HIDE DEF seeks
      <4>1. \E i \in seeks : \A j \in seeks : i <= j
        BY <1>4, <3>1, LeastNumber
      <4>. QED  BY <4>1 DEF Least
    <3> HIDE DEF f
    <3>. QED  BY <3>2 DEF TermsAt
  <2> HIDE DEF f, w
  <2>3. ASSUME NEW k \in 1..m
        PROVE  /\ want \in Int
               /\ Passes(q, Append(x, s[k])) => Ordinal(Schema[t][cell], s[k][cell]) = want
    <3> DEFINE y == Append(x, s[k])
    <3>0. k \in DOMAIN s
      BY <1>2
    <3>1. IsTuple(q, n + 1, y) /\ Continues(y, x, n, s[k])
      BY <3>0, AppendTuple
    <3>2. Len(y) = n + 1
      BY <3>1 DEF IsTuple
    <3> HIDE DEF y
    <3>3. Passes(q, y) => TermMatches(q, q.where[f], y)
      BY <2>2, <3>2 DEF Passes, TermsAt
    <3>4. want \in Int /\ (TermMatches(q, q.where[f], y) => Ordinal(Schema[t][cell], s[k][cell]) = want)
      BY <2>2, <3>1, SeekFinds
    <3>. QED  BY <3>1, <3>3, <3>4 DEF y
  <2>3a. cell \in DOMAIN Schema[t] /\ IsColumn(Schema[t][cell])
    <3> DEFINE K == KeyCells(t)
    <3>1. K \in SUBSET Nat /\ K # {} /\ K \subseteq DOMAIN Schema[t]
      BY <1>1, Columns
    <3>2. \E a \in K : \A b \in K : a <= b
      <4> HIDE DEF K
      <4>. QED  BY <3>1, LeastNumber
    <3>3. cell \in K
      BY <3>2 DEF Least
    <3>. QED  BY <1>1, <3>1, <3>3, Columns DEF IsColumn
  <2>3b. \A i \in 0..(m - 1) : i + 1 \in 1..m
    <3> HIDE DEF m
    <3>. QED  BY <1>2
  <2>3c. \A k \in 1..m : s[k] \in Raws(t) /\ s[k][cell] \in Nat
    <3>1. ASSUME NEW k \in 1..m PROVE s[k] \in Raws(t)
      BY <1>2
    <3> HIDE DEF cell, m, s
    <3>. QED  BY <2>3a, <3>1 DEF Raws
  <2>3d. \A i \in 0..(m - 1) : at[i] = Ordinal(Schema[t][cell], s[i + 1][cell])
    OBVIOUS
  <2>5a. ASSUME NEW i \in 0..(m - 1) PROVE at[i] \in Int
    <3>1. s[i + 1][cell] \in Nat
      BY <2>3b, <2>3c
    <3>. QED  BY <2>3a, <2>3d, <3>1, OrdinalMonotone
  <2>4. ASSUME NEW i \in 0..(m - 1), NEW j \in 0..(m - 1), i < j
        PROVE  at[i] \in Int /\ at[j] \in Int /\ at[i] <= at[j]
    <3>1. i + 1 \in 1..m /\ j + 1 \in 1..m /\ i + 1 < j + 1
      BY <2>3b, <2>4
    <3>2. KeyLess(t, s[i + 1], s[j + 1])
      BY <1>2, <3>1 DEF Ascending
    <3>3. s[i + 1] \in Raws(t) /\ s[j + 1] \in Raws(t)
      BY <2>3c, <3>1
    <3>4. s[i + 1][cell] <= s[j + 1][cell]
      BY <1>1, <3>2, <3>3, FirstCellsAscend
    <3>5. s[i + 1][cell] \in Nat /\ s[j + 1][cell] \in Nat
      BY <2>3c, <3>1
    <3>6. Ordinal(Schema[t][cell], s[i + 1][cell]) <= Ordinal(Schema[t][cell], s[j + 1][cell])
      BY <2>3a, <3>4, <3>5, OrdinalMonotone
    <3>. QED  BY <2>3d, <2>5a, <3>6
  <2>5. ASSUME m > 0 PROVE want \in Int
    <3> HIDE DEF m, want, s
    <3>1. 1 \in 1..m
      BY <1>2, <2>5
    <3>. QED  BY <2>3, <3>1
  <2>5b. \A k \in 1..m : k - 1 \in 0..(m - 1) /\ at[k - 1] = Ordinal(Schema[t][cell], s[k][cell])
    <3>1. \A k \in 1..m : k - 1 \in 0..(m - 1) /\ (k - 1) + 1 = k
      <4> HIDE DEF m
      <4>. QED  BY <1>2
    <3>. QED  BY <2>3d, <3>1
  <2> HIDE DEF at, want, m
  <2>6. Splits(m, behind, lo)
    <3>1. \A i, j \in 0..(m - 1) : i < j /\ i \in behind => j \in behind
      <4>1. ASSUME NEW i \in 0..(m - 1), NEW j \in 0..(m - 1), i < j, i \in behind PROVE j \in behind
        <5>1. at[i] >= want /\ at[i] \in Int /\ at[j] \in Int /\ at[i] <= at[j]
          BY <2>4, <4>1
        <5>2. want \in Int
          BY <1>2, <2>5
        <5>. QED  BY <5>1, <5>2
      <4>. QED  BY <4>1
    <3> HIDE DEF behind
    <3>. QED  BY <1>2, <3>1, SearchSplits
  <2>7. lo \in 0..m /\ \A i \in 0..(m - 1) : at[i] >= want <=> lo <= i
    <3>1. lo \in 0..m /\ \A i \in 0..(m - 1) : i \in behind <=> lo <= i
      <4> HIDE DEF behind, lo
      <4>. QED  BY <2>6 DEF Splits
    <3> HIDE DEF lo
    <3>. QED  BY <3>1
  <2> HIDE DEF lo
  <2>8. \A i \in 0..(m - lo - 1) : lo + i \in 0..(m - 1) /\ i \in Nat
    BY <1>2, <2>7
  <2>9. Splits(m - lo, beyond, hi)
    <3>1. \A i, j \in 0..(m - lo - 1) : i < j /\ i \in beyond => j \in beyond
      <4>1. ASSUME NEW i \in 0..(m - lo - 1), NEW j \in 0..(m - lo - 1), i < j, i \in beyond
            PROVE  j \in beyond
        <5>0. lo + i < lo + j
          BY <1>2, <2>7, <4>1
        <5>1. at[lo + i] > want /\ at[lo + i] \in Int /\ at[lo + j] \in Int /\ at[lo + i] <= at[lo + j]
          BY <2>4, <2>8, <4>1, <5>0
        <5>2. want \in Int
          BY <1>2, <2>5, <2>7
        <5>. QED  BY <5>1, <5>2
      <4>. QED  BY <4>1
    <3>2. m - lo \in Nat
      BY <1>2, <2>7
    <3> HIDE DEF beyond
    <3>. QED  BY <3>1, <3>2, SearchSplits
  <2>10. hi \in 0..(m - lo) /\ \A i \in 0..(m - lo - 1) : at[lo + i] > want <=> hi <= i
    <3>1. hi \in 0..(m - lo) /\ \A i \in 0..(m - lo - 1) : i \in beyond <=> hi <= i
      <4> HIDE DEF beyond, hi
      <4>. QED  BY <2>9 DEF Splits
    <3> HIDE DEF hi
    <3>. QED  BY <3>1
  <2> HIDE DEF hi
  <2>11. lo + hi \in lo..m
    BY <1>2, <2>7, <2>10
  <2>12. ASSUME NEW k \in 1..m, Passes(q, Append(x, s[k])) PROVE k \in (lo + 1)..(lo + hi)
    <3>1. k - 1 \in 0..(m - 1) /\ at[k - 1] = want /\ want \in Int
      BY <2>3, <2>5b, <2>12 DEF want
    <3>2. lo <= k - 1
      BY <2>7, <3>1
    <3>3. k - 1 - lo \in 0..(m - lo - 1) /\ lo + (k - 1 - lo) = k - 1
      BY <1>2, <2>7, <3>1, <3>2
    <3>4. ~(at[k - 1] > want)
      BY <3>1
    <3>5. ~(hi <= k - 1 - lo)
      BY <2>10, <3>3, <3>4
    <3>. QED  BY <1>2, <2>7, <2>10, <3>2, <3>5
  <2> HIDE DEF s
  <2>. QED  BY <1>2, <2>1, <2>7, <2>11, <2>12 DEF w, m, s
<1>. QED  BY <1>3, <1>4

-----------------------------------------------------------------------------
(***************************************************************************)
(* What statements do to the records.                                      *)
(***************************************************************************)

\* A record that is put together from a row that may be inserted.
LEMMA RowFits ==
    ASSUME NEW t \in Tables, NEW row \in NewRows[t], NEW f, Pool(f)
    PROVE  Fits(f, t, RawRecord(f, t, row))
<1>1. DOMAIN row = DOMAIN Schema[t] /\ \A i \in DOMAIN row : row[i] \in Values(Schema[t][i])
  <2>1. row = [i \in DOMAIN Schema[t] |-> row[i]] /\ \A i \in DOMAIN row : row[i] \in Values(Schema[t][i])
    BY StatementAssumption
  <2>2. DOMAIN [i \in DOMAIN Schema[t] |-> row[i]] = DOMAIN Schema[t]
    OBVIOUS
  <2>. QED  BY <2>1, <2>2
<1>2. ASSUME NEW i \in DOMAIN Schema[t]
      PROVE  /\ Raw(f, Schema[t][i], row[i]) \in CellsOf(f, Schema[t][i])
             /\ Raw(f, Schema[t][i], row[i]) \in Nat
  <2>1. IsColumn(Schema[t][i])
    BY Columns DEF IsColumn
  <2>. QED  BY <1>1, <2>1, RawCell
<1>3. RawRecord(f, t, row) = [i \in DOMAIN Schema[t] |-> Raw(f, Schema[t][i], row[i])]
  BY <1>1 DEF RawRecord
<1>. QED  BY <1>2, <1>3 DEF Fits, Raws

\* Records still fit when other strings are interned.
LEMMA StillFits ==
    ASSUME NEW values, NEW f \in Interned(values), NEW t, NEW rec, Fits(ids, t, rec)
    PROVE  Fits(f, t, rec)
BY InternedPool DEF Fits

\* INSERT keeps the records in order and their strings in the pool.
LEMMA InsertKeeps ==
    ASSUME QueryInv, NEW t \in Tables, NEW row \in NewRows[t], Insert(t, row)
    PROVE  QueryInv'
<1>1. PICK f \in Interned(ToSet(row)) :
        /\ ~Found(t, RawRecord(f, t, row))
        /\ records' = [records EXCEPT ![t] =
                InsertAt(@, Find(t, RawRecord(f, t, row)) + 1, RawRecord(f, t, row))]
        /\ ids' = f
  BY DEF Insert
<1> DEFINE rec == RawRecord(f, t, row)
           s == records[t]
           k == Find(t, rec) + 1
           v == InsertAt(s, k, rec)
<1>2. Pool(f) /\ Fits(f, t, rec)
  BY InternedPool, RowFits
<1>3. rec \in Raws(t) /\ s \in Seq(Raws(t)) /\ Ascending(t, s) /\ Len(s) \in Nat
  BY <1>2 DEF Fits, QueryInv, AllFit
<1>4. k \in 1..(Len(s) + 1)
  <2>1. Find(t, rec) \in 0..Len(s)
    BY <1>3, FindPlace
  <2> HIDE DEF rec, s
  <2>. QED  BY <1>3, <2>1
<1>5. v \in Seq(Raws(t)) /\ Ascending(t, v)
  BY <1>1, <1>3, InsertAscending
<1>6. Inserted(v, s, k, rec)
  <2> HIDE DEF s, k, rec
  <2>. QED  BY <1>3, <1>4, InsertAtProperties
<1>7. records' = [records EXCEPT ![t] = v]
  BY <1>1
<1>8. records = [x \in Tables |-> records[x]]
  BY DEF QueryInv, AllFit
<1>9. records' = [x \in Tables |-> IF x = t THEN v ELSE records[x]]
  <2> HIDE DEF v
  <2>. QED  BY <1>7, <1>8
<1>9a. \A x \in Tables : Ascending(x, records[x]) /\ records[x] \in Seq(Raws(x))
         /\ \A i \in DOMAIN records[x] : Fits(f, x, records[x][i])
  BY StillFits DEF QueryInv, AllFit
<1> HIDE DEF v, k, rec
<1>10. ASSUME NEW i \in DOMAIN v PROVE Fits(f, t, v[i])
  <2>1. Len(v) = Len(s) + 1
        /\ \A j \in 1..(Len(s) + 1) : v[j] = IF j < k THEN s[j] ELSE IF j = k THEN rec ELSE s[j - 1]
    <3> HIDE DEF s
    <3>. QED  BY <1>6 DEF Inserted
  <2>2. i \in 1..(Len(s) + 1)
    BY <1>5, <2>1
  <2>3. \A j \in 1..Len(s) : Fits(f, t, s[j])
    BY <1>3, <1>9a
  <2> HIDE DEF s
  <2>4. CASE i < k
    <3>1. i \in 1..Len(s)
      BY <1>3, <1>4, <2>2, <2>4
    <3>. QED  BY <2>1, <2>2, <2>3, <2>4, <3>1
  <2>5. CASE i = k
    BY <1>2, <1>3, <1>4, <2>1, <2>2, <2>5
  <2>6. CASE i > k
    <3>1. i - 1 \in 1..Len(s) /\ ~(i < k) /\ i # k
      BY <1>3, <1>4, <2>2, <2>6
    <3>. QED  BY <2>1, <2>2, <2>3, <3>1
  <2>. QED  BY <1>3, <1>4, <2>2, <2>4, <2>5, <2>6
<1>11. AllFit(f, records')
  BY <1>5, <1>9, <1>9a, <1>10 DEF AllFit
<1>12. \A x \in Tables : Ascending(x, records'[x])
  BY <1>5, <1>9, <1>9a
<1>. QED  BY <1>1, <1>2, <1>11, <1>12 DEF QueryInv

\* A statement starts with no record.
LEMMA EmptyTuple ==
    ASSUME NEW q, IsStatement(q)
    PROVE  IsTuple(q, 0, <<>>) /\ 0 < Len(q.from)
<1>1. 0 \in 0..Len(q.from) /\ 0 < Len(q.from)
  BY Statement
<1>2. <<>> \in Seq(Recs) /\ Len(<<>>) = 0
  OBVIOUS
<1>3. \A l \in 1..0 : \E k \in DOMAIN records[q.from[l]] : (<<>>)[l] = records[q.from[l]][k]
  OBVIOUS
<1>. QED  BY <1>1, <1>2, <1>3 DEF IsTuple

\* What DELETE leaves of a table.
LEMMA DeleteThins ==
    ASSUME QueryInv, NEW q \in Deletes, Delete(q)
    PROVE  LET t == q.from[1]
               gone == {i \in DOMAIN records[t] : Passes(q, <<records[t][i]>>)}
           IN  /\ t \in Tables /\ records[t] \in Seq(Raws(t))
               /\ records' = [x \in Tables |-> IF x = t THEN records'[t] ELSE records[x]]
               /\ Thinned(records'[t], records[t], DOMAIN records[t] \ gone)
               /\ ids' = Released(ids, records')
<1> DEFINE t == q.from[1]
           s == records[t]
           w == Window(q, 1, <<>>)
           places == {i \in (w[1] + 1)..w[2] : ~Passes(q, <<s[i]>>)}
           v == SubSeq(s, 1, w[1]) \o Picked(s, places) \o SubSeq(s, w[2] + 1, Len(s))
           gone == {i \in DOMAIN s : Passes(q, <<s[i]>>)}
<1>1. IsStatement(q) /\ t \in Tables
  <2>1. IsStatement(q)
    BY StatementAssumption
  <2>2. 1 \in 1..Len(q.from)
    BY <2>1, Statement
  <2>. QED  BY <2>1, <2>2, Statement
<1>2. s \in Seq(Raws(t)) /\ Len(s) \in Nat /\ DOMAIN s = 1..Len(s)
  BY <1>1 DEF QueryInv, AllFit
<1>3. records' = [records EXCEPT ![t] = v] /\ ids' = Released(ids, records')
  BY DEF Delete
<1>4. /\ w[1] \in 0..Len(s) /\ w[2] \in w[1]..Len(s)
      /\ \A k \in DOMAIN s : Passes(q, Append(<<>>, s[k])) => k \in (w[1] + 1)..w[2]
  <2>1. IsTuple(q, 0, <<>>) /\ 0 < Len(q.from) /\ 0 \in Nat /\ 0 + 1 = 1
    BY <1>1, EmptyTuple
  <2>. QED  BY <1>1, <2>1, WindowFinds
<1>5. \A k \in DOMAIN s : Append(<<>>, s[k]) = <<s[k]>>
  OBVIOUS
<1>6. records = [x \in Tables |-> records[x]]
  BY DEF QueryInv, AllFit
<1> HIDE DEF w, s
<1>7. Thinned(v, s, (1..w[1]) \cup places \cup ((w[2] + 1)..Len(s)))
  <2>1. places \in SUBSET ((w[1] + 1)..w[2])
    OBVIOUS
  <2>2. w[1] \in 0..Len(s) /\ w[2] \in w[1]..Len(s)
    BY <1>4
  <2> DEFINE a == w[1]
             b == w[2]
  <2> HIDE DEF a, b, places
  <2>3. a \in 0..Len(s) /\ b \in a..Len(s) /\ places \in SUBSET ((a + 1)..b)
    BY <2>1, <2>2 DEF a, b
  <2>4. Thinned(SubSeq(s, 1, a) \o Picked(s, places) \o SubSeq(s, b + 1, Len(s)),
                s, (1..a) \cup places \cup ((b + 1)..Len(s)))
    BY <1>2, <2>3, WindowThinned
  <2>. QED  BY <2>4 DEF a, b
<1>8. (1..w[1]) \cup places \cup ((w[2] + 1)..Len(s)) = DOMAIN s \ gone
  <2>1. w[1] \in Nat /\ w[2] \in Nat /\ w[1] <= w[2] /\ w[2] <= Len(s)
    BY <1>2, <1>4
  <2>2. ASSUME NEW i \in 1..Len(s) PROVE i \in 1..w[1] \/ i \in (w[1] + 1)..w[2] \/ i \in (w[2] + 1)..Len(s)
    BY <1>2, <2>1
  <2>3. ASSUME NEW i \in 1..Len(s), i \in gone PROVE i \notin 1..w[1] /\ i \notin (w[2] + 1)..Len(s)
    <3>1. i \in (w[1] + 1)..w[2]
      BY <1>2, <1>4, <1>5, <2>3
    <3>. QED  BY <2>1, <3>1
  <2>4. (1..w[1]) \cup places \cup ((w[2] + 1)..Len(s)) \subseteq 1..Len(s)
    BY <1>2, <2>1
  <2>5. \A i \in places : i \notin gone
    OBVIOUS
  <2>6. \A i \in 1..Len(s) : i \in (w[1] + 1)..w[2] /\ i \notin gone => i \in places
    BY <1>2
  <2> HIDE DEF gone, places
  <2>. QED  BY <1>2, <2>2, <2>3, <2>4, <2>5, <2>6
<1> HIDE DEF v, gone, places
<1>9. records' = [x \in Tables |-> IF x = t THEN v ELSE records[x]] /\ records'[t] = v
  BY <1>1, <1>3, <1>6
<1>. QED  BY <1>1, <1>2, <1>3, <1>7, <1>8, <1>9 DEF s, gone

\* DELETE does, too.
LEMMA DeleteKeeps ==
    ASSUME QueryInv, NEW q \in Deletes, Delete(q)
    PROVE  QueryInv'
<1> DEFINE t == q.from[1]
           s == records[t]
           places == DOMAIN s \ {i \in DOMAIN s : Passes(q, <<s[i]>>)}
<1>1. /\ t \in Tables /\ s \in Seq(Raws(t))
      /\ records' = [x \in Tables |-> IF x = t THEN records'[t] ELSE records[x]]
      /\ Thinned(records'[t], s, places)
      /\ ids' = Released(ids, records')
  BY DeleteThins
<1>2. places \in SUBSET DOMAIN s
  OBVIOUS
<1>3. Ascending(t, s) /\ \A i \in DOMAIN s : Fits(ids, t, s[i])
  BY <1>1 DEF QueryInv, AllFit
<1> HIDE DEF s, places
<1> DEFINE v == records'[t]
<1> HIDE DEF v
<1>4. Thinned(v, s, places)
  BY <1>1 DEF v
<1>5. v \in Seq(Raws(t)) /\ \A p \in DOMAIN v : \E i \in places : v[p] = s[i]
  <2>1. v \in Seq(Raws(t)) /\ Shares(v, s, places)
    BY <1>1, <1>2, <1>4, ThinnedSequence
  <2>. QED  BY <2>1 DEF Shares
<1>6. Ascending(t, v)
  BY <1>1, <1>2, <1>3, <1>4, ThinnedAscending
<1>7. \A x \in Tables : /\ Ascending(x, records[x]) /\ records[x] \in Seq(Raws(x))
                        /\ \A i \in DOMAIN records[x] : Fits(ids, x, records[x][i])
  BY DEF QueryInv, AllFit
<1>8. \A x \in Tables : records'[x] = IF x = t THEN v ELSE records[x]
  BY <1>1 DEF v
<1>9. \A p \in DOMAIN v : Fits(ids, t, v[p])
  BY <1>2, <1>3, <1>5
<1>10. AllFit(ids, records')
  <2>1. records' = [x \in Tables |-> records'[x]]
    BY <1>1, <1>8 DEF v
  <2>. QED  BY <1>5, <1>7, <1>8, <1>9, <2>1 DEF AllFit
<1>11. Pool(ids') /\ AllFit(ids', records')
  BY <1>1, <1>10, ReleasedPool DEF QueryInv
<1>12. \A x \in Tables : Ascending(x, records'[x])
  BY <1>6, <1>7, <1>8
<1>. QED  BY <1>11, <1>12 DEF QueryInv

\* UPDATE assigns values of the columns to records, and leaves their keys.
LEMMA AssignedFits ==
    ASSUME NEW u \in Updates, NEW i \in DOMAIN u.from, NEW f, Pool(f),
           NEW rec, Fits(f, u.from[i], rec)
    PROVE  /\ Fits(f, u.from[i], Assigned(f, u, i, rec))
           /\ \A j \in KeyCells(u.from[i]) : Assigned(f, u, i, rec)[j] = rec[j]
<1> DEFINE t == u.from[i]
           Sets(j) == {k \in Assignments(u, i) : u.set[k].cell = j}
           first(j) == CHOOSE k \in Assignments(u, i) : u.set[k].cell = j
           new == Assigned(f, u, i, rec)
<1>1. t \in Tables /\ \A k \in DOMAIN u.set : IsAssignment(u, u.set[k])
  BY StatementAssumption, Statement
<1>2. rec \in [DOMAIN Schema[t] -> Nat] /\ \A j \in DOMAIN Schema[t] : rec[j] \in CellsOf(f, Schema[t][j])
  BY DEF Fits, Raws
<1>3. new = [j \in DOMAIN Schema[t] |->
            IF Sets(j) # {} THEN Raw(f, Schema[t][j], u.set[first(j)].value) ELSE rec[j]]
  BY <1>2 DEF Assigned
<1>4. ASSUME NEW j, Sets(j) # {}
      PROVE  /\ first(j) \in DOMAIN u.set /\ u.set[first(j)].table = i /\ u.set[first(j)].cell = j
             /\ ~Schema[t][j].key /\ u.set[first(j)].value \in Values(Schema[t][j])
  <2>1. first(j) \in Assignments(u, i) /\ u.set[first(j)].cell = j
    BY <1>4
  <2> DEFINE k == first(j)
  <2> HIDE DEF k
  <2>2. k \in DOMAIN u.set /\ u.set[k].table = i /\ u.set[k].cell = j
    BY <2>1 DEF Assignments, k
  <2>3. IsAssignment(u, u.set[k])
    BY <1>1, <2>2
  <2>4. Column(u, u.set[k]) = Schema[t][j]
    BY <2>2 DEF Column
  <2>. QED  BY <2>2, <2>3, <2>4 DEF IsAssignment, k
<1> HIDE DEF t, Sets, first
<1>5. ASSUME NEW j \in DOMAIN Schema[t] PROVE new[j] \in CellsOf(f, Schema[t][j]) /\ new[j] \in Nat
  <2>1. CASE Sets(j) # {}
    <3>1. IsColumn(Schema[t][j])
      BY <1>1, Columns DEF IsColumn
    <3>2. new[j] = Raw(f, Schema[t][j], u.set[first(j)].value)
      BY <1>3, <2>1
    <3>. QED  BY <1>4, <2>1, <3>1, <3>2, RawCell
  <2>2. CASE Sets(j) = {}
    BY <1>2, <1>3, <2>2
  <2>. QED  BY <2>1, <2>2
<1>6. DOMAIN new = DOMAIN Schema[t] /\ new = [j \in DOMAIN Schema[t] |-> new[j]]
  BY <1>3
<1>7. ASSUME NEW j \in KeyCells(t) PROVE new[j] = rec[j]
  <2>1. j \in DOMAIN Schema[t] /\ Schema[t][j].key
    BY DEF KeyCells
  <2>. QED  BY <1>3, <1>4, <2>1
<1> HIDE DEF new
<1>8. Fits(f, t, new)
  BY <1>5, <1>6 DEF Fits, Raws
<1>. QED  BY <1>7, <1>8 DEF t, new

\* Records with the same keys are in the same order.
LEMMA SameKeys ==
    ASSUME NEW t, NEW a, NEW b, NEW x, NEW y, KeyLess(t, a, b),
           \A j \in KeyCells(t) : x[j] = a[j] /\ y[j] = b[j]
    PROVE  KeyLess(t, x, y)
<1>1. PICK i \in KeyCells(t) : a[i] < b[i] /\ \A j \in KeyCells(t) : j < i => a[j] = b[j]
  BY DEF KeyLess
<1>2. x[i] < y[i] /\ \A j \in KeyCells(t) : j < i => x[j] = y[j]
  BY <1>1
<1>. QED  BY <1>2 DEF KeyLess

\* The table of a statement that a table is.
TableOf(u, t) == CHOOSE i \in DOMAIN u.from : u.from[i] = t

\* Whether UPDATE changes a record.
Hit(u, t, rec) ==
    \E i \in DOMAIN u.from : u.from[i] = t /\ \E k \in DOMAIN Gather(u) : Gather(u)[k][i] = rec

\* The strings that it interns.
NewValues(u) ==
    IF Gather(u) = <<>> THEN {}
    ELSE {u.set[k].value : k \in UNION {Assignments(u, i) : i \in DOMAIN u.from}}

\* What UPDATE does to the records.
LEMMA UpdateChanges ==
    ASSUME NEW u \in Updates, Update(u)
    PROVE  \E f \in Interned(NewValues(u)) :
            /\ records' = [t \in Tables |-> [n \in DOMAIN records[t] |->
                    IF Hit(u, t, records[t][n])
                    THEN Assigned(f, u, TableOf(u, t), records[t][n]) ELSE records[t][n]]]
            /\ ids' = Released(f, records')
<1> DEFINE tuples == Gather(u)
           sets == UNION {Assignments(u, i) : i \in DOMAIN u.from}
           values == IF tuples = <<>> THEN {} ELSE {u.set[k].value : k \in sets}
           At(t) == {i \in DOMAIN u.from : u.from[i] = t}
           the(t) == CHOOSE i \in At(t) : TRUE
           Struck(t, rec) == \E i \in At(t) : \E k \in DOMAIN tuples : tuples[k][i] = rec
           New(f, t, rec) ==
               IF Struck(t, rec) THEN Assigned(f, u, the(t), rec) ELSE rec
<1>1. PICK f \in Interned(values) :
        /\ records' = [t \in Tables |-> [n \in DOMAIN records[t] |-> New(f, t, records[t][n])]]
        /\ ids' = Released(f, records')
  BY DEF Update
<1>2. ASSUME NEW t PROVE the(t) = TableOf(u, t)
  <2>1. \A i : (i \in At(t) /\ TRUE) <=> (i \in DOMAIN u.from /\ u.from[i] = t)
    OBVIOUS
  <2>. QED  BY <2>1 DEF TableOf
<1>2a. ASSUME NEW t, NEW rec PROVE Hit(u, t, rec) <=> Struck(t, rec)
  BY DEF Hit
<1>3. ASSUME NEW t, NEW rec
      PROVE  New(f, t, rec) = IF Hit(u, t, rec) THEN Assigned(f, u, TableOf(u, t), rec) ELSE rec
  <2> HIDE DEF the, Struck
  <2>. QED  BY <1>2, <1>2a
<1>4. values = NewValues(u)
  BY DEF NewValues
<1> HIDE DEF values, New
<1>5. records' = [t \in Tables |-> [n \in DOMAIN records[t] |->
            IF Hit(u, t, records[t][n])
            THEN Assigned(f, u, TableOf(u, t), records[t][n]) ELSE records[t][n]]]
  BY <1>1, <1>3
<1>. QED  BY <1>1, <1>4, <1>5

\* The records after the assignments to those that an UPDATE has gathered.
Reassigned(f, u) ==
    [t \in Tables |-> [n \in DOMAIN records[t] |->
        IF Hit(u, t, records[t][n])
        THEN Assigned(f, u, TableOf(u, t), records[t][n]) ELSE records[t][n]]]

\* They are in order, and their strings in the pool that has interned the new ones.
LEMMA ReassignedFits ==
    ASSUME QueryInv, NEW u \in Updates, NEW f \in Interned(NewValues(u)), records' = Reassigned(f, u)
    PROVE  AllFit(f, records') /\ \A t \in Tables : Ascending(t, records'[t])
<1>1. records' = [t \in Tables |-> [n \in DOMAIN records[t] |->
                IF Hit(u, t, records[t][n])
                THEN Assigned(f, u, TableOf(u, t), records[t][n]) ELSE records[t][n]]]
  BY DEF Reassigned
<1>2. Pool(f)
  BY InternedPool
<1>3. ASSUME NEW t \in Tables
      PROVE  /\ records[t] \in Seq(Raws(t)) /\ Ascending(t, records[t])
             /\ DOMAIN records[t] = 1..Len(records[t]) /\ Len(records[t]) \in Nat
             /\ \A n \in DOMAIN records[t] : Fits(f, t, records[t][n])
  <2>1. records[t] \in Seq(Raws(t)) /\ Ascending(t, records[t])
        /\ \A n \in DOMAIN records[t] : Fits(ids, t, records[t][n])
    BY DEF QueryInv, AllFit
  <2>2. DOMAIN records[t] = 1..Len(records[t]) /\ Len(records[t]) \in Nat
    BY <2>1
  <2>. QED  BY <2>1, <2>2, StillFits
<1>4. ASSUME NEW t \in Tables, NEW n \in DOMAIN records[t]
      PROVE  Fits(f, t, records'[t][n]) /\ \A j \in KeyCells(t) : records'[t][n][j] = records[t][n][j]
  <2> DEFINE rec == records[t][n]
  <2>1. records'[t][n] = IF Hit(u, t, rec) THEN Assigned(f, u, TableOf(u, t), rec) ELSE rec
    BY <1>1
  <2>2. CASE ~Hit(u, t, rec)
    BY <1>3, <2>1, <2>2
  <2>3. CASE Hit(u, t, rec)
    <3>1. TableOf(u, t) \in DOMAIN u.from /\ u.from[TableOf(u, t)] = t
      BY <2>3 DEF Hit, TableOf
    <3>2. Fits(f, u.from[TableOf(u, t)], rec)
      BY <1>3, <3>1
    <3>. QED  BY <1>2, <2>1, <2>3, <3>1, <3>2, AssignedFits
  <2>. QED  BY <2>2, <2>3
<1>5. ASSUME NEW t \in Tables
      PROVE  records'[t] \in Seq(Raws(t)) /\ Ascending(t, records'[t])
             /\ DOMAIN records'[t] = DOMAIN records[t]
  <2>1. DOMAIN records'[t] = DOMAIN records[t]
        /\ records'[t] = [n \in DOMAIN records[t] |-> records'[t][n]]
    BY <1>1
  <2>2. \A n \in DOMAIN records[t] : records'[t][n] \in Raws(t)
    BY <1>4 DEF Fits
  <2>3. records'[t] \in [1..Len(records[t]) -> Raws(t)]
    BY <1>3, <2>1, <2>2
  <2>4. records'[t] \in Seq(Raws(t))
    <3>1. Len(records[t]) \in Nat
      BY <1>3
    <3>. QED  BY <2>3, <3>1, SeqDef
  <2>5. ASSUME NEW i \in DOMAIN records[t], NEW j \in DOMAIN records[t], i < j
        PROVE  KeyLess(t, records'[t][i], records'[t][j])
    <3>1. KeyLess(t, records[t][i], records[t][j])
      BY <1>3, <2>5 DEF Ascending
    <3>. QED  BY <1>4, <3>1, SameKeys
  <2>. QED  BY <2>1, <2>4, <2>5 DEF Ascending
<1>6. AllFit(f, records')
  <2>1. records' = [t \in Tables |-> records'[t]]
    BY <1>1
  <2>. QED  BY <1>4, <1>5, <2>1 DEF AllFit
<1>. QED  BY <1>5, <1>6

\* UPDATE keeps the records in order and their strings in the pool.
LEMMA UpdateKeeps ==
    ASSUME QueryInv, NEW u \in Updates, Update(u)
    PROVE  QueryInv'
<1>1. PICK f \in Interned(NewValues(u)) : records' = Reassigned(f, u) /\ ids' = Released(f, records')
  BY UpdateChanges DEF Reassigned
<1>2. AllFit(f, records') /\ \A t \in Tables : Ascending(t, records'[t]) BY <1>1, ReassignedFits
<1>3. Pool(ids') /\ AllFit(ids', records') BY <1>1, <1>2, InternedPool, ReleasedPool
<1>4. QED BY <1>2, <1>3 DEF QueryInv

\* The records are in order and their strings in the pool from the start.
LEMMA QueryInvInit == Init => QueryInv
<1> SUFFICES ASSUME Init PROVE QueryInv
  OBVIOUS
<1>1. Pool(ids)
  BY QueryAssumption DEF Init, Pool
<1>2. \A t \in Tables : records[t] = <<>>
  BY DEF Init
<1>3. AllFit(ids, records)
  BY <1>2 DEF Init, AllFit
<1>4. \A t \in Tables : Ascending(t, records[t])
  BY <1>2 DEF Ascending
<1>. QED  BY <1>1, <1>3, <1>4 DEF QueryInv

\* And stay so.
LEMMA QueryInvStep == QueryInv /\ [Next]_vars => QueryInv'
<1> SUFFICES ASSUME QueryInv, [Next]_vars PROVE QueryInv'
  OBVIOUS
<1>1. ASSUME NEW t \in Tables, NEW row \in NewRows[t], Insert(t, row) PROVE QueryInv'
  BY <1>1, InsertKeeps
<1>2. ASSUME NEW q \in Deletes, Delete(q) PROVE QueryInv'
  BY <1>2, DeleteKeeps
<1>3. ASSUME NEW u \in Updates, Update(u) PROVE QueryInv'
  BY <1>3, UpdateKeeps
<1>4. CASE UNCHANGED vars
  BY <1>4 DEF vars, QueryInv
<1>. QED  BY <1>1, <1>2, <1>3, <1>4 DEF Next

\* What holds in every state of Query.
LEMMA QueryInvariant == Spec => []QueryInv
<1>. QED  BY QueryInvInit, QueryInvStep, PTL DEF Spec

\* The records of every table are in strictly ascending key order, on which
\* binary search relies, and the cells of text columns resolve.
THEOREM RecordsSorted == Spec => []KeysSorted
<1>1. QueryInv => KeysSorted
  <2> SUFFICES ASSUME QueryInv, NEW t \in Tables,
                      NEW i \in DOMAIN records[t], NEW j \in DOMAIN records[t]
               PROVE  /\ i < j => KeyLess(t, records[t][i], records[t][j])
                      /\ \A c \in DOMAIN Schema[t] : Schema[t][c].type = "string" =>
                            records[t][i][c] \in {0} \cup {ids[s] : s \in Strings}
    BY DEF KeysSorted
  <2>1. i < j => KeyLess(t, records[t][i], records[t][j])
    BY DEF QueryInv, Ascending
  <2>2. Fits(ids, t, records[t][i])
    BY DEF QueryInv, AllFit
  <2>. QED  BY <2>1, <2>2 DEF Fits, CellsOf
<1>. QED  BY <1>1, QueryInvariant, PTL

-----------------------------------------------------------------------------
(***************************************************************************)
(* Sequences of sequences.                                                 *)
(***************************************************************************)

Has(v, x) == \E p \in DOMAIN v : v[p] = x

Once(v) == \A p, q \in DOMAIN v : v[p] = v[q] => p = q

\* A sequence has the members of some others, once if they have them once.
HasAll(v, ss, n) ==
    /\ \A x : Has(v, x) <=> \E i \in 1..n : Has(ss[i], x)
    /\ (\A i \in 1..n : Once(ss[i]))
       /\ (\A i, j \in 1..n : \A x : Has(ss[i], x) /\ Has(ss[j], x) => i = j) => Once(v)

\* Members of two sequences.
LEMMA Joined ==
    ASSUME NEW X, NEW u \in Seq(X), NEW w \in Seq(X)
    PROVE  /\ u \o w \in Seq(X)
           /\ \A x : Has(u \o w, x) <=> Has(u, x) \/ Has(w, x)
           /\ Once(u) /\ Once(w) /\ (\A x : ~(Has(u, x) /\ Has(w, x))) => Once(u \o w)
<1> DEFINE v == u \o w
           a == Len(u)
           b == Len(w)
<1>1. /\ v \in Seq(X) /\ DOMAIN v = 1..(a + b)
      /\ \A p \in 1..(a + b) : v[p] = IF p <= a THEN u[p] ELSE w[p - a]
  OBVIOUS
<1>2. a \in Nat /\ b \in Nat /\ DOMAIN u = 1..a /\ DOMAIN w = 1..b
  OBVIOUS
<1> HIDE DEF v, a, b
<1>3. ASSUME NEW p \in 1..(a + b)
      PROVE  \/ p \in 1..a /\ v[p] = u[p]
             \/ p - a \in 1..b /\ v[p] = w[p - a]
  BY <1>1, <1>2
<1>4. ASSUME NEW p \in 1..a PROVE p \in 1..(a + b) /\ v[p] = u[p]
  <2>1. p \in 1..(a + b) /\ p <= a
    BY <1>2
  <2>. QED  BY <1>1, <2>1
<1>5. ASSUME NEW p \in 1..b PROVE a + p \in 1..(a + b) /\ v[a + p] = w[p]
  <2>1. a + p \in 1..(a + b) /\ ~(a + p <= a) /\ (a + p) - a = p
    BY <1>2
  <2>. QED  BY <1>1, <2>1
<1>6. ASSUME NEW x PROVE Has(v, x) <=> Has(u, x) \/ Has(w, x)
  <2>1. Has(v, x) => Has(u, x) \/ Has(w, x)
    BY <1>1, <1>2, <1>3 DEF Has
  <2>2. Has(u, x) => Has(v, x)
    BY <1>1, <1>2, <1>4 DEF Has
  <2>3. Has(w, x) => Has(v, x)
    BY <1>1, <1>2, <1>5 DEF Has
  <2>. QED  BY <2>1, <2>2, <2>3
<1>7. ASSUME Once(u), Once(w), \A x : ~(Has(u, x) /\ Has(w, x)),
             NEW p \in 1..(a + b), NEW q \in 1..(a + b), v[p] = v[q]
      PROVE  p = q
  <2>1. CASE p \in 1..a /\ v[p] = u[p]
    <3>1. CASE q \in 1..a /\ v[q] = u[q]
      BY <1>2, <1>7, <2>1, <3>1 DEF Once
    <3>2. CASE q - a \in 1..b /\ v[q] = w[q - a]
      BY <1>2, <1>7, <2>1, <3>2 DEF Has
    <3>. QED  BY <1>3, <3>1, <3>2
  <2>2. CASE p - a \in 1..b /\ v[p] = w[p - a]
    <3>1. CASE q \in 1..a /\ v[q] = u[q]
      BY <1>2, <1>7, <2>2, <3>1 DEF Has
    <3>2. CASE q - a \in 1..b /\ v[q] = w[q - a]
      <4>1. p - a = q - a
        BY <1>2, <1>7, <2>2, <3>2 DEF Once
      <4>. QED  BY <1>2, <4>1
    <3>. QED  BY <1>3, <3>1, <3>2
  <2>. QED  BY <1>3, <2>1, <2>2
<1>8. Once(u) /\ Once(w) /\ (\A x : ~(Has(u, x) /\ Has(w, x))) => Once(v)
  BY <1>1, <1>7 DEF Once
<1>. QED  BY <1>1, <1>6, <1>8 DEF v

Flattening(ss, f) ==
    [i \in 1..Len(ss) |-> IF i = 1 THEN ss[i] ELSE f[i - 1] \o ss[i]]

\* FlattenSeq joins sequences one after the other.
LEMMA FlattenEquation ==
    ASSUME NEW X, NEW ss \in Seq(Seq(X)), Len(ss) # 0
    PROVE  \E f : f = Flattening(ss, f) /\ FlattenSeq(ss) = f[Len(ss)]
<1> DEFINE n == Len(ss)
           D == 1..n
           S == Seq(X)
           size == [i \in D |-> i]
           Step == [p \in D \X [D -> S] |-> Flattening(ss, p[2])[p[1]]]
<1>1. n \in Nat /\ DOMAIN ss = 1..n /\ \A i \in 1..n : ss[i] \in S
  OBVIOUS
<1>2. S # {} /\ size \in [D -> 0..n]
  BY <1>1
<1> HIDE DEF n
<1>3. ASSUME NEW i \in D, i # 1 PROVE i - 1 \in D /\ size[i - 1] < size[i]
  BY <1>1, <1>3
<1>4. ASSUME NEW i \in D, NEW f \in [D -> S]
      PROVE  Flattening(ss, f)[i] = (IF i = 1 THEN ss[i] ELSE f[i - 1] \o ss[i])
             /\ Flattening(ss, f)[i] \in S
  <2>1. Flattening(ss, f)[i] = IF i = 1 THEN ss[i] ELSE f[i - 1] \o ss[i]
    BY DEF Flattening, n
  <2>2. CASE i = 1
    BY <1>1, <2>1, <2>2
  <2>3. CASE i # 1
    <3>1. f[i - 1] \in S /\ ss[i] \in S
      BY <1>1, <1>3, <2>3
    <3>2. f[i - 1] \o ss[i] \in S
      BY <3>1
    <3>. QED  BY <2>1, <2>3, <3>2
  <2>. QED  BY <2>1, <2>2, <2>3
<1>5. Step \in [D \X [D -> S] -> S]
  <2> HIDE DEF D, S
  <2>. QED  BY <1>4
<1>6. ASSUME NEW i \in D, NEW f \in [D -> S], NEW g \in [D -> S],
             \A y \in D : size[y] < size[i] => f[y] = g[y]
      PROVE  Step[<<i, f>>] = Step[<<i, g>>]
  <2>1. Step[<<i, f>>] = Flattening(ss, f)[i] /\ Step[<<i, g>>] = Flattening(ss, g)[i]
    OBVIOUS
  <2>2. CASE i = 1
    BY <1>4, <2>1, <2>2
  <2>3. CASE i # 1
    <3>1. f[i - 1] = g[i - 1]
      BY <1>3, <1>6, <2>3
    <3>2. Flattening(ss, f)[i] = f[i - 1] \o ss[i] /\ Flattening(ss, g)[i] = g[i - 1] \o ss[i]
      BY <1>4, <2>3
    <3> HIDE DEF Step, S, D
    <3>. QED  BY <2>1, <3>1, <3>2
  <2>. QED  BY <2>2, <2>3
<1>7. PICK g \in [D -> S] : \A i \in D : g[i] = Step[<<i, g>>]
  <2> HIDE DEF Step, D, S, size
  <2>1. \A x \in D : \A f, g \in [D -> S] :
            (\A y \in D : size[y] < size[x] => f[y] = g[y]) => Step[<<x, f>>] = Step[<<x, g>>]
    BY <1>6
  <2>2. IsRecursion(D, S, size, n, Step)
    BY <1>1, <1>2, <1>5, <2>1 DEF IsRecursion
  <2>. QED  BY <2>2, RecursiveFunction
<1>8. g = Flattening(ss, g)
  <2>1. \A i \in D : g[i] = Flattening(ss, g)[i]
    BY <1>7
  <2>2. Flattening(ss, g) = [i \in D |-> Flattening(ss, g)[i]]
    BY DEF Flattening, n
  <2>3. g = [i \in D |-> g[i]]
    BY <1>7
  <2> HIDE DEF D
  <2>. QED  BY <2>1, <2>2, <2>3
<1>9. PICK c : c = CHOOSE f : f = Flattening(ss, f)
  OBVIOUS
<1>10. c = Flattening(ss, c)
  BY <1>8, <1>9
<1>11. FlattenSeq(ss) = c[Len(ss)]
  BY <1>9 DEF FlattenSeq, Flattening
<1>. QED  BY <1>10, <1>11

\* It has the members of all of them.
LEMMA Flattened ==
    ASSUME NEW X, NEW ss \in Seq(Seq(X))
    PROVE  FlattenSeq(ss) \in Seq(X) /\ HasAll(FlattenSeq(ss), ss, Len(ss))
<1> DEFINE n == Len(ss)
<1>1. n \in Nat /\ DOMAIN ss = 1..n /\ \A i \in 1..n : ss[i] \in Seq(X)
  OBVIOUS
<1>2. CASE n = 0
  <2>1. ss = <<>> /\ FlattenSeq(ss) = <<>>
    BY <1>2 DEF FlattenSeq
  <2>2. \A x : ~Has(<<>>, x)
    BY DEF Has
  <2>3. Once(<<>>)
    BY DEF Once
  <2>4. \A i : i \notin 1..0
    OBVIOUS
  <2>5. HasAll(<<>>, ss, 0)
    BY <2>2, <2>3, <2>4 DEF HasAll
  <2>6. <<>> \in Seq(X)
    OBVIOUS
  <2>. QED  BY <1>2, <2>1, <2>5, <2>6
<1>3. CASE n # 0
  <2>1. PICK f : f = Flattening(ss, f) /\ FlattenSeq(ss) = f[n]
    BY <1>3, FlattenEquation
  <2> HIDE DEF n
  <2>2. \A i \in 1..n : f[i] = IF i = 1 THEN ss[i] ELSE f[i - 1] \o ss[i]
    BY <2>1 DEF Flattening, n
  <2> DEFINE Good(i) == i + 1 \in 1..n => f[i + 1] \in Seq(X) /\ HasAll(f[i + 1], ss, i + 1)
             P == {i \in Nat : Good(i)}
  <2>3. 0 \in P
    <3>1. 0 + 1 = 1 /\ 1 \in 1..n /\ f[1] = ss[1] /\ f[1] \in Seq(X)
      BY <1>1, <1>3, <2>2
    <3>2. \A x : Has(f[1], x) <=> \E i \in 1..1 : Has(ss[i], x)
      BY <3>1
    <3>3. HasAll(f[1], ss, 1)
      BY <3>1, <3>2 DEF HasAll
    <3>. QED  BY <3>1, <3>3
  <2>4. ASSUME NEW i \in P PROVE i + 1 \in P
    <3>0. i \in Nat /\ i + 1 \in Nat
      OBVIOUS
    <3>1. SUFFICES ASSUME (i + 1) + 1 \in 1..n
                   PROVE  f[(i + 1) + 1] \in Seq(X) /\ HasAll(f[(i + 1) + 1], ss, (i + 1) + 1)
      BY <3>0
    <3> DEFINE k == i + 1
               u == f[k]
               w == ss[k + 1]
    <3>2. k \in Nat /\ k \in 1..n /\ k + 1 \in 1..n /\ k + 1 # 1 /\ (k + 1) - 1 = k
      BY <1>1, <3>0, <3>1
    <3>3. u \in Seq(X) /\ HasAll(u, ss, k)
      BY <2>4, <3>0, <3>2
    <3> HIDE DEF P, k
    <3>4. f[k + 1] = u \o w /\ w \in Seq(X)
      BY <1>1, <2>2, <3>2
    <3> HIDE DEF u, w
    <3>5. /\ u \o w \in Seq(X)
          /\ \A x : Has(u \o w, x) <=> Has(u, x) \/ Has(w, x)
          /\ Once(u) /\ Once(w) /\ (\A x : ~(Has(u, x) /\ Has(w, x))) => Once(u \o w)
      BY <3>3, <3>4, Joined
    <3>6. \A j \in 1..(k + 1) : j \in 1..k \/ j = k + 1
      BY <3>2
    <3>7. \A j \in 1..k : j \in 1..(k + 1) /\ j # k + 1
      BY <3>2
    <3>8. k + 1 \in 1..(k + 1)
      BY <3>2
    <3>9. \A x : Has(u \o w, x) <=> \E j \in 1..(k + 1) : Has(ss[j], x)
      <4>1. \A x : Has(u, x) <=> \E j \in 1..k : Has(ss[j], x)
        BY <3>3 DEF HasAll
      <4>. QED  BY <3>5, <3>6, <3>7, <3>8, <4>1 DEF w
    <3>10. ASSUME \A j \in 1..(k + 1) : Once(ss[j]),
                  \A h, j \in 1..(k + 1) : \A x : Has(ss[h], x) /\ Has(ss[j], x) => h = j
           PROVE  Once(u \o w)
      <4>1. Once(u)
        BY <3>3, <3>7, <3>10 DEF HasAll
      <4>2. Once(w)
        BY <3>8, <3>10 DEF w
      <4>3. \A x : Has(u, x) <=> \E j \in 1..k : Has(ss[j], x)
        BY <3>3 DEF HasAll
      <4>4. \A x : ~(Has(u, x) /\ Has(w, x))
        BY <3>7, <3>8, <3>10, <4>3 DEF w
      <4>. QED  BY <3>5, <4>1, <4>2, <4>4
    <3>11. HasAll(u \o w, ss, k + 1)
      BY <3>9, <3>10 DEF HasAll
    <3>. QED  BY <3>4, <3>5, <3>11 DEF k
  <2>5. P = Nat
    <3> HIDE DEF P
    <3>. QED  BY <2>3, <2>4, Induction DEF P
  <2>6. n - 1 \in P /\ (n - 1) + 1 = n /\ n \in 1..n
    <3>1. n - 1 \in Nat /\ (n - 1) + 1 = n /\ n \in 1..n
      BY <1>1, <1>3
    <3> HIDE DEF P
    <3>. QED  BY <2>5, <3>1
  <2>7. f[n] \in Seq(X) /\ HasAll(f[n], ss, n)
    BY <2>6
  <2>. QED  BY <2>1, <2>7 DEF n
<1>. QED  BY <1>2, <1>3

-----------------------------------------------------------------------------
(***************************************************************************)
(* Gathering.                                                              *)
(***************************************************************************)

\* Members at some places of a sequence that has each of its members once.
LEMMA ThinnedOnce ==
    ASSUME NEW s, NEW places \in SUBSET DOMAIN s, places \subseteq Int, NEW v, Thinned(v, s, places),
           Once(s)
    PROVE  Once(v)
<1>1. PICK n \in Nat : \E at \in [1..n -> places] :
        /\ v = [p \in 1..n |-> s[at[p]]]
        /\ \A p, q \in 1..n : p < q => at[p] < at[q]
  BY DEF Thinned
<1>2. PICK at \in [1..n -> places] :
        /\ v = [p \in 1..n |-> s[at[p]]]
        /\ \A p, q \in 1..n : p < q => at[p] < at[q]
  BY <1>1
<1>3. ASSUME NEW p \in 1..n, NEW q \in 1..n, s[at[p]] = s[at[q]] PROVE p = q
  <2>1. at[p] = at[q] /\ at[p] \in Int
    BY <1>3 DEF Once
  <2>2. ~(p < q) /\ ~(q < p)
    BY <1>2, <2>1
  <2>. QED  BY <2>2
<1>4. DOMAIN v = 1..n /\ \A p \in 1..n : v[p] = s[at[p]]
  BY <1>2
<1>. QED  BY <1>3, <1>4 DEF Once

\* The records of a table in order are all different.
LEMMA RecordsOnce ==
    ASSUME QueryInv, NEW t \in Tables
    PROVE  Once(records[t])
<1> DEFINE s == records[t]
<1>1. DOMAIN s = 1..Len(s) /\ (\A i \in DOMAIN s : s[i] \in Raws(t)) /\ Ascending(t, s)
  BY DEF QueryInv, AllFit
<1> HIDE DEF s
<1>2. ASSUME NEW i \in DOMAIN s, NEW j \in DOMAIN s, s[i] = s[j] PROVE i = j
  <2>1. ~KeyLess(t, s[i], s[j]) /\ ~KeyLess(t, s[j], s[i])
    BY <1>1, <1>2, KeyOrder
  <2>2. ~(i < j) /\ ~(j < i)
    BY <1>1, <2>1 DEF Ascending
  <2>3. i \in Int /\ j \in Int
    BY <1>1
  <2>. QED  BY <2>2, <2>3
<1>. QED  BY <1>2 DEF Once, s

\* A tuple of the first tables that the terms up to their level accept.
Accepting(q, n, x) ==
    /\ IsTuple(q, n, x)
    /\ \A i \in DOMAIN q.where : Level(q.where[i]) <= n => TermMatches(q, q.where[i], x)

\* A tuple starts with another one.
Begins(y, x, n) == \A l \in 1..n : y[l] = x[l]

\* The tuples that a level adds to one.
LEMMA ExtendedAccepting ==
    ASSUME QueryInv, NEW q, IsStatement(q), NEW n \in Nat, NEW x, Accepting(q, n, x), n < Len(q.from)
    PROVE  /\ Extended(q, x) \in Seq(Seq(Recs)) /\ Once(Extended(q, x))
           /\ \A y : Has(Extended(q, x), y) <=> Accepting(q, n + 1, y) /\ Begins(y, x, n)
<1> DEFINE t == q.from[n + 1]
           recs == records[t]
           longer == [i \in DOMAIN recs |-> Append(x, recs[i])]
           w == Window(q, n + 1, x)
           places == {i \in (w[1] + 1)..w[2] : Passes(q, longer[i])}
           v == Picked(longer, places)
<1>1. IsTuple(q, n, x) /\ x \in Seq(Recs) /\ Len(x) = n
  BY DEF Accepting, IsTuple
<1>2. n + 1 \in 1..Len(q.from) /\ t \in Tables
  <2>1. n + 1 \in 1..Len(q.from)
    BY Statement
  <2>. QED  BY <2>1, Statement
<1>3. recs \in Seq(Raws(t)) /\ DOMAIN recs = 1..Len(recs) /\ Len(recs) \in Nat
      /\ \A i \in DOMAIN recs : recs[i] \in Raws(t) /\ recs[i] \in Recs
  <2>1. recs \in Seq(Raws(t))
    BY <1>2 DEF QueryInv, AllFit
  <2> HIDE DEF recs
  <2>. QED  BY <1>2, <2>1 DEF Recs
<1>4. Extended(q, x) = v
  BY <1>1 DEF Extended
<1>5. /\ w[1] \in 0..Len(recs) /\ w[2] \in w[1]..Len(recs)
      /\ \A k \in DOMAIN recs : Passes(q, Append(x, recs[k])) => k \in (w[1] + 1)..w[2]
  BY <1>1, WindowFinds
<1> HIDE DEF w
<1>6. \A k \in DOMAIN recs : IsTuple(q, n + 1, Append(x, recs[k])) /\ Continues(Append(x, recs[k]), x, n, recs[k])
  BY <1>1, AppendTuple
<1> HIDE DEF recs
<1>7. \A k \in DOMAIN recs : /\ IsTuple(q, n + 1, longer[k]) /\ longer[k][n + 1] = recs[k]
                             /\ Begins(longer[k], x, n)
  BY <1>6 DEF Continues, Begins
<1>8. longer \in Seq(Seq(Recs)) /\ DOMAIN longer = DOMAIN recs
  <2>1. \A i \in DOMAIN recs : Append(x, recs[i]) \in Seq(Recs)
    BY <1>1, <1>3
  <2>2. longer \in [1..Len(recs) -> Seq(Recs)]
    BY <1>3, <2>1
  <2>. QED  BY <1>3, <2>2, SeqDef
<1>9. places \in SUBSET DOMAIN longer
      /\ \A k \in DOMAIN recs : k \in places <=> Passes(q, longer[k])
  <2>1. \A i \in (w[1] + 1)..w[2] : i \in 1..Len(recs)
    <3>1. w[1] \in Nat /\ w[2] <= Len(recs) /\ w[2] \in Nat
      BY <1>3, <1>5
    <3>. QED  BY <1>3, <3>1
  <2>. QED  BY <1>3, <1>5, <1>8, <2>1
<1> HIDE DEF longer, places
<1>10. Thinned(v, longer, places)
  BY <1>8, <1>9, PickedThinned
<1>11. v \in Seq(Seq(Recs)) /\ Shares(v, longer, places)
  <2> HIDE DEF v
  <2>. QED  BY <1>8, <1>9, <1>10, ThinnedSequence
<1>12. Once(v)
  <2>1. Once(longer)
    <3>1. Once(recs)
      BY <1>2, RecordsOnce DEF recs
    <3>. QED  BY <1>7, <1>8, <3>1 DEF Once
  <2>2. places \subseteq Int
    BY <1>3, <1>8, <1>9
  <2> HIDE DEF v
  <2>. QED  BY <1>8, <1>9, <1>10, <2>1, <2>2, ThinnedOnce
<1> HIDE DEF v
<1>13. ASSUME NEW y, IsTuple(q, n + 1, y), Begins(y, x, n)
       PROVE  Accepting(q, n + 1, y) <=> Passes(q, y)
  <2>1. Len(y) = n + 1
    BY <1>13 DEF IsTuple
  <2>2. ASSUME NEW i \in DOMAIN q.where, Level(q.where[i]) <= n PROVE TermMatches(q, q.where[i], y)
    <3>1. TermMatches(q, q.where[i], x)
      BY <2>2 DEF Accepting
    <3>2. Level(q.where[i]) \in Nat
      <4>1. Level(q.where[i]) \in 1..Len(q.from)
        BY TermLevel
      <4> HIDE DEF Level
      <4>. QED  BY <4>1
    <3>3. \A l \in 1..Level(q.where[i]) : y[l] = x[l]
      <4> DEFINE m == Level(q.where[i])
      <4> HIDE DEF m
      <4>1. m \in Nat /\ m <= n
        BY <2>2, <3>2 DEF m
      <4>2. \A l \in 1..m : l \in 1..n
        BY <4>1
      <4>. QED  BY <1>13, <4>2 DEF Begins, m
    <3>. QED  BY <3>1, <3>3, TermAgrees
  <2>3. ASSUME NEW i \in DOMAIN q.where
        PROVE  Level(q.where[i]) <= n + 1 <=> Level(q.where[i]) <= n \/ i \in TermsAt(q, n + 1)
    <3> DEFINE m == Level(q.where[i])
    <3>1. m \in 1..Len(q.from)
      BY TermLevel
    <3>2. i \in TermsAt(q, n + 1) <=> m = n + 1
      BY DEF TermsAt
    <3> HIDE DEF m
    <3>3. m <= n + 1 <=> m <= n \/ m = n + 1
      BY <3>1
    <3>. QED  BY <3>2, <3>3 DEF m
  <2>4. Passes(q, y) <=> \A i \in TermsAt(q, n + 1) : TermMatches(q, q.where[i], y)
    BY <2>1 DEF Passes
  <2>5. TermsAt(q, n + 1) \subseteq DOMAIN q.where
    BY DEF TermsAt
  <2>. QED  BY <1>13, <2>2, <2>3, <2>4, <2>5 DEF Accepting
<1>14. ASSUME NEW y PROVE Has(v, y) <=> Accepting(q, n + 1, y) /\ Begins(y, x, n)
  <2>1. ASSUME Has(v, y) PROVE Accepting(q, n + 1, y) /\ Begins(y, x, n)
    <3>1. PICK k \in places : y = longer[k]
      BY <1>11, <2>1 DEF Has, Shares
    <3>2. k \in DOMAIN recs /\ Passes(q, longer[k])
      BY <1>8, <1>9, <3>1
    <3>3. IsTuple(q, n + 1, y) /\ Begins(y, x, n) /\ Passes(q, y)
      BY <1>7, <3>1, <3>2
    <3>. QED  BY <1>13, <3>3
  <2>2. ASSUME Accepting(q, n + 1, y), Begins(y, x, n) PROVE Has(v, y)
    <3>1. IsTuple(q, n + 1, y)
      BY <2>2 DEF Accepting
    <3>2. PICK k \in DOMAIN recs : y[n + 1] = recs[k]
      <4>1. n + 1 \in 1..(n + 1)
        OBVIOUS
      <4>. QED  BY <3>1, <4>1 DEF IsTuple, recs
    <3>3. y = longer[k]
      <4>1. y \in Seq(Recs) /\ Len(y) = n + 1 /\ longer[k] \in Seq(Recs) /\ Len(longer[k]) = n + 1
        BY <1>7, <3>1 DEF IsTuple
      <4>2. \A l \in 1..(n + 1) : l \in 1..n \/ l = n + 1
        OBVIOUS
      <4>3. \A l \in 1..(n + 1) : y[l] = longer[k][l]
        BY <1>7, <2>2, <3>2, <4>2 DEF Begins
      <4>4. \A a, b \in Seq(Recs) : Len(a) = Len(b) /\ (\A l \in 1..Len(a) : a[l] = b[l]) => a = b
        OBVIOUS
      <4>. QED  BY <4>1, <4>3, <4>4
    <3>4. Passes(q, y)
      BY <1>13, <2>2, <3>1
    <3>5. k \in places
      BY <1>9, <3>3, <3>4
    <3>. QED  BY <1>11, <3>3, <3>5 DEF Has, Shares
  <2>. QED  BY <2>1, <2>2
<1>. QED  BY <1>4, <1>11, <1>12, <1>14

\* The tuples of the first n tables that the terms up to their level accept.
Gathered(q, n, v) ==
    /\ v \in Seq(Seq(Recs)) /\ Once(v)
    /\ \A x : Has(v, x) <=> Accepting(q, n, x)

\* What a level makes of the tuples of the one above.
Longer(q, v) == FlattenSeq([i \in DOMAIN v |-> Extended(q, v[i])])

\* Before the first level there is the empty tuple.
LEMMA GatherStart ==
    ASSUME NEW q, IsStatement(q)
    PROVE  Gathered(q, 0, << <<>> >>)
<1>1. << <<>> >> \in Seq(Seq(Recs)) /\ Once(<< <<>> >>)
  <2>1. <<>> \in Seq(Recs)
    OBVIOUS
  <2>2. << <<>> >> \in Seq(Seq(Recs))
    BY <2>1
  <2>. QED  BY <2>2 DEF Once
<1>2. Accepting(q, 0, <<>>)
  <2>1. IsTuple(q, 0, <<>>)
    BY EmptyTuple
  <2>2. ASSUME NEW i \in DOMAIN q.where PROVE ~(Level(q.where[i]) <= 0)
    <3> DEFINE m == Level(q.where[i])
    <3>1. m \in 1..Len(q.from)
      BY TermLevel
    <3> HIDE DEF m
    <3>2. ~(m <= 0)
      BY <3>1
    <3>. QED  BY <3>2 DEF m
  <2>. QED  BY <2>1, <2>2 DEF Accepting
<1>3. ASSUME NEW x, Accepting(q, 0, x) PROVE x = <<>>
  <2>1. x \in Seq(Recs) /\ Len(x) = 0
    BY <1>3 DEF Accepting, IsTuple
  <2>. QED  BY <2>1
<1>4. \A x : Has(<< <<>> >>, x) <=> x = <<>>
  BY DEF Has
<1>. QED  BY <1>1, <1>2, <1>3, <1>4 DEF Gathered

\* Each level adds its records to the tuples of the level above.
LEMMA GatherStep ==
    ASSUME QueryInv, NEW q, IsStatement(q), NEW n \in Nat, n < Len(q.from), NEW v, Gathered(q, n, v)
    PROVE  Gathered(q, n + 1, Longer(q, v))
<1> DEFINE ss == [i \in DOMAIN v |-> Extended(q, v[i])]
           m == Len(v)
<1>1. m \in Nat /\ DOMAIN v = 1..m
  <2>1. v \in Seq(Seq(Recs))
    BY DEF Gathered
  <2>. QED  BY <2>1
<1>2. \A i \in 1..m : Accepting(q, n, v[i])
  BY <1>1 DEF Gathered, Has
<1>3. ASSUME NEW i \in 1..m
      PROVE  /\ ss[i] \in Seq(Seq(Recs)) /\ Once(ss[i])
             /\ \A y : Has(ss[i], y) <=> Accepting(q, n + 1, y) /\ Begins(y, v[i], n)
  <2>1. ss[i] = Extended(q, v[i])
    BY <1>1
  <2> HIDE DEF ss
  <2>. QED  BY <1>2, <2>1, ExtendedAccepting
<1>4. ss \in Seq(Seq(Seq(Recs))) /\ Len(ss) = m
  <2> DEFINE X == Seq(Seq(Recs))
  <2>1. \A i \in 1..m : Extended(q, v[i]) \in X
    BY <1>1, <1>3
  <2> HIDE DEF X, m
  <2>2. ss \in [1..m -> X]
    BY <1>1, <2>1
  <2>3. ss \in Seq(X) /\ Len(ss) = m
    <3> HIDE DEF ss
    <3>. QED  BY <1>1, <2>2, SeqDef
  <2>. QED  BY <2>3 DEF X
<1> HIDE DEF ss, m
<1>5. FlattenSeq(ss) \in Seq(Seq(Recs)) /\ HasAll(FlattenSeq(ss), ss, m)
  BY <1>4, Flattened
<1>6. ASSUME NEW i \in 1..m, NEW j \in 1..m, NEW y, Has(ss[i], y), Has(ss[j], y) PROVE i = j
  <2>1. Begins(y, v[i], n) /\ Begins(y, v[j], n)
    BY <1>3, <1>6
  <2>2. /\ v[i] \in Seq(Recs) /\ Len(v[i]) = n
        /\ v[j] \in Seq(Recs) /\ Len(v[j]) = n
    BY <1>2 DEF Accepting, IsTuple
  <2>3. \A l \in 1..n : v[i][l] = v[j][l]
    BY <2>1 DEF Begins
  <2>4. \A a, b \in Seq(Recs) : Len(a) = Len(b) /\ (\A l \in 1..Len(a) : a[l] = b[l]) => a = b
    OBVIOUS
  <2>5. v[i] = v[j]
    BY <2>2, <2>3, <2>4
  <2>. QED  BY <1>1, <2>5 DEF Gathered, Once
<1>7. Once(FlattenSeq(ss))
  <2>1. \A i \in 1..m : Once(ss[i])
    BY <1>3
  <2>2. \A i, j \in 1..m : \A x : Has(ss[i], x) /\ Has(ss[j], x) => i = j
    BY <1>6
  <2>. QED  BY <1>5, <2>1, <2>2 DEF HasAll
<1>8. ASSUME NEW y, Accepting(q, n + 1, y) PROVE \E i \in 1..m : Begins(y, v[i], n)
  <2> DEFINE x == SubSeq(y, 1, n)
  <2>1. IsTuple(q, n + 1, y)
    BY <1>8 DEF Accepting
  <2>2. y \in Seq(Recs) /\ Len(y) = n + 1 /\ n + 1 \in 0..Len(q.from)
    BY <2>1 DEF IsTuple
  <2>3. x \in Seq(Recs) /\ Len(x) = n /\ \A l \in 1..n : x[l] = y[l]
    BY <2>2
  <2> HIDE DEF x
  <2>4. IsTuple(q, n, x)
    <3>1. \A l \in 1..n : l \in 1..(n + 1)
      OBVIOUS
    <3>2. n \in 0..Len(q.from)
      BY Statement
    <3>3. \A l \in 1..(n + 1) : \E k \in DOMAIN records[q.from[l]] : y[l] = records[q.from[l]][k]
      BY <2>1 DEF IsTuple
    <3>. QED  BY <2>3, <3>1, <3>2, <3>3 DEF IsTuple
  <2>5. ASSUME NEW i \in DOMAIN q.where, Level(q.where[i]) <= n PROVE TermMatches(q, q.where[i], x)
    <3> DEFINE k == Level(q.where[i])
    <3>1. k \in 1..Len(q.from)
      BY TermLevel
    <3>2. k <= n
      BY <2>5
    <3> HIDE DEF k
    <3>3. k <= n + 1 /\ \A l \in 1..k : l \in 1..n
      BY <3>1, <3>2
    <3>4. \A l \in 1..Level(q.where[i]) : y[l] = x[l]
      BY <2>3, <3>3 DEF k
    <3>5. TermMatches(q, q.where[i], y)
      BY <1>8, <3>3 DEF Accepting, k
    <3>. QED  BY <3>4, <3>5, TermAgrees
  <2>6. Accepting(q, n, x)
    BY <2>4, <2>5 DEF Accepting
  <2>7. PICK i \in 1..m : v[i] = x
    BY <1>1, <2>6 DEF Gathered, Has
  <2>. QED  BY <2>3, <2>7 DEF Begins
<1>9. ASSUME NEW y PROVE Has(FlattenSeq(ss), y) <=> Accepting(q, n + 1, y)
  <2>1. Has(FlattenSeq(ss), y) <=> \E i \in 1..m : Has(ss[i], y)
    BY <1>5 DEF HasAll
  <2>. QED  BY <1>3, <1>8, <2>1
<1>10. Longer(q, v) = FlattenSeq(ss)
  BY DEF Longer, ss
<1>. QED  BY <1>5, <1>7, <1>9, <1>10 DEF Gathered

\* The levels of a statement.
Levels(q, f) ==
    [level \in 0..Len(q.from) |-> IF level = 0 THEN << <<>> >> ELSE Longer(q, f[level - 1])]

\* There are tuples for all levels.
LEMMA GatherEquation ==
    ASSUME QueryInv, NEW q, IsStatement(q)
    PROVE  \E f : f = Levels(q, f) /\ Gather(q) = f[Len(q.from)]
<1> DEFINE n == Len(q.from)
           D == 0..n
           S == Seq(Seq(Recs))
           size == [l \in D |-> l]
           Stage(l, f) == IF l = 0 THEN << <<>> >> ELSE Longer(q, f[l - 1])
           Step == [p \in D \X [D -> S] |-> IF Stage(p[1], p[2]) \in S THEN Stage(p[1], p[2]) ELSE <<>>]
<1>1. n \in Nat /\ S # {} /\ size \in [D -> 0..n] /\ <<>> \in S
  <2>1. n \in Nat
    BY Statement
  <2>2. <<>> \in S
    OBVIOUS
  <2>. QED  BY <2>1, <2>2
<1> HIDE DEF n, S
<1>2. Step \in [D \X [D -> S] -> S]
  <2> HIDE DEF Stage
  <2>. QED  BY <1>1
<1>3. ASSUME NEW l \in D, NEW f \in [D -> S], NEW g \in [D -> S],
             \A y \in D : size[y] < size[l] => f[y] = g[y]
      PROVE  Step[<<l, f>>] = Step[<<l, g>>]
  <2>1. Stage(l, f) = Stage(l, g)
    <3>1. CASE l = 0
      BY <3>1
    <3>2. CASE l # 0
      <4>1. l - 1 \in D /\ size[l - 1] < size[l]
        BY <1>1, <3>2
      <4>2. f[l - 1] = g[l - 1]
        BY <1>3, <4>1
      <4>. QED  BY <3>2, <4>2
    <3>. QED  BY <3>1, <3>2
  <2>2. /\ Step[<<l, f>>] = IF Stage(l, f) \in S THEN Stage(l, f) ELSE <<>>
        /\ Step[<<l, g>>] = IF Stage(l, g) \in S THEN Stage(l, g) ELSE <<>>
    <3> HIDE DEF Stage
    <3>. QED  OBVIOUS
  <2> HIDE DEF Stage, Step
  <2>. QED  BY <2>1, <2>2
<1>4. PICK g \in [D -> S] : \A l \in D : g[l] = Step[<<l, g>>]
  <2> HIDE DEF Step, D, size
  <2>1. \A x \in D : \A f, g \in [D -> S] :
            (\A y \in D : size[y] < size[x] => f[y] = g[y]) => Step[<<x, f>>] = Step[<<x, g>>]
    BY <1>3
  <2>2. IsRecursion(D, S, size, n, Step)
    BY <1>1, <1>2, <2>1 DEF IsRecursion
  <2>. QED  BY <2>2, RecursiveFunction
<1>5. \A l \in D : g[l] = IF Stage(l, g) \in S THEN Stage(l, g) ELSE <<>>
  <2> HIDE DEF Stage
  <2>. QED  BY <1>4
<1>5a. \A l \in D : l # 0 => Stage(l, g) = Longer(q, g[l - 1])
  OBVIOUS
<1>5b. Stage(0, g) = << <<>> >>
  OBVIOUS
<1> HIDE DEF Stage, Step
<1>6. \A l \in D : Gathered(q, l, g[l]) /\ Stage(l, g) \in S
  <2> DEFINE Good(l) == l <= n => Gathered(q, l, g[l]) /\ Stage(l, g) \in S
             P == {l \in Nat : Good(l)}
  <2>1. 0 \in P
    <3>1. Gathered(q, 0, << <<>> >>)
      BY GatherStart
    <3>2. << <<>> >> \in S
      BY <3>1 DEF Gathered, S
    <3>3. g[0] = << <<>> >>
      BY <1>1, <1>5, <1>5b, <3>2
    <3>. QED  BY <1>5b, <3>1, <3>2, <3>3
  <2>2. ASSUME NEW l \in P PROVE l + 1 \in P
    <3>1. l \in Nat /\ Good(l)
      OBVIOUS
    <3>2. SUFFICES ASSUME l + 1 <= n PROVE Gathered(q, l + 1, g[l + 1]) /\ Stage(l + 1, g) \in S
      BY <3>1
    <3>3. l < n /\ l <= n /\ l + 1 # 0 /\ (l + 1) - 1 = l /\ l + 1 \in D
      BY <1>1, <3>1, <3>2
    <3>4. Gathered(q, l + 1, Longer(q, g[l]))
      BY <3>1, <3>3, GatherStep DEF n
    <3>5. Stage(l + 1, g) = Longer(q, g[l])
      BY <1>5a, <3>3
    <3>6. Stage(l + 1, g) \in S
      BY <3>4, <3>5 DEF Gathered, S
    <3>7. g[l + 1] = Stage(l + 1, g)
      BY <1>5, <3>3, <3>6
    <3>. QED  BY <3>4, <3>5, <3>6, <3>7
  <2>3. P = Nat
    <3> HIDE DEF P
    <3>. QED  BY <2>1, <2>2, Induction DEF P
  <2>4. \A l \in D : l \in P /\ l <= n
    <3>1. \A l \in D : l \in Nat /\ l <= n
      BY <1>1
    <3> HIDE DEF P
    <3>. QED  BY <2>3, <3>1
  <2>. QED  BY <2>4
<1>7. g = Levels(q, g)
  <2>1. \A l \in D : g[l] = IF l = 0 THEN << <<>> >> ELSE Longer(q, g[l - 1])
    BY <1>5, <1>5a, <1>5b, <1>6
  <2>2. g = [l \in D |-> g[l]]
    BY <1>4
  <2>3. Levels(q, g) = [l \in D |-> IF l = 0 THEN << <<>> >> ELSE Longer(q, g[l - 1])]
    BY DEF Levels, n
  <2> HIDE DEF D
  <2>. QED  BY <2>1, <2>2, <2>3
<1>8. PICK c : c = CHOOSE f : f = Levels(q, f)
  OBVIOUS
<1>9. c = Levels(q, c)
  BY <1>7, <1>8
<1>10. Gather(q) = c[Len(q.from)]
  BY <1>8 DEF Gather, Levels, Longer
<1>. QED  BY <1>9, <1>10

\* SELECT, DELETE and UPDATE gather each tuple that the WHERE clause accepts, once.
LEMMA GatherAccepts ==
    ASSUME QueryInv, NEW q, IsStatement(q)
    PROVE  Gathered(q, Len(q.from), Gather(q))
<1> DEFINE n == Len(q.from)
<1>1. PICK f : f = Levels(q, f) /\ Gather(q) = f[n]
  BY GatherEquation
<1>2. \A l \in 0..n : f[l] = IF l = 0 THEN << <<>> >> ELSE Longer(q, f[l - 1])
  BY <1>1 DEF Levels
<1>3. n \in Nat
  BY Statement
<1> HIDE DEF n
<1> DEFINE P == {l \in Nat : l <= n => Gathered(q, l, f[l])}
<1>4. 0 \in P
  BY <1>2, <1>3, GatherStart
<1>5. ASSUME NEW l \in P PROVE l + 1 \in P
  <2>1. l \in Nat /\ (l <= n => Gathered(q, l, f[l]))
    OBVIOUS
  <2>2. SUFFICES ASSUME l + 1 <= n PROVE Gathered(q, l + 1, f[l + 1])
    BY <2>1
  <2>3. l < n /\ l <= n /\ l + 1 # 0 /\ (l + 1) - 1 = l /\ l + 1 \in 0..n
    BY <1>3, <2>1, <2>2
  <2>4. Gathered(q, l + 1, Longer(q, f[l]))
    BY <2>1, <2>3, GatherStep DEF n
  <2>. QED  BY <1>2, <2>3, <2>4
<1>6. P = Nat
  <2> HIDE DEF P
  <2>. QED  BY <1>4, <1>5, Induction DEF P
<1>7. n \in P
  <2> HIDE DEF P
  <2>. QED  BY <1>3, <1>6
<1>. QED  BY <1>1, <1>3, <1>7 DEF n

-----------------------------------------------------------------------------
(***************************************************************************)
(* What cells mean.                                                        *)
(***************************************************************************)

\* The meaning of a cell, of a record, and of a tuple, for a pool f.
Means(f, c, raw) ==
    IF raw = 0 THEN Null
    ELSE IF c.type = "integer" THEN DecodeInt(raw, c.size)
    ELSE CHOOSE s \in Strings : f[s] = raw

RowOf(f, t, rec) == [i \in DOMAIN rec |-> Means(f, Schema[t][i], rec[i])]

RowsOf(q, x) == [n \in DOMAIN q.from |-> RowOf(ids, q.from[n], x[n])]

\* A cell means NULL, an integer, or the string that has its ID.
LEMMA CellMeans ==
    ASSUME NEW f, Pool(f), NEW c, IsColumn(c), NEW raw \in CellsOf(f, c)
    PROVE  /\ raw \in Nat
           /\ raw = 0 <=> Means(f, c, raw) = Null
           /\ raw # 0 /\ c.type = "integer" =>
                Means(f, c, raw) \in Int /\ Means(f, c, raw) = raw - SignBit[c.size]
           /\ raw # 0 /\ c.type # "integer" =>
                Means(f, c, raw) \in Strings /\ f[Means(f, c, raw)] = raw
<1>0. Null \notin Strings /\ Null \notin Int
  BY QueryAssumption
<1>1. CASE c.type = "integer"
  <2>1. SignBit[c.size] \in Nat \ {0}
    BY <1>1, QueryAssumption DEF IsColumn
  <2>2. raw \in Nat
    BY <1>1, <2>1 DEF CellsOf
  <2>3. raw # 0 => Means(f, c, raw) = raw - SignBit[c.size]
    BY <1>1 DEF Means, DecodeInt
  <2>4. raw = 0 => Means(f, c, raw) = Null
    BY DEF Means
  <2>5. raw - SignBit[c.size] \in Int
    BY <2>1, <2>2
  <2>. QED  BY <1>0, <1>1, <2>2, <2>3, <2>4, <2>5
<1>2. CASE c.type # "integer"
  <2>1. raw = 0 \/ \E s \in Strings : f[s] = raw
    BY <1>2 DEF CellsOf
  <2>2. raw \in Nat
    BY <2>1, QueryAssumption DEF Pool
  <2>3. raw = 0 => Means(f, c, raw) = Null
    BY DEF Means
  <2>4. raw # 0 => Means(f, c, raw) = CHOOSE s \in Strings : f[s] = raw
    BY <1>2 DEF Means
  <2>5. raw # 0 => Means(f, c, raw) \in Strings /\ f[Means(f, c, raw)] = raw
    BY <2>1, <2>4
  <2>. QED  BY <1>0, <1>2, <2>2, <2>3, <2>5
<1>. QED  BY <1>1, <1>2

\* The cell that a value is stored as means that value.
LEMMA RawMeans ==
    ASSUME NEW f, Pool(f), NEW c, IsColumn(c), NEW v \in Values(c), v \in Strings => f[v] # 0
    PROVE  Means(f, c, Raw(f, c, v)) = v
<1>0. Null \notin Strings /\ Null \notin Int
  BY QueryAssumption
<1>1. CASE v = Null
  BY <1>1 DEF Raw, Means
<1>2. CASE v # Null /\ c.type = "integer"
  <2>1. c.size \in {2, 4} /\ v \in (1 - SignBit[c.size])..(SignBit[c.size] - 1)
    BY <1>2 DEF Values, IsColumn
  <2>2. EncodeInt(v, c.size) \in 1..(2 * SignBit[c.size] - 1) /\ DecodeInt(EncodeInt(v, c.size), c.size) = v
    BY <2>1, EncodeDecode
  <2>3. EncodeInt(v, c.size) # 0
    <3> DEFINE e == EncodeInt(v, c.size)
               m == 2 * SignBit[c.size] - 1
    <3>1. e \in 1..m
      BY <2>2
    <3> HIDE DEF e, m
    <3>2. e # 0
      BY <3>1
    <3>. QED  BY <3>2 DEF e
  <2>. QED  BY <1>2, <2>2, <2>3 DEF Raw, Means
<1>3. CASE v # Null /\ c.type # "integer"
  <2>1. v \in Strings /\ f[v] # 0
    BY <1>3 DEF Values
  <2>2. Raw(f, c, v) = f[v]
    BY <1>3 DEF Raw
  <2>3. f[v] \in CellsOf(f, c)
    BY <1>3, <2>1 DEF CellsOf
  <2>4. Means(f, c, f[v]) \in Strings /\ f[Means(f, c, f[v])] = f[v]
    BY <1>3, <2>1, <2>3, CellMeans
  <2>. QED  BY <2>1, <2>2, <2>4 DEF Pool
<1>. QED  BY <1>1, <1>2, <1>3

\* Cells of columns of one type mean the same exactly if their ordinals are equal.
LEMMA OrdinalMeans ==
    ASSUME NEW f, Pool(f), NEW c, IsColumn(c), NEW d, IsColumn(d), c.type = d.type,
           NEW a \in CellsOf(f, c), NEW b \in CellsOf(f, d)
    PROVE  Means(f, c, a) = Means(f, d, b) <=> Ordinal(c, a) = Ordinal(d, b)
<1>1. a \in Nat /\ b \in Nat
  BY CellMeans
<1>2. CASE c.type = "integer"
  <2> DEFINE S == SignBit[c.size]
             R == SignBit[d.size]
             L == SignBit[4]
  <2>1. S \in Nat \ {0} /\ R \in Nat \ {0} /\ L \in Nat \ {0} /\ S <= L /\ R <= L
    BY <1>2, QueryAssumption DEF IsColumn
  <2>2. /\ Ordinal(c, a) = IF a = 0 THEN -L ELSE a - S
        /\ Ordinal(d, b) = IF b = 0 THEN -L ELSE b - R
    BY <1>2 DEF Ordinal, DecodeInt
  <2>3. /\ a = 0 <=> Means(f, c, a) = Null
        /\ b = 0 <=> Means(f, d, b) = Null
        /\ a # 0 => Means(f, c, a) = a - S
        /\ b # 0 => Means(f, d, b) = b - R
    <3>1. d.type = "integer"
      BY <1>2
    <3>2. (a = 0 <=> Means(f, c, a) = Null) /\ (a # 0 => Means(f, c, a) = a - S)
      BY <1>2, CellMeans
    <3>3. (b = 0 <=> Means(f, d, b) = Null) /\ (b # 0 => Means(f, d, b) = b - R)
      BY <3>1, CellMeans
    <3>. QED  BY <3>2, <3>3
  <2> HIDE DEF S, R, L
  <2>4. CASE a = 0 /\ b = 0
    BY <2>2, <2>3, <2>4
  <2>5. CASE a = 0 /\ b # 0
    <3>1. b - R # -L
      BY <1>1, <2>1, <2>5
    <3>. QED  BY <2>2, <2>3, <2>5, <3>1
  <2>6. CASE a # 0 /\ b = 0
    <3>1. a - S # -L
      BY <1>1, <2>1, <2>6
    <3>. QED  BY <2>2, <2>3, <2>6, <3>1
  <2>7. CASE a # 0 /\ b # 0
    BY <2>2, <2>3, <2>7
  <2>. QED  BY <2>4, <2>5, <2>6, <2>7
<1>3. CASE c.type # "integer"
  <2>1. Ordinal(c, a) = a /\ Ordinal(d, b) = b
    BY <1>3 DEF Ordinal
  <2>2. a = b => Means(f, c, a) = Means(f, d, b)
    BY <1>3 DEF Means
  <2>3. ASSUME Means(f, c, a) = Means(f, d, b) PROVE a = b
    <3>1. /\ a = 0 <=> Means(f, c, a) = Null
          /\ b = 0 <=> Means(f, d, b) = Null
          /\ a # 0 => f[Means(f, c, a)] = a
          /\ b # 0 => f[Means(f, d, b)] = b
      BY <1>3, CellMeans
    <3>. QED  BY <2>3, <3>1
  <2>. QED  BY <2>1, <2>2, <2>3
<1>. QED  BY <1>2, <1>3

\* A cell keeps its meaning while its string keeps its ID.
LEMMA MeansStable ==
    ASSUME NEW f, Pool(f), NEW g, Pool(g), NEW c, IsColumn(c), NEW raw \in CellsOf(f, c),
           c.type # "integer" /\ raw # 0 => \A s \in Strings : f[s] = raw => g[s] = raw
    PROVE  Means(g, c, raw) = Means(f, c, raw)
<1>1. CASE raw = 0 \/ c.type = "integer"
  BY <1>1 DEF Means
<1>2. CASE raw # 0 /\ c.type # "integer"
  <2>1. Means(f, c, raw) \in Strings /\ f[Means(f, c, raw)] = raw
    BY <1>2, CellMeans
  <2>2. g[Means(f, c, raw)] = raw
    BY <1>2, <2>1
  <2>3. raw \in CellsOf(g, c)
    BY <1>2, <2>1, <2>2 DEF CellsOf
  <2>4. Means(g, c, raw) \in Strings /\ g[Means(g, c, raw)] = raw
    BY <1>2, <2>3, CellMeans
  <2>. QED  BY <1>2, <2>1, <2>2, <2>4 DEF Pool
<1>. QED  BY <1>1, <1>2

\* Records that fit have the columns of their table.
LEMMA FitsCells ==
    ASSUME NEW f, NEW t \in Tables, NEW rec, Fits(f, t, rec)
    PROVE  /\ rec \in [DOMAIN Schema[t] -> Nat] /\ DOMAIN rec = DOMAIN Schema[t]
           /\ \A i \in DOMAIN Schema[t] :
                rec[i] \in CellsOf(f, Schema[t][i]) /\ IsColumn(Schema[t][i])
BY Columns DEF Fits, Raws, IsColumn

\* Different cells of a column mean different values.
LEMMA MeansDiffer ==
    ASSUME NEW f, Pool(f), NEW c, IsColumn(c), NEW a \in CellsOf(f, c), NEW b \in CellsOf(f, c),
           Means(f, c, a) = Means(f, c, b)
    PROVE  a = b
<1>1. Ordinal(c, a) = Ordinal(c, b) BY OrdinalMeans
<1>2. CASE c.type # "integer" BY <1>1, <1>2 DEF Ordinal
<1>3. CASE c.type = "integer"
  <2> DEFINE S == SignBit[c.size]
  <2>1. /\ a = 0 <=> Means(f, c, a) = Null
        /\ b = 0 <=> Means(f, c, b) = Null
        /\ a # 0 => Means(f, c, a) = a - S
        /\ b # 0 => Means(f, c, b) = b - S
        /\ a \in Nat /\ b \in Nat
    BY <1>3, CellMeans
  <2>2. S \in Nat
    <3>1. c.size \in {2, 4} BY <1>3 DEF IsColumn
    <3>2. QED BY <3>1, QueryAssumption
  <2> HIDE DEF S
  <2>3. CASE a = 0 BY <2>1, <2>3
  <2>4. CASE a # 0
    <3>1. b # 0 BY <2>1, <2>4
    <3>2. a - S = b - S BY <2>1, <2>4, <3>1
    <3>3. QED BY <2>1, <2>2, <3>2
  <2>5. QED BY <2>3, <2>4
<1>4. QED BY <1>2, <1>3

\* Different records mean different rows.
LEMMA RowsDiffer ==
    ASSUME NEW f, Pool(f), NEW t \in Tables, NEW a, Fits(f, t, a), NEW b, Fits(f, t, b),
           RowOf(f, t, a) = RowOf(f, t, b)
    PROVE  a = b
<1>1. /\ a \in [DOMAIN Schema[t] -> Nat] /\ b \in [DOMAIN Schema[t] -> Nat]
      /\ \A i \in DOMAIN Schema[t] : a[i] \in CellsOf(f, Schema[t][i])
            /\ b[i] \in CellsOf(f, Schema[t][i]) /\ IsColumn(Schema[t][i])
  BY FitsCells
<1>2. /\ RowOf(f, t, a) = [i \in DOMAIN Schema[t] |-> Means(f, Schema[t][i], a[i])]
      /\ RowOf(f, t, b) = [i \in DOMAIN Schema[t] |-> Means(f, Schema[t][i], b[i])]
  BY <1>1 DEF RowOf
<1>3. ASSUME NEW i \in DOMAIN Schema[t] PROVE a[i] = b[i]
  <2>1. Means(f, Schema[t][i], a[i]) = Means(f, Schema[t][i], b[i]) BY <1>2
  <2>2. QED BY <1>1, <2>1, MeansDiffer
<1>4. QED BY <1>1, <1>3

-----------------------------------------------------------------------------
(***************************************************************************)
(* WHERE clauses about cells, and about the values they mean.              *)
(***************************************************************************)

\* A tuple of all tables of a statement.
IsFull(q, x) == IsTuple(q, Len(q.from), x)

\* The value of a column of a tuple.
LEMMA ColumnValue ==
    ASSUME QueryInv, NEW q, IsStatement(q), NEW x, IsFull(q, x), NEW col, IsBound(q, col)
    PROVE  /\ Relational!Value(RowsOf(q, x), col) = Means(ids, Column(q, col), Cell(x, col))
           /\ Cell(x, col) \in CellsOf(ids, Column(q, col)) /\ Cell(x, col) \in Nat
           /\ IsColumn(Column(q, col))
<1> DEFINE l == col.table
           t == q.from[l]
<1>1. /\ l \in 1..Len(q.from) /\ t \in Tables /\ col.cell \in DOMAIN Schema[t]
      /\ IsColumn(Column(q, col)) /\ l <= Len(q.from)
  BY BoundColumn
<1>2. Cell(x, col) \in CellsOf(ids, Column(q, col)) /\ Cell(x, col) \in Nat
  BY <1>1, TupleCell DEF IsFull
<1>3. PICK k \in DOMAIN records[t] : x[l] = records[t][k]
  BY <1>1 DEF IsFull, IsTuple
<1>4. Fits(ids, t, x[l])
  BY <1>1, <1>3 DEF QueryInv, AllFit
<1>5. DOMAIN x[l] = DOMAIN Schema[t]
  BY <1>1, <1>4, FitsCells
<1>6. l \in DOMAIN q.from
  BY <1>1, Statement
<1>7. RowsOf(q, x)[l] = RowOf(ids, t, x[l])
  BY <1>6 DEF RowsOf
<1>8. RowOf(ids, t, x[l])[col.cell] = Means(ids, Schema[t][col.cell], x[l][col.cell])
  BY <1>1, <1>5 DEF RowOf
<1>. QED  BY <1>1, <1>2, <1>7, <1>8 DEF Relational!Value, Column, Cell

\* A comparison of cells is a comparison of values.
LEMMA ComparisonHolds ==
    ASSUME QueryInv, NEW q, IsStatement(q), NEW x, IsFull(q, x),
           NEW c, IsCondition(q, c), c.kind = "compare"
    PROVE  Comparison(q, c, x)
             <=> Relational!Compares(c.op, Relational!Value(RowsOf(q, x), c.col), c.value)
<1> DEFINE k == Column(q, c.col)
           raw == Cell(x, c.col)
           a == Relational!Value(RowsOf(q, x), c.col)
           b == c.value
           v == Constant(q, c.col, b)
           ord == Ordinal(k, raw)
<1>0. Null \notin Strings /\ Null \notin Int
  BY QueryAssumption
<1>1. /\ IsBound(q, c.col)
      /\ b \in Values([k EXCEPT !.size = 4])
      /\ \/ c.op \in {"=", "<>"}
         \/ c.op \in {"<", "<=", ">", ">="} /\ k.type = "integer" /\ b # Null
  BY DEF IsCondition
<1>2. a = Means(ids, k, raw) /\ raw \in CellsOf(ids, k) /\ raw \in Nat /\ IsColumn(k)
  BY <1>1, ColumnValue
<1>3. Pool(ids)
  BY DEF QueryInv
<1>4. [k EXCEPT !.size = 4].type = k.type /\ [k EXCEPT !.size = 4].size = 4
  <2> DEFINE R == [type : {"string", "integer"}, size : Nat, key : BOOLEAN]
  <2>1. \A d \in R : [d EXCEPT !.size = 4].type = d.type /\ [d EXCEPT !.size = 4].size = 4
    OBVIOUS
  <2>2. k \in R
    <3>1. c.col.table \in 1..Len(q.from) /\ q.from[c.col.table] \in Tables
          /\ c.col.cell \in DOMAIN Schema[q.from[c.col.table]]
      BY <1>1, BoundColumn
    <3>2. Schema[q.from[c.col.table]] \in Seq(R)
      BY <3>1, Columns
    <3> HIDE DEF R
    <3>3. k = Schema[q.from[c.col.table]][c.col.cell]
      BY DEF Column
    <3> HIDE DEF k
    <3>. QED  BY <3>1, <3>2, <3>3
  <2> HIDE DEF R, k
  <2>. QED  BY <2>1, <2>2
<1>5. CASE k.type # "integer"
  <2>1. c.op \in {"=", "<>"} /\ (b = Null \/ b \in Strings)
    BY <1>1, <1>4, <1>5 DEF Values
  <2>2. (v >= 0 /\ raw = v) <=> a = b
    <3>1. CASE b = Null
      <4>1. v = 0
        BY <1>5, <3>1 DEF Constant, Ordinal
      <4>2. raw = 0 <=> a = Null
        BY <1>2, <1>3, CellMeans
      <4>. QED  BY <3>1, <4>1, <4>2
    <3>2. CASE b \in Strings
      <4>1. ids[b] \in Nat
        BY <1>3, <3>2, QueryAssumption DEF Pool
      <4>2. v = IF ids[b] # 0 THEN ids[b] ELSE -1
        BY <1>0, <1>5, <3>2 DEF Constant
      <4>3. v >= 0 <=> ids[b] # 0
        BY <4>1, <4>2
      <4>4. a = b => raw = ids[b] /\ ids[b] # 0
        <5>1. (raw = 0 <=> a = Null) /\ (raw # 0 => ids[a] = raw)
          BY <1>2, <1>3, <1>5, CellMeans
        <5>. QED  BY <1>0, <3>2, <5>1
      <4>5. ids[b] # 0 /\ raw = ids[b] => a = b
        <5>1. raw # 0 => a \in Strings /\ ids[a] = raw
          BY <1>2, <1>3, <1>5, CellMeans
        <5>. QED  BY <1>3, <3>2, <5>1 DEF Pool
      <4> HIDE DEF v, a
      <4>. QED  BY <4>1, <4>2, <4>3, <4>4, <4>5
    <3>. QED  BY <2>1, <3>1, <3>2
  <2>3. Comparison(q, c, x) <=> ((v >= 0 /\ raw = v) <=> c.op = "=")
    BY <1>5 DEF Comparison
  <2>4. Relational!Compares(c.op, a, b) <=> (c.op = "=" <=> a = b)
    <3>1. CASE c.op = "="
      BY <3>1 DEF Relational!Compares
    <3>2. CASE c.op = "<>"
      BY <3>2 DEF Relational!Compares
    <3>. QED  BY <2>1, <3>1, <3>2
  <2> HIDE DEF v, a, b, raw
  <2>. QED  BY <2>2, <2>3, <2>4 DEF a, b
<1>6. CASE k.type = "integer"
  <2> DEFINE S == SignBit[k.size]
             L == SignBit[4]
  <2>1. S \in Nat \ {0} /\ L \in Nat \ {0} /\ S <= L
    BY <1>2, <1>6, QueryAssumption DEF IsColumn
  <2>2. b = Null \/ b \in (1 - L)..(L - 1)
    BY <1>1, <1>4, <1>6 DEF Values
  <2>3. v = IF b = Null THEN -L ELSE b
    BY <1>6 DEF Constant, Ordinal
  <2>4. ord = IF raw = 0 THEN -L ELSE raw - S
    BY <1>6 DEF Ordinal, DecodeInt
  <2>5. (raw = 0 <=> a = Null) /\ (raw # 0 => a = raw - S /\ a \in Int)
    BY <1>2, <1>3, <1>6, CellMeans
  <2>6. Comparison(q, c, x) <=> (c.op \in {"=", "<>"} \/ raw # 0) /\ CompareInt(ord, v, c.op)
    BY <1>6 DEF Comparison, OrdinalOf
  <2> HIDE DEF a, b, v, ord, raw, S, L, k
  <2>7. ord = v <=> a = b
    <3>1. CASE raw = 0 /\ b = Null
      BY <2>3, <2>4, <2>5, <3>1
    <3>2. CASE raw = 0 /\ b # Null
      <4>1. b # -L
        BY <2>1, <2>2, <3>2
      <4>. QED  BY <2>3, <2>4, <2>5, <3>2, <4>1
    <3>3. CASE raw # 0 /\ b = Null
      <4>1. raw - S # -L
        BY <1>2, <2>1, <3>3
      <4>. QED  BY <2>3, <2>4, <2>5, <3>3, <4>1
    <3>4. CASE raw # 0 /\ b # Null
      BY <2>3, <2>4, <2>5, <3>4
    <3>. QED  BY <3>1, <3>2, <3>3, <3>4
  <2>8. CASE c.op \in {"=", "<>"}
    <3>1. CompareInt(ord, v, c.op) <=> (c.op = "=" <=> ord = v)
      BY <2>8 DEF CompareInt
    <3>2. Relational!Compares(c.op, a, b) <=> (c.op = "=" <=> a = b)
      BY <2>8 DEF Relational!Compares
    <3>. QED  BY <2>6, <2>7, <2>8, <3>1, <3>2 DEF a, b
  <2>9. CASE c.op \in {"<", "<=", ">", ">="} /\ b # Null
    <3>1. CASE raw = 0
      <4>1. a = Null /\ a # b
        BY <2>5, <2>9, <3>1
      <4>2. ~Relational!Compares(c.op, a, b)
        BY <2>9, <4>1 DEF Relational!Compares, Relational!Less
      <4>3. ~(c.op \in {"=", "<>"} \/ raw # 0)
        BY <2>9, <3>1
      <4>. QED  BY <2>6, <4>2, <4>3 DEF a, b
    <3>2. CASE raw # 0
      <4>1. a = ord /\ b = v /\ a # Null /\ a \in Int /\ b \in Int
        BY <2>1, <2>2, <2>3, <2>4, <2>5, <2>9, <3>2
      <4>2. Relational!Less(a, b) <=> a < b
        BY <2>9, <4>1 DEF Relational!Less
      <4>3. Relational!Less(b, a) <=> b < a
        BY <2>9, <4>1 DEF Relational!Less
      <4>4. Relational!Compares(c.op, a, b) <=> CompareInt(a, b, c.op)
        BY <2>9, <4>1, <4>2, <4>3 DEF Relational!Compares, CompareInt
      <4>. QED  BY <2>6, <3>2, <4>1, <4>4 DEF a, b
    <3>. QED  BY <3>1, <3>2
  <2>. QED  BY <1>1, <2>8, <2>9 DEF a, b
<1>. QED  BY <1>5, <1>6

\* What a condition says of cells is what it says of the values.
LEMMA MatchesHolds ==
    ASSUME QueryInv, NEW q, IsStatement(q), NEW x, IsFull(q, x), NEW c, IsCondition(q, c)
    PROVE  Matches(q, c, x) <=> Relational!Holds(c, RowsOf(q, x))
<1> DEFINE y == RowsOf(q, x)
<1>1. CASE c.kind = "isnull"
  <2>1. IsBound(q, c.col) /\ c.not \in BOOLEAN
    BY <1>1 DEF IsCondition
  <2>2. Cell(x, c.col) = 0 <=> Relational!Value(y, c.col) = Null
    BY <2>1, ColumnValue, CellMeans DEF QueryInv
  <2>3. Matches(q, c, x) <=> ~(Cell(x, c.col) = 0 <=> c.not)
    BY <1>1, <2>1 DEF Matches
  <2>4. Relational!Holds(c, y) <=> (Relational!Value(y, c.col) = Null <=> ~c.not)
    BY <1>1, <2>1 DEF Relational!Holds
  <2> HIDE DEF y
  <2>5. c.not = TRUE \/ c.not = FALSE
    BY <2>1
  <2>. QED  BY <2>2, <2>3, <2>4, <2>5 DEF y
<1>2. CASE c.kind = "equal"
  <2>1. IsBound(q, c.left) /\ IsBound(q, c.right) /\ Column(q, c.left).type = Column(q, c.right).type
    BY <1>2 DEF IsCondition
  <2>2. Relational!Value(y, c.left) = Relational!Value(y, c.right)
            <=> OrdinalOf(q, x, c.left) = OrdinalOf(q, x, c.right)
    <3> DEFINE a == Column(q, c.left)
               b == Column(q, c.right)
    <3>1. /\ Relational!Value(y, c.left) = Means(ids, a, Cell(x, c.left))
          /\ Cell(x, c.left) \in CellsOf(ids, a) /\ IsColumn(a)
      BY <2>1, ColumnValue
    <3>2. /\ Relational!Value(y, c.right) = Means(ids, b, Cell(x, c.right))
          /\ Cell(x, c.right) \in CellsOf(ids, b) /\ IsColumn(b)
      BY <2>1, ColumnValue
    <3>3. Pool(ids) /\ a.type = b.type
      BY <2>1 DEF QueryInv
    <3>4. OrdinalOf(q, x, c.left) = Ordinal(a, Cell(x, c.left))
          /\ OrdinalOf(q, x, c.right) = Ordinal(b, Cell(x, c.right))
      BY DEF OrdinalOf
    <3> HIDE DEF a, b, y
    <3>. QED  BY <3>1, <3>2, <3>3, <3>4, OrdinalMeans
  <2>. QED  BY <1>2, <2>2 DEF Matches, Relational!Holds
<1>3. CASE c.kind = "compare"
  <2>1. Comparison(q, c, x) <=> Relational!Compares(c.op, Relational!Value(y, c.col), c.value)
    BY <1>3, ComparisonHolds
  <2>. QED  BY <1>3, <2>1 DEF Matches, Relational!Holds
<1>. QED  BY <1>1, <1>2, <1>3 DEF IsCondition

\* The same of a term.
LEMMA TermHolds ==
    ASSUME QueryInv, NEW q, IsStatement(q), NEW x, IsFull(q, x), NEW i \in DOMAIN q.where
    PROVE  TermMatches(q, q.where[i], x) <=> Relational!TermHolds(q.where[i], RowsOf(q, x))
<1> DEFINE term == q.where[i]
<1>1. \A j \in DOMAIN term : \A k \in DOMAIN term[j] :
        Matches(q, term[j][k], x) <=> Relational!Holds(term[j][k], RowsOf(q, x))
  <2>1. ASSUME NEW j \in DOMAIN term, NEW k \in DOMAIN term[j]
        PROVE  Matches(q, term[j][k], x) <=> Relational!Holds(term[j][k], RowsOf(q, x))
    <3>1. IsCondition(q, term[j][k])
      BY TermLevel
    <3>. QED  BY <3>1, MatchesHolds
  <2>. QED  BY <2>1
<1>. QED  BY <1>1 DEF TermMatches, Relational!TermHolds

\* The rows of a table, for a pool and records.
Meant(f, recs, t) == {RowOf(f, t, recs[t][i]) : i \in DOMAIN recs[t]}

\* They are what QuerySpec is refined by.
LEMMA RowsMeant == Rows = [t \in Tables |-> Meant(ids, records, t)]
<1>1. \A t, rec : Row(t, rec) = RowOf(ids, t, rec)
  BY DEF Row, Meaning, RowOf, Means
<1>. QED  BY <1>1 DEF Meant, Rows

\* A tuple of rows of the tables is accepted when it is what an accepted tuple
\* of records means.
LEMMA AcceptedRows ==
    ASSUME QueryInv, NEW q, IsStatement(q), NEW y
    PROVE  y \in Relational!Accepted(q)
             <=> \E x : Accepting(q, Len(q.from), x) /\ y = RowsOf(q, x)
<1> DEFINE n == Len(q.from)
           D == DOMAIN q.from
           At(i) == Meant(ids, records, q.from[i])
<1>1. D = 1..n /\ n \in Nat /\ \A i \in D : q.from[i] \in Tables
  BY Statement
<1>2. y \in Relational!Tuples(q) <=> y \in [D -> UNION {Rows[t] : t \in Tables}] /\ \A i \in D : y[i] \in At(i)
  <2>1. \A i \in D : Rows[q.from[i]] = At(i)
    BY <1>1, RowsMeant
  <2>2. Relational!Tuples(q) =
          {tuple \in [D -> UNION {Rows[t] : t \in Tables}] : \A i \in D : tuple[i] \in Rows[q.from[i]]}
    BY DEF Relational!Tuples, Relational!Tables, Tables
  <2> HIDE DEF D, At
  <2>. QED  BY <2>1, <2>2
<1>3. y \in Relational!Accepted(q) <=> y \in Relational!Tuples(q)
                                        /\ \A i \in DOMAIN q.where : Relational!TermHolds(q.where[i], y)
  BY DEF Relational!Accepted
<1>4. ASSUME NEW x
      PROVE  Accepting(q, n, x) <=> IsFull(q, x) /\ \A i \in DOMAIN q.where : TermMatches(q, q.where[i], x)
  <2>1. \A i \in DOMAIN q.where : Level(q.where[i]) <= n
    <3>1. ASSUME NEW i \in DOMAIN q.where PROVE Level(q.where[i]) <= n
      <4> DEFINE m == Level(q.where[i])
      <4>1. m \in 1..n
        BY TermLevel
      <4> HIDE DEF m
      <4>2. m <= n
        BY <4>1
      <4>. QED  BY <4>2 DEF m
    <3>. QED  BY <3>1
  <2>. QED  BY <2>1 DEF Accepting, IsFull
<1>5. ASSUME NEW x, Accepting(q, n, x), y = RowsOf(q, x) PROVE y \in Relational!Accepted(q)
  <2>1. IsFull(q, x) /\ \A i \in DOMAIN q.where : TermMatches(q, q.where[i], x)
    BY <1>4, <1>5
  <2>2. \A i \in DOMAIN q.where : Relational!TermHolds(q.where[i], y)
    BY <1>5, <2>1, TermHolds
  <2>3. \A i \in D : y[i] \in At(i)
    <3>1. ASSUME NEW i \in D PROVE y[i] \in At(i)
      <4>1. PICK k \in DOMAIN records[q.from[i]] : x[i] = records[q.from[i]][k]
        BY <1>1, <2>1 DEF IsFull, IsTuple
      <4>2. y[i] = RowOf(ids, q.from[i], x[i])
        BY <1>5 DEF RowsOf
      <4>. QED  BY <4>1, <4>2 DEF Meant
    <3>. QED  BY <3>1
  <2>4. y = [i \in D |-> y[i]]
    BY <1>5 DEF RowsOf
  <2>5. \A i \in D : y[i] \in UNION {Rows[t] : t \in Tables}
    <3>1. \A i \in D : Rows[q.from[i]] = At(i) /\ q.from[i] \in Tables
      BY <1>1, RowsMeant
    <3>. QED  BY <2>3, <3>1
  <2> HIDE DEF D, At
  <2>6. y \in [D -> UNION {Rows[t] : t \in Tables}]
    BY <2>4, <2>5
  <2>. QED  BY <1>2, <1>3, <2>2, <2>3, <2>6
<1>6. ASSUME y \in Relational!Accepted(q) PROVE \E x : Accepting(q, n, x) /\ y = RowsOf(q, x)
  <2>1. /\ y \in [D -> UNION {Rows[t] : t \in Tables}] /\ \A i \in D : y[i] \in At(i)
        /\ \A i \in DOMAIN q.where : Relational!TermHolds(q.where[i], y)
    BY <1>2, <1>3, <1>6
  <2> DEFINE at(i) == CHOOSE k \in DOMAIN records[q.from[i]] : y[i] = RowOf(ids, q.from[i], records[q.from[i]][k])
             x == [i \in 1..n |-> records[q.from[i]][at(i)]]
  <2>2. \A i \in D : at(i) \in DOMAIN records[q.from[i]]
                      /\ y[i] = RowOf(ids, q.from[i], records[q.from[i]][at(i)])
    BY <2>1 DEF Meant
  <2> HIDE DEF at
  <2>3. x \in Seq(Recs) /\ Len(x) = n
    <3>1. ASSUME NEW i \in 1..n PROVE records[q.from[i]][at(i)] \in Recs
      <4>1. q.from[i] \in Tables /\ at(i) \in DOMAIN records[q.from[i]]
        BY <1>1, <2>2
      <4>2. records[q.from[i]][at(i)] \in Raws(q.from[i])
        BY <4>1 DEF QueryInv, AllFit
      <4>. QED  BY <4>1, <4>2 DEF Recs
    <3> HIDE DEF n
    <3>2. x \in [1..n -> Recs]
      BY <3>1
    <3>. QED  BY <1>1, <3>2, SeqDef
  <2>4. \A i \in 1..n : x[i] = records[q.from[i]][at(i)]
    OBVIOUS
  <2> HIDE DEF x
  <2>5. IsFull(q, x)
    <3>1. n \in 0..Len(q.from)
      BY <1>1
    <3>2. \A i \in 1..n : \E k \in DOMAIN records[q.from[i]] : x[i] = records[q.from[i]][k]
      BY <1>1, <2>2, <2>4
    <3>. QED  BY <2>3, <3>1, <3>2 DEF IsFull, IsTuple
  <2>6. y = RowsOf(q, x)
    <3>1. y = [i \in D |-> y[i]]
      BY <2>1
    <3>2. \A i \in D : y[i] = RowOf(ids, q.from[i], x[i])
      BY <1>1, <2>2, <2>4
    <3>. QED  BY <3>1, <3>2 DEF RowsOf
  <2>7. \A i \in DOMAIN q.where : TermMatches(q, q.where[i], x)
    BY <2>1, <2>5, <2>6, TermHolds
  <2>8. Accepting(q, n, x)
    BY <1>4, <2>5, <2>7
  <2>. QED  BY <2>6, <2>8
<1>. QED  BY <1>5, <1>6

-----------------------------------------------------------------------------
(***************************************************************************)
(* The steps of the relational specification.                              *)
(***************************************************************************)

\* A record stands for the same row under two pools that agree about its strings.
LEMMA RowStable ==
    ASSUME NEW f, Pool(f), NEW g, Pool(g), NEW t \in Tables, NEW rec, Fits(f, t, rec),
           \A c \in DOMAIN Schema[t] : Schema[t][c].type # "integer" /\ rec[c] # 0 =>
               \A s \in Strings : f[s] = rec[c] => g[s] = rec[c]
    PROVE  RowOf(g, t, rec) = RowOf(f, t, rec)
<1>1. ASSUME NEW i \in DOMAIN rec
      PROVE  Means(g, Schema[t][i], rec[i]) = Means(f, Schema[t][i], rec[i])
  <2>1. i \in DOMAIN Schema[t] BY FitsCells
  <2>2. IsColumn(Schema[t][i]) /\ rec[i] \in CellsOf(f, Schema[t][i]) BY <2>1, FitsCells
  <2>3. QED BY <2>1, <2>2, MeansStable
<1>2. QED BY <1>1 DEF RowOf

\* Interning strings changes no row.
LEMMA InternedRow ==
    ASSUME Pool(ids), NEW values, NEW f \in Interned(values), NEW t \in Tables, NEW rec,
           Fits(ids, t, rec)
    PROVE  RowOf(f, t, rec) = RowOf(ids, t, rec)
<1>1. Pool(f) /\ \A s \in Strings : ids[s] # 0 => f[s] = ids[s] BY InternedPool
<1>2. QED BY <1>1, RowStable

\* Releasing the strings that no cell refers to changes no row.
LEMMA ReleasedRow ==
    ASSUME NEW f, Pool(f), NEW recs, AllFit(f, recs), NEW t \in Tables, NEW i \in DOMAIN recs[t]
    PROVE  RowOf(Released(f, recs), t, recs[t][i]) = RowOf(f, t, recs[t][i])
<1>1. Pool(Released(f, recs)) BY ReleasedPool
<1>2. Fits(f, t, recs[t][i]) BY DEF AllFit
<1>3. ASSUME NEW c \in DOMAIN Schema[t], Schema[t][c].type # "integer", recs[t][i][c] # 0,
             NEW s \in Strings, f[s] = recs[t][i][c]
      PROVE  Released(f, recs)[s] = recs[t][i][c]
  <2>1. Schema[t][c].type = "string" BY <1>3, Columns
  <2>2. QED BY <1>3, <2>1 DEF Released
<1>4. QED BY <1>1, <1>2, <1>3, RowStable

\* The rows after a step.
LEMMA RowsNext == Rows' = [t \in Tables |-> Meant(ids', records', t)]
BY DEF Rows, Row, Meaning, RowOf, Means, Meant

\* The rows of a table by its records.
LEMMA MeantRows ==
    ASSUME NEW f, NEW recs, NEW t, NEW r
    PROVE  r \in Meant(f, recs, t) <=> \E rec : Has(recs[t], rec) /\ r = RowOf(f, t, rec)
BY DEF Meant, Has

\* An insertion adds its element and no other.
LEMMA InsertedHas ==
    ASSUME NEW X, NEW s \in Seq(X), NEW v \in Seq(X), NEW k \in 1..(Len(s) + 1), NEW e,
           Inserted(v, s, k, e), NEW x
    PROVE  Has(v, x) <=> Has(s, x) \/ x = e
<1>0. Len(s) \in Nat /\ k \in Int /\ DOMAIN s = 1..Len(s) OBVIOUS
<1>1. /\ DOMAIN v = 1..(Len(s) + 1)
      /\ \A i \in 1..(Len(s) + 1) : v[i] = IF i < k THEN s[i] ELSE IF i = k THEN e ELSE s[i - 1]
  BY DEF Inserted
<1> DEFINE n == Len(s)
<1> HIDE DEF n
<1>2. ASSUME Has(v, x) PROVE Has(s, x) \/ x = e
  <2>1. PICK i \in 1..(n + 1) : v[i] = x BY <1>1, <1>2 DEF Has, n
  <2>2. v[i] = IF i < k THEN s[i] ELSE IF i = k THEN e ELSE s[i - 1] BY <1>1 DEF n
  <2>3. CASE i < k
    <3>1. i \in 1..n BY <1>0, <2>3 DEF n
    <3>2. QED BY <1>0, <2>1, <2>2, <2>3, <3>1 DEF Has, n
  <2>4. CASE i = k BY <1>0, <2>1, <2>2, <2>4
  <2>5. CASE i > k
    <3>1. i - 1 \in 1..n /\ ~(i < k) /\ i # k BY <1>0, <2>5 DEF n
    <3>2. s[i - 1] = x BY <2>1, <2>2, <3>1
    <3>3. QED BY <1>0, <3>1, <3>2 DEF Has, n
  <2>6. QED BY <1>0, <2>3, <2>4, <2>5
<1>3. ASSUME x = e PROVE Has(v, x)
  <2>1. k \in DOMAIN v /\ v[k] = e BY <1>0, <1>1
  <2>2. QED BY <1>3, <2>1 DEF Has
<1>4. ASSUME Has(s, x) PROVE Has(v, x)
  <2>1. PICK i \in 1..n : s[i] = x BY <1>0, <1>4 DEF Has, n
  <2>2. CASE i < k
    <3>1. i \in 1..(n + 1) BY <1>0 DEF n
    <3>2. v[i] = x BY <1>1, <2>1, <2>2, <3>1 DEF n
    <3>3. QED BY <1>1, <3>1, <3>2 DEF Has, n
  <2>3. CASE i >= k
    <3>1. i + 1 \in 1..(n + 1) /\ ~(i + 1 < k) /\ i + 1 # k /\ (i + 1) - 1 = i
      BY <1>0, <2>3 DEF n
    <3>2. v[i + 1] = s[(i + 1) - 1] BY <1>1, <3>1 DEF n
    <3>3. v[i + 1] = x BY <2>1, <3>1, <3>2
    <3>4. QED BY <1>1, <3>1, <3>3 DEF Has, n
  <2>4. QED BY <1>0, <2>2, <2>3
<1>5. QED BY <1>2, <1>3, <1>4

\* The record of a new row means that row.
LEMMA InsertedRow ==
    ASSUME NEW t \in Tables, NEW row \in NewRows[t], NEW f \in Interned(ToSet(row))
    PROVE  RowOf(f, t, RawRecord(f, t, row)) = row
<1>1. /\ row = [i \in DOMAIN Schema[t] |-> row[i]] /\ DOMAIN row = DOMAIN Schema[t]
      /\ \A i \in DOMAIN row : row[i] \in Values(Schema[t][i])
  BY StatementAssumption
<1>2. Pool(f) /\ \A s \in Strings : s \in ToSet(row) => f[s] # 0 BY InternedPool
<1> DEFINE rec == RawRecord(f, t, row)
<1>3. rec = [i \in DOMAIN Schema[t] |-> Raw(f, Schema[t][i], row[i])] BY <1>1 DEF RawRecord
<1>4. RowOf(f, t, rec) = [i \in DOMAIN Schema[t] |-> Means(f, Schema[t][i], rec[i])]
  BY <1>3 DEF RowOf
<1>5. ASSUME NEW i \in DOMAIN Schema[t] PROVE Means(f, Schema[t][i], rec[i]) = row[i]
  <2>1. IsColumn(Schema[t][i]) BY Columns DEF IsColumn
  <2>2. row[i] \in ToSet(row) BY <1>1 DEF ToSet
  <2>3. rec[i] = Raw(f, Schema[t][i], row[i]) BY <1>3
  <2>4. QED BY <1>1, <1>2, <2>1, <2>2, <2>3, RawMeans
<1>6. QED BY <1>1, <1>4, <1>5

\* A table has no more rows than records.
LEMMA MeantCount ==
    ASSUME NEW f, NEW recs, NEW t, NEW X, recs[t] \in Seq(X)
    PROVE  Cardinality(Meant(f, recs, t)) \in 0..Len(recs[t])
<1> DEFINE n == Len(recs[t])
           D == 1..n
           M == Meant(f, recs, t)
           F == [i \in D |-> RowOf(f, t, recs[t][i])]
<1>1. n \in Nat /\ DOMAIN recs[t] = D OBVIOUS
<1>2. M = {RowOf(f, t, recs[t][i]) : i \in D} BY <1>1 DEF Meant
<1>3. F \in [D -> M] /\ \A r \in M : \E i \in D : F[i] = r BY <1>2
<1> HIDE DEF F, M
<1>4. F \in Surjection(D, M) BY <1>3, Fun_IsSurj
<1> HIDE DEF n
<1>5. IsFiniteSet(D) /\ Cardinality(D) = n BY <1>1, FS_Interval
<1> HIDE DEF D
<1>6. IsFiniteSet(M) /\ Cardinality(M) <= Cardinality(D) BY <1>4, <1>5, FS_Surjection
<1>7. Cardinality(M) \in Nat BY <1>6, FS_CardinalityType
<1>8. QED BY <1>1, <1>5, <1>6, <1>7 DEF M, n

\* The parts of the invariant that are about one table.
LEMMA TableFits ==
    ASSUME QueryInv, NEW t \in Tables
    PROVE  /\ Pool(ids) /\ records[t] \in Seq(Raws(t)) /\ Ascending(t, records[t])
           /\ Len(records[t]) \in Nat /\ DOMAIN records[t] = 1..Len(records[t])
           /\ \A i \in DOMAIN records[t] : Fits(ids, t, records[t][i])
BY DEF QueryInv, AllFit

\* INSERT adds its row if no row has its key.
LEMMA InsertImplements ==
    ASSUME QueryInv, NEW t \in Tables, NEW row \in NewRows[t], Insert(t, row)
    PROVE  Relational!Insert(t, row)
<1>1. PICK f \in Interned(ToSet(row)) :
        /\ ~Found(t, RawRecord(f, t, row))
        /\ records' = [records EXCEPT ![t] =
                InsertAt(@, Find(t, RawRecord(f, t, row)) + 1, RawRecord(f, t, row))]
        /\ ids' = f
  BY DEF Insert
<1> DEFINE rec == RawRecord(f, t, row)
           s == records[t]
           k == Find(t, rec) + 1
           v == InsertAt(s, k, rec)
<1>2. Pool(f) /\ Fits(f, t, rec) /\ RowOf(f, t, rec) = row
  BY InternedPool, RowFits, InsertedRow
<1>3. /\ rec \in Raws(t) /\ s \in Seq(Raws(t)) /\ Ascending(t, s) /\ Len(s) \in Nat
      /\ Pool(ids) /\ DOMAIN s = 1..Len(s) /\ \A i \in DOMAIN s : Fits(ids, t, s[i])
  BY <1>2, TableFits DEF Fits
<1>4. \A i \in 1..Len(s) : RowOf(f, t, s[i]) = RowOf(ids, t, s[i])
  BY <1>3, InternedRow
<1>5. k \in 1..(Len(s) + 1)
  <2>1. Find(t, rec) \in 0..Len(s) BY <1>3, FindPlace
  <2> HIDE DEF rec, s
  <2>2. QED BY <1>3, <2>1
<1>6. records' = [x \in Tables |-> IF x = t THEN v ELSE records[x]]
  <2>1. records' = [records EXCEPT ![t] = v] BY <1>1
  <2>2. records = [x \in Tables |-> records[x]] BY DEF QueryInv, AllFit
  <2> HIDE DEF v
  <2>3. QED BY <2>1, <2>2
<1>7. \A x : Has(v, x) <=> Has(s, x) \/ x = rec
  <2> HIDE DEF s, k, rec
  <2>1. v \in Seq(Raws(t)) /\ Inserted(v, s, k, rec) BY <1>3, <1>5, InsertAtProperties
  <2>2. QED BY <1>3, <1>5, <2>1, InsertedHas
<1>8. Cardinality(Rows[t]) < MaxRows
  <2>1. Cardinality(Meant(ids, records, t)) \in 0..Len(s) BY <1>3, MeantCount
  <2>2. Len(s) < MaxRows BY DEF Insert
  <2>3. Rows[t] = Meant(ids, records, t) BY RowsMeant
  <2> HIDE DEF s
  <2>4. QED BY <1>3, <2>1, <2>2, <2>3, QueryAssumption
<1>9. ASSUME NEW r \in Rows[t] PROVE Relational!KeyOf(t, r) # Relational!KeyOf(t, row)
  <2>1. PICK i \in 1..Len(s) : r = RowOf(f, t, s[i])
    BY <1>3, <1>4, RowsMeant DEF Meant
  <2>2. s[i] \in Raws(t) /\ Fits(f, t, s[i]) BY <1>3, StillFits
  <2>3. KeyLess(t, s[i], rec) \/ KeyLess(t, rec, s[i])
    <3>1. Find(t, rec) \in 0..Len(s) BY <1>3, FindPlace
    <3>2. i <= Find(t, rec) \/ i > Find(t, rec)
      <4> HIDE DEF rec, s
      <4>1. QED BY <1>3, <3>1
    <3>3. QED BY <1>1, <1>3, <3>2, FindPlace
  <2>4. PICK c \in KeyCells(t) : s[i][c] # rec[c] BY <1>3, <2>2, <2>3, KeyOrder
  <2>5. c \in DOMAIN Schema[t] /\ IsColumn(Schema[t][c])
        /\ s[i][c] \in CellsOf(f, Schema[t][c]) /\ rec[c] \in CellsOf(f, Schema[t][c])
        /\ DOMAIN s[i] = DOMAIN Schema[t] /\ DOMAIN rec = DOMAIN Schema[t]
    <3> HIDE DEF rec, s
    <3>1. c \in DOMAIN Schema[t] BY Columns
    <3>2. QED BY <1>2, <2>2, <3>1, FitsCells
  <2> HIDE DEF rec, s
  <2>6. r[c] = Means(f, Schema[t][c], s[i][c]) /\ row[c] = Means(f, Schema[t][c], rec[c])
    <3>1. r[c] = Means(f, Schema[t][c], s[i][c]) BY <2>1, <2>5 DEF RowOf
    <3>2. row[c] = Means(f, Schema[t][c], rec[c]) BY <1>2, <2>5 DEF RowOf
    <3>3. QED BY <3>1, <3>2
  <2>7. r[c] # row[c] BY <1>2, <2>4, <2>5, <2>6, MeansDiffer
  <2>8. c \in {j \in DOMAIN Schema[t] : Schema[t][j].key} BY DEF KeyCells
  <2>9. Relational!KeyOf(t, r)[c] = r[c] /\ Relational!KeyOf(t, row)[c] = row[c]
    BY <2>8 DEF Relational!KeyOf
  <2>10. QED BY <2>7, <2>9
<1>10. Rows' = [Rows EXCEPT ![t] = @ \cup {row}]
  <2>1. Rows' = [x \in Tables |-> Meant(f, records', x)]
        /\ Rows = [x \in Tables |-> Meant(ids, records, x)]
    BY <1>1, RowsNext, RowsMeant
  <2>2. ASSUME NEW x \in Tables, x # t PROVE Meant(f, records', x) = Meant(ids, records, x)
    <3>1. records'[x] = records[x] BY <1>6, <2>2
    <3>2. \A i \in DOMAIN records[x] : Fits(ids, x, records[x][i]) BY TableFits
    <3>3. \A i \in DOMAIN records[x] : RowOf(f, x, records[x][i]) = RowOf(ids, x, records[x][i])
      BY <1>3, <3>2, InternedRow
    <3>4. QED BY <3>1, <3>3 DEF Meant
  <2>3. Meant(f, records', t) = Meant(ids, records, t) \cup {row}
    <3>1. records'[t] = v BY <1>6
    <3>2. ASSUME NEW r PROVE r \in Meant(f, records', t) <=> r \in Meant(ids, records, t) \cup {row}
      <4>1. r \in Meant(f, records', t) <=> \E x : Has(v, x) /\ r = RowOf(f, t, x)
        BY <3>1, MeantRows
      <4>2. r \in Meant(ids, records, t) <=> \E x : Has(s, x) /\ r = RowOf(ids, t, x)
        BY MeantRows
      <4>3. \A x : Has(s, x) => RowOf(f, t, x) = RowOf(ids, t, x)
        BY <1>3, <1>4 DEF Has
      <4> HIDE DEF v, s, rec
      <4>4. QED BY <1>2, <1>7, <4>1, <4>2, <4>3
    <3>3. QED BY <3>2
  <2>4. QED BY <2>1, <2>2, <2>3
<1>11. Relational!Cardinality(Rows[t]) = Cardinality(Rows[t])
  BY DEF Relational!Cardinality, Cardinality, Relational!IsFiniteSet, IsFiniteSet
<1>12. QED BY <1>8, <1>9, <1>10, <1>11 DEF Relational!Insert

\* With one table, the accepted tuples are the records that pass.
LEMMA SingleAccepting ==
    ASSUME QueryInv, NEW q, IsStatement(q), Len(q.from) = 1, NEW x
    PROVE  Accepting(q, 1, x) <=> \E i \in DOMAIN records[q.from[1]] :
               x = <<records[q.from[1]][i]>> /\ Passes(q, <<records[q.from[1]][i]>>)
<1> DEFINE s == records[q.from[1]]
<1>1. IsTuple(q, 0, <<>>) BY EmptyTuple
<1>2. ASSUME NEW i \in DOMAIN s PROVE IsTuple(q, 1, <<s[i]>>)
  <2>1. ASSUME NEW n \in Nat, n = 0 PROVE IsTuple(q, n + 1, Append(<<>>, s[i]))
    <3>1. IsTuple(q, n, <<>>) /\ n < Len(q.from) BY <1>1, <2>1
    <3>2. n + 1 = 1 BY <2>1
    <3>3. i \in DOMAIN records[q.from[n + 1]] /\ records[q.from[n + 1]][i] = s[i] BY <3>2
    <3>4. IsTuple(q, n + 1, Append(<<>>, records[q.from[n + 1]][i])) BY <3>1, <3>3, AppendTuple
    <3>5. QED BY <3>3, <3>4
  <2>2. Append(<<>>, s[i]) = <<s[i]>> OBVIOUS
  <2>3. QED BY <2>1, <2>2, 0 \in Nat, 0 + 1 = 1
<1>3. ASSUME IsTuple(q, 1, x) PROVE \E i \in DOMAIN s : x = <<s[i]>>
  <2>1. x \in Seq(Recs) /\ Len(x) = 1 BY <1>3 DEF IsTuple
  <2>2. PICK i \in DOMAIN s : x[1] = s[i] BY <1>3 DEF IsTuple
  <2> HIDE DEF s
  <2>3. x = <<x[1]>> BY <2>1
  <2>4. QED BY <2>2, <2>3
<1>4. ASSUME NEW i \in DOMAIN s PROVE
        Passes(q, <<s[i]>>) <=> \A j \in DOMAIN q.where : Level(q.where[j]) <= 1 =>
                                   TermMatches(q, q.where[j], <<s[i]>>)
  <2> DEFINE y == <<s[i]>>
  <2>1. Len(y) = 1 OBVIOUS
  <2> HIDE DEF y
  <2>2. ASSUME NEW j \in DOMAIN q.where PROVE Level(q.where[j]) = 1 /\ Level(q.where[j]) <= 1
    <3> DEFINE m == Level(q.where[j])
    <3>1. m \in 1..1 BY TermLevel
    <3> HIDE DEF m
    <3>2. m = 1 /\ m <= 1 BY <3>1
    <3>3. QED BY <3>2 DEF m
  <2>3. Passes(q, y) <=> \A j \in DOMAIN q.where : Level(q.where[j]) <= 1 =>
                                   TermMatches(q, q.where[j], y)
    BY <2>1, <2>2 DEF Passes, TermsAt
  <2>4. QED BY <2>3 DEF y
<1> HIDE DEF s
<1>5. QED BY <1>2, <1>3, <1>4 DEF Accepting, s

\* DELETE removes the rows that its WHERE clause accepts.
LEMMA DeleteImplements ==
    ASSUME QueryInv, NEW q \in Deletes, Delete(q)
    PROVE  Relational!Delete(q)
<1> DEFINE t == q.from[1]
           s == records[t]
           gone == {i \in DOMAIN s : Passes(q, <<s[i]>>)}
<1>1. IsStatement(q) /\ Len(q.from) = 1 BY StatementAssumption
<1>2. /\ t \in Tables /\ s \in Seq(Raws(t))
      /\ records' = [x \in Tables |-> IF x = t THEN records'[t] ELSE records[x]]
      /\ Thinned(records'[t], s, DOMAIN s \ gone)
      /\ ids' = Released(ids, records')
  BY DeleteThins
<1>3. records'[t] \in Seq(Raws(t)) /\ Shares(records'[t], s, DOMAIN s \ gone)
  <2> HIDE DEF s
  <2>1. DOMAIN s \ gone \in SUBSET DOMAIN s OBVIOUS
  <2> HIDE DEF gone
  <2>2. QED BY <1>2, <2>1, ThinnedSequence
<1>4. ASSUME NEW x \in Tables PROVE records[x] \in Seq(Raws(x))
        /\ \A i \in DOMAIN records[x] : Fits(ids, x, records[x][i])
  BY TableFits
<1>5. AllFit(ids, records')
  <2>1. ASSUME NEW x \in Tables, x # t PROVE records'[x] = records[x] BY <1>2, <2>1
  <2>2. \A i \in DOMAIN records'[t] : \E k \in DOMAIN s : records'[t][i] = s[k]
    BY <1>3 DEF Shares
  <2>3. \A i \in DOMAIN records'[t] : Fits(ids, t, records'[t][i]) BY <1>2, <1>4, <2>2
  <2>4. records' = [x \in Tables |-> records'[x]] BY <1>2
  <2>5. QED BY <1>3, <1>4, <2>1, <2>3, <2>4 DEF AllFit
<1>6. Pool(ids) BY DEF QueryInv
<1>7. ASSUME NEW x \in Tables PROVE Meant(ids', records', x) = Meant(ids, records', x)
  <2>1. \A i \in DOMAIN records'[x] :
          RowOf(ids', x, records'[x][i]) = RowOf(ids, x, records'[x][i])
    BY <1>2, <1>5, <1>6, ReleasedRow
  <2>2. QED BY <2>1 DEF Meant
<1>8. ASSUME NEW x \in Tables, x # t PROVE Meant(ids, records', x) = Meant(ids, records, x)
  <2>1. records'[x] = records[x] BY <1>2, <1>8
  <2>2. QED BY <2>1 DEF Meant
<1>9. ASSUME NEW r
      PROVE  r \in Relational!Affected(q, 1) <=> \E i \in gone : r = RowOf(ids, t, s[i])
  <2>1. r \in Relational!Affected(q, 1) <=> \E y \in Relational!Accepted(q) : r = y[1]
    BY DEF Relational!Affected
  <2>2. \A x : Accepting(q, 1, x) <=> \E i \in gone : x = <<s[i]>>
    BY <1>1, SingleAccepting
  <2>3. \A i \in DOMAIN s : RowsOf(q, <<s[i]>>)[1] = RowOf(ids, t, s[i])
    <3>1. 1 \in DOMAIN q.from BY <1>1, Statement
    <3>2. \A i \in DOMAIN s : <<s[i]>>[1] = s[i] OBVIOUS
    <3>3. QED BY <3>1, <3>2 DEF RowsOf
  <2>4. \A y : y \in Relational!Accepted(q) <=> \E x : Accepting(q, 1, x) /\ y = RowsOf(q, x)
    BY <1>1, AcceptedRows
  <2>5. \A i \in gone : i \in DOMAIN s OBVIOUS
  <2> HIDE DEF gone, s, t
  <2>6. ASSUME r \in Relational!Affected(q, 1) PROVE \E i \in gone : r = RowOf(ids, t, s[i])
    <3>1. PICK y : y \in Relational!Accepted(q) /\ r = y[1] BY <2>1, <2>6
    <3>2. PICK x : Accepting(q, 1, x) /\ y = RowsOf(q, x) BY <2>4, <3>1
    <3>3. PICK i \in gone : x = <<s[i]>> BY <2>2, <3>2
    <3>4. QED BY <2>3, <2>5, <3>1, <3>2, <3>3
  <2>7. ASSUME NEW i \in gone, r = RowOf(ids, t, s[i]) PROVE r \in Relational!Affected(q, 1)
    <3>1. Accepting(q, 1, <<s[i]>>) BY <2>2
    <3>2. RowsOf(q, <<s[i]>>) \in Relational!Accepted(q) BY <2>4, <3>1
    <3>3. QED BY <2>1, <2>3, <2>5, <2>7, <3>2
  <2>8. QED BY <2>6, <2>7
<1>10. Meant(ids, records', t) = Meant(ids, records, t) \ Relational!Affected(q, 1)
  <2>1. ASSUME NEW r \in Meant(ids, records', t)
        PROVE  r \in Meant(ids, records, t) /\ r \notin Relational!Affected(q, 1)
    <3>1. PICK k \in DOMAIN s : k \notin gone /\ r = RowOf(ids, t, s[k])
      BY <1>3 DEF Meant, Shares
    <3>2. ASSUME NEW i \in gone, r = RowOf(ids, t, s[i]) PROVE FALSE
      <4>1. i \in DOMAIN s OBVIOUS
      <4>2. Fits(ids, t, s[i]) /\ Fits(ids, t, s[k]) BY <1>2, <1>4, <4>1
      <4>2a. s[i] = s[k] BY <1>2, <1>6, <3>1, <3>2, <4>2, RowsDiffer
      <4>3. Passes(q, <<s[i]>>) OBVIOUS
      <4>4. QED BY <3>1, <4>2a, <4>3
    <3>3. QED BY <1>9, <3>1, <3>2 DEF Meant
  <2>2. ASSUME NEW r \in Meant(ids, records, t), r \notin Relational!Affected(q, 1)
        PROVE  r \in Meant(ids, records', t)
    <3>1. PICK k \in DOMAIN s : r = RowOf(ids, t, s[k]) BY DEF Meant
    <3>2. k \in DOMAIN s \ gone BY <1>9, <2>2, <3>1
    <3>3. PICK p \in DOMAIN records'[t] : records'[t][p] = s[k] BY <1>3, <3>2 DEF Shares
    <3>4. QED BY <3>1, <3>3 DEF Meant
  <2>3. QED BY <2>1, <2>2
<1>11. Rows' = [Rows EXCEPT ![t] = @ \ Relational!Affected(q, 1)]
  <2> HIDE DEF t
  <2>1. /\ Rows' = [x \in Tables |-> Meant(ids', records', x)]
        /\ Rows = [x \in Tables |-> Meant(ids, records, x)]
    BY RowsNext, RowsMeant
  <2>2. QED BY <1>2, <1>7, <1>8, <1>10, <2>1
<1>12. QED BY <1>11 DEF Relational!Delete

\* The records of a tuple are records of its tables.
LEMMA TupleRecords ==
    ASSUME QueryInv, NEW q, IsStatement(q), NEW x, Accepting(q, Len(q.from), x), NEW i \in DOMAIN q.from
    PROVE  /\ q.from[i] \in Tables /\ Has(records[q.from[i]], x[i])
           /\ Fits(ids, q.from[i], x[i])
           /\ RowsOf(q, x)[i] = RowOf(ids, q.from[i], x[i])
<1>1. i \in 1..Len(q.from) /\ q.from[i] \in Tables BY Statement
<1>2. PICK k \in DOMAIN records[q.from[i]] : x[i] = records[q.from[i]][k]
  BY <1>1 DEF Accepting, IsTuple
<1>3. Has(records[q.from[i]], x[i]) BY <1>2 DEF Has
<1>4. Fits(ids, q.from[i], x[i]) BY <1>1, <1>2, TableFits
<1>5. QED BY <1>1, <1>3, <1>4 DEF RowsOf

\* The rows that a statement is about, by the tuples of records that it accepts.
LEMMA AffectedRows ==
    ASSUME QueryInv, NEW q, IsStatement(q), NEW i \in DOMAIN q.from, NEW r
    PROVE  r \in Relational!Affected(q, i) <=>
             \E x : Accepting(q, Len(q.from), x) /\ r = RowOf(ids, q.from[i], x[i])
<1>1. r \in Relational!Affected(q, i) <=> \E y \in Relational!Accepted(q) : r = y[i]
  BY DEF Relational!Affected
<1>2. \A y : y \in Relational!Accepted(q)
               <=> \E x : Accepting(q, Len(q.from), x) /\ y = RowsOf(q, x)
  BY AcceptedRows
<1>3. \A x : Accepting(q, Len(q.from), x) => RowsOf(q, x)[i] = RowOf(ids, q.from[i], x[i])
  BY TupleRecords
<1>4. QED BY <1>1, <1>2, <1>3

\* UPDATE changes the records of the rows that it is about.
LEMMA HitRows ==
    ASSUME QueryInv, NEW u, IsStatement(u), NEW i \in DOMAIN u.from, NEW n \in DOMAIN records[u.from[i]]
    PROVE  LET t == u.from[i] IN
           /\ i = TableOf(u, t)
           /\ Hit(u, t, records[t][n]) <=> RowOf(ids, t, records[t][n]) \in Relational!Affected(u, i)
<1> DEFINE t == u.from[i]
           rec == records[t][n]
<1>1. \A j \in DOMAIN u.from : u.from[j] = t => j = i BY DEF IsStatement
<1>2. i = TableOf(u, t) BY <1>1 DEF TableOf
<1>3. Hit(u, t, rec) <=> \E k \in DOMAIN Gather(u) : Gather(u)[k][i] = rec BY <1>1 DEF Hit
<1>4. (\E k \in DOMAIN Gather(u) : Gather(u)[k][i] = rec) <=> \E x : Has(Gather(u), x) /\ x[i] = rec
  BY DEF Has
<1>5. \A x : Has(Gather(u), x) <=> Accepting(u, Len(u.from), x) BY GatherAccepts DEF Gathered
<1>6. ASSUME NEW x, Accepting(u, Len(u.from), x)
      PROVE  x[i] = rec <=> RowOf(ids, t, rec) = RowOf(ids, t, x[i])
  <2>1. t \in Tables /\ Fits(ids, t, x[i]) BY <1>6, TupleRecords
  <2>2. Fits(ids, t, rec) /\ Pool(ids) BY <2>1, TableFits
  <2> HIDE DEF rec, t
  <2>3. QED BY <2>1, <2>2, RowsDiffer
<1>7. RowOf(ids, t, rec) \in Relational!Affected(u, i) <=>
        \E x : Accepting(u, Len(u.from), x) /\ RowOf(ids, t, rec) = RowOf(ids, t, x[i])
  BY AffectedRows
<1>8. Hit(u, t, rec) <=> RowOf(ids, t, rec) \in Relational!Affected(u, i)
  <2> HIDE DEF rec, t
  <2>1. QED BY <1>3, <1>4, <1>5, <1>6, <1>7
<1>9. QED BY <1>2, <1>8

\* Of the assignments to a cell, the one that UPDATE makes is the first.
LEMMA FirstAssignment ==
    ASSUME NEW u \in Updates, NEW i \in DOMAIN u.from, NEW j,
           NEW k, k \in Assignments(u, i), u.set[k].cell = j
    PROVE  LET sets == {l \in DOMAIN u.set : u.set[l].table = i /\ u.set[l].cell = j} IN
           /\ k \in sets
           /\ k = CHOOSE m \in sets : \A l \in sets : m <= l
           /\ k = CHOOSE l \in Assignments(u, i) : u.set[l].cell = j
<1> DEFINE sets == {l \in DOMAIN u.set : u.set[l].table = i /\ u.set[l].cell = j}
<1>1. Len(u.set) \in Nat /\ DOMAIN u.set = 1..Len(u.set) BY StatementAssumption DEF IsList
<1>2. ASSUME NEW m, m \in Assignments(u, i), u.set[m].cell = j, NEW l \in sets PROVE m <= l
  <2>1. l \in DOMAIN u.set /\ u.set[l].table = i /\ u.set[l].cell = j OBVIOUS
  <2>2. m \in DOMAIN u.set /\ u.set[m].table = i BY <1>2 DEF Assignments
  <2>3. ~(l \in 1..(m - 1))
    BY <1>2, <2>1 DEF Assignments
  <2>4. QED BY <1>1, <2>1, <2>2, <2>3
<1>3. \A m : m \in Assignments(u, i) /\ u.set[m].cell = j => m \in sets BY DEF Assignments
<1>4. sets \subseteq Nat BY <1>1
<1> HIDE DEF sets
<1>5. k \in sets /\ \A l \in sets : k <= l BY <1>2, <1>3
<1>6. ASSUME NEW m \in sets, \A l \in sets : m <= l PROVE m = k
  <2>1. m \in Nat /\ k \in Nat BY <1>4, <1>5
  <2>2. m <= k /\ k <= m BY <1>5, <1>6
  <2>3. QED BY <2>1, <2>2
<1>7. k = CHOOSE m \in sets : \A l \in sets : m <= l BY <1>5, <1>6
<1>8. \A m : m \in Assignments(u, i) /\ u.set[m].cell = j => m = k BY <1>2, <1>3, <1>6
<1>9. k = CHOOSE l \in Assignments(u, i) : u.set[l].cell = j BY <1>8
<1>10. QED BY <1>5, <1>7, <1>9 DEF sets

\* A cell that is assigned has a first assignment.
LEMMA AssignmentExists ==
    ASSUME NEW u \in Updates, NEW i \in DOMAIN u.from, NEW l \in DOMAIN u.set, u.set[l].table = i
    PROVE  \E k \in Assignments(u, i) : u.set[k].cell = u.set[l].cell
<1> DEFINE sets == {m \in DOMAIN u.set : u.set[m].table = i /\ u.set[m].cell = u.set[l].cell}
<1>1. Len(u.set) \in Nat /\ DOMAIN u.set = 1..Len(u.set) BY StatementAssumption DEF IsList
<1>2. sets \in SUBSET Nat /\ sets # {} BY <1>1
<1>3. PICK k \in sets : \A m \in sets : k <= m
  <2> HIDE DEF sets
  <2>1. QED BY <1>2, LeastNumber
<1>4. ASSUME NEW m \in 1..(k - 1), u.set[m].table = i, u.set[m].cell = u.set[k].cell PROVE FALSE
  <2>1. k \in 1..Len(u.set) /\ u.set[k].cell = u.set[l].cell BY <1>1
  <2>2. m \in 1..Len(u.set) /\ ~(k <= m)
    <3> DEFINE len == Len(u.set)
    <3> HIDE DEF len
    <3>1. len \in Nat /\ k \in 1..len BY <1>1, <2>1 DEF len
    <3>2. m \in 1..len /\ ~(k <= m) BY <3>1
    <3>3. QED BY <3>2 DEF len
  <2>3. m \in sets BY <1>1, <1>4, <2>1, <2>2
  <2>4. QED BY <1>3, <2>2, <2>3
<1>5. k \in Assignments(u, i) BY <1>4 DEF Assignments
<1>6. QED BY <1>5

\* The record that UPDATE writes means the row that it should.
LEMMA AssignedRow ==
    ASSUME NEW u \in Updates, NEW i \in DOMAIN u.from, NEW f, Pool(f),
           NEW rec, Fits(f, u.from[i], rec),
           \A k \in Assignments(u, i) : u.set[k].value \in Strings => f[u.set[k].value] # 0
    PROVE  RowOf(f, u.from[i], Assigned(f, u, i, rec))
             = Relational!Assigned(u, i, RowOf(f, u.from[i], rec))
<1> DEFINE t == u.from[i]
           new == Assigned(f, u, i, rec)
           row == RowOf(f, t, rec)
           Sets(j) == {l \in DOMAIN u.set : u.set[l].table = i /\ u.set[l].cell = j}
           least(j) == CHOOSE m \in Sets(j) : \A l \in Sets(j) : m <= l
<1>1. t \in Tables /\ \A k \in DOMAIN u.set : IsAssignment(u, u.set[k])
  BY StatementAssumption, Statement
<1>2. DOMAIN rec = DOMAIN Schema[t] /\ DOMAIN new = DOMAIN Schema[t]
  <2>1. DOMAIN new = DOMAIN rec BY DEF Assigned
  <2>2. QED BY <1>1, <2>1, FitsCells
<1>3. row = [j \in DOMAIN Schema[t] |-> Means(f, Schema[t][j], rec[j])]
  BY <1>2 DEF RowOf
<1>4. Relational!Assigned(u, i, row) = [j \in DOMAIN Schema[t] |->
        IF Sets(j) = {} THEN row[j] ELSE u.set[least(j)].value]
  <2>1. DOMAIN row = DOMAIN Schema[t] BY <1>3
  <2> HIDE DEF row
  <2>2. QED BY <2>1 DEF Relational!Assigned
<1>5. RowOf(f, t, new) = [j \in DOMAIN Schema[t] |-> Means(f, Schema[t][j], new[j])]
  <2> HIDE DEF new
  <2>1. QED BY <1>2 DEF RowOf
<1>6. ASSUME NEW j \in DOMAIN Schema[t], Sets(j) = {} PROVE Means(f, Schema[t][j], new[j]) = row[j]
  <2>1. ~\E k \in Assignments(u, i) : u.set[k].cell = j BY <1>6 DEF Assignments
  <2>2. new[j] = rec[j] BY <1>2, <2>1 DEF Assigned
  <2>3. QED BY <1>3, <2>2
<1>7. ASSUME NEW j \in DOMAIN Schema[t], Sets(j) # {}
      PROVE  Means(f, Schema[t][j], new[j]) = u.set[least(j)].value
  <2>1. PICK k \in Assignments(u, i) : u.set[k].cell = j BY <1>7, AssignmentExists
  <2>2. k \in Sets(j) /\ k = least(j) /\ k = CHOOSE l \in Assignments(u, i) : u.set[l].cell = j
    BY <2>1, FirstAssignment
  <2>3. new[j] = Raw(f, Schema[t][j], u.set[k].value)
    BY <1>2, <2>1, <2>2 DEF Assigned
  <2>4. u.set[k].value \in Values(Schema[t][j])
    <3>1. k \in DOMAIN u.set /\ u.set[k].table = i BY <2>2
    <3>2. Column(u, u.set[k]) = Schema[t][j] BY <2>1, <3>1 DEF Column
    <3>3. QED BY <1>1, <3>1, <3>2 DEF IsAssignment
  <2>5. IsColumn(Schema[t][j]) BY <1>1, Columns DEF IsColumn
  <2>6. Means(f, Schema[t][j], Raw(f, Schema[t][j], u.set[k].value)) = u.set[k].value
    BY <2>1, <2>4, <2>5, RawMeans
  <2>7. QED BY <2>2, <2>3, <2>6
<1> HIDE DEF new, row, Sets, least
<1>8. RowOf(f, t, new) = Relational!Assigned(u, i, row)
  BY <1>4, <1>5, <1>6, <1>7
<1>9. QED BY <1>8 DEF new, row

\* UPDATE writes the assigned values into the rows that its WHERE clause accepts.
LEMMA UpdateImplements ==
    ASSUME QueryInv, NEW u \in Updates, Update(u)
    PROVE  Relational!Update(u)
<1>1. PICK f \in Interned(NewValues(u)) : records' = Reassigned(f, u) /\ ids' = Released(f, records')
  BY UpdateChanges DEF Reassigned
<1>2. IsStatement(u) BY StatementAssumption
<1>3. Pool(f) /\ \A s \in Strings : s \in NewValues(u) => f[s] # 0 BY InternedPool
<1>4. AllFit(f, records') BY <1>1, ReassignedFits
<1>5. ASSUME NEW t \in Tables PROVE Rows'[t] = Meant(f, records', t)
  <2>1. Rows'[t] = Meant(ids', records', t) BY RowsNext
  <2>2. \A n \in DOMAIN records'[t] :
          RowOf(ids', t, records'[t][n]) = RowOf(f, t, records'[t][n])
    BY <1>1, <1>3, <1>4, ReleasedRow
  <2>3. QED BY <2>1, <2>2 DEF Meant
<1>6. ASSUME NEW t \in Tables
      PROVE  /\ DOMAIN records'[t] = DOMAIN records[t]
             /\ \A n \in DOMAIN records[t] :
                  /\ Hit(u, t, records[t][n]) =>
                       records'[t][n] = Assigned(f, u, TableOf(u, t), records[t][n])
                  /\ ~Hit(u, t, records[t][n]) => records'[t][n] = records[t][n]
                  /\ Fits(ids, t, records[t][n]) /\ Fits(f, t, records[t][n])
                  /\ RowOf(f, t, records[t][n]) = RowOf(ids, t, records[t][n])
  <2>1. \A n \in DOMAIN records[t] : Fits(ids, t, records[t][n]) /\ Pool(ids) BY TableFits
  <2>2. \A n \in DOMAIN records[t] : Fits(f, t, records[t][n]) BY <2>1, StillFits
  <2>3. \A n \in DOMAIN records[t] : RowOf(f, t, records[t][n]) = RowOf(ids, t, records[t][n])
    BY <2>1, InternedRow
  <2>4. records'[t] = [n \in DOMAIN records[t] |->
            IF Hit(u, t, records[t][n])
            THEN Assigned(f, u, TableOf(u, t), records[t][n]) ELSE records[t][n]]
    BY <1>1 DEF Reassigned
  <2>5. QED BY <2>1, <2>2, <2>3, <2>4
<1>7. ASSUME NEW t \in Tables, ~\E i \in DOMAIN u.from : u.from[i] = t
      PROVE  Rows'[t] = Rows[t]
  <2>1. \A n \in DOMAIN records[t] : ~Hit(u, t, records[t][n]) BY <1>7 DEF Hit
  <2>2. Meant(f, records', t) = Meant(ids, records, t) BY <1>6, <2>1 DEF Meant
  <2>3. QED BY <1>5, <2>2, RowsMeant
<1>8. ASSUME NEW i \in DOMAIN u.from
      PROVE  LET t == u.from[i]
                 affected == Relational!Affected(u, i)
             IN  /\ i = TableOf(u, t)
                 /\ Rows'[t] = (Rows[t] \ affected)
                                 \cup {Relational!Assigned(u, i, row) : row \in affected}
  <2> DEFINE t == u.from[i]
             affected == Relational!Affected(u, i)
             new == {Relational!Assigned(u, i, row) : row \in affected}
             was(n) == RowOf(ids, t, records[t][n])
  <2>1. t \in Tables BY <1>2, Statement
  <2>2. i = TableOf(u, t)
    BY <1>2 DEF TableOf, IsStatement
  <2>3. \A n \in DOMAIN records[t] : Hit(u, t, records[t][n]) <=> was(n) \in affected
    BY <1>2, HitRows
  <2>4. ASSUME NEW n \in DOMAIN records[t], was(n) \in affected
        PROVE  RowOf(f, t, records'[t][n]) = Relational!Assigned(u, i, was(n))
    <3>1. Hit(u, t, records[t][n]) BY <2>3, <2>4
    <3>2. records'[t][n] = Assigned(f, u, i, records[t][n]) BY <1>6, <2>1, <2>2, <3>1
    <3>3. Gather(u) # <<>>
      <4>1. PICK k : k \in DOMAIN Gather(u) BY <3>1 DEF Hit
      <4>2. DOMAIN << >> = {} OBVIOUS
      <4>3. QED BY <4>1, <4>2
    <3>4. \A k \in Assignments(u, i) : u.set[k].value \in NewValues(u) BY <3>3 DEF NewValues
    <3>5. \A k \in Assignments(u, i) : u.set[k].value \in Strings => f[u.set[k].value] # 0
      BY <1>3, <3>4
    <3>6. Fits(f, t, records[t][n]) /\ RowOf(f, t, records[t][n]) = was(n) BY <1>6, <2>1
    <3>7. RowOf(f, t, Assigned(f, u, i, records[t][n]))
            = Relational!Assigned(u, i, RowOf(f, t, records[t][n]))
      BY <1>3, <3>5, <3>6, AssignedRow
    <3>8. QED BY <3>2, <3>6, <3>7
  <2>5. ASSUME NEW n \in DOMAIN records[t], was(n) \notin affected
        PROVE  RowOf(f, t, records'[t][n]) = was(n)
    BY <1>6, <2>1, <2>3, <2>5
  <2>6. ASSUME NEW row \in affected PROVE \E n \in DOMAIN records[t] : row = was(n)
    <3>1. PICK x : Accepting(u, Len(u.from), x) /\ row = RowOf(ids, t, x[i])
      BY <1>2, <2>6, AffectedRows
    <3>2. Has(records[t], x[i]) BY <1>2, <3>1, TupleRecords
    <3>3. QED BY <3>1, <3>2 DEF Has
  <2>7. Rows[t] = {was(n) : n \in DOMAIN records[t]} BY <2>1, RowsMeant DEF Meant
  <2>8. Rows'[t] = {RowOf(f, t, records'[t][n]) : n \in DOMAIN records[t]}
    BY <1>5, <1>6, <2>1 DEF Meant
  <2> HIDE DEF t, affected, was
  <2>9. ASSUME NEW r \in Rows'[t] PROVE r \in (Rows[t] \ affected) \cup new
    <3>1. PICK n \in DOMAIN records[t] : r = RowOf(f, t, records'[t][n]) BY <2>8
    <3>2. QED BY <2>4, <2>5, <2>7, <3>1
  <2>10. ASSUME NEW r \in Rows[t], r \notin affected PROVE r \in Rows'[t]
    BY <2>5, <2>7, <2>8, <2>10
  <2>11. ASSUME NEW row \in affected PROVE Relational!Assigned(u, i, row) \in Rows'[t]
    BY <2>4, <2>6, <2>8
  <2>12. Rows'[t] = (Rows[t] \ affected) \cup new
    <3>1. \A r \in new : r \in Rows'[t] BY <2>11
    <3> HIDE DEF new
    <3>2. QED BY <2>9, <2>10, <3>1
  <2>13. QED BY <2>2, <2>12 DEF t, affected, new
<1>9. Rows' = [t \in Tables |-> Rows'[t]] BY RowsNext
<1> DEFINE after(t) ==
        IF \E i \in DOMAIN u.from : u.from[i] = t
        THEN LET i == CHOOSE i \in DOMAIN u.from : u.from[i] = t
                 affected == Relational!Affected(u, i)
             IN  (Rows[t] \ affected) \cup {Relational!Assigned(u, i, row) : row \in affected}
        ELSE Rows[t]
<1>10. ASSUME NEW t \in Tables PROVE Rows'[t] = after(t)
  <2>1. CASE ~\E i \in DOMAIN u.from : u.from[i] = t BY <1>7, <2>1
  <2>2. CASE \E i \in DOMAIN u.from : u.from[i] = t
    <3>1. PICK i \in DOMAIN u.from : u.from[i] = t BY <2>2
    <3>2. i = CHOOSE j \in DOMAIN u.from : u.from[j] = t BY <1>8, <3>1 DEF TableOf
    <3>3. Rows'[t] = (Rows[t] \ Relational!Affected(u, i))
              \cup {Relational!Assigned(u, i, row) : row \in Relational!Affected(u, i)}
      BY <1>8, <3>1
    <3>4. after(t) = (Rows[t] \ Relational!Affected(u, i))
              \cup {Relational!Assigned(u, i, row) : row \in Relational!Affected(u, i)}
      BY <2>2, <3>2, Zenon
    <3>5. QED BY <3>3, <3>4, Zenon
  <2>3. QED BY <2>1, <2>2
<1> HIDE DEF after
<1>11. Rows' = [t \in Tables |-> after(t)] BY <1>9, <1>10
<1>12. QED BY <1>11 DEF Relational!Update, Relational!Tables, Tables, after

\* Initially no table has rows.
LEMMA InitImplements == Init => Relational!Init
<1> SUFFICES ASSUME Init PROVE Relational!Init OBVIOUS
<1>1. ASSUME NEW t \in Tables PROVE Meant(ids, records, t) = {}
  <2>1. DOMAIN records[t] = {} BY DEF Init
  <2>2. QED BY <2>1 DEF Meant
<1>2. Rows = [t \in Tables |-> {}] BY <1>1, RowsMeant
<1>3. QED BY <1>2 DEF Relational!Init, Relational!Tables, Tables

\* Every step is one of the relational specification or leaves the rows alone.
LEMMA StepImplements == QueryInv /\ [Next]_vars => [Relational!Next]_(Relational!vars)
<1> SUFFICES ASSUME QueryInv, [Next]_vars PROVE [Relational!Next]_(Relational!vars) OBVIOUS
<1>1. CASE \E t \in Tables : \E row \in NewRows[t] : Insert(t, row)
  <2>1. PICK t \in Tables : \E row \in NewRows[t] : Insert(t, row) BY <1>1
  <2>2. PICK row \in NewRows[t] : Insert(t, row) BY <2>1
  <2>3. Relational!Insert(t, row) BY <2>2, InsertImplements
  <2>4. QED BY <2>3 DEF Relational!Next, Relational!Tables, Tables
<1>2. CASE \E q \in Deletes : Delete(q)
  BY <1>2, DeleteImplements DEF Relational!Next
<1>3. CASE \E u \in Updates : Update(u)
  BY <1>3, UpdateImplements DEF Relational!Next
<1>4. CASE UNCHANGED vars
  <2>1. records' = records /\ ids' = ids BY <1>4 DEF vars
  <2>2. Rows' = Rows BY <2>1, RowsNext, RowsMeant
  <2>3. QED BY <2>2 DEF Relational!vars
<1>5. QED BY <1>1, <1>2, <1>3, <1>4 DEF Next

\* INSERT, UPDATE and DELETE do to the records, with their binary searches,
\* windows and interned strings, what they promise to do to the rows: query.go,
\* dml.go.
THEOREM StatementsImplement == Spec => ImplementsQuerySpec
<1>1. Init => Relational!Init BY InitImplements
<1>2. QueryInv /\ [Next]_vars => [Relational!Next]_(Relational!vars) BY StepImplements
<1>3. QED BY <1>1, <1>2, QueryInvariant, PTL DEF Spec, ImplementsQuerySpec, Relational!Spec

-----------------------------------------------------------------------------
(***************************************************************************)
(* SELECT.                                                                 *)
(***************************************************************************)

\* The first n columns of ORDER BY have the same cells.
Same(q, x, y, n) == \A k \in 1..n : Cell(x, q.order[k]) = Cell(y, q.order[k])

Under(q, x, y) ==
    \E n \in DOMAIN q.order : Cell(x, q.order[n]) < Cell(y, q.order[n]) /\ Same(q, x, y, n - 1)

Before(q, v, i, j) ==
    Under(q, v[i], v[j]) \/ (Same(q, v[i], v[j], Len(q.order)) /\ i < j)

\* A tuple may stand in front of another one.
Precedes(q, x, y) ==
    \A n \in DOMAIN q.order : Same(q, x, y, n - 1) => Cell(x, q.order[n]) <= Cell(y, q.order[n])

OrderKept(q, v) == \A i, j \in DOMAIN v : i < j => Precedes(q, v[i], v[j])

\* The columns of ORDER BY and of the result.
LEMMA SelectColumns ==
    ASSUME NEW q \in Selects
    PROVE  /\ IsStatement(q)
           /\ Len(q.order) \in Nat /\ DOMAIN q.order = 1..Len(q.order)
           /\ \A n \in DOMAIN q.order : IsBound(q, q.order[n])
           /\ \A n \in DOMAIN q.columns : IsBound(q, q.columns[n])
BY StatementAssumption DEF IsList

\* The cells of a tuple are numbers.
LEMMA FullCells ==
    ASSUME QueryInv, NEW q \in Selects, NEW x, Accepting(q, Len(q.from), x)
    PROVE  /\ IsFull(q, x)
           /\ \A n \in DOMAIN q.order : Cell(x, q.order[n]) \in Nat
<1>1. IsFull(q, x) BY DEF Accepting, IsFull
<1>2. QED BY <1>1, SelectColumns, ColumnValue

\* Two tuples differ in a first column or in none.
LEMMA SameOrUnder ==
    ASSUME NEW q \in Selects, NEW x, NEW y,
           \A n \in DOMAIN q.order : Cell(x, q.order[n]) \in Nat /\ Cell(y, q.order[n]) \in Nat
    PROVE  Same(q, x, y, Len(q.order)) \/ Under(q, x, y) \/ Under(q, y, x)
<1> DEFINE len == Len(q.order)
           D == {n \in 1..len : Cell(x, q.order[n]) # Cell(y, q.order[n])}
<1>1. len \in Nat /\ DOMAIN q.order = 1..len BY SelectColumns
<1> HIDE DEF len
<1>2. CASE D = {} BY <1>2 DEF Same, len
<1>3. CASE D # {}
  <2>1. D \in SUBSET Nat BY <1>1
  <2>2. PICK m \in D : \A k \in D : m <= k
    <3> HIDE DEF D
    <3>1. QED BY <1>3, <2>1, LeastNumber
  <2>3. m \in 1..len /\ Cell(x, q.order[m]) # Cell(y, q.order[m]) OBVIOUS
  <2>4. ASSUME NEW k \in 1..(m - 1) PROVE Cell(x, q.order[k]) = Cell(y, q.order[k])
    <3>1. k \in 1..len /\ ~(m <= k) BY <1>1, <2>3
    <3>2. QED BY <2>2, <3>1
  <2>5. Same(q, x, y, m - 1) /\ Same(q, y, x, m - 1) BY <2>4 DEF Same
  <2>6. Cell(x, q.order[m]) \in Nat /\ Cell(y, q.order[m]) \in Nat BY <1>1, <2>3
  <2>7. Cell(x, q.order[m]) < Cell(y, q.order[m]) \/ Cell(y, q.order[m]) < Cell(x, q.order[m])
    <3> DEFINE a == Cell(x, q.order[m])
               b == Cell(y, q.order[m])
    <3>1. a \in Nat /\ b \in Nat /\ a # b BY <2>3, <2>6
    <3> HIDE DEF a, b
    <3>2. a < b \/ b < a BY <3>1
    <3>3. QED BY <3>2 DEF a, b
  <2>8. QED BY <1>1, <2>3, <2>5, <2>7 DEF Under
<1>4. QED BY <1>2, <1>3

\* The tuples in front of one that is in front of another are in front of that.
LEMMA UnderTransitive ==
    ASSUME NEW q \in Selects, NEW x, NEW y, NEW z,
           \A n \in DOMAIN q.order : /\ Cell(x, q.order[n]) \in Nat /\ Cell(y, q.order[n]) \in Nat
                                     /\ Cell(z, q.order[n]) \in Nat
    PROVE  /\ Under(q, x, y) /\ Under(q, y, z) => Under(q, x, z)
           /\ Under(q, x, y) /\ Same(q, y, z, Len(q.order)) => Under(q, x, z)
           /\ Same(q, x, y, Len(q.order)) /\ Under(q, y, z) => Under(q, x, z)
           /\ Same(q, x, y, Len(q.order)) /\ Same(q, y, z, Len(q.order))
                => Same(q, x, z, Len(q.order))
<1> DEFINE len == Len(q.order)
           a(n) == Cell(x, q.order[n])
           b(n) == Cell(y, q.order[n])
           c(n) == Cell(z, q.order[n])
<1>1. len \in Nat /\ DOMAIN q.order = 1..len BY SelectColumns
<1>2. \A n \in 1..len : a(n) \in Nat /\ b(n) \in Nat /\ c(n) \in Nat BY <1>1
<1>3. /\ Under(q, x, y) <=> \E n \in 1..len : a(n) < b(n) /\ \A k \in 1..(n - 1) : a(k) = b(k)
      /\ Under(q, y, z) <=> \E n \in 1..len : b(n) < c(n) /\ \A k \in 1..(n - 1) : b(k) = c(k)
      /\ Under(q, x, z) <=> \E n \in 1..len : a(n) < c(n) /\ \A k \in 1..(n - 1) : a(k) = c(k)
      /\ Same(q, x, y, len) <=> \A k \in 1..len : a(k) = b(k)
      /\ Same(q, y, z, len) <=> \A k \in 1..len : b(k) = c(k)
      /\ Same(q, x, z, len) <=> \A k \in 1..len : a(k) = c(k)
  BY <1>1 DEF Under, Same
<1> HIDE DEF len, a, b, c
<1>4. ASSUME NEW n \in 1..len, a(n) < b(n), \A k \in 1..(n - 1) : a(k) = b(k),
             NEW m \in 1..len, b(m) < c(m), \A k \in 1..(m - 1) : b(k) = c(k)
      PROVE  \E p \in 1..len : a(p) < c(p) /\ \A k \in 1..(p - 1) : a(k) = c(k)
  <2>1. CASE n < m
    <3>1. n \in 1..(m - 1) BY <1>1, <2>1
    <3>2. a(n) < c(n) BY <1>2, <1>4, <3>1
    <3>3. \A k \in 1..(n - 1) : k \in 1..(m - 1) BY <1>1, <2>1
    <3>4. \A k \in 1..(n - 1) : a(k) = c(k) BY <1>4, <3>3
    <3>5. QED BY <3>2, <3>4
  <2>2. CASE m < n
    <3>1. m \in 1..(n - 1) BY <1>1, <2>2
    <3>2. a(m) < c(m) BY <1>2, <1>4, <3>1
    <3>3. \A k \in 1..(m - 1) : k \in 1..(n - 1) BY <1>1, <2>2
    <3>4. \A k \in 1..(m - 1) : a(k) = c(k) BY <1>4, <3>3
    <3>5. QED BY <3>2, <3>4
  <2>3. CASE m = n
    <3>1. a(n) < c(n) BY <1>2, <1>4, <2>3
    <3>2. \A k \in 1..(n - 1) : a(k) = c(k) BY <1>4, <2>3
    <3>3. QED BY <3>1, <3>2
  <2>4. n < m \/ m < n \/ m = n BY <1>1
  <2>5. QED BY <2>1, <2>2, <2>3, <2>4
<1>5. \A n \in 1..len : \A k \in 1..(n - 1) : k \in 1..len BY <1>1
<1>6. QED BY <1>3, <1>4, <1>5 DEF len

\* The relation that ORDER BY sorts by is an order of the places.
LEMMA BeforeOrder ==
    ASSUME QueryInv, NEW q \in Selects, NEW v, Gathered(q, Len(q.from), v)
    PROVE  LET all == 1..Len(v) IN
           IsOrder(all, {b \in all \X all : Before(q, v, b[1], b[2])})
<1> DEFINE all == 1..Len(v)
           R == {b \in all \X all : Before(q, v, b[1], b[2])}
<1>1. \A i, j \in all : <<i, j>> \in R <=> Before(q, v, i, j) OBVIOUS
<1>2. Len(v) \in Nat /\ DOMAIN v = all BY DEF Gathered
<1>3. ASSUME NEW i \in all PROVE \A n \in DOMAIN q.order : Cell(v[i], q.order[n]) \in Nat
  <2>1. Accepting(q, Len(q.from), v[i]) BY <1>2 DEF Gathered, Has
  <2>2. QED BY <2>1, FullCells
<1>4. all \subseteq Int OBVIOUS
<1> HIDE DEF all, R
<1>5. ASSUME NEW i \in all PROVE ~Before(q, v, i, i)
  <2>1. ~(i < i) BY <1>4
  <2>2. \A n \in DOMAIN q.order : ~(Cell(v[i], q.order[n]) < Cell(v[i], q.order[n])) BY <1>3
  <2>3. QED BY <2>1, <2>2 DEF Before, Under
<1>6. ASSUME NEW i \in all, NEW j \in all, i # j PROVE Before(q, v, i, j) \/ Before(q, v, j, i)
  <2>1. Same(q, v[i], v[j], Len(q.order)) \/ Under(q, v[i], v[j]) \/ Under(q, v[j], v[i])
    BY <1>3, SameOrUnder
  <2>2. i < j \/ j < i BY <1>4, <1>6
  <2>3. Same(q, v[i], v[j], Len(q.order)) => Same(q, v[j], v[i], Len(q.order)) BY DEF Same
  <2>4. QED BY <2>1, <2>2, <2>3 DEF Before
<1>7. ASSUME NEW i \in all, NEW j \in all, NEW k \in all, Before(q, v, i, j), Before(q, v, j, k)
      PROVE  Before(q, v, i, k)
  <2>1. /\ Under(q, v[i], v[j]) /\ Under(q, v[j], v[k]) => Under(q, v[i], v[k])
        /\ Under(q, v[i], v[j]) /\ Same(q, v[j], v[k], Len(q.order)) => Under(q, v[i], v[k])
        /\ Same(q, v[i], v[j], Len(q.order)) /\ Under(q, v[j], v[k]) => Under(q, v[i], v[k])
        /\ Same(q, v[i], v[j], Len(q.order)) /\ Same(q, v[j], v[k], Len(q.order))
             => Same(q, v[i], v[k], Len(q.order))
    BY <1>3, UnderTransitive
  <2>2. i < j /\ j < k => i < k BY <1>4
  <2>3. QED BY <1>7, <2>1, <2>2 DEF Before
<1>8. IsOrder(all, R) BY <1>1, <1>5, <1>6, <1>7 DEF IsOrder
<1>9. QED BY <1>8 DEF all, R

\* Sorting keeps the tuples and puts them in the order that was asked for.
LEMMA SortedTuples ==
    ASSUME QueryInv, NEW q \in Selects, NEW v, Gathered(q, Len(q.from), v)
    PROVE  Gathered(q, Len(q.from), SortTuples(q, v)) /\ OrderKept(q, SortTuples(q, v))
<1> DEFINE all == 1..Len(v)
           R == {b \in all \X all : Before(q, v, b[1], b[2])}
           o == InOrder(all, R)
           w == SortTuples(q, v)
           N == Cardinality(all)
<1>1. w = [p \in DOMAIN o |-> v[o[p]]] BY DEF SortTuples, Before, Under, Same
<1>2. Len(v) \in Nat /\ DOMAIN v = all /\ v \in Seq(Seq(Recs)) /\ Once(v) BY DEF Gathered
<1>3. IsFiniteSet(all) BY <1>2, FS_Interval
<1>4. IsOrder(all, R) BY BeforeOrder
<1>5. all \subseteq Int /\ \A i, j \in all : <<i, j>> \in R => Before(q, v, i, j) OBVIOUS
<1>6. \A i \in all : v[i] \in Seq(Recs) BY <1>2
<1> HIDE DEF all, R, w
<1>7. Lists(o, all, R) BY <1>3, <1>4, InOrderLists
<1> HIDE DEF o
<1>8. /\ N \in Nat /\ o \in [1..N -> all]
      /\ \A i \in all : \E p \in 1..N : o[p] = i
      /\ \A p, r \in 1..N : p < r => <<o[p], o[r]>> \in R
  BY <1>7 DEF Lists
<1> HIDE DEF N
<1>9. w = [p \in 1..N |-> v[o[p]]] /\ DOMAIN w = 1..N BY <1>1, <1>8
<1>10. w \in Seq(Seq(Recs))
  <2>1. \A p \in 1..N : v[o[p]] \in Seq(Recs) BY <1>6, <1>8
  <2>2. w \in [1..N -> Seq(Recs)] BY <1>9, <2>1
  <2>3. QED BY <1>8, <2>2, SeqDef
<1>11. ASSUME NEW x PROVE Has(w, x) <=> Has(v, x) BY <1>2, <1>8, <1>9 DEF Has
<1>12. Once(w)
  <2>1. ASSUME NEW p \in 1..N, NEW r \in 1..N, w[p] = w[r], p < r PROVE FALSE
    <3>1. o[p] = o[r] BY <1>2, <1>8, <1>9, <2>1 DEF Once
    <3>2. <<o[p], o[p]>> \in R /\ o[p] \in all BY <1>8, <2>1, <3>1
    <3>3. QED BY <1>4, <3>2 DEF IsOrder
  <2>2. \A p, r \in 1..N : p = r \/ p < r \/ r < p BY <1>8
  <2>3. QED BY <1>9, <2>1, <2>2 DEF Once
<1>13. ASSUME NEW p \in 1..N, NEW r \in 1..N, p < r PROVE Precedes(q, w[p], w[r])
  <2>1. o[p] \in all /\ o[r] \in all /\ Before(q, v, o[p], o[r]) BY <1>5, <1>8, <1>13
  <2> DEFINE x == v[o[p]]
             y == v[o[r]]
  <2>2. w[p] = x /\ w[r] = y BY <1>9
  <2>3. Accepting(q, Len(q.from), x) /\ Accepting(q, Len(q.from), y)
    BY <1>2, <2>1 DEF Gathered, Has
  <2>4. \A n \in DOMAIN q.order : Cell(x, q.order[n]) \in Nat /\ Cell(y, q.order[n]) \in Nat
    BY <2>3, FullCells
  <2>5. Under(q, x, y) \/ Same(q, x, y, Len(q.order)) BY <2>1 DEF Before
  <2> HIDE DEF x, y
  <2>6. DOMAIN q.order = 1..Len(q.order) /\ Len(q.order) \in Nat BY SelectColumns
  <2>7. CASE Same(q, x, y, Len(q.order))
    <3>1. \A n \in DOMAIN q.order : Cell(x, q.order[n]) = Cell(y, q.order[n])
      BY <2>6, <2>7 DEF Same
    <3>2. \A n \in DOMAIN q.order : Cell(x, q.order[n]) <= Cell(y, q.order[n]) BY <2>4, <3>1
    <3>3. QED BY <2>2, <3>2 DEF Precedes
  <2>8. CASE Under(q, x, y)
    <3>1. PICK m \in DOMAIN q.order :
            Cell(x, q.order[m]) < Cell(y, q.order[m]) /\ Same(q, x, y, m - 1)
      BY <2>8 DEF Under
    <3>2. ASSUME NEW n \in DOMAIN q.order, Same(q, x, y, n - 1)
          PROVE  Cell(x, q.order[n]) <= Cell(y, q.order[n])
      <4>1. CASE n < m
        <5>1. n \in 1..(m - 1) BY <2>6, <4>1
        <5>2. Cell(x, q.order[n]) = Cell(y, q.order[n]) BY <3>1, <5>1 DEF Same
        <5>3. QED BY <2>4, <5>2
      <4>2. CASE m < n
        <5>1. m \in 1..(n - 1) BY <2>6, <4>2
        <5>2. Cell(x, q.order[m]) = Cell(y, q.order[m]) BY <3>2, <5>1 DEF Same
        <5>3. QED BY <2>4, <3>1, <5>2
      <4>3. CASE n = m BY <2>4, <3>1, <4>3
      <4>4. n < m \/ m < n \/ n = m BY <2>6
      <4>5. QED BY <4>1, <4>2, <4>3, <4>4
    <3>3. QED BY <2>2, <3>2 DEF Precedes
  <2>9. QED BY <2>5, <2>7, <2>8
<1>14. OrderKept(q, w) BY <1>9, <1>13 DEF OrderKept
<1>15. Gathered(q, Len(q.from), w) BY <1>10, <1>11, <1>12 DEF Gathered
<1>16. QED BY <1>14, <1>15 DEF w

\* What SELECT has before it drops duplicates.
Sorted(q) == IF q.order = <<>> THEN Gather(q) ELSE SortTuples(q, Gather(q))

\* It is every accepted tuple once, in the order that was asked for.
LEMMA SortedGathered ==
    ASSUME QueryInv, NEW q \in Selects
    PROVE  Gathered(q, Len(q.from), Sorted(q)) /\ OrderKept(q, Sorted(q))
<1>1. Gathered(q, Len(q.from), Gather(q)) BY SelectColumns, GatherAccepts
<1>2. CASE q.order # <<>> BY <1>1, <1>2, SortedTuples DEF Sorted
<1>3. CASE q.order = <<>>
  <2>1. DOMAIN q.order = {} BY <1>3
  <2>2. OrderKept(q, Gather(q)) BY <2>1 DEF OrderKept, Precedes
  <2>3. QED BY <1>1, <1>3, <2>2 DEF Sorted
<1>4. QED BY <1>2, <1>3

\* The result record of a tuple.
Result(q, x) == [n \in DOMAIN q.columns |-> Cell(x, q.columns[n])]

\* Tuples of v, one of each result and in their order.
OneOfEach(q, v, w) ==
    /\ \A p \in DOMAIN w : Has(v, w[p])
    /\ \A p, r \in DOMAIN w : Result(q, w[p]) = Result(q, w[r]) => p = r
    /\ \A x : Has(v, x) => \E p \in DOMAIN w : Result(q, w[p]) = Result(q, x)
    /\ OrderKept(q, w)

\* DISTINCT leaves one tuple of each result.
LEMMA DistinctTuples ==
    ASSUME NEW q, NEW n, NEW v, Gathered(q, n, v), OrderKept(q, v)
    PROVE  OneOfEach(q, v, Distinct(q, v))
<1> DEFINE res(i) == Result(q, v[i])
           places == {i \in DOMAIN v : \A j \in 1..(i - 1) : res(j) # res(i)}
           w == Distinct(q, v)
<1>1. v \in Seq(Seq(Recs)) /\ Len(v) \in Nat /\ DOMAIN v = 1..Len(v) BY DEF Gathered
<1>2. w = Picked(v, places) BY DEF Distinct, Result
<1>3. places \in SUBSET DOMAIN v OBVIOUS
<1>4. ASSUME NEW i \in places, NEW j \in places, res(i) = res(j) PROVE i = j
  <2>1. i \in 1..Len(v) /\ j \in 1..Len(v) BY <1>1
  <2>2. ~(i \in 1..(j - 1)) /\ ~(j \in 1..(i - 1)) BY <1>4
  <2> HIDE DEF res, places
  <2>3. QED BY <1>1, <2>1, <2>2
<1>5. ASSUME NEW i \in DOMAIN v PROVE \E m \in places : res(m) = res(i)
  <2> DEFINE S == {k \in DOMAIN v : res(k) = res(i)}
  <2>1. S \in SUBSET Nat /\ S # {} BY <1>1
  <2>2. PICK m \in S : \A k \in S : m <= k
    <3> HIDE DEF S
    <3>1. QED BY <2>1, LeastNumber
  <2>3. m \in 1..Len(v) /\ res(m) = res(i) BY <1>1
  <2>4. ASSUME NEW j \in 1..(m - 1) PROVE res(j) # res(m)
    <3>1. j \in 1..Len(v) /\ ~(m <= j) BY <1>1, <2>3
    <3>2. j \notin S BY <2>2, <3>1
    <3>3. QED BY <1>1, <2>3, <3>1, <3>2
  <2>5. m \in places BY <1>1, <2>3, <2>4
  <2>6. QED BY <2>3, <2>5
<1> HIDE DEF w, places
<1>6. Thinned(w, v, places) BY <1>1, <1>2, <1>3, PickedThinned
<1>7. PICK N \in Nat : \E at \in [1..N -> places] :
        /\ w = [p \in 1..N |-> v[at[p]]]
        /\ \A i \in places : \E p \in 1..N : at[p] = i
        /\ \A p, r \in 1..N : p < r => at[p] < at[r]
  BY <1>6 DEF Thinned
<1>7a. PICK at \in [1..N -> places] :
        /\ w = [p \in 1..N |-> v[at[p]]]
        /\ \A i \in places : \E p \in 1..N : at[p] = i
        /\ \A p, r \in 1..N : p < r => at[p] < at[r]
  BY <1>7
<1>8. DOMAIN w = 1..N /\ \A p \in 1..N : w[p] = v[at[p]] /\ at[p] \in places BY <1>7a
<1>9. \A p \in DOMAIN w : Has(v, w[p]) BY <1>3, <1>8 DEF Has
<1>10. ASSUME NEW p \in 1..N, NEW r \in 1..N, Result(q, w[p]) = Result(q, w[r]) PROVE p = r
  <2>1. at[p] = at[r] BY <1>4, <1>8, <1>10
  <2>2. at[p] \in Nat BY <1>1, <1>3, <1>8
  <2>3. ~(p < r) /\ ~(r < p) BY <1>7a, <2>1, <2>2
  <2>4. QED BY <2>3
<1>11. ASSUME NEW x, Has(v, x) PROVE \E p \in DOMAIN w : Result(q, w[p]) = Result(q, x)
  <2>1. PICK i \in DOMAIN v : v[i] = x BY <1>11 DEF Has
  <2>2. PICK m \in places : res(m) = res(i) BY <1>5
  <2>3. PICK p \in 1..N : at[p] = m BY <1>7a
  <2>4. QED BY <1>8, <2>1, <2>2, <2>3
<1>12. OrderKept(q, w)
  <2>1. ASSUME NEW p \in 1..N, NEW r \in 1..N, p < r PROVE Precedes(q, w[p], w[r])
    <3>1. at[p] < at[r] /\ at[p] \in DOMAIN v /\ at[r] \in DOMAIN v BY <1>3, <1>7a, <1>8, <2>1
    <3>2. QED BY <1>8, <3>1 DEF OrderKept
  <2>2. QED BY <1>8, <2>1 DEF OrderKept
<1>13. QED BY <1>8, <1>9, <1>10, <1>11, <1>12 DEF OneOfEach, w

\* Different tuples of records are different tuples of rows.
LEMMA TuplesDiffer ==
    ASSUME QueryInv, NEW q, IsStatement(q), NEW x, Accepting(q, Len(q.from), x),
           NEW y, Accepting(q, Len(q.from), y), RowsOf(q, x) = RowsOf(q, y)
    PROVE  x = y
<1>1. x \in Seq(Recs) /\ y \in Seq(Recs) /\ Len(x) = Len(q.from) /\ Len(y) = Len(q.from)
  BY DEF Accepting, IsTuple
<1>2. ASSUME NEW i \in 1..Len(q.from) PROVE x[i] = y[i]
  <2>1. i \in DOMAIN q.from BY Statement
  <2>2. /\ q.from[i] \in Tables /\ Fits(ids, q.from[i], x[i]) /\ Fits(ids, q.from[i], y[i])
        /\ RowsOf(q, x)[i] = RowOf(ids, q.from[i], x[i])
        /\ RowsOf(q, y)[i] = RowOf(ids, q.from[i], y[i])
    BY <2>1, TupleRecords
  <2>3. RowOf(ids, q.from[i], x[i]) = RowOf(ids, q.from[i], y[i]) BY <2>2
  <2>4. QED BY <2>2, <2>3, RowsDiffer DEF QueryInv
<1>3. QED BY <1>1, <1>2

\* Columns of two tuples have the same cells when they have the same values.
LEMMA SameValues ==
    ASSUME QueryInv, NEW q, IsStatement(q), NEW x, IsFull(q, x), NEW y, IsFull(q, y),
           NEW col, IsBound(q, col)
    PROVE  Cell(x, col) = Cell(y, col)
             <=> Relational!Value(RowsOf(q, x), col) = Relational!Value(RowsOf(q, y), col)
<1>1. /\ Relational!Value(RowsOf(q, x), col) = Means(ids, Column(q, col), Cell(x, col))
      /\ Relational!Value(RowsOf(q, y), col) = Means(ids, Column(q, col), Cell(y, col))
      /\ Cell(x, col) \in CellsOf(ids, Column(q, col)) /\ Cell(y, col) \in CellsOf(ids, Column(q, col))
      /\ IsColumn(Column(q, col))
  BY ColumnValue
<1>2. Pool(ids) BY DEF QueryInv
<1>3. QED BY <1>1, <1>2, MeansDiffer

\* Results are equal when the projections are.
LEMMA SameProjections ==
    ASSUME QueryInv, NEW q \in Selects, NEW x, IsFull(q, x), NEW y, IsFull(q, y)
    PROVE  Result(q, x) = Result(q, y)
             <=> Relational!Projection(q, RowsOf(q, x)) = Relational!Projection(q, RowsOf(q, y))
<1> DEFINE val(z, n) == Relational!Value(RowsOf(q, z), q.columns[n])
           D == DOMAIN q.columns
<1>1. \A n \in D : Cell(x, q.columns[n]) = Cell(y, q.columns[n]) <=> val(x, n) = val(y, n)
  BY SelectColumns, SameValues
<1>2. /\ Relational!Projection(q, RowsOf(q, x)) = [n \in D |-> val(x, n)]
      /\ Relational!Projection(q, RowsOf(q, y)) = [n \in D |-> val(y, n)]
  BY DEF Relational!Projection
<1>3. /\ Result(q, x) = [n \in D |-> Cell(x, q.columns[n])]
      /\ Result(q, y) = [n \in D |-> Cell(y, q.columns[n])]
  BY DEF Result
<1> HIDE DEF val, D
<1>4. [n \in D |-> val(x, n)] = [n \in D |-> val(y, n)] <=> \A n \in D : val(x, n) = val(y, n)
  <2> DEFINE f == [n \in D |-> val(x, n)]
             g == [n \in D |-> val(y, n)]
  <2>1. \A n \in D : f[n] = val(x, n) /\ g[n] = val(y, n) OBVIOUS
  <2>2. f = g => \A n \in D : val(x, n) = val(y, n)
    <3> HIDE DEF f, g
    <3>1. QED BY <2>1
  <2>3. (\A n \in D : val(x, n) = val(y, n)) => f = g OBVIOUS
  <2>4. QED BY <2>2, <2>3
<1>5. Result(q, x) = Result(q, y)
        <=> \A n \in D : Cell(x, q.columns[n]) = Cell(y, q.columns[n])
  <2>1. \A n \in D : Result(q, x)[n] = Cell(x, q.columns[n]) /\ Result(q, y)[n] = Cell(y, q.columns[n])
    BY <1>3
  <2>2. QED BY <1>3, <2>1
<1>6. QED BY <1>1, <1>2, <1>4, <1>5

\* The columns of ORDER BY have the same cells when they have the same values.
LEMMA SamePrefix ==
    ASSUME QueryInv, NEW q \in Selects, NEW x, IsFull(q, x), NEW y, IsFull(q, y),
           NEW n \in 0..Len(q.order)
    PROVE  Same(q, x, y, n)
             <=> Relational!Prefix(q, RowsOf(q, x), n) = Relational!Prefix(q, RowsOf(q, y), n)
<1> DEFINE val(z, k) == Relational!Value(RowsOf(q, z), q.order[k])
           f == [k \in 1..n |-> val(x, k)]
           g == [k \in 1..n |-> val(y, k)]
<1>1. \A k \in 1..n : k \in DOMAIN q.order
  <2> DEFINE len == Len(q.order)
  <2>1. len \in Nat /\ DOMAIN q.order = 1..len /\ n \in 0..len BY SelectColumns
  <2> HIDE DEF len
  <2>2. QED BY <2>1
<1>2. \A k \in 1..n : Cell(x, q.order[k]) = Cell(y, q.order[k]) <=> val(x, k) = val(y, k)
  BY <1>1, SelectColumns, SameValues
<1>3. /\ Relational!Prefix(q, RowsOf(q, x), n) = f
      /\ Relational!Prefix(q, RowsOf(q, y), n) = g
  BY DEF Relational!Prefix
<1>4. \A k \in 1..n : f[k] = val(x, k) /\ g[k] = val(y, k) OBVIOUS
<1>5. (\A k \in 1..n : val(x, k) = val(y, k)) => f = g OBVIOUS
<1> HIDE DEF f, g, val
<1>6. QED BY <1>2, <1>3, <1>4, <1>5 DEF Same

\* What stands between two tuples with the same first columns has them, too.
LEMMA Between ==
    ASSUME NEW q \in Selects, NEW x, NEW y, NEW z, NEW n \in DOMAIN q.order,
           \A k \in DOMAIN q.order : Cell(x, q.order[k]) \in Nat /\ Cell(y, q.order[k]) \in Nat,
           Precedes(q, x, y), Precedes(q, y, z), Same(q, x, z, n)
    PROVE  Same(q, y, x, n)
<1> DEFINE D == {k \in 1..n : Cell(y, q.order[k]) # Cell(x, q.order[k])}
<1>1. n \in Nat /\ \A k \in 1..n : k \in DOMAIN q.order
  <2> DEFINE len == Len(q.order)
  <2>1. len \in Nat /\ DOMAIN q.order = 1..len /\ n \in DOMAIN q.order BY SelectColumns
  <2> HIDE DEF len
  <2>2. QED BY <2>1
<1>2. CASE D = {} BY <1>2 DEF Same
<1>3. CASE D # {}
  <2>1. D \in SUBSET Nat BY <1>1
  <2>2. PICK m \in D : \A k \in D : m <= k
    <3> HIDE DEF D
    <3>1. QED BY <1>3, <2>1, LeastNumber
  <2>3. m \in 1..n /\ Cell(y, q.order[m]) # Cell(x, q.order[m]) OBVIOUS
  <2>4. ASSUME NEW k \in 1..(m - 1) PROVE Cell(y, q.order[k]) = Cell(x, q.order[k])
    <3>1. k \in 1..n /\ ~(m <= k) BY <1>1, <2>3
    <3>2. QED BY <2>2, <3>1
  <2>5. \A k \in 1..(m - 1) : k \in 1..n BY <1>1, <2>3
  <2>6. Same(q, x, y, m - 1) BY <2>4 DEF Same
  <2>7. Same(q, y, z, m - 1) BY <2>4, <2>5 DEF Same
  <2>8. Cell(x, q.order[m]) <= Cell(y, q.order[m]) BY <1>1, <2>3, <2>6 DEF Precedes
  <2>9. Cell(y, q.order[m]) <= Cell(z, q.order[m]) BY <1>1, <2>3, <2>7 DEF Precedes
  <2>10. Cell(x, q.order[m]) = Cell(z, q.order[m]) BY <2>3 DEF Same
  <2> DEFINE a == Cell(x, q.order[m])
             b == Cell(y, q.order[m])
  <2>11. a \in Nat /\ b \in Nat /\ a <= b /\ b <= a /\ a # b BY <1>1, <2>3, <2>8, <2>9, <2>10
  <2> HIDE DEF a, b
  <2>12. QED BY <2>11
<1>4. QED BY <1>2, <1>3

\* Cells of integers are in the order of the values.
LEMMA CellsInOrder ==
    ASSUME QueryInv, NEW c, IsColumn(c), c.type = "integer",
           NEW a \in CellsOf(ids, c), NEW b \in CellsOf(ids, c), a <= b
    PROVE  /\ ~Relational!Less(Means(ids, c, b), Means(ids, c, a))
           /\ Means(ids, c, b) = Null => Means(ids, c, a) = Null
<1> DEFINE S == SignBit[c.size]
           x == Means(ids, c, a)
           y == Means(ids, c, b)
<1>1. /\ a \in Nat /\ b \in Nat
      /\ a = 0 <=> x = Null
      /\ b = 0 <=> y = Null
      /\ a # 0 => x = a - S
      /\ b # 0 => y = b - S
  BY CellMeans DEF QueryInv
<1>2. S \in Nat
  <2>1. c.size \in {2, 4} BY DEF IsColumn
  <2>2. QED BY <2>1, QueryAssumption
<1> HIDE DEF S, x, y
<1>3. y = Null => x = Null
  <2>1. b = 0 => a = 0 BY <1>1
  <2>2. QED BY <1>1, <2>1
<1>4. ASSUME y # Null, x # Null, y < x PROVE FALSE
  <2>1. y = b - S /\ x = a - S BY <1>1, <1>4
  <2>2. QED BY <1>1, <1>2, <1>4, <2>1
<1>5. QED BY <1>3, <1>4 DEF Relational!Less, x, y

\* Tuples in the order that was asked for mean rows in that order.
LEMMA OrderMeans ==
    ASSUME QueryInv, NEW q \in Selects, NEW N \in Nat, NEW w, DOMAIN w = 1..N, OrderKept(q, w),
           \A p \in DOMAIN w : Accepting(q, Len(q.from), w[p])
    PROVE  Relational!IsOrdered(q, [i \in DOMAIN w |-> RowsOf(q, w[i])])
<1> DEFINE r == [i \in DOMAIN w |-> RowsOf(q, w[i])]
           val(i, n) == Relational!Value(r[i], q.order[n])
           col(n) == Column(q, q.order[n])
<1>1. DOMAIN r = 1..N /\ \A i \in 1..N : r[i] = RowsOf(q, w[i]) OBVIOUS
<1>2. /\ Len(q.order) \in Nat /\ DOMAIN q.order = 1..Len(q.order) /\ IsStatement(q)
      /\ \A n \in DOMAIN q.order : IsBound(q, q.order[n])
  BY SelectColumns
<1>3. \A i \in 1..N : /\ IsFull(q, w[i])
                      /\ \A n \in DOMAIN q.order : Cell(w[i], q.order[n]) \in Nat
  BY FullCells
<1>4. \A i \in 1..N : \A n \in DOMAIN q.order :
        /\ val(i, n) = Means(ids, col(n), Cell(w[i], q.order[n]))
        /\ Cell(w[i], q.order[n]) \in CellsOf(ids, col(n))
        /\ IsColumn(col(n))
  BY <1>1, <1>2, <1>3, ColumnValue
<1>5. \A n \in DOMAIN q.order : n \in 0..Len(q.order) /\ n - 1 \in 0..Len(q.order)
  <2> DEFINE len == Len(q.order)
  <2>1. len \in Nat /\ DOMAIN q.order = 1..len BY <1>2
  <2> HIDE DEF len
  <2>2. \A n \in 1..len : n \in 0..len /\ n - 1 \in 0..len BY <2>1
  <2>3. QED BY <2>1, <2>2 DEF len
<1>6. ASSUME NEW n \in 0..Len(q.order), NEW i \in 1..N, NEW j \in 1..N
      PROVE  Same(q, w[i], w[j], n)
               <=> Relational!Prefix(q, r[i], n) = Relational!Prefix(q, r[j], n)
  BY <1>1, <1>3, SamePrefix
<1> HIDE DEF r
<1>7. ASSUME NEW n \in DOMAIN q.order, NEW i \in 1..N, NEW j \in 1..N, i < j,
             Relational!Prefix(q, r[i], n - 1) = Relational!Prefix(q, r[j], n - 1)
      PROVE  /\ col(n).type = "integer" =>
                  ~Relational!Less(val(j, n), val(i, n)) /\ (val(j, n) = Null => val(i, n) = Null)
             /\ val(i, n) # val(j, n)
                  \/ \A k \in i..j : Relational!Prefix(q, r[k], n) = Relational!Prefix(q, r[i], n)
  <2>1. Same(q, w[i], w[j], n - 1) BY <1>5, <1>6, <1>7
  <2>2. Cell(w[i], q.order[n]) <= Cell(w[j], q.order[n])
    BY <1>7, <2>1 DEF OrderKept, Precedes
  <2>3. ASSUME col(n).type = "integer"
        PROVE  ~Relational!Less(val(j, n), val(i, n)) /\ (val(j, n) = Null => val(i, n) = Null)
    <3> HIDE DEF val, col
    <3>1. QED BY <1>4, <2>2, <2>3, CellsInOrder
  <2>4. ASSUME val(i, n) = val(j, n), NEW k \in i..j
        PROVE  Relational!Prefix(q, r[k], n) = Relational!Prefix(q, r[i], n)
    <3>1. k \in 1..N BY <1>7
    <3>2. Cell(w[i], q.order[n]) = Cell(w[j], q.order[n])
      <4> HIDE DEF val, col
      <4>1. QED BY <1>4, <2>4, MeansDiffer DEF QueryInv
    <3>3. Same(q, w[i], w[j], n)
      <4>1. n \in Nat BY <1>5
      <4>2. \A m \in 1..n : m \in 1..(n - 1) \/ m = n BY <4>1
      <4>3. QED BY <2>1, <3>2, <4>2 DEF Same
    <3>4. CASE k = i BY <3>4
    <3>5. CASE k = j
      <4>1. Same(q, w[j], w[i], n) BY <3>3 DEF Same
      <4>2. QED BY <1>5, <1>6, <3>5, <4>1
    <3>6. CASE i < k /\ k < j
      <4>1. Precedes(q, w[i], w[k]) /\ Precedes(q, w[k], w[j]) BY <3>1, <3>6 DEF OrderKept
      <4>2. Same(q, w[k], w[i], n) BY <1>3, <3>1, <3>3, <4>1, Between
      <4>3. QED BY <1>5, <1>6, <3>1, <4>2
    <3>7. QED BY <3>1, <3>4, <3>5, <3>6
  <2>5. QED BY <2>3, <2>4
<1>8. \A n \in DOMAIN q.order : col(n) = Schema[q.from[q.order[n].table]][q.order[n].cell]
  BY DEF Column
<1> HIDE DEF val, col
<1>9. ASSUME NEW n \in DOMAIN q.order, NEW i \in DOMAIN r, NEW j \in DOMAIN r
      PROVE  LET integer == Schema[q.from[q.order[n].table]][q.order[n].cell].type = "integer" IN
             i < j /\ Relational!Prefix(q, r[i], n - 1) = Relational!Prefix(q, r[j], n - 1) =>
               /\ integer => ~Relational!Less(val(j, n), val(i, n))
                               /\ (val(j, n) = Null => val(i, n) = Null)
               /\ val(i, n) # val(j, n)
                    \/ \A k \in i..j : Relational!Prefix(q, r[k], n) = Relational!Prefix(q, r[i], n)
  BY <1>1, <1>7, <1>8
<1>9a. Relational!IsOrdered(q, r) BY <1>9, Zenon DEF Relational!IsOrdered, val
<1>10. QED BY <1>9a DEF r

\* The rows of a result.
Answer(q, w) == [i \in DOMAIN w |-> RowsOf(q, w[i])]

\* Without DISTINCT the result is complete.
LEMMA AllComplete ==
    ASSUME QueryInv, NEW q \in Selects, ~q.distinct, NEW w, Gathered(q, Len(q.from), w)
    PROVE  Relational!IsComplete(q, Answer(q, w))
<1> DEFINE r == Answer(q, w)
           accepted == Relational!Accepted(q)
<1>1. IsStatement(q) BY SelectColumns
<1>2. DOMAIN r = DOMAIN w /\ \A i \in DOMAIN w : r[i] = RowsOf(q, w[i]) BY DEF Answer
<1>3. \A i \in DOMAIN w : Accepting(q, Len(q.from), w[i]) BY DEF Gathered, Has
<1>4. \A y : y \in accepted <=> \E x : Accepting(q, Len(q.from), x) /\ y = RowsOf(q, x)
  BY <1>1, AcceptedRows
<1> HIDE DEF r, accepted
<1>5. \A i \in DOMAIN r : r[i] \in accepted BY <1>2, <1>3, <1>4
<1>6. \A y \in accepted : \E i \in DOMAIN r : y = r[i]
  BY <1>2, <1>4 DEF Gathered, Has
<1>7. ASSUME NEW i \in DOMAIN r, NEW j \in DOMAIN r, r[i] = r[j] PROVE i = j
  <2>1. w[i] = w[j] BY <1>1, <1>2, <1>3, <1>7, TuplesDiffer
  <2>2. QED BY <1>2, <2>1 DEF Gathered, Once
<1>8. {y : y \in accepted} = {r[i] : i \in DOMAIN r} BY <1>5, <1>6
<1>9. \A i \in DOMAIN r : [k \in DOMAIN r |-> r[k]][i] = r[i] OBVIOUS
<1>10. {[k \in DOMAIN r |-> r[k]][i] : i \in DOMAIN r} = {r[i] : i \in DOMAIN r} BY <1>9
<1>11. Relational!IsComplete(q, r)
  BY <1>5, <1>7, <1>8, <1>10 DEF Relational!IsComplete, accepted
<1>12. QED BY <1>11 DEF r

\* With DISTINCT every result is there once.
LEMMA DistinctComplete ==
    ASSUME QueryInv, NEW q \in Selects, q.distinct, NEW v, Gathered(q, Len(q.from), v),
           NEW w, OneOfEach(q, v, w)
    PROVE  Relational!IsComplete(q, Answer(q, w))
<1> DEFINE r == Answer(q, w)
           accepted == Relational!Accepted(q)
           shown(y) == Relational!Projection(q, y)
           at == [i \in DOMAIN r |-> shown(r[i])]
<1>1. IsStatement(q) BY SelectColumns
<1>2. DOMAIN r = DOMAIN w /\ \A i \in DOMAIN w : r[i] = RowsOf(q, w[i]) BY DEF Answer
<1>3. \A i \in DOMAIN w : Accepting(q, Len(q.from), w[i]) BY DEF Gathered, OneOfEach
<1>4. \A y : y \in accepted <=> \E x : Accepting(q, Len(q.from), x) /\ y = RowsOf(q, x)
  BY <1>1, AcceptedRows
<1>5. \A x, y : Accepting(q, Len(q.from), x) /\ Accepting(q, Len(q.from), y) =>
        (Result(q, x) = Result(q, y) <=> shown(RowsOf(q, x)) = shown(RowsOf(q, y)))
  BY FullCells, SameProjections
<1>6. DOMAIN at = DOMAIN r /\ \A i \in DOMAIN r : at[i] = shown(r[i]) OBVIOUS
<1> HIDE DEF r, accepted, shown, at
<1>7. \A i \in DOMAIN r : r[i] \in accepted BY <1>2, <1>3, <1>4
<1>8. ASSUME NEW y \in accepted PROVE \E i \in DOMAIN r : shown(y) = at[i]
  <2>1. PICK x : Accepting(q, Len(q.from), x) /\ y = RowsOf(q, x) BY <1>4
  <2>2. Has(v, x) BY <2>1 DEF Gathered
  <2>3. PICK i \in DOMAIN w : Result(q, w[i]) = Result(q, x) BY <2>2 DEF OneOfEach
  <2>4. shown(RowsOf(q, w[i])) = shown(RowsOf(q, x)) BY <1>3, <1>5, <2>1, <2>3
  <2>5. QED BY <1>2, <1>6, <2>1, <2>4
<1>9. ASSUME NEW i \in DOMAIN r, NEW j \in DOMAIN r, at[i] = at[j] PROVE i = j
  <2>1. Result(q, w[i]) = Result(q, w[j]) BY <1>2, <1>3, <1>5, <1>6, <1>9
  <2>2. QED BY <1>2, <2>1 DEF OneOfEach
<1>10. {shown(y) : y \in accepted} = {at[i] : i \in DOMAIN r} BY <1>6, <1>7, <1>8
<1>11. Relational!IsComplete(q, r)
  BY <1>7, <1>9, <1>10 DEF Relational!IsComplete, accepted, shown, at
<1>12. QED BY <1>11 DEF r

\* SELECT answers with what it should.
LEMMA SelectIsAnswer ==
    ASSUME QueryInv, NEW q \in Selects
    PROVE  Relational!IsAnswer(q, Answer(q, Select(q)))
<1>1. Gathered(q, Len(q.from), Sorted(q)) /\ OrderKept(q, Sorted(q)) BY SortedGathered
<1>2. Select(q) = IF q.distinct THEN Distinct(q, Sorted(q)) ELSE Sorted(q)
  BY DEF Select, Sorted
<1>3. CASE ~q.distinct
  <2> DEFINE w == Sorted(q)
             N == Len(w)
  <2>1. N \in Nat /\ DOMAIN w = 1..N BY <1>1 DEF Gathered
  <2>2. \A p \in DOMAIN w : Accepting(q, Len(q.from), w[p]) BY <1>1 DEF Gathered, Has
  <2> HIDE DEF N, w
  <2>3. Relational!IsOrdered(q, Answer(q, w)) BY <1>1, <2>1, <2>2, OrderMeans DEF Answer, w
  <2>4. Relational!IsComplete(q, Answer(q, w)) BY <1>1, <1>3, AllComplete DEF w
  <2>5. QED BY <1>2, <1>3, <2>3, <2>4 DEF Relational!IsAnswer, w
<1>4. CASE q.distinct
  <2> DEFINE w == Distinct(q, Sorted(q))
  <2>1. OneOfEach(q, Sorted(q), w) BY <1>1, DistinctTuples
  <2>2. \E N \in Nat : DOMAIN w = 1..N
    <3> DEFINE v == Sorted(q)
               places == {i \in DOMAIN v : \A j \in 1..(i - 1) : Result(q, v[j]) # Result(q, v[i])}
    <3>1. w = Picked(v, places) BY DEF Distinct, Result
    <3>2. v \in Seq(Seq(Recs)) /\ places \in SUBSET DOMAIN v BY <1>1 DEF Gathered
    <3> HIDE DEF v, places, w
    <3>3. Thinned(w, v, places) BY <3>1, <3>2, PickedThinned
    <3>4. QED BY <3>3 DEF Thinned
  <2>3. \A p \in DOMAIN w : Accepting(q, Len(q.from), w[p]) BY <1>1, <2>1 DEF Gathered, OneOfEach
  <2>4. OrderKept(q, w) BY <2>1 DEF OneOfEach
  <2> HIDE DEF w
  <2>5. Relational!IsOrdered(q, Answer(q, w)) BY <2>2, <2>3, <2>4, OrderMeans DEF Answer
  <2>6. Relational!IsComplete(q, Answer(q, w)) BY <1>1, <1>4, <2>1, DistinctComplete
  <2>7. QED BY <1>2, <1>4, <2>5, <2>6 DEF Relational!IsAnswer, w
<1>5. QED BY <1>3, <1>4

\* SELECT returns every combination of rows that its WHERE clause accepts, as
\* often and in the order that it should: the binary searches of query.go leave
\* out none, and neither do the nested loops, the sort and DISTINCT.
THEOREM SelectsAreAnswers == Spec => []SelectsAnswer
<1>1. QueryInv => SelectsAnswer
  <2> SUFFICES ASSUME QueryInv PROVE SelectsAnswer OBVIOUS
  <2>1. ASSUME NEW q \in Selects, NEW w
        PROVE  Answer(q, w) = [i \in DOMAIN w |->
                   [n \in DOMAIN q.from |-> Row(q.from[n], w[i][n])]]
    BY DEF Answer, RowsOf, RowOf, Row, Means, Meaning
  <2>2. \A q \in Selects : Relational!IsAnswer(q, Answer(q, Select(q))) BY SelectIsAnswer
  <2>3. QED BY <2>1, <2>2 DEF SelectsAnswer
<1>2. QED BY <1>1, QueryInvariant, PTL
=============================================================================
