-------------------------- MODULE StreamNameProofs --------------------------
(***************************************************************************)
(* That streams are found again under their names when the file is read,   *)
(* and that the names fit in a compound file, for any names and alphabet.  *)
(***************************************************************************)
EXTENDS StreamName, FiniteSetTheorems, FunctionTheorems, SequenceTheorems,
        WellFoundedInduction, TLAPS

-----------------------------------------------------------------------------
(***************************************************************************)
(* Induction, and functions defined by recursion.                          *)
(***************************************************************************)

\* A set of numbers that is not empty has a least one.
LEMMA LeastNumber ==
    ASSUME NEW S \in SUBSET Nat, S # {}
    PROVE  \E m \in S : \A k \in S : m <= k
<1> DEFINE R == {ss \in Nat \X Nat : ss[1] < ss[2]}
<1>1. IsWellFoundedOn(R, Nat)
  BY NatLessThanWellFounded DEF OpToRel
<1>2. \A k, m \in Nat : k < m => <<k, m>> \in R
  OBVIOUS
<1> HIDE DEF R
<1>3. PICK m \in S : \A k \in S : ~(<<k, m>> \in R)
  BY <1>1, WFMin
<1>4. ASSUME NEW k \in S PROVE m <= k
  <2>1. ~(k < m)
    BY <1>2, <1>3
  <2>. QED  BY <2>1
<1>. QED  BY <1>4

\* Induction: a set of numbers with 0 and the successors of its members has all.
LEMMA Induction ==
    ASSUME NEW P \in SUBSET Nat, 0 \in P, \A n \in P : n + 1 \in P
    PROVE  P = Nat
<1>1. SUFFICES ASSUME Nat \ P # {} PROVE FALSE
  OBVIOUS
<1>2. PICK m \in Nat \ P : \A k \in Nat \ P : m <= k
  BY <1>1, LeastNumber
<1>3. m # 0 /\ m - 1 \in Nat
  BY <1>2
<1>4. m - 1 \in P
  BY <1>2, <1>3
<1>5. (m - 1) + 1 = m
  BY <1>2
<1>. QED  BY <1>2, <1>4, <1>5

\* A function is defined by recursion when each of its values depends on those
\* of smaller arguments only.
IsRecursion(D, S, size, N, Step) ==
    /\ S # {} /\ N \in Nat /\ size \in [D -> 0..N]
    /\ Step \in [D \X [D -> S] -> S]
    /\ \A x \in D : \A f, g \in [D -> S] :
        (\A y \in D : size[y] < size[x] => f[y] = g[y]) => Step[<<x, f>>] = Step[<<x, g>>]

\* There is a function that such a definition defines.
LEMMA RecursiveFunction ==
    ASSUME NEW D, NEW S, NEW size, NEW N, NEW Step, IsRecursion(D, S, size, N, Step)
    PROVE  \E f \in [D -> S] : \A x \in D : f[x] = Step[<<x, f>>]
<1> USE DEF IsRecursion
<1> DEFINE Solved(n) == \E f \in [D -> S] : \A x \in D : size[x] < n => f[x] = Step[<<x, f>>]
           P == {n \in Nat : Solved(n)}
<1>1. 0 \in P
  <2>1. PICK s \in S : TRUE
    OBVIOUS
  <2>2. [x \in D |-> s] \in [D -> S] /\ \A x \in D : ~(size[x] < 0)
    BY <2>1
  <2>. QED  BY <2>2
<1>2. ASSUME NEW n \in P PROVE n + 1 \in P
  <2>0. n \in Nat
    BY <1>2
  <2>1. PICK f \in [D -> S] : \A x \in D : size[x] < n => f[x] = Step[<<x, f>>]
    BY <1>2
  <2> DEFINE g == [x \in D |-> IF size[x] = n THEN Step[<<x, f>>] ELSE f[x]]
  <2>2. g \in [D -> S]
    OBVIOUS
  <2>3. ASSUME NEW x \in D, size[x] < n + 1 PROVE g[x] = Step[<<x, g>>]
    <3>1. \A y \in D : size[y] < size[x] => f[y] = g[y]
      BY <2>3
    <3>2. Step[<<x, f>>] = Step[<<x, g>>]
      BY <2>2, <3>1
    <3>3. CASE size[x] = n
      BY <3>2, <3>3
    <3>4. CASE size[x] < n
      <4>1. g[x] = f[x] /\ f[x] = Step[<<x, f>>]
        BY <2>1, <3>4
      <4>. QED  BY <3>2, <4>1
    <3>5. size[x] \in Nat
      OBVIOUS
    <3>6. size[x] = n \/ size[x] < n
      <4> HIDE DEF P, g
      <4>. QED  BY <2>0, <2>3, <3>5
    <3>. QED  BY <3>3, <3>4, <3>6
  <2>4. n + 1 \in Nat
    OBVIOUS
  <2>. QED  BY <2>2, <2>3, <2>4
<1>3. P = Nat
  BY <1>1, <1>2, Induction
<1>4. N + 1 \in P
  <2> HIDE DEF P
  <2>. QED  BY <1>3
<1>5. PICK f \in [D -> S] : \A x \in D : size[x] < N + 1 => f[x] = Step[<<x, f>>]
  BY <1>4
<1>. QED  BY <1>5
\* Recursion from the end of a sequence: a value that depends on that of a
\* later place.
IsBackward(n, S, base, next, G) ==
    /\ n \in Nat /\ base \in S
    /\ next \in [1..n -> 1..(n + 1)] /\ \A i \in 1..n : i < next[i]
    /\ G \in [(1..n) \X S -> S]

Backward(n, base, next, G, f) ==
    f[n + 1] = base /\ \A i \in 1..n : f[i] = G[<<i, f[next[i]]>>]

LEMMA BackwardRecursion ==
    ASSUME NEW n, NEW S, NEW base, NEW next, NEW G, IsBackward(n, S, base, next, G)
    PROVE  \E f \in [1..(n + 1) -> S] : Backward(n, base, next, G, f)
<1> USE DEF IsBackward
<1> DEFINE D == 1..(n + 1)
           size == [i \in D |-> n + 1 - i]
           Value(i, f) == IF i = n + 1 THEN base ELSE G[<<i, f[next[i]]>>]
           Step == [p \in D \X [D -> S] |-> Value(p[1], p[2])]
<1>1. n + 1 \in D /\ size \in [D -> 0..n]
  OBVIOUS
<1>2. ASSUME NEW i \in D, i # n + 1
      PROVE  i \in 1..n /\ next[i] \in D /\ size[next[i]] < size[i]
  <2>1. i \in 1..n
    BY <1>2
  <2>2. next[i] \in D /\ i < next[i] /\ next[i] \in Int
    BY <2>1
  <2>3. n + 1 - next[i] < n + 1 - i
    BY <2>1, <2>2
  <2>4. size[next[i]] = n + 1 - next[i] /\ size[i] = n + 1 - i
    BY <2>2
  <2>. QED  BY <2>1, <2>2, <2>3, <2>4
<1>3. ASSUME NEW i \in D, NEW f \in [D -> S] PROVE Value(i, f) \in S
  <2>1. CASE i = n + 1
    BY <2>1
  <2>2. CASE i # n + 1
    <3>1. i \in 1..n /\ next[i] \in D
      BY <1>2, <2>2
    <3>2. f[next[i]] \in S
      BY <3>1
    <3>3. G[<<i, f[next[i]]>>] \in S
      BY <3>1, <3>2
    <3>. QED  BY <2>2, <3>3
  <2>. QED  BY <2>1, <2>2
<1>4. Step \in [D \X [D -> S] -> S]
  <2> HIDE DEF D, Value
  <2>. QED  BY <1>3
<1>5. ASSUME NEW i \in D, NEW f \in [D -> S], NEW g \in [D -> S],
             \A y \in D : size[y] < size[i] => f[y] = g[y]
      PROVE  Step[<<i, f>>] = Step[<<i, g>>]
  <2>1. Step[<<i, f>>] = Value(i, f) /\ Step[<<i, g>>] = Value(i, g)
    <3> HIDE DEF D, Value
    <3>. QED  OBVIOUS
  <2>2. CASE i = n + 1
    BY <2>1, <2>2
  <2>3. CASE i # n + 1
    <3>1. f[next[i]] = g[next[i]]
      BY <1>2, <1>5, <2>3
    <3>2. Value(i, f) = Value(i, g)
      BY <2>3, <3>1
    <3>. QED  BY <2>1, <3>2
  <2>. QED  BY <2>2, <2>3
<1>6. PICK f \in [D -> S] : \A i \in D : f[i] = Step[<<i, f>>]
  <2> HIDE DEF Step, D, size
  <2>1. \A x \in D : \A f, g \in [D -> S] :
            (\A y \in D : size[y] < size[x] => f[y] = g[y]) => Step[<<x, f>>] = Step[<<x, g>>]
    BY <1>5
  <2>2. IsRecursion(D, S, size, n, Step)
    BY <1>1, <1>4, <2>1 DEF IsRecursion
  <2>. QED  BY <2>2, RecursiveFunction
<1>7. \A i \in D : f[i] = Value(i, f)
  <2> HIDE DEF D, Value
  <2>. QED  BY <1>6
<1>8. f[n + 1] = base
  BY <1>1, <1>7
<1>9. \A i \in 1..n : f[i] = G[<<i, f[next[i]]>>]
  <2>1. \A i \in 1..n : i \in D /\ i # n + 1
    OBVIOUS
  <2>. QED  BY <1>7, <2>1
<1>. QED  BY <1>6, <1>8, <1>9 DEF Backward

\* Induction from the end of a sequence: a set of places that holds the end,
\* and each place behind which it holds all, holds every place.
LEMMA BackwardInduction ==
    ASSUME NEW n \in Nat, NEW P \in SUBSET (1..(n + 1)), n + 1 \in P,
           \A i \in 1..n : (\A j \in (i + 1)..(n + 1) : j \in P) => i \in P
    PROVE  \A i \in 1..(n + 1) : i \in P
<1> DEFINE Q == {k \in Nat : \A j \in 1..(n + 1) : n + 1 - j <= k => j \in P}
<1>1. 0 \in Q
  <2>1. \A j \in 1..(n + 1) : n + 1 - j <= 0 => j = n + 1
    OBVIOUS
  <2>. QED  BY <2>1
<1>2. ASSUME NEW k \in Q PROVE k + 1 \in Q
  <2>1. k \in Nat /\ k + 1 \in Nat
    BY <1>2
  <2>2. ASSUME NEW j \in 1..(n + 1), n + 1 - j <= k + 1 PROVE j \in P
    <3>1. CASE j = n + 1
      BY <3>1
    <3>2. CASE j # n + 1
      <4>1. j \in 1..n
        BY <3>2
      <4>2. ASSUME NEW m \in (j + 1)..(n + 1) PROVE m \in P
        <5>1. m \in 1..(n + 1) /\ n + 1 - m <= k
          BY <2>1, <2>2, <4>1
        <5>. QED  BY <1>2, <5>1
      <4>. QED  BY <4>1, <4>2
    <3>. QED  BY <3>1, <3>2
  <2>. QED  BY <2>1, <2>2
<1>3. Q = Nat
  <2>1. Q \in SUBSET Nat
    OBVIOUS
  <2> HIDE DEF Q
  <2>. QED  BY <1>1, <1>2, <2>1, Induction
<1>4. n \in Q
  BY <1>3
<1>5. ASSUME NEW i \in 1..(n + 1) PROVE i \in P
  <2>1. n + 1 - i <= n
    OBVIOUS
  <2>. QED  BY <1>4, <2>1
<1>. QED  BY <1>5

-----------------------------------------------------------------------------
(***************************************************************************)
(* Sequences.                                                              *)
(***************************************************************************)

Flattening(ss, f) ==
    [i \in 1..Len(ss) |-> IF i = 1 THEN ss[i] ELSE f[i - 1] \o ss[i]]

\* FlattenSeq joins sequences one after the other.
LEMMA FlattenEquation ==
    ASSUME NEW X, NEW ss \in Seq(Seq(X)), Len(ss) # 0
    PROVE  \E f : f = Flattening(ss, f) /\ FlattenSeq(ss) = f[Len(ss)]
<1> DEFINE n == Len(ss)
           D == 1..n
           S == Seq(X)
           size == [i \in D |-> i]
           Step == [p \in D \X [D -> S] |-> Flattening(ss, p[2])[p[1]]]
<1>1. n \in Nat /\ DOMAIN ss = 1..n /\ \A i \in 1..n : ss[i] \in S
  OBVIOUS
<1>2. S # {} /\ size \in [D -> 0..n]
  BY <1>1
<1> HIDE DEF n
<1>3. ASSUME NEW i \in D, i # 1 PROVE i - 1 \in D /\ size[i - 1] < size[i]
  BY <1>1, <1>3
<1>4. ASSUME NEW i \in D, NEW f \in [D -> S]
      PROVE  Flattening(ss, f)[i] = (IF i = 1 THEN ss[i] ELSE f[i - 1] \o ss[i])
             /\ Flattening(ss, f)[i] \in S
  <2>1. Flattening(ss, f)[i] = IF i = 1 THEN ss[i] ELSE f[i - 1] \o ss[i]
    BY DEF Flattening, n
  <2>2. CASE i = 1
    BY <1>1, <2>1, <2>2
  <2>3. CASE i # 1
    <3>1. f[i - 1] \in S /\ ss[i] \in S
      BY <1>1, <1>3, <2>3
    <3>2. f[i - 1] \o ss[i] \in S
      BY <3>1
    <3>. QED  BY <2>1, <2>3, <3>2
  <2>. QED  BY <2>1, <2>2, <2>3
<1>5. Step \in [D \X [D -> S] -> S]
  <2> HIDE DEF D, S
  <2>. QED  BY <1>4
<1>6. ASSUME NEW i \in D, NEW f \in [D -> S], NEW g \in [D -> S],
             \A y \in D : size[y] < size[i] => f[y] = g[y]
      PROVE  Step[<<i, f>>] = Step[<<i, g>>]
  <2>1. Step[<<i, f>>] = Flattening(ss, f)[i] /\ Step[<<i, g>>] = Flattening(ss, g)[i]
    OBVIOUS
  <2>2. CASE i = 1
    BY <1>4, <2>1, <2>2
  <2>3. CASE i # 1
    <3>1. f[i - 1] = g[i - 1]
      BY <1>3, <1>6, <2>3
    <3>2. Flattening(ss, f)[i] = f[i - 1] \o ss[i] /\ Flattening(ss, g)[i] = g[i - 1] \o ss[i]
      BY <1>4, <2>3
    <3> HIDE DEF Step, S, D
    <3>. QED  BY <2>1, <3>1, <3>2
  <2>. QED  BY <2>2, <2>3
<1>7. PICK g \in [D -> S] : \A i \in D : g[i] = Step[<<i, g>>]
  <2> HIDE DEF Step, D, S, size
  <2>1. \A x \in D : \A f, g \in [D -> S] :
            (\A y \in D : size[y] < size[x] => f[y] = g[y]) => Step[<<x, f>>] = Step[<<x, g>>]
    BY <1>6
  <2>2. IsRecursion(D, S, size, n, Step)
    BY <1>1, <1>2, <1>5, <2>1 DEF IsRecursion
  <2>. QED  BY <2>2, RecursiveFunction
<1>8. g = Flattening(ss, g)
  <2>1. \A i \in D : g[i] = Flattening(ss, g)[i]
    BY <1>7
  <2>2. Flattening(ss, g) = [i \in D |-> Flattening(ss, g)[i]]
    BY DEF Flattening, n
  <2>3. g = [i \in D |-> g[i]]
    BY <1>7
  <2> HIDE DEF D
  <2>. QED  BY <2>1, <2>2, <2>3
<1>9. PICK c : c = CHOOSE f : f = Flattening(ss, f)
  OBVIOUS
<1>10. c = Flattening(ss, c)
  BY <1>8, <1>9
<1>11. FlattenSeq(ss) = c[Len(ss)]
  BY <1>9 DEF FlattenSeq, Flattening
<1>. QED  BY <1>10, <1>11

\* The length and the members of a sequence with one more before it.
LEMMA Before ==
    ASSUME NEW X, NEW x \in X, NEW e \in Seq(X)
    PROVE  /\ <<x>> \o e \in Seq(X) /\ Len(<<x>> \o e) = Len(e) + 1
           /\ (<<x>> \o e)[1] = x
           /\ \A i \in 1..Len(e) : (<<x>> \o e)[i + 1] = e[i]
           /\ \A i \in 1..(Len(e) + 1) : i # 1 => (<<x>> \o e)[i] = e[i - 1]
<1>1. <<x>> \in Seq(X) /\ Len(<<x>>) = 1
  OBVIOUS
<1>2. Len(e) \in Nat
  OBVIOUS
<1>. QED  BY <1>1, <1>2

\* The first of the sequences that are joined comes first.
LEMMA FlattenBefore ==
    ASSUME NEW X, NEW a \in Seq(X), NEW ss \in Seq(Seq(X))
    PROVE  FlattenSeq(<<a>> \o ss) = a \o FlattenSeq(ss)
<1> DEFINE tt == <<a>> \o ss
           n == Len(ss)
<1>1. /\ tt \in Seq(Seq(X)) /\ Len(tt) = n + 1 /\ tt[1] = a
      /\ \A i \in 1..n : tt[i + 1] = ss[i]
      /\ n \in Nat /\ DOMAIN ss = 1..n /\ \A i \in 1..n : ss[i] \in Seq(X)
  <2>1. a \in Seq(X) /\ ss \in Seq(Seq(X))
    OBVIOUS
  <2>. QED  BY <2>1, Before
<1> HIDE DEF tt
<1>2. PICK f : f = Flattening(tt, f) /\ FlattenSeq(tt) = f[n + 1]
  <2>1. Len(tt) # 0
    BY <1>1
  <2>. QED  BY <1>1, <2>1, FlattenEquation
<1>3. /\ f[1] = a
      /\ \A i \in 1..n : f[i + 1] = f[i] \o ss[i]
  <2> HIDE DEF n
  <2>1. \A i \in 1..(n + 1) : f[i] = IF i = 1 THEN tt[i] ELSE f[i - 1] \o tt[i]
    BY <1>1, <1>2 DEF Flattening
  <2>2. f[1] = a
    BY <1>1, <2>1
  <2>3. ASSUME NEW i \in 1..n PROVE f[i + 1] = f[i] \o ss[i]
    <3>1. i + 1 \in 1..(n + 1) /\ i + 1 # 1 /\ (i + 1) - 1 = i
      BY <1>1
    <3>. QED  BY <1>1, <2>1, <3>1
  <2>. QED  BY <2>2, <2>3
<1>4. CASE n = 0
  <2>1. FlattenSeq(ss) = <<>>
    BY <1>4 DEF FlattenSeq
  <2>2. FlattenSeq(tt) = a
    BY <1>2, <1>3, <1>4
  <2>. QED  BY <2>1, <2>2 DEF tt
<1>5. CASE n # 0
  <2>1. PICK g : g = Flattening(ss, g) /\ FlattenSeq(ss) = g[n]
    BY <1>5, FlattenEquation
  <2>2. \A i \in 1..n : g[i] = IF i = 1 THEN ss[i] ELSE g[i - 1] \o ss[i]
    BY <1>1, <2>1 DEF Flattening
  <2> HIDE DEF n
  <2> DEFINE P == {k \in Nat : k + 1 <= n =>
                       g[k + 1] \in Seq(X) /\ f[(k + 1) + 1] = a \o g[k + 1]}
  <2>3. 0 \in P
    <3>1. 1 \in 1..n
      BY <1>1, <1>5
    <3>2. g[1] = ss[1] /\ ss[1] \in Seq(X)
      BY <1>1, <2>2, <3>1
    <3>3. f[1 + 1] = a \o ss[1]
      BY <1>3, <3>1
    <3>4. 0 + 1 = 1
      OBVIOUS
    <3>. QED  BY <3>2, <3>3, <3>4
  <2>4. ASSUME NEW k \in P PROVE k + 1 \in P
    <3>1. k \in Nat /\ k + 1 \in Nat
      BY <2>4
    <3>2. SUFFICES ASSUME (k + 1) + 1 <= n
                   PROVE  g[(k + 1) + 1] \in Seq(X)
                          /\ f[((k + 1) + 1) + 1] = a \o g[(k + 1) + 1]
      BY <3>1
    <3> DEFINE m == k + 1
    <3>3. m \in 1..n /\ m + 1 \in 1..n /\ m + 1 # 1 /\ (m + 1) - 1 = m
      BY <1>1, <3>1, <3>2
    <3>4. g[m] \in Seq(X) /\ f[m + 1] = a \o g[m]
      <4>1. k + 1 <= n
        BY <1>1, <3>1, <3>2
      <4>2. g[k + 1] \in Seq(X) /\ f[(k + 1) + 1] = a \o g[k + 1]
        BY <2>4, <4>1
      <4>. QED  BY <4>2
    <3> HIDE DEF m, P
    <3>5. g[m + 1] = g[m] \o ss[m + 1] /\ ss[m + 1] \in Seq(X)
      BY <1>1, <2>2, <3>3
    <3>6. f[(m + 1) + 1] = f[m + 1] \o ss[m + 1]
      BY <1>3, <3>3
    <3>7. (a \o g[m]) \o ss[m + 1] = a \o (g[m] \o ss[m + 1])
      <4>1. g[m] \in Seq(X) /\ ss[m + 1] \in Seq(X)
        BY <3>4, <3>5
      <4>2. ASSUME NEW u \in Seq(X), NEW v \in Seq(X)
            PROVE  (a \o u) \o v = a \o (u \o v)
        BY ConcatAssociative, SMTT(30)
      <4>. QED  BY <4>1, <4>2
    <3>8. g[m + 1] \in Seq(X)
      BY <3>4, <3>5
    <3>. QED  BY <3>4, <3>5, <3>6, <3>7, <3>8 DEF m
  <2>5. P = Nat
    <3>1. P \in SUBSET Nat
      OBVIOUS
    <3> HIDE DEF P
    <3>. QED  BY <2>3, <2>4, <3>1, Induction
  <2>6. n - 1 \in P /\ (n - 1) + 1 = n
    <3>1. n - 1 \in Nat /\ (n - 1) + 1 = n
      BY <1>1, <1>5
    <3> HIDE DEF P
    <3>. QED  BY <2>5, <3>1
  <2>7. f[n + 1] = a \o g[n]
    <3>1. (n - 1) + 1 <= n
      BY <1>1, <2>6
    <3>2. f[((n - 1) + 1) + 1] = a \o g[(n - 1) + 1]
      BY <2>6, <3>1
    <3>. QED  BY <2>6, <3>2
  <2>. QED  BY <1>2, <2>1, <2>7 DEF tt
<1>. QED  BY <1>4, <1>5

\* A sequence from one place on, cut at a later place.
LEMMA CutRest ==
    ASSUME NEW X, NEW s \in Seq(X), NEW i \in 1..Len(s), NEW j \in (i + 1)..(Len(s) + 1)
    PROVE  SubSeq(s, i, Len(s)) = SubSeq(s, i, j - 1) \o SubSeq(s, j, Len(s))
<1>1. Len(s) \in Nat /\ i \in 1..(Len(s) + 1) /\ (j - 1) + 1 = j
      /\ j - 1 \in (i - 1)..Len(s) /\ Len(s) \in (j - 1)..Len(s)
  OBVIOUS
<1> DEFINE k == j - 1
           n == Len(s)
<1> HIDE DEF k, n
<1>2. k \in (i - 1)..Len(s) /\ n \in k..Len(s) /\ k + 1 = j
  BY <1>1 DEF k, n
<1>3. SubSeq(s, i, k) \o SubSeq(s, k + 1, n) = SubSeq(s, i, n)
  BY <1>1, <1>2, ConcatAdjacentSubSeq
<1>. QED  BY <1>2, <1>3 DEF k, n

\* One or two places of a sequence.
LEMMA ShortRanges ==
    ASSUME NEW X, NEW s \in Seq(X), NEW i \in 1..Len(s)
    PROVE  /\ SubSeq(s, i, i) = <<s[i]>>
           /\ i < Len(s) => SubSeq(s, i, i + 1) = <<s[i], s[i + 1]>>
<1>1. Len(s) \in Nat /\ s[i] \in X
  OBVIOUS
<1>2. SubSeq(s, i, i) = <<s[i]>>
  <2> DEFINE u == SubSeq(s, i, i)
             v == <<s[i]>>
  <2>1. u \in Seq(X) /\ Len(u) = 1 /\ u[1] = s[i]
    BY <1>1
  <2>2. v \in Seq(X) /\ Len(v) = 1 /\ v[1] = s[i]
    BY <1>1
  <2> HIDE DEF u, v
  <2>3. \A k \in 1..Len(u) : u[k] = v[k]
    BY <2>1, <2>2
  <2>4. u = v
    BY <2>1, <2>2, <2>3, SeqEqual
  <2>. QED  BY <2>4 DEF u, v
<1>3. ASSUME i < Len(s) PROVE SubSeq(s, i, i + 1) = <<s[i], s[i + 1]>>
  <2> DEFINE u == SubSeq(s, i, i + 1)
             v == <<s[i], s[i + 1]>>
  <2>1. s[i + 1] \in X
    BY <1>1, <1>3
  <2>2. u \in Seq(X) /\ Len(u) = 2 /\ u[1] = s[i] /\ u[2] = s[i + 1]
    BY <1>1, <1>3
  <2>3. v \in Seq(X) /\ Len(v) = 2 /\ v[1] = s[i] /\ v[2] = s[i + 1]
    BY <1>1, <2>1
  <2> HIDE DEF u, v
  <2>4. \A k \in 1..Len(u) : u[k] = v[k]
    BY <2>2, <2>3
  <2>5. u = v
    BY <2>2, <2>3, <2>4, SeqEqual
  <2>. QED  BY <2>5 DEF u, v
<1>. QED  BY <1>2, <1>3

-----------------------------------------------------------------------------
(***************************************************************************)
(* Reading names.                                                          *)
(***************************************************************************)

\* The size of the ranges of the alphabet's characters.
LEMMA Ranges ==
    /\ SymbolCount \in Nat /\ SymbolCount >= 1
    /\ PairBase \in Nat /\ SingleBase \in Nat /\ Marker \in Nat
    /\ PairBase = SymbolCount
    /\ SingleBase >= PairBase /\ Marker = SingleBase + SymbolCount
<1>1. SymbolCount \in Nat /\ SymbolCount >= 1
  BY StreamNameAssumption
<1>2. SymbolCount * SymbolCount \in Nat
  BY <1>1
<1>. QED  BY <1>1, <1>2 DEF PairBase, SingleBase, Marker

\* A character is read as characters.
LEMMA DecodeCharType ==
    ASSUME NEW c \in Int
    PROVE  DecodeChar(c) \in Seq(Int)
<1>1. CASE ~Reserved(c)
  BY <1>1 DEF DecodeChar
<1>2. CASE Reserved(c) /\ c >= SingleBase
  <2>1. c - SingleBase \in Int
    BY Ranges
  <2>. QED  BY <1>2, <2>1 DEF DecodeChar
<1>3. CASE Reserved(c) /\ ~(c >= SingleBase)
  <2>1. c - PairBase \in Int
    BY Ranges
  <2>2. (c - PairBase) % SymbolCount \in Int /\ (c - PairBase) \div SymbolCount \in Int
    BY <2>1, Ranges
  <2>3. DecodeChar(c) = <<(c - PairBase) % SymbolCount, (c - PairBase) \div SymbolCount>>
    BY <1>3 DEF DecodeChar
  <2>. QED  BY <2>2, <2>3
<1>. QED  BY <1>1, <1>2, <1>3

\* A name is read character by character.
LEMMA DecodeBefore ==
    ASSUME NEW x \in Int, NEW e \in Seq(Int)
    PROVE  Decode(<<x>> \o e) = DecodeChar(x) \o Decode(e)
<1> DEFINE t == <<x>> \o e
           ss == [i \in DOMAIN e |-> DecodeChar(e[i])]
           tt == [i \in DOMAIN t |-> DecodeChar(t[i])]
           n == Len(e)
<1>1. n \in Nat /\ DOMAIN e = 1..n /\ \A i \in 1..n : e[i] \in Int
  OBVIOUS
<1>2. /\ t \in Seq(Int) /\ Len(t) = n + 1 /\ t[1] = x
      /\ \A i \in 1..(n + 1) : i # 1 => t[i] = e[i - 1]
  BY Before
<1>3. DOMAIN t = 1..(n + 1)
  <2> HIDE DEF t, n
  <2>. QED  BY <1>2
<1> DEFINE a == DecodeChar(x)
<1>4. a \in Seq(Int) /\ \A i \in 1..n : DecodeChar(e[i]) \in Seq(Int)
  BY <1>1, DecodeCharType
<1>5. ss \in Seq(Seq(Int)) /\ Len(ss) = n /\ \A i \in 1..n : ss[i] = DecodeChar(e[i])
  <2> HIDE DEF n
  <2>. QED  BY <1>1, <1>4
<1> HIDE DEF a, ss, t, n
<1>6. /\ <<a>> \o ss \in Seq(Seq(Int)) /\ Len(<<a>> \o ss) = n + 1 /\ (<<a>> \o ss)[1] = a
      /\ \A i \in 1..(n + 1) : i # 1 => (<<a>> \o ss)[i] = ss[i - 1]
  BY <1>4, <1>5, Before
<1>7. \A i \in 1..(n + 1) : tt[i] = (<<a>> \o ss)[i]
  <2>1. ASSUME NEW i \in 1..(n + 1) PROVE tt[i] = (<<a>> \o ss)[i]
    <3>1. tt[i] = DecodeChar(t[i])
      BY <1>3
    <3>2. CASE i = 1
      BY <1>2, <1>6, <3>1, <3>2 DEF a
    <3>3. CASE i # 1
      <4>1. i - 1 \in 1..n
        BY <1>1, <3>3
      <4>. QED  BY <1>2, <1>5, <1>6, <3>1, <3>3, <4>1
    <3>. QED  BY <3>2, <3>3
  <2>. QED  BY <2>1
<1>8. tt = <<a>> \o ss
  <2>1. DOMAIN (<<a>> \o ss) = 1..(n + 1)
    BY <1>6
  <2>2. <<a>> \o ss = [i \in 1..(n + 1) |-> (<<a>> \o ss)[i]]
    BY <1>6, <2>1
  <2>3. tt = [i \in 1..(n + 1) |-> tt[i]]
    BY <1>3
  <2> HIDE DEF tt
  <2>. QED  BY <1>7, <2>2, <2>3
<1>9. Decode(t) = FlattenSeq(tt) /\ Decode(e) = FlattenSeq(ss)
  BY DEF Decode, ss
<1>10. FlattenSeq(<<a>> \o ss) = a \o FlattenSeq(ss)
  BY <1>4, <1>5, FlattenBefore
<1>. QED  BY <1>8, <1>9, <1>10 DEF a, t

\* No character is read as nothing.
LEMMA DecodeEmpty == Decode(<<>>) = <<>>
<1>1. [i \in DOMAIN <<>> |-> DecodeChar(<<>>[i])] = <<>>
  OBVIOUS
<1>2. FlattenSeq(<<>>) = <<>>
  BY DEF FlattenSeq
<1>. QED  BY <1>1, <1>2 DEF Decode

\* The code units of a name with one more character before it.
LEMMA UnitsBefore ==
    ASSUME NEW x \in Int, NEW e \in Seq(Int)
    PROVE  Units(<<x>> \o e) = RuneLen(x) + Units(e) /\ Units(e) \in Nat
<1> DEFINE t == <<x>> \o e
           n == Len(e)
           A == {i \in DOMAIN e : e[i] \in Wide}
           B == {i \in DOMAIN t : t[i] \in Wide}
           C == {i \in B : i # 1}
<1>1. n \in Nat /\ DOMAIN e = 1..n
  OBVIOUS
<1>2. /\ Len(t) = n + 1 /\ t[1] = x /\ t \in Seq(Int)
      /\ \A i \in 1..n : t[i + 1] = e[i]
      /\ \A i \in 1..(n + 1) : i # 1 => t[i] = e[i - 1]
  BY Before
<1>3. DOMAIN t = 1..(n + 1)
  <2> HIDE DEF t, n
  <2>. QED  BY <1>2
<1> HIDE DEF t, n
<1>4. IsFiniteSet(A) /\ Cardinality(A) \in Nat
  <2>1. IsFiniteSet(1..n) /\ A \subseteq 1..n
    BY <1>1, FS_Interval
  <2> HIDE DEF A
  <2>. QED  BY <2>1, FS_Subset, FS_CardinalityType
<1> DEFINE h == [i \in A |-> i + 1]
<1>5. h \in Bijection(A, C)
  <2>1. \A i \in A : i + 1 \in C
    BY <1>1, <1>2, <1>3
  <2>2. \A i, j \in A : h[i] = h[j] => i = j
    BY <1>1
  <2>3. \A k \in C : \E i \in A : h[i] = k
    <3>1. ASSUME NEW k \in C PROVE k - 1 \in A /\ (k - 1) + 1 = k
      <4>1. k \in 1..(n + 1) /\ k # 1 /\ t[k] \in Wide
        BY <1>3
      <4>2. k - 1 \in 1..n /\ t[k] = e[k - 1] /\ (k - 1) + 1 = k
        BY <1>1, <1>2, <4>1
      <4>. QED  BY <1>1, <4>1, <4>2
    <3>. QED  BY <3>1
  <2>4. h \in [A -> C]
    <3> HIDE DEF A, C
    <3>. QED  BY <2>1
  <2> HIDE DEF h, A, C
  <2>5. h \in Injection(A, C)
    BY <2>2, <2>4, Fun_IsInj
  <2>6. h \in Surjection(A, C)
    BY <2>3, <2>4, Fun_IsSurj
  <2>. QED  BY <2>5, <2>6 DEF Bijection
<1>6. IsFiniteSet(C) /\ Cardinality(C) = Cardinality(A)
  <2> HIDE DEF h, A, C
  <2>1. ExistsBijection(A, C)
    BY <1>5 DEF ExistsBijection
  <2>. QED  BY <1>4, <2>1, FS_Bijection
<1>7. Units(t) = (n + 1) + Cardinality(B) /\ Units(e) = n + Cardinality(A)
  BY <1>2 DEF Units, n
<1>8. CASE x \in Wide
  <2>1. B = C \cup {1} /\ 1 \notin C
    BY <1>1, <1>2, <1>3, <1>8
  <2> HIDE DEF B, C, A
  <2>2. Cardinality(B) = Cardinality(C) + 1
    BY <1>6, <2>1, FS_AddElement
  <2>. QED  BY <1>1, <1>4, <1>6, <1>7, <1>8, <2>2 DEF RuneLen, t
<1>9. CASE x \notin Wide
  <2>1. B = C
    BY <1>2, <1>9
  <2> HIDE DEF B, C, A
  <2>. QED  BY <1>1, <1>4, <1>6, <1>7, <1>9, <2>1 DEF RuneLen, t
<1>. QED  BY <1>8, <1>9

-----------------------------------------------------------------------------
(***************************************************************************)
(* Writing names.                                                          *)
(***************************************************************************)

\* Whether the character at i is written together with the next one.
Paired(s, i) == i < Len(s) /\ s[i] \in Symbols /\ s[i + 1] \in Symbols

\* The place behind the characters that are written with the one at i, the
\* character they are written as, and its code units.
Behind(s, i) == IF Paired(s, i) THEN i + 2 ELSE i + 1

Written(s, i) ==
    IF s[i] \notin Symbols THEN s[i]
    ELSE IF Paired(s, i) THEN PairBase + s[i] + s[i + 1] * SymbolCount
    ELSE SingleBase + s[i]

Cost(s, i) == IF s[i] \notin Symbols THEN RuneLen(s[i]) ELSE 1

EncodeBody(s, enc) ==
    [i \in 1..(Len(s) + 1) |->
        IF i > Len(s) THEN <<>>
        ELSE IF s[i] \notin Symbols THEN <<s[i]>> \o enc[i + 1]
        ELSE IF i < Len(s) /\ s[i + 1] \in Symbols
             THEN <<PairBase + s[i] + s[i + 1] * SymbolCount>> \o enc[i + 2]
        ELSE <<SingleBase + s[i]>> \o enc[i + 1]]

LenBody(s, len) ==
    [i \in 1..(Len(s) + 1) |->
        IF i > Len(s) THEN 0
        ELSE IF s[i] \notin Symbols THEN RuneLen(s[i]) + len[i + 1]
        ELSE IF i < Len(s) /\ s[i + 1] \in Symbols THEN 1 + len[i + 2]
        ELSE 1 + len[i + 1]]

\* The place behind is a later one, and the characters written are numbers.
LEMMA Steps ==
    ASSUME NEW s \in Seq(Int), NEW i \in 1..Len(s)
    PROVE  /\ Behind(s, i) \in (i + 1)..(Len(s) + 1)
           /\ Behind(s, i) \in 1..(Len(s) + 1)
           /\ i < Behind(s, i)
           /\ Written(s, i) \in Int
           /\ Cost(s, i) \in Nat
<1>1. Len(s) \in Nat /\ s[i] \in Int
  OBVIOUS
<1>2. Behind(s, i) \in (i + 1)..(Len(s) + 1)
  BY <1>1 DEF Behind, Paired
<1>3. Behind(s, i) \in 1..(Len(s) + 1) /\ i < Behind(s, i)
  BY <1>1, <1>2
<1>4. Written(s, i) \in Int
  <2>1. CASE Paired(s, i) /\ s[i] \in Symbols
    <3>1. i + 1 \in 1..Len(s)
      BY <1>1, <2>1 DEF Paired
    <3>2. s[i + 1] \in Int
      BY <3>1
    <3>3. s[i + 1] * SymbolCount \in Int
      BY <3>2, Ranges
    <3>4. PairBase + s[i] + s[i + 1] * SymbolCount \in Int
      BY <1>1, <3>3, Ranges
    <3>. QED  BY <2>1, <3>4 DEF Written
  <2>2. SingleBase + s[i] \in Int
    BY <1>1, Ranges
  <2>. QED  BY <1>1, <2>1, <2>2 DEF Written
<1>5. Cost(s, i) \in Nat
  BY DEF Cost, RuneLen
<1>. QED  BY <1>2, <1>3, <1>4, <1>5

\* What a function that is defined as the code's writer is has at each place.
LEMMA EncodeBodyValues ==
    ASSUME NEW s \in Seq(Int), NEW f
    PROVE  /\ EncodeBody(s, f)[Len(s) + 1] = <<>>
           /\ \A i \in 1..Len(s) :
                EncodeBody(s, f)[i] = <<Written(s, i)>> \o f[Behind(s, i)]
<1>1. Len(s) \in Nat
  OBVIOUS
<1>2. EncodeBody(s, f)[Len(s) + 1] = <<>>
  BY <1>1 DEF EncodeBody
<1>3. ASSUME NEW i \in 1..Len(s)
      PROVE  EncodeBody(s, f)[i] = <<Written(s, i)>> \o f[Behind(s, i)]
  <2>1. i \in 1..(Len(s) + 1) /\ ~(i > Len(s))
    BY <1>1
  <2> HIDE DEF Symbols
  <2>2. CASE s[i] \notin Symbols
    BY <2>1, <2>2 DEF EncodeBody, Written, Behind, Paired
  <2>3. CASE Paired(s, i)
    BY <2>1, <2>3 DEF EncodeBody, Written, Behind, Paired
  <2>4. CASE s[i] \in Symbols /\ ~Paired(s, i)
    BY <2>1, <2>4 DEF EncodeBody, Written, Behind, Paired
  <2>. QED  BY <2>2, <2>3, <2>4
<1>. QED  BY <1>2, <1>3

\* The same of the function that counts what is written.
LEMMA LenBodyValues ==
    ASSUME NEW s \in Seq(Int), NEW f
    PROVE  /\ LenBody(s, f)[Len(s) + 1] = 0
           /\ \A i \in 1..Len(s) :
                LenBody(s, f)[i] = Cost(s, i) + f[Behind(s, i)]
<1>1. Len(s) \in Nat
  OBVIOUS
<1>2. LenBody(s, f)[Len(s) + 1] = 0
  BY <1>1 DEF LenBody
<1>3. ASSUME NEW i \in 1..Len(s)
      PROVE  LenBody(s, f)[i] = Cost(s, i) + f[Behind(s, i)]
  <2>1. i \in 1..(Len(s) + 1) /\ ~(i > Len(s))
    BY <1>1
  <2>2. CASE s[i] \notin Symbols
    BY <2>1, <2>2 DEF LenBody, Cost, Behind, Paired
  <2>3. CASE Paired(s, i)
    BY <2>1, <2>3 DEF LenBody, Cost, Behind, Paired
  <2>4. CASE s[i] \in Symbols /\ ~Paired(s, i)
    BY <2>1, <2>4 DEF LenBody, Cost, Behind, Paired
  <2>. QED  BY <2>2, <2>3, <2>4
<1>. QED  BY <1>2, <1>3

\* Encode writes a name from its end.
LEMMA EncodeEquation ==
    ASSUME NEW s \in Seq(Int)
    PROVE  \E f \in [1..(Len(s) + 1) -> Seq(Int)] :
               /\ Encode(s) = f[1] /\ f[Len(s) + 1] = <<>>
               /\ \A i \in 1..Len(s) : f[i] = <<Written(s, i)>> \o f[Behind(s, i)]
<1> DEFINE n == Len(s)
           S == Seq(Int)
           next == [i \in 1..n |-> Behind(s, i)]
           G == [p \in (1..n) \X S |-> <<Written(s, p[1])>> \o p[2]]
<1>1. n \in Nat /\ <<>> \in S
  OBVIOUS
<1>2. next \in [1..n -> 1..(n + 1)] /\ \A i \in 1..n : i < next[i]
  BY Steps
<1>3. G \in [(1..n) \X S -> S]
  <2>1. ASSUME NEW i \in 1..n, NEW e \in S PROVE <<Written(s, i)>> \o e \in S
    <3>1. Written(s, i) \in Int
      BY Steps
    <3>. QED  BY <3>1, Before
  <2> HIDE DEF n, S
  <2>. QED  BY <2>1
<1> HIDE DEF n, S, next, G
<1>4. PICK f \in [1..(n + 1) -> S] : Backward(n, <<>>, next, G, f)
  <2>1. IsBackward(n, S, <<>>, next, G)
    BY <1>1, <1>2, <1>3 DEF IsBackward
  <2>. QED  BY <2>1, BackwardRecursion
<1>5. ASSUME NEW i \in 1..n PROVE f[i] = <<Written(s, i)>> \o f[Behind(s, i)]
  <2>1. next[i] = Behind(s, i) /\ next[i] \in 1..(n + 1)
    BY <1>2 DEF next
  <2>2. f[next[i]] \in S
    BY <2>1
  <2>3. G[<<i, f[next[i]]>>] = <<Written(s, i)>> \o f[next[i]]
    BY <2>2 DEF G
  <2>. QED  BY <1>4, <2>1, <2>3 DEF Backward
<1>6. f = EncodeBody(s, f)
  <2> DEFINE g == EncodeBody(s, f)
  <2>1. g[n + 1] = <<>> /\ \A i \in 1..n : g[i] = <<Written(s, i)>> \o f[Behind(s, i)]
    BY EncodeBodyValues DEF n
  <2>2. g = [i \in 1..(n + 1) |-> g[i]]
    BY DEF EncodeBody, n
  <2> HIDE DEF g
  <2>3. \A i \in 1..(n + 1) : f[i] = g[i]
    <3>1. \A i \in 1..(n + 1) : i \in 1..n \/ i = n + 1
      BY <1>1
    <3>. QED  BY <1>4, <1>5, <2>1, <3>1 DEF Backward
  <2>4. f = [i \in 1..(n + 1) |-> f[i]]
    BY <1>4
  <2>5. f = g
    BY <2>2, <2>3, <2>4
  <2>. QED  BY <2>5 DEF g
<1>7. PICK c : c = CHOOSE enc : enc = EncodeBody(s, enc)
  OBVIOUS
<1>8. c = EncodeBody(s, c)
  BY <1>6, <1>7
<1>9. Encode(s) = c[1]
  BY <1>7 DEF Encode, EncodeBody
<1>10. c[n + 1] = <<>> /\ \A i \in 1..n : c[i] = <<Written(s, i)>> \o c[Behind(s, i)]
  BY <1>8, EncodeBodyValues DEF n
<1> DEFINE P == {i \in 1..(n + 1) : c[i] \in Seq(Int)}
<1>11. n + 1 \in P /\ P \in SUBSET (1..(n + 1))
  <2>1. n + 1 \in 1..(n + 1) /\ <<>> \in Seq(Int)
    BY <1>1
  <2>. QED  BY <1>10, <2>1
<1>12. ASSUME NEW i \in 1..n, \A j \in (i + 1)..(n + 1) : j \in P PROVE i \in P
  <2>1. Behind(s, i) \in (i + 1)..(n + 1) /\ Written(s, i) \in Int
    BY Steps DEF n
  <2>2. c[Behind(s, i)] \in Seq(Int)
    BY <1>12, <2>1
  <2>3. <<Written(s, i)>> \o c[Behind(s, i)] \in Seq(Int)
    BY <2>1, <2>2, Before
  <2>4. i \in 1..(n + 1)
    BY <1>1
  <2>. QED  BY <1>10, <2>3, <2>4
<1>13. \A i \in 1..(n + 1) : c[i] \in Seq(Int)
  <2> HIDE DEF P
  <2>1. \A i \in 1..(n + 1) : i \in P
    BY <1>1, <1>11, <1>12, BackwardInduction
  <2>. QED  BY <2>1 DEF P
<1>14. c \in [1..(n + 1) -> Seq(Int)]
  <2>1. c = [i \in 1..(n + 1) |-> c[i]]
    BY <1>8 DEF EncodeBody, n
  <2>. QED  BY <1>13, <2>1
<1>. QED  BY <1>9, <1>10, <1>14 DEF n

\* EncodedLen counts from the end of a name.
LEMMA EncodedLenEquation ==
    ASSUME NEW s \in Seq(Int)
    PROVE  \E f : /\ EncodedLen(s) = f[1] /\ f[Len(s) + 1] = 0
                  /\ \A i \in 1..Len(s) : f[i] = Cost(s, i) + f[Behind(s, i)]
<1> DEFINE n == Len(s)
           next == [i \in 1..n |-> Behind(s, i)]
           G == [p \in (1..n) \X Nat |-> Cost(s, p[1]) + p[2]]
<1>1. n \in Nat /\ 0 \in Nat
  OBVIOUS
<1>2. next \in [1..n -> 1..(n + 1)] /\ \A i \in 1..n : i < next[i]
  BY Steps
<1>3. G \in [(1..n) \X Nat -> Nat]
  <2>1. ASSUME NEW i \in 1..n, NEW e \in Nat PROVE Cost(s, i) + e \in Nat
    BY Steps
  <2> HIDE DEF n
  <2>. QED  BY <2>1
<1> HIDE DEF n, next, G
<1>4. PICK f \in [1..(n + 1) -> Nat] : Backward(n, 0, next, G, f)
  <2>1. IsBackward(n, Nat, 0, next, G)
    BY <1>1, <1>2, <1>3 DEF IsBackward
  <2>. QED  BY <2>1, BackwardRecursion
<1>5. ASSUME NEW i \in 1..n PROVE f[i] = Cost(s, i) + f[Behind(s, i)]
  <2>1. next[i] = Behind(s, i) /\ next[i] \in 1..(n + 1)
    BY <1>2 DEF next
  <2>2. f[next[i]] \in Nat
    BY <2>1
  <2>3. G[<<i, f[next[i]]>>] = Cost(s, i) + f[next[i]]
    BY <2>2 DEF G
  <2>. QED  BY <1>4, <2>1, <2>3 DEF Backward
<1>6. f = LenBody(s, f)
  <2> DEFINE g == LenBody(s, f)
  <2>1. g[n + 1] = 0 /\ \A i \in 1..n : g[i] = Cost(s, i) + f[Behind(s, i)]
    BY LenBodyValues DEF n
  <2>2. g = [i \in 1..(n + 1) |-> g[i]]
    BY DEF LenBody, n
  <2> HIDE DEF g
  <2>3. \A i \in 1..(n + 1) : f[i] = g[i]
    <3>1. \A i \in 1..(n + 1) : i \in 1..n \/ i = n + 1
      BY <1>1
    <3>. QED  BY <1>4, <1>5, <2>1, <3>1 DEF Backward
  <2>4. f = [i \in 1..(n + 1) |-> f[i]]
    BY <1>4
  <2>5. f = g
    BY <2>2, <2>3, <2>4
  <2>. QED  BY <2>5 DEF g
<1>7. PICK c : c = CHOOSE len : len = LenBody(s, len)
  OBVIOUS
<1>8. c = LenBody(s, c)
  BY <1>6, <1>7
<1>9. EncodedLen(s) = c[1]
  BY <1>7 DEF EncodedLen, LenBody
<1>10. c[n + 1] = 0 /\ \A i \in 1..n : c[i] = Cost(s, i) + c[Behind(s, i)]
  BY <1>8, LenBodyValues DEF n
<1>. QED  BY <1>9, <1>10 DEF n

\* A character that is written has the code units it is counted for.
LEMMA WrittenCost ==
    ASSUME NEW s \in Seq(Int), NEW i \in 1..Len(s)
    PROVE  RuneLen(Written(s, i)) = Cost(s, i)
<1>1. CASE s[i] \notin Symbols
  BY <1>1 DEF Written, Cost
<1>2. CASE s[i] \in Symbols
  <2>1. Written(s, i) >= 0
    <3>1. CASE Paired(s, i)
      <4>1. s[i] \in Nat /\ s[i + 1] \in Nat
        BY <3>1, Ranges DEF Paired, Symbols
      <4>2. s[i + 1] * SymbolCount \in Nat
        BY <4>1, Ranges
      <4>3. PairBase + s[i] + s[i + 1] * SymbolCount >= 0
        BY <4>1, <4>2, Ranges
      <4>. QED  BY <1>2, <3>1, <4>3 DEF Written
    <3>2. CASE ~Paired(s, i)
      <4>1. s[i] \in Nat
        BY <1>2, Ranges DEF Symbols
      <4>2. SingleBase + s[i] >= 0
        BY <4>1, Ranges
      <4>. QED  BY <1>2, <3>2, <4>2 DEF Written
    <3>. QED  BY <3>1, <3>2
  <2>2. \A c \in Wide : c \in Int /\ c < 0
    BY StreamNameAssumption
  <2>3. Written(s, i) \in Int
    BY Steps
  <2>4. Written(s, i) \notin Wide
    <3> DEFINE w == Written(s, i)
    <3> HIDE DEF w
    <3>1. w \in Int /\ w >= 0
      BY <2>1, <2>3 DEF w
    <3>2. w \notin Wide
      BY <2>2, <3>1
    <3>. QED  BY <3>2 DEF w
  <2>. QED  BY <1>2, <2>4 DEF RuneLen, Cost
<1>. QED  BY <1>1, <1>2

\* EncodedLen counts the code units of what Encode writes.
LEMMA EncodedUnits ==
    ASSUME NEW s \in Seq(Int)
    PROVE  Encode(s) \in Seq(Int) /\ Units(Encode(s)) = EncodedLen(s)
<1> DEFINE n == Len(s)
<1>1. n \in Nat
  OBVIOUS
<1> HIDE DEF n
<1>2. PICK f : /\ Encode(s) = f[1] /\ f[n + 1] = <<>>
               /\ \A i \in 1..n : f[i] = <<Written(s, i)>> \o f[Behind(s, i)]
  BY EncodeEquation DEF n
<1>3. PICK g : /\ EncodedLen(s) = g[1] /\ g[n + 1] = 0
               /\ \A i \in 1..n : g[i] = Cost(s, i) + g[Behind(s, i)]
  BY EncodedLenEquation DEF n
<1> DEFINE P == {i \in 1..(n + 1) : f[i] \in Seq(Int) /\ Units(f[i]) = g[i]}
<1>4. n + 1 \in P
  <2>1. <<>> \in Seq(Int) /\ Units(<<>>) = 0
    <3>1. {i \in DOMAIN <<>> : <<>>[i] \in Wide} = {}
      OBVIOUS
    <3>. QED  BY <3>1, FS_EmptySet DEF Units
  <2>2. n + 1 \in 1..(n + 1)
    BY <1>1
  <2>. QED  BY <1>2, <1>3, <2>1, <2>2
<1>5. ASSUME NEW i \in 1..n, \A j \in (i + 1)..(n + 1) : j \in P PROVE i \in P
  <2> DEFINE b == Behind(s, i)
             w == Written(s, i)
  <2>1. b \in (i + 1)..(n + 1) /\ w \in Int /\ RuneLen(w) = Cost(s, i)
    BY Steps, WrittenCost DEF n
  <2>2. f[b] \in Seq(Int) /\ Units(f[b]) = g[b]
    BY <1>5, <2>1
  <2>3. f[i] = <<w>> \o f[b] /\ g[i] = Cost(s, i) + g[b]
    BY <1>2, <1>3
  <2> DEFINE e == f[b]
  <2> HIDE DEF b, w, e
  <2>4. <<w>> \o e \in Seq(Int) /\ Units(<<w>> \o e) = RuneLen(w) + Units(e)
    <3>1. w \in Int /\ e \in Seq(Int)
      BY <2>1, <2>2 DEF e
    <3>. QED  BY <3>1, Before, UnitsBefore
  <2>5. i \in 1..(n + 1)
    BY <1>1
  <2>. QED  BY <2>1, <2>2, <2>3, <2>4, <2>5 DEF e
<1>6. 1 \in P
  <2>1. P \in SUBSET (1..(n + 1))
    OBVIOUS
  <2>2. 1 \in 1..(n + 1)
    BY <1>1
  <2> HIDE DEF P
  <2>. QED  BY <1>1, <1>4, <1>5, <2>1, <2>2, BackwardInduction
<1>. QED  BY <1>2, <1>3, <1>6

-----------------------------------------------------------------------------
(***************************************************************************)
(* Writing names and reading them.                                         *)
(***************************************************************************)

\* A name is written from its end, each character standing for those up to a
\* later place.
IsWriting(s, f, w, next) ==
    /\ f[Len(s) + 1] = <<>>
    /\ \A i \in 1..Len(s) :
        /\ next[i] \in (i + 1)..(Len(s) + 1) /\ w[i] \in Int
        /\ f[i] = <<w[i]>> \o f[next[i]]
        /\ DecodeChar(w[i]) = SubSeq(s, i, next[i] - 1)

\* A name that is written so is read back.
LEMMA ReadBack ==
    ASSUME NEW s \in Seq(Int), NEW f, NEW w, NEW next, IsWriting(s, f, w, next)
    PROVE  f[1] \in Seq(Int) /\ Decode(f[1]) = s
<1> DEFINE n == Len(s)
<1>1. n \in Nat /\ f[n + 1] = <<>>
  BY DEF IsWriting
<1>0. SubSeq(s, 1, n) = s
  OBVIOUS
<1> DEFINE P == {i \in 1..(n + 1) : f[i] \in Seq(Int) /\ Decode(f[i]) = SubSeq(s, i, n)}
<1>2. n + 1 \in P
  <2>1. n + 1 \in 1..(n + 1) /\ <<>> \in Seq(Int)
    BY <1>1
  <2>2. SubSeq(s, n + 1, n) = <<>>
    BY <1>1
  <2>. QED  BY <1>1, <2>1, <2>2, DecodeEmpty
<1>3. ASSUME NEW i \in 1..n, \A j \in (i + 1)..(n + 1) : j \in P PROVE i \in P
  <2> DEFINE b == next[i]
             e == f[b]
             c == w[i]
  <2>1. b \in (i + 1)..(n + 1) /\ c \in Int /\ f[i] = <<c>> \o e
        /\ DecodeChar(c) = SubSeq(s, i, b - 1)
    BY DEF IsWriting
  <2>2. e \in Seq(Int) /\ Decode(e) = SubSeq(s, b, n)
    BY <1>3, <2>1
  <2>3. i \in 1..(n + 1)
    BY <1>1
  <2> HIDE DEF b, c, e, P
  <2>4. <<c>> \o e \in Seq(Int) /\ Decode(<<c>> \o e) = DecodeChar(c) \o Decode(e)
    BY <2>1, <2>2, Before, DecodeBefore
  <2>5. SubSeq(s, i, n) = SubSeq(s, i, b - 1) \o SubSeq(s, b, n)
    BY <2>1, CutRest
  <2>. QED  BY <2>1, <2>2, <2>3, <2>4, <2>5 DEF P
<1>4. 1 \in P
  <2>1. P \in SUBSET (1..(n + 1))
    OBVIOUS
  <2>2. 1 \in 1..(n + 1)
    BY <1>1
  <2> HIDE DEF P
  <2>. QED  BY <1>1, <1>2, <1>3, <2>1, <2>2, BackwardInduction
<1>. QED  BY <1>0, <1>4

\* A name without a character of the alphabet's ranges.
Plain(s) == \A i \in DOMAIN s : ~Reserved(s[i])

\* What is written for a character is read as the characters it stands for.
LEMMA WrittenRead ==
    ASSUME NEW s \in Seq(Int), Plain(s), NEW i \in 1..Len(s)
    PROVE  DecodeChar(Written(s, i)) = SubSeq(s, i, Behind(s, i) - 1)
<1> DEFINE a == s[i]
           K == SymbolCount
<1>1. /\ Len(s) \in Nat /\ DOMAIN s = 1..Len(s) /\ a \in Int /\ ~Reserved(a)
  BY DEF Plain
<1>2. K \in Nat /\ K >= 1 /\ PairBase = K /\ SingleBase = K + K * K /\ K * K \in Nat
  BY Ranges DEF PairBase, SingleBase
<1>3. CASE ~Paired(s, i)
  <2>1. Behind(s, i) - 1 = i
    BY <1>3 DEF Behind
  <2>2. SubSeq(s, i, i) = <<a>>
    BY ShortRanges
  <2>3. CASE a \notin Symbols
    <3>1. Written(s, i) = a
      BY <2>3 DEF Written
    <3>. QED  BY <1>1, <2>1, <2>2, <3>1 DEF DecodeChar
  <2>4. CASE a \in Symbols
    <3> DEFINE c == SingleBase + a
    <3>1. Written(s, i) = c
      BY <1>3, <2>4 DEF Written
    <3>2. a \in 0..(K - 1)
      BY <2>4 DEF Symbols
    <3> HIDE DEF a, K
    <3>3. c \in Int /\ c >= SingleBase /\ c >= PairBase /\ c < SingleBase + K
          /\ c - SingleBase = a
      BY <1>2, <3>2
    <3>4. Reserved(c)
      BY <3>3 DEF Reserved, K
    <3>5. DecodeChar(c) = <<c - SingleBase>>
      BY <3>3, <3>4 DEF DecodeChar
    <3>. QED  BY <2>1, <2>2, <3>1, <3>3, <3>5
  <2>. QED  BY <2>3, <2>4
<1>4. CASE Paired(s, i)
  <2> DEFINE b == s[i + 1]
             c == PairBase + a + b * K
  <2>1. Written(s, i) = c
    BY <1>4 DEF Written, Paired
  <2>2. Behind(s, i) - 1 = i + 1
    BY <1>4 DEF Behind
  <2>3. i + 1 \in 1..Len(s)
    BY <1>1, <1>4 DEF Paired
  <2>4. SubSeq(s, i, i + 1) = <<a, b>>
    BY <1>4, ShortRanges DEF Paired
  <2>5. a \in 0..(K - 1) /\ b \in 0..(K - 1)
    BY <1>4 DEF Paired, Symbols
  <2> HIDE DEF a, b, K
  <2>6. b * K \in Nat /\ b * K <= (K - 1) * K /\ (K - 1) * K = K * K - K
    BY <1>2, <2>5
  <2>7. c \in Int /\ c - PairBase = a + b * K /\ c >= PairBase /\ c < SingleBase
    BY <1>2, <2>5, <2>6
  <2>8. Reserved(c)
    <3>1. c < SingleBase + K
      BY <1>2, <2>7
    <3>. QED  BY <2>7, <3>1 DEF Reserved, K
  <2>9. (a + b * K) % K = a /\ (a + b * K) \div K = b
    BY <1>2, <2>5
  <2>10. DecodeChar(c) = <<(c - PairBase) % K, (c - PairBase) \div K>>
    <3>1. ~(c >= SingleBase)
      BY <1>2, <2>7
    <3>. QED  BY <2>8, <3>1 DEF DecodeChar, K
  <2>. QED  BY <2>1, <2>2, <2>4, <2>7, <2>9, <2>10
<1>. QED  BY <1>3, <1>4

\* What Encode writes for a name without reserved characters, Decode reads.
LEMMA EncodedReadBack ==
    ASSUME NEW s \in Seq(Int), Plain(s)
    PROVE  Decode(Encode(s)) = s
<1> DEFINE n == Len(s)
           next == [i \in 1..n |-> Behind(s, i)]
           w == [i \in 1..n |-> Written(s, i)]
<1>1. PICK f : /\ Encode(s) = f[1] /\ f[n + 1] = <<>>
               /\ \A i \in 1..n : f[i] = <<Written(s, i)>> \o f[Behind(s, i)]
  BY EncodeEquation
<1>2. \A i \in 1..n :
        /\ next[i] \in (i + 1)..(n + 1) /\ w[i] \in Int
        /\ f[i] = <<w[i]>> \o f[next[i]]
        /\ DecodeChar(w[i]) = SubSeq(s, i, next[i] - 1)
  <2>1. ASSUME NEW i \in 1..n
        PROVE  /\ Behind(s, i) \in (i + 1)..(n + 1) /\ Written(s, i) \in Int
               /\ DecodeChar(Written(s, i)) = SubSeq(s, i, Behind(s, i) - 1)
    BY Steps, WrittenRead
  <2> HIDE DEF n
  <2>. QED  BY <1>1, <2>1
<1> HIDE DEF next, w
<1>3. Decode(f[1]) = s
  <2>1. IsWriting(s, f, w, next)
    BY <1>1, <1>2 DEF IsWriting
  <2>. QED  BY <2>1, ReadBack
<1>. QED  BY <1>1, <1>3

\* A name without reserved characters is read as it is.
LEMMA PlainReadBack ==
    ASSUME NEW s \in Seq(Int), Plain(s)
    PROVE  Decode(s) = s
<1> DEFINE n == Len(s)
           next == [i \in 1..n |-> i + 1]
           f == [i \in 1..(n + 1) |-> SubSeq(s, i, n)]
<1>1. n \in Nat /\ DOMAIN s = 1..n /\ \A i \in 1..n : s[i] \in Int
  OBVIOUS
<1>2. f[n + 1] = <<>> /\ f[1] = s
  BY <1>1
<1>3. ASSUME NEW i \in 1..n
      PROVE  /\ next[i] \in (i + 1)..(n + 1) /\ s[i] \in Int
             /\ f[i] = <<s[i]>> \o f[next[i]]
             /\ DecodeChar(s[i]) = SubSeq(s, i, next[i] - 1)
  <2>1. next[i] = i + 1 /\ next[i] - 1 = i /\ i + 1 \in (i + 1)..(n + 1)
    BY <1>1
  <2>2. SubSeq(s, i, i) = <<s[i]>>
    BY ShortRanges
  <2>3. SubSeq(s, i, n) = SubSeq(s, i, (i + 1) - 1) \o SubSeq(s, i + 1, n)
    BY <2>1, CutRest
  <2>4. f[i] = SubSeq(s, i, n) /\ f[i + 1] = SubSeq(s, i + 1, n)
    BY <1>1
  <2>5. DecodeChar(s[i]) = <<s[i]>>
    BY <1>1 DEF Plain, DecodeChar
  <2>6. (i + 1) - 1 = i
    BY <1>1
  <2> HIDE DEF f, next, n
  <2>. QED  BY <1>1, <2>1, <2>2, <2>3, <2>4, <2>5, <2>6
<1> HIDE DEF next, f
<1>4. Decode(f[1]) = s
  <2>1. IsWriting(s, f, s, next)
    BY <1>2, <1>3 DEF IsWriting
  <2>. QED  BY <2>1, ReadBack
<1>. QED  BY <1>2, <1>4

\* A name that is written does not begin with the table marker, unless it does
\* so itself.
LEMMA FirstWritten ==
    ASSUME NEW s \in Seq(Int), s # <<>>, s[1] # Marker
    PROVE  Encode(s)[1] # Marker
<1> DEFINE w == Written(s, 1)
           K == SymbolCount
<1>1. 1 \in 1..Len(s)
  OBVIOUS
<1>2. PICK f \in [1..(Len(s) + 1) -> Seq(Int)] :
               /\ Encode(s) = f[1] /\ f[Len(s) + 1] = <<>>
               /\ \A i \in 1..Len(s) : f[i] = <<Written(s, i)>> \o f[Behind(s, i)]
  BY EncodeEquation
<1>3. w # Marker
  <2>1. K \in Nat /\ K >= 1 /\ PairBase = K /\ SingleBase = K + K * K /\ K * K \in Nat
        /\ Marker = SingleBase + K
    BY Ranges DEF PairBase, SingleBase
  <2>2. CASE s[1] \notin Symbols
    BY <2>2 DEF Written
  <2>3. CASE s[1] \in Symbols /\ ~Paired(s, 1)
    <3>1. w = SingleBase + s[1]
      BY <2>3 DEF Written
    <3>2. s[1] \in 0..(K - 1)
      BY <2>3 DEF Symbols
    <3> HIDE DEF w, K
    <3>. QED  BY <2>1, <3>1, <3>2
  <2>4. CASE Paired(s, 1)
    <3> DEFINE a == s[1]
               b == s[1 + 1]
    <3>1. w = PairBase + a + b * K
      BY <2>4 DEF Written, Paired
    <3>2. a \in 0..(K - 1) /\ b \in 0..(K - 1)
      BY <2>4 DEF Paired, Symbols
    <3> HIDE DEF w, a, b, K
    <3>3. b * K \in Nat /\ b * K <= (K - 1) * K /\ (K - 1) * K = K * K - K
      BY <2>1, <3>2
    <3>. QED  BY <2>1, <3>1, <3>2, <3>3
  <2>. QED  BY <2>2, <2>3, <2>4
<1>4. Encode(s)[1] = w
  <2> DEFINE e == f[Behind(s, 1)]
  <2>1. Encode(s) = <<w>> \o e
    BY <1>1, <1>2
  <2>2. w \in Int /\ e \in Seq(Int)
    BY <1>1, Steps
  <2> HIDE DEF w, e
  <2>3. (<<w>> \o e)[1] = w
    BY <2>2, Before
  <2>. QED  BY <2>1, <2>3
<1>. QED  BY <1>3, <1>4

-----------------------------------------------------------------------------
(***************************************************************************)
(* The streams and tables of a database.                                   *)
(***************************************************************************)

\* The names that pass checkStreamName, and those CREATE TABLE takes.
CheckedStreams == {s \in Seq(Int) : s # <<>> /\ CheckStreamName(s)}
CheckedTables == {t \in Seq(Int) : EncodedLen(t) <= MaxUnits - 1}

\* Every way to add a stream or a table takes checked names only.
NamesInv == streams \subseteq CheckedStreams /\ tables \subseteq CheckedTables

\* A database without tables and streams has only checked names.
LEMMA NamesInit == Init => NamesInv
BY DEF Init, NamesInv

\* No operation adds another name.
LEMMA NamesStep == NamesInv /\ [Next]_vars => NamesInv'
<1> SUFFICES ASSUME NamesInv, [Next]_vars PROVE NamesInv'
  OBVIOUS
<1> USE DEF NamesInv
<1>1. ASSUME NEW name \in TableNames, CreateTable(name) PROVE NamesInv'
  <2>1. name \in CheckedTables
    BY <1>1, StreamNameAssumption DEF CreateTable, CheckedTables
  <2>. QED  BY <1>1, <2>1 DEF CreateTable
<1>2. ASSUME NEW name \in tables, DropTable(name) PROVE NamesInv'
  BY <1>2 DEF DropTable
<1>3. ASSUME NEW name \in StreamNames, InsertStream(name) PROVE NamesInv'
  <2>1. name \in CheckedStreams
    BY <1>3, StreamNameAssumption DEF InsertStream, CheckedStreams
  <2>. QED  BY <1>3, <2>1 DEF InsertStream
<1>4. ASSUME NEW table \in tables, NEW key \in Keys, AddStream(table, key)
      PROVE  NamesInv'
  <2> DEFINE name == table \o <<Dot>> \o key
  <2>1. name \in Seq(Int) /\ name # <<>>
    <3>1. table \in Seq(Int) /\ key \in Seq(Int) /\ Dot \in Int
      BY StreamNameAssumption DEF CheckedTables
    <3>2. <<Dot>> \in Seq(Int) /\ Len(<<Dot>>) = 1
      BY <3>1
    <3>3. table \o <<Dot>> \in Seq(Int) /\ Len(table \o <<Dot>>) = Len(table) + 1
      BY <3>1, <3>2
    <3>4. name \in Seq(Int) /\ Len(name) = Len(table) + 1 + Len(key)
      BY <3>1, <3>3
    <3>5. Len(table) \in Nat /\ Len(key) \in Nat
      BY <3>1
    <3> HIDE DEF name
    <3>6. Len(name) # 0
      BY <3>4, <3>5
    <3>. QED  BY <3>4, <3>6
  <2>2. name \in CheckedStreams
    BY <1>4, <2>1 DEF AddStream, CheckedStreams
  <2>. QED  BY <1>4, <2>2 DEF AddStream
<1>5. ASSUME SetSummaryInformation PROVE NamesInv'
  <2>1. Summary \in CheckedStreams
    BY StreamNameAssumption, SummaryAssumption DEF CheckedStreams
  <2>. QED  BY <1>5, <2>1 DEF SetSummaryInformation
<1>6. ASSUME NEW name \in streams, DropStream(name) PROVE NamesInv'
  BY <1>6 DEF DropStream
<1>7. CASE UNCHANGED vars
  BY <1>7 DEF vars
<1>. QED  BY <1>1, <1>2, <1>3, <1>4, <1>5, <1>6, <1>7 DEF Next

\* The names of the streams and tables are checked ones in every state.
LEMMA NamesInvariant == Spec => []NamesInv
BY NamesInit, NamesStep, PTL DEF Spec

\* The first character of a table's entry is the marker, and a stream's is not.
LEMMA Markers ==
    /\ \A t \in CheckedTables : TableStreamName(t)[1] = Marker
    /\ \A s \in CheckedStreams : EntryName(s)[1] # Marker
<1>1. ASSUME NEW t \in CheckedTables PROVE TableStreamName(t)[1] = Marker
  <2>1. Encode(t) \in Seq(Int) /\ Marker \in Int
    BY EncodedUnits, Ranges DEF CheckedTables
  <2>. QED  BY <2>1, Before DEF TableStreamName
<1>2. ASSUME NEW s \in CheckedStreams PROVE EntryName(s)[1] # Marker
  <2>1. s \in Seq(Int) /\ s # <<>> /\ s[1] # Marker
    BY DEF CheckedStreams, CheckStreamName
  <2>. QED  BY <2>1, FirstWritten DEF EntryName
<1>. QED  BY <1>1, <1>2

\* A checked name is read back from the entry of the stream.
LEMMA StreamRead ==
    ASSUME NEW s \in CheckedStreams
    PROVE  Decode(EntryName(s)) = s
<1>1. s \in Seq(Int) /\ Plain(s)
  BY DEF CheckedStreams, CheckStreamName, Plain
<1>. QED  BY <1>1, PlainReadBack, EncodedReadBack DEF EntryName

\* Every stream is found again under its name when the file is read, and is not
\* taken for a table: what checkStreamName is there for, for any alphabet and
\* names.
THEOREM StreamNamesReadBack == Spec => []StreamsReadBack
<1>1. NamesInv => StreamsReadBack
  BY Markers, StreamRead DEF NamesInv, StreamsReadBack
<1>. QED  BY <1>1, NamesInvariant, PTL

\* The entry of every stream and table has a name that fits in a compound file,
\* for which EncodedLen has to count what Encode writes.
THEOREM EntryNamesFit == Spec => []LengthsFit
<1>1. ASSUME NEW s \in CheckedStreams PROVE Units(EntryName(s)) <= MaxUnits
  <2>1. s \in Seq(Int)
        /\ (IF IsSpecial(s) THEN Units(s) ELSE EncodedLen(s)) <= MaxUnits
    BY DEF CheckedStreams, CheckStreamName
  <2>2. Units(Encode(s)) = EncodedLen(s)
    BY <2>1, EncodedUnits
  <2>. QED  BY <2>1, <2>2 DEF EntryName
<1>2. ASSUME NEW t \in CheckedTables PROVE Units(TableStreamName(t)) <= MaxUnits
  <2>1. t \in Seq(Int) /\ EncodedLen(t) <= MaxUnits - 1
    BY DEF CheckedTables
  <2>2. Encode(t) \in Seq(Int) /\ Units(Encode(t)) = EncodedLen(t)
    BY <2>1, EncodedUnits
  <2>3. Marker \in Int /\ Marker >= 0 /\ MaxUnits \in Nat
    BY Ranges, StreamNameAssumption
  <2>4. Units(<<Marker>> \o Encode(t)) = RuneLen(Marker) + Units(Encode(t))
        /\ Units(Encode(t)) \in Nat
    BY <2>2, <2>3, UnitsBefore
  <2>5. RuneLen(Marker) = 1
    BY <2>3, StreamNameAssumption DEF RuneLen
  <2>6. Units(TableStreamName(t)) = 1 + EncodedLen(t)
    BY <2>2, <2>4, <2>5 DEF TableStreamName
  <2>. QED  BY <2>1, <2>2, <2>3, <2>4, <2>6
<1>3. NamesInv => LengthsFit
  BY <1>1, <1>2 DEF NamesInv, LengthsFit
<1>. QED  BY <1>3, NamesInvariant, PTL

\* No two streams have the same entry of the file, and none has a table's.
EntriesDiffer ==
    \A s \in streams :
        /\ \A t \in streams : EntryName(s) = EntryName(t) => s = t
        /\ \A t \in tables : EntryName(s) # TableStreamName(t)

\* Writing the file never puts a stream in the place of another or of a table.
THEOREM StreamsKeepApart == Spec => []EntriesDiffer
<1>1. NamesInv => EntriesDiffer
  <2> SUFFICES ASSUME NamesInv, NEW s \in streams
               PROVE  /\ \A t \in streams : EntryName(s) = EntryName(t) => s = t
                      /\ \A t \in tables : EntryName(s) # TableStreamName(t)
    BY DEF EntriesDiffer
  <2>1. s \in CheckedStreams /\ streams \subseteq CheckedStreams
        /\ tables \subseteq CheckedTables
    BY DEF NamesInv
  <2>2. \A t \in streams : Decode(EntryName(t)) = t
    BY <2>1, StreamRead
  <2>3. \A t \in tables : TableStreamName(t)[1] = Marker
    BY <2>1, Markers
  <2>4. EntryName(s)[1] # Marker
    BY <2>1, Markers
  <2>. QED  BY <2>2, <2>3, <2>4
<1>. QED  BY <1>1, NamesInvariant, PTL

=============================================================================
