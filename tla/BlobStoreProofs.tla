-------------------------- MODULE BlobStoreProofs ---------------------------
(***************************************************************************)
(* The extents of the blob store tile its file, for any number of blobs of *)
(* any size: what holds of the file's bytes one at a time is kept by each  *)
(* step that moves extents between the free list and a blob.  With that,   *)
(* the bytes along the chain of a blob are those that were written to it,  *)
(* so that the store is the map that BlobSpec describes.                   *)
(***************************************************************************)
EXTENDS BlobStore, FiniteSetTheorems, SequenceTheorems, WellFoundedInduction, TLAPS

\* Handles are numbers, and the mark for none is not one of them.
LEMMA HandlesAre ==
    Handles \subseteq Nat /\ NoHandle \notin Handles
<1>1. IsFiniteSet(Handles) /\ Handles = 0..(Cardinality(Handles) - 1) /\ NoHandle \notin Handles
  BY BlobAssumption
<1>2. Cardinality(Handles) \in Nat
  BY <1>1, FS_CardinalityType
<1>. QED  BY <1>1, <1>2

-----------------------------------------------------------------------------
(***************************************************************************)
(* Sequences of extents: whether one of them, and whether only one of them *)
(* covers a byte.                                                          *)
(***************************************************************************)

In(s, b) == \E k \in DOMAIN s : Covers(s[k], b)

Once(s, b) == \A j, k \in DOMAIN s : Covers(s[j], b) /\ Covers(s[k], b) => j = k

\* What covers a byte in two sequences put together, and how often.
LEMMA Concatenated ==
    ASSUME NEW s \in Seq(Extents), NEW t \in Seq(Extents), NEW b
    PROVE  /\ s \o t \in Seq(Extents)
           /\ In(s \o t, b) <=> In(s, b) \/ In(t, b)
           /\ Once(s \o t, b) <=> Once(s, b) /\ Once(t, b) /\ ~(In(s, b) /\ In(t, b))
<1>m. PICK m \in Nat : m = Len(s)
  OBVIOUS
<1>n. PICK n \in Nat : n = Len(t)
  OBVIOUS
<1>1. m = Len(s) /\ n = Len(t) /\ m \in Nat /\ n \in Nat
  BY <1>m, <1>n
<1>2. PICK u : u = s \o t
  OBVIOUS
<1>3. /\ u \in Seq(Extents) /\ DOMAIN u = 1..(m + n) /\ DOMAIN s = 1..m /\ DOMAIN t = 1..n
      /\ \A k \in 1..m : u[k] = s[k]
      /\ \A k \in 1..n : u[m + k] = t[k]
  BY <1>1, <1>2
<1>4. \A k \in 1..(m + n) : k \in 1..m \/ \E i \in 1..n : k = m + i
  <2> SUFFICES ASSUME NEW k \in 1..(m + n), k \notin 1..m PROVE \E i \in 1..n : k = m + i
    OBVIOUS
  <2>1. k - m \in 1..n /\ k = m + (k - m)
    BY <1>1
  <2>. QED  BY <2>1
<1>5. \A i \in 1..n : m + i \in 1..(m + n) /\ m + i \notin 1..m
  BY <1>1
<1>6. \A k \in 1..m : k \in 1..(m + n)
  BY <1>1
<1>7. In(u, b) <=> In(s, b) \/ In(t, b)
  <2>1. ASSUME NEW k \in 1..(m + n), Covers(u[k], b) PROVE In(s, b) \/ In(t, b)
    <3>1. CASE k \in 1..m
      BY <1>3, <2>1, <3>1 DEF In
    <3>2. CASE k \notin 1..m
      <4>1. PICK i \in 1..n : k = m + i
        BY <1>4, <3>2
      <4>. QED  BY <1>3, <2>1, <4>1 DEF In
    <3>. QED  BY <3>1, <3>2
  <2>2. ASSUME NEW k \in 1..m, Covers(s[k], b) PROVE In(u, b)
    BY <1>3, <1>6, <2>2 DEF In
  <2>3. ASSUME NEW k \in 1..n, Covers(t[k], b) PROVE In(u, b)
    BY <1>3, <1>5, <2>3 DEF In
  <2>. QED  BY <1>3, <2>1, <2>2, <2>3 DEF In
<1>8. ASSUME Once(u, b) PROVE Once(s, b) /\ Once(t, b) /\ ~(In(s, b) /\ In(t, b))
  <2>1. Once(s, b)
    BY <1>3, <1>6, <1>8 DEF Once
  <2>2. Once(t, b)
    <3> SUFFICES ASSUME NEW j \in 1..n, NEW k \in 1..n, Covers(t[j], b), Covers(t[k], b) PROVE j = k
      BY <1>3 DEF Once
    <3>1. m + j = m + k
      BY <1>3, <1>5, <1>8 DEF Once
    <3>. QED  BY <1>1, <3>1
  <2>3. ~(In(s, b) /\ In(t, b))
    <3> SUFFICES ASSUME NEW j \in 1..m, NEW k \in 1..n, Covers(s[j], b), Covers(t[k], b) PROVE FALSE
      BY <1>3 DEF In
    <3>1. j = m + k
      BY <1>3, <1>5, <1>6, <1>8 DEF Once
    <3>. QED  BY <1>5, <3>1
  <2>. QED  BY <2>1, <2>2, <2>3
<1>9. ASSUME Once(s, b), Once(t, b), ~(In(s, b) /\ In(t, b)) PROVE Once(u, b)
  <2> SUFFICES ASSUME NEW j \in 1..(m + n), NEW k \in 1..(m + n), Covers(u[j], b), Covers(u[k], b)
               PROVE  j = k
    BY <1>3 DEF Once
  <2>1. CASE j \in 1..m /\ k \in 1..m
    BY <1>3, <1>9, <2>1 DEF Once
  <2>2. CASE j \notin 1..m /\ k \notin 1..m
    <3>1. PICK i \in 1..n, l \in 1..n : j = m + i /\ k = m + l
      BY <1>4, <2>2
    <3>. QED  BY <1>3, <1>9, <3>1 DEF Once
  <2>3. CASE (j \in 1..m) # (k \in 1..m)
    <3>1. In(s, b) /\ In(t, b)
      BY <1>3, <1>4, <2>3 DEF In
    <3>. QED  BY <1>9, <3>1
  <2>. QED  BY <2>1, <2>2, <2>3
<1>. QED  BY <1>2, <1>3, <1>7, <1>8, <1>9

\* A sequence of one extent covers what that covers.
LEMMA OneExtent ==
    ASSUME NEW e \in Extents, NEW b
    PROVE  /\ <<e>> \in Seq(Extents) /\ (In(<<e>>, b) <=> Covers(e, b)) /\ Once(<<e>>, b)
<1>1. PICK s : s = <<e>>
  OBVIOUS
<1>2. DOMAIN s = {1} /\ s[1] = e /\ s \in Seq(Extents)
  BY <1>1
<1>3. (In(s, b) <=> Covers(e, b)) /\ Once(s, b)
  BY <1>2 DEF In, Once
<1>. QED  BY <1>1, <1>2, <1>3

\* No extents cover nothing.
LEMMA NoExtent == \A b : ~In(<<>>, b) /\ Once(<<>>, b)
BY DEF In, Once

\* What covers a byte once one more extent is at the end.
LEMMA Appended ==
    ASSUME NEW s \in Seq(Extents), NEW e \in Extents, NEW b
    PROVE  /\ Append(s, e) \in Seq(Extents)
           /\ In(Append(s, e), b) <=> In(s, b) \/ Covers(e, b)
           /\ Once(Append(s, e), b) <=> Once(s, b) /\ ~(In(s, b) /\ Covers(e, b))
<1>1. PICK t : t = <<e>>
  OBVIOUS
<1>2. Append(s, e) = s \o t
  BY <1>1
<1>3. t \in Seq(Extents) /\ (In(t, b) <=> Covers(e, b)) /\ Once(t, b)
  BY <1>1, OneExtent
<1>. QED  BY <1>2, <1>3, Concatenated

\* The last extent taken off a stack.
LEMMA Popped ==
    ASSUME NEW s \in Seq(Extents), s # <<>>, NEW b
    PROVE  /\ Front(s) \in Seq(Extents) /\ Last(s) \in Extents
           /\ In(s, b) <=> In(Front(s), b) \/ Covers(Last(s), b)
           /\ Once(s, b) <=> Once(Front(s), b) /\ ~(In(Front(s), b) /\ Covers(Last(s), b))
<1>1. PICK f, e : f = Front(s) /\ e = Last(s)
  OBVIOUS
<1>2. Len(s) \in Nat \ {0}
  OBVIOUS
<1>3. f \in Seq(Extents) /\ e \in Extents
  BY <1>1, <1>2, SubSeqProperties DEF Front, Last
<1>4. s = Append(f, e)
  BY <1>1, <1>2, SubSeqProperties, AppendProperties DEF Front, Last
<1>. QED  BY <1>1, <1>3, <1>4, Appended

-----------------------------------------------------------------------------
(***************************************************************************)
(* Who owns the extents.                                                   *)
(***************************************************************************)

Owners == Handles \cup {NoHandle}

\* Every byte up to the end has one extent, of one owner, and no other byte has.
Tiles(own, end) ==
    /\ \A o \in Owners : own[o] \in Seq(Extents)
    /\ \A b \in Nat :
        /\ 0 < b /\ b <= end => \E o \in Owners : In(own[o], b)
        /\ \A o \in Owners : Once(own[o], b) /\ (In(own[o], b) => b <= end)
        /\ \A o, p \in Owners : In(own[o], b) /\ In(own[p], b) => o = p

\* What a step may do: the free list and a blob share out anew what they have,
\* and what the file grew by.
Reshared(own, new, h, end, newEnd) ==
    /\ \A o \in Handles \ {h} : new[o] = own[o]
    /\ new[NoHandle] \in Seq(Extents) /\ new[h] \in Seq(Extents)
    /\ \A b \in Nat :
        /\ In(new[NoHandle], b) \/ In(new[h], b)
                <=> In(own[NoHandle], b) \/ In(own[h], b) \/ (end < b /\ b <= newEnd)
        /\ Once(own[NoHandle], b) /\ Once(own[h], b) /\ ~(In(own[NoHandle], b) /\ In(own[h], b))
           /\ (In(own[NoHandle], b) \/ In(own[h], b) => b <= end)
           => Once(new[NoHandle], b) /\ Once(new[h], b) /\ ~(In(new[NoHandle], b) /\ In(new[h], b))

\* What was tiled and is shared out anew is tiled.
LEMMA TilesKept ==
    ASSUME NEW own, NEW new, NEW h \in Handles, NEW end \in Nat, NEW newEnd \in Nat,
           end <= newEnd, Tiles(own, end), Reshared(own, new, h, end, newEnd)
    PROVE  Tiles(new, newEnd)
<1>1. Owners = (Handles \ {h}) \cup {NoHandle, h} /\ NoHandle # h
  BY HandlesAre DEF Owners
<1>2. \A o \in Owners : new[o] \in Seq(Extents)
  BY <1>1 DEF Tiles, Reshared
<1>3. \A o \in Handles \ {h} : new[o] = own[o]
  BY DEF Reshared
<1>4. ASSUME NEW b \in Nat
      PROVE  /\ 0 < b /\ b <= newEnd => \E o \in Owners : In(new[o], b)
             /\ \A o \in Owners : Once(new[o], b) /\ (In(new[o], b) => b <= newEnd)
             /\ \A o, p \in Owners : In(new[o], b) /\ In(new[p], b) => o = p
  <2>1. /\ 0 < b /\ b <= end => \E o \in Owners : In(own[o], b)
        /\ \A o \in Owners : Once(own[o], b) /\ (In(own[o], b) => b <= end)
        /\ \A o, p \in Owners : In(own[o], b) /\ In(own[p], b) => o = p
    BY DEF Tiles
  <2>2. /\ In(new[NoHandle], b) \/ In(new[h], b)
                <=> In(own[NoHandle], b) \/ In(own[h], b) \/ (end < b /\ b <= newEnd)
        /\ Once(own[NoHandle], b) /\ Once(own[h], b) /\ ~(In(own[NoHandle], b) /\ In(own[h], b))
           /\ (In(own[NoHandle], b) \/ In(own[h], b) => b <= end)
           => Once(new[NoHandle], b) /\ Once(new[h], b) /\ ~(In(new[NoHandle], b) /\ In(new[h], b))
    BY DEF Reshared
  <2>3. Once(new[NoHandle], b) /\ Once(new[h], b) /\ ~(In(new[NoHandle], b) /\ In(new[h], b))
    BY <1>1, <2>1, <2>2
  <2>4. b <= end => b <= newEnd
    OBVIOUS
  <2>5. 0 < b /\ b <= newEnd => \E o \in Owners : In(new[o], b)
    <3>1. b <= end \/ end < b
      OBVIOUS
    <3>. QED  BY <1>1, <1>3, <2>1, <2>2, <3>1
  <2>6. \A o \in Owners : Once(new[o], b) /\ (In(new[o], b) => b <= newEnd)
    BY <1>1, <1>3, <2>1, <2>2, <2>3, <2>4
  <2>7. \A o \in Handles \ {h} : In(new[o], b) => ~In(new[NoHandle], b) /\ ~In(new[h], b)
    <3>1. \A o \in Handles \ {h} : In(own[o], b) =>
            ~In(own[NoHandle], b) /\ ~In(own[h], b) /\ ~(end < b)
      <4> SUFFICES ASSUME NEW o \in Handles \ {h}, In(own[o], b)
                   PROVE  ~In(own[NoHandle], b) /\ ~In(own[h], b) /\ ~(end < b)
        OBVIOUS
      <4>1. o \in Owners /\ o # NoHandle /\ o # h
        BY HandlesAre DEF Owners
      <4>2. b <= end
        BY <2>1, <4>1
      <4>3. ~(end < b)
        BY <4>2
      <4>. QED  BY <1>1, <2>1, <4>1, <4>3
    <3>. QED  BY <1>3, <2>2, <3>1
  <2>8. \A o, p \in Owners : In(new[o], b) /\ In(new[p], b) => o = p
    BY <1>1, <1>3, <2>1, <2>3, <2>7
  <2>. QED  BY <2>5, <2>6, <2>8
<1>. QED  BY <1>2, <1>4 DEF Tiles

-----------------------------------------------------------------------------
(***************************************************************************)
(* How the free list and a blob share out what they have.                  *)
(***************************************************************************)

\* Free extents and a blob's, before and after, at a byte.
Share(f, s, newF, newS, end, newEnd, b) ==
    /\ In(newF, b) \/ In(newS, b) <=> In(f, b) \/ In(s, b) \/ (end < b /\ b <= newEnd)
    /\ /\ Once(f, b) /\ Once(s, b) /\ ~(In(f, b) /\ In(s, b))
       /\ In(f, b) \/ In(s, b) => b <= end
       => Once(newF, b) /\ Once(newS, b) /\ ~(In(newF, b) /\ In(newS, b))

\* A growing extent has no room, since it grows with what is written to it.
WriterOK(w) ==
    /\ w \in Writer
    /\ w.curLen <= w.cur.length
    /\ w.growing => w.curLen = w.cur.length
    /\ w.left > 0 => w.state = "open"

\* Extents with bytes in them are extents.
LEMMA FilledAre == Filled \subseteq Extents /\ \A s \in Seq(Filled) : s \in Seq(Extents)
<1>1. Filled \subseteq Extents
  BY DEF Filled, Extents
<1>. QED  BY <1>1

\* The types of what a writer has.
LEMMA WriterFields ==
    ASSUME NEW w, WriterOK(w)
    PROVE  /\ w.chain \in Seq(Filled) /\ w.chain \in Seq(Extents) /\ w.cur \in Extents /\ w.curLen \in Nat
           /\ w.cur.offset \in Nat /\ w.cur.length \in Nat /\ w.curLen <= w.cur.length
           /\ w.growing \in BOOLEAN /\ w.err \in BOOLEAN /\ w.left \in Nat
           /\ Append(w.chain, w.cur) \in Seq(Extents)
<1>1. PICK c : c = w.chain /\ c \in Seq(Filled) /\ c \in Seq(Extents)
  BY FilledAre DEF WriterOK, Writer
<1>. QED  BY <1>1 DEF WriterOK, Writer, Extents

\* What a writer commits or gives back are extents with bytes in them.
LEMMA FilledStays ==
    ASSUME NEW w, WriterOK(w)
    PROVE  Commit(w) \in Seq(Filled) /\ Unfilled(w) \in Seq(Filled) /\ Reserved(w) \in Seq(Filled)
<1>1. PICK c, e, n : c = w.chain /\ e = w.cur /\ n = w.curLen
  OBVIOUS
<1>2. c \in Seq(Filled) /\ e \in Extents /\ n \in Nat /\ e.offset \in Nat /\ e.length \in Nat /\ n <= e.length
  BY <1>1, WriterFields
<1>3. Commit(w) \in Seq(Filled)
  <2>1. n > 0 => Extent(e.offset, n) \in Filled
    BY <1>2 DEF Extent, Filled
  <2>. QED  BY <1>1, <1>2, <2>1 DEF Commit
<1>4. Unfilled(w) \in Seq(Filled)
  <2>1. e.length > n => Extent(e.offset + n, e.length - n) \in Filled
    BY <1>2 DEF Extent, Filled
  <2>2. PICK r : r = Extent(e.offset + n, e.length - n)
    OBVIOUS
  <2>3. Unfilled(w) = IF e.length > n THEN <<r>> ELSE <<>>
    BY <1>1, <2>2 DEF Unfilled
  <2>. QED  BY <2>1, <2>2, <2>3
<1>5. Reserved(w) \in Seq(Filled)
  <2>1. e.length > 0 => e \in Filled
    BY <1>2 DEF Extents, Filled
  <2>2. PICK t : t = IF e.length > 0 THEN <<e>> ELSE <<>>
    OBVIOUS
  <2>3. t \in Seq(Filled)
    BY <2>1, <2>2
  <2>4. Reserved(w) = c \o t
    BY <1>1, <2>2 DEF Reserved
  <2>. QED  BY <1>2, <2>3, <2>4
<1>. QED  BY <1>3, <1>4, <1>5

\* What an extent covers.
LEMMA ExtentFields ==
    ASSUME NEW o \in Nat, NEW l \in Nat
    PROVE  /\ Extent(o, l) \in Extents /\ Extent(o, l).offset = o /\ Extent(o, l).length = l
           /\ \A b \in Nat : Covers(Extent(o, l), b) <=> o < b /\ b <= o + l
BY DEF Extent, Extents, Covers

\* Closing publishes the filled part of the open extent and frees the other.
LEMMA CommitShares ==
    ASSUME NEW w, WriterOK(w), NEW f \in Seq(Extents), NEW end \in Nat, NEW b \in Nat
    PROVE  /\ Commit(w) \in Seq(Extents) /\ f \o Unfilled(w) \in Seq(Extents)
           /\ Share(f, Append(w.chain, w.cur), f \o Unfilled(w), Commit(w), end, end, b)
<1>1. PICK c, e, n : c = w.chain /\ e = w.cur /\ n = w.curLen
  OBVIOUS
<1>2. c \in Seq(Extents) /\ e \in Extents /\ n \in Nat /\ e.offset \in Nat /\ e.length \in Nat /\ n <= e.length
  BY <1>1, WriterFields
<1>3. PICK m \in Nat : m = e.length - n
  BY <1>2
<1>4. PICK filled, rest : filled = Extent(e.offset, n) /\ rest = Extent(e.offset + n, m)
  OBVIOUS
<1>5. /\ filled \in Extents /\ rest \in Extents
      /\ Covers(e, b) <=> Covers(filled, b) \/ Covers(rest, b)
      /\ ~(Covers(filled, b) /\ Covers(rest, b))
      /\ n = 0 => ~Covers(filled, b)
      /\ m = 0 => ~Covers(rest, b)
  <2>1. PICK o \in Nat, l \in Nat : o = e.offset /\ l = e.length /\ l = n + m
    BY <1>2, <1>3
  <2>2. filled \in Extents /\ (Covers(filled, b) <=> o < b /\ b <= o + n)
    BY <1>2, <1>4, <2>1, ExtentFields
  <2>3. o + n \in Nat
    BY <1>2, <2>1
  <2>4. rest \in Extents /\ (Covers(rest, b) <=> o + n < b /\ b <= o + n + m)
    BY <1>3, <1>4, <2>1, <2>3, ExtentFields
  <2>5. Covers(e, b) <=> o < b /\ b <= o + l
    BY <2>1 DEF Covers
  <2>6. /\ o < b /\ b <= o + l <=> (o < b /\ b <= o + n) \/ (o + n < b /\ b <= o + n + m)
        /\ ~(b <= o + n /\ o + n < b)
        /\ n = 0 => ~(o < b /\ b <= o + n)
        /\ m = 0 => ~(o + n < b /\ b <= o + n + m)
    <3>1. n \in Nat /\ m \in Nat /\ o \in Nat /\ b \in Nat /\ l = n + m
      BY <1>2, <2>1
    <3>2. o < b /\ b <= o + l <=> (o < b /\ b <= o + n) \/ (o + n < b /\ b <= o + n + m)
      BY <3>1
    <3>3. n = 0 => ~(o < b /\ b <= o + n)
      BY <3>1
    <3>4. m = 0 => ~(o + n < b /\ b <= o + n + m)
      BY <3>1
    <3>5. ~(b <= o + n /\ o + n < b)
      BY <3>1
    <3>. QED  BY <3>2, <3>3, <3>4, <3>5
  <2>. QED  BY <2>2, <2>4, <2>5, <2>6
<1>6. PICK u, v : u = Unfilled(w) /\ v = Commit(w)
  OBVIOUS
<1>7. /\ v = IF n > 0 THEN Append(c, filled) ELSE c
      /\ u = IF m > 0 THEN <<rest>> ELSE <<>>
  <2>1. e.length > n <=> m > 0
    BY <1>2, <1>3
  <2>. QED  BY <1>1, <1>3, <1>4, <1>6, <2>1 DEF Commit, Unfilled
<1>8. v \in Seq(Extents) /\ (In(v, b) <=> In(c, b) \/ Covers(filled, b))
      /\ (Once(v, b) <=> Once(c, b) /\ ~(In(c, b) /\ Covers(filled, b)))
  BY <1>2, <1>5, <1>7, Appended
<1>9. u \in Seq(Extents) /\ (In(u, b) <=> Covers(rest, b)) /\ Once(u, b)
  BY <1>3, <1>5, <1>7, OneExtent, NoExtent
<1>10. /\ f \o u \in Seq(Extents) /\ (In(f \o u, b) <=> In(f, b) \/ In(u, b))
       /\ Once(f \o u, b) <=> Once(f, b) /\ Once(u, b) /\ ~(In(f, b) /\ In(u, b))
  BY <1>9, Concatenated
<1>11. /\ In(Append(c, e), b) <=> In(c, b) \/ Covers(e, b)
       /\ Once(Append(c, e), b) <=> Once(c, b) /\ ~(In(c, b) /\ Covers(e, b))
  BY <1>2, Appended
<1>12. ~(end < b /\ b <= end)
  OBVIOUS
<1>13. Share(f, Append(c, e), f \o u, v, end, end, b)
  BY <1>5, <1>8, <1>9, <1>10, <1>11, <1>12 DEF Share
<1>. QED  BY <1>1, <1>6, <1>8, <1>10, <1>13

\* Everything that a blob has goes to the free list.
LEMMA ReleaseShares ==
    ASSUME NEW s \in Seq(Extents), NEW f \in Seq(Extents), NEW end \in Nat, NEW b \in Nat
    PROVE  f \o s \in Seq(Extents) /\ Share(f, s, f \o s, <<>>, end, end, b)
<1>1. ~(end < b /\ b <= end)
  OBVIOUS
<1>. QED  BY <1>1, Concatenated, NoExtent DEF Share

\* What a writer reserved is what it owns, but for an empty extent.
LEMMA ReservedShares ==
    ASSUME NEW w, WriterOK(w), NEW f \in Seq(Extents), NEW end \in Nat, NEW b \in Nat
    PROVE  /\ f \o Reserved(w) \in Seq(Extents)
           /\ Share(f, Append(w.chain, w.cur), f \o Reserved(w), <<>>, end, end, b)
<1>1. PICK c, e : c = w.chain /\ e = w.cur /\ c \in Seq(Extents) /\ e \in Extents /\ e.length \in Nat /\ e.offset \in Nat
  BY WriterFields
<1>2. PICK s : s = Reserved(w)
  OBVIOUS
<1>3. CASE e.length > 0
  <2>1. s = Append(c, e)
    <3>1. s = c \o <<e>>
      BY <1>1, <1>2, <1>3 DEF Reserved
    <3>2. c \o <<e>> = Append(c, e)
      BY <1>1
    <3>. QED  BY <3>1, <3>2
  <2>2. s \in Seq(Extents)
    BY <1>1, <2>1
  <2>. QED  BY <1>1, <1>2, <2>1, <2>2, ReleaseShares
<1>4. CASE ~(e.length > 0)
  <2>1. s = c
    <3>1. s = c \o <<>>
      BY <1>1, <1>2, <1>4 DEF Reserved
    <3>2. c \o <<>> = c
      BY <1>1
    <3>. QED  BY <3>1, <3>2
  <2>2. ~Covers(e, b)
    BY <1>1, <1>4 DEF Covers
  <2>3. f \o s \in Seq(Extents) /\ Share(f, s, f \o s, <<>>, end, end, b)
    BY <1>1, <2>1, ReleaseShares
  <2>4. (In(Append(c, e), b) <=> In(s, b)) /\ (Once(Append(c, e), b) <=> Once(s, b))
    BY <1>1, <2>1, <2>2, Appended
  <2>. QED  BY <1>1, <1>2, <2>3, <2>4 DEF Share
<1>. QED  BY <1>3, <1>4

\* A stack of extents with bytes in them stays one when its top is taken.
LEMMA FrontFilled ==
    ASSUME NEW s \in Seq(Filled), s # <<>>
    PROVE  Front(s) \in Seq(Filled)
<1>1. Len(s) \in Nat \ {0}
  OBVIOUS
<1>. QED  BY <1>1, SubSeqProperties DEF Front

-----------------------------------------------------------------------------
(***************************************************************************)
(* An iteration of Write.                                                  *)
(***************************************************************************)

Reserve(w, n) == [w EXCEPT !.left = n]
MoveOn(w, c, e, n, g) == [w EXCEPT !.chain = c, !.cur = e, !.curLen = n, !.growing = g]
WriteOn(w, e, n, x, l) == [w EXCEPT !.curLen = n, !.cur = e, !.err = x, !.left = l]

\* A writer that is given bytes to write.
LEMMA ReservedOn ==
    ASSUME NEW w \in Writer, NEW n \in Nat
    PROVE  \A v : v = Reserve(w, n) =>
               /\ v \in Writer /\ v.chain = w.chain /\ v.cur = w.cur /\ v.curLen = w.curLen
               /\ v.growing = w.growing /\ v.state = w.state /\ v.left = n
BY DEF Writer, Reserve

\* A writer that goes on to another extent.
LEMMA MovedOn ==
    ASSUME NEW w \in Writer, NEW c \in Seq(Filled), NEW e \in Extents, NEW n \in Nat, NEW g \in BOOLEAN
    PROVE  \A v : v = MoveOn(w, c, e, n, g) =>
               /\ v \in Writer /\ v.chain = c /\ v.cur = e /\ v.curLen = n /\ v.growing = g
               /\ v.state = w.state /\ v.left = w.left
BY ZenonT(30) DEF Writer, MoveOn

\* A writer that has written some of its bytes.
LEMMA WroteOn ==
    ASSUME NEW w \in Writer, NEW e \in Extents, NEW n \in Nat, NEW x \in BOOLEAN, NEW l \in Nat
    PROVE  \A v : v = WriteOn(w, e, n, x, l) =>
               /\ v \in Writer /\ v.chain = w.chain /\ v.cur = e /\ v.curLen = n
               /\ v.growing = w.growing /\ v.state = w.state /\ v.err = x /\ v.left = l
BY ZenonT(30) DEF Writer, WriteOn

\* Sharing out twice is sharing out.
LEMMA ShareThenShare ==
    ASSUME NEW f, NEW s, NEW f1, NEW s1, NEW f2, NEW s2, NEW end \in Nat, NEW newEnd \in Nat,
           NEW b \in Nat, Share(f, s, f1, s1, end, end, b), Share(f1, s1, f2, s2, end, newEnd, b)
    PROVE  Share(f, s, f2, s2, end, newEnd, b)
<1>1. ~(end < b /\ b <= end)
  OBVIOUS
<1>. QED  BY <1>1 DEF Share

\* A writer whose extent is full commits it, and takes the extent freed last or
\* begins one at the end of the file.
LEMMA AdvanceIs ==
    ASSUME free \in Seq(Filled), fileEnd \in Nat, NEW w, WriterOK(w), Full(w),
           NEW v, v = Advance(w).w, NEW f, f = Advance(w).free
    PROVE  /\ w.curLen = w.cur.length
           /\ v \in Writer /\ v.chain = Commit(w) /\ v.cur \in Extents /\ v.curLen = 0
           /\ v.state = w.state /\ v.left = w.left
           /\ \/ free # <<>> /\ ~v.growing /\ v.cur = Last(free) /\ f = Front(free)
              \/ free = <<>> /\ v.growing /\ v.cur = Extent(fileEnd, 0) /\ f = <<>>
<1>1. w.curLen = w.cur.length /\ w \in Writer
  BY WriterFields DEF Full, WriterOK
<1>2. free \o Unfilled(w) = free
  <2>1. Unfilled(w) = <<>>
    BY <1>1, WriterFields DEF Unfilled
  <2>. QED  BY <2>1
<1>3. PICK d : d = Commit(w) /\ d \in Seq(Filled)
  BY FilledStays
<1>4. ASSUME NEW l \in Extents, NEW g \in BOOLEAN,
             v = [w EXCEPT !.chain = d, !.cur = l, !.curLen = 0, !.growing = g]
      PROVE  /\ v \in Writer /\ v.chain = d /\ v.cur = l /\ v.curLen = 0 /\ v.growing = g
             /\ v.state = w.state /\ v.left = w.left
  <2>1. PICK m : m = 0 /\ m \in Nat
    OBVIOUS
  <2>2. v = MoveOn(w, d, l, m, g)
    BY <1>4, <2>1 DEF MoveOn
  <2>3. /\ v \in Writer /\ v.chain = d /\ v.cur = l /\ v.curLen = m /\ v.growing = g
        /\ v.state = w.state /\ v.left = w.left
    BY <1>1, <1>3, <2>1, <2>2, MovedOn
  <2>. QED  BY <2>1, <2>3
<1>5. CASE free # <<>>
  <2>1. PICK l, g : l = Last(free) /\ l \in Extents /\ g = FALSE /\ g \in BOOLEAN
    BY <1>5, FilledAre, Popped
  <2>2. f = Front(free) /\ v = [w EXCEPT !.chain = d, !.cur = l, !.curLen = 0, !.growing = g]
    BY <1>2, <1>3, <1>5, <2>1 DEF Advance
  <2>. QED  BY <1>1, <1>3, <1>4, <1>5, <2>1, <2>2
<1>6. CASE free = <<>>
  <2>1. PICK l, g : l = Extent(fileEnd, 0) /\ l \in Extents /\ g = TRUE /\ g \in BOOLEAN
    BY ExtentFields
  <2>2. f = <<>> /\ v = [w EXCEPT !.chain = d, !.cur = l, !.curLen = 0, !.growing = g]
    BY <1>2, <1>3, <1>6, <2>1 DEF Advance
  <2>. QED  BY <1>1, <1>3, <1>4, <1>6, <2>1, <2>2
<1>. QED  BY <1>5, <1>6

\* A writer that goes on to another extent shares out nothing but that.
LEMMA AdvanceShares ==
    ASSUME free \in Seq(Filled), fileEnd \in Nat, NEW w, WriterOK(w), Full(w),
           NEW v, v = Advance(w).w, NEW f, f = Advance(w).free
    PROVE  /\ WriterOK(v) /\ v.state = w.state /\ v.left = w.left
           /\ v.growing => v.cur.offset + v.cur.length = fileEnd
           /\ f \in Seq(Filled)
           /\ \A b \in Nat : Share(free, Append(w.chain, w.cur), f, Append(v.chain, v.cur),
                                   fileEnd, fileEnd, b)
<1>1. PICK c, e, n : c = w.chain /\ e = w.cur /\ n = w.curLen
  OBVIOUS
<1>2. /\ free \in Seq(Extents) /\ c \in Seq(Extents) /\ e \in Extents /\ n \in Nat
      /\ e.offset \in Nat /\ e.length \in Nat /\ n = e.length
      /\ w.left > 0 => w.state = "open"
  BY <1>1, FilledAre, WriterFields, AdvanceIs DEF WriterOK
<1>3. PICK d, l : d = Commit(w) /\ l = v.cur
  OBVIOUS
<1>4. /\ v \in Writer /\ v.chain = d /\ v.curLen = 0 /\ v.state = w.state /\ v.left = w.left
      /\ l \in Extents /\ v.cur = l /\ l.length \in Nat
      /\ \/ free # <<>> /\ ~v.growing /\ l = Last(free) /\ f = Front(free)
         \/ free = <<>> /\ v.growing /\ l = Extent(fileEnd, 0) /\ f = <<>>
  <2>1. l \in Extents
    BY <1>3, AdvanceIs
  <2>2. l.length \in Nat
    BY <2>1 DEF Extents
  <2>. QED  BY <1>3, <2>1, <2>2, AdvanceIs
<1>5. d = IF n > 0 THEN Append(c, e) ELSE c
  <2>1. Extent(e.offset, n) = e
    BY <1>2 DEF Extent, Extents
  <2>. QED  BY <1>1, <1>3, <2>1 DEF Commit
<1>6. ASSUME NEW b \in Nat
      PROVE  /\ d \in Seq(Extents) /\ (In(d, b) <=> In(Append(c, e), b)) /\ (Once(d, b) <=> Once(Append(c, e), b))
  <2>1. CASE n > 0
    BY <1>2, <1>5, <2>1
  <2>2. CASE ~(n > 0)
    <3>1. ~Covers(e, b)
      BY <1>2, <2>2 DEF Covers
    <3>. QED  BY <1>2, <1>5, <2>2, <3>1, Appended
  <2>. QED  BY <2>1, <2>2
<1>7. d \in Seq(Filled) /\ d \in Seq(Extents)
  BY <1>3, FilledAre, FilledStays
<1>8. CASE free # <<>>
  <2>1. f \in Seq(Extents) /\ f \in Seq(Filled) /\ ~v.growing
    BY <1>2, <1>4, <1>8, Popped, FrontFilled
  <2>2. WriterOK(v)
    BY <1>2, <1>4, <2>1 DEF WriterOK
  <2>3. ASSUME NEW b \in Nat PROVE Share(free, Append(c, e), f, Append(d, l), fileEnd, fileEnd, b)
    <3>1. /\ In(free, b) <=> In(f, b) \/ Covers(l, b)
          /\ Once(free, b) <=> Once(f, b) /\ ~(In(f, b) /\ Covers(l, b))
      BY <1>2, <1>4, <1>8, Popped
    <3>2. /\ In(Append(d, l), b) <=> In(d, b) \/ Covers(l, b)
          /\ Once(Append(d, l), b) <=> Once(d, b) /\ ~(In(d, b) /\ Covers(l, b))
      BY <1>4, <1>7, Appended
    <3>3. ~(fileEnd < b /\ b <= fileEnd)
      OBVIOUS
    <3>. QED  BY <1>6, <3>1, <3>2, <3>3 DEF Share
  <2>. QED  BY <1>1, <1>4, <2>1, <2>2, <2>3
<1>9. CASE free = <<>>
  <2>1. l.offset = fileEnd /\ l.length = 0 /\ f = <<>> /\ v.growing
    BY <1>4, <1>9, ExtentFields
  <2>2. WriterOK(v)
    BY <1>2, <1>4, <2>1 DEF WriterOK
  <2>3. ASSUME NEW b \in Nat PROVE Share(free, Append(c, e), f, Append(d, l), fileEnd, fileEnd, b)
    <3>1. ~Covers(l, b)
      BY <2>1 DEF Covers
    <3>2. /\ In(Append(d, l), b) <=> In(d, b)
          /\ Once(Append(d, l), b) <=> Once(d, b)
      BY <1>4, <1>7, <3>1, Appended
    <3>3. ~(fileEnd < b /\ b <= fileEnd)
      OBVIOUS
    <3>. QED  BY <1>6, <1>9, <2>1, <3>2, <3>3, NoExtent DEF Share
  <2>4. <<>> \in Seq(Filled) /\ l.offset + l.length = fileEnd
    BY <2>1
  <2>. QED  BY <1>1, <1>4, <2>1, <2>2, <2>3, <2>4
<1>. QED  BY <1>8, <1>9

\* What a writer with n bytes more looks like, and the end of the file then.
Grown(v, n, x, l, new, end) ==
    /\ v.growing => v.cur.offset + v.cur.length = fileEnd
    /\ ~v.growing => n <= v.cur.length - v.curLen
    /\ l > 0 => v.state = "open"
    /\ \E grown, m, d :
        /\ grown = Extent(v.cur.offset, v.curLen + n) /\ m = v.curLen + n
        /\ d = IF v.growing THEN grown ELSE v.cur
        /\ new = WriteOn(v, d, m, x, l)
        /\ end = IF v.growing THEN grown.offset + grown.length ELSE fileEnd

\* Bytes that are written fill the extent, or grow it and the file.
LEMMA ChunkShares ==
    ASSUME fileEnd \in Nat, NEW v, WriterOK(v), NEW n \in Nat, NEW x \in BOOLEAN, NEW l \in Nat,
           NEW new, NEW newEnd, Grown(v, n, x, l, new, newEnd), NEW f
    PROVE  /\ WriterOK(new) /\ new.state = v.state /\ newEnd \in Nat /\ fileEnd <= newEnd
           /\ new.chain = v.chain /\ new.curLen = v.curLen + n /\ new.growing = v.growing
           /\ new.cur.offset = v.cur.offset
           /\ new.cur.length = IF v.growing THEN v.curLen + n ELSE v.cur.length
           /\ new.err = x /\ new.left = l
           /\ newEnd = IF v.growing THEN fileEnd + n ELSE fileEnd
           /\ \A b \in Nat : Share(f, Append(v.chain, v.cur), f, Append(new.chain, new.cur),
                                   fileEnd, newEnd, b)
<1>grown. PICK grown, m, d :
        /\ grown = Extent(v.cur.offset, v.curLen + n) /\ m = v.curLen + n
        /\ d = IF v.growing THEN grown ELSE v.cur
        /\ new = WriteOn(v, d, m, x, l)
        /\ newEnd = IF v.growing THEN grown.offset + grown.length ELSE fileEnd
  BY DEF Grown
<1>premises.
      /\ v.growing => v.cur.offset + v.cur.length = fileEnd
      /\ ~v.growing => n <= v.cur.length - v.curLen
      /\ l > 0 => v.state = "open"
  BY DEF Grown
<1>1. PICK c, e, k : c = v.chain /\ e = v.cur /\ k = v.curLen
  OBVIOUS
<1>2. /\ c \in Seq(Filled) /\ c \in Seq(Extents) /\ e \in Extents /\ k \in Nat /\ e.offset \in Nat /\ e.length \in Nat
      /\ v \in Writer /\ k <= e.length /\ (v.growing => k = e.length) /\ v.growing \in BOOLEAN
  BY <1>1, WriterFields DEF WriterOK
<1>3. /\ grown \in Extents /\ grown.offset = e.offset /\ grown.length = k + n
      /\ \A b \in Nat : Covers(grown, b) <=> e.offset < b /\ b <= e.offset + (k + n)
  <2>1. k + n \in Nat
    BY <1>2
  <2>2. PICK o \in Nat, q \in Nat : o = e.offset /\ q = k + n
    BY <1>2, <2>1
  <2>3. grown = Extent(o, q)
    BY <1>grown, <1>1, <2>2
  <2>4. /\ grown \in Extents /\ grown.offset = o /\ grown.length = q
        /\ \A b \in Nat : Covers(grown, b) <=> o < b /\ b <= o + q
    BY <2>2, <2>3, ExtentFields
  <2>. QED  BY <2>2, <2>4
<1>4. d = (IF v.growing THEN grown ELSE e)
      /\ newEnd = (IF v.growing THEN grown.offset + grown.length ELSE fileEnd)
  BY <1>grown, <1>1
<1>open. l > 0 => v.state = "open"
  BY <1>premises
<1>room. (v.growing => e.offset + e.length = fileEnd) /\ (~v.growing => n <= e.length - k)
  BY <1>premises, <1>1
<1>5. /\ new \in Writer /\ new.chain = c /\ new.cur = d /\ new.curLen = k + n
      /\ new.growing = v.growing /\ new.state = v.state /\ new.err = x /\ new.left = l
  <2>1. /\ v \in Writer /\ x \in BOOLEAN /\ l \in Nat /\ m \in Nat
        /\ d \in Extents /\ m = k + n
    BY <1>grown, <1>1, <1>2, <1>3, <1>4
  <2>2. new = WriteOn(v, d, m, x, l)
    BY <1>grown
  <2>3. /\ new \in Writer /\ new.chain = v.chain /\ new.cur = d /\ new.curLen = m
        /\ new.growing = v.growing /\ new.state = v.state /\ new.err = x /\ new.left = l
    BY <2>1, <2>2, WroteOn
  <2>. QED  BY <1>1, <2>1, <2>3
<1>6. CASE v.growing
  <2>1. d = grown /\ newEnd = e.offset + (k + n) /\ fileEnd = e.offset + k /\ k = e.length
    BY <1>room, <1>2, <1>3, <1>4, <1>6
  <2>2. WriterOK(new)
    BY <1>open, <1>2, <1>3, <1>5, <2>1 DEF WriterOK
  <2>3. newEnd \in Nat /\ fileEnd <= newEnd
    BY <1>2, <2>1, SMTT(30)
  <2>4. ASSUME NEW b \in Nat PROVE Share(f, Append(c, e), f, Append(c, d), fileEnd, newEnd, b)
    <3>1. /\ Covers(e, b) <=> e.offset < b /\ b <= e.offset + k
          /\ Covers(d, b) <=> e.offset < b /\ b <= e.offset + (k + n)
      BY <1>3, <2>1 DEF Covers
    <3>2. Covers(d, b) <=> Covers(e, b) \/ (fileEnd < b /\ b <= newEnd)
      BY <1>2, <2>1, <3>1, SMTT(30)
    <3>3. /\ In(Append(c, e), b) <=> In(c, b) \/ Covers(e, b)
          /\ Once(Append(c, e), b) <=> Once(c, b) /\ ~(In(c, b) /\ Covers(e, b))
          /\ In(Append(c, d), b) <=> In(c, b) \/ Covers(d, b)
          /\ Once(Append(c, d), b) <=> Once(c, b) /\ ~(In(c, b) /\ Covers(d, b))
      BY <1>2, <1>3, <2>1, Appended
    <3>4. ~(fileEnd < b /\ b <= fileEnd) /\ (fileEnd < b => ~(b <= fileEnd))
      OBVIOUS
    <3>. QED  BY <3>2, <3>3, <3>4 DEF Share
  <2>5. newEnd = fileEnd + n
    BY <1>2, <2>1
  <2>. QED  BY <1>1, <1>3, <1>5, <1>6, <2>1, <2>2, <2>3, <2>4, <2>5
<1>7. CASE ~v.growing
  <2>1. d = e /\ newEnd = fileEnd /\ k + n <= e.length
    BY <1>room, <1>2, <1>4, <1>7
  <2>2. WriterOK(new)
    BY <1>open, <1>2, <1>5, <1>7, <2>1 DEF WriterOK
  <2>3. ASSUME NEW b \in Nat PROVE Share(f, Append(c, e), f, Append(c, d), fileEnd, newEnd, b)
    <3>1. ~(fileEnd < b /\ b <= fileEnd)
      OBVIOUS
    <3>. QED  BY <2>1, <3>1 DEF Share
  <2>. QED  BY <1>1, <1>5, <1>7, <2>1, <2>2, <2>3
<1>. QED  BY <1>6, <1>7

-----------------------------------------------------------------------------
(***************************************************************************)
(* The invariant.                                                          *)
(***************************************************************************)

Owning == [o \in Owners |-> Owned(o)]

ReaderOK(t) ==
    \E h \in Handles \cup {NoHandle} : \E p, s : t = [h |-> h, pos |-> p, size |-> s]

\* The types, and whose state is what: a blob can be read once its writer is
\* closed, and the writers of handles not given out yet are untouched.
TypesInv ==
    /\ initialized \in BOOLEAN /\ temp \in {"none", "there", "left"}
    /\ err \in {"none", "closed", "nofile"}
    /\ fileEnd \in Nat
    /\ DOMAIN chains \subseteq Handles
    /\ \A h \in DOMAIN chains : chains[h] \in Seq(Filled) /\ writer[h].state = "closed"
    /\ free \in Seq(Filled)
    /\ nextH \in Nat
    /\ writer \in [Handles -> Writer]
    /\ \A h \in Handles : WriterOK(writer[h]) /\ (h >= nextH => writer[h] = Unborn)

ReadersInv == reader = [r \in Readers |-> reader[r]] /\ \A r \in Readers : ReaderOK(reader[r])

TilesInv == err = "none" => Tiles(Owning, fileEnd)

\* The inductive invariant.
BlobInv == TypesInv /\ ReadersInv /\ TilesInv

\* A step shares out what the free list and one blob have.
LEMMA StepTiles ==
    ASSUME Tiles(Owning, fileEnd), fileEnd \in Nat, NEW end \in Nat, fileEnd' = end, fileEnd <= end,
           NEW h \in Handles,
           \A o \in Handles \ {h} : Owned(o)' = Owned(o),
           NEW f \in Seq(Extents), free' = f,
           NEW t \in Seq(Extents), Owned(h)' = t,
           NEW s, Owned(h) = s,
           \A b \in Nat : Share(free, s, f, t, fileEnd, end, b)
    PROVE  Tiles(Owning, fileEnd)'
<1>1. PICK own, new : own = Owning /\ new = Owning'
  OBVIOUS
<1>2. NoHandle \notin Handles
  BY HandlesAre
<1>3. own[NoHandle] = free /\ own[h] = s /\ new[NoHandle] = f /\ new[h] = t
  BY <1>1, <1>2 DEF Owning, Owners, Owned
<1>4. \A o \in Handles \ {h} : new[o] = own[o]
  BY <1>1 DEF Owning, Owners
<1>5. \A b \in Nat : Share(own[NoHandle], own[h], new[NoHandle], new[h], fileEnd, end, b)
  BY <1>3
<1>6. Reshared(own, new, h, fileEnd, end)
  <2>1. new[NoHandle] \in Seq(Extents) /\ new[h] \in Seq(Extents)
    BY <1>3
  <2>. QED  BY <1>4, <1>5, <2>1 DEF Reshared, Share
<1>7. Tiles(new, end)
  BY <1>1, <1>6, TilesKept
<1>. QED  BY <1>1, <1>7

\* A step that leaves everything that is owned alone.
LEMMA SameTiles ==
    ASSUME Tiles(Owning, fileEnd), UNCHANGED <<fileEnd, free>>,
           \A o \in Handles : Owned(o)' = Owned(o)
    PROVE  Tiles(Owning, fileEnd)'
<1>1. Owned(NoHandle)' = Owned(NoHandle)
  BY DEF Owned
<1>2. Owning' = Owning
  BY <1>1 DEF Owning, Owners
<1>. QED  BY <1>2

\* An empty store has an empty file.
LEMMA InitBlob == Init => BlobInv
<1> SUFFICES ASSUME Init PROVE BlobInv
  OBVIOUS
<1>1. Unborn.chain = <<>> /\ Unborn.state = "unused" /\ Unborn.left = 0 /\ WriterOK(Unborn)
  BY DEF Unborn, WriterOK, Writer, Extent, Extents
<1>2. DOMAIN chains = {} /\ free = <<>> /\ fileEnd = 0 /\ nextH = 0
  BY DEF Init
<1>3. DOMAIN writer = Handles /\ \A h \in Handles : writer[h] = Unborn
  BY DEF Init
<1>4. TypesInv
  <2>1. /\ initialized \in BOOLEAN /\ temp \in {"none", "there", "left"}
        /\ err \in {"none", "closed", "nofile"}
    BY DEF Init
  <2>2. free \in Seq(Filled) /\ fileEnd \in Nat /\ nextH \in Nat
    BY <1>2
  <2>3. \A h \in Handles : WriterOK(writer[h])
    BY <1>1, <1>3
  <2>4. writer \in [Handles -> Writer]
    BY <1>1 DEF Init, WriterOK
  <2>. QED  BY <1>2, <1>3, <2>1, <2>2, <2>3, <2>4 DEF TypesInv
<1>5. ReadersInv
  <2>1. ReaderOK(NoReader)
    BY DEF ReaderOK, NoReader
  <2>. QED  BY <2>1 DEF ReadersInv, Init
<1>6. TilesInv
  <2>1. \A o \in Owners : Owned(o) = <<>>
    BY <1>1, <1>2, <1>3 DEF Owned, Owners
  <2>2. PICK own : own = Owning
    OBVIOUS
  <2>3. \A o \in Owners : own[o] = <<>>
    BY <2>1, <2>2 DEF Owning
  <2>4. \A b \in Nat : ~(0 < b /\ b <= 0)
    OBVIOUS
  <2>5. Tiles(own, 0)
    <3>1. PICK n : n = <<>>
      OBVIOUS
    <3>2. \A b \in Nat : ~In(n, b) /\ Once(n, b)
      BY <3>1, NoExtent
    <3>3. \A o \in Owners : own[o] = n
      BY <2>3, <3>1
    <3>4. n \in Seq(Extents)
      BY <3>1
    <3>. QED  BY <2>4, <3>2, <3>3, <3>4 DEF Tiles
  <2>. QED  BY <1>2, <2>2, <2>5 DEF TilesInv
<1>. QED  BY <1>4, <1>5, <1>6 DEF BlobInv

\* A new blob owns an empty extent.
LEMMA CreateKeeps ==
    ASSUME BlobInv, Create PROVE BlobInv'
<1>1. PICK h \in Handles : h = nextH
  BY DEF Create
<1>2. PICK w : w = [Unborn EXCEPT !.state = "open"]
  OBVIOUS
<1>3. /\ w.state = "open" /\ w.left = 0 /\ WriterOK(w)
      /\ w.chain = <<>> /\ w.cur = Extent(0, 0)
  <2>1. PICK e, c : e = Extent(0, 0) /\ c = <<>>
    OBVIOUS
  <2>2. e \in Extents /\ e.length = 0 /\ c \in Seq(Filled)
    BY <2>1 DEF Extent, Extents
  <2>3. w = [state |-> "open", chain |-> c, cur |-> e, curLen |-> 0,
             growing |-> FALSE, err |-> FALSE, left |-> 0]
    BY <1>2, <2>1 DEF Unborn
  <2>4. w \in Writer
    BY <2>2, <2>3 DEF Writer
  <2>5. w.state = "open" /\ w.left = 0 /\ w.chain = c /\ w.cur = e /\ w.curLen = 0 /\ ~w.growing
    BY <2>3
  <2>. QED  BY <2>1, <2>2, <2>4, <2>5 DEF WriterOK
<1>4. h >= nextH /\ writer[h] = Unborn /\ h \notin DOMAIN chains
  <2>1. h \in Nat
    BY HandlesAre
  <2>2. writer[h] = Unborn
    BY <1>1, <2>1 DEF BlobInv, TypesInv
  <2>3. Unborn.state # "closed"
    BY DEF Unborn
  <2>. QED  BY <1>1, <2>1, <2>2, <2>3 DEF BlobInv, TypesInv
<1>5. writer' = [writer EXCEPT ![h] = w]
  BY <1>1, <1>2, <1>4 DEF Create
<1>6. DOMAIN writer' = Handles /\ writer'[h] = w /\ \A o \in Handles \ {h} : writer'[o] = writer[o]
  BY <1>5 DEF BlobInv, TypesInv
<1>7. UNCHANGED <<initialized, temp, err, fileEnd, chains, free, reader>> /\ nextH' = nextH + 1
  BY DEF Create
<1>8. TypesInv'
  <2>1. nextH' \in Nat /\ \A o \in Handles : o >= nextH' => o >= nextH /\ o # h
    BY <1>1, <1>7, HandlesAre DEF BlobInv, TypesInv
  <2>2. \A o \in Handles : WriterOK(writer'[o]) /\ (o >= nextH' => writer'[o] = Unborn)
    BY <1>3, <1>6, <2>1 DEF BlobInv, TypesInv
  <2>3. \A o \in DOMAIN chains : writer'[o] = writer[o]
    BY <1>4, <1>6 DEF BlobInv, TypesInv
  <2>4. writer' \in [Handles -> Writer]
    BY <1>3, <1>5 DEF BlobInv, TypesInv, WriterOK
  <2>. QED  BY <1>6, <1>7, <2>1, <2>2, <2>3, <2>4 DEF BlobInv, TypesInv
<1>9. ReadersInv'
  BY <1>7 DEF BlobInv, ReadersInv
<1>10. Tiles(Owning, fileEnd)'
  <2>1. Tiles(Owning, fileEnd) /\ fileEnd \in Nat /\ free \in Seq(Extents)
    BY FilledAre DEF Create, BlobInv, TilesInv, TypesInv
  <2>2. \A o \in Handles \ {h} : Owned(o)' = Owned(o)
    BY <1>6, <1>7 DEF Owned
  <2>3. h # NoHandle
    BY HandlesAre
  <2>4. PICK e, s, t : e = Extent(0, 0) /\ s = <<>> /\ t = Append(s, e)
    OBVIOUS
  <2>5. e \in Extents /\ \A b \in Nat : ~Covers(e, b)
    BY <2>4 DEF Extent, Extents, Covers
  <2>6. s \in Seq(Extents) /\ t \in Seq(Extents)
    BY <2>4, <2>5
  <2>7. Owned(h) = s
    BY <1>4, <2>3, <2>4 DEF Owned, Unborn
  <2>8. Owned(h)' = t
    BY <1>3, <1>4, <1>6, <1>7, <2>3, <2>4 DEF Owned
  <2>9. \A b \in Nat : Share(free, s, free, t, fileEnd, fileEnd, b)
    <3> SUFFICES ASSUME NEW b \in Nat PROVE Share(free, s, free, t, fileEnd, fileEnd, b)
      OBVIOUS
    <3>1. /\ In(t, b) <=> In(s, b)
          /\ Once(t, b) <=> Once(s, b)
      BY <2>4, <2>5, <2>6, Appended
    <3>2. ~(fileEnd < b /\ b <= fileEnd)
      BY <2>1
    <3>. QED  BY <3>1, <3>2 DEF Share
  <2>10. fileEnd' = fileEnd /\ free' = free /\ fileEnd <= fileEnd
    BY <1>7, <2>1
  <2>. QED  BY <2>1, <2>2, <2>6, <2>7, <2>8, <2>9, <2>10, StepTiles
<1>. QED  BY <1>8, <1>9, <1>10 DEF BlobInv, TilesInv

\* A step of one writer: what the invariant asks of the others stays.
LEMMA OneWriter ==
    ASSUME BlobInv, NEW h \in Handles, h \notin DOMAIN chains, writer[h] # Unborn,
           NEW v, WriterOK(v), writer' = [writer EXCEPT ![h] = v],
           NEW end \in Nat, fileEnd' = end, NEW f \in Seq(Filled), free' = f,
           UNCHANGED <<initialized, temp, err, chains, nextH, reader>>
    PROVE  /\ TypesInv' /\ ReadersInv'
           /\ writer'[h] = v /\ \A o \in Handles \ {h} : Owned(o)' = Owned(o)
<1>1. DOMAIN writer' = Handles /\ writer'[h] = v /\ \A o \in Handles \ {h} : writer'[o] = writer[o]
  BY DEF BlobInv, TypesInv
<1>2. \A o \in Handles : WriterOK(writer'[o]) /\ (o >= nextH => writer'[o] = Unborn)
  BY <1>1 DEF BlobInv, TypesInv
<1>3. \A o \in DOMAIN chains : writer'[o] = writer[o]
  BY <1>1 DEF BlobInv, TypesInv
<1>4. TypesInv'
  <2>1. writer' \in [Handles -> Writer]
    BY DEF BlobInv, TypesInv, WriterOK
  <2>. QED  BY <1>1, <1>2, <1>3, <2>1 DEF BlobInv, TypesInv
<1>5. ReadersInv'
  BY DEF BlobInv, ReadersInv
<1>6. \A o \in Handles \ {h} : Owned(o)' = Owned(o)
  BY <1>1, HandlesAre DEF Owned
<1>. QED  BY <1>1, <1>4, <1>5, <1>6

\* An open writer is not unborn, and its blob cannot be read yet.
LEMMA OpenWriter ==
    ASSUME BlobInv, NEW h \in Handles, writer[h].state = "open"
    PROVE  /\ h \notin DOMAIN chains /\ writer[h] # Unborn /\ h # NoHandle
           /\ WriterOK(writer[h])
           /\ Owned(h) = Append(writer[h].chain, writer[h].cur)
<1>1. h \notin DOMAIN chains /\ WriterOK(writer[h])
  BY DEF BlobInv, TypesInv
<1>2. writer[h] # Unborn
  BY DEF Unborn
<1>3. h # NoHandle
  BY HandlesAre
<1>. QED  BY <1>1, <1>2, <1>3 DEF Owned

\* A Write that begins moves nothing.
LEMMA WriteKeeps ==
    ASSUME BlobInv, NEW h \in Handles, NEW n \in 1..MaxSize, Write(h, n)
    PROVE  BlobInv'
<1>1. PICK w : w = writer[h]
  OBVIOUS
<1>2. /\ WriterOK(w) /\ w \in Writer /\ w.state = "open"
      /\ h \notin DOMAIN chains /\ writer[h] # Unborn /\ h # NoHandle
  BY <1>1, OpenWriter DEF Write, WriterOK
<1>3. PICK v : v = Reserve(w, n)
  OBVIOUS
<1>4. n \in Nat
  BY BlobAssumption
<1>5. /\ v \in Writer /\ v.chain = w.chain /\ v.cur = w.cur /\ v.curLen = w.curLen
      /\ v.growing = w.growing /\ v.state = w.state /\ v.left = n
  BY <1>2, <1>3, <1>4, ReservedOn
<1>6. WriterOK(v)
  BY <1>2, <1>5 DEF WriterOK
<1>7. writer' = [writer EXCEPT ![h] = v]
  BY <1>1, <1>3 DEF Write, Reserve
<1>8. UNCHANGED <<initialized, temp, err, fileEnd, chains, free, nextH, reader>>
  BY DEF Write
<1>9. /\ TypesInv' /\ ReadersInv'
      /\ writer'[h] = v /\ \A o \in Handles \ {h} : Owned(o)' = Owned(o)
  <2>1. fileEnd \in Nat /\ free \in Seq(Filled)
    BY DEF BlobInv, TypesInv
  <2>. QED  BY <1>2, <1>6, <1>7, <1>8, <2>1, OneWriter
<1>10. Owned(h)' = Owned(h)
  BY <1>1, <1>2, <1>5, <1>8, <1>9 DEF Owned
<1>11. TilesInv'
  BY <1>8, <1>9, <1>10, SameTiles DEF BlobInv, TilesInv
<1>. QED  BY <1>9, <1>11 DEF BlobInv

\* A blob that is closed, and the free list, share out what the writer had.
LEMMA CloseWriterKeeps ==
    ASSUME BlobInv, NEW h \in Handles, CloseWriter(h)
    PROVE  BlobInv'
<1>1. PICK w : w = writer[h]
  OBVIOUS
<1>2. /\ WriterOK(w) /\ w.state = "open"
      /\ h \notin DOMAIN chains /\ writer[h] # Unborn /\ h # NoHandle
      /\ Owned(h) = Append(w.chain, w.cur)
  BY <1>1, OpenWriter DEF CloseWriter
<1>3. Closed.state = "closed" /\ WriterOK(Closed)
  <2>1. PICK e, c : e = Extent(0, 0) /\ c = <<>>
    OBVIOUS
  <2>2. e \in Extents /\ e.length = 0 /\ c \in Seq(Filled)
    BY <2>1 DEF Extent, Extents
  <2>3. Closed = [state |-> "closed", chain |-> c, cur |-> e, curLen |-> 0,
                  growing |-> FALSE, err |-> FALSE, left |-> 0]
    <3>1. PICK u : u = Unborn
      OBVIOUS
    <3>2. u = [state |-> "unused", chain |-> c, cur |-> e, curLen |-> 0,
               growing |-> FALSE, err |-> FALSE, left |-> 0]
      BY <2>1, <3>1 DEF Unborn
    <3>3. Closed = [u EXCEPT !.state = "closed"]
      BY <3>1 DEF Closed
    <3>. QED  BY <3>2, <3>3
  <2>4. Closed \in Writer
    BY <2>2, <2>3 DEF Writer
  <2>. QED  BY <2>2, <2>3, <2>4 DEF WriterOK
<1>4. /\ writer' = [writer EXCEPT ![h] = Closed]
      /\ UNCHANGED <<initialized, temp, err, fileEnd, nextH, reader>>
  BY DEF CloseWriter
<1>5. /\ DOMAIN writer' = Handles /\ writer'[h] = Closed
      /\ \A o \in Handles \ {h} : writer'[o] = writer[o]
  BY <1>4 DEF BlobInv, TypesInv
<1>6. /\ Commit(w) \in Seq(Filled) /\ Unfilled(w) \in Seq(Filled) /\ Reserved(w) \in Seq(Filled)
      /\ free \in Seq(Filled) /\ free \in Seq(Extents) /\ fileEnd \in Nat
  BY <1>2, FilledAre, FilledStays DEF BlobInv, TypesInv
<1>7. ReadersInv'
  BY <1>4 DEF BlobInv, ReadersInv
<1>8. ASSUME free' \in Seq(Filled), DOMAIN chains \subseteq DOMAIN chains',
             DOMAIN chains' \subseteq DOMAIN chains \cup {h},
             \A o \in DOMAIN chains : chains'[o] = chains[o],
             h \in DOMAIN chains' => chains'[h] \in Seq(Filled)
      PROVE  TypesInv' /\ \A o \in Handles \ {h} : Owned(o)' = Owned(o)
  <2>1. \A o \in Handles : WriterOK(writer'[o]) /\ (o >= nextH => writer'[o] = Unborn)
    BY <1>1, <1>2, <1>3, <1>5 DEF BlobInv, TypesInv
  <2>2. DOMAIN chains' \subseteq Handles
    BY <1>8 DEF BlobInv, TypesInv
  <2>3. \A o \in DOMAIN chains' : chains'[o] \in Seq(Filled) /\ writer'[o].state = "closed"
    <3> SUFFICES ASSUME NEW o \in DOMAIN chains'
                 PROVE  chains'[o] \in Seq(Filled) /\ writer'[o].state = "closed"
      OBVIOUS
    <3>1. CASE o = h
      BY <1>3, <1>5, <1>8, <3>1
    <3>2. CASE o # h
      BY <1>5, <1>8, <2>2, <3>2 DEF BlobInv, TypesInv
    <3>. QED  BY <3>1, <3>2
  <2>4. TypesInv'
    <3>1. writer' \in [Handles -> Writer]
      BY <1>3, <1>4 DEF BlobInv, TypesInv, WriterOK
    <3>. QED  BY <1>4, <1>5, <1>8, <2>1, <2>2, <2>3, <3>1 DEF BlobInv, TypesInv
  <2>5. \A o \in Handles \ {h} : Owned(o)' = Owned(o)
    BY <1>5, <1>8, HandlesAre DEF Owned
  <2>. QED  BY <2>4, <2>5
<1>9. CASE err # "none"
  <2>1. UNCHANGED <<free, chains>>
    BY <1>9 DEF CloseWriter
  <2>2. TypesInv'
    BY <1>2, <1>6, <1>8, <2>1
  <2>. QED  BY <1>4, <1>7, <1>9, <2>2 DEF BlobInv, TilesInv
<1>10. CASE err = "none" /\ w.err
  <2>1. PICK f, t : f = free \o Reserved(w) /\ t = <<>>
    OBVIOUS
  <2>2. free' = f /\ UNCHANGED chains
    BY <1>1, <1>10, <2>1 DEF CloseWriter
  <2>3. f \in Seq(Filled) /\ f \in Seq(Extents) /\ t \in Seq(Extents)
    BY <1>6, <2>1, FilledAre
  <2>4. TypesInv' /\ \A o \in Handles \ {h} : Owned(o)' = Owned(o)
    BY <1>2, <1>8, <2>2, <2>3
  <2>5. Owned(h)' = t
    BY <1>2, <1>3, <1>5, <2>1, <2>2 DEF Owned
  <2>6. \A b \in Nat : Share(free, Append(w.chain, w.cur), f, t, fileEnd, fileEnd, b)
    BY <1>2, <1>6, <2>1, ReservedShares
  <2>7. Tiles(Owning, fileEnd) /\ fileEnd' = fileEnd /\ fileEnd <= fileEnd
    BY <1>4, <1>6, <1>10 DEF BlobInv, TilesInv
  <2>8. Tiles(Owning, fileEnd)'
    BY <1>2, <1>6, <2>2, <2>3, <2>4, <2>5, <2>6, <2>7, StepTiles
  <2>. QED  BY <1>7, <2>4, <2>8 DEF BlobInv, TilesInv
<1>11. CASE err = "none" /\ ~w.err
  <2>1. PICK f, t : f = free \o Unfilled(w) /\ t = Commit(w)
    OBVIOUS
  <2>2. /\ free' = f
        /\ chains' = [k \in DOMAIN chains \cup {h} |-> IF k = h THEN t ELSE chains[k]]
    BY <1>1, <1>11, <2>1 DEF CloseWriter
  <2>3. f \in Seq(Filled) /\ f \in Seq(Extents) /\ t \in Seq(Filled) /\ t \in Seq(Extents)
    BY <1>6, <2>1, FilledAre
  <2>4. /\ DOMAIN chains' = DOMAIN chains \cup {h} /\ chains'[h] = t
        /\ \A o \in DOMAIN chains : chains'[o] = chains[o]
    BY <1>2, <2>2
  <2>5. TypesInv' /\ \A o \in Handles \ {h} : Owned(o)' = Owned(o)
    BY <1>8, <2>2, <2>3, <2>4
  <2>6. Owned(h)' = t
    BY <1>2, <2>4 DEF Owned
  <2>7. \A b \in Nat : Share(free, Append(w.chain, w.cur), f, t, fileEnd, fileEnd, b)
    BY <1>2, <1>6, <2>1, CommitShares
  <2>8. Tiles(Owning, fileEnd) /\ fileEnd' = fileEnd /\ fileEnd <= fileEnd
    BY <1>4, <1>6, <1>11 DEF BlobInv, TilesInv
  <2>9. Tiles(Owning, fileEnd)'
    BY <1>2, <1>6, <2>2, <2>3, <2>5, <2>6, <2>7, <2>8, StepTiles
  <2>. QED  BY <1>7, <2>5, <2>9 DEF BlobInv, TilesInv
<1>. QED  BY <1>9, <1>10, <1>11

\* A writer that begins an iteration of Write as v and ends it as new, with n
\* bytes more, and what is free and where the file ends then.
Chunk(h, n, v, f, new, end) ==
    /\ WriterOK(writer[h]) /\ writer[h].state = "open" /\ writer[h].left > 0
    /\ IF Full(writer[h]) THEN v = Advance(writer[h]).w /\ f = Advance(writer[h]).free
       ELSE v = writer[h] /\ f = free
    /\ WriterOK(v) /\ v.left = writer[h].left
    /\ v.growing => v.cur.offset + v.cur.length = fileEnd
    /\ n <= v.left /\ (~v.growing => n <= v.cur.length - v.curLen)
    /\ WriterOK(new) /\ new.state = "open" /\ new.left <= v.left - n
    /\ new.chain = v.chain /\ new.curLen = v.curLen + n /\ new.growing = v.growing
    /\ new.cur.offset = v.cur.offset
    /\ new.cur.length = IF v.growing THEN v.curLen + n ELSE v.cur.length
    /\ f \in Seq(Filled) /\ end \in Nat /\ fileEnd <= end
    /\ end = IF v.growing THEN fileEnd + n ELSE fileEnd
    /\ \A b \in Nat : Share(free, Append(writer[h].chain, writer[h].cur),
                            f, Append(new.chain, new.cur), fileEnd, end, b)

\* The file once n bytes are written at a place, behind m that the blob has.
Patched(F, h, n, at, m) ==
    [i \in 1..Capacity |-> IF i \in (at + 1)..(at + n) THEN Byte(h, m + i - at) ELSE F[i]]

\* What an iteration of Write does.
LEMMA ChunkIs ==
    ASSUME BlobInv, NEW h \in Handles, NEW n \in Nat, WriteChunk(h, n)
    PROVE  \E v, f, new, end :
            /\ Chunk(h, n, v, f, new, end)
            /\ writer' = [writer EXCEPT ![h] = new] /\ fileEnd' = end /\ free' = f
            /\ file' = Patched(file, h, n, v.cur.offset + v.curLen, Written(writer[h]))
            /\ out' = Silent /\ UNCHANGED <<initialized, temp, err, chains, nextH, reader>>
<1>1. PICK w : w = writer[h]
  OBVIOUS
<1>2. w.left > 0 /\ w.left \in Nat /\ WriterOK(w) /\ w.state = "open"
  BY <1>1, WriterFields DEF WriteChunk, BlobInv, TypesInv, WriterOK
<1>4. free \in Seq(Filled) /\ free \in Seq(Extents) /\ fileEnd \in Nat
  BY FilledAre DEF BlobInv, TypesInv
<1>5. PICK next : next = IF Full(w) THEN Advance(w) ELSE [w |-> w, free |-> free]
  OBVIOUS
<1>6. PICK v, f : v = next.w /\ f = next.free
  OBVIOUS
<1>7. /\ WriterOK(v) /\ v.state = "open" /\ v.left = w.left
      /\ v.growing => v.cur.offset + v.cur.length = fileEnd
      /\ f \in Seq(Filled)
      /\ \A b \in Nat : Share(free, Append(w.chain, w.cur), f, Append(v.chain, v.cur), fileEnd, fileEnd, b)
  <2>1. CASE Full(w)
    <3>1. v = Advance(w).w /\ f = Advance(w).free
      BY <1>5, <1>6, <2>1
    <3>. QED  BY <1>2, <1>4, <2>1, <3>1, AdvanceShares
  <2>2. CASE ~Full(w)
    <3>1. v = w /\ f = free
      BY <1>5, <1>6, <2>2
    <3>2. ASSUME NEW b \in Nat
          PROVE  Share(free, Append(w.chain, w.cur), free, Append(w.chain, w.cur), fileEnd, fileEnd, b)
      <4>1. ~(fileEnd < b /\ b <= fileEnd)
        BY <1>4
      <4>. QED  BY <4>1 DEF Share
    <3>. QED  BY <1>2, <1>4, <2>2, <3>1, <3>2 DEF Full
  <2>. QED  BY <2>1, <2>2
<1>8. PICK room : room = v.cur.length - v.curLen /\ room \in Nat
  BY <1>7, WriterFields
<1>9. PICK chunk : chunk = IF v.growing \/ v.left <= room THEN v.left ELSE room
  OBVIOUS
<1>10. chunk = IF v.growing \/ w.left <= v.cur.length - v.curLen THEN w.left ELSE v.cur.length - v.curLen
  BY <1>7, <1>8, <1>9
<1>11. n <= chunk
  BY <1>1, <1>5, <1>6, <1>10 DEF WriteChunk
<1>12. (~v.growing => n <= room) /\ n <= w.left
  BY <1>2, <1>7, <1>8, <1>9, <1>11
<1>13. PICK x, l : x = (n < chunk) /\ l = IF n < chunk THEN 0 ELSE w.left - n
  OBVIOUS
<1>14. x \in BOOLEAN /\ l \in Nat
  BY <1>2, <1>12, <1>13
<1>15. PICK grown, m : grown = Extent(v.cur.offset, v.curLen + n) /\ m = v.curLen + n
  OBVIOUS
<1>16. PICK d, end : d = (IF v.growing THEN grown ELSE v.cur)
                     /\ end = (IF v.growing THEN grown.offset + grown.length ELSE fileEnd)
  OBVIOUS
<1>17. PICK new : new = WriteOn(v, d, m, x, l)
  OBVIOUS
<1>18. writer' = [writer EXCEPT ![h] = new]
  BY <1>1, <1>5, <1>6, <1>10, <1>13, <1>15, <1>16, <1>17 DEF WriteChunk, WriteOn
<1>19. fileEnd' = end /\ free' = f
  BY <1>1, <1>5, <1>6, <1>15, <1>16 DEF WriteChunk
<1>20. out' = Silent /\ UNCHANGED <<initialized, temp, err, chains, nextH, reader>>
  BY DEF WriteChunk
<1>22. file' = Patched(file, h, n, v.cur.offset + v.curLen, Written(writer[h]))
  BY <1>1, <1>5, <1>6 DEF WriteChunk, Patched
<1>21. /\ WriterOK(new) /\ new.state = "open" /\ end \in Nat /\ fileEnd <= end
       /\ new.chain = v.chain /\ new.curLen = v.curLen + n /\ new.growing = v.growing
       /\ new.cur.offset = v.cur.offset
       /\ new.cur.length = IF v.growing THEN v.curLen + n ELSE v.cur.length
       /\ new.left = l /\ end = IF v.growing THEN fileEnd + n ELSE fileEnd
       /\ \A b \in Nat : Share(f, Append(v.chain, v.cur), f, Append(new.chain, new.cur), fileEnd, end, b)
  <2>1. Grown(v, n, x, l, new, end)
    BY <1>7, <1>8, <1>12, <1>15, <1>16, <1>17 DEF Grown
  <2>2. fileEnd \in Nat /\ WriterOK(v) /\ x \in BOOLEAN /\ l \in Nat
    BY <1>4, <1>7, <1>14
  <2>3. /\ WriterOK(new) /\ new.state = v.state /\ end \in Nat /\ fileEnd <= end
        /\ new.chain = v.chain /\ new.curLen = v.curLen + n /\ new.growing = v.growing
        /\ new.cur.offset = v.cur.offset
        /\ new.cur.length = IF v.growing THEN v.curLen + n ELSE v.cur.length
        /\ new.left = l /\ end = IF v.growing THEN fileEnd + n ELSE fileEnd
        /\ \A b \in Nat : Share(f, Append(v.chain, v.cur), f, Append(new.chain, new.cur), fileEnd, end, b)
    BY <2>1, <2>2, ChunkShares
  <2>. QED  BY <1>7, <2>3
<1>23. new.left <= v.left - n
  BY <1>2, <1>7, <1>12, <1>13, <1>21
<1>24. \A b \in Nat :
        Share(free, Append(w.chain, w.cur), f, Append(new.chain, new.cur), fileEnd, end, b)
  BY <1>4, <1>7, <1>21, ShareThenShare
<1>25. IF Full(w) THEN v = Advance(w).w /\ f = Advance(w).free ELSE v = w /\ f = free
  BY <1>5, <1>6
<1>26. Chunk(h, n, v, f, new, end)
  BY <1>1, <1>2, <1>7, <1>8, <1>12, <1>21, <1>23, <1>24, <1>25 DEF Chunk
<1>. QED  BY <1>18, <1>19, <1>20, <1>22, <1>26

\* An iteration of Write, with or without a new extent.
LEMMA ChunkKeeps ==
    ASSUME BlobInv, NEW h \in Handles, NEW n \in Nat, WriteChunk(h, n)
    PROVE  BlobInv'
<1>1. PICK v, f, new, end :
        /\ Chunk(h, n, v, f, new, end)
        /\ writer' = [writer EXCEPT ![h] = new] /\ fileEnd' = end /\ free' = f
        /\ UNCHANGED <<initialized, temp, err, chains, nextH, reader>>
  BY ChunkIs
<1>2. PICK w : w = writer[h]
  OBVIOUS
<1>3. /\ h \notin DOMAIN chains /\ writer[h] # Unborn /\ h # NoHandle
      /\ Owned(h) = Append(w.chain, w.cur)
  BY <1>1, <1>2, OpenWriter DEF Chunk
<1>4. fileEnd \in Nat
  BY DEF BlobInv, TypesInv
<1>5. /\ WriterOK(new) /\ new.state = "open" /\ f \in Seq(Filled) /\ end \in Nat /\ fileEnd <= end
      /\ \A b \in Nat : Share(free, Append(w.chain, w.cur), f, Append(new.chain, new.cur),
                              fileEnd, end, b)
  BY <1>1, <1>2 DEF Chunk
<1>6. /\ TypesInv' /\ ReadersInv'
      /\ writer'[h] = new /\ \A o \in Handles \ {h} : Owned(o)' = Owned(o)
  BY <1>1, <1>3, <1>5, OneWriter
<1>7. PICK t : t = Append(new.chain, new.cur)
  OBVIOUS
<1>8. Owned(h)' = t /\ t \in Seq(Extents)
  <2>1. t \in Seq(Extents)
    BY <1>5, <1>7, WriterFields
  <2>. QED  BY <1>1, <1>3, <1>5, <1>6, <1>7, <2>1 DEF Owned
<1>9. err' = "none" => Tiles(Owning, fileEnd)'
  <2> SUFFICES ASSUME err' = "none" PROVE Tiles(Owning, fileEnd)'
    OBVIOUS
  <2>1. Tiles(Owning, fileEnd)
    BY <1>1 DEF BlobInv, TilesInv
  <2>2. f \in Seq(Extents)
    BY <1>5, FilledAre
  <2>. QED  BY <1>1, <1>3, <1>4, <1>5, <1>6, <1>7, <1>8, <2>1, <2>2, StepTiles
<1>. QED  BY <1>6, <1>9 DEF BlobInv, TilesInv

\* A deleted blob's extents are free.
LEMMA DeleteKeeps ==
    ASSUME BlobInv, NEW h \in Handles, Delete(h)
    PROVE  BlobInv'
<1>1. PICK s, f : s = chains[h] /\ f = free \o s
  OBVIOUS
<1>2. /\ h \in DOMAIN chains /\ s \in Seq(Filled) /\ s \in Seq(Extents)
      /\ free \in Seq(Filled) /\ free \in Seq(Extents) /\ fileEnd \in Nat
      /\ writer[h].state = "closed" /\ h # NoHandle
  BY <1>1, FilledAre, HandlesAre DEF Delete, BlobInv, TypesInv
<1>3. /\ chains' = [k \in DOMAIN chains \ {h} |-> chains[k]] /\ free' = f
      /\ UNCHANGED <<initialized, temp, err, fileEnd, nextH, writer, reader>>
  BY <1>1 DEF Delete
<1>4. /\ DOMAIN chains' = DOMAIN chains \ {h}
      /\ \A o \in DOMAIN chains' : chains'[o] = chains[o]
  BY <1>3
<1>5. f \in Seq(Filled) /\ f \in Seq(Extents)
  BY <1>1, <1>2, FilledAre
<1>6. TypesInv' /\ ReadersInv'
  BY <1>3, <1>4, <1>5 DEF BlobInv, TypesInv, ReadersInv
<1>7. ASSUME err' = "none" PROVE Tiles(Owning, fileEnd)'
  <2>1. Tiles(Owning, fileEnd) /\ fileEnd' = fileEnd /\ fileEnd <= fileEnd
    BY <1>2, <1>3, <1>7 DEF BlobInv, TilesInv
  <2>2. \A o \in Handles \ {h} : Owned(o)' = Owned(o)
    BY <1>3, <1>4, HandlesAre DEF Owned
  <2>3. PICK t : t = <<>>
    OBVIOUS
  <2>4. t \in Seq(Extents) /\ Owned(h) = s /\ Owned(h)' = t
    <3>1. t \in Seq(Extents)
      BY <2>3
    <3>2. h \notin DOMAIN chains' /\ writer'[h].state # "open"
      BY <1>2, <1>3, <1>4
    <3>. QED  BY <1>1, <1>2, <2>3, <3>1, <3>2 DEF Owned
  <2>5. \A b \in Nat : Share(free, s, f, t, fileEnd, fileEnd, b)
    BY <1>1, <1>2, <2>3, ReleaseShares
  <2>. QED  BY <1>2, <1>3, <1>5, <2>1, <2>2, <2>4, <2>5, StepTiles
<1>. QED  BY <1>6, <1>7 DEF BlobInv, TilesInv

\* A reader that goes to another position is a reader.
LEMMA ReaderMoves ==
    ASSUME ReadersInv, NEW r \in Readers, NEW n, reader' = [reader EXCEPT ![r].pos = n]
    PROVE  ReadersInv'
<1>1. PICK t : t = [reader[r] EXCEPT !.pos = n]
  OBVIOUS
<1>2. ReaderOK(t)
  <2>0. PICK h \in Handles \cup {NoHandle} : \E p, s : reader[r] = [h |-> h, pos |-> p, size |-> s]
    BY DEF ReadersInv, ReaderOK
  <2>1. PICK p, s : reader[r] = [h |-> h, pos |-> p, size |-> s]
    BY <2>0
  <2>2. t = [h |-> h, pos |-> n, size |-> s]
    BY <1>1, <2>1
  <2>. QED  BY <2>2 DEF ReaderOK
<1>3. /\ DOMAIN reader' = DOMAIN reader
      /\ \A q \in Readers : reader'[q] = IF q = r THEN t ELSE reader[q]
  BY <1>1 DEF ReadersInv
<1>. QED  BY <1>2, <1>3 DEF ReadersInv

\* A step that moves neither an extent nor a writer.
LEMMA NothingMoved ==
    ASSUME BlobInv, initialized' \in BOOLEAN, temp' \in {"none", "there", "left"},
           err' = err \/ err' \in {"closed", "nofile"},
           UNCHANGED <<fileEnd, chains, free, nextH, writer>>, ReadersInv'
    PROVE  BlobInv'
<1>1. TypesInv'
  BY DEF BlobInv, TypesInv
<1>2. \A o \in Handles : Owned(o)' = Owned(o)
  BY DEF Owned
<1>3. err' = "none" => Tiles(Owning, fileEnd)'
  BY <1>2, SameTiles DEF BlobInv, TilesInv
<1>. QED  BY <1>1, <1>3 DEF BlobInv, TilesInv

\* Every step keeps the invariant.
LEMMA NextBlob == BlobInv /\ [Next]_vars => BlobInv'
<1> SUFFICES ASSUME BlobInv, [Next]_vars PROVE BlobInv'
  OBVIOUS
<1>1. ASSUME UNCHANGED reader PROVE ReadersInv'
  BY <1>1 DEF BlobInv, ReadersInv
<1>2. temp \in {"none", "there", "left"} /\ initialized \in BOOLEAN /\ ReadersInv
  BY DEF BlobInv, TypesInv
<1>3. CASE InitFile
  <2>1. UNCHANGED <<fileEnd, chains, free, nextH, writer, reader>> /\ initialized' = TRUE
    BY <1>3 DEF InitFile
  <2>2. temp' = temp \/ temp' = "there"
    BY <1>3 DEF InitFile
  <2>3. err' = err \/ err' = "nofile"
    BY <1>3 DEF InitFile
  <2>. QED  BY <1>1, <1>2, <2>1, <2>2, <2>3, NothingMoved
<1>4. CASE Create
  BY <1>4, CreateKeeps
<1>5. CASE \E h \in Handles, n \in 1..MaxSize : Write(h, n)
  BY <1>5, WriteKeeps
<1>6. CASE \E h \in Handles, n \in 0..MaxSize : WriteChunk(h, n)
  <2>1. \A n \in 0..MaxSize : n \in Nat
    BY BlobAssumption
  <2>. QED  BY <1>6, <2>1, ChunkKeeps
<1>7. CASE \E h \in Handles : CloseWriter(h)
  BY <1>7, CloseWriterKeeps
<1>8. CASE \E h \in Handles : Delete(h)
  BY <1>8, DeleteKeeps
<1>9. ASSUME NEW r \in Readers, NEW h \in Readable, Open(r, h) PROVE BlobInv'
  <2>1. PICK t : t = [h |-> h, pos |-> 0, size |-> Size(chains[h])]
    OBVIOUS
  <2>2. reader' = [reader EXCEPT ![r] = t]
    BY <1>9, <2>1 DEF Open
  <2>3. ReaderOK(t)
    BY <2>1, BlobAssumption DEF ReaderOK
  <2>4. ReadersInv'
    BY <1>2, <2>2, <2>3 DEF ReadersInv
  <2>5. UNCHANGED <<initialized, temp, err, fileEnd, chains, free, nextH, writer>>
    BY <1>9 DEF Open
  <2>. QED  BY <1>2, <2>4, <2>5, NothingMoved
<1>10. ASSUME NEW r \in Readers, NEW len \in 1..MaxSize, Read(r, len) PROVE BlobInv'
  <2>1. PICK bytes : reader' = [reader EXCEPT ![r].pos = @ + Len(bytes)]
    BY <1>10 DEF Read
  <2>2. PICK n : n = reader[r].pos + Len(bytes)
    OBVIOUS
  <2>3. ReadersInv'
    BY <1>2, <2>1, <2>2, ReaderMoves
  <2>4. UNCHANGED <<initialized, temp, err, fileEnd, chains, free, nextH, writer>>
    BY <1>10 DEF Read
  <2>. QED  BY <1>2, <2>3, <2>4, NothingMoved
<1>11. ASSUME NEW r \in Readers, NEW pos \in 0..MaxSize, Seek(r, pos) PROVE BlobInv'
  <2>1. ReadersInv'
    BY <1>2, <1>11, ReaderMoves DEF Seek
  <2>2. UNCHANGED <<initialized, temp, err, fileEnd, chains, free, nextH, writer>>
    BY <1>11 DEF Seek
  <2>. QED  BY <1>2, <2>1, <2>2, NothingMoved
<1>12. CASE CloseStore
  <2>1. UNCHANGED <<initialized, fileEnd, chains, free, nextH, writer, reader>>
        /\ temp' \in {"none", "left"} /\ err' = "closed"
    BY <1>12 DEF CloseStore
  <2>. QED  BY <1>1, <1>2, <2>1, NothingMoved
<1>13. CASE UNCHANGED vars
  BY <1>1, <1>2, <1>13, NothingMoved DEF vars
<1>. QED
  BY <1>3, <1>4, <1>5, <1>6, <1>7, <1>8, <1>9, <1>10, <1>11, <1>12, <1>13 DEF Next

\* What the theorems below rest on.
THEOREM StoreInvariant == Spec => []BlobInv
<1>1. Init => BlobInv
  BY InitBlob
<1>2. BlobInv /\ [Next]_vars => BlobInv'
  BY NextBlob
<1>. QED  BY <1>1, <1>2, PTL DEF Spec

\* No extent that is free or part of a blob is empty, so a Write that takes one
\* gets room, and no writer has filled more of its extent than there is.
THEOREM StoreTypes == Spec => []TypeOK
<1>1. BlobInv => TypeOK
  <2> SUFFICES ASSUME BlobInv PROVE TypeOK
    OBVIOUS
  <2>1. \A h \in Handles : writer[h].curLen <= writer[h].cur.length
    BY DEF BlobInv, TypesInv, WriterOK
  <2>2. \A r \in Readers : reader[r].h \in Handles \cup {NoHandle}
    <3> SUFFICES ASSUME NEW r \in Readers PROVE reader[r].h \in Handles \cup {NoHandle}
      OBVIOUS
    <3>1. PICK h \in Handles \cup {NoHandle} : \E p, s : reader[r] = [h |-> h, pos |-> p, size |-> s]
      BY DEF BlobInv, ReadersInv, ReaderOK
    <3>. QED  BY <3>1
  <2>. QED  BY <2>1, <2>2 DEF BlobInv, TypesInv, TypeOK
<1>. QED  BY <1>1, StoreInvariant, PTL

\* Every byte of the temp file belongs to exactly one extent, of one blob or of
\* the free list: nothing written is overwritten by another blob, and no byte
\* of a deleted, failed or partly filled extent is lost.
THEOREM NoByteIsSharedOrLost == Spec => []Tiled
<1>1. BlobInv => Tiled
  <2> SUFFICES ASSUME BlobInv, err = "none" PROVE Tiled
    BY DEF Tiled
  <2>1. Tiles(Owning, fileEnd) /\ fileEnd \in Nat
    BY DEF BlobInv, TilesInv, TypesInv
  <2>2. \A o \in Owners : Owning[o] = Owned(o)
    BY DEF Owning
  <2>3. PICK own : own = Owning
    OBVIOUS
  <2>4. \A b \in 1..fileEnd : \E o \in Owners : \E k \in DOMAIN Owned(o) : Covers(Owned(o)[k], b)
    <3> SUFFICES ASSUME NEW b \in 1..fileEnd
                 PROVE  \E o \in Owners : \E k \in DOMAIN Owned(o) : Covers(Owned(o)[k], b)
      OBVIOUS
    <3>1. b \in Nat /\ 0 < b /\ b <= fileEnd
      BY <2>1
    <3>2. PICK o \in Owners : In(own[o], b)
      BY <2>1, <2>3, <3>1 DEF Tiles
    <3>. QED  BY <2>2, <2>3, <3>2 DEF In
  <2>5. \A b \in 1..Capacity : \A o, p \in Owners :
            \A j \in DOMAIN Owned(o), k \in DOMAIN Owned(p) :
                Covers(Owned(o)[j], b) /\ Covers(Owned(p)[k], b) => o = p /\ j = k /\ b <= fileEnd
    <3> SUFFICES ASSUME NEW b \in 1..Capacity, NEW o \in Owners, NEW p \in Owners,
                        NEW j \in DOMAIN Owned(o), NEW k \in DOMAIN Owned(p),
                        Covers(Owned(o)[j], b), Covers(Owned(p)[k], b)
                 PROVE  o = p /\ j = k /\ b <= fileEnd
      OBVIOUS
    <3>1. b \in Nat
      BY BlobAssumption
    <3>2. In(own[o], b) /\ In(own[p], b)
      BY <2>2, <2>3 DEF In
    <3>3. o = p /\ b <= fileEnd /\ Once(own[o], b)
      BY <2>1, <2>3, <3>1, <3>2 DEF Tiles
    <3>4. own[o] = Owned(o)
      BY <2>2, <2>3
    <3>. QED  BY <3>3, <3>4 DEF Once
  <2>. QED  BY <2>4, <2>5 DEF Tiled, Owners
<1>. QED  BY <1>1, StoreInvariant, PTL

\* A store that is closed without an error has no temp file, also when Close comes
\* before the first Create or between its two halves.
THEOREM NoTempFileIsLeft == Spec => []NoTempFileAfterClose
<1>1. Init => NoTempFileAfterClose
  BY DEF Init, NoTempFileAfterClose
<1>2. NoTempFileAfterClose /\ [Next]_vars => NoTempFileAfterClose'
  <2> SUFFICES ASSUME NoTempFileAfterClose, [Next]_vars PROVE NoTempFileAfterClose'
    OBVIOUS
  <2>1. CASE InitFile
    BY <2>1 DEF InitFile, NoTempFileAfterClose
  <2>2. CASE CloseStore
    BY <2>2 DEF CloseStore, NoTempFileAfterClose
  <2>3. CASE UNCHANGED <<temp, err>>
    BY <2>3 DEF NoTempFileAfterClose
  <2>4. ASSUME NEW h \in Handles, NEW n \in 0..MaxSize, Write(h, n) \/ WriteChunk(h, n)
        PROVE  UNCHANGED <<temp, err>>
    BY <2>4 DEF Write, WriteChunk
  <2>5. ASSUME NEW h \in Handles, CloseWriter(h) \/ Delete(h)
        PROVE  UNCHANGED <<temp, err>>
    BY <2>5 DEF CloseWriter, Delete
  <2>6. ASSUME NEW r \in Readers, NEW h, NEW n, Open(r, h) \/ Read(r, n) \/ Seek(r, n)
        PROVE  UNCHANGED <<temp, err>>
    BY <2>6 DEF Open, Read, Seek
  <2>7. \A n \in 1..MaxSize : n \in 0..MaxSize
    BY BlobAssumption
  <2>8. Create \/ UNCHANGED vars => UNCHANGED <<temp, err>>
    BY DEF Create, vars
  <2>. QED  BY <2>1, <2>2, <2>3, <2>4, <2>5, <2>6, <2>7, <2>8 DEF Next
<1>. QED  BY <1>1, <1>2, PTL DEF Spec

-----------------------------------------------------------------------------
(***************************************************************************)
(* Induction, and functions defined by recursion.                          *)
(***************************************************************************)

\* A set of numbers that is not empty has a least one.
LEMMA LeastNumber ==
    ASSUME NEW S \in SUBSET Nat, S # {}
    PROVE  \E m \in S : \A k \in S : m <= k
<1> DEFINE R == {ss \in Nat \X Nat : ss[1] < ss[2]}
<1>1. IsWellFoundedOn(R, Nat)
  BY NatLessThanWellFounded DEF OpToRel
<1>2. \A k, m \in Nat : k < m => <<k, m>> \in R
  OBVIOUS
<1> HIDE DEF R
<1>3. PICK m \in S : \A k \in S : ~(<<k, m>> \in R)
  BY <1>1, WFMin
<1>4. ASSUME NEW k \in S PROVE m <= k
  <2>1. ~(k < m)
    BY <1>2, <1>3
  <2>. QED  BY <2>1
<1>. QED  BY <1>4

\* Induction: a set of numbers with 0 and the successors of its members has all.
LEMMA Induction ==
    ASSUME NEW P \in SUBSET Nat, 0 \in P, \A n \in P : n + 1 \in P
    PROVE  P = Nat
<1>1. SUFFICES ASSUME Nat \ P # {} PROVE FALSE
  OBVIOUS
<1>2. PICK m \in Nat \ P : \A k \in Nat \ P : m <= k
  BY <1>1, LeastNumber
<1>3. m # 0 /\ m - 1 \in Nat
  BY <1>2
<1>4. m - 1 \in P
  BY <1>2, <1>3
<1>5. (m - 1) + 1 = m
  BY <1>2
<1>. QED  BY <1>2, <1>4, <1>5

\* A function is defined by recursion when each of its values depends on those
\* of smaller arguments only.
IsRecursion(D, S, size, N, Step) ==
    /\ S # {} /\ N \in Nat /\ size \in [D -> 0..N]
    /\ Step \in [D \X [D -> S] -> S]
    /\ \A x \in D : \A f, g \in [D -> S] :
        (\A y \in D : size[y] < size[x] => f[y] = g[y]) => Step[<<x, f>>] = Step[<<x, g>>]

\* There is a function that such a definition defines.
LEMMA RecursiveFunction ==
    ASSUME NEW D, NEW S, NEW size, NEW N, NEW Step, IsRecursion(D, S, size, N, Step)
    PROVE  \E f \in [D -> S] : \A x \in D : f[x] = Step[<<x, f>>]
<1> USE DEF IsRecursion
<1> DEFINE Solved(n) == \E f \in [D -> S] : \A x \in D : size[x] < n => f[x] = Step[<<x, f>>]
           P == {n \in Nat : Solved(n)}
<1>1. 0 \in P
  <2>1. PICK s \in S : TRUE
    OBVIOUS
  <2>2. [x \in D |-> s] \in [D -> S] /\ \A x \in D : ~(size[x] < 0)
    BY <2>1
  <2>. QED  BY <2>2
<1>2. ASSUME NEW n \in P PROVE n + 1 \in P
  <2>0. n \in Nat
    BY <1>2
  <2>1. PICK f \in [D -> S] : \A x \in D : size[x] < n => f[x] = Step[<<x, f>>]
    BY <1>2
  <2> DEFINE g == [x \in D |-> IF size[x] = n THEN Step[<<x, f>>] ELSE f[x]]
  <2>2. g \in [D -> S]
    OBVIOUS
  <2>3. ASSUME NEW x \in D, size[x] < n + 1 PROVE g[x] = Step[<<x, g>>]
    <3>1. \A y \in D : size[y] < size[x] => f[y] = g[y]
      BY <2>3
    <3>2. Step[<<x, f>>] = Step[<<x, g>>]
      BY <2>2, <3>1
    <3>3. CASE size[x] = n
      BY <3>2, <3>3
    <3>4. CASE size[x] < n
      <4>1. g[x] = f[x] /\ f[x] = Step[<<x, f>>]
        BY <2>1, <3>4
      <4>. QED  BY <3>2, <4>1
    <3>5. size[x] \in Nat
      OBVIOUS
    <3>6. size[x] = n \/ size[x] < n
      <4> HIDE DEF P, g
      <4>. QED  BY <2>0, <2>3, <3>5
    <3>. QED  BY <3>3, <3>4, <3>6
  <2>4. n + 1 \in Nat
    OBVIOUS
  <2>. QED  BY <2>2, <2>3, <2>4
<1>3. P = Nat
  BY <1>1, <1>2, Induction
<1>4. N + 1 \in P
  <2> HIDE DEF P
  <2>. QED  BY <1>3
<1>5. PICK f \in [D -> S] : \A x \in D : size[x] < N + 1 => f[x] = Step[<<x, f>>]
  BY <1>4
<1>. QED  BY <1>5

-----------------------------------------------------------------------------
(***************************************************************************)
(* How many bytes the first extents of a chain hold.                       *)
(***************************************************************************)

IsUpto(s, u) ==
    /\ u \in [0..Len(s) -> Nat]
    /\ u[0] = 0
    /\ \A k \in 1..Len(s) : u[k] = u[k - 1] + s[k].length

Summing(s, f) == [k \in 0..Len(s) |-> IF k = 0 THEN 0 ELSE f[k - 1] + s[k].length]

\* Upto adds up the lengths.
LEMMA UptoIs ==
    ASSUME NEW s \in Seq(Extents)
    PROVE  IsUpto(s, Upto(s))
<1> DEFINE n == Len(s)
           D == 0..n
           size == [k \in D |-> k]
           Body == [p \in D \X [D -> Nat] |-> Summing(s, p[2])[p[1]]]
<1>1. n \in Nat /\ \A k \in 1..n : s[k].length \in Nat
  <2>1. n \in Nat /\ \A k \in 1..n : s[k] \in Extents
    OBVIOUS
  <2> HIDE DEF n
  <2>. QED  BY <2>1 DEF Extents
<1>2. Nat # {} /\ size \in [D -> 0..n]
  BY <1>1
<1> HIDE DEF n
<1>3. ASSUME NEW k \in D, k # 0 PROVE k - 1 \in D /\ size[k - 1] < size[k] /\ k \in 1..n
  BY <1>1, <1>3
<1>4. ASSUME NEW k \in D, NEW f \in [D -> Nat]
      PROVE  /\ Summing(s, f)[k] = (IF k = 0 THEN 0 ELSE f[k - 1] + s[k].length)
             /\ Summing(s, f)[k] \in Nat
  <2>1. Summing(s, f)[k] = IF k = 0 THEN 0 ELSE f[k - 1] + s[k].length
    BY DEF Summing, n
  <2>2. CASE k = 0
    BY <2>1, <2>2
  <2>3. CASE k # 0
    <3>1. f[k - 1] \in Nat /\ s[k].length \in Nat
      BY <1>1, <1>3, <2>3
    <3>. QED  BY <2>1, <2>3, <3>1
  <2>. QED  BY <2>1, <2>2, <2>3
<1>5. Body \in [D \X [D -> Nat] -> Nat]
  <2> HIDE DEF D
  <2>. QED  BY <1>4
<1>6. ASSUME NEW k \in D, NEW f \in [D -> Nat], NEW g \in [D -> Nat],
             \A y \in D : size[y] < size[k] => f[y] = g[y]
      PROVE  Body[<<k, f>>] = Body[<<k, g>>]
  <2>1. Body[<<k, f>>] = Summing(s, f)[k] /\ Body[<<k, g>>] = Summing(s, g)[k]
    <3> HIDE DEF D
    <3>. QED  OBVIOUS
  <2>2. CASE k = 0
    BY <1>4, <2>1, <2>2
  <2>3. CASE k # 0
    <3>1. f[k - 1] = g[k - 1]
      BY <1>3, <1>6, <2>3
    <3>2. Summing(s, f)[k] = f[k - 1] + s[k].length /\ Summing(s, g)[k] = g[k - 1] + s[k].length
      BY <1>4, <2>3
    <3> HIDE DEF Body, D
    <3>. QED  BY <2>1, <3>1, <3>2
  <2>. QED  BY <2>2, <2>3
<1>7. PICK g \in [D -> Nat] : \A k \in D : g[k] = Body[<<k, g>>]
  <2> HIDE DEF Body, D, size
  <2>1. \A x \in D : \A f, g \in [D -> Nat] :
            (\A y \in D : size[y] < size[x] => f[y] = g[y]) => Body[<<x, f>>] = Body[<<x, g>>]
    BY <1>6
  <2>2. IsRecursion(D, Nat, size, n, Body)
    BY <1>1, <1>2, <1>5, <2>1 DEF IsRecursion
  <2>. QED  BY <2>2, RecursiveFunction
<1>8. g = Summing(s, g)
  <2>1. \A k \in D : g[k] = Summing(s, g)[k]
    BY <1>7
  <2>2. Summing(s, g) = [k \in D |-> Summing(s, g)[k]]
    BY DEF Summing, n
  <2>3. g = [k \in D |-> g[k]]
    BY <1>7
  <2> HIDE DEF D
  <2>. QED  BY <2>1, <2>2, <2>3
<1>9. PICK c : c = CHOOSE f : f = Summing(s, f)
  OBVIOUS
<1>10. c = Summing(s, c)
  BY <1>8, <1>9
<1>11. Upto(s) = c
  BY <1>9 DEF Upto, Summing
<1>12. ASSUME NEW k \in D PROVE c[k] = IF k = 0 THEN 0 ELSE c[k - 1] + s[k].length
  BY <1>10, <1>12 DEF Summing, n
<1>13. \A k \in Nat : k <= n => c[k] \in Nat
  <2> DEFINE P == {k \in Nat : k <= n => c[k] \in Nat}
  <2>1. 0 \in P
    BY <1>1, <1>12
  <2>2. ASSUME NEW k \in P PROVE k + 1 \in P
    <3>1. k \in Nat /\ (k + 1) - 1 = k /\ k + 1 # 0 /\ k + 1 \in Nat
      BY <2>2
    <3>2. ASSUME k + 1 <= n PROVE c[k + 1] \in Nat
      <4>1. k + 1 \in D /\ k <= n /\ s[k + 1].length \in Nat
        BY <1>1, <3>1, <3>2
      <4>2. c[k] \in Nat
        BY <2>2, <4>1
      <4>3. c[k + 1] = c[(k + 1) - 1] + s[k + 1].length
        BY <1>12, <3>1, <4>1
      <4>. QED  BY <3>1, <4>1, <4>2, <4>3
    <3>. QED  BY <3>1, <3>2
  <2>3. P = Nat
    <3>1. P \in SUBSET Nat
      OBVIOUS
    <3> HIDE DEF P
    <3>. QED  BY <2>1, <2>2, <3>1, Induction
  <2>. QED  BY <2>3
<1>14. c \in [0..n -> Nat]
  <2>1. DOMAIN c = D /\ c = [k \in D |-> c[k]]
    BY <1>10 DEF Summing, n
  <2>2. \A k \in D : c[k] \in Nat
    BY <1>1, <1>13
  <2>. QED  BY <2>1, <2>2
<1>15. c[0] = 0 /\ \A k \in 1..n : c[k] = c[k - 1] + s[k].length
  <2>1. 0 \in D /\ \A k \in 1..n : k \in D /\ k # 0
    BY <1>1
  <2>. QED  BY <1>12, <2>1
<1>. QED  BY <1>11, <1>14, <1>15 DEF IsUpto, n

\* Chains whose first extents are equally long hold the same in these.
LEMMA UptoAgree ==
    ASSUME NEW s, NEW t, NEW u, NEW v, IsUpto(s, u), IsUpto(t, v),
           NEW n \in Nat, Len(s) \in Nat, Len(t) \in Nat, n <= Len(s), n <= Len(t),
           \A k \in 1..n : s[k].length = t[k].length
    PROVE  \A k \in 0..n : u[k] = v[k]
<1> DEFINE P == {k \in Nat : k <= n => u[k] = v[k]}
<1>1. 0 \in P
  BY DEF IsUpto
<1>2. ASSUME NEW k \in P PROVE k + 1 \in P
  <2>1. k \in Nat /\ (k + 1) - 1 = k /\ k + 1 \in Nat
    BY <1>2
  <2>2. ASSUME k + 1 <= n PROVE u[k + 1] = v[k + 1]
    <3>1. k + 1 \in 1..n /\ k + 1 \in 1..Len(s) /\ k + 1 \in 1..Len(t) /\ k <= n
      BY <2>1, <2>2
    <3>2. u[k] = v[k]
      BY <1>2, <3>1
    <3>3. u[k + 1] = u[(k + 1) - 1] + s[k + 1].length /\ v[k + 1] = v[(k + 1) - 1] + t[k + 1].length
      BY <3>1 DEF IsUpto
    <3>. QED  BY <2>1, <3>1, <3>2, <3>3
  <2>. QED  BY <2>1, <2>2
<1>3. P = Nat
  <2>1. P \in SUBSET Nat
    OBVIOUS
  <2> HIDE DEF P
  <2>. QED  BY <1>1, <1>2, <2>1, Induction
<1>. QED  BY <1>3

\* Later extents hold no less.
LEMMA UptoGrows ==
    ASSUME NEW s, NEW u, IsUpto(s, u), Len(s) \in Nat, \A k \in 1..Len(s) : s[k].length \in Nat
    PROVE  \A k \in 0..Len(s) : u[k] <= u[Len(s)]
<1> DEFINE n == Len(s)
           P == {k \in Nat : k <= n => u[n - k] <= u[n]}
<1>1. \A k \in 0..n : u[k] \in Nat
  BY DEF IsUpto
<1>2. 0 \in P
  BY <1>1
<1>3. ASSUME NEW k \in P PROVE k + 1 \in P
  <2>1. k \in Nat /\ k + 1 \in Nat
    BY <1>3
  <2>2. ASSUME k + 1 <= n PROVE u[n - (k + 1)] <= u[n]
    <3>1. PICK m : m = n - k
      OBVIOUS
    <3>2. m \in 1..n /\ m - 1 = n - (k + 1) /\ m - 1 \in 0..n /\ m \in 0..n /\ n \in 0..n /\ k <= n
      BY <2>1, <2>2, <3>1
    <3>3. u[m] <= u[n]
      BY <1>3, <3>1, <3>2
    <3>4. u[m] = u[m - 1] + s[m].length /\ s[m].length \in Nat
      BY <3>2 DEF IsUpto
    <3>5. u[m] \in Nat /\ u[m - 1] \in Nat /\ u[n] \in Nat
      BY <1>1, <3>2
    <3>6. u[m - 1] <= u[n]
      BY <3>3, <3>4, <3>5
    <3>. QED  BY <3>2, <3>6
  <2>. QED  BY <2>1, <2>2
<1>4. P = Nat
  <2>1. P \in SUBSET Nat
    OBVIOUS
  <2> HIDE DEF P
  <2>. QED  BY <1>2, <1>3, <2>1, Induction
<1>5. ASSUME NEW k \in 0..n PROVE u[k] <= u[n]
  <2>1. n - k \in Nat /\ n - k <= n /\ n - (n - k) = k
    OBVIOUS
  <2>2. n - k \in P
    BY <1>4, <2>1
  <2>. QED  BY <2>1, <2>2
<1>. QED  BY <1>5

\* The size of a chain, with one more extent.
LEMMA SizeIs ==
    /\ Size(<<>>) = 0
    /\ \A s \in Seq(Extents) :
        /\ Size(s) \in Nat
        /\ \A e \in Extents :
            /\ Size(Append(s, e)) = Size(s) + e.length
            /\ \A k \in 0..Len(s) : Upto(Append(s, e))[k] = Upto(s)[k]
<1>1. Size(<<>>) = 0
  <2>1. PICK s : s = <<>>
    OBVIOUS
  <2>2. s \in Seq(Extents) /\ Len(s) = 0
    BY <2>1
  <2>3. Upto(s)[0] = 0
    BY <2>2, UptoIs DEF IsUpto
  <2>. QED  BY <2>1, <2>2, <2>3 DEF Size
<1>2. ASSUME NEW s \in Seq(Extents)
      PROVE  /\ Size(s) \in Nat
             /\ \A e \in Extents :
                /\ Size(Append(s, e)) = Size(s) + e.length
                /\ \A k \in 0..Len(s) : Upto(Append(s, e))[k] = Upto(s)[k]
  <2>1. PICK n \in Nat : n = Len(s)
    OBVIOUS
  <2>2. PICK u : u = Upto(s) /\ IsUpto(s, u)
    BY UptoIs
  <2>3. Size(s) = u[n] /\ u[n] \in Nat
    BY <2>1, <2>2 DEF Size, IsUpto
  <2>4. ASSUME NEW e \in Extents
        PROVE  /\ Size(Append(s, e)) = Size(s) + e.length
               /\ \A k \in 0..Len(s) : Upto(Append(s, e))[k] = Upto(s)[k]
    <3>1. PICK t : t = Append(s, e)
      OBVIOUS
    <3>2. t \in Seq(Extents) /\ Len(t) = n + 1 /\ t[n + 1] = e /\ \A k \in 1..n : t[k] = s[k]
      BY <2>1, <3>1
    <3>3. PICK v : v = Upto(t) /\ IsUpto(t, v)
      BY <3>2, UptoIs
    <3>4. \A k \in 0..n : v[k] = u[k]
      <4>1. n <= Len(s) /\ n <= Len(t) /\ Len(s) \in Nat /\ Len(t) \in Nat
        BY <2>1, <3>2
      <4>2. \A k \in 1..n : t[k].length = s[k].length
        BY <3>2
      <4>. QED  BY <2>2, <3>3, <4>1, <4>2, UptoAgree
    <3>5. v[n + 1] = v[(n + 1) - 1] + t[n + 1].length
      <4>1. n + 1 \in 1..Len(t)
        BY <2>1, <3>2
      <4>. QED  BY <3>3, <4>1 DEF IsUpto
    <3>6. (n + 1) - 1 = n /\ n \in 0..n
      BY <2>1
    <3>7. Size(t) = v[n + 1]
      BY <3>2, <3>3 DEF Size
    <3>8. Size(t) = u[n] + e.length
      BY <3>2, <3>4, <3>5, <3>6, <3>7
    <3>. QED  BY <2>1, <2>2, <2>3, <3>1, <3>3, <3>4, <3>8
  <2>. QED  BY <2>3, <2>4
<1>. QED  BY <1>1, <1>2

\* A position below the size of a chain is in one of its extents.
LEMMA HoldingIs ==
    ASSUME NEW s \in Seq(Extents), NEW pos \in Nat, pos < Size(s)
    PROVE  /\ Holding(s, pos) \in 1..Len(s)
           /\ Upto(s)[Holding(s, pos) - 1] <= pos /\ pos < Upto(s)[Holding(s, pos)]
<1>1. PICK n \in Nat : n = Len(s) /\ DOMAIN s = 1..n
  OBVIOUS
<1>2. PICK u : u = Upto(s) /\ IsUpto(s, u)
  BY UptoIs
<1>3. u \in [0..n -> Nat] /\ u[0] = 0 /\ pos < u[n]
  BY <1>1, <1>2 DEF Size, IsUpto
<1>4. PICK S \in SUBSET Nat : S = {k \in Nat : k <= n /\ pos < u[k]}
  OBVIOUS
<1>5. PICK m \in S : \A k \in S : m <= k
  <2>1. S # {}
    BY <1>1, <1>3, <1>4
  <2>. QED  BY <2>1, LeastNumber
<1>6. m \in Nat /\ m <= n /\ pos < u[m] /\ m # 0
  BY <1>3, <1>4, <1>5
<1>7. m \in 1..n /\ m - 1 \in Nat /\ m - 1 <= n /\ ~(m <= m - 1)
  BY <1>1, <1>6
<1>8. ~(pos < u[m - 1])
  BY <1>4, <1>5, <1>7
<1>9. u[m - 1] \in Nat
  BY <1>3, <1>7
<1>10. u[m - 1] <= pos
  BY <1>8, <1>9
<1>11. \E k \in DOMAIN s : Upto(s)[k - 1] <= pos /\ pos < Upto(s)[k]
  BY <1>1, <1>2, <1>6, <1>7, <1>10
<1>12. Holding(s, pos) \in DOMAIN s /\ Upto(s)[Holding(s, pos) - 1] <= pos /\ pos < Upto(s)[Holding(s, pos)]
  BY <1>11 DEF Holding
<1>. QED  BY <1>1, <1>12

-----------------------------------------------------------------------------
(***************************************************************************)
(* The bytes of a chain.                                                   *)
(***************************************************************************)

Flattening(ss, f) ==
    [i \in 1..Len(ss) |-> IF i = 1 THEN ss[i] ELSE f[i - 1] \o ss[i]]

\* FlattenSeq joins sequences one after the other.
LEMMA FlattenEquation ==
    ASSUME NEW X, NEW ss \in Seq(Seq(X)), Len(ss) # 0
    PROVE  \E f : f = Flattening(ss, f) /\ FlattenSeq(ss) = f[Len(ss)]
<1> DEFINE n == Len(ss)
           D == 1..n
           S == Seq(X)
           size == [i \in D |-> i]
           Body == [p \in D \X [D -> S] |-> Flattening(ss, p[2])[p[1]]]
<1>1. n \in Nat /\ DOMAIN ss = 1..n /\ \A i \in 1..n : ss[i] \in S
  OBVIOUS
<1>2. S # {} /\ size \in [D -> 0..n]
  BY <1>1
<1> HIDE DEF n
<1>3. ASSUME NEW i \in D, i # 1 PROVE i - 1 \in D /\ size[i - 1] < size[i]
  BY <1>1, <1>3
<1>4. ASSUME NEW i \in D, NEW f \in [D -> S]
      PROVE  Flattening(ss, f)[i] = (IF i = 1 THEN ss[i] ELSE f[i - 1] \o ss[i])
             /\ Flattening(ss, f)[i] \in S
  <2>1. Flattening(ss, f)[i] = IF i = 1 THEN ss[i] ELSE f[i - 1] \o ss[i]
    BY DEF Flattening, n
  <2>2. CASE i = 1
    BY <1>1, <2>1, <2>2
  <2>3. CASE i # 1
    <3>1. f[i - 1] \in S /\ ss[i] \in S
      BY <1>1, <1>3, <2>3
    <3>2. f[i - 1] \o ss[i] \in S
      BY <3>1
    <3>. QED  BY <2>1, <2>3, <3>2
  <2>. QED  BY <2>1, <2>2, <2>3
<1>5. Body \in [D \X [D -> S] -> S]
  <2> HIDE DEF D, S
  <2>. QED  BY <1>4
<1>6. ASSUME NEW i \in D, NEW f \in [D -> S], NEW g \in [D -> S],
             \A y \in D : size[y] < size[i] => f[y] = g[y]
      PROVE  Body[<<i, f>>] = Body[<<i, g>>]
  <2>1. Body[<<i, f>>] = Flattening(ss, f)[i] /\ Body[<<i, g>>] = Flattening(ss, g)[i]
    OBVIOUS
  <2>2. CASE i = 1
    BY <1>4, <2>1, <2>2
  <2>3. CASE i # 1
    <3>1. f[i - 1] = g[i - 1]
      BY <1>3, <1>6, <2>3
    <3>2. Flattening(ss, f)[i] = f[i - 1] \o ss[i] /\ Flattening(ss, g)[i] = g[i - 1] \o ss[i]
      BY <1>4, <2>3
    <3> HIDE DEF Body, S, D
    <3>. QED  BY <2>1, <3>1, <3>2
  <2>. QED  BY <2>2, <2>3
<1>7. PICK g \in [D -> S] : \A i \in D : g[i] = Body[<<i, g>>]
  <2> HIDE DEF Body, D, S, size
  <2>1. \A x \in D : \A f, g \in [D -> S] :
            (\A y \in D : size[y] < size[x] => f[y] = g[y]) => Body[<<x, f>>] = Body[<<x, g>>]
    BY <1>6
  <2>2. IsRecursion(D, S, size, n, Body)
    BY <1>1, <1>2, <1>5, <2>1 DEF IsRecursion
  <2>. QED  BY <2>2, RecursiveFunction
<1>8. g = Flattening(ss, g)
  <2>1. \A i \in D : g[i] = Flattening(ss, g)[i]
    BY <1>7
  <2>2. Flattening(ss, g) = [i \in D |-> Flattening(ss, g)[i]]
    BY DEF Flattening, n
  <2>3. g = [i \in D |-> g[i]]
    BY <1>7
  <2> HIDE DEF D
  <2>. QED  BY <2>1, <2>2, <2>3
<1>9. PICK c : c = CHOOSE f : f = Flattening(ss, f)
  OBVIOUS
<1>10. c = Flattening(ss, c)
  BY <1>8, <1>9
<1>11. FlattenSeq(ss) = c[Len(ss)]
  BY <1>9 DEF FlattenSeq, Flattening
<1>. QED  BY <1>10, <1>11

Agree(ss, tt, n) == \A i \in 1..n : ss[i] = tt[i]

\* What two sequences of sequences join to as far as they agree.
LEMMA FlattenAgree ==
    ASSUME NEW ss, NEW tt, NEW f, NEW g, f = Flattening(ss, f), g = Flattening(tt, g),
           NEW n \in Nat, Len(ss) \in Nat, Len(tt) \in Nat, n <= Len(ss), n <= Len(tt),
           Agree(ss, tt, n)
    PROVE  Agree(f, g, n)
<1> USE DEF Agree
<1> DEFINE P == {i \in Nat : i # 0 /\ i <= n => f[i] = g[i]}
<1>1. 0 \in P
  OBVIOUS
<1>2. ASSUME NEW i \in P PROVE i + 1 \in P
  <2>1. i \in Nat /\ (i + 1) - 1 = i /\ i + 1 \in Nat
    BY <1>2
  <2>2. ASSUME i + 1 <= n PROVE f[i + 1] = g[i + 1]
    <3>1. i + 1 \in 1..n /\ i + 1 \in 1..Len(ss) /\ i + 1 \in 1..Len(tt) /\ i <= n
      BY <2>1, <2>2
    <3>2. f[i + 1] = (IF i + 1 = 1 THEN ss[i + 1] ELSE f[(i + 1) - 1] \o ss[i + 1])
      BY <3>1 DEF Flattening
    <3>3. g[i + 1] = (IF i + 1 = 1 THEN tt[i + 1] ELSE g[(i + 1) - 1] \o tt[i + 1])
      BY <3>1 DEF Flattening
    <3>4. ss[i + 1] = tt[i + 1]
      BY <3>1
    <3>5. CASE i = 0
      BY <3>2, <3>3, <3>4, <3>5
    <3>6. CASE i # 0
      <4>1. f[i] = g[i] /\ i + 1 # 1
        BY <1>2, <2>1, <3>1, <3>6
      <4>. QED  BY <2>1, <3>2, <3>3, <3>4, <4>1
    <3>. QED  BY <3>5, <3>6
  <2>. QED  BY <2>1, <2>2
<1>3. P = Nat
  <2>1. P \in SUBSET Nat
    OBVIOUS
  <2> HIDE DEF P
  <2>. QED  BY <1>1, <1>2, <2>1, Induction
<1>4. \A i \in 1..n : i \in Nat /\ i # 0 /\ i <= n
  OBVIOUS
<1>. QED  BY <1>3, <1>4

\* The last of the sequences that are joined comes last.
LEMMA FlattenAppend ==
    ASSUME NEW X, NEW ss \in Seq(Seq(X)), NEW a \in Seq(X)
    PROVE  FlattenSeq(Append(ss, a)) = FlattenSeq(ss) \o a
<1>0. PICK Y : Y = Seq(X)
  OBVIOUS
<1>1. PICK n \in Nat : n = Len(ss)
  OBVIOUS
<1>2. PICK tt : tt = Append(ss, a)
  OBVIOUS
<1>3. tt \in Seq(Y) /\ Len(tt) = n + 1 /\ tt[n + 1] = a /\ \A i \in 1..n : tt[i] = ss[i]
  <2>1. ss \in Seq(Y) /\ a \in Y
    BY <1>0
  <2>. QED  BY <1>1, <1>2, <2>1, AppendProperties
<1>4. PICK g : g = Flattening(tt, g) /\ FlattenSeq(tt) = g[n + 1]
  <2>1. tt \in Seq(Seq(X)) /\ Len(tt) # 0
    BY <1>0, <1>3
  <2>2. \E g : g = Flattening(tt, g) /\ FlattenSeq(tt) = g[Len(tt)]
    BY <2>1, FlattenEquation
  <2>. QED  BY <1>3, <2>2
<1>5. g[n + 1] = IF n + 1 = 1 THEN a ELSE g[(n + 1) - 1] \o a
  <2>1. n + 1 \in 1..Len(tt)
    BY <1>1, <1>3
  <2>. QED  BY <1>3, <1>4, <2>1 DEF Flattening
<1>6. CASE n = 0
  <2>1. FlattenSeq(ss) = ss
    BY <1>1, <1>6 DEF FlattenSeq
  <2>2. ss = <<>>
    <3>1. ss \in Seq(Y)
      BY <1>0
    <3>. QED  BY <1>1, <1>6, <3>1, EmptySeq
  <2>3. <<>> \o a = a
    OBVIOUS
  <2>. QED  BY <1>2, <1>4, <1>5, <1>6, <2>1, <2>2, <2>3
<1>7. CASE n # 0
  <2>1. PICK f : f = Flattening(ss, f) /\ FlattenSeq(ss) = f[n]
    BY <1>1, <1>7, FlattenEquation
  <2>2. \A i \in 1..n : f[i] = g[i]
    <3>1. n <= Len(ss) /\ n <= Len(tt) /\ Len(ss) \in Nat /\ Len(tt) \in Nat
      BY <1>1, <1>3
    <3>2. Agree(ss, tt, n)
      BY <1>3 DEF Agree
    <3>3. Agree(f, g, n)
      BY <1>4, <2>1, <3>1, <3>2, FlattenAgree
    <3>. QED  BY <3>3 DEF Agree
  <2>3. n \in 1..n /\ (n + 1) - 1 = n /\ n + 1 # 1
    BY <1>1, <1>7
  <2>. QED  BY <1>2, <1>4, <1>5, <2>1, <2>2, <2>3
<1>. QED  BY <1>6, <1>7

\* The same of a file that has the bytes F.
BytesOf(F, e) == [i \in 1..e.length |-> F[e.offset + i]]
StoredOf(F, s) == FlattenSeq([k \in DOMAIN s |-> BytesOf(F, s[k])])
Values(F) == {F[b] : b \in Nat}

\* A chain with an extent is its front and its last extent.
LEMMA FrontAndLast ==
    ASSUME NEW s \in Seq(Extents), s # <<>>
    PROVE  /\ Front(s) \in Seq(Extents) /\ Last(s) \in Extents
           /\ Len(s) \in Nat \ {0} /\ Len(Front(s)) = Len(s) - 1
           /\ s = Append(Front(s), Last(s))
<1>1. PICK f, e : f = Front(s) /\ e = Last(s)
  OBVIOUS
<1>2. Len(s) \in Nat \ {0}
  OBVIOUS
<1>3. f \in Seq(Extents) /\ e \in Extents
  BY <1>1, <1>2, SubSeqProperties DEF Front, Last
<1>4. Len(f) = Len(s) - 1
  <2>1. PICK m \in Nat : m = Len(s) - 1
    BY <1>2
  <2>2. f = SubSeq(s, 1, m) /\ \A i \in 1..m : s[i] \in Extents
    BY <1>1, <1>2, <2>1 DEF Front
  <2>3. Len(f) = IF 1 <= m THEN (m - 1) + 1 ELSE 0
    BY <2>2, SubSeqProperties
  <2>. QED  BY <2>1, <2>3
<1>5. s = Append(f, e)
  BY <1>1, <1>2, SubSeqProperties, AppendProperties DEF Front, Last
<1>. QED  BY <1>1, <1>2, <1>3, <1>4, <1>5

\* The length and the members of two sequences put together.
LEMMA Joined ==
    ASSUME NEW X, NEW a \in Seq(X), NEW b \in Seq(X)
    PROVE  /\ a \o b \in Seq(X) /\ Len(a) \in Nat /\ Len(b) \in Nat
           /\ Len(a \o b) = Len(a) + Len(b)
           /\ \A i \in 1..Len(a) : (a \o b)[i] = a[i]
           /\ \A j \in 1..Len(b) : (a \o b)[Len(a) + j] = b[j]
OBVIOUS

\* A chain is empty, or a chain with one more extent.
LEMMA ChainInduction ==
    ASSUME NEW P \in SUBSET Seq(Extents), <<>> \in P,
           \A s \in P : \A e \in Extents : Append(s, e) \in P
    PROVE  P = Seq(Extents)
<1> DEFINE Q == {n \in Nat : \A s \in Seq(Extents) : Len(s) = n => s \in P}
<1>1. 0 \in Q
  <2>1. \A s \in Seq(Extents) : Len(s) = 0 => s = <<>>
    OBVIOUS
  <2>. QED  BY <2>1
<1>2. ASSUME NEW n \in Q PROVE n + 1 \in Q
  <2>1. n \in Nat /\ n + 1 \in Nat
    BY <1>2
  <2>2. ASSUME NEW s \in Seq(Extents), Len(s) = n + 1 PROVE s \in P
    <3>1. s # <<>>
      BY <2>1, <2>2
    <3>2. PICK f, e : f = Front(s) /\ e = Last(s)
      OBVIOUS
    <3>3. f \in Seq(Extents) /\ e \in Extents /\ Len(f) = Len(s) - 1
      BY <3>1, <3>2, FrontAndLast
    <3>4. s = Append(f, e)
      BY <3>1, <3>2, FrontAndLast
    <3>6. Len(f) = n
      <4>1. \A l \in Nat : l + 1 - 1 = l
        OBVIOUS
      <4>. QED  BY <2>1, <2>2, <3>3, <4>1
    <3>5. f \in P
      BY <1>2, <3>3, <3>6
    <3>. QED  BY <3>3, <3>4, <3>5
  <2>. QED  BY <2>1, <2>2
<1>3. Q = Nat
  <2>1. Q \in SUBSET Nat
    OBVIOUS
  <2> HIDE DEF Q
  <2>. QED  BY <1>1, <1>2, <2>1, Induction
<1>4. ASSUME NEW s \in Seq(Extents) PROVE s \in P
  <2>1. Len(s) \in Q
    BY <1>3
  <2>. QED  BY <2>1
<1>. QED  BY <1>4

\* The bytes of an extent.
LEMMA BytesAre ==
    ASSUME NEW F, NEW e \in Extents
    PROVE  /\ e.length \in Nat /\ e.offset \in Nat
           /\ BytesOf(F, e) \in Seq(Values(F)) /\ Len(BytesOf(F, e)) = e.length
           /\ \A j \in 1..e.length : BytesOf(F, e)[j] = F[e.offset + j]
<1>1. PICK n, o : n = e.length /\ o = e.offset
  OBVIOUS
<1>2. n \in Nat /\ o \in Nat
  BY <1>1 DEF Extents
<1>3. PICK t : t = BytesOf(F, e)
  OBVIOUS
<1>4. t = [i \in 1..n |-> F[o + i]]
  BY <1>1, <1>3 DEF BytesOf
<1>5. \A i \in 1..n : F[o + i] \in Values(F)
  BY <1>2 DEF Values
<1>6. t \in Seq(Values(F)) /\ Len(t) = n /\ \A j \in 1..n : t[j] = F[o + j]
  BY <1>2, <1>4, <1>5
<1>. QED  BY <1>1, <1>2, <1>3, <1>6

\* The bytes of a chain with one more extent.
LEMMA StoredAppend ==
    ASSUME NEW F, NEW s \in Seq(Extents), NEW e \in Extents
    PROVE  StoredOf(F, Append(s, e)) = StoredOf(F, s) \o BytesOf(F, e)
<1>1. PICK n \in Nat : n = Len(s) /\ DOMAIN s = 1..n
  OBVIOUS
<1>2. PICK t : t = Append(s, e)
  OBVIOUS
<1>3. /\ t \in Seq(Extents) /\ DOMAIN t = 1..(n + 1) /\ t[n + 1] = e
      /\ \A k \in 1..n : t[k] = s[k] /\ s[k] \in Extents
  BY <1>1, <1>2
<1>4. PICK ss, tt, a : /\ ss = [k \in 1..n |-> BytesOf(F, s[k])]
                       /\ tt = [k \in 1..(n + 1) |-> BytesOf(F, t[k])]
                       /\ a = BytesOf(F, e)
  OBVIOUS
<1>5. a \in Seq(Values(F)) /\ \A k \in 1..n : BytesOf(F, s[k]) \in Seq(Values(F))
  BY <1>3, <1>4, BytesAre
<1>6. ss \in Seq(Seq(Values(F))) /\ Len(ss) = n
  BY <1>1, <1>4, <1>5
<1>7. tt = Append(ss, a)
  <2>1. PICK uu : uu = Append(ss, a)
    OBVIOUS
  <2>2. DOMAIN uu = 1..(n + 1) /\ uu[n + 1] = a /\ \A k \in 1..n : uu[k] = ss[k]
    BY <1>5, <1>6, <2>1
  <2>3. uu = [k \in 1..(n + 1) |-> uu[k]]
    <3>1. uu \in Seq(Seq(Values(F)))
      BY <1>5, <1>6, <2>1
    <3>. QED  BY <2>2, <3>1
  <2>4. \A k \in 1..(n + 1) : k = n + 1 \/ k \in 1..n
    BY <1>1
  <2>5. \A k \in 1..(n + 1) : tt[k] = uu[k]
    BY <1>3, <1>4, <2>2, <2>4
  <2>. QED  BY <1>4, <2>1, <2>3, <2>5
<1>8. FlattenSeq(tt) = FlattenSeq(ss) \o a
  BY <1>5, <1>6, <1>7, FlattenAppend
<1>9. StoredOf(F, s) = FlattenSeq(ss) /\ StoredOf(F, t) = FlattenSeq(tt)
  BY <1>1, <1>3, <1>4 DEF StoredOf
<1>. QED  BY <1>2, <1>4, <1>8, <1>9

\* Nothing is stored in no extents.
LEMMA StoredNothing == \A F : StoredOf(F, <<>>) = <<>>
<1> SUFFICES ASSUME NEW F PROVE StoredOf(F, <<>>) = <<>>
  OBVIOUS
<1>1. PICK ss : ss = [k \in DOMAIN <<>> |-> BytesOf(F, <<>>[k])]
  OBVIOUS
<1>2. ss = <<>> /\ Len(ss) = 0
  BY <1>1
<1>. QED  BY <1>1, <1>2 DEF StoredOf, FlattenSeq

\* Where the bytes of a chain are in the file.
Located(F, s) ==
    /\ StoredOf(F, s) \in Seq(Values(F))
    /\ Len(StoredOf(F, s)) = Size(s)
    /\ \A k \in 1..Len(s) : \A j \in 1..s[k].length :
        StoredOf(F, s)[Upto(s)[k - 1] + j] = F[s[k].offset + j]

\* The bytes of a chain are those of its extents.
LEMMA StoredLocated ==
    ASSUME NEW F, NEW s \in Seq(Extents)
    PROVE  Located(F, s)
<1> DEFINE P == {c \in Seq(Extents) : Located(F, c)}
<1>1. <<>> \in P
  <2>1. PICK n : n = <<>>
    OBVIOUS
  <2>2. StoredOf(F, n) = n /\ Size(n) = 0 /\ Len(n) = 0 /\ n \in Seq(Extents) /\ n \in Seq(Values(F))
    BY <2>1, StoredNothing, SizeIs
  <2>3. Located(F, n)
    BY <2>2 DEF Located
  <2>. QED  BY <2>1, <2>2, <2>3
<1>2. ASSUME NEW c \in P, NEW e \in Extents PROVE Append(c, e) \in P
  <2>1. c \in Seq(Extents) /\ Located(F, c)
    BY <1>2
  <2>2. PICK n \in Nat : n = Len(c)
    BY <2>1
  <2>3. PICK t : t = Append(c, e)
    OBVIOUS
  <2>4. t \in Seq(Extents) /\ Len(t) = n + 1 /\ t[n + 1] = e /\ \A k \in 1..n : t[k] = c[k] /\ c[k] \in Extents
    BY <2>1, <2>2, <2>3
  <2>5. PICK old, a, new : old = StoredOf(F, c) /\ a = BytesOf(F, e) /\ new = StoredOf(F, t)
    OBVIOUS
  <2>6. new = old \o a
    BY <2>1, <2>3, <2>5, StoredAppend
  <2>7. PICK m \in Nat : m = Size(c)
    BY <2>1, SizeIs
  <2>8. old \in Seq(Values(F)) /\ Len(old) = m
    BY <2>1, <2>5, <2>7 DEF Located
  <2>9. PICK l \in Nat : l = e.length
    BY BytesAre
  <2>10. a \in Seq(Values(F)) /\ Len(a) = l /\ \A j \in 1..l : a[j] = F[e.offset + j]
    BY <2>5, <2>9, BytesAre
  <2>11. /\ new \in Seq(Values(F)) /\ Len(new) = m + l
         /\ \A i \in 1..m : new[i] = old[i]
         /\ \A j \in 1..l : new[m + j] = a[j]
    <3>1. PICK V : V = Values(F)
      OBVIOUS
    <3>2. old \in Seq(V) /\ a \in Seq(V)
      BY <2>8, <2>10, <3>1
    <3>3. /\ old \o a \in Seq(V) /\ Len(old \o a) = Len(old) + Len(a)
          /\ \A i \in 1..Len(old) : (old \o a)[i] = old[i]
          /\ \A j \in 1..Len(a) : (old \o a)[Len(old) + j] = a[j]
      BY <3>2, Joined
    <3>4. Len(old) = m /\ Len(a) = l
      BY <2>8, <2>10
    <3>. QED  BY <2>6, <3>1, <3>3, <3>4
  <2>12. Size(t) = m + l /\ \A k \in 0..n : Upto(t)[k] = Upto(c)[k]
    BY <2>1, <2>2, <2>3, <2>7, <2>9, SizeIs
  <2>13. ASSUME NEW k \in 1..(n + 1), NEW j \in 1..t[k].length
         PROVE  new[Upto(t)[k - 1] + j] = F[t[k].offset + j]
    <3>1. CASE k = n + 1
      <4>1. k - 1 = n /\ n \in 0..n
        BY <2>2, <3>1
      <4>2. Upto(t)[k - 1] = m
        BY <2>2, <2>7, <2>12, <4>1 DEF Size
      <4>3. t[k] = e /\ j \in 1..l
        BY <2>4, <2>9, <2>13, <3>1
      <4>. QED  BY <2>10, <2>11, <4>2, <4>3
    <3>2. CASE k # n + 1
      <4>1. k \in 1..n /\ k - 1 \in 0..n /\ k \in 0..n
        BY <2>2, <3>2
      <4>2. t[k] = c[k] /\ Upto(t)[k - 1] = Upto(c)[k - 1] /\ c[k] \in Extents
        BY <2>4, <2>12, <4>1
      <4>3. PICK u : u = Upto(c) /\ IsUpto(c, u)
        BY <2>1, UptoIs
      <4>4. \A i \in 1..n : c[i].length \in Nat
        BY <2>4, BytesAre
      <4>5. u[k] <= u[n]
        BY <2>2, <4>1, <4>3, <4>4, UptoGrows
      <4>6. u[n] = m
        BY <2>2, <2>7, <4>3 DEF Size
      <4>7. u[k] = u[k - 1] + c[k].length /\ u[k - 1] \in Nat
        BY <2>2, <4>1, <4>3 DEF IsUpto
      <4>8. u[k - 1] + j \in 1..m
        <5>1. j \in 1..c[k].length /\ c[k].length \in Nat
          BY <2>13, <4>1, <4>2, <4>4
        <5>. QED  BY <4>5, <4>6, <4>7, <5>1
      <4>9. old[u[k - 1] + j] = F[c[k].offset + j]
        BY <2>1, <2>2, <2>5, <2>13, <4>1, <4>2, <4>3 DEF Located
      <4>. QED  BY <2>11, <4>2, <4>3, <4>8, <4>9
    <3>. QED  BY <3>1, <3>2
  <2>14. Located(F, t)
    BY <2>4, <2>5, <2>11, <2>12, <2>13 DEF Located
  <2>. QED  BY <2>3, <2>4, <2>14
<1>3. P = Seq(Extents)
  <2>1. P \in SUBSET Seq(Extents)
    OBVIOUS
  <2> HIDE DEF P
  <2>. QED  BY <1>1, <1>2, <2>1, ChainInduction
<1>. QED  BY <1>3

\* A chain keeps its bytes in a file that has them where the chain is.
LEMMA StoredStays ==
    ASSUME NEW F, NEW G, NEW s \in Seq(Extents), \A b \in Nat : In(s, b) => F[b] = G[b]
    PROVE  StoredOf(F, s) = StoredOf(G, s)
<1>1. ASSUME NEW k \in DOMAIN s PROVE BytesOf(F, s[k]) = BytesOf(G, s[k])
  <2>1. PICK e : e = s[k] /\ e \in Extents
    OBVIOUS
  <2>2. e.offset \in Nat /\ e.length \in Nat
    BY <2>1 DEF Extents
  <2>3. ASSUME NEW i \in 1..e.length PROVE F[e.offset + i] = G[e.offset + i]
    <3>1. e.offset + i \in Nat /\ e.offset < e.offset + i /\ e.offset + i <= e.offset + e.length
      BY <2>2
    <3>2. In(s, e.offset + i)
      BY <2>1, <3>1 DEF In, Covers
    <3>. QED  BY <3>1, <3>2
  <2>. QED  BY <2>1, <2>3 DEF BytesOf
<1>. QED  BY <1>1 DEF StoredOf

-----------------------------------------------------------------------------
(***************************************************************************)
(* What a writer has written.                                              *)
(***************************************************************************)

\* The chain of a writer with the filled part of its open extent.
Filling(w) == Append(w.chain, Extent(w.cur.offset, w.curLen))

\* An empty extent adds nothing to what is stored.
LEMMA StoredEmpty ==
    ASSUME NEW F, NEW s \in Seq(Extents), NEW o \in Nat
    PROVE  StoredOf(F, Append(s, Extent(o, 0))) = StoredOf(F, s)
<1>1. PICK e, t : e = Extent(o, 0) /\ t = BytesOf(F, e)
  OBVIOUS
<1>2. e \in Extents /\ e.length = 0
  BY <1>1, ExtentFields
<1>3. t \in Seq(Values(F)) /\ Len(t) = 0
  BY <1>1, <1>2, BytesAre
<1>4. t = <<>>
  BY <1>3, EmptySeq
<1>5. PICK u : u = StoredOf(F, s) /\ u \in Seq(Values(F))
  BY StoredLocated DEF Located
<1>6. u \o t = u
  BY <1>4, <1>5, ConcatEmptySeq
<1>. QED  BY <1>1, <1>2, <1>5, <1>6, StoredAppend

\* What a writer has written is what closing it publishes.
LEMMA FillingIs ==
    ASSUME NEW w, WriterOK(w)
    PROVE  /\ Filling(w) \in Seq(Extents) /\ Commit(w) \in Seq(Extents)
           /\ Size(Filling(w)) = Written(w) /\ Size(Commit(w)) = Written(w)
           /\ \A F : StoredOf(F, Commit(w)) = StoredOf(F, Filling(w))
<1>1. PICK c, o, n : c = w.chain /\ o = w.cur.offset /\ n = w.curLen
  OBVIOUS
<1>2. c \in Seq(Extents) /\ o \in Nat /\ n \in Nat
  BY <1>1, WriterFields
<1>3. PICK e : e = Extent(o, n) /\ e \in Extents /\ e.length = n
  BY <1>2, ExtentFields
<1>4. PICK t : t = Append(c, e) /\ t \in Seq(Extents)
  BY <1>2, <1>3, AppendProperties
<1>5. Filling(w) = t
  BY <1>1, <1>3, <1>4 DEF Filling
<1>6. Commit(w) = IF n > 0 THEN t ELSE c
  BY <1>1, <1>3, <1>4 DEF Commit
<1>7. Size(t) = Size(c) + n /\ Size(c) \in Nat
  BY <1>2, <1>3, <1>4, SizeIs
<1>8. Written(w) = Size(c) + n
  BY <1>1 DEF Written
<1>9. CASE n > 0
  BY <1>4, <1>5, <1>6, <1>7, <1>8, <1>9
<1>10. CASE ~(n > 0)
  <2>1. n = 0
    BY <1>2, <1>10
  <2>2. Commit(w) = c /\ Size(c) = Written(w)
    BY <1>6, <1>7, <1>8, <1>10, <2>1
  <2>3. \A F : StoredOf(F, t) = StoredOf(F, c)
    BY <1>2, <1>3, <1>4, <2>1, StoredEmpty
  <2>. QED  BY <1>2, <1>4, <1>5, <1>7, <1>8, <2>2, <2>3
<1>. QED  BY <1>9, <1>10

\* What a writer has written is inside of what it reserved.
LEMMA FillingIn ==
    ASSUME NEW w, WriterOK(w), NEW b \in Nat, In(Filling(w), b)
    PROVE  In(Append(w.chain, w.cur), b)
<1>1. PICK c, e, o, n : c = w.chain /\ e = w.cur /\ o = w.cur.offset /\ n = w.curLen
  OBVIOUS
<1>2. c \in Seq(Extents) /\ e \in Extents /\ o \in Nat /\ n \in Nat /\ e.offset = o /\ e.length \in Nat /\ n <= e.length
  BY <1>1, WriterFields
<1>3. PICK d : d = Extent(o, n) /\ d \in Extents /\ (Covers(d, b) <=> o < b /\ b <= o + n)
  BY <1>2, ExtentFields
<1>4. In(Append(c, d), b)
  BY <1>1, <1>3 DEF Filling
<1>5. In(c, b) \/ Covers(d, b)
  BY <1>2, <1>3, <1>4, Appended
<1>6. Covers(d, b) => Covers(e, b)
  <2>1. o < b /\ b <= o + n => o < b /\ b <= o + e.length
    BY <1>2
  <2>. QED  BY <1>2, <1>3, <2>1 DEF Covers
<1>. QED  BY <1>1, <1>2, <1>5, <1>6, Appended

\* A writer that goes on to another extent has written no more.
LEMMA AdvanceWrites ==
    ASSUME free \in Seq(Filled), fileEnd \in Nat, NEW w, WriterOK(w), Full(w), NEW v, v = Advance(w).w
    PROVE  Written(v) = Written(w) /\ \A F : StoredOf(F, Filling(v)) = StoredOf(F, Filling(w))
<1>1. PICK d : d = Commit(w) /\ d \in Seq(Extents) /\ Size(d) = Written(w)
  BY FillingIs
<1>2. PICK o : o = v.cur.offset
  OBVIOUS
<1>3. v.chain = d /\ v.curLen = 0 /\ o \in Nat
  <2>1. v.chain = d /\ v.curLen = 0 /\ v.cur \in Extents
    BY <1>1, AdvanceIs
  <2>. QED  BY <1>2, <2>1 DEF Extents
<1>4. Written(v) = Written(w)
  <2>1. Size(d) \in Nat
    BY <1>1, SizeIs
  <2>. QED  BY <1>1, <1>3, <2>1 DEF Written
<1>5. Filling(v) = Append(d, Extent(o, 0))
  BY <1>2, <1>3 DEF Filling
<1>6. \A F : StoredOf(F, Filling(v)) = StoredOf(F, d)
  BY <1>1, <1>3, <1>5, StoredEmpty
<1>. QED  BY <1>1, <1>4, <1>6, FillingIs

\* The bytes of a file are those of another one, with n bytes of a blob, from
\* its byte m on, at the end of an extent of k bytes.
IsPatched(G, F, h, n, o, k, m) ==
    G = Patched(F, h, n, o + k, m) /\ (k + n > 0 => o + (k + n) <= Capacity)

Extends(G, F, h, n, o, k, m) ==
    BytesOf(G, Extent(o, k + n)) = BytesOf(F, Extent(o, k)) \o [i \in 1..n |-> Byte(h, m + i)]

\* The bytes that are written follow those that were there.
LEMMA ChunkBytes ==
    ASSUME NEW G, NEW F, NEW h, NEW n \in Nat, NEW o \in Nat, NEW k \in Nat, NEW m \in Nat,
           IsPatched(G, F, h, n, o, k, m)
    PROVE  Extends(G, F, h, n, o, k, m)
<1>g. G = Patched(F, h, n, o + k, m) /\ (k + n > 0 => o + (k + n) <= Capacity)
  BY DEF IsPatched
<1>0. Capacity \in Nat
  BY BlobAssumption
<1>1. PICK r : r = k + n /\ r \in Nat
  OBVIOUS
<1>2. PICK a, b, c : /\ a = BytesOf(F, Extent(o, k)) /\ b = [i \in 1..n |-> Byte(h, m + i)]
                     /\ c = BytesOf(G, Extent(o, r))
  OBVIOUS
<1>3. c = [i \in 1..r |-> G[o + i]] /\ a = [i \in 1..k |-> F[o + i]]
  BY <1>1, <1>2, ExtentFields DEF BytesOf
<1>4. PICK V : V = Values(F) \cup Values(G) \cup {Byte(h, m + i) : i \in 1..n}
  OBVIOUS
<1>5. (\A i \in 1..k : F[o + i] \in V) /\ (\A i \in 1..r : G[o + i] \in V) /\ (\A i \in 1..n : Byte(h, m + i) \in V)
  <2>1. \A i \in Nat : o + i \in Nat
    OBVIOUS
  <2>2. (\A i \in 1..k : i \in Nat) /\ (\A i \in 1..r : i \in Nat)
    OBVIOUS
  <2>. QED  BY <1>4, <2>1, <2>2 DEF Values
<1>6. a \in Seq(V) /\ Len(a) = k
  BY <1>3, <1>5
<1>7. b \in Seq(V) /\ Len(b) = n
  BY <1>2, <1>5
<1>8. c \in Seq(V) /\ Len(c) = r
  BY <1>1, <1>3, <1>5
<1>9. PICK d : d = a \o b
  OBVIOUS
<1>10. /\ d \in Seq(V) /\ Len(d) = k + n
       /\ \A i \in 1..k : d[i] = a[i]
       /\ \A j \in 1..n : d[k + j] = b[j]
  <2>1. a \in Seq(V) /\ b \in Seq(V)
    BY <1>6, <1>7
  <2>2. /\ a \o b \in Seq(V) /\ Len(a \o b) = Len(a) + Len(b)
        /\ \A i \in 1..Len(a) : (a \o b)[i] = a[i]
        /\ \A j \in 1..Len(b) : (a \o b)[Len(a) + j] = b[j]
    BY <2>1, Joined
  <2>. QED  BY <1>6, <1>7, <1>9, <2>2
<1>11. ASSUME NEW i \in 1..r PROVE c[i] = d[i]
  <2>1. o + i \in 1..Capacity
    <3>1. r > 0 /\ i <= r
      BY <1>1
    <3>2. o + r <= Capacity
      BY <1>1, <1>g, <3>1
    <3>. QED  BY <1>0, <1>1, <3>1, <3>2
  <2>2. G[o + i] = IF o + i \in (o + k + 1)..(o + k + n) THEN Byte(h, m + (o + i) - (o + k)) ELSE F[o + i]
    BY <1>g, <2>1 DEF Patched
  <2>3. CASE i <= k
    <3>1. i \in 1..k /\ ~(o + i \in (o + k + 1)..(o + k + n))
      BY <1>1, <2>3
    <3>2. G[o + i] = F[o + i]
      BY <2>2, <3>1
    <3>. QED  BY <1>3, <1>10, <3>1, <3>2
  <2>4. CASE ~(i <= k)
    <3>1. PICK j : j = i - k
      OBVIOUS
    <3>2. j \in 1..n /\ i = k + j /\ o + i \in (o + k + 1)..(o + k + n) /\ m + (o + i) - (o + k) = m + j
      BY <1>1, <2>4, <3>1
    <3>3. G[o + i] = Byte(h, m + j)
      BY <2>2, <3>2
    <3>4. d[i] = Byte(h, m + j)
      BY <1>2, <1>10, <3>2
    <3>. QED  BY <1>3, <3>3, <3>4
  <2>. QED  BY <2>3, <2>4
<1>12. c = d
  BY <1>1, <1>8, <1>10, <1>11, SeqEqual
<1>13. BytesOf(G, Extent(o, r)) = BytesOf(F, Extent(o, k)) \o [i \in 1..n |-> Byte(h, m + i)]
  BY <1>2, <1>9, <1>12, Zenon
<1>. QED  BY <1>1, <1>13, Zenon DEF Extends

-----------------------------------------------------------------------------
(***************************************************************************)
(* The invariants that the refinement needs besides.                       *)
(***************************************************************************)

\* One Write at a time has bytes left, in a store that is not closed, and the
\* bound on the file leaves room for them.
MutexInv ==
    /\ fileEnd <= Capacity
    /\ \A h \in Handles : writer[h].left > 0 => err = "none" /\ writer[h].left <= Room(writer[h])
    /\ \A g, h \in Handles : writer[g].left > 0 /\ writer[h].left > 0 => g = h

\* Only the writer of an open blob remembers a failure.
FailInv == \A h \in Handles : writer[h].state # "open" => ~writer[h].err

\* A reader's blob is closed, and the size that the reader took is its size for
\* as long as the blob is there.
ViewInv ==
    \A r \in Readers :
        /\ reader[r].pos \in Nat /\ reader[r].size \in Nat
        /\ reader[r].h \in Handles => writer[reader[r].h].state = "closed"
        /\ reader[r].h \in DOMAIN chains => reader[r].size = Size(chains[reader[r].h])

\* Before the first Create there are no blobs, writers or readers.
FreshInv ==
    ~initialized =>
        /\ DOMAIN chains = {} /\ out = Silent
        /\ \A h \in Handles : writer[h].state = "unused"
        /\ \A r \in Readers : reader[r].h = NoHandle

\* The inductive invariant of the refinement.
StoreInv == BlobInv /\ MutexInv /\ FailInv /\ ViewInv /\ FreshInv

\* Numbers, for what there is room.
LEMMA CapacityIs == Capacity \in Nat /\ MaxSize \in Nat
BY BlobAssumption

\* What there is room for, before and after a chunk is written.
LEMMA ChunkRoom ==
    ASSUME BlobInv, MutexInv, NEW h \in Handles, NEW n \in Nat,
           NEW v, NEW f, NEW new, NEW end, Chunk(h, n, v, f, new, end), fileEnd' = end, free' = f
    PROVE  err = "none" /\ end <= Capacity /\ new.left <= Room(new)'
<1>0. Capacity \in Nat
  BY CapacityIs
<1>1. PICK w : w = writer[h]
  OBVIOUS
<1>2. WriterOK(w) /\ w.left > 0 /\ err = "none" /\ w.left <= Room(w) /\ fileEnd <= Capacity
  BY <1>1 DEF Chunk, MutexInv
<1>3. free \in Seq(Filled) /\ free \in Seq(Extents) /\ fileEnd \in Nat
  BY FilledAre DEF BlobInv, TypesInv
<1>4. /\ WriterOK(v) /\ v.left = w.left /\ n <= v.left
      /\ v.growing => v.cur.offset + v.cur.length = fileEnd
      /\ ~v.growing => n <= v.cur.length - v.curLen
      /\ WriterOK(new) /\ new.left <= v.left - n
      /\ new.curLen = v.curLen + n /\ new.growing = v.growing /\ new.cur.offset = v.cur.offset
      /\ new.cur.length = IF v.growing THEN v.curLen + n ELSE v.cur.length
      /\ f \in Seq(Filled) /\ f \in Seq(Extents) /\ end \in Nat
      /\ end = IF v.growing THEN fileEnd + n ELSE fileEnd
      /\ IF Full(w) THEN v = Advance(w).w /\ f = Advance(w).free ELSE v = w /\ f = free
  BY <1>1, FilledAre DEF Chunk
<1>5. PICK a, b \in Nat : a = Size(free) /\ b = Size(f)
  BY <1>3, <1>4, SizeIs
<1>6. PICK o, p, k, q \in Nat : o = v.cur.offset /\ p = v.cur.length /\ k = v.curLen /\ q = v.left /\ k <= p
  BY <1>4, WriterFields
<1>7. v.growing \in BOOLEAN /\ (v.growing => k = p)
  BY <1>4, <1>6, WriterFields DEF WriterOK
<1>8. q <= Capacity - fileEnd + (IF v.growing THEN 0 ELSE b + p - k)
  <2>1. CASE Full(w)
    <3>1. v = Advance(w).w /\ f = Advance(w).free
      BY <1>4, <2>1
    <3>2. /\ w.curLen = w.cur.length /\ k = 0
          /\ \/ free # <<>> /\ ~v.growing /\ v.cur = Last(free) /\ f = Front(free)
             \/ free = <<>> /\ v.growing
      BY <1>2, <1>3, <1>6, <2>1, <3>1, AdvanceIs
    <3>3. q <= Capacity - fileEnd + a
      <4>1. PICK x \in Nat : x = w.cur.length /\ x = w.curLen
        BY <1>2, <3>2, WriterFields
      <4>2. w.left <= Capacity - fileEnd + (a + x - x)
        BY <1>2, <1>5, <2>1, <4>1 DEF Room
      <4>3. a + x - x = a
        BY <4>1
      <4>. QED  BY <1>4, <1>6, <4>2, <4>3
    <3>4. CASE free # <<>>
      <4>1. ~v.growing /\ v.cur = Last(free) /\ f = Front(free)
        BY <3>2, <3>4
      <4>2. free = Append(f, v.cur) /\ v.cur \in Extents
        BY <1>3, <3>4, <4>1, FrontAndLast
      <4>3. a = b + p
        BY <1>4, <1>5, <1>6, <4>2, SizeIs
      <4>. QED  BY <1>0, <1>3, <3>2, <3>3, <4>1, <4>3
    <3>5. CASE free = <<>>
      <4>1. v.growing
        BY <3>2, <3>5
      <4>2. a = 0
        BY <1>5, <3>5, SizeIs
      <4>. QED  BY <1>0, <1>3, <3>3, <4>1, <4>2
    <3>. QED  BY <3>4, <3>5
  <2>2. CASE ~Full(w)
    <3>1. v = w /\ f = free
      BY <1>4, <2>2
    <3>2. w.left <= Capacity - fileEnd + (IF w.growing THEN 0 ELSE a + w.cur.length - w.curLen)
      BY <1>2, <1>5, <2>2 DEF Room
    <3>. QED  BY <1>5, <1>6, <3>1, <3>2
  <2>. QED  BY <2>1, <2>2
<1>9. PICK l \in Nat : l = new.left /\ l <= q - n
  BY <1>4, <1>6, WriterFields
<1>10. CASE v.growing
  <2>1. end = fileEnd + n /\ o + p = fileEnd /\ k = p
    BY <1>4, <1>6, <1>7, <1>10
  <2>2. new.growing /\ new.cur.offset + new.cur.length = end
    <3>1. new.growing /\ new.cur.offset = o /\ new.cur.length = k + n
      BY <1>4, <1>6, <1>10
    <3>2. o + (k + n) = fileEnd + n
      BY <1>3, <2>1
    <3>. QED  BY <2>1, <3>1, <3>2
  <2>3. Room(new)' = Capacity - end + 0
    BY <2>2 DEF Room, Full
  <2>4. q <= Capacity - fileEnd
    BY <1>0, <1>3, <1>8, <1>10
  <2>5. l <= Capacity - end + 0 /\ end <= Capacity
    <3>1. n <= q
      BY <1>4, <1>6
    <3>. QED  BY <1>0, <1>3, <1>9, <2>1, <2>4, <3>1
  <2>. QED  BY <1>2, <1>9, <2>3, <2>5
<1>11. CASE ~v.growing
  <2>1. end = fileEnd /\ ~new.growing /\ new.cur.length = p /\ new.curLen = k + n
    BY <1>4, <1>6, <1>11
  <2>2. Room(new)' = Capacity - end + (b + p - (k + n))
    BY <1>5, <2>1 DEF Room
  <2>3. l <= Capacity - end + (b + p - (k + n))
    <3>1. q <= Capacity - end + (b + p - k)
      BY <1>8, <1>11, <2>1
    <3>2. end \in Nat /\ Capacity - end \in Int
      BY <1>0, <1>4
    <3>3. Capacity - end + (b + p - (k + n)) = (Capacity - end + (b + p - k)) - n
      BY <1>6, <3>2
    <3>. QED  BY <1>6, <1>9, <3>1, <3>2, <3>3
  <2>. QED  BY <1>2, <1>9, <2>1, <2>2, <2>3
<1>. QED  BY <1>7, <1>10, <1>11

\* A step of a call that locks the store and returns leaves nothing to write.
LEMMA Returned ==
    ASSUME BlobInv, Unlocked, fileEnd' = fileEnd, MutexInv, \A h \in Handles : writer'[h].left = 0
    PROVE  MutexInv'
BY DEF MutexInv

\* The mutex, and the room for what is left to write.
LEMMA NextMutex == BlobInv /\ MutexInv /\ [Next]_vars => MutexInv'
<1> SUFFICES ASSUME BlobInv, MutexInv, [Next]_vars PROVE MutexInv'
  OBVIOUS
<1>w. writer \in [Handles -> Writer]
  BY DEF BlobInv, TypesInv
<1>u. ASSUME Unlocked, fileEnd' = fileEnd, writer' = writer PROVE MutexInv'
  BY <1>u, Returned DEF Unlocked
<1>3. CASE InitFile
  BY <1>3, <1>u DEF InitFile
<1>4. CASE Create
  <2>1. PICK w : w = [writer[nextH] EXCEPT !.state = "open"]
    OBVIOUS
  <2>2. Unlocked /\ nextH \in Handles /\ writer' = [writer EXCEPT ![nextH] = w] /\ fileEnd' = fileEnd
    BY <1>4, <2>1 DEF Create
  <2>3. w.left = writer[nextH].left
    BY <1>w, <2>1, <2>2 DEF Writer
  <2>4. \A h \in Handles : writer'[h].left = 0
    BY <1>w, <2>2, <2>3 DEF Unlocked
  <2>. QED  BY <2>2, <2>4, Returned
<1>5. ASSUME NEW h \in Handles, NEW n \in 1..MaxSize, Write(h, n) PROVE MutexInv'
  <2>1. PICK w, v : w = writer[h] /\ v = Reserve(w, n)
    OBVIOUS
  <2>2. n \in Nat
    BY CapacityIs
  <2>3. /\ w \in Writer /\ v.cur = w.cur /\ v.curLen = w.curLen /\ v.growing = w.growing /\ v.left = n
    BY <1>w, <2>1, <2>2, ReservedOn
  <2>4. /\ Unlocked /\ writer' = [writer EXCEPT ![h] = v] /\ err = "none" /\ n <= Room(w)
        /\ UNCHANGED <<err, fileEnd, free>>
    BY <1>5, <2>1 DEF Write, Reserve
  <2>5. writer'[h] = v /\ \A o \in Handles \ {h} : writer'[o] = writer[o]
    BY <1>w, <2>4
  <2>6. Room(v)' = Room(w)
    BY <2>3, <2>4 DEF Room, Full
  <2>7. \A o \in Handles : writer'[o].left > 0 => o = h
    BY <2>4, <2>5 DEF Unlocked
  <2>8. \A o \in Handles : writer'[o].left > 0 => err' = "none" /\ writer'[o].left <= Room(writer[o])'
    BY <2>3, <2>4, <2>5, <2>6, <2>7
  <2>. QED  BY <2>4, <2>7, <2>8 DEF MutexInv
<1>6. ASSUME NEW h \in Handles, NEW n \in 0..MaxSize, WriteChunk(h, n) PROVE MutexInv'
  <2>1. n \in Nat
    BY CapacityIs
  <2>2. PICK v, f, new, end :
            /\ Chunk(h, n, v, f, new, end)
            /\ writer' = [writer EXCEPT ![h] = new] /\ fileEnd' = end /\ free' = f
            /\ UNCHANGED err
    BY <1>6, <2>1, ChunkIs
  <2>3. err = "none" /\ end <= Capacity /\ new.left <= Room(new)' /\ writer[h].left > 0
    BY <2>1, <2>2, ChunkRoom DEF Chunk
  <2>4. writer'[h] = new /\ \A o \in Handles \ {h} : writer'[o] = writer[o]
    BY <1>w, <2>2
  <2>5. \A o \in Handles : writer'[o].left > 0 => o = h
    BY <2>3, <2>4 DEF MutexInv
  <2>6. \A o \in Handles : writer'[o].left > 0 => err' = "none" /\ writer'[o].left <= Room(writer[o])'
    BY <2>2, <2>3, <2>4, <2>5
  <2>. QED  BY <2>2, <2>3, <2>5, <2>6 DEF MutexInv
<1>7. ASSUME NEW h \in Handles, CloseWriter(h) PROVE MutexInv'
  <2>1. Unlocked /\ fileEnd' = fileEnd /\ writer' = [writer EXCEPT ![h] = Closed]
    BY <1>7 DEF CloseWriter
  <2>2. Closed.left = 0
    BY DEF Closed, Unborn
  <2>3. \A o \in Handles : writer'[o].left = 0
    BY <1>w, <2>1, <2>2 DEF Unlocked
  <2>. QED  BY <2>1, <2>3, Returned
<1>8. ASSUME NEW h \in Handles, Delete(h) PROVE MutexInv'
  BY <1>8, <1>u DEF Delete
<1>9. ASSUME NEW r \in Readers, NEW h, NEW n, Open(r, h) \/ Read(r, n) \/ Seek(r, n) PROVE MutexInv'
  BY <1>9, <1>u DEF Open, Read, Seek
<1>12. CASE CloseStore
  BY <1>12, <1>u DEF CloseStore
<1>13. CASE UNCHANGED vars
  BY <1>13 DEF vars, MutexInv, Room, Full
<1>. QED
  BY <1>3, <1>4, <1>5, <1>6, <1>7, <1>8, <1>9, <1>12, <1>13 DEF Next

\* A writer that is made, given bytes to write, or closed.
LEMMA Writers ==
    /\ Unborn.state = "unused" /\ ~Unborn.err
    /\ Closed.state = "closed" /\ ~Closed.err
    /\ \A w \in Writer : \A n : [w EXCEPT !.left = n].state = w.state /\ [w EXCEPT !.left = n].err = w.err
<1>1. Unborn.state = "unused" /\ ~Unborn.err
  BY DEF Unborn
<1>2. Closed.state = "closed" /\ ~Closed.err
  BY DEF Closed, Unborn
<1>3. \A w \in Writer : \A n : [w EXCEPT !.left = n].state = w.state /\ [w EXCEPT !.left = n].err = w.err
  BY DEF Writer
<1>. QED  BY <1>1, <1>2, <1>3

\* What a step does to the writers: nothing, or one of them is made, closed, or
\* writes.
WritersStep ==
    \/ writer' = writer
    \/ \E h \in Handles :
        /\ \A o \in Handles \ {h} : writer'[o] = writer[o]
        /\ \/ initialized /\ writer[h].state = "unused" /\ writer'[h].state = "open"
           \/ writer[h].state = "open" /\ writer'[h].state = "open"
           \/ writer[h].state = "open" /\ writer'[h].state = "closed" /\ ~writer'[h].err

\* No step does anything else to the writers.
LEMMA WritersAre == BlobInv /\ [Next]_vars => WritersStep
<1> SUFFICES ASSUME BlobInv, [Next]_vars PROVE WritersStep
  OBVIOUS
<1>w. writer \in [Handles -> Writer]
  BY DEF BlobInv, TypesInv
<1>1. CASE InitFile \/ CloseStore \/ UNCHANGED vars
  BY <1>1 DEF InitFile, CloseStore, vars, WritersStep
<1>2. CASE Create
  <2>1. PICK h \in Handles : h = nextH
    BY <1>2 DEF Create
  <2>2. h >= nextH
    BY <2>1, HandlesAre
  <2>3. writer[h].state = "unused"
    BY <2>2, Writers DEF BlobInv, TypesInv
  <2>4. initialized /\ writer' = [writer EXCEPT ![h].state = "open"]
    BY <1>2, <2>1 DEF Create
  <2>5. writer'[h].state = "open"
    BY <1>w, <2>4 DEF Writer
  <2>6. \A o \in Handles \ {h} : writer'[o] = writer[o]
    BY <1>w, <2>4
  <2>. QED  BY <2>3, <2>4, <2>5, <2>6 DEF WritersStep
<1>3. ASSUME NEW h \in Handles, NEW n \in 1..MaxSize, Write(h, n) PROVE WritersStep
  <2>1. PICK v : v = [writer[h] EXCEPT !.left = n]
    OBVIOUS
  <2>2. writer' = [writer EXCEPT ![h] = v] /\ writer[h].state = "open"
    BY <1>3, <2>1 DEF Write
  <2>3. v.state = "open"
    BY <1>w, <2>1, <2>2, Writers
  <2>4. writer'[h] = v /\ \A o \in Handles \ {h} : writer'[o] = writer[o]
    BY <1>w, <2>2
  <2>. QED  BY <2>2, <2>3, <2>4 DEF WritersStep
<1>4. ASSUME NEW h \in Handles, NEW n \in 0..MaxSize, WriteChunk(h, n) PROVE WritersStep
  <2>1. n \in Nat
    BY CapacityIs
  <2>2. PICK v, f, new, end : Chunk(h, n, v, f, new, end) /\ writer' = [writer EXCEPT ![h] = new]
    BY <1>4, <2>1, ChunkIs
  <2>3. writer[h].state = "open" /\ new.state = "open"
    BY <2>2 DEF Chunk
  <2>4. writer'[h] = new /\ \A o \in Handles \ {h} : writer'[o] = writer[o]
    BY <1>w, <2>2
  <2>. QED  BY <2>3, <2>4 DEF WritersStep
<1>5. ASSUME NEW h \in Handles, CloseWriter(h) PROVE WritersStep
  <2>1. writer[h].state = "open" /\ writer' = [writer EXCEPT ![h] = Closed]
    BY <1>5 DEF CloseWriter
  <2>2. writer'[h] = Closed /\ \A o \in Handles \ {h} : writer'[o] = writer[o]
    BY <1>w, <2>1
  <2>. QED  BY <2>1, <2>2, Writers DEF WritersStep
<1>6. ASSUME NEW h \in Handles, Delete(h) PROVE WritersStep
  BY <1>6 DEF Delete, WritersStep
<1>7. ASSUME NEW r \in Readers, NEW h, NEW n, Open(r, h) \/ Read(r, n) \/ Seek(r, n) PROVE WritersStep
  BY <1>7 DEF Open, Read, Seek, WritersStep
<1>. QED  BY <1>1, <1>2, <1>3, <1>4, <1>5, <1>6, <1>7 DEF Next

\* What a step does to the blobs: nothing, or one is published or deleted.
ChainsStep ==
    \/ chains' = chains
    \/ \E h \in Handles :
        /\ writer[h].state = "open"
        /\ DOMAIN chains' = DOMAIN chains \cup {h}
        /\ \A o \in DOMAIN chains \ {h} : chains'[o] = chains[o]
    \/ DOMAIN chains' \subseteq DOMAIN chains /\ \A o \in DOMAIN chains' : chains'[o] = chains[o]

\* No step does anything else to the blobs.
LEMMA ChainsAre == [Next]_vars => ChainsStep
<1> SUFFICES ASSUME [Next]_vars PROVE ChainsStep
  OBVIOUS
<1>1. CASE InitFile \/ Create \/ CloseStore \/ UNCHANGED vars
  BY <1>1 DEF InitFile, Create, CloseStore, vars, ChainsStep
<1>2. ASSUME NEW h, NEW n, Write(h, n) \/ WriteChunk(h, n) PROVE ChainsStep
  BY <1>2 DEF Write, WriteChunk, ChainsStep
<1>3. ASSUME NEW h \in Handles, CloseWriter(h) PROVE ChainsStep
  <2>1. writer[h].state = "open"
    BY <1>3 DEF CloseWriter
  <2>2. CASE UNCHANGED chains
    BY <2>2 DEF ChainsStep
  <2>3. CASE chains' = [k \in DOMAIN chains \cup {h} |-> IF k = h THEN Commit(writer[h]) ELSE chains[k]]
    <3>1. DOMAIN chains' = DOMAIN chains \cup {h} /\ \A o \in DOMAIN chains \ {h} : chains'[o] = chains[o]
      BY <2>3
    <3>. QED  BY <2>1, <3>1 DEF ChainsStep
  <2>. QED  BY <1>3, <2>2, <2>3 DEF CloseWriter
<1>4. ASSUME NEW h \in Handles, Delete(h) PROVE ChainsStep
  <2>1. chains' = [k \in DOMAIN chains \ {h} |-> chains[k]]
    BY <1>4 DEF Delete
  <2>2. DOMAIN chains' \subseteq DOMAIN chains /\ \A o \in DOMAIN chains' : chains'[o] = chains[o]
    BY <2>1
  <2>. QED  BY <2>2 DEF ChainsStep
<1>5. ASSUME NEW r \in Readers, NEW h, NEW n, Open(r, h) \/ Read(r, n) \/ Seek(r, n) PROVE ChainsStep
  BY <1>5 DEF Open, Read, Seek, ChainsStep
<1>. QED  BY <1>1, <1>2, <1>3, <1>4, <1>5 DEF Next

\* Only an open blob has failed.
LEMMA NextFail == FailInv /\ WritersStep => FailInv'
BY DEF FailInv, WritersStep

\* The fields of a reader.
LEMMA ReaderFields ==
    ASSUME ReadersInv, NEW r \in Readers, NEW p, reader' = [reader EXCEPT ![r].pos = p]
    PROVE  /\ reader'[r].pos = p /\ reader'[r].h = reader[r].h /\ reader'[r].size = reader[r].size
           /\ \A q \in Readers \ {r} : reader'[q] = reader[q]
<1>1. PICK h \in Handles \cup {NoHandle} : \E k, s : reader[r] = [h |-> h, pos |-> k, size |-> s]
  BY DEF ReadersInv, ReaderOK
<1>2. PICK k, s : reader[r] = [h |-> h, pos |-> k, size |-> s]
  BY <1>1
<1>3. PICK t : t = [reader[r] EXCEPT !.pos = p]
  OBVIOUS
<1>4. t = [h |-> h, pos |-> p, size |-> s]
  BY <1>2, <1>3
<1>5. reader'[r] = t /\ \A q \in Readers \ {r} : reader'[q] = reader[q]
  BY <1>3 DEF ReadersInv
<1>. QED  BY <1>2, <1>4, <1>5

\* What a read returns, and of what.
Answered(r, bytes, n, e) ==
    LET h == reader[r].h
        pos == reader[r].pos
        size == reader[r].size
    IN  \/ pos >= size /\ bytes = <<>> /\ n = 0 /\ e = "eof"
        \/ pos < size /\ err # "none" /\ bytes = <<>> /\ n = 0 /\ e = "closed"
        \/ pos < size /\ err = "none" /\ h \notin DOMAIN chains /\ bytes = <<>> /\ n = 0 /\ e = "deleted"
        \/ /\ pos < size /\ err = "none" /\ h \in DOMAIN chains
           /\ n \in 0..(size - pos) /\ e \in {"none", "io"} /\ (n = 0 => e = "io")
           /\ bytes = SubSeq(Stored(chains[h]), pos + 1, pos + n)

\* What a read does with an extent that it starts in.
ReadsFrom(r, len, e, skip) ==
    LET chunk == IF len <= e.length - skip THEN len ELSE e.length - skip
    IN  \E n \in 0..chunk :
            LET bytes == [i \in 1..n |-> file[e.offset + skip + i]]
            IN  /\ out' = Result(r, bytes, IF n < chunk THEN "io" ELSE "none")
                /\ reader' = [reader EXCEPT ![r].pos = @ + Len(bytes)]

\* A read starts in the extent that holds its position.
LEMMA ReadUnfolds ==
    ASSUME NEW r \in Readers, NEW len, Read(r, len),
           ~(reader[r].pos >= reader[r].size), err = "none", reader[r].h \in DOMAIN chains,
           ~(reader[r].pos >= Size(chains[reader[r].h]))
    PROVE  ReadsFrom(r, len, chains[reader[r].h][Holding(chains[reader[r].h], reader[r].pos)],
                     reader[r].pos - Upto(chains[reader[r].h])[Holding(chains[reader[r].h], reader[r].pos) - 1])
BY SMTT(60) DEF Read, ReadsFrom

\* A read returns the bytes of its blob at its position, or says why not.
LEMMA ReadIs ==
    ASSUME BlobInv, ViewInv, NEW r \in Readers, NEW len \in Nat \ {0}, Read(r, len)
    PROVE  \E bytes, e : \E n \in Nat :
            /\ Answered(r, bytes, n, e)
            /\ out' = Result(r, bytes, e) /\ reader' = [reader EXCEPT ![r].pos = @ + n]
<1>1. PICK h, pos, size : h = reader[r].h /\ pos = reader[r].pos /\ size = reader[r].size
  OBVIOUS
<1>2. pos \in Nat /\ size \in Nat /\ (h \in DOMAIN chains => size = Size(chains[h]))
  BY <1>1 DEF ViewInv
<1>3. ASSUME NEW e, out' = Result(r, <<>>, e), reader' = [reader EXCEPT ![r].pos = @ + Len(<<>>)],
             Answered(r, <<>>, 0, e)
      PROVE  \E bytes, x : \E n \in Nat :
                /\ Answered(r, bytes, n, x)
                /\ out' = Result(r, bytes, x) /\ reader' = [reader EXCEPT ![r].pos = @ + n]
  <2>1. Len(<<>>) = 0
    OBVIOUS
  <2>. QED  BY <1>3, <2>1
<1>4. CASE pos >= size
  <2>1. out' = Result(r, <<>>, "eof") /\ reader' = [reader EXCEPT ![r].pos = @ + Len(<<>>)]
    BY <1>1, <1>4 DEF Read
  <2>. QED  BY <1>1, <1>3, <1>4, <2>1 DEF Answered
<1>5. CASE pos < size /\ err # "none"
  <2>1. out' = Result(r, <<>>, "closed") /\ reader' = [reader EXCEPT ![r].pos = @ + Len(<<>>)]
    BY <1>1, <1>2, <1>5 DEF Read
  <2>. QED  BY <1>1, <1>3, <1>5, <2>1 DEF Answered
<1>6. CASE pos < size /\ err = "none" /\ h \notin DOMAIN chains
  <2>1. out' = Result(r, <<>>, "deleted") /\ reader' = [reader EXCEPT ![r].pos = @ + Len(<<>>)]
    BY <1>1, <1>2, <1>6 DEF Read
  <2>. QED  BY <1>1, <1>3, <1>6, <2>1 DEF Answered
<1>7. CASE pos < size /\ err = "none" /\ h \in DOMAIN chains
  <2>1. PICK s : s = chains[h] /\ s \in Seq(Extents)
    BY <1>7, FilledAre DEF BlobInv, TypesInv
  <2>2. size = Size(s) /\ ~(pos >= size) /\ ~(pos >= Size(s))
    BY <1>2, <1>7, <2>1
  <2>3. PICK k \in 1..Len(s) : k = Holding(s, pos) /\ Upto(s)[k - 1] <= pos /\ pos < Upto(s)[k]
    BY <1>2, <1>7, <2>1, <2>2, HoldingIs
  <2>4. PICK m \in Nat : m = Len(s) /\ k \in 1..m /\ k - 1 \in 0..m /\ k \in 0..m
    BY <2>1
  <2>5. PICK u : u = Upto(s) /\ IsUpto(s, u)
    BY <2>1, UptoIs
  <2>6. PICK o, l \in Nat : o = s[k].offset /\ l = s[k].length
    <3>1. PICK e \in Extents : e = s[k]
      BY <2>1, <2>4
    <3>2. e.offset \in Nat /\ e.length \in Nat
      BY <3>1 DEF Extents
    <3>. QED  BY <3>1, <3>2
  <2>7. u[k] = u[k - 1] + l /\ u[k - 1] \in Nat /\ u[k] \in Nat
    BY <2>4, <2>5, <2>6 DEF IsUpto
  <2>8. u[k] <= Size(s)
    <3>0. \A i \in 1..m : s[i] \in Extents
      BY <2>1, <2>4
    <3>1. \A i \in 1..m : s[i].length \in Nat
      BY <3>0 DEF Extents
    <3>. QED  BY <2>4, <2>5, <3>1, UptoGrows DEF Size
  <2>9. PICK skip \in Nat : skip = pos - u[k - 1] /\ skip < l /\ pos + (l - skip) <= size
    <3>1. u[k - 1] <= pos /\ pos < u[k]
      BY <2>3, <2>5
    <3>2. pos - u[k - 1] \in Nat /\ pos - u[k - 1] < l
      BY <1>2, <2>6, <2>7, <3>1
    <3>3. pos + (l - (pos - u[k - 1])) = u[k]
      BY <1>2, <2>6, <2>7
    <3>. QED  BY <2>2, <2>8, <3>2, <3>3
  <2>n. pos \in Nat /\ size \in Nat /\ o \in Nat /\ l \in Nat /\ skip \in Nat /\ skip < l /\ pos + (l - skip) <= size
    BY <1>2, <2>6, <2>9
  <2>10. PICK chunk : chunk = IF len <= l - skip THEN len ELSE l - skip
    OBVIOUS
  <2>11. chunk \in Nat \ {0} /\ skip + chunk <= l /\ pos + chunk <= size
    <3>0. len \in Nat \ {0}
      OBVIOUS
    <3>1. CASE len <= l - skip
      <4>1. chunk = len
        BY <2>10, <3>1
      <4>. QED  BY <2>n, <3>0, <3>1, <4>1
    <3>2. CASE ~(len <= l - skip)
      <4>1. chunk = l - skip
        BY <2>10, <3>2
      <4>. QED  BY <2>n, <4>1
    <3>. QED  BY <3>1, <3>2
  <2>12. PICK n \in 0..chunk : \E bytes, e :
            /\ bytes = [i \in 1..n |-> file[o + skip + i]] /\ e = (IF n < chunk THEN "io" ELSE "none")
            /\ out' = Result(r, bytes, e) /\ reader' = [reader EXCEPT ![r].pos = @ + Len(bytes)]
    <3>1. ~(reader[r].pos >= reader[r].size) /\ err = "none" /\ reader[r].h \in DOMAIN chains
          /\ ~(reader[r].pos >= Size(chains[reader[r].h]))
      BY <1>1, <1>7, <2>1, <2>2
    <3>2. \E n \in 0..chunk :
            /\ out' = Result(r, [i \in 1..n |-> file[o + skip + i]], IF n < chunk THEN "io" ELSE "none")
            /\ reader' = [reader EXCEPT ![r].pos = @ + Len([i \in 1..n |-> file[o + skip + i]])]
      <4>1. k = Holding(chains[reader[r].h], reader[r].pos)
        BY <1>1, <2>1, <2>3
      <4>r. ReadsFrom(r, len, chains[reader[r].h][Holding(chains[reader[r].h], reader[r].pos)],
                     reader[r].pos - Upto(chains[reader[r].h])[Holding(chains[reader[r].h], reader[r].pos) - 1])
        BY <3>1, ReadUnfolds
      <4>2. ReadsFrom(r, len, chains[reader[r].h][k], reader[r].pos - Upto(chains[reader[r].h])[k - 1])
        BY <4>1, <4>r, Zenon
      <4>3. ReadsFrom(r, len, s[k], skip)
        BY <1>1, <2>1, <2>5, <2>9, <4>2, Zenon
      <4>4. chunk = IF len <= s[k].length - skip THEN len ELSE s[k].length - skip
        BY <2>6, <2>10
      <4>5. \E n \in 0..chunk :
                /\ out' = Result(r, [i \in 1..n |-> file[s[k].offset + skip + i]], IF n < chunk THEN "io" ELSE "none")
                /\ reader' = [reader EXCEPT ![r].pos = @ + Len([i \in 1..n |-> file[s[k].offset + skip + i]])]
        BY <4>3, <4>4 DEF ReadsFrom
      <4>. QED  BY <2>6, <4>5, Zenon
    <3>. QED  BY <3>2
  <2>13. PICK bytes, e :
            /\ bytes = [i \in 1..n |-> file[o + skip + i]] /\ e = (IF n < chunk THEN "io" ELSE "none")
            /\ out' = Result(r, bytes, e) /\ reader' = [reader EXCEPT ![r].pos = @ + Len(bytes)]
    BY <2>12
  <2>14. n \in Nat /\ n <= chunk /\ Len(bytes) = n
    BY <2>11, <2>12, <2>13
  <2>15. PICK t : t = Stored(s)
    OBVIOUS
  <2>16. /\ t \in Seq(Values(file)) /\ Len(t) = size
         /\ \A j \in 1..l : t[u[k - 1] + j] = file[o + j]
    <3>1. t = StoredOf(file, s)
      BY <2>15 DEF Stored, Bytes, StoredOf, BytesOf
    <3>2. Located(file, s)
      BY <2>1, StoredLocated
    <3>. QED  BY <2>2, <2>5, <2>6, <3>1, <3>2 DEF Located
  <2>17. bytes = SubSeq(t, pos + 1, pos + n)
    <3>1. PICK sub : sub = SubSeq(t, pos + 1, pos + n)
      OBVIOUS
    <3>2. \A i \in (pos + 1)..(pos + n) : t[i] \in Values(file)
      <4>1. \A i \in (pos + 1)..(pos + n) : i \in 1..size
        BY <1>2, <2>11, <2>14
      <4>. QED  BY <2>16, <4>1
    <3>3. pos + 1 \in Int /\ pos + n \in Int
      BY <1>2, <2>14
    <3>4. /\ sub \in Seq(Values(file))
          /\ Len(sub) = (IF pos + 1 <= pos + n THEN (pos + n) - (pos + 1) + 1 ELSE 0)
          /\ \A i \in 1..((pos + n) - (pos + 1) + 1) : sub[i] = t[(pos + 1) + i - 1]
      BY <3>1, <3>2, <3>3, SubSeqProperties
    <3>5. Len(sub) = n /\ (pos + n) - (pos + 1) + 1 = n
      BY <1>2, <2>14, <3>4
    <3>6. ASSUME NEW i \in 1..n PROVE sub[i] = bytes[i]
      <4>1. sub[i] = t[(pos + 1) + i - 1]
        BY <3>4, <3>5
      <4>2. (pos + 1) + i - 1 = u[k - 1] + (skip + i) /\ skip + i \in 1..l /\ o + (skip + i) = o + skip + i
        <5>1. PICK x \in Nat : x = u[k - 1] /\ skip = pos - x
          BY <2>7, <2>9
        <5>3. i \in Nat /\ 1 <= i /\ i <= chunk
          BY <2>11, <2>14
        <5>2. (pos + 1) + i - 1 = x + (skip + i)
          <6>1. pos = x + skip
            BY <2>n, <5>1
          <6>. QED  BY <2>n, <5>3, <6>1
        <5>5. o + (skip + i) = o + skip + i
          BY <2>n, <5>3
        <5>4. skip + i \in 1..l
          BY <2>n, <2>11, <5>3
        <5>. QED  BY <5>1, <5>2, <5>4, <5>5
      <4>3. t[u[k - 1] + (skip + i)] = file[o + (skip + i)]
        BY <2>16, <4>2
      <4>. QED  BY <2>13, <4>1, <4>2, <4>3
    <3>7. bytes \in Seq(Values(file))
      <4>0. PICK V : V = Values(file)
        OBVIOUS
      <4>1. \A i \in 1..n : file[o + skip + i] \in V
        <5>1. \A i \in 1..n : o + skip + i \in Nat
          BY <2>6, <2>9
        <5>. QED  BY <4>0, <5>1 DEF Values
      <4>2. [i \in 1..n |-> file[o + skip + i]] \in Seq(V)
        BY <2>14, <4>1
      <4>. QED  BY <2>13, <4>0, <4>2
    <3>. QED  BY <2>14, <3>1, <3>4, <3>5, <3>6, <3>7, SeqEqual
  <2>18. n \in 0..(size - pos) /\ e \in {"none", "io"} /\ (n = 0 => e = "io")
    <3>1. n = 0 => n < chunk
      BY <2>11
    <3>. QED  BY <1>2, <2>11, <2>13, <2>14, <3>1
  <2>19. Answered(r, bytes, n, e)
    BY <1>1, <1>7, <2>1, <2>15, <2>17, <2>18 DEF Answered
  <2>. QED  BY <2>13, <2>14, <2>19
<1>8. pos >= size \/ pos < size
  BY <1>2
<1>. QED  BY <1>4, <1>5, <1>6, <1>7, <1>8

\* What a step does to a reader: nothing, moving it, or opening it.
ReaderStep(r) ==
    \/ reader'[r] = reader[r]
    \/ /\ reader'[r].h = reader[r].h /\ reader'[r].size = reader[r].size /\ reader'[r].pos \in Nat
       /\ reader[r].h # NoHandle
       /\ UNCHANGED <<chains, writer, initialized>>
    \/ /\ reader'[r].h \in DOMAIN chains /\ reader'[r].pos = 0
       /\ reader'[r].size = Size(chains[reader'[r].h])
       /\ UNCHANGED <<chains, writer, initialized>>

\* No step does anything else to a reader.
LEMMA ReadersAre ==
    ASSUME BlobInv, ViewInv, [Next]_vars, NEW q \in Readers
    PROVE  ReaderStep(q)
<1>d. DOMAIN reader = Readers
  BY DEF BlobInv, ReadersInv
<1>m. ASSUME NEW r \in Readers, NEW p \in Nat, reader' = [reader EXCEPT ![r].pos = p],
             reader[r].h # NoHandle, UNCHANGED <<chains, writer, initialized>>
      PROVE  ReaderStep(q)
  <2>1. ReadersInv
    BY DEF BlobInv
  <2>2. /\ reader'[r].pos = p /\ reader'[r].h = reader[r].h /\ reader'[r].size = reader[r].size
        /\ \A o \in Readers \ {r} : reader'[o] = reader[o]
    BY <1>m, <2>1, ReaderFields
  <2>. QED  BY <1>m, <2>2 DEF ReaderStep
<1>1. CASE UNCHANGED reader
  BY <1>1 DEF ReaderStep
<1>2. ASSUME NEW r \in Readers, NEW h \in Readable, Open(r, h) PROVE ReaderStep(q)
  <2>1. PICK t : t = [h |-> h, pos |-> 0, size |-> Size(chains[h])]
    OBVIOUS
  <2>2. reader' = [reader EXCEPT ![r] = t] /\ h \in DOMAIN chains /\ UNCHANGED <<chains, writer, initialized>>
    BY <1>2, <2>1 DEF Open
  <2>3. t.h = h /\ t.pos = 0 /\ t.size = Size(chains[h])
    BY <2>1
  <2>4. reader'[r] = t /\ \A o \in Readers \ {r} : reader'[o] = reader[o]
    BY <1>d, <2>2
  <2>. QED  BY <2>2, <2>3, <2>4 DEF ReaderStep
<1>3. ASSUME NEW r \in Readers, NEW len \in 1..MaxSize, Read(r, len) PROVE ReaderStep(q)
  <2>1. len \in Nat \ {0}
    BY CapacityIs
  <2>2. PICK bytes, e : \E n \in Nat : reader' = [reader EXCEPT ![r].pos = @ + n]
    BY <1>3, <2>1, ReadIs
  <2>3. PICK n \in Nat : reader' = [reader EXCEPT ![r].pos = @ + n]
    BY <2>2
  <2>4. PICK p \in Nat : p = reader[r].pos + n
    BY DEF ViewInv
  <2>5. reader' = [reader EXCEPT ![r].pos = p]
    BY <2>3, <2>4
  <2>6. reader[r].h # NoHandle /\ UNCHANGED <<chains, writer, initialized>>
    BY <1>3 DEF Read
  <2>. QED  BY <1>m, <2>5, <2>6
<1>4. ASSUME NEW r \in Readers, NEW p \in 0..MaxSize, Seek(r, p) PROVE ReaderStep(q)
  <2>1. p \in Nat
    BY CapacityIs
  <2>. QED  BY <1>4, <1>m, <2>1 DEF Seek
<1>5. CASE InitFile \/ Create \/ CloseStore \/ UNCHANGED vars
  BY <1>1, <1>5 DEF InitFile, Create, CloseStore, vars
<1>6. ASSUME NEW h, NEW n, Write(h, n) \/ WriteChunk(h, n) \/ CloseWriter(h) \/ Delete(h) PROVE ReaderStep(q)
  BY <1>1, <1>6 DEF Write, WriteChunk, CloseWriter, Delete
<1>. QED  BY <1>2, <1>3, <1>4, <1>5, <1>6 DEF Next

\* What a reader sees of its blob.
LEMMA NextView == BlobInv /\ ViewInv /\ [Next]_vars => ViewInv'
<1> SUFFICES ASSUME BlobInv, ViewInv, [Next]_vars, NEW r \in Readers
             PROVE  /\ reader'[r].pos \in Nat /\ reader'[r].size \in Nat
                    /\ reader'[r].h \in Handles => writer'[reader'[r].h].state = "closed"
                    /\ reader'[r].h \in DOMAIN chains' => reader'[r].size = Size(chains'[reader'[r].h])
  BY DEF ViewInv
<1>1. ReaderStep(r)
  BY ReadersAre
<1>2. WritersStep /\ ChainsStep
  BY WritersAre, ChainsAre
<1>3. /\ reader[r].pos \in Nat /\ reader[r].size \in Nat
      /\ reader[r].h \in Handles => writer[reader[r].h].state = "closed"
      /\ reader[r].h \in DOMAIN chains => reader[r].size = Size(chains[reader[r].h])
  BY DEF ViewInv
<1>4. DOMAIN chains \subseteq Handles /\ \A o \in DOMAIN chains : chains[o] \in Seq(Extents) /\ writer[o].state = "closed"
  BY FilledAre DEF BlobInv, TypesInv
<1>5. CASE reader'[r] = reader[r]
  <2>1. PICK h : h = reader[r].h /\ h = reader'[r].h
    BY <1>5
  <2>2. h \in Handles => writer[h].state = "closed" /\ writer'[h].state = "closed"
    BY <1>2, <1>3, <2>1 DEF WritersStep
  <2>3. h \in DOMAIN chains' => h \in DOMAIN chains /\ chains'[h] = chains[h]
    <3>1. \A o \in Handles : writer[o].state = "open" => h # o
      BY <2>2
    <3>. QED  BY <1>2, <3>1 DEF ChainsStep
  <2>. QED  BY <1>3, <1>5, <2>1, <2>2, <2>3
<1>6. CASE /\ reader'[r].h = reader[r].h /\ reader'[r].size = reader[r].size /\ reader'[r].pos \in Nat
           /\ UNCHANGED <<chains, writer, initialized>>
  BY <1>3, <1>6
<1>7. CASE /\ reader'[r].h \in DOMAIN chains /\ reader'[r].pos = 0
           /\ reader'[r].size = Size(chains[reader'[r].h])
           /\ UNCHANGED <<chains, writer, initialized>>
  BY <1>4, <1>7, SizeIs
<1>. QED  BY <1>1, <1>5, <1>6, <1>7 DEF ReaderStep

\* Before the first Create nothing but the making of the file is possible.
LEMMA NextFresh == BlobInv /\ ViewInv /\ FreshInv /\ [Next]_vars => FreshInv'
<1> SUFFICES ASSUME BlobInv, ViewInv, FreshInv, [Next]_vars, ~initialized' PROVE FreshInv'
  BY DEF FreshInv
<1>1. ~initialized
  <2>1. initialized \in BOOLEAN
    BY DEF BlobInv, TypesInv
  <2>2. CASE InitFile
    BY <2>2 DEF InitFile
  <2>3. CASE Create \/ CloseStore \/ UNCHANGED vars
    BY <2>3 DEF Create, CloseStore, vars
  <2>4. ASSUME NEW h, NEW n, Write(h, n) \/ WriteChunk(h, n) \/ CloseWriter(h) \/ Delete(h) PROVE ~initialized
    BY <2>4 DEF Write, WriteChunk, CloseWriter, Delete
  <2>5. ASSUME NEW r, NEW n, Open(r, n) \/ Read(r, n) \/ Seek(r, n) PROVE ~initialized
    BY <2>5 DEF Open, Read, Seek
  <2>. QED  BY <2>2, <2>3, <2>4, <2>5 DEF Next
<1>2. /\ DOMAIN chains = {} /\ out = Silent
      /\ \A h \in Handles : writer[h].state = "unused"
      /\ \A r \in Readers : reader[r].h = NoHandle
  BY <1>1 DEF FreshInv
<1>3. DOMAIN chains' = {}
  BY <1>2, ChainsAre DEF ChainsStep
<1>4. \A h \in Handles : writer'[h].state = "unused"
  BY <1>1, <1>2, WritersAre DEF WritersStep
<1>5. \A r \in Readers : reader'[r].h = NoHandle
  BY <1>2, ReadersAre DEF ReaderStep
<1>6. out' = Silent
  <2>1. CASE InitFile \/ Create \/ CloseStore
    BY <2>1 DEF InitFile, Create, CloseStore
  <2>2. CASE UNCHANGED vars
    BY <1>2, <2>2 DEF vars
  <2>3. ASSUME NEW h, NEW n, Write(h, n) \/ WriteChunk(h, n) \/ CloseWriter(h) \/ Delete(h) PROVE out' = Silent
    BY <2>3 DEF Write, WriteChunk, CloseWriter, Delete
  <2>4. ASSUME NEW r, NEW n, Open(r, n) \/ Seek(r, n) PROVE out' = Silent
    BY <2>4 DEF Open, Seek
  <2>5. ASSUME NEW r \in Readers, NEW n, Read(r, n) PROVE FALSE
    BY <1>2, <2>5 DEF Read
  <2>. QED  BY <2>1, <2>2, <2>3, <2>4, <2>5 DEF Next
<1>. QED  BY <1>3, <1>4, <1>5, <1>6 DEF FreshInv

\* The inductive invariant holds in an empty store.
LEMMA InitStore == Init => StoreInv
<1> SUFFICES ASSUME Init PROVE StoreInv
  OBVIOUS
<1>1. BlobInv
  BY InitBlob
<1>2. Unborn.left = 0 /\ Unborn.state = "unused" /\ ~Unborn.err
  BY DEF Unborn
<1>3. \A h \in Handles : writer[h] = Unborn
  BY DEF Init
<1>4. fileEnd = 0 /\ Capacity \in Nat
  BY CapacityIs DEF Init
<1>5. MutexInv /\ FailInv
  BY <1>2, <1>3, <1>4 DEF MutexInv, FailInv
<1>6. NoReader.h = NoHandle /\ NoReader.pos = 0 /\ NoReader.size = 0
  BY DEF NoReader
<1>7. DOMAIN chains = {} /\ out = Silent /\ \A r \in Readers : reader[r] = NoReader
  BY DEF Init
<1>8. ViewInv
  BY <1>6, <1>7, HandlesAre DEF ViewInv
<1>9. FreshInv
  BY <1>2, <1>3, <1>6, <1>7 DEF FreshInv
<1>. QED  BY <1>1, <1>5, <1>8, <1>9 DEF StoreInv

\* Every step keeps it.
LEMMA NextStore == StoreInv /\ [Next]_vars => StoreInv'
BY NextBlob, NextMutex, NextFail, WritersAre, NextView, NextFresh DEF StoreInv

-----------------------------------------------------------------------------
(***************************************************************************)
(* The content of the blobs.                                               *)
(***************************************************************************)

\* The extents that have the content of a blob.
ChainOf(o) ==
    IF o \in DOMAIN chains THEN chains[o]
    ELSE IF writer[o].state = "open" THEN Filling(writer[o])
    ELSE <<>>

\* The content of a blob is what is stored in them.
LEMMA ContentIs == \A o : Content(o) = IF err # "none" THEN <<>> ELSE StoredOf(file, ChainOf(o))
<1>1. \A s : Stored(s) = StoredOf(file, s)
  BY DEF Stored, Bytes, StoredOf, BytesOf
<1>2. StoredOf(file, <<>>) = <<>>
  BY StoredNothing
<1>. QED  BY <1>1, <1>2 DEF Content, ChainOf, Filling

\* And so it is after a step.
LEMMA NextContentIs ==
    \A o : Content(o)' = IF err' # "none" THEN <<>> ELSE StoredOf(file', ChainOf(o)')
<1>1. \A s : Stored(s)' = StoredOf(file', s)
  BY DEF Stored, Bytes, StoredOf, BytesOf
<1>2. StoredOf(file', <<>>) = <<>>
  BY StoredNothing
<1>. QED  BY <1>1, <1>2 DEF Content, ChainOf, Filling

\* The extents of a blob are its own.
LEMMA ChainOwned ==
    ASSUME BlobInv, NEW o \in Handles
    PROVE  ChainOf(o) \in Seq(Extents) /\ \A b \in Nat : In(ChainOf(o), b) => In(Owned(o), b)
<1>1. o # NoHandle
  BY HandlesAre
<1>2. CASE o \in DOMAIN chains
  <2>1. ChainOf(o) = chains[o] /\ Owned(o) = chains[o] /\ chains[o] \in Seq(Extents)
    BY <1>1, <1>2, FilledAre DEF ChainOf, Owned, BlobInv, TypesInv
  <2>. QED  BY <2>1
<1>3. CASE o \notin DOMAIN chains /\ writer[o].state = "open"
  <2>1. PICK w : w = writer[o] /\ WriterOK(w)
    BY DEF BlobInv, TypesInv
  <2>2. ChainOf(o) = Filling(w) /\ Owned(o) = Append(w.chain, w.cur)
    BY <1>1, <1>3, <2>1 DEF ChainOf, Owned
  <2>. QED  BY <2>1, <2>2, FillingIs, FillingIn
<1>4. CASE o \notin DOMAIN chains /\ writer[o].state # "open"
  <2>1. ChainOf(o) = <<>>
    BY <1>4 DEF ChainOf
  <2>. QED  BY <2>1, NoExtent
<1>. QED  BY <1>2, <1>3, <1>4

\* A byte of a blob is a byte of the file, and of no other extent.
LEMMA Apart ==
    ASSUME NEW own, NEW end, Tiles(own, end), NEW o \in Handles, NEW b \in Nat, In(own[o], b)
    PROVE  /\ 0 < b /\ b <= end /\ Once(own[o], b)
           /\ \A p \in Handles : In(own[p], b) => p = o
<1>1. o \in Owners /\ \A p \in Handles : p \in Owners
  BY DEF Owners
<1>2. own[o] \in Seq(Extents)
  BY <1>1 DEF Tiles
<1>3. 0 < b
  <2>1. PICK k \in DOMAIN own[o] : Covers(own[o][k], b)
    BY DEF In
  <2>2. PICK e \in Extents : e = own[o][k]
    BY <1>2, <2>1
  <2>. QED  BY <2>1, <2>2 DEF Covers, Extents
<1>4. Once(own[o], b) /\ b <= end
  BY <1>1 DEF Tiles
<1>5. \A p \in Handles : In(own[p], b) => p = o
  BY <1>1 DEF Tiles
<1>. QED  BY <1>3, <1>4, <1>5

\* What the bytes of a chunk may overwrite.
LEMMA ChunkApart ==
    ASSUME BlobInv, MutexInv, BlobInv', NEW h \in Handles, NEW n \in Nat,
           NEW v, NEW f, NEW new, NEW end, Chunk(h, n, v, f, new, end),
           writer' = [writer EXCEPT ![h] = new], fileEnd' = end, free' = f, UNCHANGED <<err, chains>>,
           NEW m, file' = Patched(file, h, n, v.cur.offset + v.curLen, m)
    PROVE  /\ v.curLen + n > 0 => v.cur.offset + (v.curLen + n) <= Capacity
           /\ \A b \in Nat : In(v.chain, b) => file[b] = file'[b]
           /\ \A o \in Handles \ {h} : Owned(o)' = Owned(o) /\ ChainOf(o)' = ChainOf(o)
           /\ \A o \in Handles \ {h} : \A b \in Nat : In(Owned(o), b) => file[b] = file'[b]
<1>0. Capacity \in Nat
  BY CapacityIs
<1>1. err = "none" /\ end <= Capacity /\ h \notin DOMAIN chains /\ end \in Nat
  BY ChunkRoom, OpenWriter DEF Chunk
<1>2. writer'[h] = new /\ \A o \in Handles \ {h} : writer'[o] = writer[o]
  BY DEF BlobInv, TypesInv
<1>3. PICK o, k \in Nat : o = v.cur.offset /\ k = v.curLen
  BY WriterFields DEF Chunk
<1>4. PICK c, e : c = new.chain /\ e = new.cur
  OBVIOUS
<1>5. c \in Seq(Extents) /\ e \in Extents /\ e.length \in Nat /\ c = v.chain /\ e.offset = o /\ k + n <= e.length
  BY <1>3, <1>4, WriterFields DEF Chunk
<1>l. PICK l \in Nat : l = e.length /\ k + n <= l /\ e.offset = o
  BY <1>5
<1>6. PICK own : own = Owning'
  OBVIOUS
<1>7. \A p \in Handles : own[p] = Owned(p)'
  BY <1>6 DEF Owning, Owners
<1>8. Tiles(own, end)
  BY <1>1, <1>6 DEF BlobInv, TilesInv
<1>9. own[h] = Append(c, e)
  <2>1. new.state = "open" /\ h # NoHandle
    BY HandlesAre DEF Chunk
  <2>. QED  BY <1>1, <1>2, <1>4, <1>7, <2>1 DEF Owned
<1>10. \A p \in Handles \ {h} : Owned(p)' = Owned(p) /\ ChainOf(p)' = ChainOf(p)
  <2>1. \A p \in Handles : p # NoHandle
    BY HandlesAre
  <2>. QED  BY <1>2, <2>1 DEF Owned, ChainOf, Filling
<1>11. ASSUME NEW b \in Nat, b \in (o + k + 1)..(o + k + n)
       PROVE  In(own[h], b) /\ Covers(e, b)
  <2>1. o < b /\ b <= o + l
    BY <1>3, <1>l, <1>11
  <2>2. Covers(e, b)
    BY <1>l, <2>1 DEF Covers
  <2>. QED  BY <1>5, <1>9, <2>2, Appended
<1>12. ASSUME NEW b \in Nat, b \in 1..Capacity, ~(b \in (o + k + 1)..(o + k + n))
       PROVE  file[b] = file'[b]
  BY <1>3, <1>12 DEF Patched
<1>13. k + n > 0 => o + (k + n) <= Capacity
  <2> SUFFICES ASSUME k + n > 0 PROVE o + (k + n) <= Capacity
    OBVIOUS
  <2>1. PICK b \in Nat : b = o + (k + n)
    BY <1>3
  <2>r. o < b /\ b <= o + l
    BY <1>3, <1>l, <2>1
  <2>2. Covers(e, b)
    BY <1>l, <2>r DEF Covers
  <2>3. In(own[h], b)
    BY <1>5, <1>9, <2>2, Appended
  <2>4. b <= end
    BY <1>8, <2>3, Apart
  <2>. QED  BY <1>0, <1>1, <2>1, <2>4
<1>14. ASSUME NEW b \in Nat, In(c, b) PROVE file[b] = file'[b]
  <2>1. In(own[h], b)
    BY <1>5, <1>9, <1>14, Appended
  <2>2. 0 < b /\ b <= end /\ Once(own[h], b)
    BY <1>8, <2>1, Apart
  <2>3. ~Covers(e, b)
    BY <1>5, <1>9, <1>14, <2>2, Appended
  <2>4. b \in 1..Capacity
    BY <1>0, <1>1, <2>2
  <2>. QED  BY <1>11, <1>12, <2>3, <2>4
<1>15. ASSUME NEW p \in Handles \ {h}, NEW b \in Nat, In(Owned(p), b) PROVE file[b] = file'[b]
  <2>1. In(own[p], b)
    BY <1>7, <1>10, <1>15
  <2>2. 0 < b /\ b <= end /\ \A q \in Handles : In(own[q], b) => q = p
    BY <1>8, <2>1, Apart
  <2>3. ~In(own[h], b)
    BY <2>2
  <2>4. b \in 1..Capacity
    BY <1>0, <1>1, <2>2
  <2>. QED  BY <1>11, <1>12, <2>3, <2>4
<1>. QED  BY <1>3, <1>5, <1>10, <1>13, <1>14, <1>15

JoinOf(x, a, b, X) ==
    /\ x \in Seq(X) /\ Len(x) = Len(a) + Len(b)
    /\ \A i \in 1..Len(a) : x[i] = a[i]
    /\ \A j \in 1..Len(b) : x[Len(a) + j] = b[j]

\* What is joined has the members of both.
LEMMA JoinIs ==
    ASSUME NEW X, NEW a \in Seq(X), NEW b \in Seq(X)
    PROVE  JoinOf(a \o b, a, b, X)
BY Joined DEF JoinOf

\* It does not matter which of three sequences are joined first.
LEMMA Associates ==
    ASSUME NEW X, NEW a \in Seq(X), NEW b \in Seq(X), NEW c \in Seq(X)
    PROVE  a \o (b \o c) = (a \o b) \o c
<1>1. PICK d, e : d = b \o c /\ e = a \o b
  OBVIOUS
<1>2. PICK i, j, k \in Nat : i = Len(a) /\ j = Len(b) /\ k = Len(c)
  OBVIOUS
<1>3. /\ d \in Seq(X) /\ Len(d) = j + k
      /\ \A x \in 1..j : d[x] = b[x]
      /\ \A x \in 1..k : d[j + x] = c[x]
  BY <1>1, <1>2, Joined
<1>4. /\ e \in Seq(X) /\ Len(e) = i + j
      /\ \A x \in 1..i : e[x] = a[x]
      /\ \A x \in 1..j : e[i + x] = b[x]
  BY <1>1, <1>2, Joined
<1>5. PICK l, r : l = a \o d /\ r = e \o c
  OBVIOUS
<1>6. /\ l \in Seq(X) /\ Len(l) = i + (j + k)
      /\ \A x \in 1..i : l[x] = a[x]
      /\ \A x \in 1..(j + k) : l[i + x] = d[x]
  <2>1. d \in Seq(X) /\ Len(d) = j + k
    BY <1>3
  <2>2. JoinOf(a \o d, a, d, X)
    BY <2>1, JoinIs
  <2>3. JoinOf(l, a, d, X)
    BY <1>5, <2>2
  <2>. QED  BY <1>2, <2>1, <2>3 DEF JoinOf
<1>7. /\ r \in Seq(X) /\ Len(r) = (i + j) + k
      /\ \A x \in 1..(i + j) : r[x] = e[x]
      /\ \A x \in 1..k : r[(i + j) + x] = c[x]
  <2>1. e \in Seq(X) /\ Len(e) = i + j
    BY <1>4
  <2>2. JoinOf(e \o c, e, c, X)
    BY <2>1, JoinIs
  <2>3. JoinOf(r, e, c, X)
    BY <1>5, <2>2
  <2>. QED  BY <1>2, <2>1, <2>3 DEF JoinOf
<1>8. ASSUME NEW x \in 1..(i + (j + k)) PROVE l[x] = r[x]
  <2>1. CASE x <= i
    <3>1. x \in 1..i /\ x \in 1..(i + j)
      BY <1>2, <2>1
    <3>. QED  BY <1>4, <1>6, <1>7, <3>1
  <2>2. CASE i < x /\ x <= i + j
    <3>1. PICK y : y = x - i
      OBVIOUS
    <3>2. y \in 1..j /\ y \in 1..(j + k) /\ x = i + y /\ x \in 1..(i + j)
      BY <1>2, <2>2, <3>1
    <3>. QED  BY <1>3, <1>4, <1>6, <1>7, <3>2
  <2>3. CASE i + j < x
    <3>n. PICK z \in Nat : z = i + j
      BY <1>2
    <3>x. x \in Nat /\ z < x
      BY <1>2, <2>3, <3>n
    <3>1. PICK y \in Nat \ {0} : y = x - z /\ z = i + j
      BY <3>n, <3>x
    <3>3. x = i + (j + y) /\ x = (i + j) + y
      BY <1>2, <3>x, <3>1
    <3>4. y \in 1..k
      BY <1>2, <3>3
    <3>5. j + y \in 1..(j + k)
      BY <1>2, <3>4
    <3>2. y \in 1..k /\ j + y \in 1..(j + k) /\ x = i + (j + y) /\ x = (i + j) + y
      BY <3>3, <3>4, <3>5
    <3>6. l[i + (j + y)] = d[j + y]
      BY <1>6, <3>2
    <3>7. d[j + y] = c[y]
      BY <1>3, <3>2
    <3>8. r[(i + j) + y] = c[y]
      BY <1>7, <3>2
    <3>. QED  BY <3>3, <3>6, <3>7, <3>8
  <2>. QED  BY <1>2, <2>1, <2>2, <2>3
<1>9. Len(l) = Len(r)
  BY <1>2, <1>6, <1>7
<1>. QED  BY <1>1, <1>5, <1>6, <1>7, <1>8, <1>9, SeqEqual

\* A chunk goes to the end of its blob, and leaves the others as they are.
LEMMA ChunkStored ==
    ASSUME BlobInv, MutexInv, BlobInv', NEW h \in Handles, NEW n \in Nat,
           NEW v, NEW f, NEW new, NEW end, Chunk(h, n, v, f, new, end),
           writer' = [writer EXCEPT ![h] = new], fileEnd' = end, free' = f, UNCHANGED <<err, chains>>,
           file' = Patched(file, h, n, v.cur.offset + v.curLen, Written(writer[h]))
    PROVE  /\ Content(h)' = Content(h) \o [i \in 1..n |-> Byte(h, Len(Content(h)) + i)]
           /\ \A o \in Handles \ {h} : Content(o)' = Content(o)
<1>1. /\ v.curLen + n > 0 => v.cur.offset + (v.curLen + n) <= Capacity
      /\ \A b \in Nat : In(v.chain, b) => file[b] = file'[b]
      /\ \A o \in Handles \ {h} : Owned(o)' = Owned(o) /\ ChainOf(o)' = ChainOf(o)
      /\ \A o \in Handles \ {h} : \A b \in Nat : In(Owned(o), b) => file[b] = file'[b]
  BY ChunkApart
<1>2. err = "none" /\ err' = "none" /\ h \notin DOMAIN chains /\ h \notin DOMAIN chains'
  BY ChunkRoom, OpenWriter DEF Chunk
<1>3. PICK F, G : F = file /\ G = file'
  OBVIOUS
<1>4. ASSUME NEW o \in Handles \ {h} PROVE Content(o)' = Content(o)
  <2>1. PICK s : s = ChainOf(o) /\ s \in Seq(Extents) /\ \A b \in Nat : In(s, b) => In(Owned(o), b)
    BY ChainOwned
  <2>2. \A b \in Nat : In(s, b) => F[b] = G[b]
    BY <1>1, <1>3, <2>1
  <2>3. StoredOf(F, s) = StoredOf(G, s)
    BY <2>1, <2>2, StoredStays
  <2>4. ChainOf(o)' = s
    BY <1>1, <2>1
  <2>. QED  BY <1>2, <1>3, <2>1, <2>3, <2>4, ContentIs, NextContentIs
<1>5. PICK w : w = writer[h]
  OBVIOUS
<1>6. WriterOK(w) /\ WriterOK(v) /\ WriterOK(new) /\ w.state = "open" /\ new.state = "open"
      /\ new.chain = v.chain /\ new.cur.offset = v.cur.offset /\ new.curLen = v.curLen + n
      /\ IF Full(w) THEN v = Advance(w).w ELSE v = w
  BY <1>5 DEF Chunk
<1>7. PICK c, o, k : c = v.chain /\ o = v.cur.offset /\ k = v.curLen
  OBVIOUS
<1>8. c \in Seq(Extents) /\ o \in Nat /\ k \in Nat
  BY <1>6, <1>7, WriterFields
<1>9. Filling(v) = Append(c, Extent(o, k)) /\ Filling(new) = Append(c, Extent(o, k + n))
  BY <1>6, <1>7 DEF Filling
<1>10. StoredOf(F, Filling(w)) = StoredOf(F, Filling(v))
  <2>1. free \in Seq(Filled) /\ fileEnd \in Nat
    BY DEF BlobInv, TypesInv
  <2>. QED  BY <1>6, <2>1, AdvanceWrites
<1>11. PICK m \in Nat : m = Written(w) /\ Len(StoredOf(F, Filling(w))) = m
  <2>1. Filling(w) \in Seq(Extents) /\ Size(Filling(w)) = Written(w)
    BY <1>6, FillingIs
  <2>2. Size(Filling(w)) \in Nat
    BY <2>1, SizeIs
  <2>3. Len(StoredOf(F, Filling(w))) = Size(Filling(w))
    BY <2>1, StoredLocated DEF Located
  <2>. QED  BY <2>1, <2>2, <2>3
<1>12. PICK x, y, z : x = StoredOf(F, c) /\ y = BytesOf(F, Extent(o, k)) /\ z = [i \in 1..n |-> Byte(h, m + i)]
  OBVIOUS
<1>13. StoredOf(F, Filling(v)) = x \o y
  BY <1>8, <1>9, <1>12, ExtentFields, StoredAppend
<1>14. StoredOf(G, Filling(new)) = x \o (y \o z)
  <2>1. k + n \in Nat
    BY <1>8
  <2>2. StoredOf(G, Filling(new)) = StoredOf(G, c) \o BytesOf(G, Extent(o, k + n))
    BY <1>8, <1>9, <2>1, ExtentFields, StoredAppend
  <2>3. StoredOf(G, c) = x
    <3>1. \A b \in Nat : In(c, b) => F[b] = G[b]
      BY <1>1, <1>3, <1>7
    <3>. QED  BY <1>8, <1>12, <3>1, StoredStays
  <2>4. G = Patched(F, h, n, o + k, m) /\ (k + n > 0 => o + (k + n) <= Capacity)
    BY <1>1, <1>3, <1>5, <1>7, <1>11
  <2>5. BytesOf(G, Extent(o, k + n)) = y \o z
    <3>1. o \in Nat /\ k \in Nat /\ m \in Nat /\ n \in Nat
      BY <1>8, <1>11
    <3>p. IsPatched(G, F, h, n, o, k, m)
      BY <2>4 DEF IsPatched
    <3>e. Extends(G, F, h, n, o, k, m)
      BY <3>1, <3>p, ChunkBytes
    <3>2. BytesOf(G, Extent(o, k + n)) = BytesOf(F, Extent(o, k)) \o [i \in 1..n |-> Byte(h, m + i)]
      BY <3>e, Zenon DEF Extends
    <3>. QED  BY <1>12, <3>2
  <2>. QED  BY <2>2, <2>3, <2>5
<1>15. x \o (y \o z) = (x \o y) \o z
  <2>1. PICK V : V = Values(F) \cup {Byte(h, m + i) : i \in 1..n}
    OBVIOUS
  <2>2. x \in Seq(Values(F))
    BY <1>8, <1>12, StoredLocated DEF Located
  <2>3. y \in Seq(Values(F))
    BY <1>8, <1>12, ExtentFields, BytesAre
  <2>4. x \in Seq(V) /\ y \in Seq(V)
    <3>1. PICK U : U = Values(F)
      OBVIOUS
    <3>2. x \in Seq(U) /\ y \in Seq(U) /\ U \subseteq V
      BY <2>1, <2>2, <2>3, <3>1
    <3>. QED  BY <3>2
  <2>5. z \in Seq(V)
    <3>1. \A i \in 1..n : Byte(h, m + i) \in V
      BY <2>1
    <3>2. [i \in 1..n |-> Byte(h, m + i)] \in Seq(V)
      BY <3>1
    <3>. QED  BY <1>12, <3>2
  <2>. QED  BY <2>4, <2>5, Associates
<1>16. ChainOf(h) = Filling(w) /\ ChainOf(h)' = Filling(new)
  <2>1. writer'[h] = new
    BY DEF BlobInv, TypesInv
  <2>. QED  BY <1>2, <1>5, <1>6, <2>1 DEF ChainOf, Filling
<1>17. Content(h) = x \o y /\ Content(h)' = x \o (y \o z) /\ Len(Content(h)) = m
  BY <1>2, <1>3, <1>10, <1>11, <1>13, <1>14, <1>16, ContentIs, NextContentIs
<1>. QED  BY <1>4, <1>12, <1>15, <1>17

-----------------------------------------------------------------------------
(***************************************************************************)
(* The map that BlobSpec describes.                                        *)
(***************************************************************************)

Standing == [h \in Handles |-> Status(h)]
Contents == [h \in Handles |-> Content(h)]
Failures == [h \in Handles |-> writer[h].err]

\* A function that changes for one handle.
LEMMA OneChanges ==
    ASSUME NEW h \in Handles, NEW x
    PROVE  /\ Status(h)' = x /\ (\A o \in Handles \ {h} : Status(o)' = Status(o))
                => Standing' = [Standing EXCEPT ![h] = x]
           /\ Content(h)' = x /\ (\A o \in Handles \ {h} : Content(o)' = Content(o))
                => Contents' = [Contents EXCEPT ![h] = x]
           /\ writer'[h].err = x /\ (\A o \in Handles \ {h} : writer'[o].err = writer[o].err)
                => Failures' = [Failures EXCEPT ![h] = x]
<1>1. ASSUME Status(h)' = x, \A o \in Handles \ {h} : Status(o)' = Status(o)
      PROVE  Standing' = [Standing EXCEPT ![h] = x]
  BY <1>1 DEF Standing
<1>2. ASSUME Content(h)' = x, \A o \in Handles \ {h} : Content(o)' = Content(o)
      PROVE  Contents' = [Contents EXCEPT ![h] = x]
  BY <1>2 DEF Contents
<1>3. ASSUME writer'[h].err = x, \A o \in Handles \ {h} : writer'[o].err = writer[o].err
      PROVE  Failures' = [Failures EXCEPT ![h] = x]
  BY <1>3 DEF Failures
<1>. QED  BY <1>1, <1>2, <1>3

\* A function that does not change.
LEMMA NoneChanges ==
    /\ (\A o \in Handles : Status(o)' = Status(o)) => Standing' = Standing
    /\ (\A o \in Handles : Content(o)' = Content(o)) => Contents' = Contents
    /\ (\A o \in Handles : writer'[o].err = writer[o].err) => Failures' = Failures
BY DEF Standing, Contents, Failures

\* A blob that keeps its extents keeps its content, while the file is the same.
LEMMA ContentKept ==
    ASSUME UNCHANGED <<err, file>>, NEW o, ChainOf(o)' = ChainOf(o) \/ err # "none"
    PROVE  Content(o)' = Content(o)
BY ContentIs, NextContentIs

\* The content of a blob is a sequence.
LEMMA ContentSequence ==
    ASSUME BlobInv, NEW o \in Handles
    PROVE  /\ \E X : Content(o) \in Seq(X)
           /\ err = "none" => Len(Content(o)) = Size(ChainOf(o))
<1>1. ChainOf(o) \in Seq(Extents)
  BY ChainOwned
<1>2. StoredOf(file, ChainOf(o)) \in Seq(Values(file)) /\ Len(StoredOf(file, ChainOf(o))) = Size(ChainOf(o))
  BY <1>1, StoredLocated DEF Located
<1>3. CASE err = "none"
  BY <1>2, <1>3, ContentIs
<1>4. CASE err # "none"
  <2>1. Content(o) = <<>>
    BY <1>4, ContentIs
  <2>2. <<>> \in Seq({})
    OBVIOUS
  <2>. QED  BY <1>4, <2>1, <2>2
<1>. QED  BY <1>3, <1>4

\* Nothing is added to a sequence.
LEMMA NothingAdded ==
    ASSUME NEW X, NEW a \in Seq(X), NEW h
    PROVE  a \o [i \in 1..0 |-> Byte(h, Len(a) + i)] = a
<1>1. [i \in 1..0 |-> Byte(h, Len(a) + i)] = <<>>
  OBVIOUS
<1>. QED  BY <1>1

\* The two specifications have the same names for the same things.
LEMMA SameNames ==
    /\ Blob!Silent = Silent /\ Blob!NoReader = NoReader
    /\ \A h, i : Blob!Byte(h, i) = Byte(h, i)
    /\ \A r, bytes, e : Blob!Result(r, bytes, e) = Result(r, bytes, e)
BY DEF Blob!Silent, Silent, Blob!NoReader, NoReader, Blob!Byte, Byte, Blob!Result, Result

\* A store that is shut keeps no content.
LEMMA Shuts ==
    ASSUME err' # "none", out' = Silent, UNCHANGED <<chains, writer, reader>>
    PROVE  Blob!CloseStore
<1>1. \A o \in Handles : Content(o)' = <<>> /\ Status(o)' = Status(o)
  BY NextContentIs DEF Status
<1>2. Contents' = [h \in Handles |-> <<>>]
  BY <1>1 DEF Contents
<1>3. Standing' = Standing /\ Failures' = Failures
  BY <1>1, NoneChanges
<1>. QED  BY <1>2, <1>3, SameNames, Zenon DEF Blob!CloseStore, Standing, Contents, Failures

\* The making of the file is nothing to the map, unless it fails.
LEMMA InitFileMaps == ASSUME BlobInv, FreshInv, InitFile PROVE [Blob!Next]_(Blob!vars)
<1>1. out = Silent /\ out' = Silent /\ UNCHANGED <<file, chains, writer, reader>>
  BY DEF InitFile, FreshInv
<1>2. CASE err' # err
  <2>1. err' # "none"
    BY <1>2 DEF InitFile
  <2>2. Blob!CloseStore
    BY <1>1, <2>1, Shuts
  <2>. QED  BY <2>2 DEF Blob!Next
<1>3. CASE err' = err
  <2>1. \A o \in Handles : Content(o)' = Content(o) /\ Status(o)' = Status(o) /\ writer'[o].err = writer[o].err
    BY <1>1, <1>3, ContentKept DEF ChainOf, Status
  <2>2. Standing' = Standing /\ Contents' = Contents /\ Failures' = Failures
    BY <2>1, NoneChanges
  <2>. QED  BY <1>1, <1>3, <2>2, Zenon DEF Blob!vars, Standing, Contents, Failures
<1>. QED  BY <1>2, <1>3

\* The allocation of a handle.
LEMMA CreateMaps == ASSUME BlobInv, Create PROVE \E h \in Handles : Blob!Create(h)
<1>1. PICK h \in Handles : h = nextH
  BY DEF Create
<1>2. err = "none" /\ out' = Silent /\ UNCHANGED <<err, file, chains, reader>>
  BY DEF Create
<1>3. PICK v : v = [Unborn EXCEPT !.state = "open"]
  OBVIOUS
<1>4. writer[h] = Unborn /\ h \notin DOMAIN chains
  <2>1. h >= nextH /\ Unborn.state = "unused"
    BY <1>1, HandlesAre DEF Unborn
  <2>2. writer[h] = Unborn
    BY <2>1 DEF BlobInv, TypesInv
  <2>. QED  BY <2>1, <2>2 DEF BlobInv, TypesInv
<1>5. /\ v.state = "open" /\ v.chain = <<>> /\ v.cur = Extent(0, 0) /\ v.curLen = 0 /\ v.err = FALSE
      /\ Unborn.state = "unused" /\ Unborn.err = FALSE
  BY <1>3 DEF Unborn
<1>6. writer'[h] = v /\ \A o \in Handles \ {h} : writer'[o] = writer[o]
  <2>1. writer' = [writer EXCEPT ![h].state = "open"] /\ DOMAIN writer = Handles
    BY <1>1 DEF Create, BlobInv, TypesInv
  <2>. QED  BY <1>3, <1>4, <2>1
<1>7. Standing[h] = "unused" /\ Standing' = [Standing EXCEPT ![h] = "writing"]
  <2>1. Status(h) = "unused" /\ Status(h)' = "writing"
    BY <1>2, <1>4, <1>5, <1>6 DEF Status
  <2>2. \A o \in Handles \ {h} : Status(o)' = Status(o)
    BY <1>2, <1>6 DEF Status
  <2>3. Standing[h] = Status(h)
    BY DEF Standing
  <2>. QED  BY <2>1, <2>2, <2>3, OneChanges
<1>8. Contents' = Contents
  <2>1. Content(h) = <<>>
    <3>1. ChainOf(h) = <<>>
      BY <1>4, <1>5 DEF ChainOf
    <3>. QED  BY <3>1, ContentIs, StoredNothing
  <2>2. Content(h)' = <<>>
    <3>1. ChainOf(h)' = Append(<<>>, Extent(0, 0))
      <4>1. Extent(v.cur.offset, v.curLen) = Extent(0, 0)
        BY <1>5, ExtentFields
      <4>. QED  BY <1>2, <1>4, <1>5, <1>6, <4>1 DEF ChainOf, Filling
    <3>2. StoredOf(file', Append(<<>>, Extent(0, 0))) = <<>>
      <4>1. <<>> \in Seq(Extents)
        OBVIOUS
      <4>2. StoredOf(file', Append(<<>>, Extent(0, 0))) = StoredOf(file', <<>>)
        BY <4>1, StoredEmpty
      <4>. QED  BY <4>2, StoredNothing
    <3>. QED  BY <3>1, <3>2, NextContentIs
  <2>3. \A o \in Handles \ {h} : Content(o)' = Content(o)
    BY <1>2, <1>6, ContentKept DEF ChainOf, Filling
  <2>. QED  BY <2>1, <2>2, <2>3, NoneChanges
<1>9. Failures' = Failures
  BY <1>4, <1>5, <1>6, NoneChanges
<1>10. Blob!Create(h)
  BY <1>2, <1>7, <1>8, <1>9, SameNames, Zenon DEF Blob!Create, Standing, Contents, Failures
<1>. QED  BY <1>10

\* A write that gets the mutex adds nothing yet.
LEMMA WriteMaps ==
    ASSUME BlobInv, NEW h \in Handles, NEW n \in 1..MaxSize, Write(h, n)
    PROVE  \E fails \in BOOLEAN : Blob!Extend(h, 0, fails)
<1>1. PICK v : v = [writer[h] EXCEPT !.left = n]
  OBVIOUS
<1>2. n \in Nat /\ writer[h] \in Writer
  BY CapacityIs DEF BlobInv, TypesInv
<1>3. /\ v.state = writer[h].state /\ v.err = writer[h].err
      /\ v.chain = writer[h].chain /\ v.cur = writer[h].cur /\ v.curLen = writer[h].curLen
  BY <1>1, <1>2, Writers, ReservedOn DEF Reserve
<1>4. /\ writer[h].state = "open" /\ err = "none" /\ out' = Silent
      /\ writer' = [writer EXCEPT ![h] = v] /\ UNCHANGED <<err, file, chains, reader>>
  BY <1>1 DEF Write
<1>5. writer'[h] = v /\ \A o \in Handles \ {h} : writer'[o] = writer[o]
  BY <1>4 DEF BlobInv, TypesInv
<1>6. \A o \in Handles : /\ writer'[o].state = writer[o].state /\ writer'[o].err = writer[o].err
                         /\ writer'[o].chain = writer[o].chain /\ writer'[o].cur = writer[o].cur
                         /\ writer'[o].curLen = writer[o].curLen
  BY <1>3, <1>5
<1>7. \A o \in Handles : Status(o)' = Status(o) /\ ChainOf(o)' = ChainOf(o)
  BY <1>4, <1>6 DEF Status, ChainOf, Filling
<1>8. Standing' = Standing /\ Contents' = Contents /\ Failures' = Failures
  BY <1>4, <1>6, <1>7, ContentKept, NoneChanges
<1>9. Standing[h] = "writing"
  BY <1>4, OpenWriter DEF Standing, Status
<1>10. Contents = [Contents EXCEPT ![h] = @ \o [i \in 1..0 |-> Byte(h, Len(@) + i)]]
  <2>1. PICK a : a = Content(h)
    OBVIOUS
  <2>2. PICK X : a \in Seq(X)
    BY <2>1, ContentSequence
  <2>3. a \o [i \in 1..0 |-> Byte(h, Len(a) + i)] = a
    BY <2>2, NothingAdded
  <2>4. DOMAIN Contents = Handles /\ Contents[h] = a /\ Contents = [o \in Handles |-> Contents[o]]
    BY <2>1 DEF Contents
  <2>5. [Contents EXCEPT ![h] = @ \o [i \in 1..0 |-> Byte(h, Len(@) + i)]] = [Contents EXCEPT ![h] = a]
    BY <2>3, <2>4
  <2>. QED  BY <2>4, <2>5
<1>11. PICK fails \in BOOLEAN : fails = writer[h].err
  BY WriterFields DEF BlobInv, TypesInv
<1>12. Failures = [Failures EXCEPT ![h] = fails]
  BY <1>11 DEF Failures
<1>13. Blob!Extend(h, 0, fails)
  BY <1>4, <1>8, <1>9, <1>10, <1>12, SameNames DEF Blob!Extend, Standing, Contents, Failures
<1>. QED  BY <1>11, <1>13

\* A chunk is added to its blob.
LEMMA ChunkMaps ==
    ASSUME BlobInv, BlobInv', MutexInv, NEW h \in Handles, NEW n \in 0..MaxSize, WriteChunk(h, n)
    PROVE  \E fails \in BOOLEAN : Blob!Extend(h, n, fails)
<1>1. n \in Nat
  BY CapacityIs
<1>2. PICK v, f, new, end :
        /\ Chunk(h, n, v, f, new, end)
        /\ writer' = [writer EXCEPT ![h] = new] /\ fileEnd' = end /\ free' = f
        /\ file' = Patched(file, h, n, v.cur.offset + v.curLen, Written(writer[h]))
        /\ out' = Silent /\ UNCHANGED <<err, chains, reader>>
  BY <1>1, ChunkIs
<1>3. /\ Content(h)' = Content(h) \o [i \in 1..n |-> Byte(h, Len(Content(h)) + i)]
      /\ \A o \in Handles \ {h} : Content(o)' = Content(o)
  BY <1>1, <1>2, ChunkStored
<1>4. err = "none"
  BY <1>1, <1>2, ChunkRoom
<1>5. writer'[h] = new /\ \A o \in Handles \ {h} : writer'[o] = writer[o]
  BY <1>2 DEF BlobInv, TypesInv
<1>6. /\ writer[h].state = "open" /\ new.state = "open" /\ new.err \in BOOLEAN
      /\ h \notin DOMAIN chains
  BY <1>2, OpenWriter, WriterFields DEF Chunk
<1>7. Standing' = Standing /\ Standing[h] = "writing"
  <2>1. \A o \in Handles : Status(o)' = Status(o)
    BY <1>2, <1>5, <1>6 DEF Status
  <2>. QED  BY <1>6, <2>1, NoneChanges DEF Standing, Status
<1>8. Contents' = [Contents EXCEPT ![h] = @ \o [i \in 1..n |-> Byte(h, Len(@) + i)]]
  <2>1. PICK a, x : a = Content(h) /\ x = a \o [i \in 1..n |-> Byte(h, Len(a) + i)]
    OBVIOUS
  <2>2. Contents' = [Contents EXCEPT ![h] = x]
    <3>1. Content(h)' = x
      BY <1>3, <2>1
    <3>. QED  BY <1>3, <3>1, OneChanges
  <2>3. Contents[h] = a
    BY <2>1 DEF Contents
  <2>. QED  BY <2>1, <2>2, <2>3
<1>9. Failures' = [Failures EXCEPT ![h] = new.err]
  BY <1>5, OneChanges
<1>10. Blob!Extend(h, n, new.err)
  BY <1>2, <1>4, <1>7, <1>8, <1>9, SameNames DEF Blob!Extend, Standing, Contents, Failures
<1>. QED  BY <1>6, <1>10

\* A blob that is finished or deleted.
LEMMA Retires ==
    ASSUME NEW h \in Handles, NEW st, out' = Silent, UNCHANGED <<err, reader>>,
           Status(h)' = st, \A o \in Handles \ {h} : Status(o)' = Status(o),
           Content(h)' = IF st = "gone" THEN <<>> ELSE Content(h),
           \A o \in Handles \ {h} : Content(o)' = Content(o),
           ~writer'[h].err, writer'[h].err \in BOOLEAN,
           \A o \in Handles \ {h} : writer'[o].err = writer[o].err
    PROVE  Blob!Retire(h, st)
<1>1. Standing' = [Standing EXCEPT ![h] = st]
  BY OneChanges
<1>2. writer'[h].err = FALSE
  OBVIOUS
<1>3. Failures' = [Failures EXCEPT ![h] = FALSE]
  BY <1>2, OneChanges
<1>4. Contents' = IF st = "gone" THEN [Contents EXCEPT ![h] = <<>>] ELSE Contents
  <2>1. CASE st = "gone"
    BY <2>1, OneChanges
  <2>2. CASE st # "gone"
    BY <2>2, NoneChanges
  <2>. QED  BY <2>1, <2>2
<1>. QED
  BY <1>1, <1>3, <1>4, SameNames, Zenon DEF Blob!Retire, Standing, Contents, Failures

\* Closing a writer publishes what it has written, or nothing.
LEMMA CloseWriterMaps ==
    ASSUME BlobInv, NEW h \in Handles, CloseWriter(h)
    PROVE  Blob!Finish(h)
<1>1. PICK w : w = writer[h]
  OBVIOUS
<1>2. /\ w.state = "open" /\ out' = Silent /\ UNCHANGED <<err, file, reader>>
      /\ writer' = [writer EXCEPT ![h] = Closed]
  BY <1>1 DEF CloseWriter
<1>3. h \notin DOMAIN chains /\ WriterOK(w)
  BY <1>1, <1>2, OpenWriter
<1>4. writer'[h] = Closed /\ \A o \in Handles \ {h} : writer'[o] = writer[o]
  BY <1>2 DEF BlobInv, TypesInv
<1>5. Closed.state = "closed" /\ Closed.err = FALSE
  BY DEF Closed, Unborn
<1>6. Standing[h] = "writing" /\ Failures[h] = w.err
  BY <1>1, <1>2, <1>3 DEF Standing, Status, Failures
<1>7. CASE err # "none" \/ w.err
  <2>1. chains' = chains
    BY <1>1, <1>7 DEF CloseWriter
  <2>2. Status(h)' = "gone" /\ ChainOf(h)' = <<>>
    BY <1>3, <1>4, <1>5, <2>1 DEF Status, ChainOf
  <2>3. \A o \in Handles \ {h} : Status(o)' = Status(o) /\ ChainOf(o)' = ChainOf(o)
    BY <1>4, <2>1 DEF Status, ChainOf, Filling
  <2>4. Content(h)' = <<>>
    BY <2>2, NextContentIs, StoredNothing
  <2>5. \A o \in Handles \ {h} : Content(o)' = Content(o)
    BY <1>2, <2>3, ContentKept
  <2>6. Blob!Retire(h, "gone")
    BY <1>2, <1>4, <1>5, <2>2, <2>3, <2>4, <2>5, Retires
  <2>7. Blob!Retire(h, IF err # "none" \/ Failures[h] THEN "gone" ELSE "ready")
    <3>1. (IF err # "none" \/ Failures[h] THEN "gone" ELSE "ready") = "gone"
      BY <1>6, <1>7
    <3>. QED  BY <2>6, <3>1 DEF Blob!Retire
  <2>. QED  BY <1>6, <2>7, Zenon DEF Blob!Finish, Standing, Failures
<1>8. CASE err = "none" /\ ~w.err
  <2>1. chains' = [k \in DOMAIN chains \cup {h} |-> IF k = h THEN Commit(w) ELSE chains[k]]
    BY <1>1, <1>8 DEF CloseWriter
  <2>2. h \in DOMAIN chains' /\ chains'[h] = Commit(w)
    BY <2>1
  <2>3. \A o \in Handles \ {h} :
            (o \in DOMAIN chains' <=> o \in DOMAIN chains) /\ (o \in DOMAIN chains => chains'[o] = chains[o])
    BY <2>1
  <2>4. Status(h)' = "ready" /\ ChainOf(h)' = Commit(w) /\ ChainOf(h) = Filling(w)
    BY <1>1, <1>2, <1>3, <2>2 DEF Status, ChainOf
  <2>5. \A o \in Handles \ {h} : Status(o)' = Status(o) /\ ChainOf(o)' = ChainOf(o)
    BY <1>4, <2>3 DEF Status, ChainOf, Filling
  <2>6. Content(h)' = Content(h)
    <3>1. StoredOf(file, Commit(w)) = StoredOf(file, Filling(w))
      BY <1>3, FillingIs
    <3>. QED  BY <1>2, <1>8, <2>4, <3>1, ContentIs, NextContentIs
  <2>7. \A o \in Handles \ {h} : Content(o)' = Content(o)
    BY <1>2, <2>5, ContentKept
  <2>8. Blob!Retire(h, "ready")
    <3>1. "ready" # "gone"
      OBVIOUS
    <3>2. Content(h)' = IF "ready" = "gone" THEN <<>> ELSE Content(h)
      BY <2>6, <3>1
    <3>. QED  BY <1>2, <1>4, <1>5, <2>4, <2>5, <2>7, <3>2, Retires
  <2>9. Blob!Retire(h, IF err # "none" \/ Failures[h] THEN "gone" ELSE "ready")
    <3>1. (IF err # "none" \/ Failures[h] THEN "gone" ELSE "ready") = "ready"
      BY <1>6, <1>8
    <3>. QED  BY <2>8, <3>1 DEF Blob!Retire
  <2>. QED  BY <1>6, <2>9, Zenon DEF Blob!Finish, Standing, Failures
<1>. QED  BY <1>7, <1>8

\* Deleting a blob leaves nothing of it.
LEMMA DeleteMaps ==
    ASSUME BlobInv, FailInv, NEW h \in Handles, Delete(h)
    PROVE  Blob!Delete(h)
<1>1. /\ h \in DOMAIN chains /\ chains' = [k \in DOMAIN chains \ {h} |-> chains[k]]
      /\ out' = Silent /\ UNCHANGED <<err, file, writer, reader>>
  BY DEF Delete
<1>2. writer[h].state = "closed" /\ WriterOK(writer[h])
  BY <1>1 DEF BlobInv, TypesInv
<1>3. ~writer[h].err /\ writer[h].err \in BOOLEAN
  BY <1>2, WriterFields DEF FailInv
<1>4. h \notin DOMAIN chains'
  BY <1>1
<1>5. \A o \in Handles \ {h} :
        (o \in DOMAIN chains' <=> o \in DOMAIN chains) /\ (o \in DOMAIN chains => chains'[o] = chains[o])
  BY <1>1
<1>6. Status(h) = "ready" /\ Status(h)' = "gone" /\ ChainOf(h)' = <<>>
  BY <1>1, <1>2, <1>4 DEF Status, ChainOf
<1>7. \A o \in Handles \ {h} : Status(o)' = Status(o) /\ ChainOf(o)' = ChainOf(o)
  BY <1>1, <1>5 DEF Status, ChainOf, Filling
<1>8. Content(h)' = <<>>
  BY <1>6, NextContentIs, StoredNothing
<1>9. \A o \in Handles \ {h} : Content(o)' = Content(o)
  BY <1>1, <1>7, ContentKept
<1>10. Blob!Retire(h, "gone")
  BY <1>1, <1>3, <1>6, <1>7, <1>8, <1>9, Retires
<1>11. Standing[h] = "ready"
  BY <1>6 DEF Standing
<1>. QED  BY <1>10, <1>11, Zenon DEF Blob!Delete, Standing

\* Opening a reader takes the size of its blob.
LEMMA OpenMaps ==
    ASSUME BlobInv, NEW r \in Readers, NEW h \in Handles, Open(r, h)
    PROVE  Blob!OpenReader(r, h)
<1>1. /\ err = "none" /\ h \in DOMAIN chains /\ reader[r] = NoReader /\ out' = Silent
      /\ reader' = [reader EXCEPT ![r] = [h |-> h, pos |-> 0, size |-> Size(chains[h])]]
      /\ UNCHANGED <<err, file, chains, writer>>
  BY DEF Open
<1>2. \A o \in Handles : Status(o)' = Status(o) /\ Content(o)' = Content(o) /\ writer'[o].err = writer[o].err
  BY <1>1, ContentKept DEF ChainOf, Status
<1>3. Standing' = Standing /\ Contents' = Contents /\ Failures' = Failures
  BY <1>2, NoneChanges
<1>4. Standing[h] = "ready" /\ Contents[h] = Content(h)
  BY <1>1 DEF Standing, Status, Contents
<1>5. Len(Contents[h]) = Size(chains[h])
  <2>1. ChainOf(h) = chains[h]
    BY <1>1 DEF ChainOf
  <2>. QED  BY <1>1, <1>4, <2>1, ContentSequence
<1>6. reader' = [reader EXCEPT ![r] = [h |-> h, pos |-> 0, size |-> Len(Contents[h])]]
  BY <1>1, <1>5
<1>. QED
  BY <1>1, <1>3, <1>4, <1>6, SameNames, Zenon DEF Blob!OpenReader, Standing, Contents, Failures

\* A read returns what the map has at its position.
LEMMA ReadMaps ==
    ASSUME BlobInv, ViewInv, NEW r \in Readers, NEW len \in Nat \ {0}, Read(r, len)
    PROVE  Blob!Read(r)
<1>1. PICK bytes, e : \E n \in Nat :
        /\ Answered(r, bytes, n, e)
        /\ out' = Result(r, bytes, e) /\ reader' = [reader EXCEPT ![r].pos = @ + n]
  BY ReadIs
<1>2. PICK n \in Nat :
        /\ Answered(r, bytes, n, e)
        /\ out' = Result(r, bytes, e) /\ reader' = [reader EXCEPT ![r].pos = @ + n]
  BY <1>1
<1>3. PICK h, pos, size : h = reader[r].h /\ pos = reader[r].pos /\ size = reader[r].size
  OBVIOUS
<1>4. /\ pos \in Nat /\ size \in Nat
      /\ h \in Handles => writer[h].state = "closed"
  BY <1>3 DEF ViewInv
<1>5. h # NoHandle /\ UNCHANGED <<err, file, chains, writer>>
  BY <1>3 DEF Read
<1>6. h \in Handles
  <2>1. ReaderOK(reader[r])
    BY DEF BlobInv, ReadersInv
  <2>. QED  BY <1>3, <1>5, <2>1 DEF ReaderOK
<1>7. \A o \in Handles : Status(o)' = Status(o) /\ Content(o)' = Content(o) /\ writer'[o].err = writer[o].err
  BY <1>5, ContentKept DEF ChainOf, Status
<1>8. Standing' = Standing /\ Contents' = Contents /\ Failures' = Failures
  BY <1>7, NoneChanges
<1>9. ASSUME n = 0 PROVE reader' = reader
  <2>1. ReaderOK(reader[r]) /\ DOMAIN reader = Readers
    BY DEF BlobInv, ReadersInv
  <2>2. PICK x \in Handles \cup {NoHandle} : \E p, s : reader[r] = [h |-> x, pos |-> p, size |-> s]
    BY <2>1 DEF ReaderOK
  <2>p. PICK p, s : reader[r] = [h |-> x, pos |-> p, size |-> s]
    BY <2>2
  <2>3. reader[r] = [h |-> x, pos |-> pos, size |-> s]
    <3>1. reader[r].pos = p
      BY <2>p
    <3>. QED  BY <1>3, <2>p, <3>1
  <2>4. PICK t : t = [reader[r] EXCEPT !.pos = @ + n]
    OBVIOUS
  <2>5. t = reader[r]
    <3>1. reader[r].pos + n = pos
      BY <1>3, <1>4, <1>9
    <3>. QED  BY <2>3, <2>4, <3>1
  <2>6. reader' = [reader EXCEPT ![r] = t]
    BY <1>2, <2>4
  <2>7. \A q \in Readers : reader'[q] = reader[q]
    BY <2>1, <2>5, <2>6
  <2>8. DOMAIN reader' = Readers /\ reader' = [q \in Readers |-> reader'[q]] /\ reader = [q \in Readers |-> reader[q]]
    <3>1. reader' = [q \in Readers |-> IF q = r THEN t ELSE reader[q]]
      BY <2>1, <2>6
    <3>2. reader = [q \in Readers |-> reader[q]]
      BY DEF BlobInv, ReadersInv
    <3>. QED  BY <3>1, <3>2
  <2>. QED  BY <2>7, <2>8
<1>10. Standing[h] = Status(h) /\ Contents[h] = Content(h)
  BY <1>6 DEF Standing, Contents
<1>11. Blob!Read(r)
  <2>. DEFINE Eof == /\ reader[r].pos >= reader[r].size
                     /\ out' = Blob!Result(r, <<>>, "eof") /\ UNCHANGED reader
              Gone == /\ reader[r].pos < reader[r].size
                      /\ err # "none" \/ Standing[reader[r].h] = "gone"
                      /\ out' = Blob!Result(r, <<>>, IF err # "none" THEN "closed" ELSE "deleted")
                      /\ UNCHANGED reader
              Ready == /\ reader[r].pos < reader[r].size
                       /\ ~(err # "none") /\ Standing[reader[r].h] = "ready"
                       /\ \E k \in 0..(reader[r].size - reader[r].pos), x \in {"none", "io"} :
                            /\ k = 0 => x = "io"
                            /\ out' = Blob!Result(r, SubSeq(Contents[reader[r].h], reader[r].pos + 1,
                                                            reader[r].pos + k), x)
                            /\ reader' = [reader EXCEPT ![r].pos = @ + k]
  <2>0. out' = Blob!Result(r, bytes, e)
    BY <1>2, SameNames
  <2>1. ASSUME pos >= size, bytes = <<>>, n = 0, e = "eof" PROVE Eof
    <3>0. out' = Blob!Result(r, <<>>, "eof")
      BY <2>0, <2>1
    <3>. QED  BY <1>3, <1>9, <2>1, <3>0
  <2>2. ASSUME pos < size, err # "none", bytes = <<>>, n = 0, e = "closed" PROVE Gone
    <3>0. out' = Blob!Result(r, <<>>, IF err # "none" THEN "closed" ELSE "deleted")
      BY <2>0, <2>2
    <3>. QED  BY <1>3, <1>9, <2>2, <3>0
  <2>3. ASSUME pos < size, err = "none", h \notin DOMAIN chains, bytes = <<>>, n = 0, e = "deleted" PROVE Gone
    <3>1. Status(h) = "gone"
      BY <1>4, <1>6, <2>3 DEF Status
    <3>0. out' = Blob!Result(r, <<>>, IF err # "none" THEN "closed" ELSE "deleted")
      BY <2>0, <2>3
    <3>. QED  BY <1>3, <1>9, <1>10, <2>3, <3>0, <3>1
  <2>4. ASSUME pos < size, err = "none", h \in DOMAIN chains,
               n \in 0..(size - pos), e \in {"none", "io"}, n = 0 => e = "io",
               bytes = SubSeq(Stored(chains[h]), pos + 1, pos + n)
        PROVE  Ready
    <3>1. Status(h) = "ready" /\ Content(h) = Stored(chains[h])
      BY <2>4 DEF Status, Content
    <3>2. out' = Blob!Result(r, SubSeq(Contents[reader[r].h], reader[r].pos + 1, reader[r].pos + n), e)
      BY <1>2, <1>3, <1>10, <2>4, <3>1, SameNames
    <3>3. reader[r].pos < reader[r].size /\ ~(err # "none") /\ Standing[reader[r].h] = "ready"
      BY <1>3, <1>10, <2>4, <3>1
    <3>4. n \in 0..(reader[r].size - reader[r].pos) /\ e \in {"none", "io"} /\ (n = 0 => e = "io")
      BY <1>3, <2>4
    <3>5. reader' = [reader EXCEPT ![r].pos = @ + n]
      BY <1>2
    <3>. QED  BY <3>2, <3>3, <3>4, <3>5, Zenon
  <2>5. Eof \/ Gone \/ Ready
    <3>. HIDE DEF Eof, Gone, Ready
    <3>. QED  BY <1>2, <1>3, <2>1, <2>2, <2>3, <2>4, Zenon DEF Answered
  <2>. QED  BY <1>3, <1>5, <1>8, <2>5, Zenon DEF Blob!Read, Standing, Contents, Failures
<1>. QED  BY <1>11

\* Seeking only moves a reader.
LEMMA SeekMaps ==
    ASSUME NEW r \in Readers, NEW p, Seek(r, p)
    PROVE  Blob!Seek(r, p)
<1>1. /\ reader[r].h # NoHandle /\ reader' = [reader EXCEPT ![r].pos = p] /\ out' = Silent
      /\ UNCHANGED <<err, file, chains, writer>>
  BY DEF Seek
<1>2. \A o \in Handles : Status(o)' = Status(o) /\ Content(o)' = Content(o) /\ writer'[o].err = writer[o].err
  BY <1>1, ContentKept DEF ChainOf, Status
<1>3. Standing' = Standing /\ Contents' = Contents /\ Failures' = Failures
  BY <1>2, NoneChanges
<1>. QED
  BY <1>1, <1>3, SameNames, Zenon DEF Blob!Seek, Standing, Contents, Failures

\* Every step of the store is a step of the map, or none.
LEMMA StepMaps == StoreInv /\ [Next]_vars => [Blob!Next]_(Blob!vars)
<1> SUFFICES ASSUME StoreInv, [Next]_vars PROVE [Blob!Next]_(Blob!vars)
  OBVIOUS
<1>1. BlobInv /\ MutexInv /\ FailInv /\ ViewInv /\ FreshInv /\ BlobInv'
  BY NextStore DEF StoreInv
<1>2. CASE InitFile
  BY <1>1, <1>2, InitFileMaps
<1>3. CASE Create
  BY <1>1, <1>3, CreateMaps DEF Blob!Next
<1>4. ASSUME NEW h \in Handles, NEW n \in 1..MaxSize, Write(h, n) PROVE Blob!Next
  <2>1. 0 \in 0..MaxSize
    BY CapacityIs
  <2>. QED  BY <1>1, <1>4, <2>1, WriteMaps DEF Blob!Next
<1>5. ASSUME NEW h \in Handles, NEW n \in 0..MaxSize, WriteChunk(h, n) PROVE Blob!Next
  BY <1>1, <1>5, ChunkMaps DEF Blob!Next
<1>6. ASSUME NEW h \in Handles, CloseWriter(h) PROVE Blob!Next
  BY <1>1, <1>6, CloseWriterMaps DEF Blob!Next
<1>7. ASSUME NEW h \in Handles, Delete(h) PROVE Blob!Next
  BY <1>1, <1>7, DeleteMaps DEF Blob!Next
<1>8. ASSUME NEW r \in Readers, NEW h \in Readable, Open(r, h) PROVE Blob!Next
  <2>1. h \in Handles
    BY BlobAssumption
  <2>. QED  BY <1>1, <1>8, <2>1, OpenMaps DEF Blob!Next
<1>9. ASSUME NEW r \in Readers, NEW len \in 1..MaxSize, Read(r, len) PROVE Blob!Next
  <2>1. len \in Nat \ {0}
    BY CapacityIs
  <2>. QED  BY <1>1, <1>9, <2>1, ReadMaps DEF Blob!Next
<1>10. ASSUME NEW r \in Readers, NEW p \in 0..MaxSize, Seek(r, p) PROVE Blob!Next
  BY <1>10, SeekMaps DEF Blob!Next
<1>11. CASE CloseStore
  <2>1. err' # "none" /\ out' = Silent /\ UNCHANGED <<chains, writer, reader>>
    BY <1>11 DEF CloseStore
  <2>. QED  BY <2>1, Shuts DEF Blob!Next
<1>12. CASE UNCHANGED vars
  <2>1. UNCHANGED <<err, file, chains, writer, reader, out>>
    BY <1>12 DEF vars
  <2>2. \A o \in Handles : Status(o)' = Status(o) /\ Content(o)' = Content(o) /\ writer'[o].err = writer[o].err
    BY <2>1, ContentKept DEF ChainOf, Filling, Status
  <2>3. Standing' = Standing /\ Contents' = Contents /\ Failures' = Failures
    BY <2>2, NoneChanges
  <2>. QED  BY <2>1, <2>3, Zenon DEF Blob!vars, Standing, Contents, Failures
<1>. QED
  BY <1>2, <1>3, <1>4, <1>5, <1>6, <1>7, <1>8, <1>9, <1>10, <1>11, <1>12 DEF Next

\* An empty store is an empty map.
LEMMA InitMaps == Init => Blob!Init
<1> SUFFICES ASSUME Init PROVE Blob!Init
  OBVIOUS
<1>1. Unborn.state = "unused" /\ Unborn.err = FALSE
  BY DEF Unborn
<1>2. /\ DOMAIN chains = {} /\ err = "none" /\ out = Silent
      /\ \A h \in Handles : writer[h] = Unborn
      /\ reader = [r \in Readers |-> NoReader]
  BY DEF Init
<1>3. \A h \in Handles : Status(h) = "unused" /\ ChainOf(h) = <<>>
  BY <1>1, <1>2 DEF Status, ChainOf
<1>4. \A h \in Handles : Content(h) = <<>>
  BY <1>3, ContentIs, StoredNothing
<1>5. /\ Standing = [h \in Handles |-> "unused"]
      /\ Contents = [h \in Handles |-> <<>>]
      /\ Failures = [h \in Handles |-> FALSE]
  BY <1>1, <1>2, <1>3, <1>4 DEF Standing, Contents, Failures
<1>6. (err # "none") = FALSE
  BY <1>2
<1>. QED  BY <1>2, <1>5, <1>6, SameNames DEF Blob!Init, Standing, Contents, Failures

\* The inductive invariant of the refinement always holds.
LEMMA RefinementInvariant == Spec => []StoreInv
<1>1. Init => StoreInv
  BY InitStore
<1>2. StoreInv /\ [Next]_vars => StoreInv'
  BY NextStore
<1>. QED  BY <1>1, <1>2, PTL DEF Spec

\* The store is the map of blobs that BlobSpec describes: whatever extents they
\* are kept in, and whatever fails, a reader gets the bytes that were written.
THEOREM BlobsImplement == Spec => ImplementsBlobSpec
<1>1. Init => Blob!Init
  BY InitMaps
<1>2. StoreInv /\ [Next]_vars => [Blob!Next]_(Blob!vars)
  BY StepMaps
<1>. QED  BY <1>1, <1>2, RefinementInvariant, PTL DEF Spec, ImplementsBlobSpec, Blob!Spec

=============================================================================
