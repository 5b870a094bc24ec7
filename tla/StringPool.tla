----------------------------- MODULE StringPool -----------------------------
(***************************************************************************)
(* The string pool of internal/stringpool: a reference-counted table that  *)
(* gives every distinct string one integer ID.  Tables store IDs, never    *)
(* strings, so the pool decides what every text cell of a database means.  *)
(*                                                                         *)
(* A pool is a value and every method is an operator on it.  PoolClients   *)
(* and Database are the state machines that call them.                     *)
(***************************************************************************)
EXTENDS Naturals, Sequences, FiniteSets

CONSTANTS
    Strings,        \* the non-empty strings a client may store
    Blank,          \* the empty string, the NULL of a text cell
    Codepages,      \* the supported code pages
    Encodable,      \* the strings each code page can represent
    MaxRefcount,    \* the ceiling of a counter: 0xFFFF in the code
    MaxShortRef     \* the highest ID a 2-byte reference holds: 0xFFFF

ASSUME StringPoolAssumption ==
    /\ Blank \notin Strings
    /\ Encodable \in [Codepages -> SUBSET Strings]
    /\ MaxRefcount \in Nat \ {0}
    /\ MaxShortRef \in Nat

(***************************************************************************)
(* A slot counts the references of persistent cells, which are saved, and  *)
(* those of temporary cells and of stream names, which are not, apart.     *)
(***************************************************************************)
Kinds == {"persistent", "temporary"}

Entry == [s: Strings \cup {Blank}, refs: [Kinds -> 0..MaxRefcount]]

Pool == [entries: Seq(Entry), index: [Strings -> Nat], free: Seq(Nat),
         codepage: Codepages, longRefs: BOOLEAN]

NoRefs == [k \in Kinds |-> 0]

Ids(pool) == 1..Len(pool.entries)

Live(pool, id) == pool.entries[id].refs # NoRefs

New(cp) == [entries |-> <<>>, index |-> [s \in Strings |-> 0], free |-> <<>>,
            codepage |-> cp, longRefs |-> FALSE]

-----------------------------------------------------------------------------
(***************************************************************************)
(* Queries.                                                                *)
(***************************************************************************)

\* Whether an ID resolves.  ID 0 is the empty string.
Resolves(pool, id) == id = 0 \/ (id \in Ids(pool) /\ Live(pool, id))

Lookup(pool, id) ==
    IF id # 0 /\ Resolves(pool, id) THEN pool.entries[id].s ELSE Blank

\* Mutant of LongRefs: the ID just past the boundary is written in two bytes.
LongRefsMutant(pool) == pool.longRefs \/ Len(pool.entries) > MaxShortRef + 1

\* Three bytes a reference instead of two: once true it stays true.
LongRefs(pool) == pool.longRefs \/ Len(pool.entries) > MaxShortRef

Validate(pool, s) == s \in Encodable[pool.codepage] \cup {Blank}

-----------------------------------------------------------------------------
(***************************************************************************)
(* Intern and Release.                                                     *)
(***************************************************************************)

\* Mutant of Bump: the ceiling is met one reference early.
BumpMutant(refs, kind) ==
    IF refs[kind] < MaxRefcount - 1 THEN [refs EXCEPT ![kind] = @ + 1] ELSE refs

\* A counter at its ceiling stays there: the reference is not counted.
Bump(refs, kind) ==
    IF refs[kind] < MaxRefcount THEN [refs EXCEPT ![kind] = @ + 1] ELSE refs

Drop(refs, kind) == [refs EXCEPT ![kind] = @ - 1]

\* The ID that Intern returns: the string's own, else the slot released last,
\* else a new slot at the end.
InternID(pool, s) ==
    IF s = Blank THEN 0
    ELSE IF pool.index[s] # 0 THEN pool.index[s]
    ELSE IF pool.free # <<>> THEN pool.free[Len(pool.free)]
    ELSE Len(pool.entries) + 1

Reference(pool, s, kind) ==
    [pool EXCEPT !.entries[pool.index[s]].refs = Bump(@, kind)]

ReuseSlot(pool, s, kind) ==
    LET id == pool.free[Len(pool.free)]
    IN  [pool EXCEPT !.entries[id] = [s |-> s, refs |-> Bump(NoRefs, kind)],
                     !.index[s] = id,
                     !.free = SubSeq(@, 1, Len(@) - 1)]

AppendSlot(pool, s, kind) ==
    [pool EXCEPT
        !.entries = Append(@, [s |-> s, refs |-> Bump(NoRefs, kind)]),
        !.index[s] = Len(pool.entries) + 1]

\* Mutant of Intern: released slots are never handed out again.
InternMutant(pool, s, kind) ==
    IF s = Blank THEN pool
    ELSE IF pool.index[s] # 0 THEN Reference(pool, s, kind)
    ELSE AppendSlot(pool, s, kind)

Intern(pool, s, kind) ==
    IF s = Blank THEN pool
    ELSE IF pool.index[s] # 0 THEN Reference(pool, s, kind)
    ELSE IF pool.free # <<>> THEN ReuseSlot(pool, s, kind)
    ELSE AppendSlot(pool, s, kind)

\* Mutant of Releasable: a counter that is 0 already is decremented.
ReleasableMutant(pool, id, kind) == id \in Ids(pool)

\* Release does nothing for an unused ID or a counter that is 0 already.
Releasable(pool, id, kind) == id \in Ids(pool) /\ pool.entries[id].refs[kind] > 0

Unreference(pool, id, kind) ==
    [pool EXCEPT !.entries[id].refs = Drop(@, kind)]

\* Mutant of FreeSlot: the index keeps the string of the released slot.
FreeSlotMutant(pool, id) ==
    [pool EXCEPT !.entries[id] = [s |-> Blank, refs |-> NoRefs],
                 !.free = Append(@, id)]

FreeSlot(pool, id) ==
    [pool EXCEPT !.entries[id] = [s |-> Blank, refs |-> NoRefs],
                 !.index[pool.entries[id].s] = 0,
                 !.free = Append(@, id)]

\* Mutant of Release: the slot is freed when one of its counters gets to 0.
ReleaseMutant(pool, id, kind) ==
    IF ~Releasable(pool, id, kind) THEN pool
    ELSE IF Drop(pool.entries[id].refs, kind)[kind] = 0 THEN FreeSlot(pool, id)
    ELSE Unreference(pool, id, kind)

Release(pool, id, kind) ==
    IF ~Releasable(pool, id, kind) THEN pool
    ELSE IF Drop(pool.entries[id].refs, kind) = NoRefs THEN FreeSlot(pool, id)
    ELSE Unreference(pool, id, kind)

-----------------------------------------------------------------------------
(***************************************************************************)
(* The code page.  Only the strings that would be saved must fit it.       *)
(***************************************************************************)

Saved(pool, id) == pool.entries[id].refs["persistent"] > 0

Fits(pool, cp) ==
    \A id \in Ids(pool) : Saved(pool, id) => pool.entries[id].s \in Encodable[cp]

SetCodepage(pool, cp) == [pool EXCEPT !.codepage = cp]

-----------------------------------------------------------------------------
(***************************************************************************)
(* Encode writes one record per slot up to the highest that is saved; the  *)
(* slots between that are not saved become zero records, so that no ID     *)
(* moves.  Decode reads them back: a zero record is a free slot, and the   *)
(* free slots are pushed in the order of their IDs.  The bytes of a string *)
(* are abstracted to the string, and fail to encode unless Fits holds.     *)
(*                                                                         *)
(* EncodedLens and FreeOrders are sets of one value each, so that a proof  *)
(* needs no existence argument for a CHOOSE.                               *)
(***************************************************************************)

EncodedLens(pool) ==
    {n \in 0..Len(pool.entries) :
        /\ n # 0 => Saved(pool, n)
        /\ \A id \in Ids(pool) : Saved(pool, id) => id <= n}

\* Mutant of Encode: the width is that of the records, not of the pool.
EncodeMutant(pool, n) ==
    [codepage |-> pool.codepage,
     longRefs |-> n > MaxShortRef,
     records  |-> [id \in 1..n |->
        IF Saved(pool, id)
        THEN [s |-> pool.entries[id].s, refs |-> pool.entries[id].refs["persistent"]]
        ELSE [s |-> Blank, refs |-> 0]]]

Encode(pool, n) ==
    [codepage |-> pool.codepage,
     longRefs |-> LongRefs(pool),
     records  |-> [id \in 1..n |->
        IF Saved(pool, id)
        THEN [s |-> pool.entries[id].s, refs |-> pool.entries[id].refs["persistent"]]
        ELSE [s |-> Blank, refs |-> 0]]]

\* The IDs of the zero records, lowest first.
FreeOrders(image) ==
    LET unused == {id \in DOMAIN image.records : image.records[id].refs = 0}
    IN  {f \in [1..Cardinality(unused) -> unused] :
            /\ \A i, j \in DOMAIN f : i < j => f[i] < f[j]
            /\ \A id \in unused : \E i \in DOMAIN f : f[i] = id}

\* A string stored twice would make the pool ambiguous: Decode refuses it.
Decodable(image) ==
    \A i, j \in DOMAIN image.records :
        /\ image.records[i].refs > 0
        /\ image.records[j].refs > 0
        /\ image.records[i].s = image.records[j].s
        => i = j

Decode(image, f) ==
    LET Has(s, id) == image.records[id].refs > 0 /\ image.records[id].s = s
    IN  [entries  |-> [id \in DOMAIN image.records |->
                        [s |-> image.records[id].s,
                         refs |-> [NoRefs EXCEPT !["persistent"] = image.records[id].refs]]],
         index    |-> [s \in Strings |->
                        IF \E id \in DOMAIN image.records : Has(s, id)
                        THEN CHOOSE id \in DOMAIN image.records : Has(s, id)
                        ELSE 0],
         free     |-> f,
         codepage |-> image.codepage,
         longRefs |-> image.longRefs]

-----------------------------------------------------------------------------
(***************************************************************************)
(* What every pool satisfies.                                              *)
(***************************************************************************)

\* The index is the inverse of the live slots: Intern finds every live string
\* (no string is stored twice, which Decode would refuse) and no dead one.
IndexMatchesEntries(pool) ==
    /\ \A s \in Strings : pool.index[s] # 0 =>
        /\ pool.index[s] \in Ids(pool)
        /\ Live(pool, pool.index[s])
        /\ pool.entries[pool.index[s]].s = s
    /\ \A id \in Ids(pool) : Live(pool, id) =>
        /\ pool.entries[id].s \in Strings
        /\ pool.index[pool.entries[id].s] = id

\* The free list holds exactly the dead slots, each once: a slot listed while
\* live, or twice, would be given to two strings.
FreeListExact(pool) ==
    /\ \A i, j \in DOMAIN pool.free : pool.free[i] = pool.free[j] => i = j
    /\ \A i \in DOMAIN pool.free :
        pool.free[i] \in Ids(pool) /\ ~Live(pool, pool.free[i])
    /\ \A id \in Ids(pool) :
        ~Live(pool, id) => \E i \in DOMAIN pool.free : pool.free[i] = id

Consistent(pool) == IndexMatchesEntries(pool) /\ FreeListExact(pool)
=============================================================================
