----------------------------- MODULE BlobStore ------------------------------
(***************************************************************************)
(* The blob store of internal/blobstore: one temp file in which every blob *)
(* is a chain of extents.  Deleted blobs leave free extents, which later   *)
(* writers fill before they grow the file, any number of them at a time.   *)
(*                                                                         *)
(* Every method holds the store's mutex, so a call is one step, except     *)
(* Write: its loop is one step an iteration, with the mutex held from the  *)
(* first to the last, and Create, which unlocks between the creation of    *)
(* the file and the allocation of the handle.                              *)
(***************************************************************************)
EXTENDS Integers, Sequences, FiniteSets, SequencesExt

CONSTANTS
    Handles,        \* an initial segment of the naturals
    NoHandle,
    Readers,
    Readable,       \* bound: the blobs that a reader may open
    MaxSize,        \* bound: the longest blob
    Capacity        \* bound: the longest temp file

ASSUME BlobAssumption ==
    /\ IsFiniteSet(Handles) /\ Handles = 0..(Cardinality(Handles) - 1)
    /\ NoHandle \notin Handles
    /\ Readable \subseteq Handles
    /\ MaxSize \in Nat
    /\ Capacity \in Nat

VARIABLES
    initialized,    \* once: whether the creation of the file was tried
    temp,           \* the temp file: none, there, or left by a Close with an error
    err,            \* the store's sticky error
    file,           \* the bytes of the temp file
    fileEnd,
    chains,         \* the extents of every blob that can be read
    free,           \* a stack of extents
    nextH,
    writer,
    reader,
    out             \* what the last step returned to a reader

vars == <<initialized, temp, err, file, fileEnd, chains, free, nextH, writer, reader, out>>

-----------------------------------------------------------------------------
(***************************************************************************)
(* Extents.                                                                *)
(***************************************************************************)

Extent(offset, length) == [offset |-> offset, length |-> length]

Extents == [offset: Nat, length: Nat]

\* Only the open extent of a writer may be empty: an empty free extent would
\* give Write no room, and one in a chain would stop a reader.
Filled == [offset: Nat, length: Nat \ {0}]

\* How many bytes the first extents of a chain hold.
Upto(chain) ==
    LET sum[k \in 0..Len(chain)] == IF k = 0 THEN 0 ELSE sum[k - 1] + chain[k].length
    IN  sum

Size(chain) == Upto(chain)[Len(chain)]

Bytes(e) == [i \in 1..e.length |-> file[e.offset + i]]

\* The bytes of a chain, in order.
Stored(chain) == FlattenSeq([k \in DOMAIN chain |-> Bytes(chain[k])])

\* The extent of a chain that holds the byte at a position below its size.
Holding(chain, pos) ==
    CHOOSE k \in DOMAIN chain : Upto(chain)[k - 1] <= pos /\ pos < Upto(chain)[k]

-----------------------------------------------------------------------------
(***************************************************************************)
(* Writers and readers.  A writer is named by its handle.                  *)
(***************************************************************************)

Hole == <<NoHandle, 0>>
Byte(h, i) == <<h, i>>

Unborn ==
    [state |-> "unused", chain |-> <<>>, cur |-> Extent(0, 0), curLen |-> 0,
     growing |-> FALSE, err |-> FALSE, left |-> 0]

\* Once closed, nothing of a writer is used again.
Closed == [Unborn EXCEPT !.state = "closed"]

Writer ==
    [state: {"unused", "open", "closed"}, chain: Seq(Filled), cur: Extents,
     curLen: Nat, growing: BOOLEAN, err: BOOLEAN, left: Nat]

\* Mutant of Commit: a partly filled extent is published whole.
CommitMutant(w) == IF w.curLen > 0 THEN Append(w.chain, w.cur) ELSE w.chain

\* The chain with the filled part of the open extent.
Commit(w) ==
    IF w.curLen > 0 THEN Append(w.chain, Extent(w.cur.offset, w.curLen)) ELSE w.chain

\* Mutant of Unfilled: a full extent leaves an empty one.
UnfilledMutant(w) ==
    IF w.cur.length >= w.curLen
    THEN <<Extent(w.cur.offset + w.curLen, w.cur.length - w.curLen)>>
    ELSE <<>>

\* What is left of the open extent.
Unfilled(w) ==
    IF w.cur.length > w.curLen
    THEN <<Extent(w.cur.offset + w.curLen, w.cur.length - w.curLen)>>
    ELSE <<>>

\* Mutant of Reserved: the open extent of a failed blob is forgotten.
ReservedMutant(w) == w.chain

\* All that a writer holds of the file, filled or not.
Reserved(w) == w.chain \o (IF w.cur.length > 0 THEN <<w.cur>> ELSE <<>>)

Written(w) == Size(w.chain) + w.curLen

NoReader == [h |-> NoHandle, pos |-> 0, size |-> 0]
Result(r, bytes, e) == [reader |-> r, bytes |-> bytes, err |-> e]
Silent == [reader |-> NoHandle, bytes |-> <<>>, err |-> "none"]

\* The mutex is held between the iterations of a Write.
Unlocked == \A h \in Handles : writer[h].left = 0

-----------------------------------------------------------------------------
Init ==
    /\ initialized = FALSE
    /\ temp = "none"
    /\ err = "none"
    /\ file = [i \in 1..Capacity |-> Hole]
    /\ fileEnd = 0
    /\ chains = [h \in {} |-> <<>>]
    /\ free = <<>>
    /\ nextH = 0
    /\ writer = [h \in Handles |-> Unborn]
    /\ reader = [r \in Readers |-> NoReader]
    /\ out = Silent

\* Mutant of InitFile: the file is created in a store that was closed before.
InitFileMutant ==
    /\ Unlocked
    /\ ~initialized
    /\ initialized' = TRUE
    /\ temp' = "there"
    /\ out' = Silent
    /\ UNCHANGED <<err, file, fileEnd, chains, free, nextH, writer, reader>>

\* The first part of the first Create: the file is created unless the store
\* was closed, and may fail to be.
InitFile ==
    /\ Unlocked
    /\ ~initialized
    /\ initialized' = TRUE
    /\ IF err # "none"
       THEN UNCHANGED <<temp, err>>
       ELSE \/ temp' = "there" /\ UNCHANGED err
            \/ err' = "nofile" /\ UNCHANGED temp
    /\ out' = Silent
    /\ UNCHANGED <<file, fileEnd, chains, free, nextH, writer, reader>>

Create ==
    /\ Unlocked
    /\ initialized
    /\ err = "none"
    /\ nextH \in Handles
    /\ nextH' = nextH + 1
    /\ writer' = [writer EXCEPT ![nextH].state = "open"]
    /\ out' = Silent
    /\ UNCHANGED <<initialized, temp, err, file, fileEnd, chains, free, reader>>

\* Mutant of Full: a reused extent is full only when overfilled.
FullMutant(w) ==
    IF w.growing THEN w.cur.offset + w.cur.length # fileEnd ELSE w.curLen > w.cur.length

\* A reused extent is full when filled, a growing one when it is not the last.
Full(w) ==
    IF w.growing THEN w.cur.offset + w.cur.length # fileEnd ELSE w.curLen >= w.cur.length

\* Bound: what can be written before the file outgrows its capacity.
Room(w) ==
    Capacity - fileEnd
        + IF w.growing /\ ~Full(w) THEN 0 ELSE Size(free) + w.cur.length - w.curLen

\* Write takes the mutex with n bytes to write.
Write(h, n) ==
    /\ Unlocked
    /\ writer[h].state = "open"
    /\ err = "none"
    /\ Written(writer[h]) + n <= MaxSize
    /\ n <= Room(writer[h])
    /\ writer' = [writer EXCEPT ![h].left = n]
    /\ out' = Silent
    /\ UNCHANGED <<initialized, temp, err, file, fileEnd, chains, free, nextH, reader>>

\* The next extent: the one freed last, or a growing one at the end.
Advance(w) ==
    LET available == free \o Unfilled(w) IN
    IF available # <<>>
    THEN [w |-> [w EXCEPT !.chain = Commit(w), !.cur = Last(available),
                          !.curLen = 0, !.growing = FALSE],
          free |-> Front(available)]
    ELSE [w |-> [w EXCEPT !.chain = Commit(w), !.cur = Extent(fileEnd, 0),
                          !.curLen = 0, !.growing = TRUE],
          free |-> <<>>]

\* One iteration of Write: n bytes of the chunk are written, and if that is
\* not all of it the call fails, with those n bytes kept.
WriteChunk(h, n) ==
    LET w     == writer[h]
        next  == IF Full(w) THEN Advance(w) ELSE [w |-> w, free |-> free]
        v     == next.w
        at    == v.cur.offset + v.curLen
        chunk == IF v.growing \/ w.left <= v.cur.length - v.curLen
                 THEN w.left ELSE v.cur.length - v.curLen
        grown == Extent(v.cur.offset, v.curLen + n)
    IN
    /\ w.left > 0
    /\ n <= chunk
    /\ file' = [i \in 1..Capacity |->
            IF i \in (at + 1)..(at + n) THEN Byte(h, Written(w) + i - at) ELSE file[i]]
    /\ writer' = [writer EXCEPT ![h] =
            [v EXCEPT !.curLen = @ + n,
                      !.cur = IF v.growing THEN grown ELSE @,
                      !.err = n < chunk,
                      !.left = IF n < chunk THEN 0 ELSE w.left - n]]
    /\ fileEnd' = IF v.growing THEN grown.offset + grown.length ELSE fileEnd
    /\ free' = next.free
    /\ out' = Silent
    /\ UNCHANGED <<initialized, temp, err, chains, nextH, reader>>

\* Closing a writer publishes its chain, or frees everything it reserved if
\* its last write failed.  After the store is closed it does nothing.
CloseWriter(h) ==
    LET w == writer[h] IN
    /\ Unlocked
    /\ w.state = "open"
    /\ writer' = [writer EXCEPT ![h] = Closed]
    /\ IF err # "none"
       THEN UNCHANGED <<free, chains>>
       ELSE IF w.err
       THEN /\ free' = free \o Reserved(w)
            /\ UNCHANGED chains
       ELSE /\ free' = free \o Unfilled(w)
            /\ chains' = [k \in DOMAIN chains \cup {h} |->
                            IF k = h THEN Commit(w) ELSE chains[k]]
    /\ out' = Silent
    /\ UNCHANGED <<initialized, temp, err, file, fileEnd, nextH, reader>>

\* Delete does not look at the store's error, and does nothing for a handle
\* whose writer is still open.
Delete(h) ==
    /\ Unlocked
    /\ h \in DOMAIN chains
    /\ chains' = [k \in DOMAIN chains \ {h} |-> chains[k]]
    /\ free' = free \o chains[h]
    /\ out' = Silent
    /\ UNCHANGED <<initialized, temp, err, file, fileEnd, nextH, writer, reader>>

\* Every Open makes a reader, which takes the blob's size then.
Open(r, h) ==
    /\ Unlocked
    /\ err = "none"
    /\ h \in DOMAIN chains
    /\ reader[r] = NoReader
    /\ reader' = [reader EXCEPT ![r] = [h |-> h, pos |-> 0, size |-> Size(chains[h])]]
    /\ out' = Silent
    /\ UNCHANGED <<initialized, temp, err, file, fileEnd, chains, free, nextH, writer>>

\* A read of up to len bytes looks its chain up again, and stops at the end of
\* the extent it starts in.  The file may fail after n bytes.
Read(r, len) ==
    LET h   == reader[r].h
        pos == reader[r].pos
        Returns(bytes, e) ==
            /\ out' = Result(r, bytes, e)
            /\ reader' = [reader EXCEPT ![r].pos = @ + Len(bytes)]
    IN
    /\ Unlocked
    /\ h # NoHandle
    /\ IF pos >= reader[r].size THEN Returns(<<>>, "eof")
       ELSE IF err # "none" THEN Returns(<<>>, "closed")
       ELSE IF h \notin DOMAIN chains THEN Returns(<<>>, "deleted")
       ELSE IF pos >= Size(chains[h]) THEN Returns(<<>>, "eof")
       ELSE LET k     == Holding(chains[h], pos)
                e     == chains[h][k]
                skip  == pos - Upto(chains[h])[k - 1]
                chunk == IF len <= e.length - skip THEN len ELSE e.length - skip
            IN  \E n \in 0..chunk :
                    Returns([i \in 1..n |-> file[e.offset + skip + i]],
                            IF n < chunk THEN "io" ELSE "none")
    /\ UNCHANGED <<initialized, temp, err, file, fileEnd, chains, free, nextH, writer>>

Seek(r, pos) ==
    /\ Unlocked
    /\ reader[r].h # NoHandle
    /\ reader' = [reader EXCEPT ![r].pos = pos]
    /\ out' = Silent
    /\ UNCHANGED <<initialized, temp, err, file, fileEnd, chains, free, nextH, writer>>

\* Close closes the file, after which its bytes are read no more, and removes it
\* or returns an error.  A second Close, or one after the file could not be
\* created, does nothing.
CloseStore ==
    /\ Unlocked
    /\ err = "none"
    /\ err' = "closed"
    /\ temp' \in IF temp = "none" THEN {"none"} ELSE {"none", "left"}
    /\ file' = [i \in 1..Capacity |-> Hole]
    /\ out' = Silent
    /\ UNCHANGED <<initialized, fileEnd, chains, free, nextH, writer, reader>>

Next ==
    \/ InitFile
    \/ Create
    \/ \E h \in Handles, n \in 1..MaxSize : Write(h, n)
    \/ \E h \in Handles, n \in 0..MaxSize : WriteChunk(h, n)
    \/ \E h \in Handles : CloseWriter(h)
    \/ \E h \in Handles : Delete(h)
    \/ \E r \in Readers, h \in Readable : Open(r, h)
    \/ \E r \in Readers, len \in 1..MaxSize : Read(r, len)
    \/ \E r \in Readers, pos \in 0..MaxSize : Seek(r, pos)
    \/ CloseStore

\* The goroutine inside Write goes on.
Spec == Init /\ [][Next]_vars /\ WF_vars(\E h \in Handles, n \in 0..MaxSize : WriteChunk(h, n))

-----------------------------------------------------------------------------
(***************************************************************************)
(* Properties.                                                             *)
(***************************************************************************)

TypeOK ==
    /\ initialized \in BOOLEAN /\ temp \in {"none", "there", "left"}
    /\ err \in {"none", "closed", "nofile"}
    /\ fileEnd \in Nat
    /\ DOMAIN chains \subseteq Handles
    /\ \A h \in DOMAIN chains : chains[h] \in Seq(Filled)
    /\ free \in Seq(Filled)
    /\ nextH \in Nat
    /\ writer \in [Handles -> Writer]
    /\ \A h \in Handles : writer[h].curLen <= writer[h].cur.length
    /\ \A r \in Readers : reader[r].h \in Handles \cup {NoHandle}

\* The extents of a blob, or reserved by its open writer; those of NoHandle are
\* the free ones.
Owned(o) ==
    IF o = NoHandle THEN free
    ELSE IF o \in DOMAIN chains THEN chains[o]
    ELSE IF writer[o].state = "open" THEN Append(writer[o].chain, writer[o].cur)
    ELSE <<>>

Covers(e, b) == e.offset < b /\ b <= e.offset + e.length

\* Every byte of the file up to its end belongs to exactly one extent: two
\* blobs never share a byte, and failed writes, deletes and partly filled
\* extents lose none.
Tiled ==
    err = "none" =>
        LET Owners == Handles \cup {NoHandle}
            At(o, k, b) == Covers(Owned(o)[k], b)
        IN  /\ \A b \in 1..fileEnd : \E o \in Owners : \E k \in DOMAIN Owned(o) : At(o, k, b)
            /\ \A b \in 1..Capacity : \A o, p \in Owners :
                \A j \in DOMAIN Owned(o), k \in DOMAIN Owned(p) :
                    At(o, j, b) /\ At(p, k, b) => o = p /\ j = k /\ b <= fileEnd

\* Closing the store leaves no temp file behind, even when it comes between the
\* two halves of the first Create: only a Close that says so leaves one.
NoTempFileAfterClose == err = "closed" => temp # "there"

\* A Write returns: its loop does not spin on an extent without room.
WriteReturns == \A h \in Handles : writer[h].left > 0 ~> writer[h].left = 0

(***************************************************************************)
(* The store implements the map that BlobSpec describes: the bytes of the  *)
(* file along a blob's chain are those written to it, and in that order.   *)
(***************************************************************************)
Status(h) ==
    IF h \in DOMAIN chains THEN "ready"
    ELSE IF writer[h].state = "unused" THEN "unused"
    ELSE IF writer[h].state = "open" THEN "writing"
    ELSE "gone"

Content(h) ==
    IF err # "none" THEN <<>>
    ELSE IF h \in DOMAIN chains THEN Stored(chains[h])
    ELSE IF writer[h].state = "open"
    THEN LET w == writer[h] IN Stored(Append(w.chain, Extent(w.cur.offset, w.curLen)))
    ELSE <<>>

Blob == INSTANCE BlobSpec WITH
    status  <- [h \in Handles |-> Status(h)],
    content <- [h \in Handles |-> Content(h)],
    failed  <- [h \in Handles |-> writer[h].err],
    closed  <- err # "none"

\* Whatever readers and writers do, and whatever the file system refuses.
ImplementsBlobSpec == Blob!Spec
=============================================================================
