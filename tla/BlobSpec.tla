------------------------------ MODULE BlobSpec ------------------------------
(***************************************************************************)
(* What internal/blobstore promises: a map from handles to byte sequences. *)
(* A blob can be read once its writer is closed without an error, until it *)
(* is deleted or the store is closed, and then only an error is returned.  *)
(* Nothing here says where the bytes are kept.                             *)
(***************************************************************************)
EXTENDS Integers, Sequences

CONSTANTS
    Handles,
    NoHandle,
    Readers,
    MaxSize         \* bound: the longest blob

VARIABLES
    status,         \* of a handle: unused, being written, ready to read, gone
    content,        \* the bytes that were written to it
    failed,         \* whether the last write to it failed
    closed,
    reader,         \* the handle, position and size of each reader
    out             \* what the last step returned to a reader

vars == <<status, content, failed, closed, reader, out>>

Statuses == {"unused", "writing", "ready", "gone"}

\* No two bytes are alike, so that no wrong byte passes for a right one.
Byte(h, i) == <<h, i>>

NoReader == [h |-> NoHandle, pos |-> 0, size |-> 0]

\* What a read returns, and what a step that is no read returns to no reader.
Result(r, bytes, err) == [reader |-> r, bytes |-> bytes, err |-> err]
Silent == [reader |-> NoHandle, bytes |-> <<>>, err |-> "none"]

Init ==
    /\ status = [h \in Handles |-> "unused"]
    /\ content = [h \in Handles |-> <<>>]
    /\ failed = [h \in Handles |-> FALSE]
    /\ closed = FALSE
    /\ reader = [r \in Readers |-> NoReader]
    /\ out = Silent

Create(h) ==
    /\ ~closed
    /\ status[h] = "unused"
    /\ status' = [status EXCEPT ![h] = "writing"]
    /\ out' = Silent
    /\ UNCHANGED <<content, failed, closed, reader>>

\* A write appends what it could write and remembers whether it failed.
Extend(h, n, fails) ==
    /\ ~closed
    /\ status[h] = "writing"
    /\ content' = [content EXCEPT ![h] =
            @ \o [i \in 1..n |-> Byte(h, Len(@) + i)]]
    /\ failed' = [failed EXCEPT ![h] = fails]
    /\ out' = Silent
    /\ UNCHANGED <<status, closed, reader>>

Retire(h, st) ==
    /\ status' = [status EXCEPT ![h] = st]
    /\ content' = IF st = "gone" THEN [content EXCEPT ![h] = <<>>] ELSE content
    /\ failed' = [failed EXCEPT ![h] = FALSE]
    /\ out' = Silent
    /\ UNCHANGED <<closed, reader>>

\* Closing the writer publishes all that was written, or nothing.
Finish(h) ==
    /\ status[h] = "writing"
    /\ Retire(h, IF closed \/ failed[h] THEN "gone" ELSE "ready")

Delete(h) == status[h] = "ready" /\ Retire(h, "gone")

OpenReader(r, h) ==
    /\ ~closed
    /\ status[h] = "ready"
    /\ reader[r] = NoReader
    /\ reader' = [reader EXCEPT ![r] = [h |-> h, pos |-> 0, size |-> Len(content[h])]]
    /\ out' = Silent
    /\ UNCHANGED <<status, content, failed, closed>>

\* A reader gets at least one byte of its blob, or is told why not.
Read(r) ==
    LET h   == reader[r].h
        pos == reader[r].pos
    IN
    /\ h # NoHandle
    /\ \/ /\ pos >= reader[r].size
          /\ out' = Result(r, <<>>, "eof")
          /\ UNCHANGED reader
       \/ /\ pos < reader[r].size
          /\ closed \/ status[h] = "gone"
          /\ out' = Result(r, <<>>, IF closed THEN "closed" ELSE "deleted")
          /\ UNCHANGED reader
       \/ /\ pos < reader[r].size
          /\ ~closed /\ status[h] = "ready"
          /\ \E n \in 0..(reader[r].size - pos), err \in {"none", "io"} :
                /\ n = 0 => err = "io"
                /\ out' = Result(r, SubSeq(content[h], pos + 1, pos + n), err)
                /\ reader' = [reader EXCEPT ![r].pos = @ + n]
    /\ UNCHANGED <<status, content, failed, closed>>

Seek(r, pos) ==
    /\ reader[r].h # NoHandle
    /\ reader' = [reader EXCEPT ![r].pos = pos]
    /\ out' = Silent
    /\ UNCHANGED <<status, content, failed, closed>>

CloseStore ==
    /\ closed' = TRUE
    /\ content' = [h \in Handles |-> <<>>]
    /\ out' = Silent
    /\ UNCHANGED <<status, failed, reader>>

Next ==
    \/ \E h \in Handles : Create(h) \/ Finish(h) \/ Delete(h)
    \/ \E h \in Handles, n \in 0..MaxSize, fails \in BOOLEAN : Extend(h, n, fails)
    \/ \E r \in Readers, h \in Handles : OpenReader(r, h)
    \/ \E r \in Readers : Read(r)
    \/ \E r \in Readers, pos \in 0..MaxSize : Seek(r, pos)
    \/ CloseStore

Spec == Init /\ [][Next]_vars
=============================================================================
