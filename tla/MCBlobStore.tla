---------------------------- MODULE MCBlobStore -----------------------------
(***************************************************************************)
(* BlobStore on a small instance: three blobs of up to two bytes in a file *)
(* of three, and a reader.  Extents are freed, split, and filled again by  *)
(* a blob that spans two of them, with two writers at work at a time; once *)
(* a blob is deleted another one overwrites it while it is read.  The      *)
(* reader opens the first blob, whose extents others may get, or the last, *)
(* which may have got those of others.                                     *)
(***************************************************************************)
EXTENDS BlobStore

ThreeHandles == 0..2
OneReader == {"r"}
FirstAndLast == {0, 2}
=============================================================================
