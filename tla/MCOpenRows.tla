----------------------------- MODULE MCOpenRows -----------------------------
(***************************************************************************)
(* OpenRows on a small instance: two result sets over one record of up to  *)
(* three columns, and four ALTER TABLE statements, enough to drop a column *)
(* and put another in its place twice while a result set is open.  Records *)
(* do not meet each other: a second one would only repeat the first.       *)
(***************************************************************************)
EXTENDS OpenRows, TLC

CONSTANTS r1, r2, x

MCRows == {r1, r2}
MCRecords == {x}
Symmetry == Permutations(MCRows)
=============================================================================
