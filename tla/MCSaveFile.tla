----------------------------- MODULE MCSaveFile -----------------------------
(***************************************************************************)
(* SaveFile on a small instance: two processes with a database open on the *)
(* same path, three sessions in all, and two names for temporary files,    *)
(* so that a name may be taken by the other process or by a killed one.    *)
(***************************************************************************)
EXTENDS SaveFile, TLC

CONSTANTS p1, p2, x1, x2

MCProcs == {p1, p2}
MCNames == {x1, x2}
Symmetry == Permutations(MCProcs) \cup Permutations(MCNames)
=============================================================================
