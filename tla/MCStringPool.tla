---------------------------- MODULE MCStringPool ----------------------------
(***************************************************************************)
(* PoolClients on a small instance.  Three strings on three cells make a   *)
(* slot free, reused and shared; a ceiling of 2 makes the counters meet it *)
(* when all three cells agree; references above 2 are long, so that both   *)
(* widths and the change between them occur.  The string c fits one code   *)
(* page only, which makes a change of code page fail or narrow what fits.  *)
(***************************************************************************)
EXTENDS PoolClients, TLC

CONSTANTS a, b, c, c1, c2, c3, ascii, utf8

MCStrings == {a, b, c}
MCCells == {c1, c2, c3}
MCCodepages == {ascii, utf8}
MCEncodable == (ascii :> {a, b}) @@ (utf8 :> {a, b, c})
Symmetry == Permutations(MCCells) \cup Permutations({a, b})
=============================================================================
