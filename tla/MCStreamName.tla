---------------------------- MODULE MCStreamName ----------------------------
(***************************************************************************)
(* StreamName with an alphabet of a capital letter, a small one and the    *)
(* dot, and names of up to three code units: all short names, and some     *)
(* that are long enough for pairs to line up in every way.                 *)
(***************************************************************************)
EXTENDS StreamName

\* The symbols, then the other characters.
A == 0
a == 1
dot == 2
five == -1
slash == -2
accent == -3
smiley == -4

MCFold(ch) == IF ch = a THEN A ELSE ch
MCControl == five
MCForbidden == {slash}
MCWide == {smiley}

\* The character that "Aa" is written as, the one that "a" is, and the marker.
pairAa == 3 + A + 3 * a
singleA == 12 + a
marker == 15

Short ==
    LET chars == {A, a, five, slash, accent, smiley, pairAa, singleA, marker} IN
    {<<x>> : x \in chars} \cup {<<x, y>> : x \in chars, y \in chars}

Long ==
    UNION {[1..n -> {A, accent}] : n \in {3, 4}}
    \cup {[i \in 1..n |-> a] : n \in 5..7}
    \cup {<<five, A, a, A>>, <<five, A, a>>, <<A, A, A, smiley>>, <<smiley, A, a, A>>}

MCTableNames == {n \in Short \cup Long : five \notin {n[i] : i \in DOMAIN n}} \cup {<<five>>}
MCStreamNames == Short \cup Long
MCKeys == {<<>>, <<A>>, <<a>>, <<accent>>, <<A, a, A>>}
MCSummary == <<five, A>>
MCSystemNames == {<<A, A, A>>}
=============================================================================
