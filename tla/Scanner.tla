------------------------------ MODULE Scanner -------------------------------
(***************************************************************************)
(* The tokens of a statement: internal/sql/scan.go.                        *)
(*                                                                         *)
(* A text is a sequence of characters.  The letters of a keyword, in       *)
(* either case, count as one character, named by the keyword: next to      *)
(* other letters or digits it is a part of an identifier, as in the code.  *)
(***************************************************************************)
EXTENDS Integers, Sequences, SequencesExt

CONSTANTS
    Letters,    \* the other characters an identifier may start with
    Spaces

Keywords ==
    {"ADD", "ALTER", "AND", "AS", "BY", "CHAR", "CREATE", "DELETE", "DISTINCT", "DROP",
     "FREE", "FROM", "HOLD", "INSERT", "INT", "INTO", "IS", "KEY", "LOCALIZABLE", "LONG",
     "LONGCHAR", "NOT", "NULL", "OBJECT", "OR", "ORDER", "PRIMARY", "SELECT", "SET",
     "SHORT", "TABLE", "TEMPORARY", "UPDATE", "VALUES", "VARCHAR", "WHERE"}

\* The character of this name: TLA+ strings have none.
Backtick == "backtick"

Synonyms == [CHARACTER |-> "CHAR", INTEGER |-> "INT"]

IdentStart == Letters \cup Keywords \cup DOMAIN Synonyms
Digits == {"0", "1", "2", "3", "4", "5", "6", "7", "8", "9"}
Ident == IdentStart \cup Digits

ASSUME ScannerAssumption ==
    /\ Letters \cap (Keywords \cup DOMAIN Synonyms \cup Digits \cup Spaces) = {}

-----------------------------------------------------------------------------
\* The position behind the longest run of characters of S that starts at i.
EndOfRun(s, i, S) ==
    CHOOSE j \in i..(Len(s) + 1) :
        /\ j > Len(s) \/ s[j] \notin S
        /\ \A k \in i..(j - 1) : s[k] \in S

\* The position of the next c from i on, or 0.
IndexOf(s, i, c) ==
    LET found == {j \in i..Len(s) : s[j] = c}
    IN IF found = {} THEN 0 ELSE CHOOSE j \in found : \A k \in found : j <= k

Has(s, i, S) == i <= Len(s) /\ s[i] \in S

\* A token of s from start on; the next scan begins at next.
Token(kind, s, start, next) ==
    [kind |-> kind, text |-> SubSeq(s, start, next - 1), pos |-> start, next |-> next]

ScanError(start, next) ==
    [kind |-> "error", text |-> <<>>, pos |-> start, next |-> next]

Punctuation == {"(", ")", ",", ".", "*", "?", "="}

ScanOperator(s, start) ==
    LET two == IF s[start] = "<" THEN {"=", ">"} ELSE {"="}
    IN IF Has(s, start + 1, two)
       THEN Token(s[start] \o s[start + 1], s, start, start + 2)
       ELSE Token(s[start], s, start, start + 1)

\* A string between quotes may be empty, a name between backticks may not.
ScanString(s, start) ==
    LET end == IndexOf(s, start + 1, "'")
    IN IF end = 0 THEN ScanError(start, start)
       ELSE [Token("string", s, start + 1, end) EXCEPT !.pos = start, !.next = end + 1]

ScanQuoted(s, start) ==
    LET end == IndexOf(s, start + 1, Backtick)
    IN IF end \in {0, start + 1} THEN ScanError(start, start)
       ELSE [Token("ident", s, start + 1, end) EXCEPT !.pos = start, !.next = end + 1]

ScanNumber(s, start) ==
    LET end == EndOfRun(s, start + 1, Digits)
    IN IF SubSeq(s, start, end - 1) = <<"-">> THEN ScanError(start, end)
       ELSE IF Has(s, end, IdentStart) THEN ScanError(start, EndOfRun(s, end, Ident))
       ELSE Token("int", s, start, end)

KeywordKind(word) ==
    IF Len(word) # 1 THEN "ident"
    ELSE IF word[1] \in Keywords THEN word[1]
    ELSE IF word[1] \in DOMAIN Synonyms THEN Synonyms[word[1]]
    ELSE "ident"

ScanIdent(s, start) ==
    LET end == EndOfRun(s, start, Ident)
    IN Token(KeywordKind(SubSeq(s, start, end - 1)), s, start, end)

Scan(s, pos) ==
    LET start == EndOfRun(s, pos, Spaces)
    IN IF start > Len(s) THEN Token("EOF", s, start, start)
       ELSE IF s[start] \in Punctuation THEN Token(s[start], s, start, start + 1)
       ELSE IF s[start] \in {"<", ">"} THEN ScanOperator(s, start)
       ELSE IF s[start] = "'" THEN ScanString(s, start)
       ELSE IF s[start] = Backtick THEN ScanQuoted(s, start)
       ELSE IF s[start] \in Digits \cup {"-"} THEN ScanNumber(s, start)
       ELSE IF s[start] \in IdentStart THEN ScanIdent(s, start)
       ELSE ScanError(start, start + 1)

\* The tokens that a parser sees: it scans nothing behind an error.
Tokens(s) ==
    LET RECURSIVE From(_)
        From(pos) ==
            LET t == Scan(s, pos)
            IN IF t.kind \in {"EOF", "error"} THEN <<t>> ELSE <<t>> \o From(t.next)
    IN From(1)
=============================================================================
