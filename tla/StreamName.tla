----------------------------- MODULE StreamName -----------------------------
(***************************************************************************)
(* The names of a database's streams, and the names under which they are   *)
(* written: internal/streamname, and the checks of msidb on names that     *)
(* come from a user.                                                       *)
(*                                                                         *)
(* A character is a number and a name a sequence of them.  The characters  *)
(* of the alphabet are its symbols, 0 to SymbolCount - 1.  Two of them are *)
(* written as one character of the range behind Base, one as a character   *)
(* of the range behind that, and the table marker comes next, as in the    *)
(* code.  Other characters are negative numbers and are written as such.   *)
(*                                                                         *)
(* The code page of the database has all characters, as 65001 does:        *)
(* Validate refuses no name of a table and no text of a key.               *)
(***************************************************************************)
EXTENDS Integers, Sequences, FiniteSets, SequencesExt

CONSTANTS
    SymbolCount,    \* 64 in the code
    Dot,            \* the symbol between a table's name and a key
    Fold(_),        \* a character without its case
    Control,        \* the character 5
    Forbidden,      \* the characters that a compound file does not take
    Wide,           \* the characters of two UTF-16 code units
    SystemNames,    \* of system tables and the string pool
    Summary,        \* the name of the summary information's stream
    TableNames, StreamNames, Keys,
    MaxUnits,       \* the longest name of a compound file: 31 code units
    MaxEntries      \* bound: tables and streams

ASSUME StreamNameAssumption ==
    /\ SymbolCount \in Nat \ {0} /\ Dot \in 0..(SymbolCount - 1)
    /\ \A c \in Forbidden \cup Wide \cup {Control} : c \in Int /\ c < 0
    /\ MaxUnits \in Nat /\ MaxEntries \in Nat
    /\ <<>> \notin TableNames \cup StreamNames \cup {Summary}
    /\ TableNames \cup StreamNames \cup Keys \cup {Summary} \subseteq Seq(Int)

VARIABLES tables, streams

vars == <<tables, streams>>

-----------------------------------------------------------------------------
(***************************************************************************)
(* internal/streamname.                                                    *)
(***************************************************************************)

Symbols == 0..(SymbolCount - 1)
PairBase == SymbolCount
SingleBase == PairBase + SymbolCount * SymbolCount
Marker == SingleBase + SymbolCount

Reserved(c) == c >= PairBase /\ c < SingleBase + SymbolCount

RuneLen(c) == IF c \in Wide THEN 2 ELSE 1

\* A wide character counts twice.
Units(s) == Len(s) + Cardinality({i \in DOMAIN s : s[i] \in Wide})

\* Mutant of EncodedLen: the symbol behind a pair is paired again.
EncodedLenMutant(s) ==
    LET len[i \in 1..(Len(s) + 1)] ==
            IF i > Len(s) THEN 0
            ELSE IF s[i] \notin Symbols THEN RuneLen(s[i]) + len[i + 1]
            ELSE IF i < Len(s) /\ s[i + 1] \in Symbols /\ i > 1 THEN len[i + 1]
            ELSE 1 + len[i + 1]
    IN len[1]

EncodedLen(s) ==
    LET len[i \in 1..(Len(s) + 1)] ==
            IF i > Len(s) THEN 0
            ELSE IF s[i] \notin Symbols THEN RuneLen(s[i]) + len[i + 1]
            ELSE IF i < Len(s) /\ s[i + 1] \in Symbols THEN 1 + len[i + 2]
            ELSE 1 + len[i + 1]
    IN len[1]

Encode(s) ==
    LET enc[i \in 1..(Len(s) + 1)] ==
            IF i > Len(s) THEN <<>>
            ELSE IF s[i] \notin Symbols THEN <<s[i]>> \o enc[i + 1]
            ELSE IF i < Len(s) /\ s[i + 1] \in Symbols
                 THEN <<PairBase + s[i] + s[i + 1] * SymbolCount>> \o enc[i + 2]
            ELSE <<SingleBase + s[i]>> \o enc[i + 1]
    IN enc[1]

DecodeChar(c) ==
    IF ~Reserved(c) THEN <<c>>
    ELSE IF c >= SingleBase THEN <<c - SingleBase>>
    ELSE <<(c - PairBase) % SymbolCount, (c - PairBase) \div SymbolCount>>

Decode(s) == FlattenSeq([i \in DOMAIN s |-> DecodeChar(s[i])])

-----------------------------------------------------------------------------
(***************************************************************************)
(* The names of the file's entries, and the checks.                        *)
(***************************************************************************)

IsSpecial(name) == name[1] = Control

TableStreamName(name) == <<Marker>> \o Encode(name)

EntryName(stream) == IF IsSpecial(stream) THEN stream ELSE Encode(stream)

\* Mutant of CheckStreamName: reserved characters pass.
CheckStreamNameMutant(name) ==
    /\ name[1] # Marker
    /\ ToSet(name) \cap Forbidden = {}
    /\ (IF IsSpecial(name) THEN Units(name) ELSE EncodedLen(name)) <= MaxUnits

CheckStreamName(name) ==
    /\ name[1] # Marker
    /\ ToSet(name) \cap Forbidden = {}
    /\ \A i \in DOMAIN name : ~Reserved(name[i])
    /\ (IF IsSpecial(name) THEN Units(name) ELSE EncodedLen(name)) <= MaxUnits

\* The name of the stream that is added without the check would pass it.
ASSUME SummaryAssumption == IsSpecial(Summary) /\ CheckStreamName(Summary)

EqualFold(s, t) == [i \in DOMAIN s |-> Fold(s[i])] = [i \in DOMAIN t |-> Fold(t[i])]

-----------------------------------------------------------------------------
Init == tables = {} /\ streams = {}

Room == Cardinality(tables) + Cardinality(streams) < MaxEntries

CreateTable(name) ==
    /\ Room
    /\ name \notin SystemNames \cup tables
    /\ EncodedLen(name) <= MaxUnits - 1
    /\ ToSet(name) \cap Forbidden = {}
    /\ tables' = tables \cup {name}
    /\ UNCHANGED streams

\* DROP TABLE takes the streams of the table's records with it, some or all of
\* those whose names begin with the table's.
DropTable(name) ==
    /\ tables' = tables \ {name}
    /\ \E own \in SUBSET {s \in streams : IsPrefix(Append(name, Dot), s)} :
        streams' = streams \ own

\* INSERT INTO _Streams.
InsertStream(name) ==
    /\ Room
    /\ CheckStreamName(name)
    /\ name \notin streams
    /\ IsSpecial(name) => \A s \in streams : ~(IsSpecial(s) /\ EqualFold(s, name))
    /\ streams' = streams \cup {name}
    /\ UNCHANGED tables

\* INSERT or UPDATE of a record with an OBJECT cell.
AddStream(table, key) ==
    LET name == table \o <<Dot>> \o key IN
    /\ Room
    /\ CheckStreamName(name)
    /\ streams' = streams \cup {name}
    /\ UNCHANGED tables

SetSummaryInformation ==
    /\ Room
    /\ streams' = streams \cup {Summary}
    /\ UNCHANGED tables

DropStream(name) ==
    /\ streams' = streams \ {name}
    /\ UNCHANGED tables

Next ==
    \/ \E name \in TableNames : CreateTable(name)
    \/ \E name \in tables : DropTable(name)
    \/ \E name \in StreamNames : InsertStream(name)
    \/ \E table \in tables, key \in Keys : AddStream(table, key)
    \/ SetSummaryInformation
    \/ \E name \in streams : DropStream(name)

Spec == Init /\ [][Next]_vars

-----------------------------------------------------------------------------
(***************************************************************************)
(* Properties.                                                             *)
(***************************************************************************)

\* A stream is found again under its name, and not taken for a table, when the
\* file is read (checkStreamName's comment).  So no two have the same entry.
StreamsReadBack ==
    \A s \in streams :
        /\ EntryName(s)[1] # Marker
        /\ Decode(EntryName(s)) = s

\* No entry has a name that is too long for a compound file: EncodedLen counts
\* what Encode produces.
LengthsFit ==
    /\ \A s \in streams : Units(EntryName(s)) <= MaxUnits
    /\ \A t \in tables : Units(TableStreamName(t)) <= MaxUnits

\* Decode's comment says that it returns the name that is stored under the name
\* of a stream.
TablesReadBack == \A t \in tables : Decode(Tail(TableStreamName(t))) = t
=============================================================================
