------------------------------ MODULE MCCells -------------------------------
(***************************************************************************)
(* Cells with bytes of four values: a short integer has 16 values and a    *)
(* long one 256, a reference of two bytes ends at 15 and an int64 at       *)
(* 32767.  The arguments of INSERT lie on both sides of every limit, in    *)
(* types of every width and sign.                                          *)
(***************************************************************************)
EXTENDS Cells

Named(v) == [type |-> "named", under |-> v]
Pointer(v) == [type |-> "pointer", to |-> v]
Valuer(v) == [type |-> "valuer", result |-> v]
Reader(s) == [type |-> "reader", of |-> s]
Float == [type |-> "other"]

MCValues ==
    {Num("int", 7), Num("int", 8), Num("int", -8), Num("int32", 127),
     Num("int64", -128), Num("uint64", 65535), Str("+7"), Str("x"), Str(""), Bytes("x"),
     Reader("y"), Pointer(Nil), Valuer(Pointer(Str("y"))), Named(Num("int8", -2)), Float}

MCNumbers == {7, 8, -8, 127, -128, 65535, -2}
MCNumerals == "+7" :> 7
MCIds == {1, 16}

Def(name, type, size, flags) ==
    [name |-> name, type |-> type, size |-> size, notNull |-> "NOT NULL" \in flags,
     temporary |-> "TEMPORARY" \in flags, localizable |-> "LOCALIZABLE" \in flags]

Create(columns, key, held) == [columns |-> columns, key |-> key, hold |-> held]

MCDeclarations ==
    {Create(<<Def("K", "SHORT", 0, {"NOT NULL"}), Def("V", "LONG", 0, {})>>, <<"K">>, FALSE),
     Create(<<Def("V", "LONGCHAR", 0, {"LOCALIZABLE"}), Def("K", "INT", 0, {})>>, <<"K">>, FALSE),
     Create(<<Def("K", "CHAR", 9, {}), Def("V", "OBJECT", 0, {})>>, <<"K">>, FALSE),
     \* The key's columns change places with others.
     Create(<<Def("X", "LONG", 0, {}), Def("Y", "CHAR", 255, {"NOT NULL"}),
              Def("Z", "SHORT", 0, {})>>, <<"Z", "X">>, FALSE),
     Create(<<Def("X", "LONG", 0, {}), Def("Y", "SHORT", 0, {}), Def("Z", "CHAR", 1, {})>>,
            <<"Y", "Z", "X">>, FALSE),
     \* Temporary columns, behind the others, ahead of them, and alone.
     Create(<<Def("K", "CHAR", 0, {}), Def("T", "SHORT", 0, {"TEMPORARY"})>>, <<"K">>, TRUE),
     Create(<<Def("T", "SHORT", 0, {"TEMPORARY"}), Def("K", "LONG", 0, {})>>, <<"K">>, TRUE),
     Create(<<Def("T", "SHORT", 0, {"TEMPORARY"}), Def("X", "SHORT", 0, {}),
              Def("K", "LONG", 0, {})>>, <<"K">>, FALSE),
     Create(<<Def("K", "SHORT", 0, {}), Def("T", "OBJECT", 0, {"TEMPORARY"})>>, <<"K">>, FALSE),
     Create(<<Def("K", "SHORT", 0, {"TEMPORARY"})>>, <<"K">>, TRUE),
     Create(<<Def("K", "SHORT", 0, {"TEMPORARY"})>>, <<"K">>, FALSE),
     \* Statements that are refused.
     Create(<<Def("K", "OBJECT", 0, {})>>, <<"K">>, FALSE),
     Create(<<Def("K", "SHORT", 0, {})>>, <<"K", "K">>, FALSE),
     Create(<<Def("K", "SHORT", 0, {"TEMPORARY"}), Def("X", "SHORT", 0, {})>>, <<"K">>, TRUE)}

MCAdditions ==
    {Def("A", "CHAR", 7, {"TEMPORARY"}), Def("A", "OBJECT", 0, {}),
     Def("A", "LONGCHAR", 0, {"LOCALIZABLE", "NOT NULL"})}
=============================================================================
