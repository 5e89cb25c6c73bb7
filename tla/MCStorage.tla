----------------------------- MODULE MCStorage ------------------------------
(* The schemas, SQL files and data files that the configurations of        *)
(* StorageProps are made of.                                               *)
EXTENDS StorageProps

CONSTANTS a, b, z, one, two, x, y, equals      \* pieces
CONSTANTS p1, p2                               \* processes

Col(name, type) == [name |-> <<name>>, type |-> type]
IntLit(text) == [text |-> <<text>>, type |-> "INT"]
StrLit(text) == [text |-> <<text>>, type |-> "STRING"]
StrLits(texts) == [k \in DOMAIN texts |-> [text |-> texts[k], type |-> "STRING"]]
InsertInto(columns, values) ==
    [kind |-> "INSERT", has_list |-> TRUE, columns |-> columns, values |-> values]
InsertValues(values) ==
    [kind |-> "INSERT", has_list |-> FALSE, columns |-> <<>>, values |-> values]
SelectAll == [kind |-> "SELECT", all |-> TRUE, columns |-> <<>>]
SelectColumns(columns) == [kind |-> "SELECT", all |-> FALSE, columns |-> columns]

MCPiece == {a, b, z, one, two, x, y, equals, Comma, Quote}
MCIntText == {<<one>>, <<two>>}
MCFormulaText == {<<equals>>}
Symmetry == Permutations({p1, p2})

(* A table of two columns, with other types, in the other order, and cut.  *)
AB        == <<Col(a, "INT"), Col(b, "STRING")>>
ABStrings == <<Col(a, "STRING"), Col(b, "STRING")>>
BA        == <<Col(b, "STRING"), Col(a, "INT")>>
OneSchema == {AB}
OnlyA     == <<Col(a, "INT")>>
EditedSchemas == {AB, ABStrings, BA, OnlyA, <<>>}

Insert1 == InsertInto(<< <<b>>, <<a>> >>, <<StrLit(x), IntLit(one)>>)
Insert2 == InsertValues(<<IntLit(two), StrLit(y)>>)
InsertOne == InsertValues(<<IntLit(one)>>)
InsertStrings == InsertValues(<<StrLit(Comma), StrLit(y)>>)
InsertComma == InsertValues(<<IntLit(one), StrLit(Comma)>>)

Absent == [exists |-> FALSE, lines |-> <<>>]
Present(ls) == [exists |-> TRUE, lines |-> ls]
HeaderAB == HeaderBytes(<< <<a>>, <<b>> >>)
HeaderBA == HeaderBytes(<< <<b>>, <<a>> >>)
Row1 == WriteRow(<< <<one>>, <<x>> >>)
WithRow == Present(<<HeaderAB, Row1>>)

(* Two runs at a time on a table that is there.                            *)
SharedPrograms == {<<Insert1>>, <<InsertStrings, SelectAll>>, <<Insert2, InsertOne>>,
                   <<SelectColumns(<< <<b>> >>), Insert2>>}
SharedFiles == {Present(<<HeaderAB>>), WithRow}
NameEdits == {AB, BA, <<>>}

(* Runs one after the other on a table that may not be there yet, may have *)
(* lost its header or may have another one.                                *)
FreshPrograms == {<<Insert1, SelectAll>>, <<SelectColumns(<< <<b>>, <<a>> >>), Insert2>>,
                  <<InsertComma, InsertStrings, Insert1>>, <<SelectColumns(<< <<z>> >>)>>,
                  <<Insert1, InsertInto(<< <<a>> >>, <<IntLit(one)>>)>>,
                  <<InsertValues(<<IntLit(one), StrLit(equals)>>), Insert2>>}
FreshFiles == {Absent, Present(<<>>), Present(<<HeaderBA>>), WithRow}

(* Rows of three columns with commas and quotes in them, torn anywhere.    *)
ABZ == <<Col(a, "STRING"), Col(b, "STRING"), Col(z, "STRING")>>
WideSchemas == {ABZ}
Wide1 == InsertValues(StrLits(<< <<x>>, <<y, Comma>>, <<z>> >>))
Wide2 == InsertValues(StrLits(<< <<one>>, <<Comma, two>>, <<Quote>> >>))
Plain == InsertValues(StrLits(<< <<x>>, <<>>, <<y>> >>))
TornPrograms == {<<Wide1, SelectAll>>, <<Plain, Wide2>>, <<Wide2>>}
TornFiles == {Absent, Present(<<HeaderBytes(Names(ABZ))>>)}

(* Files that are there, or are not yet, for two runs that cannot open     *)
(* them; one row is longer than the header that may be written over it.    *)
UnreadablePrograms == {<<Insert1, Insert2>>, <<SelectAll, InsertComma>>}
UnreadableFiles == {Absent, WithRow}

(* A schema of MaxColumns columns and the longest values they can take.    *)
Long(k) == [j \in 1 .. MaxValueLen - 1 |-> k]
Widest == InsertValues([j \in 1 .. MaxColumns |-> [text |-> Long(x), type |-> "STRING"]])
WidestSchemas == {[j \in 1 .. MaxColumns |-> Col(<<a, b, z>>[j], "STRING")]}
WidestPrograms == {<<Widest, SelectAll>>}
OneInsert == {<<Insert2>>}
AbsentFile == {Absent}
=============================================================================
