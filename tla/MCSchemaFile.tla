---------------------------- MODULE MCSchemaFile ----------------------------
(* Schema files of up to four entries, good and bad, with every ending a   *)
(* line can have.  The types are "i" and "st", neither a prefix of the     *)
(* other, as "int" and "string" are not.                                   *)
EXTENDS SchemaFile

UpTo(S, n) == UNION {[1 .. k -> S] : k \in 0 .. n}

MCPiece == {"a", "b", "A", "i", "s", "t", "I", "T", Comma, Colon, "\n", "\r"}
MCLower == [ch \in MCPiece |->
               CASE ch = "A" -> "a" [] ch = "I" -> "i" [] ch = "T" -> "t" [] OTHER -> ch]
MCTypeNames == [t \in {<<"i">>, <<"s", "t">>} |-> IF t = <<"i">> THEN "INT" ELSE "STRING"]

Good == {<<"a", Colon, "i">>, <<"b", "b", Colon, "I">>, <<"A", "a", "b", "b", "a", Colon, "s", "T">>}
Bad == {<<>>, <<"a">>, <<Colon, "i">>, <<"a", "a", "b", "b", "a", "b", Colon, "i">>, <<"a", Colon, "t">>,
        <<"a", Colon, "i", Colon>>}

JoinedBy(entries) ==
    FlattenSeq([k \in DOMAIN entries |-> IF k = 1 THEN entries[k] ELSE <<Comma>> \o entries[k]])
Endings == {<<>>, <<"\n">>, <<"\r", "\n">>, <<"\n", "b", Comma>>}

MCSchemaFiles ==
    {NoFile}
      \cup {[exists |-> TRUE, text |-> JoinedBy(e) \o end] :
               e \in UpTo(Good \cup Bad, 3) \cup [1 .. 4 -> Good \cup {<<>>}], end \in Endings}
=============================================================================
