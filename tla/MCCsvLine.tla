----------------------------- MODULE MCCsvLine ------------------------------
(* Rows and headers of up to three cells of up to two characters, with all *)
(* the commas and quotes they can hold, any line of six characters, and    *)
(* lines of three cells that fill the buffer or have a byte left.          *)
EXTENDS CsvLine

UpTo(S, n) == UNION {[1 .. k -> S] : k \in 0 .. n}
From1To(S, n) == UNION {[1 .. k -> S] : k \in 1 .. n}

MCPiece == {"a", Comma, Quote, Newline, Return}
MCRows == From1To(UpTo({"a", Comma, Quote}, 2), 3)
MCHeaders == From1To(From1To({"a", Quote}, 2), 3)
Full == <<Quote, "a", Quote, Comma, Quote, "a", Quote, Comma, "a", Quote, Quote, "a">>
Filling == {l \o end : l \in {Full, Front(Full)}, end \in {<<>>, <<Newline>>}}
MCForeign == From1To(MCPiece, 3) \cup From1To({"a", Comma, Quote}, 6) \cup Filling
               \cup {<<"a", Comma, "a", Comma, "a">> \o t : t \in UpTo({"a", Comma, Newline}, 3)}
=============================================================================
