------------------------------ MODULE MCParser ------------------------------
(* Every program of the grammar, and every beginning of one with every     *)
(* token behind it, a name that is too long included.  The names and the   *)
(* values differ from place to place, so that no two can be confused.      *)
EXTENDS Parser

MCPiece == {"a", "b", "c"}
TextAt(n) == <<CASE n % 3 = 0 -> "a" [] n % 3 = 1 -> "b" [] n % 3 = 2 -> "c">>
TextFor(type, n) == CASE type = "LONG" -> <<"a", "a">>
                      [] type \in {"IDENTIFIER", "NUMBER", "STRING"} -> TextAt(n)
                      [] OTHER -> <<>>
ListOf(types) == [n \in DOMAIN types |->
                     [type |-> IF types[n] = "LONG" THEN "IDENTIFIER" ELSE types[n],
                      text |-> TextFor(types[n], n)]]

MCTokenLists ==
    {ListOf(s) : s \in Sentences}
      \cup {ListOf(v \o end) : v \in {v \in Viable : v = <<>> \/ Last(v) # "EOF"},
               end \in {<<"EOF">>}
                         \cup {<<t, "EOF">> : t \in (TokenType \ {"EOF"}) \cup {"LONG"}}}
=============================================================================
