------------------------------- MODULE MCApp --------------------------------
(* Every text of up to four characters, longer ones put together from      *)
(* fragments, some larger than the buffer, with a disk that fails at any   *)
(* byte of them; and the command lines with every choice of arguments.     *)
EXTENDS App

UpTo(S, n) == UNION {[1 .. k -> S] : k \in 0 .. n}

MCLetter == {"a", "s", "S"}
MCDigit == {"1"}
MCLower == [ch \in MCLetter \cup MCDigit \cup {"_"} |-> IF ch = "S" THEN "s" ELSE ch]
MCKeywords == [word \in {<<"s">>} |-> "SELECT"]

Characters == {"a", "S", "1", "-", Quote, " ", "\n", "\r", ",", "#"}
Fragments == {<<"_", "1">>, <<"a", "a", "a">>, <<"-", "1">>, <<"1", "1", "1">>,
              <<Quote, "a", Quote>>, <<Quote, " ", "#", Quote>>, <<Quote, "a", "a", "a", Quote>>,
              <<"\r", "\n">>, <<" ", ";">>, <<Nul, "a">>, <<"\n", "S", " ">>}
Texts == UpTo(Characters, 4) \cup {FlattenSeq(f) : f \in UpTo(Fragments, 3)}

Good == <<SchemaDir, <<"d">>, DataDir, <<"e">>, <<"q">>>>
File(bytes, readable) == [exists |-> TRUE, bytes |-> bytes, readable |-> readable]
NoFile == [exists |-> FALSE, bytes |-> <<>>, readable |-> 0]

Arguments == {SchemaDir, DataDir, <<>>, <<"d">>, <<"e", "e", "e">>}

MCCalls ==
    {[argv |-> Good, file |-> File(t, Len(t))] : t \in Texts}
      \cup {[argv |-> Good, file |-> File(FlattenSeq(f), n)] :
               f \in [1 .. 4 -> {<<" ", ";">>, <<"_", "1">>}], n \in 0 .. 8}
      \cup {[argv |-> argv, file |-> NoFile] : argv \in UNION {[1 .. n -> Arguments] : n \in 4 .. 5}}
      \cup {[argv |-> [Good EXCEPT ![2] = <<"e", "e", "e">>], file |-> File(<<";">>, 1)]}
=============================================================================
