----------------------------- MODULE MCBuildRow -----------------------------
(* Calls of build_insert_row_values small enough to be enumerated: every   *)
(* statement of at most three values over one in-range and one too large   *)
(* integer, a plain string and one that starts with "=".                   *)
EXTENDS BuildRow

CONSTANTS a, b, x, one, huge, equals     \* pieces

Col(name, type) == [name |-> <<name>>, type |-> type]
Lit(text, type) == [text |-> <<text>>, type |-> type]

MCIntText == {<<one>>}
MCFormulaText == {<<equals>>}

(* The last schema names a column twice: load_table_schema accepts it.     *)
MCSchemas == {<<Col(a, "INT")>>,
              <<Col(a, "INT"), Col(b, "STRING")>>,
              <<Col(x, "STRING"), Col(a, "INT"), Col(b, "STRING")>>,
              <<Col(a, "INT"), Col(a, "INT")>>}

MCLiterals == {Lit(one, "INT"), Lit(huge, "INT"), Lit(x, "STRING"), Lit(equals, "STRING")}

UpTo3(S) == UNION {[1 .. n -> S] : n \in 1 .. 3}

MCInserts ==
    {[kind |-> "INSERT", has_list |-> FALSE, columns |-> <<>>, values |-> v] :
        v \in UpTo3(MCLiterals)}
    \cup UNION {{[kind |-> "INSERT", has_list |-> TRUE, columns |-> c, values |-> v] :
                    c \in [1 .. n -> {<<a>>, <<b>>, <<x>>}], v \in [1 .. n -> MCLiterals]} :
                n \in 1 .. 3}
=============================================================================
