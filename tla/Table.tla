------------------------------- MODULE Table --------------------------------
(***************************************************************************)
(* What sqlproc promises of one table, whatever its file looks like.  An   *)
(* INSERT that is reported successful has added, at once and behind all    *)
(* the others, the one row its values denote, and nothing else adds a row; *)
(* a SELECT that is reported successful shows the names it chose and below *)
(* them the chosen cells of every row there is at some moment of the       *)
(* statement; nothing ever removes or changes a row.                       *)
(*                                                                         *)
(* One exception: while the table has no columns a SELECT may succeed and  *)
(* show nothing, not even the names.  It is what storage_print_rows does   *)
(* with a data file that is there and empty.                               *)
(***************************************************************************)
EXTENDS Executor

CONSTANTS Process, Schemas, Statements

Inserts == {s \in Statements : s.kind = "INSERT"}
Selects == {s \in Statements : s.kind = "SELECT"}

VARIABLES columns,    \* the names of the columns, <<>> before the first INSERT
          rows,
          done,       \* how many statements of its program each process has
                      \* reported successful
          shown       \* what its last statement showed, <<>>: nothing yet

tableVars == <<columns, rows, done, shown>>

Init ==
    /\ columns \in Seq(Text)
    /\ rows \in Seq({r \in Seq(Text) : Len(r) = Len(columns)})
    /\ done = [p \in Process |-> 0]
    /\ shown = [p \in Process |-> <<>>]

CreateTable ==
    /\ columns = <<>> /\ rows = <<>>
    /\ \E s \in Schemas : columns' = Names(s)
    /\ UNCHANGED <<rows, done, shown>>

Succeed(p) == done' = [done EXCEPT ![p] = @ + 1]

Insert(p) ==
    /\ \E s \in Schemas, stmt \in Inserts :
          /\ Names(s) = columns
          /\ InsertError(s, stmt) = NoError
          /\ rows' = Append(rows, InsertRow(s, stmt))
    /\ Succeed(p)
    /\ UNCHANGED <<columns, shown>>

Answer(names, selected) ==
    <<Project(names, selected)>> \o [k \in DOMAIN rows |-> Project(rows[k], selected)]

Select(p) ==
    /\ \E s \in Schemas, stmt \in Selects :
          /\ columns \in {<<>>, Names(s)}
          /\ SelectError(s, stmt) = NoError
          /\ shown' = [shown EXCEPT ![p] = Answer(Names(s), SelectedIndices(s, stmt))]
    /\ Succeed(p)
    /\ UNCHANGED <<columns, rows>>

(* The exception.                                                          *)
SelectNothing(p) ==
    /\ columns = <<>>
    /\ \E s \in Schemas, stmt \in Selects : SelectError(s, stmt) = NoError
    /\ shown[p] = <<>>
    /\ Succeed(p)
    /\ UNCHANGED <<columns, rows, shown>>

(* The next statement is begun, or the run is over.                        *)
Forget(p) ==
    /\ shown' = [shown EXCEPT ![p] = <<>>]
    /\ UNCHANGED <<columns, rows, done>>

(* A new run of the process.                                               *)
Restart(p) ==
    /\ done' = [done EXCEPT ![p] = 0]
    /\ shown' = [shown EXCEPT ![p] = <<>>]
    /\ UNCHANGED <<columns, rows>>

Next == \/ CreateTable
        \/ \E p \in Process : \/ Insert(p) \/ Select(p) \/ SelectNothing(p)
                              \/ Forget(p) \/ Restart(p)

Spec == Init /\ [][Next]_tableVars
=============================================================================
