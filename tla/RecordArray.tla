---------------------------- MODULE RecordArray ----------------------------
(***************************************************************************)
(* What gelf(3) promises of a table of records: an array.  A reader gets   *)
(* a whole row.  A writer stores a whole row, or fails and may leave some  *)
(* fields of that row as they were.                                        *)
(***************************************************************************)
EXTENDS Integers

VARIABLES table,     \* a sequence of rows
          result     \* of the last call

vars == <<table, result>>

Init == ~result.ok

Others(i) == \A j \in DOMAIN table : j # i => table'[j] = table[j]

\* A call that fails on a row leaves each field as it was or with its new value.
Between(i, new) ==
    \A f \in DOMAIN table[i] : table'[i][f] \in {table[i][f], new[f]}

Get(i) ==
    /\ result'.call = "get"
    /\ result'.ok => i \in DOMAIN table /\ result'.rec = table[i]
    /\ UNCHANGED table

Update(i) ==
    /\ result'.call = "update"
    /\ DOMAIN table' = DOMAIN table /\ Others(i)
    /\ IF result'.ok THEN i \in DOMAIN table /\ table'[i] = result'.arg
       ELSE table' = table \/ Between(i, result'.arg)

Next == Get(result'.ndx + 1) \/ Update(result'.ndx + 1)

Spec == Init /\ [][Next]_vars
=============================================================================
