------------------------------ MODULE StringMap ------------------------------
(***************************************************************************)
(* What the string table of libelftc promises (elftc_string_table_create.3 *)
(* in src/libelftc): a string that was inserted and not removed has an     *)
(* offset of its own, which only a call that exports the image may change. *)
(***************************************************************************)
EXTENDS Naturals

CONSTANT Strings

VARIABLES
    at,     \* string -> its offset, 0 when it is not in the table
    busy    \* the image is being made

Used == {at[s] : s \in Strings} \ {0}

Init == at = [s \in Strings |-> 0] /\ ~busy

Insert(s) ==
    /\ ~busy /\ at[s] = 0 /\ UNCHANGED busy
    /\ at'[s] \notin Used \cup {0} /\ at' = [at EXCEPT ![s] = at'[s]]

Remove(s) == ~busy /\ at[s] # 0 /\ at' = [at EXCEPT ![s] = 0] /\ UNCHANGED busy

\* The image is made string by string, each of which may move.
Move(s) ==
    /\ busy /\ at[s] # 0 /\ UNCHANGED busy
    /\ at'[s] \notin Used \cup {0} /\ at' = [at EXCEPT ![s] = at'[s]]

Turn == busy' = ~busy /\ UNCHANGED at

Next == Turn \/ \E s \in Strings : Insert(s) \/ Remove(s) \/ Move(s)

Spec == Init /\ [][Next]_<<at, busy>>
==============================================================================
