------------------------------- MODULE ArScan -------------------------------
(***************************************************************************)
(* What walking an archive promises: every member once, in the order of    *)
(* the file, and then the end.                                             *)
(***************************************************************************)
EXTENDS Naturals, Sequences

VARIABLES todo, seen, done

Init == /\ todo \in Seq(Nat) /\ seen = <<>>
        /\ done \in BOOLEAN /\ (done => todo = <<>>)

Visit ==
    /\ todo # <<>>
    /\ seen' = Append(seen, Head(todo)) /\ todo' = Tail(todo)
    /\ UNCHANGED done

Finish ==
    /\ todo = <<>> /\ ~done /\ done' = TRUE
    /\ UNCHANGED <<todo, seen>>

\* In order, and nothing left out; and, with fairness, to the end.
Walk == Init /\ [][Visit \/ Finish]_<<todo, seen, done>>

Spec == Walk /\ WF_<<todo, seen, done>>(Visit \/ Finish)
=============================================================================
