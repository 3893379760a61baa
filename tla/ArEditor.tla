---------------------------- MODULE ArEditor ----------------------------
(***************************************************************************)
(* What the script mode of ar(1) promises of archives: a script edits a    *)
(* working copy of its current archive, and an archive changes only when   *)
(* SAVE puts the working copy in its place.  Command lines and ranlib      *)
(* change one archive at a time, outside any script.                       *)
(***************************************************************************)
CONSTANTS Archives, AtFirst, Empty, NoArchive, NoCurrent

VARIABLES saved,      \* what each archive holds
          work,       \* the working copy
          current,    \* the archive SAVE will change
          scripted    \* a script runs

vars == <<saved, work, current, scripted>>

Init ==
    /\ saved = AtFirst
    /\ work = NoArchive /\ current = NoCurrent /\ scripted = FALSE

\* Outside a script one archive may change.
Direct(f) ==
    /\ ~scripted
    /\ saved' = [saved EXCEPT ![f] = saved'[f]]
    /\ UNCHANGED <<work, current, scripted>>

Begin == ~scripted /\ scripted' = TRUE /\ UNCHANGED <<saved, work, current>>

Choose(f, content) ==
    /\ scripted
    /\ current' = f
    /\ work' = content
    /\ UNCHANGED <<saved, scripted>>

Edit ==
    /\ scripted /\ current # NoCurrent
    /\ work' # NoArchive
    /\ UNCHANGED <<saved, current, scripted>>

Save ==
    /\ scripted /\ current # NoCurrent
    /\ saved' = [saved EXCEPT ![current] = work]
    /\ work' = NoArchive
    /\ current' = NoCurrent
    /\ UNCHANGED scripted

\* The script ends, and what was not saved is lost.
Quit ==
    /\ scripted /\ scripted' = FALSE
    /\ work' = NoArchive
    /\ current' = NoCurrent
    /\ UNCHANGED saved

Next ==
    \/ \E f \in Archives : Direct(f) \/ Choose(f, saved[f]) \/ Choose(f, Empty)
    \/ Begin \/ Edit \/ Save \/ Quit

Spec == Init /\ [][Next]_vars
=============================================================================
