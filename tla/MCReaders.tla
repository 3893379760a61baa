----------------------------- MODULE MCReaders -----------------------------
(***************************************************************************)
(* What a program reads through libelf, one topic per behaviour: the       *)
(* members of an archive, in any order or by the loop the tools have, and  *)
(* the headers and tables of an object.                                    *)
(***************************************************************************)
EXTENDS ArWalk, ElfObject

-----------------------------------------------------------------------------
(* The archives: with headers of 4 bytes, every head of special items, and *)
(* members of up to 3 bytes; one claims a BSD name longer than itself.     *)
F(sz, nsz, ok) == [name |-> "file", sz |-> sz, nsz |-> nsz, ok |-> ok]
S(name, sz) == [name |-> name, sz |-> sz, nsz |-> 0, ok |-> FALSE]

Heads == {<<>>, <<S("sym", 2)>>, <<S("sym", 1), S("str", 2)>>, <<S("str", 3)>>,
          <<S("bsdsym", 1)>>, <<S("sym", 0)>>}

Sound == {F(1, 0, TRUE), F(2, 0, TRUE), F(3, 2, TRUE), F(3, 1, TRUE)}
Files == Sound \cup {F(0, 0, TRUE), F(2, 2, TRUE), F(2, 0, FALSE), F(1, 2, TRUE), F(2, 5, TRUE)}

Bodies(Set, n) == UNION {[1..k -> Set] : k \in 0..n}

SoundArchives ==
    {[items |-> h \o b, padded |-> p, cut |-> 0] :
        h \in Heads, b \in Bodies(Sound, 3), p \in BOOLEAN}

AnyArchives ==
    {[items |-> h \o b, padded |-> p, cut |-> c] :
        h \in Heads, b \in Bodies(Files, 2), p \in BOOLEAN, c \in {0, 1, 3}}

AllArchives == SoundArchives \cup AnyArchives

-----------------------------------------------------------------------------

VARIABLE topic       \* which of them this behaviour is about

LOCAL readVars == <<loopvars, objectVars, topic>>

LOCAL OneMember == [items |-> <<F(1, 0, TRUE)>>, padded |-> TRUE, cut |-> 0]

LOCAL LoopStep == topic = "archive" /\ (LoopBegin \/ LoopNext \/ LoopEnd) /\ UNCHANGED <<objectVars, topic>>

ReadInit ==
    /\ topic \in {"archive", "object"}
    /\ LoopInit /\ ObjectInit
    /\ topic = "object" => pc = "free" /\ ar = OneMember
    /\ topic = "archive" => e = Opened("WRITE", "none")

ReadNext ==
    \/ topic = "archive" /\ FreeCall /\ UNCHANGED <<objectVars, topic>>
    \/ LoopStep
    \/ topic = "object" /\ ObjectNext /\ UNCHANGED <<loopvars, topic>>

\* The loop goes on as long as it is not done: it is one thread's.
ReadSpec == ReadInit /\ [][ReadNext]_readVars /\ WF_readVars(LoopStep)
=============================================================================
