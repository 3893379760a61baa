------------------------------ MODULE MCTables ------------------------------
(***************************************************************************)
(* Small instances of what libelf and libelftc keep in tables, one topic   *)
(* per behaviour: the records of a section, and a table of strings.        *)
(***************************************************************************)
EXTENDS GelfRecords, StringTable

VARIABLE topic       \* which of them this behaviour is about

LOCAL tableVars == <<recordVars, poolVars, topic>>

(***************************************************************************)
(* Records: 16 values in a word, and values at and just beyond what a      *)
(* narrow field holds.                                                     *)
(***************************************************************************)
EdgeValues == [same |-> {1}, u32 |-> {15, 16}, s32 |-> {-9, -8},
               info |-> {3 * 16 + 3, 4 * 16 + 1}]

AllSections == {"SYMTAB", "REL", "RELA", "DYNAMIC", "MOVE", "SYMINFO", "CAP"}

\* No index, a good one, one in another object, one of bytes, a short one, a group,
\* and symbol data whose type the application has set to that of the index.
NoIndex == [sht |-> "NULL", elf |-> "same", dtype |-> "WORD", symtype |-> "SYM", cells |-> <<>>]
GoodIndex == [NoIndex EXCEPT !.sht = "SYMTAB_SHNDX", !.cells = <<0, 0>>]
Indexes == {NoIndex, GoodIndex, [GoodIndex EXCEPT !.elf = "other"], [GoodIndex EXCEPT !.dtype = "BYTE"],
            [GoodIndex EXCEPT !.cells = <<0>>], [GoodIndex EXCEPT !.symtype = "WORD"]}

\* Strings of which some are empty, prefixes or suffixes of others.
ShortStrings == {<<>>, <<1>>, <<2>>, <<1, 2>>, <<2, 1>>}

-----------------------------------------------------------------------------
TableInit ==
    /\ topic \in {"records", "strings"}
    /\ RecordInit /\ PoolInit
    /\ topic # "records" => class = 64 /\ kind = "SYMTAB" /\ index = NoIndex

TableNext ==
    /\ UNCHANGED topic
    /\ \/ topic = "records" /\ RecordNext /\ UNCHANGED poolVars
       \/ topic = "strings" /\ PoolNext /\ UNCHANGED recordVars

TableSpec == TableInit /\ [][TableNext]_tableVars
=============================================================================
