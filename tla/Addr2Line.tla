------------------------------- MODULE Addr2Line -------------------------------
(***************************************************************************)
(* addr2line -f -i: the function an address is in and the calls it was     *)
(* inlined through (src/addr2line/addr2line.c).                            *)
(*                                                                         *)
(* The tree of DIEs is what DwarfTree shows libdwarf returns.  A DIE has a *)
(* tag, address ranges, one of them for DW_AT_low_pc and DW_AT_high_pc, a  *)
(* name, the name of the DIE it refers to, the line of the call it was     *)
(* inlined at, and children; "" and 0 stand for attributes it has not.     *)
(* The lines of the table are the module DwarfLines.                       *)
(***************************************************************************)
EXTENDS Integers, Sequences, SequencesExt

CONSTANTS Programs,    \* programs: sequences of units [lo, hi, offset, dies]
          Queries      \* the addresses asked for

VARIABLES units,       \* the units of the program
          culist,      \* the cache: by unit its functions, for the units met
          next         \* where dwarf_next_cu_header goes on

addrVars == <<units, culist, next>>

NoFunc == [name |-> "", ranges |-> <<>>, line |-> 0]

AddrInit == units \in Programs /\ culist = <<>> /\ next = 1

-----------------------------------------------------------------------------
(* The cache of one unit.                                                  *)

\* handle_high_pc: a constant is relative to the low pc.
HighPc(u) == IF u.offset THEN u.lo + u.hi ELSE u.hi

FunctionTags == {"subprogram", "entry_point", "inlined_subroutine"}

NameOf(die) == IF die.name # "" THEN die.name ELSE die.refers

IsFunction(die) == die.tag \in FunctionTags /\ die.ranges # <<>> /\ NameOf(die) # ""

FuncOf(die, caller) ==
    [name |-> NameOf(die), ranges |-> die.ranges, line |-> die.call,
     caller |-> IF die.tag = "inlined_subroutine" THEN caller ELSE NoFunc]

\* An inlined function without the place of its call is not listed, though the
\* functions below it know it.
Listed(die) == IsFunction(die) /\ (die.tag = "inlined_subroutine" => die.call # 0)

\* collect_func: the DIE, its children below it, and its siblings below its parent.
RECURSIVE CollectFunc(_, _)
CollectFunc(die, parent) ==
    LET self  == IF IsFunction(die) THEN FuncOf(die, parent) ELSE parent
        below == FoldLeft(LAMBDA fs, kid : fs \o CollectFunc(kid, self), <<>>, die.kids)
    IN  IF Listed(die) THEN <<self>> \o below ELSE below

-----------------------------------------------------------------------------
(* A query.                                                                *)

Covers(range, addr) == range[1] <= addr /\ addr < range[2]

\* search_func: the first range of each function that has the address; a later
\* function is taken when its range lies inside that of the one before.
SearchFunc(list, addr) ==
    FoldLeft(LAMBDA found, f :
                 LET i == SelectInSeq(f.ranges, LAMBDA r : Covers(r, addr))
                     r == f.ranges[i]
                 IN  IF i # 0 /\ (found.f = NoFunc \/ (found.r[1] <= r[1] /\ r[2] <= found.r[2]))
                     THEN [f |-> f, r |-> r] ELSE found,
             [f |-> NoFunc, r |-> <<0, 0>>], list).f

\* print_inlines
RECURSIVE Callers(_)
Callers(f) == IF f.caller = NoFunc THEN <<>> ELSE <<[name |-> f.caller.name, line |-> f.line]>> \o Callers(f.caller)

\* The unit the loop of translate stops at: 0 if none.  Without a low pc it is
\* passed over, without a high pc it takes every address above.
Takes(u, addr) == u.lo # -1 /\ u.lo <= addr /\ (u.hi # 0 => addr < HighPc(u))

Stop(addr) ==
    LET is == {i \in next..Len(units) : Takes(units[i], addr)}
    IN  IF is = {} THEN 0 ELSE CHOOSE i \in is : \A j \in is : i <= j

\* The functions of a unit: an empty list is filled again.
FuncList(i) ==
    IF i \in DOMAIN culist /\ culist[i] # <<>> THEN culist[i] ELSE CollectFunc(units[i].dies, NoFunc)

\* What is printed.
Printed(addr) ==
    IF Stop(addr) = 0 THEN [name |-> "??", inlined |-> <<>>]
    ELSE LET f == SearchFunc(FuncList(Stop(addr)), addr)
         IN  IF f = NoFunc THEN [name |-> "??", inlined |-> <<>>]
             ELSE [name |-> f.name, inlined |-> Callers(f)]

\* The units met are recorded.
Met(addr) == {i \in next..Len(units) : units[i].lo # -1 /\ (Stop(addr) # 0 => i <= Stop(addr))}

\* A mutant: the next query goes on behind the unit of this one.
NextAfter_Stop(addr) == IF Stop(addr) # 0 THEN Stop(addr) + 1 ELSE 1

\* The loop at the end of translate goes through the rest of the units, so that
\* the next query starts with the first one.
NextAfter(addr) == 1

Translate(addr) ==
    /\ culist' = [i \in DOMAIN culist \cup Met(addr) |->
                     IF i = Stop(addr) THEN FuncList(i)
                     ELSE IF i \in DOMAIN culist THEN culist[i] ELSE <<>>]
    /\ next' = NextAfter(addr)
    /\ UNCHANGED units

AddrNext == \E addr \in Queries : Translate(addr)

-----------------------------------------------------------------------------
(* Properties.                                                             *)

\* The functions around an address, outermost first: the DIEs on the way down the
\* tree that have a range with the address.
RECURSIVE Around(_, _)
Around(die, addr) ==
    LET here  == IF die.ranges # <<>> /\ die.tag \in FunctionTags THEN <<die>> ELSE <<>>
        below == [k \in DOMAIN die.kids |-> Around(die.kids[k], addr)]
        hit   == {k \in DOMAIN below : below[k] # <<>>}
    IN  IF here # <<>> /\ ~\E i \in DOMAIN die.ranges : Covers(die.ranges[i], addr) THEN <<>>
        ELSE here \o (IF hit = {} THEN <<>> ELSE below[CHOOSE k \in hit : TRUE])

\* The calls from the innermost function out to the one that was not inlined.
Inlines(around) ==
    LET out == SelectLastInSeq(around, LAMBDA d : d.tag # "inlined_subroutine")
    IN  [k \in 1..(Len(around) - out) |->
            [name |-> NameOf(around[Len(around) - k]), line |-> around[Len(around) + 1 - k].call]]

\* The answer to every query is the innermost function of the tree around the
\* address and the chain of calls it was inlined through, whatever was asked before:
\* the lists kept for the units met, and the unit the last query stopped at, change
\* nothing.
FunctionRight ==
    \A addr \in Queries :
        LET owner == {i \in DOMAIN units : Takes(units[i], addr)}
            own   == CHOOSE i \in owner : \A j \in owner : i <= j
            around == IF owner = {} THEN <<>> ELSE Around(units[own].dies, addr)
        IN  Printed(addr) =
                IF around = <<>> THEN [name |-> "??", inlined |-> <<>>]
                ELSE [name |-> NameOf(Last(around)), inlined |-> Inlines(around)]
=============================================================================
