------------------------------- MODULE MCDwarf -------------------------------
(***************************************************************************)
(* The parts of libdwarf that do not meet, and addr2line, side by side    *)
(* for TLC.  A behaviour is about one of them, its topic, and the          *)
(* variables of the others keep their initial values.                      *)
(***************************************************************************)
EXTENDS DwarfTree, DwarfLines, DwarfFrames, Addr2Line

VARIABLE topic

treeVars == vars

-----------------------------------------------------------------------------
(* DIEs: the unit linked with the one of the producer has a DIE that       *)
(* refers to its root.                                                     *)

SmallConsts == {-129, 63}

SmallUnit ==
    [root |-> 1,
     dies |-> AddAttr(DieLink(<<FreshDie("unit"), FreshDie("entry")>>, 2, "parent", 1), 2,
                      ReferenceTo("type", 1))]

-----------------------------------------------------------------------------
(* Lines: advances and line numbers for each of the opcodes, on machines   *)
(* with instructions of any length and of four bytes, in two sequences.    *)

Source(l, f, s, b) == [line |-> l, file |-> f, stmt |-> s, block |-> b]

SmallSources == {Source(3, 1, TRUE, FALSE), Source(3, 2, FALSE, FALSE), Source(1, 1, TRUE, FALSE),
                 Source(40, 2, TRUE, TRUE)}

SmallSymbols == <<100, 240>>

-----------------------------------------------------------------------------
(* Frames: two CIEs with different factors, and an object linked before.   *)

SmallCies == <<[caf |-> 1, daf |-> -4, insts |-> <<Inst("def_cfa", 2, 4), Inst("offset", 1, 1)>>],
               [caf |-> 2, daf |-> 8,
                insts |-> <<Inst("def_cfa", 1, 8), Inst("same_value", 2, 0), Inst("nop", 0, 0)>>]>>

SmallInsts == {Inst("advance", 0, 1), Inst("advance", 0, 3), Inst("offset", 1, 2), Inst("restore", 1, 0),
               Inst("undefined", 2, 0), Inst("register", 1, 2), Inst("remember_state", 0, 0),
               Inst("restore_state", 0, 0), Inst("def_cfa", 2, 16), Inst("def_cfa_register", 1, 0),
               Inst("def_cfa_offset", 0, 12)}

OneFunction == [cies |-> <<[caf |-> 1, daf |-> 4, insts |-> <<Inst("def_cfa", 1, 0)>>]>>,
                fdes |-> <<[cie |-> 1, loc |-> 0, range |-> 4, insts |-> <<Inst("undefined", 1, 0)>>]>>]

SmallBases == <<64, 128>>

-----------------------------------------------------------------------------
(* Functions: one inside another and one after it, of every kind, in one   *)
(* unit; and programs of two units, the second without a high pc.          *)

Die(tag, ranges, name, call, kids) ==
    [tag |-> tag, ranges |-> ranges, name |-> name, refers |-> "", call |-> call, kids |-> kids]

Inlined(range, name, call, kids) ==
    [Die("inlined_subroutine", <<range>>, "", call, kids) EXCEPT !.refers = name]

Inner == {Inlined(<<2, 4>>, "g", 7, <<Inlined(<<2, 3>>, "h", 9, <<>>)>>),
          Inlined(<<2, 4>>, "g", 0, <<Inlined(<<2, 4>>, "h", 9, <<>>)>>),
          Inlined(<<2, 6>>, "g", 7, <<>>),
          Die("subprogram", <<<<3, 4>>>>, "g", 0, <<>>),
          Die("lexical_block", <<<<2, 4>>>>, "", 0, <<Inlined(<<3, 4>>, "g", 7, <<>>)>>),
          [Inlined(<<2, 3>>, "g", 7, <<>>) EXCEPT !.ranges = <<<<2, 3>>, <<4, 5>>>>]}

Unit(lo, hi, offset, functions) ==
    [lo |-> lo, hi |-> hi, offset |-> offset, dies |-> Die("compile_unit", <<>>, "", 0, functions)]

Outer(kids) == Die("subprogram", <<<<2, 6>>>>, "f", 0, kids)

Another == Die("subprogram", <<<<7, 8>>, <<0, 1>>>>, "k", 0, <<>>)

SmallPrograms ==
    {<<Unit(0, 8, FALSE, <<Outer(<<d>>), Another>>)>> : d \in Inner}
        \cup {<<Unit(2, 4, TRUE, <<Outer(<<d>>)>>), Unit(-1, 0, FALSE, <<>>), Unit(0, 0, FALSE, <<Another>>)>> :
                 d \in Inner}
        \cup {<<Unit(7, 1, TRUE, <<Another>>), Unit(2, 6, FALSE, <<Outer(<<d, e>>)>>)>> :
                 d \in {Inlined(<<2, 4>>, "g", 7, <<>>)}, e \in {Inlined(<<4, 6>>, "h", 8, <<>>)}}

-----------------------------------------------------------------------------
MCInit ==
    /\ topic \in {"tree", "lines", "frames", "functions"}
    /\ Init /\ LineInit /\ FrameInit /\ AddrInit
    /\ topic # "lines" => machine = "x86"
    /\ topic # "functions" => units = CHOOSE p \in Programs : TRUE

MCNext ==
    \/ topic = "tree" /\ Next /\ UNCHANGED <<lineVars, fdes, addrVars, topic>>
    \/ topic = "lines" /\ LineNext /\ UNCHANGED <<treeVars, fdes, addrVars, topic>>
    \/ topic = "frames" /\ FrameNext /\ UNCHANGED <<treeVars, lineVars, addrVars, topic>>
    \/ topic = "functions" /\ AddrNext /\ UNCHANGED <<treeVars, lineVars, fdes, topic>>

MCSpec == MCInit /\ [][MCNext]_<<treeVars, lineVars, fdes, addrVars, topic>>
=============================================================================
