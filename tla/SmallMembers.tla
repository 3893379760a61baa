---------------------------- MODULE SmallMembers ----------------------------
(***************************************************************************)
(* Small instances of ArProgram.                                           *)
(***************************************************************************)
EXTENDS ArProgram

FourNames == {"one", "two", "long", "longer"}

\* Two names that are long in an SVR4 archive, one of them in a BSD archive too,
\* with the same first 15 characters; and the lengths of three symbols.
Lengths == "one" :> 5 @@ "two" :> 6 @@ "long" :> 16 @@ "longer" :> 19 @@ "x" :> 1 @@ "y" :> 2
           @@ "cut" :> 15
FirstFifteen == "one" :> "one" @@ "two" :> "two" @@ "long" :> "cut" @@ "longer" :> "cut" @@ "cut" :> "cut"

File(size, syms, mtime) == [size |-> size, syms |-> syms, mtime |-> mtime]

\* Two objects with symbols, a file without and one that does not exist.
SomeFiles == "one" :> File(7, <<"x", "y">>, 2) @@ "two" :> File(4, <<>>, 2)
             @@ "long" :> File(5, <<"y">>, 2) @@ "longer" :> NoFile @@ "cut" :> NoFile
WithEmpty == [SomeFiles EXCEPT !["two"] = File(0, <<>>, 2)]

Member(n, size, syms, mtime) == File(size, syms, mtime) @@ ("name" :> n)

\* What ar makes of a list of members.
Made(ms, opts) ==
    WriteObjs([i \in DOMAIN ms |-> Object(ms[i], i)], opts, NoCarry).image

Several == Made(<<Member("one", 3, <<"x">>, 1), Member("two", 6, <<>>, 3),
                  Member("one", 8, <<>>, 3), Member("longer", 5, <<"y">>, 1)>>, {})
Second == Made(<<Member("two", 2, <<"y">>, 1), Member("long", 5, <<>>, 1)>>, {"F", "s"})
Little == Made(<<Member("one", 3, <<"x">>, 1)>>, {})
Bare == Made(<<Member("two", 3, <<>>, 1)>>, {})

OneArchive == "lib" :> Several
ScriptDisk == "lib" :> Little @@ "bare" :> Bare @@ "new" :> NoArchive

LibThenBare == {<<"lib", "new", "bare">>, <<"bare", "lib">>}

NoLines == {}
FewLines == {[mode |-> m, argv |-> <<"long">>, posarg |-> None, opts |-> {}] : m \in {"q", "d"}}
FewArguments == {<<"one">>, <<"two", "long">>}

Arguments == {<<>>} \cup {<<n>> : n \in FourNames} \cup {<<n, m>> : n, m \in FourNames}

Flavours == {{}, {"s"}, {"F"}}
LineOpts(mode) ==
    CASE mode = "s" -> {{"s"}, {"s", "F"}}
      [] mode = "d" -> Flavours \cup {{"T"}}
      [] mode = "m" -> {{}, {"a"}, {"b"}, {"S"}, {"F", "b"}}
      [] mode = "q" -> Flavours \cup {{"D"}, {"S"}, {"T"}}
      [] mode = "r" -> {{}, {"a"}, {"b"}, {"u"}, {"T", "u"}, {"D", "F"}, {"S", "a"}}

Positions(opts) ==
    IF opts \cap {"a", "b"} = {} THEN {None} ELSE {"one", "two", "longer", "long"}

LinesOf(modes) ==
    UNION {UNION {{[mode |-> m, argv |-> a, posarg |-> p, opts |-> o] :
                       a \in IF m = "s" THEN {<<>>} ELSE Arguments, p \in Positions(o)}
                  : o \in LineOpts(m)} : m \in modes}
AllLines == LinesOf({"d", "m", "q", "r", "s"})

\* The lines with few arguments.
SomeLines ==
    {l \in AllLines : /\ l.mode = "s" \/ l.argv \in {<<"one">>, <<"longer", "long">>}
                      /\ l.posarg \in {None, "one"}}
SeveralDisk == "lib" :> Several @@ "bare" :> Bare @@ "new" :> NoArchive
=============================================================================
