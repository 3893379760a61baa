------------------------------- MODULE MCLink -------------------------------
(***************************************************************************)
(* Small links, one topic per behaviour: the layout of the output, with a  *)
(* script of the commands of amd64_script.ld in their order, pages of 64   *)
(* bytes and two objects of a few sections each; the relocations; the      *)
(* versions, of a library linked with one that another linker made, and of *)
(* a program linked with both; and the call frames of up to three objects. *)
(***************************************************************************)
EXTENDS LdLayout, LdRelocs, LdVersions, LdEhFrame

VARIABLE topic       \* which of them this behaviour is about

LOCAL linkVars == <<layoutVars, relocVars, versionVars, frameVars, topic>>

LOCAL Files == {"crtbegin.o", "a.o"}
LOCAL Const(v) == [op |-> "const", val |-> v]
LOCAL Dot == [op |-> "."]
LOCAL Page == [op |-> "page"]
LOCAL Plus(a, b) == [op |-> "+", e1 |-> a, e2 |-> b]
LOCAL Minus(a, b) == [op |-> "-", e1 |-> a, e2 |-> b]
LOCAL And(a, b) == [op |-> "&", e1 |-> a, e2 |-> b]
LOCAL Align(e) == [op |-> "align", e1 |-> e]

LOCAL Set(v, e) == [cmd |-> "assign", var |-> v, exp |-> e]
LOCAL Section(n, parts) == [cmd |-> "section", name |-> n, vma |-> <<>>, parts |-> parts]
LOCAL AtZero(n) == [cmd |-> "section", name |-> n, vma |-> <<Const(0)>>, parts |-> <<InputList([secs |-> {n}, files |-> Files])>>]

LOCAL All(secs) == InputList([secs |-> secs, files |-> Files])
LOCAL From(file, secs) == InputList([secs |-> secs, files |-> {file}])

SmallScript == <<
    Set(".", Plus(Const(1024), [op |-> "headers"])),
    Section(".interp", <<All({".interp"})>>),
    Section(".hash", <<All({".hash"})>>),
    Section(".dynsym", <<All({".dynsym"})>>),
    Section(".dynstr", <<All({".dynstr"})>>),
    Section(".text", <<All({".text", ".text.f"})>>),
    Set("etext", Dot),
    Section(".rodata", <<All({".rodata"})>>),
    Set(".", Minus(Align(Page), And(Minus(Page, Dot), Minus(Page, Const(1))))),
    Set(".", [op |-> "dsa", e1 |-> Page]),
    Section(".tdata", <<All({".tdata"})>>),
    Section(".tbss", <<All({".tbss"})>>),
    Section(".ctors", <<From("crtbegin.o", {".ctors"}), All({".ctors.1"}), All({".ctors"})>>),
    Section(".dtors", <<From("a.o", {".ctors.1", ".ctors"})>>),
    Section(".dynamic", <<All({".dynamic"})>>),
    Section(".data", <<All({".data"})>>),
    Section(".bss", <<All({".bss"}), Assign(".", Align(Const(8)))>>),
    Set(".", Align(Const(8))),
    Set("_end", Dot),
    AtZero(".comment"),
    Section("/DISCARD/", <<All({".note.GNU-stack"})>>)>>

LOCAL Sec(n, t, f, s, a, r) ==
    [name |-> n, type |-> t, flags |-> f, size |-> s, align |-> a, relocs |-> r, discard |-> FALSE, dynrel |-> FALSE]

LOCAL Text == Sec(".text", "PROGBITS", {"A", "X"}, 5, 4, 2)
LOCAL Rodata == Sec(".rodata", "PROGBITS", {"A"}, 3, 8, 0)
LOCAL Tdata == Sec(".tdata", "PROGBITS", {"A", "W", "T"}, 4, 4, 0)
LOCAL Tbss == Sec(".tbss", "NOBITS", {"A", "W", "T"}, 9, 8, 0)
LOCAL Ctors == Sec(".ctors", "PROGBITS", {"A", "W"}, 8, 8, 1)
LOCAL Data == Sec(".data", "PROGBITS", {"A", "W"}, 6, 2, 1)
LOCAL Bss == Sec(".bss", "NOBITS", {"A", "W"}, 70, 16, 0)
LOCAL Comment == Sec(".comment", "PROGBITS", {}, 3, 1, 0)
LOCAL Stack == Sec(".note.GNU-stack", "PROGBITS", {}, 0, 1, 0)
LOCAL Note == Sec(".note.tag", "NOTE", {"A"}, 4, 4, 0)
LOCAL OwnCode == Sec("code", "PROGBITS", {"A", "X"}, 3, 2, 0)
LOCAL OwnData == Sec("data", "PROGBITS", {"A", "W"}, 7, 4, 0)
LOCAL Debug == Sec(".debug", "PROGBITS", {}, 4, 1, 1)
LOCAL Relocs == Sec(".rela.text", "RELA", {}, 24, 8, 0)

LOCAL Head1 == {<<>>, <<Text>>, <<Rodata, Text>>, <<Note, Text>>, <<Text, Note>>, <<Text, OwnData>>, <<Text, Debug>>}
LOCAL Threads == {<<>>, <<Tdata>>, <<Tbss>>, <<Tdata, Tbss>>}
LOCAL Rest == {<<>>, <<Data>>, <<Bss>>, <<Data, Bss, Comment>>, <<Ctors>>}
LOCAL Second == {<<Text, Relocs>>, <<Ctors, Data>>, <<Bss, OwnData>>, <<OwnCode, Ctors>>, <<Tbss, Stack, Debug>>}

SmallLinks == {[kind |-> k[1], needed |-> k[2], stack |-> k[3], emit |-> k[4], gc |-> FALSE,
                objs |-> <<[name |-> o[1], secs |-> f \o t \o l], [name |-> o[2], secs |-> s]>>] :
               k \in {<<"exec", 0, TRUE, FALSE>>, <<"exec", 1, FALSE, TRUE>>, <<"pie", 1, TRUE, FALSE>>,
                      <<"dso", 1, FALSE, FALSE>>, <<"reloc", 0, TRUE, FALSE>>},
               o \in {<<"a.o", "crtbegin.o">>, <<"crtbegin.o", "a.o">>},
               f \in Head1, t \in Threads, l \in Rest, s \in Second}

-----------------------------------------------------------------------------
(* Relocations: two symbols of every kind the scan tells apart.            *)
LOCAL Kind(t, b, v, h) == [type |-> t, bind |-> b, vis |-> v, home |-> h]

SmallKinds ==
    {Kind(t, "global", "default", h) : t \in {"func", "object", "tls"}, h \in {"regular", "dso"}}
    \cup {Kind(t, "local", "default", "regular") : t \in {"object", "tls"}}
    \cup {Kind("func", "global", v, "regular") : v \in {"hidden", "protected"}}
    \cup {Kind("func", "weak", "default", "none")}

SmallOutputs == {[kind |-> "exec", dynamic |-> FALSE]}
                \cup {[kind |-> k, dynamic |-> TRUE] : k \in {"exec", "pie", "dso"}}

-----------------------------------------------------------------------------
LOCAL Defined(ndx, names, last) == VerdefRecords(ndx, IF ndx = 1 THEN {"base"} ELSE {}, names, last)

\* p has a hidden old version and a default one, q has none.
SmallLibc ==
    [soname |-> "libc",
     syms |-> <<[name |-> "p", def |-> TRUE], [name |-> "p", def |-> TRUE], [name |-> "q", def |-> TRUE]>>,
     versym |-> <<[ndx |-> 2, hidden |-> TRUE], [ndx |-> 3, hidden |-> FALSE], [ndx |-> 1, hidden |-> FALSE]>>,
     verdef |-> Defined(1, <<"libc">>, FALSE) \o Defined(2, <<"C1">>, FALSE) \o Defined(3, <<"C2", "C1">>, TRUE),
     verneed |-> <<>>, hash |-> [buckets |-> (0 :> 0), chains |-> (0 :> 0)], job |-> <<>>]

SmallNames == {"f", "g", "p", "q"}
SmallHash == [f |-> 102, g |-> 103, p |-> 112, q |-> 113]

LOCAL Exact(n) == Pattern({n}, FALSE)
LOCAL Star == Pattern(SmallNames, TRUE)
LOCAL OnlyF == <<Label("global"), Exact("f"), Label("local"), Star>>
LOCAL Texts == {OnlyF, <<Pattern({"f", "g"}, TRUE)>>, <<Block(<<Exact("f")>>), Exact("g")>>}
LOCAL SecondTexts == {<<Exact("g")>>, <<Label("local"), Exact("f")>>}

LOCAL VersionScripts ==
    {<<>>, <<Node("", "", OnlyF)>>, <<Node("V1", "", OnlyF), Node("", "", <<Exact("g")>>)>>}
    \cup {<<Node("V1", "", t)>> : t \in Texts}
    \cup {<<Node("V1", "", t), Node("V2", "V1", u)>> : t \in Texts, u \in SecondTexts}

\* A definition that the script makes local while a library has the name is left
\* out: it is written with version 0 and imported all the same (see the README).
LOCAL LibraryJobs ==
    {j \in {[kind |-> "dso", soname |-> "libfoo", defs |-> d, refs |-> r, libs |-> <<1>>, script |-> s] :
            d \in {<<"f">>, <<"f", "g">>, <<"f", "p">>}, r \in {<<"p">>, <<"p", "q">>}, s \in VersionScripts} :
        j.defs # <<"f", "p">> \/ Declared(j, "p") # {"local"}}

LOCAL ProgramJobs ==
    {[kind |-> "exec", soname |-> "", defs |-> d, refs |-> r, libs |-> l, script |-> <<>>] :
     d \in {<<>>, <<"q">>}, r \in {<<"f">>, <<"f", "g", "p", "q">>}, l \in {<<2, 1>>, <<1, 2>>}}

SmallJobs == <<LibraryJobs, ProgramJobs>>

-----------------------------------------------------------------------------
(* Call frames: objects of one CIE or two, with and without a personality, *)
(* whose FDEs give absolute addresses, for a search table, or relative     *)
(* ones.                                                                   *)
LOCAL FuncNames == <<<<"f1", "g1", "h1">>, <<"f2", "g2", "h2">>, <<"f3", "g3", "h3">>>>
LOCAL Cie(type, pers) ==
    LET enc == IF type = "pc" THEN "pcrel" ELSE "udata4"
    IN  [kind |-> "cie", pers |-> pers, size |-> IF pers = "" THEN 4 ELSE 6,
         bytes |-> IF pers = "" THEN [aug |-> <<"z", "R">>, data |-> <<enc>>]
                   ELSE [aug |-> <<"z", "P", "L", "R">>, data |-> <<"udata4", "", "", "", "", "udata4", enc>>]]
LOCAL Fde(type, func, cie, lsda) ==
    [kind |-> "fde", size |-> IF lsda = "" THEN 4 ELSE 6, bytes |-> <<>>, type |-> type, func |-> func, cie |-> cie, lsda |-> lsda]
LOCAL CrtEnd == [entries |-> <<[kind |-> "end", size |-> 1, bytes |-> <<>>]>>, align |-> 1, gone |-> {}]

\* The frames of object n: of C, of C++, and of both.
LOCAL FramesOf(n, type) ==
    LET f(k, cie, lsda) == Fde(type, FuncNames[n][k], cie, lsda)
        c == Cie(type, "")
        cxx == Cie(type, "gxx")
    IN  {<<c, f(1, 1, "")>>, <<c, f(1, 1, ""), f(2, 1, "")>>, <<cxx, f(1, 1, "lsda"), f(2, 1, "")>>,
         <<c, f(1, 1, ""), f(2, 1, ""), cxx, f(3, 4, "lsda")>>, <<cxx, c, f(1, 2, ""), f(2, 1, ""), f(3, 2, "")>>}

\* Functions with handlers are not discarded.
LOCAL ObjectsOf(n, type) ==
    UNION {{[entries |-> e, align |-> 2, gone |-> g] :
               g \in SUBSET {e[k].func : k \in {j \in DOMAIN e : e[j].kind = "fde" /\ e[j].lsda = ""}}} :
           e \in FramesOf(n, type)}

\* No object has two CIEs that were there before.
LOCAL OneRepeated(objs) ==
    LET cies(n) == {objs[n].entries[k].bytes : k \in {j \in DOMAIN objs[n].entries : objs[n].entries[j].kind = "cie"}}
    IN  \A n \in DOMAIN objs : Cardinality(cies(n) \cap UNION {cies(m) : m \in 1..n - 1}) <= 1

LOCAL Linked(type) ==
    {objs \in {<<x, y>> : x \in ObjectsOf(1, type), y \in ObjectsOf(2, type)}
              \cup {<<x, y, z>> : x \in ObjectsOf(1, type), y \in ObjectsOf(2, type),
                                  z \in {o \in ObjectsOf(3, type) : Len(o.entries) = 2}} : OneRepeated(objs)}

LOCAL OneFrameJob == [objs |-> <<CrtEnd>>, hdr |-> TRUE]

SmallFrames ==
    {OneFrameJob}
    \cup {[objs |-> Append(o, CrtEnd), hdr |-> TRUE] : o \in Linked("abs")}
    \cup {[objs |-> Append(o, CrtEnd), hdr |-> FALSE] : o \in Linked("pc")}

\* Functions and what else frames name; the linker put the objects in another order.
SmallAddresses ==
    [s \in {"gxx", "gcc", "lsda"} \cup UNION {{FuncNames[n][k] : k \in 1..3} : n \in 1..3} |->
        CASE s = "gxx" -> 900 [] s = "gcc" -> 901 [] s = "lsda" -> 800
          [] OTHER -> 500 - (CHOOSE a \in {10 * n + k : n \in 1..3, k \in 1..3} : s = FuncNames[a \div 10][a % 10])]

-----------------------------------------------------------------------------
LOCAL OneLink == CHOOSE l \in SmallLinks : TRUE
LOCAL OneKind == CHOOSE k \in Kinds : k.home = "regular"

LOCAL OneRelocation ==
    /\ output = [kind |-> "exec", dynamic |-> FALSE]
    /\ sym = [n \in SymbolIds |-> NewSymbol(OneKind)]

LinkInit ==
    /\ topic \in {"layout", "relocations", "versions", "frames"}
    /\ topic # "frames" => frameJob = OneFrameJob
    /\ FrameInit
    /\ topic # "layout" => link = OneLink
    /\ topic # "relocations" => OneRelocation
    /\ VersionInit /\ LayoutInit /\ RelocInit

LinkNext ==
    /\ UNCHANGED topic
    /\ \/ topic = "layout" /\ LayoutNext /\ UNCHANGED <<relocVars, versionVars, frameVars>>
       \/ topic = "relocations" /\ RelocNext /\ UNCHANGED <<layoutVars, versionVars, frameVars>>
       \/ topic = "versions" /\ VersionNext /\ UNCHANGED <<layoutVars, relocVars, frameVars>>
       \/ topic = "frames" /\ FrameNext /\ UNCHANGED <<layoutVars, relocVars, versionVars>>

LinkSpec == LinkInit /\ [][LinkNext]_linkVars

\* The relocations alone.
RelocationsSpec == topic = "relocations" /\ LinkSpec
=============================================================================
