------------------------------ MODULE MCElfCopy ------------------------------
(***************************************************************************)
(* What the tools that read and rewrite objects use, one topic per         *)
(* behaviour: elfcopy at work on small files and archives, a descriptor    *)
(* of libpe, the reader of the mangled names that nm and the others print, *)
(* and images written in the flat formats and read back.                   *)
(***************************************************************************)
EXTENDS ElfCopyFile, PeFile, SmallNames, FlatFormats

CONSTANT Topics
VARIABLE topic
LOCAL copyVars == <<fileVars, peVars, declVars, recordVars, topic>>

-----------------------------------------------------------------------------
(* Small ELF objects and command lines for ElfCopyFile.  The header takes  *)
(* 4 units of a file, a program header and a section header 2 each, a      *)
(* symbol and a relocation 1.                                              *)
Scn(name, type, flags, addr, off, size, link, info, align, data) ==
    [name |-> name, type |-> type, flags |-> flags, addr |-> addr, off |-> off, size |-> size,
     link |-> link, info |-> info, align |-> align, data |-> data]

Sym(name, bind, type, shndx, hidden) ==
    [name |-> name, bind |-> bind, type |-> type, shndx |-> shndx, hidden |-> hidden]

\* A table of symbols, each with its number; the null symbol comes first.
Table(syms) ==
    [k \in 1..Len(syms) + 1 |->
        (IF k = 1 THEN Sym("", "LOCAL", "NOTYPE", 0, FALSE) ELSE syms[k - 1]) @@ [from |-> k - 1]]

Plain(name, flags, addr, off, size, align) ==
    Scn(name, "PROGBITS", flags, addr, off, size, 0, 0, align, <<name>>)

\* Byte offsets in .strtab and the strings there: "f" at 1, "main" at 3.
Strings == (1 :> "f") @@ (3 :> "main") @@ (4 :> "ain") @@ (5 :> "in") @@ (6 :> "n")

\* An object file as the GNU assembler lays it out, with a group and debugging
\* information.  The table of headers lies before the relocations.
ObjSyms(data, debug) == Table(
    <<Sym("", "LOCAL", "SECTION", 2, FALSE), Sym("", "LOCAL", "SECTION", debug, FALSE),
      Sym("loc", "LOCAL", "FUNC", 2, FALSE), Sym(".L1", "LOCAL", "NOTYPE", data, FALSE),
      Sym("f", "GLOBAL", "FUNC", 2, FALSE), Sym("main", "GLOBAL", "NOTYPE", 0, FALSE),
      Sym("hid", "WEAK", "OBJECT", data, TRUE), Sym("abs", "LOCAL", "FILE", 100, FALSE)>>)

GnuObject ==
    [type |-> "REL", freebsd |-> FALSE, shoff |-> 24, phdrs |-> <<>>, strings |-> Strings,
     scns |-> <<
        Scn(".group", "GROUP", {}, 0, 4, 3, 9, 5, 1, [comdat |-> TRUE, members |-> <<2, 3>>]),
        Plain(".text", {"ALLOC", "EXECINSTR", "GROUP"}, 0, 8, 3, 4),
        Scn(".rela.text", "RELA", {"GROUP"}, 0, 46, 3, 9, 2, 1, <<6, 3, 4>>),
        Plain(".data", {"ALLOC", "WRITE"}, 0, 12, 2, 2),
        Scn(".bss", "NOBITS", {"ALLOC", "WRITE"}, 0, 14, 4, 0, 0, 2, <<>>),
        Plain(".debug_info", {}, 0, 14, 3, 1),
        Scn(".rela.debug_info", "RELA", {}, 0, 49, 2, 9, 6, 1, <<1, 2>>),
        Scn(".shstrtab", "STRTAB", {}, 0, 17, 6, 0, 0, 1, <<>>),
        Scn(".symtab", "SYMTAB", {}, 0, 51, 9, 10, 5, 2, ObjSyms(4, 6)),
        Scn(".strtab", "STRTAB", {}, 0, 60, 7, 0, 0, 1, <<>>)>>]

\* The newer order: .comment and the relocations lie between, and a section
\* comes behind the three tables.
NewSyms == Table(
    <<Sym("", "LOCAL", "SECTION", 1, FALSE), Sym("loc", "LOCAL", "FUNC", 1, FALSE),
      Sym("f", "GLOBAL", "FUNC", 1, FALSE), Sym("tail", "GLOBAL", "OBJECT", 8, FALSE),
      Sym("main", "GLOBAL", "NOTYPE", 0, FALSE)>>)

NewObject ==
    [type |-> "REL", freebsd |-> TRUE, shoff |-> 40, phdrs |-> <<>>, strings |-> Strings,
     scns |-> <<
        Plain(".text", {"ALLOC", "EXECINSTR"}, 0, 4, 4, 4),
        Scn(".rel.text", "REL", {}, 0, 30, 3, 4, 1, 1, <<2, 4, 5>>),
        Scn(".comment", "PROGBITS", {}, 0, 8, 3, 0, 0, 1, <<"gcc", "as", "gcc">>),
        Scn(".symtab", "SYMTAB", {}, 0, 12, 6, 5, 3, 2, NewSyms),
        Scn(".strtab", "STRTAB", {}, 0, 18, 5, 0, 0, 1, <<>>),
        Scn(".shstrtab", "STRTAB", {}, 0, 23, 6, 0, 0, 1, <<>>),
        Scn(".data.dwo", "PROGBITS", {}, 0, 34, 2, 0, 0, 0, <<"dwo">>),
        Plain(".tail", {"ALLOC"}, 0, 36, 2, 2)>>]

\* An object file of LLVM: one string table for all names, no .shstrtab.
LlvmSyms == Table(
    <<Sym("f", "GLOBAL", "FUNC", 2, FALSE), Sym("main", "GLOBAL", "NOTYPE", 0, FALSE)>>)

LlvmObject ==
    [type |-> "REL", freebsd |-> FALSE, shoff |-> 20, phdrs |-> <<>>, strings |-> Strings,
     scns |-> <<
        Scn(".strtab", "STRTAB", {}, 0, 15, 4, 0, 0, 1, <<>>),
        Plain(".text", {"ALLOC", "EXECINSTR"}, 0, 4, 4, 4),
        Scn(".rela.text", "RELA", {}, 0, 11, 1, 4, 2, 1, <<2>>),
        Scn(".symtab", "SYMTAB", {}, 0, 8, 3, 1, 1, 2, LlvmSyms)>>]

\* A program: headers and code in one segment, data and .bss in a second, a
\* thread's data in it.
Seg(type, off, vaddr, fsz, msz) ==
    [type |-> type, off |-> off, vaddr |-> vaddr, paddr |-> vaddr, fsz |-> fsz, msz |-> msz]

ProgSyms == Table(
    <<Sym("", "LOCAL", "SECTION", 2, FALSE), Sym("loc", "LOCAL", "FUNC", 2, FALSE),
      Sym("f", "GLOBAL", "FUNC", 2, FALSE), Sym("hid", "GLOBAL", "OBJECT", 4, TRUE)>>)

Program ==
    [type |-> "EXEC", freebsd |-> FALSE, shoff |-> 56, strings |-> Strings,
     phdrs |-> <<Seg("PHDR", 4, 36, 8, 8), Seg("LOAD", 0, 32, 20, 20),
                 Seg("LOAD", 24, 88, 8, 12), Seg("TLS", 24, 88, 2, 2)>>,
     scns |-> <<
        Plain(".interp", {"ALLOC"}, 44, 12, 2, 1),
        Plain(".text", {"ALLOC", "EXECINSTR"}, 48, 16, 4, 4),
        Plain(".tdata", {"ALLOC", "WRITE", "TLS"}, 88, 24, 2, 2),
        Plain(".data", {"ALLOC", "WRITE"}, 92, 28, 4, 4),
        Scn(".bss", "NOBITS", {"ALLOC", "WRITE"}, 96, 32, 4, 0, 0, 4, <<>>),
        Scn(".comment", "PROGBITS", {}, 0, 32, 3, 0, 0, 1, <<"gcc", "as", "gcc">>),
        Scn(".symtab", "SYMTAB", {}, 0, 36, 5, 8, 3, 2, ProgSyms),
        Scn(".strtab", "STRTAB", {}, 0, 41, 4, 0, 0, 1, <<>>),
        Scn(".shstrtab", "STRTAB", {}, 0, 45, 9, 0, 0, 1, <<>>)>>]

(* Command lines. *)

Nothing ==
    [strip |-> "none", flags |-> {}, sac |-> <<>>, symop |-> <<>>, redef |-> <<>>, rename |-> <<>>,
     prefixAlloc |-> "", prefixSec |-> "", prefixSym |-> "", add |-> <<>>, debuglink |-> FALSE,
     changeAddr |-> 0, setvma |-> <<>>, setlma |-> <<>>, padTo |-> 0, string |-> ""]

Flags(fs)    == [Nothing EXCEPT !.flags = fs]
Strip(s)     == [Nothing EXCEPT !.strip = s]
Also(o, s)   == [o EXCEPT !.strip = s]
Remove(n)    == [Nothing EXCEPT !.flags = {"SEC_REMOVE"}, !.sac = n :> {"remove"}]
Symbols(n, ops) == [Nothing EXCEPT !.symop = n :> ops]
SecFlag(n, fs)  == [Nothing EXCEPT !.sac = n :> fs]
Mcs(ops)     == [Nothing EXCEPT !.sac = ".comment" :> ops, !.string = "as"]
AddedScn     == <<[name |-> ".note", size |-> 2], [name |-> ".new", size |-> 3]>>

StripLines == {Strip(s) : s \in {"none", "all", "debug", "unneeded", "nondebug", "dwo", "nondwo"}}

SymbolLines ==
    {Symbols("f", {op}) : op \in {"STRIP", "WEAKEN", "LOCALIZE", "GLOBALIZE", "KEEP"}}
    \cup {Symbols("loc", {op}) : op \in {"STRIP", "GLOBALIZE"}}
    \cup {Also(Symbols("loc", {"KEEP"}), "unneeded"),
          [Symbols("f", {"KEEPG"}) EXCEPT !.flags = {"KEEP_GLOBAL"}],
          [Nothing EXCEPT !.redef = ("f" :> "ff")], [Nothing EXCEPT !.prefixSym = "x_"]}
    \cup {Flags({x}) : x \in {"DISCARD_LOCAL", "DISCARD_LLABEL", "WEAKEN_ALL", "LOCALIZE_HIDDEN"}}

SectionLines ==
    {Also(Remove(n), s) : n \in {".text", ".data", ".debug_info", ".bss"}, s \in {"debug", "unneeded"}}
    \cup {[Flags({"SEC_COPY", "DISCARD_LLABEL"}) EXCEPT !.sac = ".data" :> {"copy"}],
          [Nothing EXCEPT !.rename = (".data" :> ".data2")],
          [Nothing EXCEPT !.prefixSec = ".s"], [Nothing EXCEPT !.prefixAlloc = ".a"],
          SecFlag(".bss", {"SF_ALLOC", "SF_CONTENTS"}), SecFlag(".data", {"SF_READONLY"}),
          SecFlag(".text", {"SF_CODE", "SF_LOAD"}),
          [Nothing EXCEPT !.add = AddedScn], Also([Nothing EXCEPT !.add = AddedScn], "debug")}
    \cup {Mcs({"append"}), Mcs({"compress"}), Mcs({"append", "compress"})}

AddressLines ==
    {[Nothing EXCEPT !.changeAddr = d] : d \in {16, -16}}
    \cup {[Nothing EXCEPT !.setvma = ".data" :> v] : v \in {84, 89, 96, 100, 40}}
    \cup {[Nothing EXCEPT !.setvma = ".text" :> v] : v \in {52, 56, 44, 80}}
    \cup {[Nothing EXCEPT !.setvma = ".tdata" :> 96], [Nothing EXCEPT !.setlma = ".text" :> 52],
          [Nothing EXCEPT !.setlma = ".data" :> 84], [Nothing EXCEPT !.setlma = ".data" :> 85],
          [Nothing EXCEPT !.padTo = 104], [Nothing EXCEPT !.padTo = 50]}
    \cup {[Flags({"GAP_FILL"}) EXCEPT !.padTo = p] : p \in {0, 100}}

Lines == StripLines \cup SymbolLines \cup SectionLines \cup AddressLines

(* Files and processes. *)

Member(n, o) == [name |-> n, obj |-> o]

File(o) == [path |-> "a.o", dst |-> "", archive |-> FALSE, members |-> <<Member("a.o", o)>>,
            linked |-> FALSE, xdev |-> FALSE, otf |-> "ELF"]

Archive(p, ms) == [File(GnuObject) EXCEPT !.path = p, !.archive = TRUE, !.members = ms]

Case(o, files) ==
    [opt |-> o, files |-> files,
     paths |-> UNION {{files[k].path, files[k].dst} : k \in DOMAIN files} \ {""},
     present |-> {files[k].path : k \in DOMAIN files}]

\* One file, for every command line.
OneFile == {Case(o, <<File(x)>>) : o \in Lines, x \in {GnuObject, NewObject, LlvmObject, Program}}

\* The ways the output can reach its place.
Places ==
    {Case(Strip("debug"), <<[File(Program) EXCEPT !.linked = l, !.xdev = x, !.otf = f, !.dst = d]>>) :
        l \in BOOLEAN, x \in BOOLEAN, f \in {"ELF", "binary"}, d \in {"", "b.o"}}
    \cup {[Case(Strip("debug"), <<[File(Program) EXCEPT !.dst = "b.o"]>>) EXCEPT !.present = {"a.o", "b.o"}]}

\* Archives: the same object twice, a long name, a member without symbols, and
\* two archives one after the other.
Two(x, y) == <<Member("a.o", x), Member("a_long_name.o", y), Member("c.o", x)>>

Archives ==
    {Case(o, <<Archive("l.a", Two(GnuObject, LlvmObject)), Archive("m.a", Two(LlvmObject, NewObject))>>) :
        o \in {Nothing, Strip("debug"), Strip("all"), Flags({"DISCARD_LOCAL"}),
               [Nothing EXCEPT !.add = AddedScn], Also(Symbols("f", {"STRIP"}), "unneeded")}}

\* A second archive none of whose symbols are listed.
NoSymbolsLeft ==
    {Case(Symbols("f", {"STRIP"}), <<Archive("l.a", Two(GnuObject, LlvmObject)),
                                     Archive("m.a", <<Member("a.o", LlvmObject)>>)>>)}

\* Relocations of a section that is not there.
Damaged == {Case(o, <<File([LlvmObject EXCEPT !.scns[3].info = 9])>>) : o \in {Nothing, Strip("debug")}}

AllCases == OneFile \cup Places \cup Archives \cup NoSymbolsLeft \cup Damaged

Lengths == [n \in {"", "loc", ".L1", "f", "main", "hid", "abs", "tail", "ff", "a.o", "c.o"} \cup
                 {"x_loc", "x_f", "x_main", "x_hid", "x_abs", "x_.L1", "x_tail", "x_ff"} |-> 3]
           @@ ("a_long_name.o" :> 4)

\* An object whose only change is a section less.
RemoveInterp == {Case(Remove(".interp"), <<File(Program)>>)}

OptSizes == [PE32 |-> 3, PE32P |-> 4, COFF |-> 0]

-----------------------------------------------------------------------------
(* Names: of every kind of function and a few data, with classes inside    *)
(* and outside of others, templates and types that contain functions.      *)

Foo == Class(<<"Foo">>, <<>>)
PointerTo(t) == Qualified(<<"P">>, t)

SmallHeads ==
    {Head0(p) : p \in {<<"fn">>, <<"pl">>, <<"Foo", "fn">>, <<"Foo", "C1">>, <<"Foo", "D1">>, <<"Foo", "pl">>,
                       <<"std", "fn">>, <<"std", "Foo", "fn">>}}
        \cup {[Head0(<<"fn">>) EXCEPT !.targs = <<Builtin("i"), Builtin("c")>>, !.returns = Param(2)],
              [Head0(<<"Foo", "fn">>) EXCEPT !.targs = <<Class(<<"Bar">>, <<>>)>>],
              [Head0(<<"Box", "fn">>) EXCEPT !.class = <<Foo>>],
              [Head0(<<"Foo", "fn">>) EXCEPT !.cv = <<"K">>],
              [Head0(<<"Foo", "cv">>) EXCEPT !.conv = Builtin("i")],
              [Head0(<<"Foo", "cv">>) EXCEPT !.conv = PointerTo(Foo)],
              [Head0(<<"Foo", "fn">>) EXCEPT !.special = "Th"],
              [Head0(<<"Foo", "xy">>) EXCEPT !.special = "data"],
              [Head0(<<"Foo", "Box">>) EXCEPT !.special = "TV", !.targs = <<Builtin("i")>>],
              [Head0(<<"fn">>) EXCEPT !.var = "xy"]}

SmallTypes ==
    {Builtin("i"), Foo, Class(<<"Foo", "Bar">>, <<>>), Class(<<"std", "Box">>, <<Builtin("i")>>),
     Class(<<"Box">>, <<Foo>>), Param(1), Param(2), PointerTo(Function(Builtin("v"), <<Builtin("i"), Foo>>)),
     PointerTo(Function(Builtin("i"), <<>>)), PointerToMember(Foo, Function(Builtin("v"), <<>>)), PointerToMember(Foo, Builtin("i"))}

SmallMarks == {<<"P">>, <<"R">>, <<"V", "K">>, <<"K">>}

-----------------------------------------------------------------------------
(* Images: bytes at both sides of an address that takes another byte or    *)
(* begins another page, sections that touch and that go back, and entry    *)
(* points of every length.                                                 *)
LOCAL Bytes(addr, n) == [addr |-> addr, data |-> [i \in 1..n |-> (3 * i + n) % 16], load |-> TRUE, off |-> 0]
LOCAL NotLoaded(s) == [s EXCEPT !.load = FALSE]

\* Their places in the file are in the other order.
LOCAL Placed(secs) == [i \in DOMAIN secs |-> [secs[i] EXCEPT !.off = 4 + 12 * (Len(secs) - i)]]

LOCAL Listing == <<[name |-> "a.c", value |-> 0, type |-> "file"], [name |-> "main", value |-> 250, type |-> "func"],
                   [name |-> "x", value |-> 3, type |-> "object"]>>

SmallImages ==
    {[secs |-> Placed(s[1]), entry |-> s[2], syms |-> Listing, format |-> f[1],
      force3 |-> f[2], forceLen |-> f[3], len |-> f[4]] :
     s \in {<<<<Bytes(0, 5)>>, 0>>, <<<<Bytes(3, 4), Bytes(7, 2)>>, 300>>, <<<<Bytes(250, 11)>>, 5000>>,
            <<<<Bytes(16, 3), NotLoaded(Bytes(40, 3)), Bytes(1000, 8), Bytes(4090, 2)>>, 4096>>,
            <<<<Bytes(252, 4), Bytes(256, 2)>>, 65535>>, <<<<Bytes(65530, 6), Bytes(70000, 2)>>, 70000>>,
            <<<<Bytes(600, 2), Bytes(20, 2)>>, 20>>},
     f \in {<<"srec", FALSE, FALSE, 0>>, <<"srec", TRUE, TRUE, 9>>, <<"symbolsrec", FALSE, TRUE, 3>>,
            <<"srec", FALSE, TRUE, 0>>, <<"ihex", FALSE, FALSE, 0>>, <<"binary", FALSE, FALSE, 0>>}}

-----------------------------------------------------------------------------
(* PE objects: images whose sections are laid out as linkers do and        *)
(* otherwise, an object file with a symbol table, and new files.           *)
LOCAL Fill(kind, fields, n) == [i \in 1..n |-> IF i = 1 THEN <<kind, fields>> ELSE <<"more", 0>>]
LOCAL Gap(n) == [i \in 1..n |-> <<"zero", 0>>]
LOCAL Units(name, n) == [i \in 1..n |-> <<name, i>>]
LOCAL Hdr(name, addr, virt, size, ptr) == [name |-> name, addr |-> addr, virt |-> virt, rawsize |-> size, rawptr |-> ptr]
LOCAL Nowhere == [addr |-> 0, size |-> 0]

\* An image: the stub, the section headers, and the contents from unit 16 or 24 on.
LOCAL PeImage(stub, magic, headers, certificate, body) ==
    LET front == Fill("dos", [lfanew |-> 4 + Len(stub)], 4) \o stub \o Fill("sig", 0, 1)
                 \o Fill("coff", [nsec |-> Len(headers), symptr |-> 0, nsym |-> 0, optsize |-> IF magic = "PE32" THEN 3 ELSE 4], 2)
                 \o Fill("opt", [magic |-> magic, filealign |-> 8, dd |-> [CERT |-> certificate, RELOC |-> Nowhere]],
                         IF magic = "PE32" THEN 3 ELSE 4)
        table == [i \in 1..(2 * Len(headers)) |-> IF i % 2 = 1 THEN <<"sec", headers[(i + 1) \div 2]>> ELSE <<"more", 0>>]
        all == front \o table
    IN  all \o Gap(headers[1].rawptr - Len(all)) \o body

LOCAL PePlain == PeImage(<<<<"stub", 1>>, <<"stub", 2>>>>, "PE32",
                     <<Hdr(".text", 8, 6, 8, 16), Hdr(".data", 16, 3, 8, 24)>>, Nowhere,
                     Units(".text", 8) \o Units(".data", 8))
LOCAL Rich == PeImage(<<<<"stub", 1>>, <<"stub", 2>>, <<"rich", 1>>, <<"rich", 2>>, <<"rich", 3>>, <<"stub", 3>>>>, "PE32P",
                    <<Hdr(".text", 8, 6, 8, 24), Hdr(".bss", 16, 9, 0, 0)>>, [addr |-> 32, size |-> 4],
                    Units(".text", 8) \o Units("cert", 4))
\* Its sections are in the other order in memory, and it has no stub.
LOCAL Crossed == PeImage(<<>>, "PE32", <<Hdr(".data", 32, 3, 8, 16), Hdr(".text", 8, 3, 3, 24)>>, Nowhere,
                       Units(".data", 8) \o Units(".text", 3))
LOCAL Object == Fill("coff", [nsec |-> 2, symptr |-> 16, nsym |-> 2, optsize |-> 0], 2)
                \o Fill("sec", Hdr(".text", 0, 0, 3, 8), 2) \o Fill("sec", Hdr(".data", 0, 0, 4, 12), 2) \o Gap(2)
                \o Units(".text", 3) \o Gap(1) \o Units(".data", 4) \o Units("symbol", 4) \o <<<<"strtab", 3>>, <<"str", 1>>, <<"str", 2>>>>

SmallStarts == {[cmd |-> "RDWR", obj |-> "", file |-> f] : f \in {PePlain, Rich, Crossed, Object}}
               \cup {[cmd |-> "WRITE", obj |-> o, file |-> <<>>] : o \in {"PE32", "PE32P", "COFF"}}

\* A stub as long as that of PePlain, and a longer one.
SmallStubs == {Fill("dos", [lfanew |-> 6], 4) \o <<<<"mine", 1>>, <<"mine", 2>>>>,
               Fill("dos", [lfanew |-> 10], 4) \o [i \in 1..5 |-> <<"mine", i>>]}

SmallPieces == {Units("new", 2), Units("more", 9)}

LOCAL ElfScn(name, addr, size, nobits, data) == [name |-> name, addr |-> addr, size |-> size, nobits |-> nobits, data |-> data]
SmallElfs == {[obj |-> "PE32P", secs |-> <<ElfScn(".text", 8, 9, FALSE, Units("code", 9)), ElfScn(".bss", 24, 4, TRUE, <<>>),
                                           ElfScn(".reloc", 20, 2, FALSE, Units("reloc", 2)), ElfScn(".symtab", 0, 2, FALSE, Units("symbol", 2))>>]}

-----------------------------------------------------------------------------
LOCAL OneCase == CHOOSE c \in Cases : TRUE
LOCAL NoCopy == Init /\ opt = OneCase.opt /\ todo = OneCase.files
LOCAL NoPe == file = <<>> /\ pe = Descriptor("WRITE", "COFF") /\ calls = 0 /\ updates = 0 /\ result = "none"
LOCAL NoName == head = Head0(<<"fn">>) /\ args = <<>>

LOCAL NoRecord == image = (CHOOSE i \in Images : TRUE) /\ RecordInit

CopyInit ==
    /\ topic \in Topics
    /\ \/ topic = "elf" /\ Init /\ NoPe /\ NoName /\ NoRecord
       \/ topic = "pe" /\ NoCopy /\ PeInitial /\ NoName /\ NoRecord
       \/ topic = "names" /\ NoCopy /\ NoPe /\ DeclInit /\ NoRecord
       \/ topic = "records" /\ NoCopy /\ NoPe /\ NoName /\ RecordInit

CopyNext ==
    /\ UNCHANGED topic
    /\ \/ topic = "elf" /\ Next /\ UNCHANGED <<peVars, declVars, recordVars>>
       \/ topic = "pe" /\ PeNext /\ UNCHANGED <<fileVars, declVars, recordVars>>
       \/ topic = "names" /\ DeclNext /\ UNCHANGED <<fileVars, peVars, recordVars>>
       \/ topic = "records" /\ RecordNext /\ UNCHANGED <<fileVars, peVars, declVars>>

CopySpec == CopyInit /\ [][CopyNext]_copyVars
=============================================================================
