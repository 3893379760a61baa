------------------------------ MODULE LdLayout ------------------------------
(***************************************************************************)
(* How ld(1) lays out its output: the SECTIONS command of the linker       *)
(* script (ld_layout.c), expressions and assignments (ld_exp.c,            *)
(* ld_script.c), the sections added for dynamic linking (ld_dynamic.c),    *)
(* and the ELF sections and program headers made from the result           *)
(* (ld_output.c).                                                          *)
(*                                                                         *)
(* The script is a sequence of commands [cmd, var, exp] and                *)
(* [cmd, name, vma, parts].  The parts of an output section are            *)
(* assignments, lists of input sections with the pattern that selects      *)
(* them, and data the linker makes.  Wildcards are sets of names.  The     *)
(* contents of .eh_frame, the map file and relocatable scripts' overlays   *)
(* and memory regions are left out.                                        *)
(***************************************************************************)
EXTENDS Integers, FiniteSets, SequencesExt

CONSTANTS Script,            \* lds_c: the linker script
          Links,             \* the links considered: [kind, emit, gc, stack, needed, objs]
          PageSize,          \* get_max_page_size
          EhdrSize, PhdrSize, ShdrSize, RelSize, SymSize,
          StrSize, Symbols   \* bytes of a string table and entries of the symbol table

VARIABLES link,              \* the options and the input objects
          at,              \* the phase of the link and a position in it
          lay,               \* output sections: [out, els, wm, place, note]
          ls,                \* ld_state: [loc, off, first], and the values of variables
          reloff,            \* is_reloff of each input section laid out
          tail,              \* what follows the sections: [name, off, size]
          phdrs              \* the program headers

layoutVars == <<link, at, lay, ls, reloff, tail, phdrs>>

RoundUp(x, a) == ((x + a - 1) \div a) * a

Relocatable == link.kind = "reloc"
Shared == link.kind \in {"dso", "pie"}
Dynamic == link.needed > 0

-----------------------------------------------------------------------------
(***************************************************************************)
(* Output sections.  lay.els is lo_oelist, assignments and sections in the *)
(* order of the output; lo_oslist is its sections.                         *)
(***************************************************************************)
NoPattern == [secs |-> {}, files |-> {}]

Assign(v, e) == [k |-> "assign", var |-> v, exp |-> e]
InputList(p) == [k |-> "list", pat |-> p, ins |-> <<>>]
DataPart(s, a) == [k |-> "data", size |-> s, align |-> a]

NewSection == [flags |-> {}, type |-> "NULL", align |-> 1, empty |-> TRUE, parts |-> <<>>, vma |-> <<>>,
               addr |-> 0, off |-> 0, size |-> 0, rel |-> FALSE, r |-> ""]

SectionElement(n) == [k |-> "section", os |-> n]

Sections(l) ==
    LET s == SelectSeq(l.els, LAMBDA e : e.k = "section")
    IN  [i \in DOMAIN s |-> s[i].os]

\* ld_output_alloc_section: after the section named, or last.
AllocSection(l, n, os, after) ==
    LET p == SelectInSeq(l.els, LAMBDA e : e.k = "section" /\ e.os = after)
    IN  [l EXCEPT !.out = (n :> os) @@ @,
                  !.els = InsertAt(@, IF p = 0 THEN Len(@) + 1 ELSE p + 1, SectionElement(n))]

\* ld_layout_insert_output_section: behind the sections with the same flags, or with the loadable ones.
PlaceFor(l, flags) ==
    LET s == Sections(l)
        Loads(f) == "A" \in f
        Ends(i) ==
            /\ Loads(l.out[s[i]].flags) = Loads(flags)
            /\ \/ /\ l.out[s[i]].flags = flags
                  /\ i = Len(s) \/ l.out[s[i + 1]].flags # flags
               \/ i < Len(s) /\ Loads(l.out[s[i + 1]].flags) # Loads(flags)
        ends == {i \in DOMAIN s : Ends(i)}
    IN  IF ends = {} THEN "" ELSE s[Min(ends)]

InsertOutputSection(l, n, flags) ==
    AllocSection(l, n, [NewSection EXCEPT !.flags = flags \cap {"A"}], PlaceFor(l, flags))

\* _prepare_output_section: the first description of a section counts.
Described(cmd) ==
    [NewSection EXCEPT !.vma = cmd.vma, !.parts = cmd.parts,
                       !.flags = IF cmd.vma = <<>> \/ cmd.vma[1].op # "const" \/ cmd.vma[1].val # 0 THEN {"A"} ELSE {}]

PrepareOutput(l, cmd) ==
    IF cmd.cmd = "assign" THEN [l EXCEPT !.els = Append(@, Assign(cmd.var, cmd.exp))]
    ELSE IF cmd.name \in DOMAIN l.out THEN l
    ELSE AllocSection(l, cmd.name, Described(cmd), "")

-----------------------------------------------------------------------------
(***************************************************************************)
(* Input sections, one at a time.  lay.wm remembers for each section name  *)
(* the lists whose wildcard it matched: ld_wm.                             *)
(***************************************************************************)
Obj(id) == link.objs[id[1]]
In(id) == Obj(id).secs[id[2]]

\* The input sections in the order they are laid out.
InOrder == FlattenSeq([i \in DOMAIN link.objs |-> [j \in DOMAIN link.objs[i].secs |-> <<i, j>>]])

\* _check_filename_constraint; the object without a name holds the linker's own sections.
FileFits(id, pat) == Obj(id).name = "" \/ Obj(id).name \in pat.files

Reloc(s) == s.type \in {"REL", "RELA"} /\ ~s.dynrel

\* The lists of the script, in order, as <<section, position in it>>.
ScriptLists(l) ==
    LET lists(n) == SelectSeq([i \in DOMAIN l.out[n].parts |-> <<n, i>>],
                              LAMBDA p : l.out[n].parts[p[2]].k = "list" /\ l.out[n].parts[p[2]].pat # NoPattern)
    IN  FlattenSeq([i \in DOMAIN Sections(l) |-> lists(Sections(l)[i])])

PatternOf(l, p) == l.out[p[1]].parts[p[2]].pat

\* The relocations of an input section are collected in a section of their own.
WithRelocs(l, os, s) ==
    IF ~(Relocatable \/ link.emit) \/ s.relocs = 0 THEN l
    ELSE LET n == ".rela" \o os
             made == IF l.out[os].r # "" THEN l
                     ELSE LET new == AllocSection(l, n, [NewSection EXCEPT !.rel = TRUE, !.type = "RELA",
                                                                           !.align = 8], "")
                          IN  [new EXCEPT !.out[os].r = n]
         IN  [made EXCEPT !.out[n].size = @ + s.relocs * RelSize]

Widened(a, s) == IF s.align > a THEN s.align ELSE a

\* _insert_input_to_output.
InsertInput(l, p, id) ==
    LET s == In(id) os == p[1]
    IN  IF Reloc(s) THEN l
        ELSE WithRelocs([l EXCEPT !.out[os].empty = FALSE,
                                  !.out[os].flags = @ \cup (s.flags \cap {"X", "W", "T"}),
                                  !.out[os].align = Widened(@, s),
                                  !.out[os].type = IF @ = "NULL" THEN s.type ELSE @,
                                  !.out[os].parts[p[2]].ins = Append(@, id),
                                  !.note = @ \/ s.type = "NOTE",
                                  !.place = (id :> os) @@ @], os, s)

Discarded(l, id) == [l EXCEPT !.place = (id :> "/DISCARD/") @@ @]

Insert(l, p, id) == IF p[1] = "/DISCARD/" THEN Discarded(l, id) ELSE InsertInput(l, p, id)

\* _layout_orphan_section: a section the script does not name.
LayoutOrphan(l, id) ==
    LET s == In(id)
    IN  IF Reloc(s) \/ (link.gc /\ "A" \in s.flags) THEN l
        ELSE IF s.name \in DOMAIN l.out THEN InsertInput(l, <<s.name, 1>>, id)
        ELSE LET new == InsertOutputSection(l, s.name, s.flags)
             IN  InsertInput([new EXCEPT !.out[s.name].parts = <<InputList(NoPattern)>>], <<s.name, 1>>, id)

\* The list that takes the section, and the matches recorded on the way to it.
Search_RecordsTaken(l, id) ==
    LET lists == SelectSeq(ScriptLists(l), LAMBDA p : In(id).name \in PatternOf(l, p).secs)
        hit == SelectInSeq(lists, LAMBDA p : FileFits(id, PatternOf(l, p)))
    IN  [hit |-> IF hit = 0 THEN <<>> ELSE lists[hit], seen |-> IF hit = 0 THEN <<>> ELSE <<lists[hit]>>]
Search(l, id) ==
    LET lists == SelectSeq(ScriptLists(l), LAMBDA p : In(id).name \in PatternOf(l, p).secs)
        hit == SelectInSeq(lists, LAMBDA p : FileFits(id, PatternOf(l, p)))
    IN  [hit |-> IF hit = 0 THEN <<>> ELSE lists[hit], seen |-> IF hit = 0 THEN lists ELSE SubSeq(lists, 1, hit)]

\* _record_wildcard_match: a list is recorded once.
Recorded(old, seen) == old \o SelectSeq(seen, LAMBDA p : p \notin ToSet(old))

LayoutInput(l, id) ==
    LET n == In(id).name
        known == IF n \in DOMAIN l.wm THEN l.wm[n] ELSE <<>>
        quick == SelectInSeq(known, LAMBDA p : FileFits(id, PatternOf(l, p)))
        full == Search(l, id)
        noted == IF full.seen = <<>> THEN l ELSE [l EXCEPT !.wm = (n :> Recorded(known, full.seen)) @@ @]
    IN  IF In(id).discard \/ n \in {".shstrtab", ".symtab", ".strtab"} THEN l
        ELSE IF quick # 0 THEN Insert(l, known[quick], id)
        ELSE IF full.hit # <<>> THEN Insert(noted, full.hit, id)
        ELSE LayoutOrphan(noted, id)

-----------------------------------------------------------------------------
(***************************************************************************)
(* The sections of a dynamically linked output: ld_dynamic_create.         *)
(***************************************************************************)
PutData(l, n, type, flags, align, size) ==
    LET has == IF n \in DOMAIN l.out THEN l ELSE InsertOutputSection(l, n, flags)
    IN  [has EXCEPT !.out[n] = [@ EXCEPT !.type = type, !.flags = flags, !.align = align, !.empty = FALSE,
                                         !.parts = Append(@, DataPart(size, align))]]

DynamicCreate(l) ==
    LET interp == IF link.kind = "dso" THEN l ELSE PutData(l, ".interp", "PROGBITS", {"A"}, 1, 5)
        dynamic == PutData(interp, ".dynamic", "DYNAMIC", {"A", "W"}, 8, 16 * link.needed)
        dynsym == PutData(dynamic, ".dynsym", "DYNSYM", {"A"}, 8, 2 * SymSize)
        dynstr == PutData(dynsym, ".dynstr", "STRTAB", {"A"}, 1, 3)
    IN  IF Dynamic THEN PutData(dynstr, ".hash", "HASH", {"A"}, 8, 12) ELSE l

-----------------------------------------------------------------------------
(***************************************************************************)
(* Expressions and assignments.  A mask is one less than a power of two,   *)
(* so LEOP_AND with it is a remainder.                                     *)
(***************************************************************************)
Count(c) == IF c THEN 1 ELSE 0

\* One segment for thread local storage.
ThreadHeaders(fs) == Count(\E i \in DOMAIN fs : {"A", "T"} \subseteq fs[i])

Headers(l) ==
    LET s == SelectSeq(Sections(l), LAMBDA n : ~l.out[n].empty)
        flags == [i \in DOMAIN s |-> l.out[s[i]].flags]
        Starts(i) == "A" \in flags[i] /\ (\/ i = 1 \/ "A" \notin flags[i - 1]
                                          \/ ("W" \in flags[i]) # ("W" \in flags[i - 1]))
    IN  Cardinality({i \in DOMAIN s : Starts(i)}) + ThreadHeaders(flags)
        + Count(Dynamic) + 2 * Count(Dynamic /\ link.kind # "dso")
        + Count(l.note) + Count(link.stack)

\* ld_layout_calc_header_size.
HeaderSize(l) == EhdrSize + (IF Relocatable THEN 0 ELSE Headers(l) * PhdrSize)

RECURSIVE Eval(_, _)
Eval(e, s) ==
    CASE e.op = "const"   -> e.val
      [] e.op = "."       -> s.loc
      [] e.op = "headers" -> HeaderSize(lay)
      [] e.op = "page"    -> PageSize
      [] e.op = "var"     -> s.vals[e.name]
      [] e.op = "+"       -> Eval(e.e1, s) + Eval(e.e2, s)
      [] e.op = "-"       -> Eval(e.e1, s) - Eval(e.e2, s)
      [] e.op = "&"       -> Eval(e.e1, s) % (Eval(e.e2, s) + 1)
      [] e.op = "align"   -> RoundUp(s.loc, Eval(e.e1, s))
      [] e.op = "dsa"     -> RoundUp(s.loc, Eval(e.e1, s)) + (s.loc % Eval(e.e1, s))

\* ld_script_process_assign.  base is what _update_variable_section finds in os_addr.
Assigned(s, a, base) ==
    LET v == Eval(a.exp, s)
    IN  IF a.var # "." THEN [s EXCEPT !.vals = (a.var :> v + base) @@ @]
        ELSE IF v < s.loc THEN [s EXCEPT !.stop = "backwards"]
        ELSE [s EXCEPT !.loc = v]

-----------------------------------------------------------------------------
(***************************************************************************)
(* Offsets and addresses: _calc_output_section_offset.                     *)
(***************************************************************************)
PlaceInput(a, id) ==
    LET s == In(id) o == RoundUp(a.s.loc, s.align)
    IN  IF s.size = 0 THEN a ELSE [a EXCEPT !.reloff = (id :> o) @@ @, !.s.loc = o + s.size]

PlacePart(a, part, os) ==
    CASE part.k = "assign" -> [a EXCEPT !.s = Assigned(@, part, os.addr)]
      [] part.k = "data"   -> [a EXCEPT !.s.loc = RoundUp(@, part.align) + part.size]
      [] OTHER             -> FoldLeft(PlaceInput, a, part.ins)

\* Where the location counter starts: a shared object begins behind its headers.
Start(s, os) == IF Shared /\ s.first THEN [s EXCEPT !.loc = HeaderSize(lay), !.first = os.empty] ELSE s

AddressOf(os, loc) == IF "A" \in os.flags /\ ~Relocatable
                      THEN IF os.vma = <<>> THEN RoundUp(loc, os.align) ELSE os.addr
                      ELSE 0

\* .tbss takes no addresses.
Advance_AllTake(os, addr, loc, size) == IF "A" \notin os.flags THEN size ELSE addr + size
Advance(os, addr, loc, size) ==
    IF "A" \notin os.flags THEN size
    ELSE IF os.type = "NOBITS" /\ "T" \in os.flags THEN addr ELSE addr + size

PlaceSection(n) ==
    LET os == [lay.out[n] EXCEPT !.addr = IF lay.out[n].vma = <<>> THEN @ ELSE Eval(lay.out[n].vma[1], ls)]
        s == Start(ls, os)
        a == FoldLeft(LAMBDA x, p : PlacePart(x, p, os), [s |-> [s EXCEPT !.loc = 0], reloff |-> reloff], os.parts)
        addr == AddressOf(os, s.loc)
        off == RoundUp(s.off, os.align)
        size == a.s.loc
    IN  /\ lay' = [lay EXCEPT !.out[n] = [os EXCEPT !.addr = addr, !.off = off, !.size = size]]
        /\ reloff' = a.reloff
        /\ ls' = [a.s EXCEPT !.off = off + (IF os.type = "NOBITS" THEN 0 ELSE size),
                             !.loc = Advance(os, addr, s.loc, size)]

\* One element of lo_oelist: _calc_offset.
PlaceElement(e) ==
    CASE e.k = "assign" -> /\ ls' = Assigned(ls, e, 0)
                           /\ UNCHANGED <<lay, reloff>>
      [] e.k = "section" /\ ~lay.out[e.os].rel -> PlaceSection(e.os)
      [] OTHER -> UNCHANGED <<lay, ls, reloff>>

-----------------------------------------------------------------------------
(***************************************************************************)
(* Behind the sections: the section header table, the string tables, the   *)
(* relocation sections and the symbol table.                               *)
(***************************************************************************)
HasScn(os) == ~os.empty \/ os.rel

GnuStack(l, off) ==
    IF ~(Relocatable /\ link.stack) THEN l
    ELSE AllocSection(l, ".note.GNU-stack", [NewSection EXCEPT !.empty = FALSE, !.type = "PROGBITS", !.off = off], "")

\* _calc_shdr_offset: with a header for no section, and for the three sections made later.
ShdrTable_Two(n) == (n + 2) * ShdrSize
ShdrTable(n) == (n + 4) * ShdrSize

Piece(n, off, size) == [name |-> n, off |-> off, size |-> size]
After(p) == p[Len(p)].off + p[Len(p)].size
Then(p, n, align, size) == Append(p, Piece(n, RoundUp(After(p), align), size))

\* _calc_reloc_section_offset.
RelocPieces(l, p) ==
    LET owners == SelectSeq(Sections(l), LAMBDA n : (Relocatable \/ link.emit) /\ l.out[n].r # "")
    IN  FoldLeft(LAMBDA q, n : Then(q, l.out[n].r, 8, l.out[l.out[n].r].size), p, owners)

Behind(l, off) ==
    LET n == Cardinality({m \in DOMAIN l.out : HasScn(l.out[m])})
        table == <<Piece("shdrs", RoundUp(off, 8), ShdrTable(n))>>
        relocs == RelocPieces(l, Then(table, ".shstrtab", 1, StrSize))
    IN  Then(Then(relocs, ".symtab", 8, Symbols * SymSize), ".strtab", 1, StrSize)

-----------------------------------------------------------------------------
(***************************************************************************)
(* Program headers: _create_phdr.  g collects the loadable segments and    *)
(* the one for thread local storage on the way over the sections.          *)
(***************************************************************************)
Segment(t, off, addr, filesz, memsz) == [type |-> t, off |-> off, addr |-> addr, filesz |-> filesz, memsz |-> memsz]
Whole(t, os) == Segment(t, os.off, os.addr, os.size, os.size)

NoSegments == [loads |-> <<>>, new |-> TRUE, w |-> FALSE, tls |-> 0, image |-> Segment("TLS", 0, 0, 0, 0)]

\* The first segment starts at the headers.
Opened(g, os, base) ==
    IF ("W" \in os.flags) = g.w /\ ~g.new THEN g
    ELSE [g EXCEPT !.new = FALSE, !.w = "W" \in os.flags,
                   !.loads = Append(@, IF @ = <<>> THEN Segment("LOAD", 0, base, 0, 0)
                                       ELSE Segment("LOAD", os.off, os.addr, 0, 0))]

\* A segment's part in the file ends with its last section that is not NOBITS.
Extended(g, os) ==
    LET i == Len(g.loads)
        mem == os.addr + os.size - g.loads[i].addr
    IN  [g EXCEPT !.loads[i].memsz = mem, !.loads[i].filesz = IF os.type = "NOBITS" THEN @ ELSE mem]

Thread(g, os) ==
    IF "T" \notin os.flags THEN [g EXCEPT !.tls = IF @ > 0 THEN -1 ELSE @]
    ELSE IF g.tls # 0 THEN g
    ELSE [g EXCEPT !.tls = 1, !.image.off = os.off, !.image.addr = os.addr]

ThreadSize(g, os) ==
    LET mem == g.loads[Len(g.loads)].memsz
    IN  IF g.tls <= 0 THEN g
        ELSE [g EXCEPT !.image.memsz = mem, !.image.filesz = IF os.type = "NOBITS" THEN @ ELSE mem]

Over(g, os, base) ==
    IF os.empty THEN g
    ELSE IF "A" \notin os.flags THEN [g EXCEPT !.new = TRUE]
    ELSE ThreadSize(Extended(Opened(Thread(g, os), os, base), os), os)

CreatePhdrs(l) ==
    LET s == Sections(l)
        base == l.out[s[1]].addr - l.out[s[1]].off
        g == FoldLeft(LAMBDA x, n : Over(x, l.out[n], base), NoSegments, s)
        notes == SelectSeq(s, LAMBDA n : l.out[n].type = "NOTE")
        When(c, h) == IF c THEN <<h>> ELSE <<>>
    IN  When(Dynamic /\ link.kind # "dso",
             Segment("PHDR", EhdrSize, base + EhdrSize, Headers(l) * PhdrSize, Headers(l) * PhdrSize))
        \o (IF Dynamic /\ link.kind # "dso" THEN <<Whole("INTERP", l.out[".interp"])>> ELSE <<>>)
        \o g.loads
        \o (IF Dynamic THEN <<Whole("DYNAMIC", l.out[".dynamic"])>> ELSE <<>>)
        \o (IF notes # <<>> THEN <<Whole("NOTE", l.out[notes[1]])>> ELSE <<>>)
        \o When(g.tls # 0, g.image)
        \o When(link.stack, Segment("STACK", 0, 0, 0, 0))

-----------------------------------------------------------------------------
(***************************************************************************)
(* The passes of ld_layout_sections and ld_output_create.                  *)
(***************************************************************************)
Described0 == FoldLeft(PrepareOutput, [out |-> <<>>, els |-> <<>>, wm |-> <<>>, place |-> <<>>, note |-> FALSE], Script)

LayoutInit ==
    /\ link \in Links
    /\ at = [phase |-> "input", k |-> 1]
    /\ lay = Described0
    /\ ls = [loc |-> 0, off |-> 0, first |-> TRUE, vals |-> <<>>, stop |-> "no"]
    /\ reloff = <<>> /\ tail = <<>> /\ phdrs = <<>>

Now(p) == at.phase = p
GoTo(p) == at' = [phase |-> p, k |-> 1]
Next1 == at' = [at EXCEPT !.k = @ + 1]

LayoutInputSection ==
    /\ Now("input") /\ at.k <= Len(InOrder)
    /\ lay' = LayoutInput(lay, InOrder[at.k])
    /\ Next1
    /\ UNCHANGED <<link, ls, reloff, tail, phdrs>>

\* ld_dynamic_create; ld_output_create_elf_sections; _calc_offset begins.
CreateDynamic ==
    /\ Now("input") /\ at.k > Len(InOrder)
    /\ \E l \in {DynamicCreate(lay)} : lay' = l /\ ls' = [ls EXCEPT !.off = HeaderSize(l)]
    /\ GoTo("offsets")
    /\ UNCHANGED <<link, reloff, tail, phdrs>>

CalcOffset ==
    /\ Now("offsets") /\ at.k <= Len(lay.els) /\ ls.stop = "no"
    /\ PlaceElement(lay.els[at.k])
    /\ Next1
    /\ UNCHANGED <<link, tail, phdrs>>

CalcTail ==
    /\ Now("offsets") /\ at.k > Len(lay.els) /\ ls.stop = "no"
    /\ \E l \in {GnuStack(lay, ls.off)} : lay' = l /\ tail' = Behind(l, ls.off)
    /\ GoTo("phdrs")
    /\ UNCHANGED <<link, ls, reloff, phdrs>>

OutputCreate ==
    /\ Now("phdrs")
    /\ phdrs' = IF Relocatable THEN <<>> ELSE CreatePhdrs(lay)
    /\ GoTo("done")
    /\ UNCHANGED <<link, lay, ls, reloff, tail>>

LayoutNext == LayoutInputSection \/ CreateDynamic \/ CalcOffset \/ CalcTail \/ OutputCreate

LayoutSpec == LayoutInit /\ [][LayoutNext]_layoutVars

-----------------------------------------------------------------------------
Finished == at.phase = "done"
Kept == {n \in DOMAIN lay.out : HasScn(lay.out[n])}

(***************************************************************************)
(* The shortcut through the matches seen before (ld_layout.c:697) gives an *)
(* input section to the same list as a search through the whole script.    *)
(***************************************************************************)
FirstMatch(id) ==
    LET all == SelectSeq(ScriptLists(Described0), LAMBDA p : In(id).name \in PatternOf(Described0, p).secs
                                                             /\ FileFits(id, PatternOf(Described0, p)))
    IN  IF all = <<>> THEN <<In(id).name, 1>> ELSE all[1]

PlacedByFirstMatch ==
    Finished => \A id \in DOMAIN lay.place :
        LET p == FirstMatch(id)
        IN  lay.place[id] = p[1]
            /\ p[1] # "/DISCARD/" => id \in ToSet(lay.out[p[1]].parts[p[2]].ins)

(***************************************************************************)
(* The loader finds what the sections say: every section with contents is  *)
(* in the file part of a loadable segment, as far from its start in the    *)
(* file as in memory, and the start is at the same place of a page in both *)
(* (ld_output.c:737, ld_layout.c:1069); and the headers are as many as was  *)
(* counted before the layout, by rules of its own (ld_layout.c:346,        *)
(* ld_output.c:658).  Exceptions to the first are an orphan behind         *)
(* every loadable section of the script, the place for one that comes      *)
(* before any other of its kind, and outputs that begin with data: their   *)
(* first segment starts with the headers, a page below.                    *)
(***************************************************************************)
ScriptLoads == {n \in DOMAIN Described0.out : "A" \in Described0.out[n].flags} \ {"/DISCARD/"}
LastOrphan(n) == n \notin DOMAIN Described0.out
                 /\ LET place(m) == SelectInSeq(Sections(lay), LAMBDA x : x = m)
                    IN  \A m \in ScriptLoads : place(m) < place(n)
Maps(p, os) == /\ p.type = "LOAD"
               /\ p.addr <= os.addr /\ os.addr + os.size <= p.addr + p.filesz
               /\ os.addr - p.addr = os.off - p.off
               /\ p.addr % PageSize = p.off % PageSize

BeginsReadOnly == LET s == SelectSeq(Sections(lay), LAMBDA n : ~lay.out[n].empty /\ "A" \in lay.out[n].flags)
                  IN  s # <<>> /\ "W" \notin lay.out[s[1]].flags

LoadsMap == Finished /\ ~Relocatable =>
    /\ Len(phdrs) = Headers(lay)
    /\ BeginsReadOnly =>
         \A n \in Kept : "A" \in lay.out[n].flags /\ lay.out[n].type # "NOBITS" /\ ~LastOrphan(n)
                             => \E i \in DOMAIN phdrs : Maps(phdrs[i], lay.out[n])

(***************************************************************************)
(* No two parts of the file overlap: the headers, the contents of each     *)
(* section and what is put behind them by four other functions             *)
(* (ld_layout.c:1208, 1225, ld_output.c:1042, 1105).                       *)
(***************************************************************************)
Pieces == {Piece("headers", 0, HeaderSize(lay)),
           Piece("section headers", tail[1].off, (Cardinality(Kept) + 4) * ShdrSize)}
          \cup {tail[i] : i \in 2..Len(tail)}
          \cup {Piece(n, lay.out[n].off, lay.out[n].size) :
                    n \in {m \in Kept : ~lay.out[m].rel /\ lay.out[m].type # "NOBITS"}}

PiecesApart == Finished => \A p, q \in Pieces : p = q \/ p.off + p.size <= q.off \/ q.off + q.size <= p.off

(***************************************************************************)
(* Every input section is inside its output section and at an address that *)
(* is a multiple of its alignment (ld_layout.c:1121).                      *)
(***************************************************************************)
InputsAligned == Finished => \A id \in DOMAIN reloff :
    LET os == lay.out[lay.place[id]]
    IN  /\ reloff[id] + In(id).size <= os.size
        /\ (os.addr + reloff[id]) % In(id).align = 0
=============================================================================
