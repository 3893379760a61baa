------------------------------- MODULE ElfCopy -------------------------------
(***************************************************************************)
(* How elfcopy, strip and mcs turn one ELF object into another             *)
(* (create_elf of src/elfcopy/main.c, with sections.c, symbols.c and       *)
(* segments.c).  The record ecp is the struct elfcopy of the process: the  *)
(* list v_sec of the sections it keeps, the segments they lie in, the maps *)
(* secndx and symndx from the numbers of the input to those of the output, *)
(* and the output under construction.  Each pass over the object is one    *)
(* action; one section is one step of the first pass.  Contents are        *)
(* abstract: symbols, the symbol of each relocation, the members of a      *)
(* group, the strings of a comment section; other contents are one value.  *)
(***************************************************************************)
EXTENDS Integers, Sequences, FiniteSets
LOCAL INSTANCE SequencesExt

CONSTANTS
    EhdrSize, PhentSize, ShentSize, ShdrAlign, \* file sizes of the headers, in units
    SymSize, RelSize,     \* and of one symbol and one relocation
    DebugNames, DwoNames, \* the names is_debug_section and is_dwo_section accept
    LocalLabels,          \* the symbol names that start with .L
    LoReserve             \* SHN_LORESERVE

VARIABLES
    pc,   \* the pass that comes next, "written", "failed", or
          \* "refused" when the command line asks for addresses that cannot be
    ein,  \* the object read
    opt,  \* what the command line asks for
    ecp   \* struct elfcopy

vars == <<pc, ein, opt, ecp>>

roundup(x, a) == ((x + a - 1) \div a) * a

\* The numbers of the sections that are not in the input: the pseudo section
\* of the headers, .shstrtab, the section header table, the added sections.
Header == 0
ShStr  == 100
Shtab  == 101
Added  == 110

Special == {".symtab", ".strtab", ".shstrtab"}
IsRel(type) == type \in {"REL", "RELA"}

\* lookup_sec_act and lookup_symop_list; the operations of a name are a set.
Act(n)       == IF n \in DOMAIN opt.sac THEN opt.sac[n] ELSE {}
SymOp(n, op) == n \in DOMAIN opt.symop /\ op \in opt.symop[n]
AnySymOp(op) == \E n \in DOMAIN opt.symop : op \in opt.symop[n]

InScn(i)  == ein.scns[i]
InName(i) == IF i = 0 THEN "" ELSE InScn(i).name
InIndex   == 1..Len(ein.scns)
Named(n)  == {i \in InIndex : InName(i) = n}

\* The struct section of an input section; that of .shstrtab is made first.
IdOf(i) == IF InName(i) = ".shstrtab" THEN ShStr ELSE i

\* A fresh struct section, and a fresh section of the output.
NewSection ==
    [is |-> 0, os |-> 0, name |-> "", off |-> 0, sz |-> 0, align |-> 1, type |-> "NULL",
     flags |-> {}, vma |-> 0, lma |-> 0, loadable |-> FALSE, seg |-> 0, tls |-> FALSE,
     pseudo |-> FALSE, pad |-> 0, buf |-> <<>>, nocopy |-> FALSE]

NewScn ==
    [name |-> "", type |-> "NULL", flags |-> {}, addr |-> 0, off |-> 0, size |-> 0,
     link |-> 0, info |-> 0, align |-> 1, data |-> <<>>]

----------------------------------------------------------------------------
(* Which sections stay. *)

\* is_remove_section.
IsRemove(n) ==
    LET debug == n \in DebugNames IN
    IF n \in Special
    THEN n # ".shstrtab" /\ opt.strip = "all" /\ ~AnySymOp("KEEP")
    ELSE \/ opt.strip = "dwo" /\ n \in DwoNames
         \/ opt.strip = "nondwo" /\ n \notin DwoNames
         \/ debug /\ (opt.strip \in {"all", "debug", "unneeded"} \/ "DISCARD_LOCAL" \in opt.flags)
         \/ /\ ~(debug /\ opt.strip = "nondebug")
            /\ \/ "SEC_REMOVE" \in opt.flags /\ "remove" \in Act(n)
               \/ "SEC_COPY" \in opt.flags /\ "copy" \notin Act(n)

\* is_remove_reloc_sec: the null section has a name too, the empty one.  The
\* number of a section that is not there ends the program.
IsRemoveReloc(info) == IsRemove(InName(info))

NamesNoSection(i) ==
    LET ish == InScn(i) IN
    ~IsRemove(ish.name) /\ IsRel(ish.type) /\ ish.info \notin 0..Len(ein.scns)

\* The sections create_scn passes over.
IsSkipped(i) ==
    LET ish == InScn(i) IN
    \/ IsRemove(ish.name)
    \/ IsRel(ish.type) /\ ish.info # 0 /\ IsRemoveReloc(ish.info)
    \/ ish.type = "GROUP" /\ opt.strip = "all"

----------------------------------------------------------------------------
(* The lists. *)

\* insert_to_sec_list.
InsertSection(e, id, tail) ==
    LET off(k) == e.secs[e.list[k]].off
        later  == {k \in 1..Len(e.list) : e.secs[id].off < off(k)}
        at     == CHOOSE k \in later : \A j \in later : k <= j
        last   == tail \/ e.list = <<>> \/ off(Len(e.list)) <= e.secs[id].off
    IN  [e EXCEPT !.list = IF last THEN Append(@, id) ELSE InsertAt(@, at, id),
                  !.nos = @ + (IF e.secs[id].pseudo THEN 0 ELSE 1)]

\* The condition of add_to_inseg_list on one segment.
Inside(s, seg) ==
    /\ s.off >= seg.off /\ (s.vma >= seg.vaddr \/ s.pseudo)
    /\ s.off + s.sz <= seg.off + seg.fsz \/ s.type = "NOBITS"
    /\ s.vma + s.sz <= seg.vaddr + seg.msz
    /\ seg.type = "TLS" => "TLS" \in s.flags

\* insert_to_inseg_list: by offset, behind its equals.
InsertInseg(e, v, id) ==
    LET upto == {k \in 1..Len(v) : e.secs[v[k]].off <= e.secs[id].off}
        at   == IF upto = {} THEN 0 ELSE CHOOSE k \in upto : \A j \in upto : j <= k
    IN  InsertAt(v, at + 1, id)

\* add_to_inseg_list: the section id joins every segment it lies in.
AddToInseg(e, id) ==
    LET one(f, k) ==
            LET seg == f.segs[k]
                s   == f.secs[id]
                vma == IF s.pseudo THEN seg.vaddr + (s.off - seg.off) ELSE s.vma
                lma == IF seg.paddr > 0 THEN seg.paddr + (s.off - seg.off) ELSE 0
            IN  IF ~Inside(s, seg) THEN f
                ELSE [f EXCEPT !.segs[k].secs = InsertInseg(f, @, id),
                               !.secs[id] = [@ EXCEPT !.loadable = TRUE, !.vma = vma, !.lma = lma,
                                   !.seg = IF seg.type = "LOAD" THEN k ELSE @,
                                   !.tls = @ \/ seg.type = "TLS"]]
    IN  FoldLeft(one, e, [k \in 1..Len(e.segs) |-> k])

----------------------------------------------------------------------------
(* create_elf up to the scan, and the scan: create_scn. *)

\* setup_phdr: a debug file keeps no program headers.
SetupPhdr == IF opt.strip = "nondebug" THEN <<>>
             ELSE [k \in 1..Len(ein.phdrs) |-> ein.phdrs[k] @@ [secs |-> <<>>]]

EmptyElf ==
    [secs |-> <<>>, list |-> <<>>, segs |-> <<>>, scns |-> <<>>, phdrs |-> <<>>, strs |-> {},
     intact |-> TRUE, exist |-> FALSE, symtab |-> 0, strtab |-> 0, reorder |-> FALSE,
     secndx |-> <<>>, symndx |-> <<>>, moved |-> FALSE, shoff |-> 0, shstrndx |-> 0, next |-> 1]

\* What a process starts with: ecp->nos counts the null section, and the list
\* of added sections holds those of the command line.
ProcessStart(o) == EmptyElf @@ [nos |-> 1, sadd |-> o.add]

\* The first lines of create_elf, and of create_scn.
CreateElf ==
    /\ pc = "create_elf"
    /\ LET segs == SetupPhdr
           head == [NewSection EXCEPT !.pseudo = TRUE, !.sz = EhdrSize + PhentSize * Len(segs)]
           str  == [NewSection EXCEPT !.name = ".shstrtab", !.type = "STRTAB"]
           e    == [ecp EXCEPT !.segs = segs, !.secs = (Header :> head) @@ (ShStr :> str),
                               !.strs = Special, !.secndx = [i \in 0..Len(ein.scns) |-> 0]]
       IN  ecp' = InsertSection(AddToInseg(e, Header), Header, FALSE)
    /\ pc' = "create_scn" /\ UNCHANGED <<ein, opt>>

\* get_section_flags, as the flags SF_* named.
SecFlags(n) == Act(n) \cap {"SF_ALLOC", "SF_LOAD", "SF_READONLY", "SF_CODE", "SF_CONTENTS"}

\* The struct section of input section i.
SectionOf(i) ==
    LET ish == InScn(i) IN
    [NewSection EXCEPT !.is = i, !.name = ish.name, !.off = ish.off, !.sz = ish.size,
        !.align = ish.align, !.type = ish.type, !.flags = ish.flags, !.vma = ish.addr]

\* A section is loadable when a segment holds it, or by SHF_ALLOC in an object
\* file, unless the user set flags that load nothing.
Loadable(e, i) ==
    LET flags == SecFlags(InName(i))
        f     == [e EXCEPT !.secs = (i :> SectionOf(i)) @@ @]
        g     == AddToInseg(f, i)
    IN  IF flags # {} /\ flags \cap {"SF_LOAD", "SF_ALLOC"} = {} THEN f
        ELSE IF ein.type = "REL" /\ "ALLOC" \in InScn(i).flags
             THEN [g EXCEPT !.secs[i].loadable = TRUE] ELSE g

\* create_external_section: behind everything, and the symbol table has to be
\* made again.
CreateExternal(e, id, sa, off) ==
    LET sec == [NewSection EXCEPT !.name = sa.name, !.off = off, !.sz = sa.size,
                    !.type = IF sa.name = ".note" THEN "NOTE" ELSE "PROGBITS",
                    !.os = Len(e.scns) + 1, !.nocopy = TRUE]
        f   == [e EXCEPT !.secs = (id :> sec) @@ @, !.strs = @ \cup {sa.name}, !.intact = FALSE,
                         !.scns = Append(@, [NewScn EXCEPT !.type = sec.type, !.data = <<sa.name>>])]
    IN  InsertSection(f, id, TRUE)

\* add_gnu_debuglink queues one more section, and insert_sections makes all
\* that are queued, at the end of the last section of the list.
InsertSections(e) ==
    LET link == IF opt.debuglink THEN <<[name |-> ".gnu_debuglink", size |-> 2]>> ELSE <<>>
        sadd == e.sadd \o link
        s    == e.secs[Last(e.list)]
        off  == s.off + (IF s.type \in {"NOBITS", "NULL"} THEN 0 ELSE s.sz)
        one(f, k) == CreateExternal(f, Added + k, sadd[k], off)
    IN  FoldLeft(one, [e EXCEPT !.sadd = sadd], [k \in 1..Len(sadd) |-> k])

\* elf_newscn for the section id.
GiveScn(e, id) ==
    [e EXCEPT !.scns = Append(@, NewScn), !.secs[id].os = Len(e.scns) + 1]

\* check_section_rename.
Renamed(s) ==
    LET n      == IF s.name \in DOMAIN opt.rename THEN opt.rename[s.name] ELSE s.name
        prefix == IF s.loadable /\ opt.prefixAlloc # "" THEN opt.prefixAlloc ELSE opt.prefixSec
    IN  IF n \in Special \/ prefix = "" THEN n ELSE prefix \o n

\* copy_shdr, not a verbatim copy.
CopyShdr(e, id) ==
    LET s     == e.secs[id]
        ish   == InScn(s.is)
        f     == SecFlags(ish.name)
        fill  == "SF_CONTENTS" \in f /\ s.type = "NOBITS" /\ s.sz > 0
        type  == IF fill THEN "PROGBITS" ELSE s.type
        flags == IF f = {}
                 THEN ish.flags \cup (IF IsRel(ish.type) THEN {"INFO_LINK"} ELSE {})
                 ELSE (IF "SF_ALLOC" \in f THEN {"ALLOC"} ELSE {})
                      \cup (IF "SF_READONLY" \in f THEN {} ELSE {"WRITE"})
                      \cup (IF "SF_CODE" \in f THEN {"EXECINSTR"} ELSE {})
    IN  [e EXCEPT !.strs = @ \cup {s.name},
                  !.secs[id] = [@ EXCEPT !.type = type, !.nocopy = @ \/ fill],
                  !.scns[s.os] = [@ EXCEPT !.type = type, !.flags = flags, !.addr = s.vma,
                      !.off = s.off, !.size = s.sz, !.link = ish.link, !.info = ish.info,
                      !.align = s.align]]

\* The type a section gets in a file that keeps only debugging sections.
DebugOnlyType(i, type) ==
    IF /\ opt.strip = "nondebug" /\ InScn(i).type # "NOTE"
       /\ InScn(i).flags \cap {"ALLOC", "GROUP"} # {}
    THEN "NOBITS" ELSE type

\* One turn of the loop of create_scn, on a section that stays: the struct
\* section and, unless it comes later, the section of the output, ...
EnterScn(i) ==
    LET n       == InName(i)
        id      == IdOf(i)
        e1      == IF n = ".shstrtab" THEN [ecp EXCEPT !.secs[ShStr].off = InScn(i).off]
                   ELSE Loadable(ecp, i)
        e2      == IF n = ".shstrtab" /\ (opt.debuglink \/ e1.sadd # <<>>)
                   THEN InsertSections(e1) ELSE e1
    IN  IF n \in {".symtab", ".strtab"} THEN e2
        ELSE [GiveScn(e2, id) EXCEPT !.secndx[i] = Len(e2.scns) + 1]

\* ... then its type, name, header and place in the list.
KeepScn(e, i) ==
    LET n       == InName(i)
        id      == IdOf(i)
        type    == DebugOnlyType(i, e.secs[id].type)
        e5      == [e EXCEPT !.secs[id] = [@ EXCEPT !.type = type, !.name = Renamed(e.secs[id])]]
        e6      == IF n \in Special THEN [e5 EXCEPT !.reorder = TRUE]
                   ELSE [CopyShdr(e5, id) EXCEPT !.intact = @ /\ ~e.reorder]
        e7      == [e6 EXCEPT !.exist = @ \/ n = ".symtab",
                              !.symtab = IF n = ".symtab" THEN i ELSE @,
                              !.strtab = IF n = ".strtab" THEN i ELSE @]
    IN  [InsertSection(e7, id, FALSE) EXCEPT !.next = @ + 1]

CreateScn ==
    /\ pc = "create_scn" /\ ecp.next \in InIndex /\ ~NamesNoSection(ecp.next)
    /\ IF IsSkipped(ecp.next) THEN ecp' = [ecp EXCEPT !.next = @ + 1]
       ELSE \E e \in {EnterScn(ecp.next)} : ecp' = KeepScn(e, ecp.next)
    /\ UNCHANGED <<pc, ein, opt>>

CreateScnFails ==
    /\ pc = "create_scn" /\ ecp.next \in InIndex /\ NamesNoSection(ecp.next)
    /\ pc' = "failed" /\ UNCHANGED <<ein, opt, ecp>>

CreateScnEnd ==
    /\ pc = "create_scn" /\ ecp.next \notin InIndex
    /\ pc' = "adjust_addr" /\ UNCHANGED <<ein, opt, ecp>>

----------------------------------------------------------------------------
(* adjust_addr: the addresses the command line changes. *)

\* The place of section id in its segment, and the sections around it.
Place(seg, id)  == CHOOSE k \in 1..Len(seg.secs) : seg.secs[k] = id
UpTo(seg, id)   == {seg.secs[k] : k \in 1..Place(seg, id)}
From(seg, id)   == {seg.secs[k] : k \in Place(seg, id)..Len(seg.secs)}
Behind(seg, id) == From(seg, id) \ {id}

\* Adds d to a field of the sections of a set.
AddTo(secs, ids, field, d) ==
    [id \in DOMAIN secs |-> IF id \in ids THEN [secs[id] EXCEPT ![field] = @ + d] ELSE secs[id]]

\* The first pass: --change-addresses moves everything that is loadable.
ChangeAll(e) ==
    LET load == {id \in DOMAIN e.secs : e.secs[id].loadable /\ id \in ToSet(e.list)}
        lma  == {id \in load : e.secs[id].seg # 0 /\ e.segs[e.secs[id].seg].paddr > 0}
    IN  [e EXCEPT !.secs = AddTo(AddTo(@, load, "vma", opt.changeAddr), lma, "lma", opt.changeAddr)]

\* The new extent of the segment of s when s moves to vma; ok is FALSE when
\* there is no room below.
NewExtent(s, seg, id, vma) ==
    IF vma < s.vma
    THEN LET start == vma - (s.vma - seg.vaddr) IN
         [ok |-> vma >= s.vma - seg.vaddr, start |-> start,
          end |-> IF id = Last(seg.secs) THEN start + seg.msz ELSE seg.vaddr + seg.msz]
    ELSE [ok |-> TRUE, start |-> IF id = seg.secs[1] THEN vma ELSE seg.vaddr,
          end |-> vma + (seg.vaddr + seg.msz - s.vma)]

\* The segments that stand in the way of that extent, at their old places.
Overlapped(e, s, x) ==
    {k \in 1..Len(e.segs) : /\ k # s.seg /\ e.segs[k].type = "LOAD"
                            /\ x.start <= e.segs[k].vaddr + e.segs[k].msz
                            /\ x.end >= e.segs[k].vaddr}

\* Moving down takes the sections before it along and pushes the others back
\* in the file; moving up takes those behind it along.
MoveVma_Alone(e, id, vma) == [e EXCEPT !.secs[id].vma = vma]
MoveVma(e, id, vma) ==
    LET s   == e.secs[id]
        seg == e.segs[s.seg]
        d   == vma - s.vma
    IN  IF d < 0
        THEN [e EXCEPT !.secs = AddTo(AddTo(@, UpTo(seg, id), "vma", d), Behind(seg, id), "off", -d)]
        ELSE [e EXCEPT !.secs = AddTo(AddTo(@, From(seg, id), "vma", d),
                                      IF id = seg.secs[1] THEN {} ELSE From(seg, id), "off", d)]

\* What --change-section-vma and --change-section-lma ask for, by name.
Target(map, n, now) == IF n \in DOMAIN map THEN map[n] ELSE now

\* The second pass, one section; errx stops the program.
ChangeVma(e, id) ==
    LET s   == e.secs[id]
        vma == Target(opt.setvma, s.name, s.vma)
        x   == NewExtent(s, e.segs[s.seg], id, vma)
    IN  IF e.pc = "refused" \/ ~s.loadable \/ vma = s.vma THEN e
        ELSE IF s.seg = 0 THEN [e EXCEPT !.secs[id].vma = vma]
        ELSE IF vma % s.align # 0 \/ ~x.ok \/ Overlapped(e, s, x) # {} THEN [e EXCEPT !.pc = "refused"]
        ELSE MoveVma(e, id, vma)

\* --pad-to: the section of contents with the highest address, of the last
\* ones of each segment.
PadTo(e) ==
    LET full(seg) == {id \in ToSet(seg.secs) : e.secs[id].type # "NOBITS"}
        lastOf(seg) == CHOOSE id \in full(seg) : Place(seg, id) >= 1 /\
                           \A j \in full(seg) : Place(seg, j) <= Place(seg, id)
        cand == {lastOf(e.segs[k]) : k \in {j \in 1..Len(e.segs) :
                                            e.segs[j].type = "LOAD" /\ full(e.segs[j]) # {}}}
        top  == CHOOSE id \in cand : \A j \in cand : e.secs[j].vma <= e.secs[id].vma
        end  == e.secs[top].vma + e.secs[top].sz
    IN  IF opt.padTo = 0 \/ cand = {} \/ e.pc = "refused" \/ opt.padTo <= end THEN e
        ELSE [e EXCEPT !.secs[top].pad = opt.padTo - end]

\* The third pass, one section.
ChangeLma(e, id) ==
    LET s   == e.secs[id]
        seg == e.segs[s.seg]
        lma == Target(opt.setlma, s.name, s.lma)
    IN  IF e.pc = "refused" \/ ~s.loadable \/ s.seg = 0 THEN e
        ELSE IF seg.paddr = 0 \/ lma = s.lma THEN e
        ELSE IF lma % s.align # 0 THEN [e EXCEPT !.pc = "refused"]
        ELSE [e EXCEPT !.secs = AddTo(@, IF lma < s.lma THEN UpTo(seg, id) ELSE From(seg, id),
                                      "lma", lma - s.lma)]

AdjustAddr ==
    /\ pc = "adjust_addr" /\ UNCHANGED <<ein, opt>>
    /\ LET e0 == ChangeAll(ecp) @@ [pc |-> "create_symtab"]
           e1 == FoldLeft(ChangeVma, e0, e0.list)
           e2 == FoldLeft(ChangeLma, PadTo(e1), e1.list)
       IN  pc' = e2.pc /\ ecp' = [f \in DOMAIN ecp |-> e2[f]]

----------------------------------------------------------------------------
(* The symbol table: symbols.c.  Symbols and sections of the input are      *)
(* numbered from 0; a symbol of the output remembers in "from" which one it *)
(* was, -1 for a section symbol that was made.                              *)

SymData  == InScn(ecp.symtab).data
SymIndex == 0..Len(SymData) - 1
InSym(i) == SymData[i + 1]

IsGlobal(s) == s.bind \in {"GLOBAL", "GNU_UNIQUE", "WEAK"}
IsDebugSymbol(s) == s.type \in {"SECTION", "FILE"}
Defined(s) == s.shndx # 0 /\ s.shndx < LoReserve

\* mark_reloc_symbols: v_rel.  It asks of the sections create_scn has kept.
RelocSymbols ==
    {n \in SymIndex \ {0} :
        \E i \in InIndex : /\ IsRel(InScn(i).type) /\ InScn(i).link = ecp.symtab
                          /\ ~IsRemove(InName(i)) /\ ~IsRemoveReloc(InScn(i).info)
                          /\ n \in ToSet(InScn(i).data)}

\* mark_section_group_symbols: v_grp.
GroupSymbols ==
    {n \in SymIndex \ {0} :
        \E i \in InIndex : /\ InScn(i).type = "GROUP" /\ ~IsRemove(InName(i))
                          /\ InScn(i).info = n}

\* is_needed_symbol.
IsNeeded(i) ==
    \/ i \in RelocSymbols \cup GroupSymbols
    \/ ein.type = "REL" /\ IsGlobal(InSym(i))

\* is_remove_symbol: the first rule that speaks of the symbol decides.  To
\* name a removed section comes before everything, -K before --strip-all, -N
\* before what sections need, relocations excepted.
IsRemoveSymbol(e, i) ==
    LET s     == InSym(i)
        local == s.bind = "LOCAL" /\ ~IsDebugSymbol(s)
    IN  CASE i = 0                                    -> FALSE
          [] Defined(s) /\ e.secndx[s.shndx] = 0      -> TRUE
          [] SymOp(s.name, "KEEP")                    -> FALSE
          [] opt.strip = "all"                        -> TRUE
          [] SymOp(s.name, "STRIP")                   -> i \notin RelocSymbols
          [] IsNeeded(i)                              -> FALSE
          [] OTHER -> \/ opt.strip = "unneeded"
                      \/ "DISCARD_LOCAL" \in opt.flags /\ local
                      \/ "DISCARD_LLABEL" \in opt.flags /\ local /\ s.name \in LocalLabels
                      \/ opt.strip = "debug" /\ IsDebugSymbol(s)

\* The binding generate_symbols gives a symbol that stays.
NewBind(s) ==
    LET here   == s.shndx # 0
        local  == \/ SymOp(s.name, "LOCALIZE")
                  \/ "KEEP_GLOBAL" \in opt.flags /\ ~SymOp(s.name, "KEEPG")
                  \/ "LOCALIZE_HIDDEN" \in opt.flags /\ s.hidden
        weaken == "WEAKEN_ALL" \in opt.flags \/ SymOp(s.name, "WEAKEN")
    IN  IF IsGlobal(s)
        THEN IF here /\ local THEN "LOCAL" ELSE IF weaken THEN "WEAK" ELSE s.bind
        ELSE IF SymOp(s.name, "GLOBALIZE") THEN "GLOBAL" ELSE s.bind

\* Its name: redefined, and behind the prefix when it has one.
NewName(s) ==
    LET n == IF s.name \in DOMAIN opt.redef THEN opt.redef[s.name] ELSE s.name
    IN  IF opt.prefixSym = "" \/ n = "" THEN n ELSE opt.prefixSym \o n

\* add_to_symtab puts section numbers through secndx.
NewIndex_Old(e, s) == s.shndx
NewIndex(e, s) == IF Defined(s) THEN e.secndx[s.shndx] ELSE s.shndx

NewSymbol(e, i) ==
    LET s == InSym(i) IN
    [name |-> NewName(s), bind |-> NewBind(s), type |-> s.type, hidden |-> s.hidden, from |-> i,
     shndx |-> NewIndex(e, s)]

\* The symbols copied, and of these the ones of one kind, in the order of the
\* input.
Kept(e) ==
    LET kept == SelectSeq([k \in 1..Len(SymData) |-> k - 1], LAMBDA i : ~IsRemoveSymbol(e, i))
    IN  [k \in 1..Len(kept) |-> NewSymbol(e, kept[k])]

Copied(kept, global) == SelectSeq(kept, LAMBDA s : IsGlobal(s) = global)

\* Section symbols for the sections of the output that lack one.
SectionSymbols(e, kept) ==
    LET have   == {s.shndx : s \in {x \in ToSet(kept) : x.type = "SECTION" /\ x.shndx < LoReserve}}
        wants(id) == LET s == e.secs[id] IN
                     /\ ~s.pseudo /\ s.name \notin Special /\ s.os \notin have
                     /\ ~(ein.type = "REL" /\ IsRel(s.type))
        ids    == SelectSeq(e.list, wants)
    IN  [k \in 1..Len(ids) |->
            [name |-> "", bind |-> "LOCAL", type |-> "SECTION", hidden |-> FALSE, from |-> -1,
             shndx |-> e.secs[ids[k]].os]]

\* generate_symbols gives up when the null symbol is all that is left, ...
NoSymbols(kept) == Len(Copied(kept, FALSE)) <= 1 /\ Copied(kept, TRUE) = <<>>

\* ... and otherwise makes the table, locals first, and the map symndx, in
\* which a symbol that was removed has the number 0.
Locals(e, kept) == Copied(kept, FALSE) \o SectionSymbols(e, kept)

NumbersIn(syms) ==
    LET at(i) == {k \in 1..Len(syms) : syms[k].from = i}
    IN  [i \in SymIndex |-> IF at(i) = {} THEN 0 ELSE (CHOOSE k \in at(i) : TRUE) - 1]

\* create_symtab: the two numbers its sections will have, before the filter
\* looks at symbols that name them.
ReserveNumbers(e) ==
    [e EXCEPT !.secndx[e.symtab] = Len(e.scns) + 1, !.secndx[e.strtab] = Len(e.scns) + 2]

\* create_symtab, nothing left: the two sections leave the list.
DropSymtab(e) ==
    [e EXCEPT !.list = SelectSeq(@, LAMBDA id : id \notin {e.symtab, e.strtab}),
              !.symtab = 0, !.strtab = 0, !.exist = FALSE]

\* create_symtab, else: elf_newscn and the verbatim copy of copy_shdr, ...
VerbatimScn(i) ==
    [InScn(i) EXCEPT !.name = ""] @@ NewScn

CopySymtab(e) ==
    LET sy == Len(e.scns) + 1
        st == Len(e.scns) + 2
    IN  [GiveScn(GiveScn(e, e.symtab), e.strtab) EXCEPT
            !.secndx[e.symtab] = sy, !.secndx[e.strtab] = st,
            !.scns[sy] = VerbatimScn(e.symtab), !.scns[st] = VerbatimScn(e.strtab)]

\* ... and either the contents as they are or those of create_symtab_data.
MakeSymtab(e, locals, globals) ==
    LET syms == locals \o globals
    IN  [e EXCEPT
            !.symndx = NumbersIn(syms),
            !.secs[e.symtab].sz = SymSize * Len(syms), !.secs[e.strtab].sz = Len(syms),
            !.scns[e.secs[e.symtab].os] = [@ EXCEPT !.type = "SYMTAB", !.flags = {}, !.addr = 0,
                                   !.align = ShdrAlign, !.data = syms,
                                   !.size = SymSize * Len(syms), !.info = Len(locals)],
            !.scns[e.secs[e.strtab].os] = [@ EXCEPT !.type = "STRTAB", !.flags = {}, !.addr = 0,
                                   !.align = 1, !.link = 0, !.info = 0, !.size = Len(syms)]]

\* The options that have the symbol table made again.
ChangesSymbols ==
    \/ opt.strip \in {"debug", "unneeded"} \/ opt.prefixSym # "" \/ DOMAIN opt.symop \cup DOMAIN opt.redef # {}
    \/ opt.flags \cap {"WEAKEN_ALL", "LOCALIZE_HIDDEN", "DISCARD_LOCAL", "DISCARD_LLABEL"} # {}

CreateSymtab ==
    /\ pc = "create_symtab"
    /\ \E e \in {[ecp EXCEPT !.intact = @ /\ ~ChangesSymbols]} :
        \/ ~e.exist /\ ecp' = e
        \/ e.exist /\ \E f \in {ReserveNumbers(e)}, kept \in {Kept(ReserveNumbers(e))} :
              ecp' = IF e.intact THEN CopySymtab(f)
                     ELSE IF NoSymbols(kept) THEN DropSymtab(f)
                     ELSE MakeSymtab(CopySymtab(f), Locals(CopySymtab(f), kept), Copied(kept, TRUE))
    /\ pc' = "copy_content" /\ UNCHANGED <<ein, opt>>

----------------------------------------------------------------------------
(* copy_content: the contents, section after section. *)

\* The name elf_strptr finds in the string table of symbols when it is asked
\* for offset n; StringAt is the table of the input, by offset.
StringAt(n) == IF n \in DOMAIN ein.strings THEN ein.strings[n] ELSE ""

\* filter_reloc leaves relocations of the dynamic symbols alone.
NotFiltered(link) == IF ecp.exist THEN link # ecp.symtab ELSE link # 0 /\ ecp.secndx[link] # 0

\* filter_reloc on one relocation: the number of its symbol goes to elf_strptr.
StaysInReloc(link, n) ==
    n = 0 \/ (link # 0 /\ ecp.secndx[link] # 0 /\ SymOp(StringAt(n), "KEEP"))

FilterReloc(i) ==
    LET ish == InScn(i) IN
    IF NotFiltered(ish.link) THEN ish.data
    ELSE SelectSeq(ish.data, LAMBDA n : StaysInReloc(ish.link, n))

\* update_section_group: the flag word, and the members that are still there.
UpdateGroup_Holes(data) == [data EXCEPT !.members = [k \in 1..Len(@) |-> ecp.secndx[@[k]]]]
UpdateGroup(data) ==
    IF ~data.comdat THEN data
    ELSE [data EXCEPT !.members = SelectSeq([k \in 1..Len(@) |-> ecp.secndx[@[k]]], LAMBDA n : n # 0)]

\* modify_section: each string once, then one more.
Compress(strings) == FoldLeft(LAMBDA out, x : IF x \in ToSet(out) THEN out ELSE Append(out, x),
                              <<>>, strings)
Modified(n, strings) ==
    (IF "compress" \in Act(n) THEN Compress(strings) ELSE strings)
    \o (IF "append" \in Act(n) THEN <<opt.string>> ELSE <<>>)

\* What section id of the list holds afterwards, and its size.
Content(id) ==
    LET s    == ecp.secs[id]
        data == InScn(s.is).data
        rels == IF opt.strip = "all" THEN FilterReloc(s.is) ELSE data
        left == IF s.type = "GROUP" /\ data.comdat THEN Len(UpdateGroup(data).members) + 1 ELSE s.sz
        mods == Act(s.name) \cap {"append", "compress"} # {}
    IN  CASE s.nocopy /\ s.is # 0 -> [data |-> <<>>, sz |-> s.sz]
          [] s.is = 0 -> [data |-> ecp.scns[s.os].data, sz |-> s.sz]
          [] IsRel(s.type) -> [data |-> rels, sz |-> IF rels = data THEN s.sz ELSE RelSize * Len(rels)]
          [] s.type = "GROUP" -> [data |-> UpdateGroup(data), sz |-> left]
          [] mods -> [data |-> Modified(s.name, data), sz |-> Len(Modified(s.name, data))]
          [] OTHER -> [data |-> data, sz |-> s.sz]

\* update_reloc walks as many relocations as the header still says; on a
\* section that filter_reloc made shorter, but not empty, that is an error.
NumbersChange(s) == ~ecp.intact /\ ecp.exist /\ IsRel(s.type) /\ InScn(s.is).link = ecp.symtab
Overruns(id) ==
    LET s == ecp.secs[id] IN
    s.is # 0 /\ NumbersChange(s) /\ Content(id).sz # 0 /\ Content(id).sz < s.sz

UpdatedContent(id) ==
    LET s == ecp.secs[id]
        d == Content(id).data
    IN  IF s.is # 0 /\ NumbersChange(s)
        THEN [k \in DOMAIN d |-> ecp.symndx[d[k]]] ELSE d

\* The sections copy_content works on; .symtab and the like are done.
ToCopy == {id \in ToSet(ecp.list) : ~ecp.secs[id].pseudo /\ ecp.secs[id].name \notin Special}

CopyContent ==
    /\ pc = "copy_content" /\ UNCHANGED <<ein, opt>>
    /\ pc' = IF \E id \in ToCopy : Overruns(id) THEN "failed" ELSE "update_shdr"
    /\ LET of(k) == CHOOSE id \in ToCopy : ecp.secs[id].os = k
           copied == {ecp.secs[id].os : id \in ToCopy}
       IN  ecp' = [ecp EXCEPT
                !.secs = [id \in DOMAIN @ |-> IF id \in ToCopy
                            THEN [@[id] EXCEPT !.sz = Content(id).sz] ELSE @[id]],
                !.scns = [k \in DOMAIN @ |-> IF k \in copied
                            THEN [@[k] EXCEPT !.data = UpdatedContent(of(k))] ELSE @[k]]]

----------------------------------------------------------------------------
(* update_shdr, resync_sections and copy_phdr. *)

\* set_shstrtab: an object that had none gets one here, at the end.
SetShstrtab(e) ==
    LET f == IF e.secs[ShStr].os # 0 THEN e ELSE InsertSection(GiveScn(e, ShStr), ShStr, TRUE)
        names == f.strs \ (IF f.exist THEN {} ELSE {".symtab", ".strtab"})
        s == [f.secs[ShStr] EXCEPT !.sz = Cardinality(names)]
    IN  [f EXCEPT !.strs = names, !.secs[ShStr] = s, !.shstrndx = s.os,
                  !.scns[s.os] = [@ EXCEPT !.type = "STRTAB", !.off = s.off, !.size = s.sz]]

\* update_shdr on the header of section id.
UpdatedShdr(e, id) ==
    LET s == e.secs[id]
        h == e.scns[s.os]
    IN  [h EXCEPT
            !.name = IF s.name \in e.strs THEN s.name ELSE "",
            !.link = IF @ # 0 THEN e.secndx[@] ELSE 0,
            !.info = IF IsRel(s.type) /\ @ # 0 THEN e.secndx[@]
                     ELSE IF s.type = "GROUP" /\ e.exist /\ ~e.intact THEN e.symndx[@] ELSE @]

\* insert_shtab: the table of headers is one more section to place.
InsertShtab(e) ==
    LET real == {id \in ToSet(e.list) : ~e.secs[id].pseudo}
        tab  == [NewSection EXCEPT !.pseudo = TRUE, !.align = ShdrAlign,
                     !.off = IF ein.freebsd THEN 0 ELSE ein.shoff,
                     !.sz = ShentSize * (Cardinality(real) + 1)]
    IN  InsertSection([e EXCEPT !.secs = (Shtab :> tab) @@ @], Shtab, ein.freebsd)

\* A section whose os is NULL stops the program at its header.
UpdateShdr ==
    /\ pc = "update_shdr" /\ UNCHANGED <<ein, opt>>
    /\ LET e   == SetShstrtab(ecp)
           ids == {id \in ToSet(e.list) : ~e.secs[id].pseudo}
           of(k) == CHOOSE id \in ids : e.secs[id].os = k
       IN  IF \E id \in ids : e.secs[id].os = 0
           THEN pc' = "failed" /\ UNCHANGED ecp
           ELSE /\ pc' = "resync"
                /\ ecp' = InsertShtab([e EXCEPT !.scns = [k \in DOMAIN @ |->
                               IF \E id \in ids : e.secs[id].os = k
                               THEN UpdatedShdr(e, of(k)) ELSE @[k]]])

\* A loadable section stays where it is if it can, the others close up.
NewPlace(s, fixed, off) == IF off <= s.off /\ fixed THEN s.off ELSE roundup(off, s.align)

\* resync_sections on one section of the list; off is where the one before it
\* ends, prev the section before, when it can be padded.
Resync(r, id) ==
    LET s     == r.e.secs[id]
        fixed == s.loadable /\ ein.type # "REL"
        place == NewPlace(s, fixed, r.off)
        size  == IF s.pseudo \/ s.type \notin {"NOBITS", "NULL"} THEN s.sz ELSE 0
        p     == IF r.prev = -1 THEN NewSection ELSE r.e.secs[r.prev]
        fill  == "GAP_FILL" \in opt.flags /\ p.off + p.sz < place /\ p.pad = 0
        pad   == IF fill THEN place - (p.off + p.sz) ELSE p.pad
        moved == [r.e EXCEPT !.secs[id].off = place,
                             !.moved = @ \/ (fixed /\ r.off > s.off)]
        written == [moved EXCEPT !.scns[s.os] = [@ EXCEPT !.addr = s.vma, !.off = place, !.size = s.sz]]
        padded == IF r.prev = -1 \/ pad = 0 THEN written
                  ELSE [written EXCEPT !.secs[r.prev].pad = pad, !.scns[p.os].size = p.sz + pad]
    IN  IF s.tls /\ s.type = "NOBITS" /\ s.off = 0 THEN r
        ELSE IF s.pseudo THEN [e |-> moved, off |-> place + size, prev |-> -1]
        ELSE [e |-> padded, off |-> place + size + s.pad, prev |-> id]

\* A section without alignment has alignment 1; the last one is padded at the
\* end.
ResyncSections ==
    /\ pc = "resync"
    /\ LET e0 == [ecp EXCEPT !.secs = [id \in DOMAIN @ |->
                      [@[id] EXCEPT !.align = IF @ = 0 THEN 1 ELSE @]]]
           r == FoldLeft(Resync, [e |-> e0, off |-> e0.secs[e0.list[1]].off, prev |-> -1], e0.list)
           p == r.e.secs[r.prev]
       IN  ecp' = [(IF r.prev # -1 /\ p.pad > 0
                    THEN [r.e EXCEPT !.scns[p.os].size = p.sz + p.pad] ELSE r.e)
                   EXCEPT !.shoff = r.e.secs[Shtab].off]
    /\ pc' = "copy_phdr" /\ UNCHANGED <<ein, opt>>

\* copy_phdr: the extent of a segment follows its sections, its offset stays.
NewSegment(seg) ==
    LET s     == ecp.secs[seg.secs[1]]
        head  == ecp.secs[Header]
        l     == ecp.secs[Last(seg.secs)]
        full  == {id \in ToSet(seg.secs) : ecp.secs[id].type # "NOBITS"}
        f     == ecp.secs[CHOOSE id \in full : \A j \in full : Place(seg, j) <= Place(seg, id)]
        size  == PhentSize * Len(ecp.segs)
    IN  IF seg.type = "PHDR"
        THEN [seg EXCEPT !.vaddr = head.vma + EhdrSize, !.paddr = head.lma + EhdrSize,
                         !.fsz = size, !.msz = size]
        ELSE IF seg.secs = <<>> THEN [seg EXCEPT !.fsz = 0, !.msz = 0]
        ELSE [seg EXCEPT !.vaddr = s.vma, !.paddr = s.lma, !.msz = l.vma + l.sz - s.vma,
                         !.fsz = IF full = {} THEN 0 ELSE f.off + f.sz - seg.off]

CopyPhdr ==
    /\ pc = "copy_phdr"
    /\ ecp' = [ecp EXCEPT !.phdrs = [k \in DOMAIN ecp.segs |-> NewSegment(ecp.segs[k])]]
    /\ pc' = "elf_update" /\ UNCHANGED <<ein, opt>>

\* elf_update checks the layout it is given: no two parts of the file overlap.
Parts(e) ==
    {<<e.scns[k].off, e.scns[k].size>> : k \in {j \in DOMAIN e.scns :
            e.scns[j].type \notin {"NOBITS", "NULL"} /\ e.scns[j].size > 0}}
    \cup {<<0, EhdrSize + PhentSize * Len(e.phdrs)>>, <<e.shoff, ShentSize * (Len(e.scns) + 1)>>}

LayoutAccepted(e) ==
    \A p, q \in Parts(e) : p = q \/ p[1] + p[2] <= q[1] \/ q[1] + q[2] <= p[1]

ElfUpdate ==
    /\ pc = "elf_update" /\ UNCHANGED <<ein, opt, ecp>>
    /\ pc' = IF LayoutAccepted(ecp) THEN "written" ELSE "failed"

\* free_elf: what is left of struct elfcopy for the next object.
FreeElf_Flags(e) == [EmptyElf EXCEPT !.intact = e.intact] @@ [nos |-> e.nos, sadd |-> e.sadd]
FreeElf(e) == EmptyElf @@ [nos |-> e.nos, sadd |-> e.sadd]

Pass ==
    \/ CreateElf \/ CreateScn \/ CreateScnFails \/ CreateScnEnd \/ AdjustAddr \/ CreateSymtab
    \/ CopyContent \/ UpdateShdr \/ ResyncSections \/ CopyPhdr \/ ElfUpdate

----------------------------------------------------------------------------
(* Properties of the object written. *)

Written == pc = "written"

\* Section i of the input in the output, 0 when it was left out.
Stays(i) == i \in InIndex /\ IdOf(i) \in ToSet(ecp.list)
Image(i) == IF Stays(i) THEN ecp.secs[IdOf(i)].os ELSE 0
OutScn(i) == ecp.scns[Image(i)]
OutSyms  == OutScn(ecp.symtab).data

FollowsSymbol(s) == s.from # -1 /\ Defined(InSym(s.from)) => s.shndx = Image(InSym(s.from).shndx)

\* Every symbol names the section it named before, by its new number.
SymbolsFollow == Written /\ ecp.exist => \A k \in DOMAIN OutSyms : FollowsSymbol(OutSyms[k])

\* In a symbol table that was made again they do, sh_info parts the local from
\* the other symbols, and no section has two section symbols (generate_symbols,
\* create_symtab_data).
RebuiltSymbols ==
    Written /\ ecp.exist /\ ~ecp.intact =>
        \A k \in DOMAIN OutSyms :
            LET s == OutSyms[k] IN
            /\ FollowsSymbol(s)
            /\ k <= OutScn(ecp.symtab).info <=> ~IsGlobal(s)
            /\ s.from = -1 => \A j \in DOMAIN OutSyms :
                  OutSyms[j].type = "SECTION" /\ OutSyms[j].shndx = s.shndx => j = k

\* A relocation that stays names the symbol it named; only one whose symbol went
\* away with its section names the null symbol.  (Under --strip-all relocations
\* are filtered, by names that are not those of their symbols.)
RelocsFollow ==
    Written /\ ecp.exist /\ opt.strip # "all" =>
        \A i \in InIndex : Stays(i) /\ IsRel(InScn(i).type) /\ InScn(i).link = ecp.symtab =>
            LET old == InScn(i).data
                new == OutScn(i).data
            IN  Len(new) = Len(old) /\
                \A k \in DOMAIN new :
                    \/ new[k] + 1 \in DOMAIN OutSyms /\ OutSyms[new[k] + 1].from = old[k]
                    \/ new[k] = 0 /\ Defined(InSym(old[k])) /\ ~Stays(InSym(old[k]).shndx)

\* The signature of a group: -N takes it, and so does the removal of its section.
SignatureTaken(n) == SymOp(InSym(n).name, "STRIP") \/ (Defined(InSym(n)) /\ ~Stays(InSym(n).shndx))

GroupFollows(i) ==
    LET old == InScn(i)
        new == OutScn(i)
    IN  /\ new.data.members = SelectSeq([k \in DOMAIN old.data.members |->
                                            Image(old.data.members[k])], LAMBDA n : n # 0)
        /\ ecp.exist /\ ~ecp.intact /\ ~SignatureTaken(old.info) => OutSyms[new.info + 1].from = old.info

\* The other references between sections: sh_link, the section a relocation
\* section applies to, the members and the signature of a group; and each
\* section has its name in the table of names.  (When create_symtab gives the
\* symbol table up, what named it names a number that may be another's.)
LinksFollow ==
    Written => \A i \in InIndex : Stays(i) =>
        LET old == InScn(i)
            new == OutScn(i)
        IN  /\ ecp.exist \/ InName(old.link) \notin Special => new.link = Image(old.link)
            /\ IsRel(new.type) => new.info = Image(old.info)
            /\ new.type = "GROUP" /\ old.data.comdat => GroupFollows(i)
            /\ new.name = ecp.secs[IdOf(i)].name /\ new.name # ""
            /\ ecp.shstrndx \in DOMAIN ecp.scns

\* Whatever names a section or a symbol by its number names by its new number
\* what it named before (filter_reloc, update_shdr, update_section_group).
ReferencesFollow == RelocsFollow /\ LinksFollow

\* The first section in a segment is still there.
FirstStays(seg) ==
    LET ids == {i \in InIndex : Inside(SectionOf(i), seg)} IN
    \/ seg.off < EhdrSize
    \/ \A i \in ids : Stays(i) \/ \E j \in ids : Stays(j) /\ InScn(j).off <= InScn(i).off

\* A segment that keeps its first section still maps each of its sections: the
\* section lies in it, in the file and in memory, and at the same distance from
\* its start (adjust_addr, resync_sections, copy_phdr).  resync_sections warns
\* when it has to move a loadable section; then this is not so.
SegmentsMap ==
    Written /\ ~ecp.moved /\ ein.type # "REL" =>
        \A k \in DOMAIN ecp.phdrs :
            LET seg == ecp.phdrs[k] IN
            seg.type # "PHDR" /\ FirstStays(ein.phdrs[k]) =>
            \A id \in ToSet(seg.secs) :
                LET s == ecp.secs[id] IN
                /\ s.vma >= seg.vaddr /\ s.vma + s.sz <= seg.vaddr + seg.msz
                /\ s.type # "NOBITS" => /\ s.off - seg.off = s.vma - seg.vaddr
                                        /\ s.off + s.sz <= seg.off + seg.fsz
=============================================================================
