------------------------------- MODULE PeFile -------------------------------
(***************************************************************************)
(* libpe: an application opens a PE image or a COFF object, edits its      *)
(* sections and headers, and pe_update writes the object back, in place    *)
(* when it was opened for both.                                            *)
(*                                                                         *)
(* The file is a sequence of units.  A header is one unit that says what   *)
(* it holds and units that only take its space; fields that do not move    *)
(* anything are left out.  Only regular files are modelled, and headers    *)
(* that are there: garbage is noticed by the unit it is read from.  System *)
(* calls and allocations do not fail.  `off' is the position pe_update     *)
(* works with, `pos' the one of the file descriptor.                       *)
(***************************************************************************)
EXTENDS Integers, Sequences, FiniteSets
LOCAL INSTANCE SequencesExt

CONSTANTS
    DosSize, SigSize, CoffSize, SecHdrSize, SymEntrySize,   \* sizes, in units
    OptSize,            \* of the optional header, by kind of object
    PeAlign, ImageAlign, ObjectAlign,  \* of the signature, of sections by default
    Starts,             \* how a descriptor may be made: [cmd, obj, file]
    Stubs,              \* the MS-DOS stubs an application may supply
    Pieces,             \* the contents of a new buffer
    Elfs,               \* the ELF objects elfcopy may convert: [obj, secs]
    MaxCalls, MaxUpdates

VARIABLES
    file,     \* the file
    pe,       \* the descriptor
    calls,    \* calls since the file was opened, bounded by MaxCalls
    updates,  \* calls of pe_update, bounded by MaxUpdates
    result    \* of them: "none", "written", "patched" (written round an old COFF
              \* header), "error" or "abort" (an assertion)

peVars == <<file, pe, calls, updates, result>>

LOCAL RoundUp(n, a) == ((n + a - 1) \div a) * a
LOCAL Zero == <<"zero", 0>>
LOCAL Zeros(n) == [i \in 1..n |-> Zero]
LOCAL Header(kind, fields, n) == [i \in 1..n |-> IF i = 1 THEN <<kind, fields>> ELSE <<"more", 0>>]

\* Indices of the pseudo sections: a data directory outside every section, and
\* the symbol table.
Dirs == <<"CERT", "RELOC">>
DirNdx == [CERT |-> 1004, RELOC |-> 1005]
SymtabNdx == 1099
IsPseudo(s) == s.ndx >= 1000

NoHeader == [name |-> "", addr |-> 0, virt |-> 0, rawsize |-> 0, rawptr |-> 0]

\* libpe_alloc_scn.
AllocScn(ndx, sh) == [ndx |-> ndx, sh |-> sh, dirty |-> FALSE, loaded |-> FALSE, falign |-> 0, bufs |-> <<>>]

\* libpe_alloc_buffer; pb_buf is what it points to.
AllocBuffer(s, data) == [s EXCEPT !.bufs = Append(@, [off |-> 0, align |-> 1, data |-> data, dirty |-> FALSE])]

-----------------------------------------------------------------------------
(* Reading. *)

UnitAt(f, at) == IF at < Len(f) THEN f[at + 1] ELSE <<"end", 0>>

\* libpe_parse_section_headers.
ParseSections(p, f, at) ==
    LET hdr(i) == UnitAt(f, at + (i - 1) * SecHdrSize)
        real == [i \in 1..p.ch.nsec |-> AllocScn(i, hdr(i)[2])]
        inside(d) == \E i \in DOMAIN real : /\ d.addr >= real[i].sh.addr
                                            /\ d.addr + d.size <= real[i].sh.addr + real[i].sh.virt
        loose == IF p.dd = <<>> THEN <<>>
                 ELSE SelectSeq(Dirs, LAMBDA d : p.dd[d].size > 0 /\ ~inside(p.dd[d]))
        dirs == [k \in DOMAIN loose |->
                    AllocScn(DirNdx[loose[k]], [NoHeader EXCEPT !.rawptr = p.dd[loose[k]].addr,
                                                                !.rawsize = p.dd[loose[k]].size])]
        symtab == AllocScn(SymtabNdx, [NoHeader EXCEPT !.rawptr = p.ch.symptr, !.rawsize = p.ch.nsym * SymEntrySize])
    IN  IF \E i \in 1..p.ch.nsec : hdr(i)[1] # "sec" THEN [p EXCEPT !.flags = @ \cup {"BAD_SEC"}]
        ELSE [p EXCEPT !.nscn = p.ch.nsec, !.nsym = p.ch.nsym,
                       !.scn = real \o dirs \o (IF p.ch.nsym > 0 THEN <<symtab>> ELSE <<>>)]

\* libpe_parse_coff_header.
ParseCoff(p, f, at) ==
    LET ch == UnitAt(f, at)[2]
        opt == UnitAt(f, at + CoffSize)
        next == at + CoffSize + ch.optsize
    IN  IF UnitAt(f, at)[1] # "coff" THEN [p EXCEPT !.flags = @ \cup {"BAD_COFF"}]
        ELSE IF ch.optsize = 0 THEN ParseSections([p EXCEPT !.ch = ch], f, next)
        ELSE IF opt[1] # "opt" THEN [p EXCEPT !.ch = ch, !.flags = @ \cup {"BAD_OPT"}]
        ELSE ParseSections([p EXCEPT !.ch = ch, !.oh = [filealign |-> opt[2].filealign], !.dd = opt[2].dd,
                                     !.obj = IF opt[2].magic = "PE32P" THEN "PE32P" ELSE @], f, next)

\* libpe_parse_msdos_header.
ParseMsdos(p, f) ==
    LET dh == f[1][2]
        q == [p EXCEPT !.dh = dh]
    IN  IF dh.lfanew > Len(f) - SigSize THEN [q EXCEPT !.flags = @ \cup {"BAD_DOS"}]
        ELSE LET r == [q EXCEPT !.stubEx = IF dh.lfanew > DosSize THEN dh.lfanew - DosSize ELSE 0]
             IN  IF UnitAt(f, dh.lfanew)[1] # "sig" THEN [r EXCEPT !.flags = @ \cup {"BAD_PE"}]
                 ELSE ParseCoff(r, f, dh.lfanew + SigSize)

Descriptor(cmd, obj) ==
    [cmd |-> cmd, obj |-> obj, flags |-> {}, dh |-> <<>>, stubEx |-> 0, stubLoaded |-> FALSE, rich |-> 0,
     app |-> <<>>, ch |-> <<>>, oh |-> <<>>, dd |-> <<>>, nscn |-> 0, nsym |-> 0, scn |-> <<>>]

\* pe_init and libpe_open_object.
PeInit(cmd, obj, f) ==
    IF cmd = "WRITE" THEN Descriptor(cmd, obj)
    ELSE CASE UnitAt(f, 0)[1] = "dos" -> ParseMsdos(Descriptor(cmd, "PE32"), f)
           [] UnitAt(f, 0)[1] = "sig" -> ParseCoff(Descriptor(cmd, "PE32"), f, SigSize)
           [] OTHER -> ParseCoff(Descriptor(cmd, "COFF"), f, 0)

\* libpe_load_section: the string table behind the symbol table comes along,
\* its size word does not.
LoadSection(s, f) ==
    LET end == s.sh.rawptr + s.sh.rawsize
        size == UnitAt(f, end)
        strings == s.ndx = SymtabNdx /\ size[1] = "strtab" /\ size[2] > 1
        got == AllocBuffer(s, SubSeq(f, s.sh.rawptr + 1, end))
    IN  IF s.sh.rawsize = 0 THEN [ok |-> TRUE, scn |-> [AllocBuffer(s, <<>>) EXCEPT !.loaded = TRUE]]
        ELSE IF end > Len(f) \/ (s.ndx = SymtabNdx /\ (size[1] # "strtab" \/ end + size[2] > Len(f)))
             THEN [ok |-> FALSE, scn |-> s]
        ELSE [ok |-> TRUE, scn |-> [(IF strings THEN AllocBuffer(got, SubSeq(f, end + 2, end + size[2])) ELSE got)
                                    EXCEPT !.loaded = TRUE]]

\* libpe_load_all_sections; p.ok says whether every section could be read.
LoadAll(p, f) ==
    LET got == [k \in DOMAIN p.scn |-> IF p.scn[k].loaded THEN [ok |-> TRUE, scn |-> p.scn[k]] ELSE LoadSection(p.scn[k], f)]
    IN  [ok |-> \A k \in DOMAIN got : got[k].ok, pe |-> [p EXCEPT !.scn = [k \in DOMAIN got |-> got[k].scn]]]

\* libpe_parse_rich_header: where the Rich header begins, or 0.
RichStart(p, f) ==
    LET at == {i \in DosSize..(DosSize + p.stubEx - 1) : UnitAt(f, i) = <<"rich", 1>>}
    IN  IF at = {} THEN 0 ELSE CHOOSE i \in at : \A j \in at : i <= j

\* libpe_read_msdos_stub.
ReadStub(p, f) == [p EXCEPT !.stubLoaded = TRUE, !.rich = RichStart(p, f)]

-----------------------------------------------------------------------------
(* Writing: u holds the file, the descriptor, pos, off and how it goes.    *)

Put(u, units) ==
    LET f == u.file to == u.pos + Len(units)
    IN  [u EXCEPT !.pos = to,
                  !.file = [i \in 1..(IF to > Len(f) THEN to ELSE Len(f)) |->
                              IF i > u.pos /\ i <= to THEN units[i - u.pos]
                              ELSE IF i <= Len(f) THEN f[i] ELSE Zero]]
Pad(u, n) == Put(u, Zeros(n))
Seek(u, to) == [u EXCEPT !.pos = to]
At(u, n) == [u EXCEPT !.off = n]
Flag(u, less, more) == [u EXCEPT !.pe.flags = (@ \ less) \cup more]
Stop(u, how) == [u EXCEPT !.ok = how]

StandardStub == <<<<"stub", 1>>, <<"stub", 2>>>>
InitDosHeader == [lfanew |-> DosSize + Len(StandardStub)]

\* The MS-DOS header and stub when libpe writes them itself.
WriteDosHeader(u, strip) ==
    LET p == u.pe
        fresh == p.dh = <<>> \/ "BAD_DOS" \in p.flags
        dh == IF strip THEN [lfanew |-> RoundUp(p.rich, PeAlign)] ELSE IF fresh THEN InitDosHeader ELSE p.dh
        v == [u EXCEPT !.pe.dh = dh]
        w == At(IF fresh \/ "DIRTY_DOS" \in p.flags \/ strip THEN Put(v, Header("dos", dh, DosSize)) ELSE Seek(v, u.pos + DosSize),
                DosSize)
    IN  CASE strip -> At(Seek(w, p.rich), p.rich)
          [] p.cmd = "RDWR" /\ ~strip -> At(Seek(w, w.pos + p.stubEx), w.off + p.stubEx)
          [] OTHER -> At(Put(w, StandardStub), w.off + Len(StandardStub))

\* libpe_write_msdos_stub.
WriteStub(u) ==
    LET p == u.pe
        old == p.cmd = "RDWR" /\ p.dh # <<>>
        wantRich == old /\ p.app = <<>> /\ "BAD_DOS" \notin p.flags /\ "STRIP_RICH" \in p.flags
        read == IF wantRich /\ ~p.stubLoaded THEN ReadStub(p, u.file) ELSE p
        strip == wantRich /\ read.rich # 0
        resized == p.cmd = "RDWR" /\ ("BAD_DOS" \in p.flags \/ strip
                                      \/ (p.app # <<>> /\ Len(p.app) # DosSize + p.stubEx))
        all == LoadAll(read, u.file)
        v == [u EXCEPT !.pe = IF resized THEN [all.pe EXCEPT !.flags = @ \cup {"BAD_PE"}] ELSE read]
        done == IF old /\ "STRIP_DOS" \in p.flags THEN Flag(u, {}, {"BAD_PE"})
                ELSE IF old /\ p.flags \cap {"DIRTY_DOS", "BAD_DOS", "STRIP_RICH"} = {}
                     THEN At(Seek(u, DosSize + p.stubEx), DosSize + p.stubEx)
                ELSE IF wantRich /\ ~p.stubLoaded /\ p.stubEx = 0 THEN Stop(u, "abort")
                ELSE IF resized /\ ~all.ok THEN Stop(u, "error")
                ELSE IF "STRIP_DOS" \in p.flags THEN v
                ELSE IF p.app # <<>> THEN At(Put(v, p.app), Len(p.app))
                ELSE WriteDosHeader(v, strip)
    IN  Flag(done, {"DIRTY_DOS", "BAD_DOS"}, {})

\* libpe_write_pe_header.
WriteSignature(u) ==
    LET to == RoundUp(u.off, PeAlign)
        signed == Put(Pad(u, to - u.off), Header("sig", 0, SigSize))
    IN  IF u.pe.cmd = "RDWR" /\ "BAD_PE" \notin u.pe.flags
        THEN At(Seek(u, u.pe.dh.lfanew + SigSize), u.pe.dh.lfanew + SigSize)
        ELSE Flag(At(signed, to + SigSize), {"BAD_PE"}, {"DIRTY_COFF", "DIRTY_OPT"})

\* sort_sections and sort_buffers: a stable sort of a list by a key of each entry.
SortedBy(list, key) ==
    LET order == FoldLeft(LAMBDA acc, x : LET k == SelectInSeq(acc, LAMBDA y : key[y] > key[x])
                                          IN  IF k = 0 THEN Append(acc, x) ELSE InsertAt(acc, k, x),
                          <<>>, [i \in DOMAIN list |-> i])
    IN  [i \in DOMAIN list |-> list[order[i]]]

BySectionAddress(list) == SortedBy(list, [i \in DOMAIN list |-> list[i].sh.addr])
ByOffset(bufs) == SortedBy(bufs, [i \in DOMAIN bufs |-> bufs[i].off])

\* libpe_resync_buffers.
ResyncBuffers(s) ==
    LET place(acc, b) ==
            LET a == IF b.align > s.falign THEN s.falign ELSE b.align
                at == IF b.data = <<>> THEN b.off ELSE RoundUp(acc.size, a)
            IN  [size |-> IF b.data = <<>> THEN acc.size ELSE at + Len(b.data),
                 bufs |-> Append(acc.bufs, [b EXCEPT !.align = a, !.off = at, !.dirty = @ \/ s.dirty \/ at # b.off])]
        all == FoldLeft(place, [size |-> 0, bufs |-> <<>>], ByOffset(s.bufs))
    IN  [s EXCEPT !.bufs = all.bufs, !.sh.rawsize = all.size]

\* A section is written when the application changed it, or when it moves.
MustWrite_Asked(s, at) == s.dirty
MustWrite(s, at) == s.dirty \/ at # s.sh.rawptr

\* One turn of the loop of libpe_resync_sections: acc.off is where the section may start.
PlaceSection(acc, s, f, falign) ==
    LET a == IF IsPseudo(s) THEN ObjectAlign ELSE falign
        at == RoundUp(acc.off, a)
        dirty == MustWrite(s, at)
        got == IF dirty /\ ~s.loaded THEN LoadSection(s, f) ELSE [ok |-> TRUE, scn |-> s]
        t == [got.scn EXCEPT !.dirty = dirty, !.falign = a]
        sized == IF dirty THEN ResyncBuffers(t) ELSE t
        put == [sized EXCEPT !.sh.rawptr = IF sized.sh.rawsize = 0 THEN 0 ELSE at]
    IN  IF acc.ok /\ got.ok THEN [ok |-> TRUE, off |-> at + put.sh.rawsize, scn |-> Append(acc.scn, put)]
        ELSE [acc EXCEPT !.ok = FALSE]

\* libpe_resync_sections.
ResyncScns(u) ==
    LET p == u.pe
        nsec == Cardinality({k \in DOMAIN p.scn : ~IsPseudo(p.scn[k])})
        opt == IF p.ch # <<>> /\ p.ch.optsize > 0 THEN p.ch.optsize ELSE OptSize[p.obj]
        falign == IF p.oh # <<>> /\ p.oh.filealign > 0 THEN p.oh.filealign
                  ELSE IF p.obj = "COFF" THEN ObjectAlign ELSE ImageAlign
        all == FoldLeft(LAMBDA acc, s : PlaceSection(acc, s, u.file, falign),
                        [ok |-> TRUE, off |-> u.off + CoffSize + opt + nsec * SecHdrSize, scn |-> <<>>],
                        BySectionAddress(p.scn))
    IN  IF all.ok THEN [u EXCEPT !.pe.nscn = nsec, !.pe.scn = all.scn] ELSE Stop(u, "error")

\* The COFF header as libpe_write_coff_header completes it.
CoffHeader(p) ==
    LET symtab == SelectLastInSeq(p.scn, LAMBDA s : s.ndx = SymtabNdx)
        old == IF p.ch = <<>> THEN [nsec |-> 0, symptr |-> 0, nsym |-> 0, optsize |-> 0] ELSE p.ch
    IN  [nsec |-> p.nscn,
         symptr |-> IF symtab = 0 THEN old.symptr ELSE p.scn[symtab].sh.rawptr,
         nsym |-> IF symtab = 0 THEN old.nsym ELSE p.nsym,
         optsize |-> IF p.obj = "COFF" \/ old.optsize = 0 \/ "BAD_OPT" \in p.flags THEN OptSize[p.obj] ELSE old.optsize]

\* The optional header and the data directories.
OptHeader(p) ==
    LET reloc == SelectLastInSeq(p.scn, LAMBDA s : s.ndx = DirNdx["RELOC"] \/ s.sh.name = ".reloc")
        none == [addr |-> 0, size |-> 0]
        dd == IF p.dd = <<>> THEN [CERT |-> none, RELOC |-> none] ELSE p.dd
    IN  [magic |-> p.obj,
         filealign |-> IF p.oh = <<>> \/ p.oh.filealign = 0 THEN ImageAlign ELSE p.oh.filealign,
         dd |-> IF reloc = 0 THEN dd
                ELSE [dd EXCEPT !.RELOC = [addr |-> p.scn[reloc].sh.addr, size |-> p.scn[reloc].sh.virt]]]

\* libpe_write_coff_header: a header that is not rewritten is counted twice in off.
WriteCoff(u) ==
    LET keep(hdr) == u.pe.cmd = "RDWR" /\ u.pe.flags \cap hdr = {}
        kept == keep({"DIRTY_COFF", "BAD_COFF"})
        ch == IF kept THEN u.pe.ch ELSE CoffHeader(u.pe)
        v == IF kept THEN At(Seek(u, u.pos + CoffSize), u.off + CoffSize)
             ELSE [Put(IF u.pe.cmd = "RDWR" THEN Seek(u, u.off) ELSE u, Header("coff", ch, CoffSize)) EXCEPT !.pe.ch = ch]
        w == Flag(At(v, v.off + CoffSize), {"DIRTY_COFF", "BAD_COFF"}, {"DIRTY_SEC"})
        opt == OptHeader(w.pe)
    IN  IF ch.optsize = 0 THEN w
        ELSE IF keep({"DIRTY_OPT", "BAD_OPT"}) THEN At(Seek(w, w.pos + ch.optsize), w.off + ch.optsize)
        ELSE Flag([At(Put(w, Header("opt", opt, ch.optsize)), w.off + ch.optsize)
                     EXCEPT !.pe.oh = [filealign |-> opt.filealign], !.pe.dd = opt.dd],
                  {"DIRTY_OPT", "BAD_OPT"}, {})

\* libpe_write_section_headers; the COFF header has just marked them all.
WriteSectionHeaders(u) ==
    IF "BAD_SEC" \in u.pe.flags THEN u
    ELSE FoldLeft(LAMBDA v, s : At(Put(v, Header("sec", s.sh, SecHdrSize)), v.off + SecHdrSize),
                  u, SelectSeq(u.pe.scn, LAMBDA s : ~IsPseudo(s)))

\* libpe_write_buffers.
WriteBuffers(u, s) ==
    LET write(acc, b) ==
            IF b.data = <<>> THEN acc
            ELSE IF ~b.dirty THEN [at |-> acc.at + Len(b.data), u |-> Seek(acc.u, acc.u.pos + Len(b.data))]
            ELSE LET gap == IF b.off > acc.at THEN b.off - acc.at ELSE 0
                 IN  [at |-> acc.at + gap + Len(b.data), u |-> Put(Pad(acc.u, gap), b.data)]
    IN  FoldLeft(write, [at |-> 0, u |-> u], s.bufs).u

\* libpe_write_sections.
WriteSection(u, k) ==
    LET s == u.pe.scn[k] end == s.sh.rawptr + s.sh.rawsize
        v == Pad(u, s.sh.rawptr - u.off)
    IN  IF u.ok # "yes" \/ s.sh.rawptr = 0 \/ s.sh.rawsize = 0 THEN u
        ELSE IF u.off > s.sh.rawptr THEN Stop(u, "abort")
        ELSE IF ~s.dirty THEN At(Seek(v, end), end)
        ELSE At([WriteBuffers(v, s) EXCEPT !.pe.scn[k].dirty = FALSE], end)

WriteSections(u) ==
    IF "BAD_SEC" \in u.pe.flags THEN u ELSE FoldLeft(WriteSection, u, [k \in DOMAIN u.pe.scn |-> k])

Truncate(u) == [u EXCEPT !.file = [i \in 1..u.off |-> IF i <= Len(@) THEN @[i] ELSE Zero]]

\* A step of pe_update is taken when those before it succeeded.
Then(u, Step(_)) == IF u.ok = "yes" THEN Step(u) ELSE u

Begun(p, f) == [file |-> f, pe |-> p, pos |-> 0, off |-> 0, ok |-> "yes"]

\* The headers in front of the COFF header, for images.
ImageFront(p, f) == IF p.obj = "COFF" THEN Begun(p, f) ELSE Then(WriteStub(Begun(p, f)), WriteSignature)

\* pe_update.
Updated(p, f) ==
    Then(Then(Then(Then(Then(ImageFront(p, f), ResyncScns), WriteCoff), WriteSectionHeaders), WriteSections), Truncate)

-----------------------------------------------------------------------------
(* What the application does. *)

\* pe_newscn; the flag is set when the section headers could not be read.
Emptied(p) == IF "BAD_SEC" \in p.flags THEN [p EXCEPT !.scn = <<>>, !.flags = @ \ {"BAD_SEC"}] ELSE p
NewPeSection(ndx) == [AllocScn(ndx, NoHeader) EXCEPT !.dirty = TRUE, !.loaded = TRUE]
NewPeScn(p) == LET q == Emptied(p) IN [q EXCEPT !.scn = Append(@, NewPeSection(0)), !.flags = @ \cup {"DIRTY_SEC"}]

\* pe_insertscn.
InsertScn(p, ndx) ==
    LET q == Emptied(p)
        k == SelectInSeq(q.scn, LAMBDA s : ~IsPseudo(s) /\ s.ndx = ndx)
        real == SelectSeq(IF k = 0 THEN q.scn ELSE SubSeq(q.scn, 1, k - 1), LAMBDA s : ~IsPseudo(s))
        new == NewPeSection(IF real = <<>> THEN 1 ELSE IF k = 0 THEN real[Len(real)].ndx + 1 ELSE ndx)
        at == IF k = 0 THEN Len(q.scn) + 1 ELSE IF real = <<>> THEN 1
              ELSE SelectLastInSeq(SubSeq(q.scn, 1, k - 1), LAMBDA s : ~IsPseudo(s)) + 1
        list == InsertAt(q.scn, at, new)
    IN  [q EXCEPT !.scn = [i \in DOMAIN list |-> IF i > at /\ ~IsPseudo(list[i]) THEN [list[i] EXCEPT !.ndx = @ + 1] ELSE list[i]],
                  !.flags = @ \cup {"DIRTY_SEC"}]

\* pe_update_section_header, with a header that keeps the place of the contents.
SetHeader(p, k, name, addr, virt) ==
    [p EXCEPT !.scn[k].sh = [@ EXCEPT !.name = name, !.addr = addr, !.virt = virt], !.flags = @ \cup {"DIRTY_SEC"}]

\* pe_newbuffer, and what the application puts into it.
NewBuffer(p, k, f, data, align) ==
    LET got == IF p.scn[k].loaded THEN p.scn[k] ELSE LoadSection(p.scn[k], f).scn
    IN  [p EXCEPT !.scn[k] = [got EXCEPT !.dirty = TRUE,
                                         !.bufs = Append(@, [off |-> 0, align |-> align, data |-> data, dirty |-> TRUE])]]

\* pe_update_symtab; the new section is not marked as loaded.
UpdateSymtab(p, data) ==
    [p EXCEPT !.nsym = Len(data) \div SymEntrySize,
              !.scn = Append(SelectSeq(@, LAMBDA s : s.ndx # SymtabNdx),
                             [AllocScn(SymtabNdx, [NoHeader EXCEPT !.rawptr = 4095, !.rawsize = Len(data)])
                                EXCEPT !.dirty = TRUE, !.bufs = <<[off |-> 0, align |-> 1, data |-> data, dirty |-> TRUE]>>])]

\* create_pe of elfcopy up to its call of pe_update.
CreateSection(p, s, falign) ==
    LET q == NewPeScn(p)
        k == Len(q.scn)
        size == RoundUp(Len(s.data), falign)
        h == [q EXCEPT !.scn[k].sh = [name |-> s.name, addr |-> s.addr, virt |-> s.size, rawptr |-> 0,
                                      rawsize |-> IF s.nobits THEN 0 ELSE size]]
    IN  IF s.name \in {".shstrtab", ".symtab", ".strtab"} THEN p
        ELSE NewBuffer(h, k, <<>>, IF s.nobits THEN <<>> ELSE s.data \o Zeros(size - Len(s.data)), 1)
CreatePe(elf) ==
    LET start == [Descriptor("WRITE", elf.obj) EXCEPT !.flags = {"DIRTY_COFF"},
                                                      !.ch = [nsec |-> 0, symptr |-> 0, nsym |-> 0, optsize |-> 0]]
        all == FoldLeft(LAMBDA p, s : CreateSection(p, s, ImageAlign), start, elf.secs)
    IN  [all EXCEPT !.oh = [filealign |-> ImageAlign], !.flags = @ \cup {"DIRTY_OPT"}]

-----------------------------------------------------------------------------
PeInitial ==
    /\ \E s \in Starts : file = s.file /\ pe = PeInit(s.cmd, s.obj, s.file)
    /\ calls = 0 /\ updates = 0 /\ result = "none"

\* The COFF header will be written: a file written anew, a changed stub, or
\* the application said so.
Rewritten(p, f) == LET u == ImageFront(p, f)
                   IN  u.ok = "yes" /\ (p.cmd = "WRITE" \/ "DIRTY_COFF" \in u.pe.flags)

Open == result \in {"none", "written", "patched"} /\ "FD_DONE" \notin pe.flags
Call(p) == /\ Open /\ calls < MaxCalls
           /\ pe' = p
           /\ calls' = calls + 1
           /\ UNCHANGED <<file, updates, result>>

RealSections == {k \in DOMAIN pe.scn : ~IsPseudo(pe.scn[k])}
FreshAddr == 1 + FoldLeft(LAMBDA m, s : IF s.sh.addr + s.sh.virt > m THEN s.sh.addr + s.sh.virt ELSE m, 0, pe.scn)

pe_newscn == Call(NewPeScn(pe))
pe_insertscn == \E n \in 1..2 : Call(InsertScn(pe, n))
pe_update_section_header ==
    \E k \in RealSections, n \in {".new", ".reloc"}, a \in {1, FreshAddr} : Call(SetHeader(pe, k, n, a, 4))
pe_newbuffer == \E k \in RealSections, d \in Pieces, a \in {1, 2} : Call(NewBuffer(pe, k, file, d, a))
pe_getbuffer ==
    \E k \in RealSections : ~pe.scn[k].loaded /\ Call([pe EXCEPT !.scn[k] = LoadSection(@, file).scn])
pe_update_symtab == \E d \in Pieces : Call(UpdateSymtab(pe, d))
pe_update_coff_header == pe.ch # <<>> /\ Call([pe EXCEPT !.flags = @ \cup {"DIRTY_COFF"}])
pe_update_opt_header ==
    /\ pe.obj # "COFF"
    /\ \E a \in {ImageAlign, 2 * ImageAlign} : Call([pe EXCEPT !.oh = [filealign |-> a], !.flags = @ \cup {"DIRTY_OPT"}])
pe_flag == \E f \in {"STRIP_DOS", "STRIP_RICH"} : Call([pe EXCEPT !.flags = @ \cup {f}])
pe_cntl ==
    \/ pe.cmd # "WRITE" /\ Call(LoadAll(pe, file).pe)
    \/ Call([pe EXCEPT !.flags = @ \cup {"FD_DONE"}])
\* ps_update_msdos_header and ps_update_msdos_stub, with a header that agrees.
ps_update_msdos_stub ==
    /\ pe.obj # "COFF"
    /\ \E s \in Stubs : Call([pe EXCEPT !.dh = s[1][2], !.app = s, !.flags = @ \cup {"DIRTY_DOS"}])
create_pe == pe.cmd = "WRITE" /\ pe.scn = <<>> /\ calls = 0 /\ \E e \in Elfs : Call(CreatePe(e))

pe_update ==
    /\ Open /\ updates < MaxUpdates
    /\ \E u \in {Updated(pe, file)} :
          file' = u.file /\ pe' = u.pe /\ result' = IF u.ok # "yes" THEN u.ok ELSE IF result # "patched" /\ Rewritten(pe, file) THEN "written" ELSE "patched"
    /\ updates' = updates + 1
    /\ UNCHANGED calls

PeNext ==
    \/ pe_newscn \/ pe_insertscn \/ pe_update_section_header \/ pe_newbuffer \/ pe_getbuffer
    \/ pe_update_symtab \/ pe_update_coff_header \/ pe_update_opt_header \/ pe_flag \/ pe_cntl
    \/ ps_update_msdos_stub \/ create_pe \/ pe_update

PeFileSpec == PeInitial /\ [][PeNext]_peVars

-----------------------------------------------------------------------------
(* What the application has, and what the file will give back. *)
Contents(s, f) ==
    IF ~s.loaded THEN SubSeq(f, s.sh.rawptr + 1, s.sh.rawptr + s.sh.rawsize)
    ELSE FoldLeft(LAMBDA acc, b : IF b.data = <<>> THEN acc
                                  ELSE acc \o Zeros(RoundUp(Len(acc), b.align) - Len(acc)) \o b.data,
                  <<>>, ByOffset(s.bufs))

Sections(p, f) ==
    LET list == BySectionAddress(SelectSeq(p.scn, LAMBDA s : ~IsPseudo(s)))
    IN  [k \in DOMAIN list |-> [name |-> list[k].sh.name, addr |-> list[k].sh.addr,
                                virt |-> list[k].sh.virt, contents |-> Contents(list[k], f)]]

\* A stub as long as the one that was there when the file was opened is taken
\* for no change, whatever an earlier update has put there.
StaleStub(p, f) == /\ p.cmd = "RDWR" /\ p.app # <<>> /\ Len(p.app) = DosSize + p.stubEx
                   /\ UnitAt(f, 0) # <<"dos", [lfanew |-> DosSize + p.stubEx]>>

(***************************************************************************)
(* An update loses nothing: whoever opens the file afterwards finds every  *)
(* section the application has, in the order of their addresses, with its  *)
(* contents, though headers grow over the old contents and sections change *)
(* place with one another in the file (libpe_section.c:310, libpe_dos.c:276). *)
(* Exceptions are a COFF header left as it is, which is counted twice      *)
(* (libpe_coff.c:250) and says how many sections there were, and a symbol  *)
(* table: a new one cannot be written (pe_symtab.c:65), and the string     *)
(* table behind an old one is cut off when it stays in its place; and a    *)
(* stub put back to its first length (libpe_dos.c:274).                    *)
(***************************************************************************)
SectionsComeBack ==
    [][updates' # updates /\ result # "patched" /\ Rewritten(pe, file) /\ LoadAll(pe, file).ok /\ ~StaleStub(pe, file)
         => /\ result' = "written"
            /\ Sections(PeInit("READ", "", file'), file') = Sections(pe, file)]_peVars
=============================================================================
