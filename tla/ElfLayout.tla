----------------------------- MODULE ElfLayout -----------------------------
(***************************************************************************)
(* elf_update(3) of libelf: laying out an ELF object and building its new  *)
(* file image (src/libelf/elf_update.c).  An application edits the object  *)
(* through the libelf API and calls elf_update.  _libelf_resync_elf then   *)
(* places the executable header, the program header table, the sections   *)
(* and the section header table as "extents" of the file, and for          *)
(* ELF_C_WRITE _libelf_write_elf walks the extents and fills a malloc'ed   *)
(* buffer.  elf_update is one call of one thread: its loops are the steps  *)
(* of the machine whose program counter is pc, so that what a loop relies  *)
(* on can be stated between two iterations.                                *)
(*                                                                         *)
(* Data abstracted: the memory size of every ELF type equals its file size *)
(* (true of every entry of libelf_msize.m4), so a descriptor has one size; *)
(* a byte of the image is a token naming where it came from.               *)
(***************************************************************************)
EXTENDS Integers, Sequences, SequencesExt

CONSTANTS
    EhdrSize,    \* file size of the executable header
    PhentSize,   \* file size of one program header
    ShentSize,   \* file size of one section header
    PhdrAlign,   \* file alignment of the program header table
    ShdrAlign,   \* file alignment of the section header table
    FAlign,      \* section type -> file alignment of its ELF data type
    Objects,     \* the ELF objects a descriptor may start from
    Types, PhNums, Offsets, Sizes, Aligns, \* what the application may ask for
    EhdrFaults, DataFaults, \* and what it may get wrong in a header, a descriptor
    MaxScn, MaxData, MaxUpdates     \* bounds: sections, descriptors, calls

ASSUME SizesAssumption ==
    /\ {EhdrSize, PhentSize, ShentSize, PhdrAlign, ShdrAlign} \subseteq Nat \ {0}
    /\ \A t \in DOMAIN FAlign : FAlign[t] \in Nat \ {0}
    /\ {"NULL", "NOBITS", "UNKNOWN"} \cap DOMAIN FAlign = {}
    /\ Types \subseteq DOMAIN FAlign \cup {"NULL", "NOBITS", "UNKNOWN"}
    /\ PhNums \cup Offsets \cup Sizes \cup Aligns \subseteq Nat
    /\ {MaxScn, MaxData, MaxUpdates} \subseteq Nat
    /\ EhdrFaults \subseteq {"offset", "version", "class", "order"}
    /\ DataFaults \subseteq {"type", "version", "msize", "size"}

\* SHT_* values: those _libelf_xlate_shtype knows, and the special ones.
ScnTypes == DOMAIN FAlign \cup {"NULL", "NOBITS", "UNKNOWN"}

\* Elf_Data.  src is the offset in the original file of the bytes a descriptor
\* was loaded from, or -1 when the application supplied them; buf is
\* d_buf # NULL.  fault says which of its other fields elf_update refuses: d_type
\* is no ELF type, d_version not the object's, the type has no size in this
\* class, or d_size is not a multiple of that size.
DataRec == [size : Nat, align : Nat, off : Nat, src : Nat \cup {-1}, buf : BOOLEAN,
            fault : DataFaults \cup {"none"}]

\* Elf_Scn: the header fields that drive layout (sh_type, sh_addralign,
\* sh_offset, sh_size), ELF_F_DIRTY, s_rawoff, s_offset, s_size and s_data.
ScnRec == [type : ScnTypes, align : Nat, off : Nat, size : Nat, dirty : BOOLEAN,
           rawoff : Nat, soff : Nat, ssize : Nat, data : Seq(DataRec)]

\* struct _Elf_Extent: s is the index of the section it describes, or 0.
ExtRec == [start : Nat, size : Nat, kind : {"EHDR", "PHDR", "SECTION", "SHDR"}, s : Nat]

\* The executable header: e_phoff, e_shoff, and which field elf_update refuses:
\* an offset that is negative as an off_t, e_version, EI_CLASS or EI_DATA.
EhdrRec == [phoff : Nat, shoff : Nat, fault : EhdrFaults \cup {"none"}]

ObjectRec == [cmd : {"READ", "RDWR", "WRITE"}, rawsize : Nat, phnum : Nat,
              phoff : Nat, shoff : Nat, scn : Seq(ScnRec)]

ASSUME ObjectsAssumption == Objects \subseteq ObjectRec

VARIABLES
    cmd, rawsize,  \* e_cmd and e_rawsize
    fd,            \* e_fd >= 0
    layout,        \* ELF_F_LAYOUT is set
    eh,            \* the executable header
    phnum,         \* e_nphdr
    scn,           \* e_scn, scn[k] is the section of index k-1
    pc, f,         \* where elf_update is, and its local variables
    ext, img,      \* the list of extents, the buffer being filled
    ret,           \* what elf_update returned, until the application goes on
    nupd, prev     \* calls made; size last returned if nothing changed since

obj == <<cmd, rawsize, fd, layout, eh, phnum, scn>>
objButScn == <<cmd, rawsize, fd, layout, eh, phnum>>
vars == <<obj, pc, f, ext, img, ret, nupd, prev>>

\* The local variables: c of elf_update; rc; the loop indices si (section, then
\* extent) and di (descriptor); scn_size and scn_alignment; rc and nrc of
\* _libelf_write_elf.
Frame == [op : {"NULL", "WRITE"}, rc : Nat, si : Nat \ {0}, di : Nat \ {0},
          ssz : Nat, sal : Nat, wrc : Nat, nrc : Nat]

NoFrame == [op |-> "NULL", rc |-> 0, si |-> 1, di |-> 1, ssz |-> 0, sal |-> 0,
            wrc |-> 0, nrc |-> 0]

----------------------------------------------------------------------------
Bigger(a, b) == IF a > b THEN a ELSE b

\* roundup and roundup2 of <sys/param.h>
roundup_OffByOne(x, a) == ((x - 1) \div a) * a
roundup(x, a) == ((x + a - 1) \div a) * a

\* a # 0 and (a & (a - 1)) = 0
IsPowerOf2(a) == a > 0 /\ \E k \in 0..a : a = 2 ^ k

End(x) == x.start + x.size

NoScn == [type |-> "NULL", align |-> 0, off |-> 0, size |-> 0, dirty |-> FALSE,
          rawoff |-> 0, soff |-> 0, ssize |-> 0, data |-> <<>>]

\* ELF_E_* codes, and the assertions of elf_update.c that may fail.
Errors == {"none", "ARGUMENT", "CLASS", "DATA", "HEADER", "IO", "LAYOUT", "MODE",
           "RESOURCE", "SECTION", "SEQUENCE", "UNIMPL", "VERSION", "assert:falign", "assert:d_buf", "assert:extent", "assert:newsize"}

Failed(e) == [ok |-> FALSE, rc |-> 0, err |-> e]

\* Sections that take part in the layout (elf_update.c:470).
InFile(s) == s.type \notin {"NULL", "NOBITS"}

\* elf_getdata(s, NULL) on a section whose contents are not in memory: sh_offset
\* and sh_size are checked against the file, and the bytes at sh_offset of the
\* file become the one descriptor of the section.
Loadable(s) ==
    /\ cmd # "WRITE" /\ s.type \in DOMAIN FAlign \cup {"NOBITS"}
    /\ s.type # "NOBITS" => s.off + s.size <= rawsize

Loaded(s) ==
    LET absent == s.type = "NOBITS" \/ s.size = 0
    IN  [size |-> s.size, align |-> s.align, off |-> 0,
         src |-> IF absent THEN -1 ELSE s.off, buf |-> ~absent, fault |-> "none"]

Init ==
    \E o \in Objects :
      /\ cmd = o.cmd /\ rawsize = o.rawsize /\ phnum = o.phnum /\ scn = o.scn
      /\ eh = [phoff |-> o.phoff, shoff |-> o.shoff, fault |-> "none"]
      /\ fd = TRUE /\ layout = FALSE
      /\ pc = "idle" /\ f = NoFrame /\ ext = <<>> /\ img = <<>>
      /\ ret = Failed("none") /\ nupd = 0 /\ prev = -1

----------------------------------------------------------------------------
(* The application, between two calls of elf_update.  What it does after the last *)
(* call of the bound changes no file, and once it has let go of its descriptor    *)
(* (FdDone, which only the writing half of elf_update looks at) it is bound to do *)
(* no more than call.                                                             *)

AppStep ==
    /\ pc = "idle" /\ fd /\ nupd < MaxUpdates /\ prev' = -1 /\ ret' = Failed("none")
    /\ UNCHANGED <<cmd, rawsize, pc, f, ext, img, nupd>>

\* A field elf_update refuses.
Faulty ==
    \/ eh.fault # "none"
    \/ \E i \in DOMAIN scn : \E j \in DOMAIN scn[i].data : scn[i].data[j].fault # "none"

\* elf_flagelf(e, ELF_C_SET or ELF_C_CLR, ELF_F_LAYOUT)
FlagLayout ==
    /\ AppStep /\ layout' = ~layout
    /\ UNCHANGED <<fd, eh, phnum, scn>>

\* elf_cntl(e, ELF_C_FDDONE)
FdDone ==
    /\ AppStep /\ fd' = FALSE
    /\ UNCHANGED <<layout, eh, phnum, scn>>

\* gelf_newphdr(e, n)
NewPhdr ==
    /\ AppStep /\ phnum' \in PhNums
    /\ UNCHANGED <<fd, layout, eh, scn>>

\* Fields assigned through the pointer elf_getehdr returns.  The offsets matter
\* under ELF_F_LAYOUT only, the fields elf_update checks always.
SetEhdr ==
    /\ AppStep
    /\ eh' \in [phoff : IF layout THEN Offsets ELSE {eh.phoff},
               shoff : IF layout THEN Offsets ELSE {eh.shoff},
               fault : EhdrFaults \cup {"none"}]
    /\ UNCHANGED <<fd, layout, phnum, scn>>

\* elf_newscn: the first call also makes section 0.
NewScn ==
    LET s == [NoScn EXCEPT !.dirty = TRUE]
    IN  /\ AppStep /\ Len(scn) < MaxScn
        /\ scn' = IF scn = <<>> THEN <<NoScn, s>> ELSE Append(scn, s)
        /\ UNCHANGED <<fd, layout, eh, phnum>>

\* gelf_update_shdr: refused on ELF_C_READ, otherwise marks the section dirty.
SetShdr(i) ==
    /\ AppStep /\ cmd # "READ"
    /\ \E t \in Types, a \in Aligns :
         \E o \in IF layout THEN Offsets ELSE {scn[i].off},
            z \in IF layout THEN Sizes ELSE {scn[i].size} :
           scn' = [scn EXCEPT ![i] = [@ EXCEPT !.type = t, !.align = a, !.off = o,
                                               !.size = z, !.dirty = TRUE]]
    /\ UNCHANGED <<fd, layout, eh, phnum>>

\* elf_flagscn(s, ELF_C_SET, ELF_F_DIRTY)
FlagScn(i) ==
    /\ AppStep /\ ~scn[i].dirty
    /\ scn' = [scn EXCEPT ![i].dirty = TRUE]
    /\ UNCHANGED <<fd, layout, eh, phnum>>

\* elf_getdata(s, NULL)
GetData(i) ==
    /\ AppStep /\ scn[i].data = <<>> /\ Loadable(scn[i])
    /\ scn' = [scn EXCEPT ![i].data = <<Loaded(scn[i])>>]
    /\ UNCHANGED <<fd, layout, eh, phnum>>

\* elf_newdata, which first brings in the contents the section has in the file,
\* and the application's assignments to the new descriptor.
NewData(i) ==
    LET s == scn[i]
        load == cmd # "WRITE" /\ s.ssize > 0 /\ s.data = <<>>
        old == IF load THEN <<Loaded(s)>> ELSE s.data
    IN  /\ AppStep /\ MapThenSumSet(LAMBDA k : Len(scn[k].data), DOMAIN scn) < MaxData
        /\ load => Loadable(s)
        /\ \E z \in Sizes, a \in Aligns, o \in IF layout THEN Sizes ELSE {0}, b \in BOOLEAN :
           \E e \in DataFaults \cup {"none"} :
             /\ z > 0 => b
             /\ scn' = [scn EXCEPT ![i].dirty = TRUE,
                                  ![i].data = Append(old, [size |-> z, align |-> a, off |-> o,
                                                           src |-> -1, buf |-> b, fault |-> e])]
        /\ UNCHANGED <<fd, layout, eh, phnum>>

\* The application replaces the contents of a descriptor it holds: d_buf, d_size,
\* d_type and d_version are plain fields of Elf_Data.
SetData(i, j) ==
    /\ AppStep
    /\ \E z \in Sizes \ {0}, e \in DataFaults \cup {"none"} :
         scn' = [scn EXCEPT ![i].data[j] = [@ EXCEPT !.size = z, !.src = -1, !.buf = TRUE,
                                                     !.fault = e]]
    /\ UNCHANGED <<fd, layout, eh, phnum>>

\* A fault is put right before another edit (a bound): edits of different fields
\* commute, so the wrong one may be taken to come last before a call, and the
\* first fault elf_update meets ends the call.
AppNext ==
    /\ \/ FlagLayout \/ FdDone \/ NewPhdr \/ SetEhdr \/ NewScn
       \/ \E i \in 2..Len(scn) :
            \/ SetShdr(i) \/ FlagScn(i) \/ GetData(i) \/ NewData(i)
            \/ \E j \in DOMAIN scn[i].data : SetData(i, j)
    /\ Faulty => ~Faulty'

----------------------------------------------------------------------------
(* _libelf_resync_elf *)

\* elf_update goes on at p; it returns r, releasing the extents; an assert()
\* of elf_update.c fails and the program is aborted.
Continue(p) == pc' = p /\ UNCHANGED <<ret, prev>>

Return(r) ==
    /\ pc' = "idle" /\ f' = NoFrame /\ ext' = <<>> /\ img' = <<>>
    /\ ret' = r /\ prev' = IF r.ok THEN r.rc ELSE -1

Fail(e) == Return(Failed(e))

Abort(which) ==
    pc' = "aborted" /\ ret' = Failed(which) /\ UNCHANGED <<f, ext, img, prev>>

\* _libelf_extent_is_unused and _libelf_insert_extent.  The walk over the list
\* stops at position p, after the extents that end before the new one starts;
\* the range is unused if the next extent starts after the new one ends.
IsSlot(p, start) ==
    /\ \A k \in 1..p - 1 : End(ext[k]) <= start
    /\ p <= Len(ext) => End(ext[p]) > start

Unused_Always(p, start, size) == TRUE
Unused(p, start, size) == p <= Len(ext) => start + size <= ext[p].start

InsertExtent(kind, start, size, s) ==
    /\ \E p \in 1..Len(ext) + 1 :
         /\ IsSlot(p, start) /\ Unused(p, start, size)
         /\ ext' = InsertAt(ext, p, [start |-> start, size |-> size, kind |-> kind, s |-> s])
    /\ UNCHANGED img

\* An extent is refused: it overlaps another one, or malloc fails.
RefuseExtent(start, size) ==
    \E p \in 1..Len(ext) + 1 :
        /\ IsSlot(p, start)
        /\ Fail(IF Unused(p, start, size) THEN "RESOURCE" ELSE "LAYOUT")

BeginUpdate(c) ==
    /\ pc = "idle" /\ nupd < MaxUpdates /\ nupd' = nupd + 1
    /\ IF c = "WRITE" /\ cmd = "READ"
       THEN ret' = Failed("MODE") /\ UNCHANGED <<pc, f>>
       ELSE pc' = "ehdr" /\ f' = [NoFrame EXCEPT !.op = c] /\ ret' = Failed("none")
    /\ UNCHANGED <<obj, ext, img, prev>>

\* What the executable header is refused for.  A new object takes the byte order
\* its header asks for; any other must keep the one of its file.
EhdrError ==
    CASE eh.fault = "version" -> "VERSION"
      [] eh.fault = "class" -> "CLASS"
      [] eh.fault = "offset" \/ (eh.fault = "order" /\ cmd # "WRITE") -> "HEADER"
      [] OTHER -> "none"

ResyncEhdr ==
    /\ pc = "ehdr"
    /\ \/ EhdrError # "none" /\ Fail(EhdrError)
       \/ /\ EhdrError = "none" /\ InsertExtent("EHDR", 0, EhdrSize, 0)
          /\ f' = [f EXCEPT !.rc = EhdrSize]
          /\ Continue(IF phnum > 0 THEN "phdr" ELSE "scn")
       \/ EhdrError = "none" /\ RefuseExtent(0, EhdrSize)
    /\ UNCHANGED <<obj, nupd>>

PhOff == IF layout THEN eh.phoff ELSE roundup(EhdrSize, PhdrAlign)

ResyncPhdr ==
    LET fsz == PhentSize * phnum
        bad == layout /\ (f.rc > PhOff \/ PhOff % PhdrAlign # 0)
    IN  /\ pc = "phdr"
        /\ \/ bad /\ Fail("LAYOUT")
           \/ ~bad /\ RefuseExtent(PhOff, fsz)
           \/ /\ ~bad /\ InsertExtent("PHDR", PhOff, fsz, 0)
              /\ f' = [f EXCEPT !.rc = PhOff + fsz]
              /\ Continue("scn")
        /\ UNCHANGED <<obj, nupd>>

\* The end of _libelf_compute_section_extents for section s, and the rest of the
\* loop body of _libelf_resync_sections.
PlaceScn(s) ==
    /\ scn' = [scn EXCEPT ![f.si] = [s EXCEPT !.soff = s.off, !.ssize = s.size]]
    /\ \/ /\ s.size = 0 /\ UNCHANGED <<ext, img>>
          /\ f' = [f EXCEPT !.si = @ + 1]
          /\ Continue("scn")
       \/ /\ s.size > 0 /\ InsertExtent("SECTION", s.off, s.size, f.si)
          /\ f' = [f EXCEPT !.si = @ + 1, !.rc = Bigger(@, s.off + s.size)]
          /\ Continue("scn")
       \/ s.size > 0 /\ RefuseExtent(s.off, s.size)

\* sh_addralign as compute_section_extents uses it.
ShAlign(s) == IF s.align = 0 THEN FAlign[s.type] ELSE s.align

ResyncScnSkip ==
    /\ pc = "scn" /\ f.si <= Len(scn) /\ ~InFile(scn[f.si])
    /\ f' = [f EXCEPT !.si = @ + 1]
    /\ UNCHANGED <<obj, pc, ext, img, ret, nupd, prev>>

\* A section that was neither loaded nor changed keeps the size in its header.
ResyncScnClean ==
    LET s == scn[f.si]
    IN  /\ pc = "scn" /\ f.si <= Len(scn) /\ s.type \in DOMAIN FAlign
        /\ s.data = <<>> /\ ~s.dirty
        /\ PlaceScn(IF layout THEN s
                    ELSE [s EXCEPT !.align = ShAlign(s), !.off = roundup(f.rc, ShAlign(s))])
        /\ UNCHANGED <<objButScn, nupd>>

\* The other sections are sized from their descriptors, loaded first if need be.
ResyncScnBegin ==
    LET s == scn[f.si]
        load == s.data = <<>> /\ cmd # "WRITE"
    IN  /\ pc = "scn" /\ f.si <= Len(scn) /\ s.type \in DOMAIN FAlign
        /\ s.data # <<>> \/ s.dirty
        /\ load => Loadable(s)
        /\ scn' = IF load THEN [scn EXCEPT ![f.si].data = <<Loaded(s)>>] ELSE scn
        /\ f' = [f EXCEPT !.di = 1, !.ssz = 0, !.sal = 0]
        /\ Continue("data")
        /\ UNCHANGED <<objButScn, ext, img, nupd>>

ResyncScnError ==
    LET s == scn[f.si]
        load == s.data = <<>> /\ s.dirty /\ cmd # "WRITE"
    IN  /\ pc = "scn" /\ f.si <= Len(scn) /\ InFile(s)
        /\ \/ s.type = "UNKNOWN" /\ Fail("SECTION")
           \/ s.type # "UNKNOWN" /\ load /\ ~Loadable(s) /\ Fail("SECTION")
           \/ s.type # "UNKNOWN" /\ load /\ Loadable(s) /\ Fail("RESOURCE")
        /\ UNCHANGED <<obj, nupd>>

\* Where in the section a descriptor goes, and where it then ends.
DataOff(d) == IF layout THEN d.off ELSE roundup(f.ssz, d.align)

DataEnd(d) == DataOff(d) + d.size

\* What descriptor d is refused for: d_type and d_version are checked before the
\* alignment, the size of the type and d_size after it.
DataError(d) ==
    LET aligned == IsPowerOf2(d.align)
    IN  CASE d.fault = "version" -> "VERSION"
          [] d.fault # "version" /\ (d.fault \in {"type", "size"} \/ ~aligned) -> "DATA"
          [] d.fault = "msize" /\ aligned -> "UNIMPL"
          [] d.fault = "none" /\ aligned /\ layout /\ d.off % d.align # 0 -> "LAYOUT"
          [] OTHER -> "none"

\* One iteration over the data descriptors of the section.
ResyncData ==
    LET d == scn[f.si].data[f.di]
    IN  /\ pc = "data" /\ f.di <= Len(scn[f.si].data)
        /\ IF DataError(d) # "none" THEN Fail(DataError(d)) /\ UNCHANGED scn
           ELSE /\ scn' = [scn EXCEPT ![f.si].data[f.di].off = DataOff(d)]
                /\ f' = [f EXCEPT !.di = @ + 1, !.ssz = Bigger(@, DataEnd(d)),
                                  !.sal = Bigger(@, d.align)]
                /\ Continue("data") /\ UNCHANGED <<ext, img>>
        /\ UNCHANGED <<objButScn, nupd>>

\* The header the library computes for a section it has sized.
ComputedShdr_Accumulated(s) ==
    [s EXCEPT !.align = Bigger(ShAlign(s), f.sal), !.size = @ + f.ssz,
              !.off = roundup(f.rc, Bigger(ShAlign(s), f.sal))]
ComputedShdr(s) ==
    LET al == Bigger(ShAlign(s), f.sal)
    IN  [s EXCEPT !.align = al, !.size = f.ssz, !.off = roundup(f.rc, al)]

\* After the last descriptor: check the header under ELF_F_LAYOUT, or compute it.
ResyncScnEnd ==
    LET s == scn[f.si]
        bad == \/ f.sal > ShAlign(s) \/ s.off % ShAlign(s) # 0
               \/ s.size < f.ssz \/ s.off % FAlign[s.type] # 0
    IN  /\ pc = "data" /\ f.di > Len(s.data)
        /\ \/ layout /\ bad /\ Fail("LAYOUT") /\ UNCHANGED scn
           \/ layout /\ ~bad /\ PlaceScn(s)
           \/ ~layout /\ PlaceScn(ComputedShdr(s))
        /\ UNCHANGED <<objButScn, nupd>>

UpdatedEh(shoff) ==
    IF layout THEN eh
    ELSE [eh EXCEPT !.phoff = IF phnum = 0 THEN 0 ELSE PhOff, !.shoff = shoff]

\* The section header table, then e_phoff and e_shoff of the executable header.
ResyncShdr ==
    LET fsz == ShentSize * Len(scn)
        shoff == IF scn = <<>> THEN 0
                 ELSE IF layout THEN eh.shoff ELSE roundup(f.rc, ShdrAlign)
        bad == layout /\ shoff % ShdrAlign # 0
    IN  /\ pc = "scn" /\ f.si > Len(scn)
        /\ \/ scn # <<>> /\ bad /\ Fail("LAYOUT") /\ UNCHANGED eh
           \/ scn # <<>> /\ ~bad /\ RefuseExtent(shoff, fsz) /\ UNCHANGED eh
           \/ /\ IF scn = <<>> THEN UNCHANGED <<ext, img>>
                 ELSE ~bad /\ InsertExtent("SHDR", shoff, fsz, 0)
              /\ eh' = UpdatedEh(shoff)
              /\ f' = [f EXCEPT !.rc = Bigger(@, shoff + fsz)]
              /\ Continue("resynced")
        /\ UNCHANGED <<cmd, rawsize, fd, layout, phnum, scn, nupd>>

\* elf_update after a successful resync: return the size, or start writing.
AfterResync ==
    /\ pc = "resynced"
    /\ \/ f.op = "NULL" /\ Return([ok |-> TRUE, rc |-> f.rc, err |-> "none"])
       \/ f.op = "WRITE" /\ Fail(IF fd THEN "RESOURCE" ELSE "SEQUENCE")
       \/ /\ f.op = "WRITE" /\ fd
          /\ f' = [f EXCEPT !.si = 1, !.wrc = 0]
          /\ img' = [k \in 0..f.rc - 1 |-> <<"junk">>]
          /\ Continue("write") /\ UNCHANGED ext
    /\ UNCHANGED <<obj, nupd>>

----------------------------------------------------------------------------
(* _libelf_write_elf: si is the extent being written. *)

\* The image with the fill value from lo up to hi, and with n bytes copied at lo.
Filled(im, lo, hi) == [k \in DOMAIN im |-> IF lo <= k /\ k < hi THEN <<"fill">> ELSE im[k]]

Copied(im, lo, n, byte(_)) ==
    [k \in DOMAIN im |-> IF lo <= k /\ k < lo + n THEN byte(k - lo) ELSE im[k]]

\* The executable header and the two tables fill their extents.
WriteTable ==
    LET x == ext[f.si]
        byte(k) == <<x.kind, k>>
    IN  /\ pc = "write" /\ f.si <= Len(ext) /\ x.kind # "SECTION"
        /\ img' = Copied(Filled(img, f.wrc, x.start), x.start, x.size, byte)
        /\ f' = [f EXCEPT !.wrc = End(x), !.si = @ + 1]
        /\ Continue("write")
        /\ UNCHANGED <<obj, ext, nupd>>

\* Entry of _libelf_write_scn, after the gap before the extent is filled.
WriteScnBegin ==
    LET x == ext[f.si]
        s == scn[x.s]
    IN  /\ pc = "write" /\ f.si <= Len(ext) /\ x.kind = "SECTION"
        /\ IF s.soff % FAlign[s.type] # 0 THEN Abort("assert:falign")
           ELSE /\ img' = Filled(img, f.wrc, x.start)
                /\ f' = [f EXCEPT !.nrc = x.start, !.di = 1]
                /\ Continue(IF s.data = <<>> THEN "wraw" ELSE "wscn")
                /\ UNCHANGED ext
        /\ UNCHANGED <<obj, nupd>>

\* The bytes of a section without descriptors come from the original file.
RawByte_NewOffset(s, k) == <<"raw", s.off + k>>
RawByte(s, k) == <<"raw", s.rawoff + k>>

\* A section without descriptors is copied from its place in the original file,
\* through elf_rawdata, which checks the section's header against that file.
WriteRaw ==
    LET s == scn[ext[f.si].s]
        byte(k) == RawByte(s, k)
    IN  /\ pc = "wraw"
        /\ \/ cmd = "WRITE" /\ Fail("ARGUMENT")
           \/ cmd # "WRITE" /\ s.off + s.size > rawsize /\ Fail("SECTION")
           \/ cmd # "WRITE" /\ s.off + s.size <= rawsize /\ Fail("RESOURCE")
           \/ /\ cmd # "WRITE" /\ s.off + s.size <= rawsize
              /\ img' = Copied(img, s.soff, s.size, byte)
              /\ f' = [f EXCEPT !.nrc = s.soff + s.size]
              /\ Continue("wscn") /\ UNCHANGED ext
        /\ UNCHANGED <<obj, nupd>>

\* The bytes of descriptor d, the j-th of section i.
DataByte(i, j, d, k) == IF d.src = -1 THEN <<"app", i, j, k>> ELSE <<"raw", d.src + k>>

\* One iteration over the descriptors of the section.
WriteData ==
    LET x == ext[f.si]
        d == scn[x.s].data[f.di]
        at == scn[x.s].soff + d.off
        byte(k) == DataByte(x.s, f.di, d, k)
    IN  /\ pc = "wscn" /\ f.di <= Len(scn[x.s].data)
        /\ IF ~d.buf THEN Abort("assert:d_buf")
           ELSE /\ img' = Copied(Filled(img, f.nrc, at), at, d.size, byte)
                /\ f' = [f EXCEPT !.nrc = at + d.size, !.di = @ + 1]
                /\ Continue("wscn") /\ UNCHANGED ext
        /\ UNCHANGED <<obj, nupd>>

\* The section is written: its extent must have been filled to its end.
WriteScnEnd ==
    LET x == ext[f.si]
    IN  /\ pc = "wscn" /\ f.di > Len(scn[x.s].data)
        /\ IF f.nrc # End(x) THEN Abort("assert:extent")
           ELSE /\ f' = [f EXCEPT !.wrc = f.nrc, !.si = @ + 1]
                /\ Continue("write") /\ UNCHANGED <<ext, img>>
        /\ UNCHANGED <<obj, nupd>>

\* The image is complete; truncating, writing and remapping the file may fail.
Commit ==
    /\ pc = "write" /\ f.si > Len(ext)
    /\ IF f.wrc # f.rc THEN Abort("assert:newsize")
       ELSE /\ pc' = "written" /\ UNCHANGED <<f, ext, img, prev>>
            /\ ret' \in {[ok |-> TRUE, rc |-> f.rc, err |-> "none"], Failed("IO")}
    /\ UNCHANGED <<obj, nupd>>

ResyncStep ==
    \/ ResyncEhdr \/ ResyncPhdr \/ ResyncScnSkip \/ ResyncScnClean \/ ResyncScnBegin
    \/ ResyncScnError \/ ResyncData \/ ResyncScnEnd \/ ResyncShdr \/ AfterResync

WriteStep ==
    \/ WriteTable \/ WriteScnBegin \/ WriteRaw \/ WriteData \/ WriteScnEnd \/ Commit

Next == AppNext \/ (\E c \in {"NULL", "WRITE"} : BeginUpdate(c)) \/ ResyncStep \/ WriteStep

Spec == Init /\ [][Next]_vars

----------------------------------------------------------------------------
(* Properties *)

\* Every variable has its type.
TypeOK ==
    /\ cmd \in {"READ", "RDWR", "WRITE"} /\ rawsize \in Nat /\ fd \in BOOLEAN
    /\ layout \in BOOLEAN /\ eh \in EhdrRec /\ phnum \in Nat
    /\ scn \in Seq(ScnRec)
    /\ pc \in {"idle", "ehdr", "phdr", "scn", "data", "resynced", "write", "wraw", "wscn",
               "written", "aborted"}
    /\ f \in Frame /\ ext \in Seq(ExtRec) /\ nupd \in Nat
    /\ ret \in [ok : BOOLEAN, rc : Nat, err : Errors] /\ prev \in Nat \cup {-1}

\* The extent list is what _libelf_extent_is_unused assumes of it (elf_update.c:
\* 365): in ascending order of offset, no two extents overlapping.
ExtentsSorted ==
    \A i, j \in DOMAIN ext : i < j => End(ext[i]) <= ext[j].start

\* The running size of the object is the end of the last extent, wherever under
\* ELF_F_LAYOUT the sections and the tables were placed; it is the size of the
\* buffer elf_update mallocs and of the file it writes.
SizeIsEnd == ext # <<>> => f.rc = End(ext[Len(ext)])

\* When the layout is accepted each descriptor lies inside its section and, when
\* sh_addralign is a power of two, at an offset of the file that its own d_align
\* divides, in both layout modes.
DataPlaced ==
    pc = "resynced" =>
        \A i \in DOMAIN scn : scn[i].type \in DOMAIN FAlign /\ IsPowerOf2(scn[i].align) =>
            \A j \in DOMAIN scn[i].data :
                LET d == scn[i].data[j]
                IN  /\ d.off + d.size <= scn[i].ssize
                    /\ (scn[i].soff + d.off) % d.align = 0

\* The bytes section i has in an image: those of the last descriptor covering
\* them, those of the original file, or the fill value.
ScnByte(i, k) ==
    LET s == scn[i]
        cover == {j \in DOMAIN s.data : s.data[j].off <= k /\ k < s.data[j].off + s.data[j].size}
        j == CHOOSE j \in cover : \A h \in cover : h <= j
    IN  IF s.data = <<>> THEN <<"raw", s.rawoff + k>>
        ELSE IF cover = {} THEN <<"fill">>
        ELSE DataByte(i, j, s.data[j], k - s.data[j].off)

\* The fill before descriptor h of section i starts where the descriptor listed
\* before it ends (elf_update.c:816).  Byte k is erased when that fill covers it
\* and no descriptor listed from h on writes it again.
Erased(i, k) ==
    LET s == scn[i]
        end(j) == s.data[j].off + s.data[j].size
    IN  \E h \in DOMAIN s.data :
          /\ (IF h = 1 THEN 0 ELSE end(h - 1)) <= k /\ k < s.data[h].off
          /\ \A j \in h..Len(s.data) : ~(s.data[j].off <= k /\ k < end(j))

\* The image handed to write(2) holds every header table and every section at
\* its place, the fill value everywhere else, and no byte of the malloc'ed
\* buffer that was never assigned.  Of a byte several descriptors hold the last
\* listed one decides, and a byte is lost to the fill exactly when it is Erased,
\* whatever the order an application laid the descriptors out in.
ImageRight ==
    pc = "written" => \A k \in DOMAIN img :
        LET in == {x \in ToSet(ext) : x.start <= k /\ k < End(x)}
            x == CHOOSE x \in in : TRUE
        IN  IF in = {} THEN img[k] = <<"fill">>
            ELSE IF x.kind # "SECTION" THEN img[k] = <<x.kind, k - x.start>>
            ELSE img[k] = IF Erased(x.s, k - x.start) THEN <<"fill">>
                          ELSE ScnByte(x.s, k - x.start)

\* Each descriptor of section i ends where the one listed before it ends, or later.
InOrder(i) ==
    \A j, h \in DOMAIN scn[i].data :
        j < h => scn[i].data[j].off + scn[i].data[j].size
                   <= scn[i].data[h].off + scn[i].data[h].size

\* Nothing a descriptor holds is erased from a section whose descriptors end in
\* the order they are listed in, as every layout of the library has them.
OrderedPlaced ==
    pc = "written" =>
        \A x \in ToSet(ext) : x.kind = "SECTION" /\ InOrder(x.s) =>
            \A k \in DOMAIN img :
                x.start <= k /\ k < End(x) => img[k] = ScnByte(x.s, k - x.start)

\* Whatever layout the library itself computes passes the walk's asserts about
\* extents (elf_update.c:1090 and 1096): the two passes agree on every size.
LibraryLayoutFits ==
    ret.err \in {"assert:extent", "assert:newsize"} => layout

\* ELF_E_LAYOUT is an error of the application's layout: the library never
\* refuses the layout it computed.
LibraryNeverOverlaps ==
    [][pc # "idle" /\ ~layout => ret'.err # "LAYOUT"]_vars

\* Under ELF_F_LAYOUT the library "only perform error checks" (elf_update.c:52):
\* no offset, size or alignment the application chose is changed.
LayoutUntouched ==
    [][pc # "idle" /\ layout =>
         /\ eh' = eh
         /\ \A i \in DOMAIN scn :
              /\ scn'[i].align = scn[i].align
              /\ scn'[i].off = scn[i].off /\ scn'[i].size = scn[i].size]_vars

\* elf_update(e, ELF_C_NULL) reaches a fixed point: called again on an object
\* the application has not touched, it returns the same size.
ResyncStable ==
    [][pc # "idle" /\ pc' = "idle" /\ prev # -1 /\ ret'.ok => ret'.rc = prev]_vars

(* What the code or its documentation says and the code does not do. *)

\* assert(ex->ex_start + ex->ex_size == nrc), elf_update.c:1090
ExtentFilled == ret.err # "assert:extent"

\* assert(sh_off % _libelf_falign(elftype, ec) == 0), elf_update.c:758
SectionAligned == ret.err # "assert:falign"

\* assert(d->d_buf != NULL), elf_update.c:823
BufferPresent == ret.err # "assert:d_buf"

\* An application that lays out the object sets d_off to the offset "at which the
\* descriptor's data should be placed" (elf_update.3:236), in any order.
DescriptorsPlaced ==
    pc = "written" =>
        \A x \in ToSet(ext) : x.kind = "SECTION" =>
            \A k \in x.start..End(x) - 1 : img[k] = ScnByte(x.s, k - x.start)

\* elf_update "only retrieved/modified a few sections" (elf_update.c:1031): a
\* section of the file that was left alone is carried over, wherever it goes.
UntouchedCarriedOver ==
    [][pc = "wraw" => ret'.err # "SECTION"]_vars

\* "The `s_rawoff' member contains the offset into the original file, while
\* `s_offset' contains its new location" (elf_update.c:766): contents brought in
\* from the file are the section's own.
LoadedFromFile ==
    \A i \in DOMAIN scn : \A j \in DOMAIN scn[i].data :
        scn[i].data[j].src \in {-1, scn[i].rawoff}
=============================================================================
