----------------------------- MODULE ElfObject ------------------------------
(***************************************************************************)
(* One descriptor of an ELF object: the header and the tables libelf reads *)
(* from the file when they are first asked for, those the application      *)
(* adds, and the commit of elf_update (src/libelf/libelf_ehdr.c,           *)
(* libelf_phdr.c, elf_scn.c, libelf_extended.c, elf_update.c).             *)
(*                                                                         *)
(* The bytes are abstracted to the number of entries of each table; what   *)
(* the layout decides is the module ElfLayout.  The calls are atomic; the  *)
(* commit, which another process can see, is a step for each system call.  *)
(* A helper is the set of its results: the descriptor it leaves, whether   *)
(* it succeeded, and the assertion it stopped at.                          *)
(***************************************************************************)
EXTENDS Integers, Sequences

CONSTANTS
    LoReserve,   \* SHN_LORESERVE: a section count from here on is "extended"
    XNum,        \* PN_XNUM, for program headers
    MaxScns,     \* bound: sections
    MaxPhdrs,    \* bound: program headers
    MaxUpdates   \* bound: successful commits

ASSUME ObjectAssumption ==
    /\ LoReserve \in Nat \ {0} /\ XNum \in Nat \ {0}
    /\ MaxScns \in Nat /\ MaxPhdrs \in Nat /\ MaxUpdates \in Nat

NoTab == -1

VARIABLES
    disk,     \* what the file holds
    img,      \* what e_rawfile holds
    e,        \* the descriptor
    step,     \* how far elf_update(e, ELF_C_WRITE) is in its commit
    stop,     \* the assertion that failed, or the stray store
    commits   \* successful commits

objectVars == <<disk, img, e, step, stop, commits>>

\* A file: entries of its tables, the entries of the section header table that
\* were written (the rest is what malloc returned), whether e_shstrndx is
\* SHN_XINDEX, and its damage: of e_shnum, of the type of section 0, of e_shoff or
\* e_shentsize, of e_phoff; or a file with nothing, or a part, of its bytes.
Image == [nsh : Nat, rows : SUBSET Nat, nph : Nat, xstr : BOOLEAN,
          fault : {"none", "header", "sh0", "table", "phtab", "empty", "torn"}]
Empty == [nsh |-> 0, rows |-> {}, nph |-> 0, xstr |-> FALSE, fault |-> "empty"]

\* The counts are in section header 0 when a field of the header cannot hold one.
Extended(i) == i.nsh >= LoReserve \/ i.nph >= XNum \/ i.xstr

\* e_cmd; e_class is known; e_ehdr, with its e_shnum and whether its e_shstrndx
\* is SHN_XINDEX; the entries of e_phdr; e_nscn and e_nphdr; the indices in the
\* list e_scn; LIBELF_F_SHDRS_LOADED; and what e_rawfile points to: a private
\* mapping or copy of the file, a mapping already undone, MAP_FAILED, or NULL.
Descriptor == [cmd : {"READ", "RDWR", "WRITE"}, class : BOOLEAN, hdr : BOOLEAN,
               shnum : Nat, xstr : BOOLEAN, ph : Nat \cup {NoTab}, nscn : Nat,
               nphdr : Nat, scns : Seq(Nat), loaded : BOOLEAN,
               raw : {"mapped", "copy", "unmapped", "failed", "none"}]
Opened(c, r) == [cmd |-> c, class |-> c # "WRITE", hdr |-> FALSE, shnum |-> 0,
                 xstr |-> FALSE, ph |-> NoTab, nscn |-> 0, nphdr |-> 0,
                 scns |-> <<>>, loaded |-> FALSE, raw |-> r]

Faults == {"none", "header", "sh0", "table", "phtab"}
ObjectFiles == {i \in [nsh : 0..MaxScns, rows : {0..n : n \in -1..MaxScns - 1},
                 nph : 0..MaxPhdrs, xstr : BOOLEAN, fault : Faults] :
              i.rows = 0..i.nsh - 1}

ObjectInit ==
    /\ step = "idle" /\ stop = "no" /\ commits = 0
    /\ \/ e = Opened("WRITE", "none") /\ img = Empty /\ disk = Empty
       \/ /\ disk \in ObjectFiles /\ img = disk
          /\ e \in {Opened(c, r) : c \in {"READ", "RDWR"}, r \in {"mapped", "copy"}}

Listed(d) == {d.scns[k] : k \in DOMAIN d.scns}

----------------------------------------------------------------------------
(* The helpers. *)

Ok(d) == [d |-> d, ok |-> TRUE, stop |-> "no"]
Fail(d) == [d |-> d, ok |-> FALSE, stop |-> "no"]
Abort(d, why) == [d |-> d, ok |-> FALSE, stop |-> why]

\* The results of a call followed, when it succeeds, by another.
Then(rs, Next_(_)) == UNION {IF r.ok THEN Next_(r.d) ELSE {r} : r \in rs}

\* _libelf_load_extended: section 0 is listed, then its type is checked.  The count
\* of sections is its sh_size, which is 0 unless e_shnum could not hold the count.
LoadExtended(d) ==
    IF d.scns # <<>> THEN {Abort(d, "listed")}
    ELSE LET s == [d EXCEPT !.scns = <<0>>]
         IN  {Fail(d), IF img.fault = "sh0" \/ 0 \notin img.rows THEN Fail(s)
                       ELSE Ok([s EXCEPT !.nscn = IF img.nsh >= LoReserve THEN img.nsh ELSE 0,
                                         !.nphdr = img.nph])}

\* _libelf_ehdr: the header is translated and kept before its fields are checked.
Translated(d) ==
    LET h == [d EXCEPT !.hdr = TRUE, !.xstr = img.xstr,
                       !.shnum = IF img.nsh < LoReserve THEN img.nsh ELSE 0]
    IN  IF img.fault = "header" \/ (img.nsh = 0 /\ Extended(img)) THEN {Fail(h)}
        ELSE IF Extended(img) THEN LoadExtended(h)
        ELSE {Ok([h EXCEPT !.nscn = img.nsh, !.nphdr = img.nph])}

Ehdr(d) ==
    LET c == [d EXCEPT !.class = TRUE]
    IN  IF c.hdr THEN {Ok(c)}
        ELSE {Fail(c)} \cup
             (IF c.cmd = "WRITE"
              THEN {Ok([c EXCEPT !.hdr = TRUE, !.shnum = 0, !.xstr = FALSE])}
              ELSE Translated(c))

\* _libelf_load_section_headers, where it is called: a section that is listed
\* already is taken to be section 0; it stops when memory runs out.
Table(d) ==
    LET from == Len(d.scns)
        Upto(k) == [d EXCEPT !.scns = @ \o [j \in 1..k - from |-> from + j - 1]]
    IN  {Fail(Upto(k)) : k \in from..d.nscn - 1} \cup
        {Ok([Upto(d.nscn) EXCEPT !.loaded = TRUE])}

LoadSections_Never(d) == {Ok(d)}
LoadSections(d) ==
    IF d.cmd = "WRITE" \/ d.loaded THEN {Ok(d)}
    ELSE (IF img.fault \in {"table", "header"} THEN {Fail(d)} ELSE {}) \cup
         (IF img.fault = "table" THEN {}
          ELSE IF Len(d.scns) > 1 THEN {Abort(d, "single")}
          ELSE Table(d))

\* _libelf_getphdr.
ReadPhdrs(d) ==
    IF d.nphdr = 0 THEN {Abort(d, "nophdr")}
    ELSE {Fail(d)} \cup
         (IF d.cmd = "WRITE" \/ img.fault = "phtab" THEN {} ELSE {Ok([d EXCEPT !.ph = d.nphdr])})

Phdrs(d) == IF d.ph # NoTab THEN {Ok(d)} ELSE Then(Ehdr(d), ReadPhdrs)

\* _libelf_getscn0.
Scn0(d) == IF d.scns = <<>> THEN [d EXCEPT !.scns = <<0>>] ELSE d

----------------------------------------------------------------------------
(* elf_update: _libelf_resync_elf, then the image built in memory. *)

\* A program header table that cannot be read is not an error here.
Forgive(rs) == {[r EXCEPT !.ok = r.stop = "no"] : r \in rs}
PhdrsIfAny(d) == IF d.nphdr > 0 THEN Phdrs(d) ELSE {Ok(d)}
ResyncPhdrs(d) == Forgive(PhdrsIfAny(d))

\* _libelf_setphnum and _libelf_setshnum.  The layout comes before, and may fail.
Numbered(d) ==
    [(IF d.nscn >= LoReserve \/ d.nphdr >= XNum THEN Scn0(d) ELSE d)
        EXCEPT !.shnum = IF d.nscn < LoReserve THEN d.nscn ELSE 0]
Layout(d) == {Fail(d), Ok(Numbered(d))}

Resync(d) == Then(Then(Then(Ehdr(d), ResyncPhdrs), LoadSections), Layout)

\* The translation of the data of a section may fail.
Build(d) == {Fail(d)} \cup PhdrsIfAny(d)

\* What is written: _libelf_write_shdr fills the entries of the listed sections.
Written(d) == [nsh |-> d.nscn, rows |-> IF d.nscn = 0 THEN {} ELSE Listed(d),
               nph |-> d.nphdr, xstr |-> d.xstr, fault |-> "none"]

----------------------------------------------------------------------------
(* The calls. *)

Idle == step = "idle" /\ stop = "no"

Call(rs) ==
    /\ Idle
    /\ \E r \in rs : e' = r.d /\ stop' = r.stop
    /\ UNCHANGED <<disk, img, step, commits>>

\* elf32_getehdr, elf32_newehdr, elf_getshdrnum, elf_getphdrnum and the others
\* that only need the header.
GetEhdr == Call(Ehdr(e))
GetPhdr == Call(Phdrs(e))

\* elf_getscn and elf_nextscn.
GetScn == e.class /\ Call(Then(Ehdr(e), LoadSections))

\* _libelf_newphdr: the old table is freed, the new one has n entries.
NewTable(d, n) == [d EXCEPT !.ph = IF n = 0 THEN NoTab ELSE n, !.nphdr = n]

NewPhdr(n) ==
    LET New(d) == {Ok(NewTable(d, n))} \cup (IF n > 0 THEN {Fail(d)} ELSE {})
    IN  Call(Then(Ehdr(e), New))

\* elf_newscn: an empty list first gets section 0.
Append1(d) ==
    LET z == [d EXCEPT !.scns = <<0>>, !.nscn = 1]
        Add(x) == {Fail(x), Ok([x EXCEPT !.scns = Append(@, x.nscn), !.nscn = @ + 1])}
    IN  IF d.scns = <<>>
        THEN IF d.nscn > 0 THEN {Abort(d, "counted")} ELSE {Fail(d)} \cup Add(z)
        ELSE IF d.nscn = 0 THEN {Abort(d, "uncounted")} ELSE Add(d)

NewScn ==
    /\ e.class /\ e.nscn < MaxScns
    /\ Call(Then(Then(Ehdr(e), LoadSections), Append1))

\* elf_setshstrndx; big: the index is not below SHN_LORESERVE.
SetShstrndx(big) ==
    LET Set(d) == IF big THEN {Ok([Scn0(d) EXCEPT !.xstr = TRUE])}
                              \cup (IF d.scns = <<>> THEN {Fail(d)} ELSE {})
                  ELSE {Ok([d EXCEPT !.xstr = FALSE])}
    IN  e.class /\ Call(Then(Ehdr(e), Set))

\* gelf_update_phdr: the entry is stored in the table wherever that is.
GelfUpdatePhdr(n) ==
    LET Store(d) == IF d.cmd = "READ" \/ n > d.nphdr THEN {Fail(d)}
                    ELSE IF n < d.ph THEN {Ok(d)} ELSE {Abort(d, "stray")}
    IN  e.class /\ Call(Then(Ehdr(e), Store))

UpdateNull == e.class /\ Call(Resync(e))

----------------------------------------------------------------------------
(* elf_update(e, ELF_C_WRITE): the commit. *)

UpdateWrite ==
    /\ Idle /\ e.class /\ e.cmd # "READ" /\ commits < MaxUpdates
    /\ \E r \in Then(Resync(e), Build) :
          /\ e' = r.d /\ stop' = r.stop
          /\ step' = IF r.ok THEN "built" ELSE "idle"
    /\ UNCHANGED <<disk, img, commits>>

\* A system call of the commit fails: elf_update returns -1.
GiveUp == step' = "idle" /\ UNCHANGED <<img, stop, commits>>

\* ftruncate and lseek.
Truncate ==
    /\ step = "built" /\ UNCHANGED e
    /\ \/ disk' \in {disk, Empty} /\ GiveUp
       \/ disk' = Empty /\ step' = "truncated" /\ UNCHANGED <<img, stop, commits>>

\* munmap of a file that was mapped; it refuses MAP_FAILED, and takes an
\* address that is no longer mapped.
IsMapped == e.raw \in {"mapped", "unmapped", "failed"}

Unmap ==
    /\ step = "truncated" /\ IsMapped /\ UNCHANGED disk
    /\ \/ e' = e /\ GiveUp
       \/ /\ e.raw # "failed" /\ e' = [e EXCEPT !.raw = "unmapped"]
          /\ step' = "unmapped" /\ UNCHANGED <<img, stop, commits>>

WriteOut ==
    /\ step = "unmapped" \/ (step = "truncated" /\ ~IsMapped)
    /\ UNCHANGED e
    /\ \/ disk' \in {Empty, [Written(e) EXCEPT !.fault = "torn"]} /\ GiveUp
       \/ disk' = Written(e) /\ step' = "written" /\ UNCHANGED <<img, stop, commits>>

\* What is forgotten after the write; e_nscn, e_nphdr and the flag
\* LIBELF_F_SHDRS_LOADED are not.
Forget(d) == [d EXCEPT !.scns = <<>>, !.hdr = FALSE, !.ph = NoTab]

Finish ==
    /\ step = "written" /\ step' = "idle" /\ UNCHANGED <<disk, stop>>
    /\ \/ /\ e.raw = "unmapped" /\ e' = [e EXCEPT !.raw = "failed"]
          /\ UNCHANGED <<img, commits>>
       \/ /\ e' = Forget([e EXCEPT !.raw = IF @ = "unmapped" THEN "mapped" ELSE @])
          /\ img' = IF e.cmd = "RDWR" THEN disk ELSE img
          /\ commits' = commits + 1

Commit == Truncate \/ Unmap \/ WriteOut \/ Finish

ObjectNext ==
    \/ GetEhdr \/ GetPhdr \/ GetScn \/ NewScn \/ UpdateNull \/ UpdateWrite \/ Commit
    \/ \E n \in 0..MaxPhdrs : NewPhdr(n) \/ GelfUpdatePhdr(n)
    \/ \E big \in BOOLEAN : SetShstrndx(big)

ObjectSpec == ObjectInit /\ [][ObjectNext]_objectVars

----------------------------------------------------------------------------
(* What holds. *)

\* The types of the state: counters, lists and the steps of the commit.
ObjectTypeOK ==
    /\ disk \in Image /\ img \in Image /\ e \in Descriptor /\ commits \in Nat
    /\ step \in {"idle", "built", "truncated", "unmapped", "written"}
    /\ stop \in {"no", "listed", "single", "nophdr", "counted", "uncounted", "stray"}

\* No two sections of a descriptor have one index, whatever the order of reading
\* them, adding them, setting section 0 up by itself, running out of memory half
\* way and starting again.
IndicesDistinct == \A j, k \in DOMAIN e.scns : e.scns[j] = e.scns[k] => j = k

\* The program header table in memory has e_nphdr entries: callers index it with
\* that count, which other calls read from the file again or set.
PhdrTableFits == e.ph # NoTab => e.ph = e.nphdr

\* Reading section 0 for the extended counts never finds a section already
\* listed (the assertion of _libelf_load_extended), not even after a commit.
ExtendedFindsEmptyList == stop # "listed"

\* After an update that failed with the file unmapped, no later call reads a
\* header or a table from the addresses the file was mapped at: each is either
\* in memory or has no entries.
TablesNeverReadUnmapped ==
    e.raw \in {"unmapped", "failed"} =>
        /\ e.hdr /\ e.loaded
        /\ e.ph = NoTab => e.nphdr = 0

\* The first file a descriptor writes has every entry of its section header
\* table filled in, and no section fewer than the file it was read from when
\* the counts of that file are in its header.
FirstCommitComplete ==
    [][commits = 0 /\ commits' = 1 =>
        /\ disk.rows = 0..disk.nsh - 1
        /\ img.fault \in {"none", "phtab"} /\ ~Extended(img) => disk.nsh >= img.nsh]_objectVars

----------------------------------------------------------------------------
(* What the comments, assertions and manual pages say and the code does not do. *)

\* "Reset flags, remove existing section descriptors and {E,P}HDR pointers so
\* that a subsequent elf_get{e,p}hdr() and elf_getscn() will function correctly"
\* (elf_update.c): elf_getscn finds every section that is counted.
GetScnFindsSections == Idle /\ e.hdr /\ e.loaded => Listed(e) = 0..e.nscn - 1

\* assert(e->e_u.e_elf.e_nscn == 0) in elf_newscn.
NewScnStartsAtZero == stop # "counted"

\* elf32_getphdr retrieves program headers "if this information exists"
\* (gelf_getphdr.3), and otherwise returns NULL.
GetPhdrReturns == stop # "nophdr"

\* elf_getshdrnum "retrieves the number of ELF sections" (elf_getshdrnum.3): when
\* the header of a sound file is in memory its counts are too.
HeaderHasCounts ==
    e.hdr /\ commits = 0 /\ img.fault = "none" /\ (img.nsh > 0 \/ ~Extended(img)) =>
        e.nscn >= img.nsh

\* elf_newscn "will automatically increment the e_shnum field of the ELF header"
\* (elf_getscn.3).
NewScnIncrementsHeader ==
    [][e.hdr /\ e'.hdr /\ e'.nscn = e.nscn + 1 /\ e'.nscn < LoReserve =>
        e'.shnum = e.shnum + 1]_objectVars

\* gelf_update_phdr "updates the ELF Program Header structure at index ndx"
\* (gelf_update_ehdr.3): it stores inside the table.
UpdatesInsideTable == stop # "stray"

\* elf_rawfile "returns a valid pointer if successful or NULL" (elf_rawfile.3).
RawfileIsValid == Idle => e.raw \notin {"unmapped", "failed"}

\* "The library is capable of processing ELF objects that use extended section
\* numbering" (elf.3): what elf_update writes can be read.
WrittenCanBeRead == commits = 1 /\ Idle /\ disk.fault = "none" => disk.nsh > 0 \/ ~Extended(disk)
=============================================================================
